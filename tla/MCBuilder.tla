----------------------------- MODULE MCBuilder -----------------------------
EXTENDS Builder, TLC

Symmetry == Permutations(Thread)

Good == [kind |-> "normalized", missing |-> {}, payload |-> {}, rows |-> <<"ok", "bad">>,
         unlisted |-> {}, values |-> [dataset_id |-> {"named"}]]
Computed == [Good EXCEPT !.kind = "computed",
                         !.values = [dataset_id |-> {"named"}, chain_depth |-> {"named"},
                                     domain |-> {"named", "other"}]]

\* The second row, which is past the sample, may be anything, and so may the
\* domains of a computed frame.
AllFrames ==
    {Good, Computed, [Good EXCEPT !.rows = <<"bad">>],
     [Computed EXCEPT !.values["chain_depth"] = {"named", "other"}],
     [Computed EXCEPT !.unlisted = {"domain"}]}

\* As builders of PriceDaily have it: a column the base class does not know.
Priced == {[Good EXCEPT !.rows = <<"ok">>, !.payload = {"close"}]}
=============================================================================
