------------------------------ MODULE Failover ------------------------------
(***************************************************************************)
(* What a fallback chain promises its caller, whatever the providers do:   *)
(* they are tried strictly in their order, each is given up for good once  *)
(* it has failed, and the call ends in exactly one way: with the answer of *)
(* the first provider that does not fail, with an error once all have      *)
(* failed, or cancelled.  ProviderChain.tla is shown to implement this.    *)
(***************************************************************************)
EXTENDS Naturals

CONSTANT N          \* the number of providers

VARIABLES
    given_up,       \* how many providers have failed
    outcome         \* "open", "answered", "failed" or "cancelled"

fvars == <<given_up, outcome>>

Init == given_up = 0 /\ outcome = "open"

GiveUp ==
    /\ outcome = "open" /\ given_up < N
    /\ given_up' = given_up + 1
    /\ UNCHANGED outcome

\* The provider after those given up answers.
Answer ==
    /\ outcome = "open" /\ given_up < N
    /\ outcome' = "answered"
    /\ UNCHANGED given_up

Fail ==
    /\ outcome = "open" /\ given_up = N
    /\ outcome' = "failed"
    /\ UNCHANGED given_up

Cancel ==
    /\ outcome = "open"
    /\ outcome' = "cancelled"
    /\ UNCHANGED given_up

Next == GiveUp \/ Answer \/ Fail \/ Cancel

Spec == Init /\ [][Next]_fvars

\* A call that is not cancelled is answered or fails.
LiveSpec == Spec /\ WF_fvars(GiveUp \/ Answer \/ Fail)
=============================================================================
