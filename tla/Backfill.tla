------------------------------ MODULE Backfill ------------------------------
(***************************************************************************)
(* backfillable.py: backfillable_check, around a collector's method that   *)
(* is asked for the rows of a target year.  The method (external) makes    *)
(* its rows one after another while the calendar may turn; the check looks *)
(* at the calendar once it has them all.                                   *)
(*                                                                         *)
(* A row is the year of its as_of_date or date column, and the year of the *)
(* first other date it has, such as an ingested_at; 0 is no date.          *)
(***************************************************************************)
EXTENDS Integers, Sequences

CONSTANTS
    Targets,            \* target_year as passed; 0 is none, or no int
    FirstYear, LastYear,\* the years the calendar goes through
    MaxRows             \* bound on the rows of one call

ASSUME YearAssumption ==
    FirstYear \in Nat \ {0} /\ LastYear \in Nat /\ FirstYear <= LastYear
ASSUME TargetAssumption == Targets \subseteq Nat
ASSUME MaxRowsAssumption == MaxRows \in Nat

VARIABLES
    year,               \* the year of date.today()
    step,               \* "idle" or "running"
    target,             \* target_year of the call
    rows,               \* what the method has made
    outcome,            \* "returned" or "refused", "none" before
    began               \* the year the call began in, for the properties

backfillVars == <<year, step, target, rows, outcome, began>>

DatedRow(dated, other) == [dated |-> dated, other |-> other]

BackfillInit ==
    /\ year = FirstYear
    /\ step = "idle"
    /\ target = 0
    /\ rows = <<>>
    /\ outcome = "none"
    /\ began = 0

-----------------------------------------------------------------------------
(* Wrong versions of the definitions below.                                *)

\* The first date of the row, whichever column it is in.
ExtractFirst(r) == IF r.other # 0 THEN r.other ELSE r.dated

\* Rows without a date count against the rows of this year.
RestampedAll == Len(rows) > 0 /\ \A i \in DOMAIN rows : rows[i].dated = year

\* The check raises for a method that makes no rows.
CheckEmpty ==
    /\ step = "running"
    /\ step' = "idle"
    /\ outcome' = IF rows = <<>> THEN "raised" ELSE "returned"
    /\ UNCHANGED <<year, target, rows, began>>

-----------------------------------------------------------------------------
\* _extract_year: None is 0.
ExtractYear(r) == IF r.dated # 0 THEN r.dated ELSE r.other

Datable == {i \in DOMAIN rows : ExtractYear(rows[i]) # 0}

\* today_count == len(datable_rows), of which there are some.
Restamped == Datable # {} /\ \A i \in Datable : ExtractYear(rows[i]) = year

Call(t) ==
    /\ step = "idle"
    /\ step' = "running"
    /\ target' = t
    /\ rows' = <<>>
    /\ outcome' = "none"
    /\ began' = year
    /\ UNCHANGED year

\* The method makes a row: of the target year, or with the date of now, or
\* with no date column; each with or without an ingested_at.
Produce ==
    /\ step = "running"
    /\ Len(rows) < MaxRows
    /\ \E dated \in {target, year, 0}, other \in {year, 0} :
          rows' = Append(rows, DatedRow(dated, other))
    /\ UNCHANGED <<year, step, target, outcome, began>>

\* What list(method(...)) gave is checked, and returned or refused whole.
Check ==
    /\ step = "running"
    /\ step' = "idle"
    /\ outcome' = IF target # 0 /\ Restamped /\ target # year THEN "refused"
                                                               ELSE "returned"
    /\ UNCHANGED <<year, target, rows, began>>

NewYear ==
    /\ year < LastYear
    /\ year' = year + 1
    /\ UNCHANGED <<step, target, rows, outcome, began>>

BackfillNext ==
    \/ \E t \in Targets : Call(t)
    \/ Produce
    \/ Check
    \/ NewYear

BackfillSpec == BackfillInit /\ [][BackfillNext]_backfillVars

-----------------------------------------------------------------------------
\* A call that has ended was returned or refused, also one without rows.
TypeOK ==
    /\ year \in FirstYear..LastYear
    /\ step \in {"idle", "running"}
    /\ Len(rows) <= MaxRows
    /\ outcome \in {"none", "returned", "refused"}
    /\ outcome # "none" <=> step = "idle" /\ began # 0

\* A call whose rows all have a date column of the target year is returned:
\* no ingested_at of today, no row of a past run and no New Year gets a true
\* backfill refused.
GenuineReturned ==
    outcome = "refused" => ~\A i \in DOMAIN rows : rows[i].dated = target

\* A call all of whose dated rows have the date of the day they were made,
\* some of them without a date next to them, is never returned for another
\* year, unless the year ends before the check: rows stamped in December are
\* not this year's to a check in January.
FakesRefused ==
    [][step = "running" /\ step' = "idle" /\ target \notin {0, began}
       /\ began = year
       /\ (\E i \in DOMAIN rows : rows[i].dated # 0)
       /\ (\A i \in DOMAIN rows : rows[i].dated \in {0, began})
       => outcome' = "refused"]_backfillVars

-----------------------------------------------------------------------------
\* The strengthening: the other dates of the rows of a call are of its time.
RowsOfCall ==
    /\ target \in Nat
    /\ rows \in Seq([dated : Nat, other : Nat])
    /\ began \in Nat /\ began <= year
    /\ step = "running" => began # 0
    /\ \A i \in DOMAIN rows : rows[i].other = 0 \/ rows[i].other \in began..year

\* The inductive invariant of Calendar_proofs.
BackfillInv == TypeOK /\ RowsOfCall /\ GenuineReturned
=============================================================================
