---------------------------- MODULE UsageLedger ----------------------------
(***************************************************************************)
(* What the usage log promises about one record of AI spend: once logged   *)
(* it is held by the process or by an open transaction, and it ends either *)
(* stored or lost, for good.  AIUsage.tla, the queue and its flush, is     *)
(* shown to implement this.                                                *)
(***************************************************************************)
CONSTANT Record

VARIABLE status     \* where each record stands

Phases == {"new", "held", "stored", "lost"}

\* A record stands in one of four phases.
TypeOK == status \in [Record -> Phases]

Init == status = [r \in Record |-> "new"]

Move(S, from, to) ==
    /\ \A r \in S : status[r] = from
    /\ status' = [r \in Record |-> IF r \in S THEN to ELSE status[r]]

Log(r) == Move({r}, "new", "held")

\* A batch becomes durable in one step.
Store(S) == Move(S, "held", "stored")

\* A crash, or a transaction rolled back by its owner.
Lose(S) == Move(S, "held", "lost")

Next ==
    \/ \E r \in Record : Log(r)
    \/ \E S \in SUBSET Record : Store(S) \/ Lose(S)

Spec == Init /\ [][Next]_status
=============================================================================
