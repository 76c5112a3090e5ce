------------------------------ MODULE AIUsage ------------------------------
(***************************************************************************)
(* The usage log of llm/usage.py: log_usage queues a record in memory,     *)
(* flush_usage copies the queue to the database and then empties it.       *)
(*                                                                         *)
(* flush_usage has two forms.  Without a bind it opens a Session of its    *)
(* own, commits it and closes it ("owned"); with a bind it inserts through *)
(* the caller's connection and leaves the commit to the caller.  Each of   *)
(* its statements that can fail is a step here, so that a failure or a     *)
(* crash may come between any two of them.                                 *)
(*                                                                         *)
(* The order of the queue is abstracted: rows are inserted in one          *)
(* executemany, and no property depends on which of them comes first.      *)
(***************************************************************************)
EXTENDS Integers

CONSTANTS
    Record,         \* the usage records callers will log, each once
    Rejected,       \* those the table refuses (a NULL in a NOT NULL column,
                    \* or a value longer than its String(n) on PostgreSQL)
    Taskless,       \* those they will try to log with no task to book them on
    MaxFaults       \* bound on the faults that leave rows behind

ASSUME RejectedAssumption == Rejected \subseteq Record
ASSUME TasklessAssumption == Taskless \cap Record = {}
ASSUME MaxFaultsAssumption == MaxFaults \in Nat

VARIABLES
    pending,        \* _pending_usage
    flush,          \* the running flush_usage: next statement, rows, owned
    txn,            \* rows of each record in the caller's open transaction
    aborted,        \* the caller's transaction can only be rolled back
    db              \* rows of each record committed in ai_usage

\* What happened so far, for the properties: the program keeps none of it.
VARIABLES
    logged,         \* records log_usage accepted
    window,         \* those accepted while a flush was running
    dropped,        \* those a crash or the caller's rollback took away
    doubtful,       \* those a failed flush left rows of behind
    acked,          \* those an owned flush_usage returned in its count
    faults          \* faults so far, at most MaxFaults

history == <<logged, window, dropped, doubtful, acked, faults>>
vars == <<pending, flush, txn, aborted, db, history>>

Steps == {"idle", "execute", "commit", "clear"}
Idle == [step |-> "idle", rows |-> {}, owned |-> FALSE]
None == [r \in Record |-> 0]

\* The row counts n after one more row for each record of S.
Add(n, S) == [r \in Record |-> IF r \in S THEN n[r] + 1 ELSE n[r]]

Sum2(m, n) == [r \in Record |-> m[r] + n[r]]
Copies(r) == txn[r] + db[r]
InTxn == {r \in Record : txn[r] > 0}
Stored == {r \in Record : db[r] > 0}

Init ==
    /\ pending = {}
    /\ flush = Idle
    /\ txn = None
    /\ aborted = FALSE
    /\ db = None
    /\ logged = {} /\ window = {} /\ dropped = {}
    /\ doubtful = {} /\ acked = {} /\ faults = 0

-----------------------------------------------------------------------------
(* Wrong versions of the steps below, each a mistake the code could make:  *)
(* the properties tell them from the right ones.                           *)

\* The rows leave the queue when they are copied out.
FlushBeginTakes(owned) ==
    /\ flush.step = "idle"
    /\ pending # {}
    /\ flush' = [step |-> "execute", rows |-> pending, owned |-> owned]
    /\ pending' = {}
    /\ UNCHANGED <<txn, aborted, db, history>>

\* Rows the table refuses are skipped (an INSERT OR IGNORE).
ExecuteIgnore ==
    /\ flush.step = "execute" /\ flush.owned
    /\ flush' = [flush EXCEPT !.step = "commit",
                             !.rows = flush.rows \ Rejected]
    /\ UNCHANGED <<pending, txn, aborted, db, history>>

\* The queue is cleared in the finally clause.
ExecuteFailClears ==
    /\ flush.step = "execute" /\ flush.owned
    /\ flush' = Idle
    /\ pending' = {}
    /\ UNCHANGED <<txn, aborted, db, history>>

\* The Session is closed without a commit.
CommitSkipped ==
    /\ flush.step = "commit"
    /\ flush' = [flush EXCEPT !.step = "clear"]
    /\ UNCHANGED <<pending, txn, aborted, db, history>>

\* The queue is not cleared after a successful flush.
ClearNothing ==
    /\ flush.step = "clear"
    /\ acked' = IF flush.owned THEN acked \union flush.rows ELSE acked
    /\ flush' = Idle
    /\ UNCHANGED <<pending, txn, aborted, db, logged, window, dropped, doubtful,
                   faults>>

\* The record is queued before its task is looked at.
LogUsageUnchecked(r) ==
    /\ r \notin logged
    /\ pending' = pending \union {r}
    /\ logged' = logged \union {r}
    /\ window' = IF flush.step = "idle" THEN window ELSE window \union {r}
    /\ UNCHANGED <<flush, txn, aborted, db, dropped, doubtful, acked, faults>>

-----------------------------------------------------------------------------
(* log_usage, by any thread, also while another thread's flush runs.  A    *)
(* call without a task, neither its own nor the log's, raises before        *)
(* anything changes: it is no step.                                         *)

LogUsage(r) ==
    /\ r \notin Taskless
    /\ r \notin logged
    /\ pending' = pending \union {r}
    /\ logged' = logged \union {r}
    /\ window' = IF flush.step = "idle" THEN window ELSE window \union {r}
    /\ UNCHANGED <<flush, txn, aborted, db, dropped, doubtful, acked, faults>>

-----------------------------------------------------------------------------
(* flush_usage, statement by statement.                                    *)

\* An empty queue returns 0 at once; otherwise the rows are copied out.
FlushBegin(owned) ==
    /\ flush.step = "idle"
    /\ pending # {}
    /\ flush' = [step |-> "execute", rows |-> pending, owned |-> owned]
    /\ UNCHANGED <<pending, txn, aborted, db, history>>

\* The insert succeeds.  Only an owned Session is committed here.
ExecuteOK ==
    /\ flush.step = "execute"
    /\ flush.rows \cap Rejected = {}
    /\ \/ /\ flush.owned
          /\ flush' = [flush EXCEPT !.step = "commit"]
          /\ UNCHANGED txn
       \/ /\ ~flush.owned
          /\ ~aborted
          /\ flush' = [flush EXCEPT !.step = "clear"]
          /\ txn' = Add(txn, flush.rows)
    /\ UNCHANGED <<pending, aborted, db, history>>

\* The insert raises.  The finally clause closes an owned Session, which
\* rolls it back; the queue keeps its records.
ExecuteFailOwned ==
    /\ flush.step = "execute" /\ flush.owned
    /\ flush' = Idle
    /\ UNCHANGED <<pending, txn, aborted, db, history>>

\* The same through the caller's connection, whose transaction stays open.
\* PostgreSQL aborts it; in SQLite the rows before the failure may stay in it.
ExecuteFailBound ==
    /\ flush.step = "execute" /\ ~flush.owned
    /\ flush' = Idle
    /\ \/ /\ aborted' = TRUE
          /\ UNCHANGED <<txn, doubtful, faults>>
       \/ UNCHANGED <<txn, aborted, doubtful, faults>>
       \/ /\ ~aborted
          /\ faults < MaxFaults
          /\ \E S \in SUBSET (flush.rows \ Rejected) :
                /\ S # {} /\ S # flush.rows
                /\ txn' = Add(txn, S)
                /\ doubtful' = doubtful \union S
          /\ faults' = faults + 1
          /\ UNCHANGED aborted
    /\ UNCHANGED <<pending, db, logged, window, dropped, acked>>

CommitOK ==
    /\ flush.step = "commit"
    /\ db' = Add(db, flush.rows)
    /\ flush' = [flush EXCEPT !.step = "clear"]
    /\ UNCHANGED <<pending, txn, aborted, history>>

\* The commit raises and nothing was committed.
CommitFail ==
    /\ flush.step = "commit"
    /\ flush' = Idle
    /\ UNCHANGED <<pending, txn, aborted, db, history>>

\* The commit took effect but its answer was lost, or close() raised after
\* it: the caller sees an exception and the queue is not emptied.
CommitUnacked ==
    /\ flush.step = "commit"
    /\ faults < MaxFaults
    /\ db' = Add(db, flush.rows)
    /\ doubtful' = doubtful \union flush.rows
    /\ faults' = faults + 1
    /\ flush' = Idle
    /\ UNCHANGED <<pending, txn, aborted, logged, window, dropped, acked>>

\* _pending_usage.clear() empties the whole queue, not the rows copied out.
ClearPending ==
    /\ flush.step = "clear"
    /\ pending' = {}
    /\ acked' = IF flush.owned THEN acked \union flush.rows ELSE acked
    /\ flush' = Idle
    /\ UNCHANGED <<txn, aborted, db, logged, window, dropped, doubtful, faults>>

-----------------------------------------------------------------------------
(* The caller that passed a bind ends its transaction; the process dies.   *)

EndTxn ==
    /\ flush.step = "idle"
    /\ InTxn # {} \/ aborted
    /\ txn' = None
    /\ aborted' = FALSE

CallerCommit ==
    /\ EndTxn
    /\ ~aborted
    /\ db' = Sum2(db, txn)
    /\ UNCHANGED <<pending, flush, history>>

CallerRollback ==
    /\ EndTxn
    /\ dropped' = dropped \union (InTxn \ (pending \union Stored))
    /\ UNCHANGED <<pending, flush, db, logged, window, doubtful, acked, faults>>

\* A process exit of any kind: the queue is only in memory, and nothing
\* flushes it on the way out.
Crash ==
    /\ pending' = {}
    /\ flush' = Idle
    /\ txn' = None
    /\ aborted' = FALSE
    /\ dropped' = dropped \union ((pending \union InTxn) \ Stored)
    /\ UNCHANGED <<db, logged, window, doubtful, acked, faults>>

Next ==
    \/ \E r \in Record \union Taskless : LogUsage(r)
    \/ \E owned \in BOOLEAN : FlushBegin(owned)
    \/ ExecuteOK
    \/ ExecuteFailOwned
    \/ ExecuteFailBound
    \/ CommitOK
    \/ CommitFail
    \/ CommitUnacked
    \/ ClearPending
    \/ CallerCommit
    \/ CallerRollback
    \/ Crash

Spec == Init /\ [][Next]_vars

\* A caller that keeps flushing without a bind and ends the transactions it
\* opened, and a database that answers every statement and does not fail
\* forever.
Fairness ==
    /\ SF_vars(FlushBegin(TRUE))
    /\ WF_vars(ExecuteOK \/ ExecuteFailOwned \/ ExecuteFailBound)
    /\ SF_vars(ExecuteOK)
    /\ SF_vars(CommitOK)
    /\ WF_vars(ClearPending)
    /\ SF_vars(CallerCommit \/ CallerRollback)

FairSpec == Spec /\ Fairness

-----------------------------------------------------------------------------
\* The queue and the running flush hold records that have a task, whatever
\* callers try to log between the statements of a flush, and the caller's
\* transaction and the table count the rows of such records only.
TypeOK ==
    /\ pending \subseteq Record
    /\ flush \in [step : Steps, rows : SUBSET Record, owned : BOOLEAN]
    /\ txn \in [Record -> Nat]
    /\ aborted \in BOOLEAN
    /\ db \in [Record -> Nat]
    /\ logged \subseteq Record
    /\ window \subseteq Record
    /\ dropped \subseteq Record
    /\ doubtful \subseteq Record
    /\ acked \subseteq Record
    /\ faults \in Nat

\* A record log_usage accepted is in the queue, in an open transaction or in
\* the table, unless a crash or the caller's rollback took it, or another
\* thread logged it while a flush was running: no failure of a flush, at any
\* of its statements, loses one.
NoSilentLoss ==
    \A r \in logged :
        \/ r \in pending
        \/ Copies(r) > 0
        \/ r \in dropped
        \/ r \in window

\* Retrying a failed flush never stores a record twice, except for rows the
\* failure itself left behind (a commit whose answer was lost, a prefix kept
\* in the caller's transaction): nothing identifies a row, so those the next
\* flush inserts again.
NoDuplicates == \A r \in Record \ doubtful : Copies(r) <= 1

\* A count returned by an owned flush_usage is of committed rows: no later
\* rollback of the caller and no crash takes them back.
AckedDurable == acked \subseteq Stored

\* A record the table refuses holds up every record queued with it: while it
\* is in the queue nothing leaves the queue, except all of it in a crash.  Only
\* one that was logged while a flush ran may go with the queue of that flush.
RejectedBlocksQueue ==
    [][((pending \cap Rejected) \ window # {} /\ ~(pending \subseteq pending'))
        => /\ pending' = {}
           /\ pending \ Stored \subseteq dropped']_vars

\* The queue and its flush keep the promise of UsageLedger.
Status(r) ==
    IF r \notin logged THEN "new"
    ELSE IF r \in Stored THEN "stored"
    ELSE IF r \in pending \union InTxn THEN "held"
    ELSE "lost"

\* Every record logged ends in the table, unless a crash or a rollback takes
\* it, or it was logged while a flush ran and lost with its queue, when the
\* caller keeps flushing and the database works again and again; only a refused
\* record in the queue with it can hold it up.
EventuallySettled ==
    \A r \in Record :
        r \in logged ~> \/ r \in Stored \union dropped
                        \/ r \in window /\ Status(r) = "lost"
                        \/ pending \cap Rejected # {}

Ledger == INSTANCE UsageLedger WITH status <- [r \in Record |-> Status(r)]

\* The steps of AIUsage are steps of UsageLedger.
LedgerSpec == Ledger!Spec

-----------------------------------------------------------------------------
\* The strengthening that makes the safety invariants inductive.  The rows of
\* the running flush are still in the queue, and hold no refused record once
\* inserted; a finished insert is covered by rows in the table or the caller's
\* transaction; a record never logged is nowhere; one that may be inserted
\* again has no rows unless it is doubtful.
FlushInv ==
    /\ flush.rows \subseteq pending
    /\ flush.step = "idle" => flush.rows = {}
    /\ flush.step = "commit" => flush.owned
    /\ flush.step \in {"commit", "clear"} => flush.rows \cap Rejected = {}
    /\ flush.step = "clear" =>
          IF flush.owned THEN flush.rows \subseteq Stored
                         ELSE flush.rows \subseteq InTxn
    /\ flush.step # "idle" => pending \ flush.rows \subseteq window

OriginInv ==
    /\ pending \subseteq logged
    /\ InTxn \subseteq logged
    /\ Stored \subseteq logged
    /\ doubtful \subseteq logged

OnceInv ==
    \A r \in pending \ doubtful :
        Copies(r) = 0 \/ (flush.step = "clear" /\ r \in flush.rows)

\* The inductive invariant of AIUsage_proofs.
IInv ==
    /\ TypeOK /\ FlushInv /\ OriginInv /\ OnceInv
    /\ NoSilentLoss /\ NoDuplicates /\ AckedDurable
=============================================================================
