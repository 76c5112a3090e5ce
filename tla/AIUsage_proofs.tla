--------------------------- MODULE AIUsage_proofs ---------------------------
(* Proofs about the usage log, for every set of records, both dialects,    *)
(* and any number of faults.                                               *)
EXTENDS AIUsage, TLAPS

\* The types of the parts of a state, as the provers need them.
LEMMA Typing ==
    ASSUME TypeOK
    PROVE  /\ pending \in SUBSET Record
           /\ flush.step \in Steps
           /\ flush.rows \in SUBSET Record
           /\ flush.owned \in BOOLEAN
           /\ \A r \in Record : txn[r] \in Nat /\ db[r] \in Nat
           /\ InTxn \subseteq Record /\ Stored \subseteq Record
  BY DEF TypeOK, InTxn, Stored

\* One more row for each record of S: what Add returns.
LEMMA AddRows ==
    ASSUME NEW n \in [Record -> Nat], NEW S \in SUBSET Record
    PROVE  /\ Add(n, S) \in [Record -> Nat]
           /\ \A r \in S : Add(n, S)[r] = n[r] + 1
           /\ \A r \in Record \ S : Add(n, S)[r] = n[r]
  <1>1. \A r \in Record : n[r] \in Nat /\ n[r] + 1 \in Nat
    OBVIOUS
  <1>2. \A r \in Record : Add(n, S)[r] = IF r \in S THEN n[r] + 1 ELSE n[r]
    BY DEF Add
  <1>3. \A r \in Record : Add(n, S)[r] \in Nat
    BY <1>1, <1>2
  <1>4. Add(n, S) \in [Record -> Nat]
    BY <1>1 DEF Add
  <1> QED  BY <1>2, <1>4

LEMMA InitInv == Init => IInv
  <1> SUFFICES ASSUME Init PROVE IInv
    OBVIOUS
  <1> USE DEF Init
  <1>1. /\ InTxn = {} /\ Stored = {}
        /\ \A r \in Record : Copies(r) = 0
    BY DEF None, InTxn, Stored, Copies
  <1>2. TypeOK
    BY DEF TypeOK, Idle, None, Steps
  <1>3. FlushInv /\ OriginInv /\ AckedDurable
    BY <1>1 DEF FlushInv, OriginInv, AckedDurable, Idle
  <1>4. OnceInv /\ NoDuplicates /\ NoSilentLoss
    BY <1>1 DEF OnceInv, NoDuplicates, NoSilentLoss
  <1> QED  BY <1>2, <1>3, <1>4 DEF IInv

-----------------------------------------------------------------------------
(* Each step keeps the invariant.                                          *)

LEMMA LogUsageInv ==
    ASSUME IInv, NEW r \in Record \union Taskless, LogUsage(r)
    PROVE  IInv'
  <1> USE DEF LogUsage
  <1>1. TypeOK'
    BY DEF IInv, TypeOK
  <1>2. FlushInv' /\ OriginInv' /\ AckedDurable'
    BY DEF IInv, FlushInv, OriginInv, AckedDurable, InTxn, Stored
  <1>3. Copies(r) = 0
    BY Typing DEF IInv, OriginInv, Copies, InTxn, Stored
  <1>4. \A s \in Record : Copies(s)' = Copies(s)
    BY DEF Copies
  <1>5. OnceInv' /\ NoDuplicates'
    BY <1>3, <1>4 DEF IInv, TypeOK, OnceInv, NoDuplicates
  <1>6. NoSilentLoss'
    BY <1>4 DEF IInv, TypeOK, NoSilentLoss
  <1> QED  BY <1>1, <1>2, <1>5, <1>6 DEF IInv

LEMMA FlushBeginInv ==
    ASSUME IInv, NEW owned \in BOOLEAN, FlushBegin(owned)
    PROVE  IInv'
  <1> USE DEF FlushBegin, history
  <1>1. TypeOK'
    BY DEF IInv, TypeOK, Steps
  <1>2. FlushInv' /\ OriginInv' /\ AckedDurable'
    BY DEF IInv, TypeOK, FlushInv, OriginInv, AckedDurable, InTxn, Stored
  <1>3. OnceInv' /\ NoDuplicates' /\ NoSilentLoss'
    BY DEF IInv, OnceInv, NoDuplicates, NoSilentLoss, Copies
  <1> QED  BY <1>1, <1>2, <1>3 DEF IInv

LEMMA ExecuteOKInv ==
    ASSUME IInv, ExecuteOK
    PROVE  IInv'
  <1> USE DEF ExecuteOK, history
  <1>1. CASE flush.owned
    <2>1. TypeOK'
      BY <1>1 DEF IInv, TypeOK, Steps
    <2>2. FlushInv' /\ OriginInv' /\ AckedDurable'
      BY <1>1 DEF IInv, TypeOK, FlushInv, OriginInv, AckedDurable, InTxn, Stored
    <2>3. OnceInv' /\ NoDuplicates' /\ NoSilentLoss'
      BY <1>1 DEF IInv, OnceInv, NoDuplicates, NoSilentLoss, Copies
    <2> QED  BY <2>1, <2>2, <2>3 DEF IInv
  <1>2. CASE ~flush.owned
    <2>1. /\ flush' = [flush EXCEPT !.step = "clear"]
          /\ txn' = Add(txn, flush.rows)
          /\ flush.rows \in SUBSET Record
      BY <1>2, Typing DEF IInv
    <2>2. TypeOK'
      BY <2>1, AddRows DEF IInv, TypeOK, Steps
    <2>3. /\ \A r \in flush.rows : Copies(r)' = Copies(r) + 1
          /\ \A r \in Record \ flush.rows : Copies(r)' = Copies(r)
          /\ Stored' = Stored
          /\ InTxn' = InTxn \union flush.rows
      <3>1. /\ \A r \in flush.rows : txn'[r] = txn[r] + 1
            /\ \A r \in Record \ flush.rows : txn'[r] = txn[r]
        BY <2>1, AddRows DEF IInv, TypeOK
      <3> QED  BY <2>1, <3>1, Typing DEF IInv, Copies, InTxn, Stored
    <2>4. FlushInv' /\ OriginInv' /\ AckedDurable'
      BY <1>2, <2>1, <2>3 DEF IInv, TypeOK, FlushInv, OriginInv, AckedDurable
    <2>5. \A r \in Record : Copies(r) \in Nat
      BY Typing DEF IInv, Copies
    <2>6. OnceInv' /\ NoDuplicates' /\ NoSilentLoss'
      BY <2>1, <2>3, <2>5
         DEF IInv, TypeOK, FlushInv, OnceInv, NoDuplicates, NoSilentLoss
    <2> QED  BY <2>2, <2>4, <2>6 DEF IInv
  <1> QED  BY <1>1, <1>2

LEMMA FlushFailInv ==
    ASSUME IInv, ExecuteFailOwned \/ CommitFail
    PROVE  IInv'
  <1> USE DEF ExecuteFailOwned, CommitFail, history, Idle
  <1>1. /\ flush' = Idle
        /\ UNCHANGED <<pending, txn, aborted, db, history>>
    OBVIOUS
  <1>2. TypeOK'
    BY <1>1 DEF IInv, TypeOK, Steps
  <1>3. FlushInv' /\ OriginInv' /\ AckedDurable'
    BY <1>1 DEF IInv, FlushInv, OriginInv, AckedDurable, InTxn, Stored
  <1>4. OnceInv' /\ NoDuplicates' /\ NoSilentLoss'
    BY <1>1 DEF IInv, OnceInv, NoDuplicates, NoSilentLoss, Copies
  <1> QED  BY <1>2, <1>3, <1>4 DEF IInv

LEMMA ExecuteFailBoundInv ==
    ASSUME IInv, ExecuteFailBound
    PROVE  IInv'
  <1> USE DEF ExecuteFailBound, Idle
  <1>1. CASE UNCHANGED <<txn, doubtful, faults>>
    <2>1. TypeOK'
      BY <1>1 DEF IInv, TypeOK, Steps
    <2>2. FlushInv' /\ OriginInv' /\ AckedDurable'
      BY <1>1 DEF IInv, FlushInv, OriginInv, AckedDurable, InTxn, Stored
    <2>3. OnceInv' /\ NoDuplicates' /\ NoSilentLoss'
      BY <1>1 DEF IInv, OnceInv, NoDuplicates, NoSilentLoss, Copies
    <2> QED  BY <2>1, <2>2, <2>3 DEF IInv
  <1>2. CASE ~UNCHANGED <<txn, doubtful, faults>>
    <2>1. PICK S \in SUBSET (flush.rows \ Rejected) :
             /\ txn' = Add(txn, S)
             /\ doubtful' = doubtful \union S
             /\ faults' = faults + 1
             /\ UNCHANGED aborted
      BY <1>2
    <2>2. S \in SUBSET Record /\ S \subseteq pending
      BY <2>1, Typing DEF IInv, FlushInv
    <2>3. TypeOK'
      BY <2>1, <2>2, AddRows DEF IInv, TypeOK, Steps
    <2>4. /\ \A r \in S : Copies(r)' = Copies(r) + 1
          /\ \A r \in Record \ S : Copies(r)' = Copies(r)
          /\ Stored' = Stored
          /\ InTxn' = InTxn \union S
      <3>1. /\ \A r \in S : txn'[r] = txn[r] + 1
            /\ \A r \in Record \ S : txn'[r] = txn[r]
        BY <2>1, <2>2, AddRows DEF IInv, TypeOK
      <3> QED  BY <2>1, <2>2, <3>1, Typing DEF IInv, Copies, InTxn, Stored
    <2>5. FlushInv' /\ OriginInv' /\ AckedDurable'
      BY <2>1, <2>2, <2>4 DEF IInv, FlushInv, OriginInv, AckedDurable
    <2>6. OnceInv' /\ NoDuplicates'
      BY <2>1, <2>2, <2>4 DEF IInv, TypeOK, OnceInv, NoDuplicates
    <2>7. NoSilentLoss'
      BY <2>1, <2>2, <2>4 DEF IInv, TypeOK, OriginInv, NoSilentLoss
    <2> QED  BY <2>3, <2>5, <2>6, <2>7 DEF IInv
  <1> QED  BY <1>1, <1>2

\* What the two steps that commit the rows of an owned flush share.
LEMMA CommitRows ==
    ASSUME IInv, flush.step = "commit", db' = Add(db, flush.rows),
           UNCHANGED <<pending, txn>>
    PROVE  /\ db' \in [Record -> Nat]
           /\ \A r \in flush.rows : Copies(r) \in Nat /\ Copies(r)' = Copies(r) + 1
           /\ \A r \in Record \ flush.rows : Copies(r)' = Copies(r)
           /\ Stored' = Stored \union flush.rows
           /\ InTxn' = InTxn
  <1>1. flush.rows \in SUBSET Record
    BY Typing DEF IInv
  <1>2. /\ db' \in [Record -> Nat]
        /\ \A r \in flush.rows : db'[r] = db[r] + 1
        /\ \A r \in Record \ flush.rows : db'[r] = db[r]
    BY <1>1, AddRows DEF IInv, TypeOK
  <1> QED  BY <1>1, <1>2, Typing DEF IInv, Copies, InTxn, Stored

LEMMA CommitOKInv ==
    ASSUME IInv, CommitOK
    PROVE  IInv'
  <1> USE DEF CommitOK, history
  <1>1. TypeOK'
    BY CommitRows DEF IInv, TypeOK, Steps
  <1>2. FlushInv' /\ OriginInv' /\ AckedDurable'
    BY CommitRows DEF IInv, TypeOK, FlushInv, OriginInv, AckedDurable
  <1>3. flush' = [flush EXCEPT !.step = "clear"] /\ flush'.step = "clear"
        /\ flush'.rows = flush.rows
    BY DEF IInv, TypeOK
  <1>4. OnceInv' /\ NoDuplicates'
    BY <1>3, CommitRows DEF IInv, TypeOK, FlushInv, OnceInv, NoDuplicates
  <1>5. NoSilentLoss'
    BY CommitRows DEF IInv, TypeOK, NoSilentLoss
  <1> QED  BY <1>1, <1>2, <1>4, <1>5 DEF IInv

LEMMA CommitUnackedInv ==
    ASSUME IInv, CommitUnacked
    PROVE  IInv'
  <1> USE DEF CommitUnacked, Idle
  <1>1. TypeOK'
    BY CommitRows, Typing DEF IInv, TypeOK, Steps
  <1>2. FlushInv' /\ OriginInv' /\ AckedDurable'
    BY CommitRows DEF IInv, TypeOK, FlushInv, OriginInv, AckedDurable
  <1>3. OnceInv' /\ NoDuplicates'
    BY CommitRows DEF IInv, TypeOK, FlushInv, OnceInv, NoDuplicates
  <1>4. NoSilentLoss'
    BY CommitRows DEF IInv, TypeOK, NoSilentLoss
  <1> QED  BY <1>1, <1>2, <1>3, <1>4 DEF IInv

LEMMA ClearPendingInv ==
    ASSUME IInv, ClearPending
    PROVE  IInv'
  <1> USE DEF ClearPending, Idle
  <1>1. TypeOK'
    BY Typing DEF IInv, TypeOK, Steps
  <1>2. FlushInv' /\ OriginInv' /\ AckedDurable'
    BY DEF IInv, FlushInv, OriginInv, AckedDurable, InTxn, Stored
  <1>3. OnceInv' /\ NoDuplicates'
    BY DEF IInv, OnceInv, NoDuplicates, Copies
  <1>4. \A r \in flush.rows : Copies(r) > 0
    BY Typing DEF IInv, FlushInv, Copies, InTxn, Stored
  <1>5. NoSilentLoss'
    BY <1>4 DEF IInv, FlushInv, NoSilentLoss, Copies
  <1> QED  BY <1>1, <1>2, <1>3, <1>5 DEF IInv

LEMMA CallerCommitInv ==
    ASSUME IInv, CallerCommit
    PROVE  IInv'
  <1> USE DEF CallerCommit, EndTxn, history
  <1>1. /\ txn' \in [Record -> Nat] /\ db' \in [Record -> Nat]
        /\ \A r \in Record : txn'[r] = 0 /\ db'[r] = db[r] + txn[r]
    BY Typing DEF IInv, TypeOK, None, Sum2
  <1>2. TypeOK'
    BY <1>1 DEF IInv, TypeOK
  <1>3. /\ InTxn' = {} /\ Stored' = Stored \union InTxn
        /\ \A r \in Record : Copies(r)' = Copies(r)
    BY <1>1, Typing DEF IInv, InTxn, Stored, Copies
  <1>4. FlushInv' /\ OriginInv' /\ AckedDurable'
    BY <1>3 DEF IInv, FlushInv, OriginInv, AckedDurable
  <1>5. OnceInv' /\ NoDuplicates' /\ NoSilentLoss'
    BY <1>3 DEF IInv, TypeOK, OnceInv, NoDuplicates, NoSilentLoss
  <1> QED  BY <1>2, <1>4, <1>5 DEF IInv

\* What CallerRollback and Crash share: the open transaction is gone.
LEMMA TxnGone ==
    ASSUME IInv, txn' = None, UNCHANGED db
    PROVE  /\ txn' \in [Record -> Nat]
           /\ InTxn' = {} /\ Stored' = Stored
           /\ \A r \in Record : Copies(r) = 0 => Copies(r)' = 0
           /\ \A r \in Record : Copies(r) <= 1 => Copies(r)' <= 1
           /\ \A r \in Record : Copies(r) > 0 => Copies(r)' > 0 \/ r \in InTxn \ Stored
           /\ \A r \in Stored : Copies(r)' > 0
  <1>1. /\ txn' \in [Record -> Nat]
        /\ \A r \in Record : txn'[r] = 0
    BY DEF None
  <1>2. InTxn' = {} /\ Stored' = Stored
    BY <1>1 DEF InTxn, Stored
  <1>3. \A r \in Record : txn[r] \in Nat /\ db[r] \in Nat
    BY Typing DEF IInv
  <1>4. \A r \in Record : /\ r \in InTxn <=> txn[r] > 0
                         /\ r \in Stored <=> db[r] > 0
    BY DEF InTxn, Stored
  <1>5. \A r \in Record : Copies(r) = txn[r] + db[r] /\ Copies(r)' = db[r]
    BY <1>1, <1>3 DEF Copies
  <1>6. /\ \A r \in Record : Copies(r) = 0 => Copies(r)' = 0
        /\ \A r \in Record : Copies(r) <= 1 => Copies(r)' <= 1
    BY <1>3, <1>5
  <1>7. ASSUME NEW r \in Record, Copies(r) > 0
        PROVE  Copies(r)' > 0 \/ r \in InTxn \ Stored
    <2>1. CASE db[r] > 0
      BY <1>5, <2>1
    <2>2. CASE ~(db[r] > 0)
      <3>1. db[r] = 0 /\ txn[r] > 0
        BY <1>3, <1>5, <1>7, <2>2
      <3> QED  BY <2>2, <3>1 DEF InTxn, Stored
    <2> QED  BY <2>1, <2>2
  <1>8. ASSUME NEW r \in Stored
        PROVE  Copies(r)' > 0
    <2>1. r \in Record /\ db[r] > 0
      BY DEF Stored
    <2> QED  BY <1>5, <2>1
  <1> QED  BY <1>1, <1>2, <1>6, <1>7, <1>8

LEMMA CallerRollbackInv ==
    ASSUME IInv, CallerRollback
    PROVE  IInv'
  <1> USE DEF CallerRollback, EndTxn
  <1>1. TypeOK'
    BY TxnGone, Typing DEF IInv, TypeOK
  <1>2. FlushInv' /\ OriginInv' /\ AckedDurable'
    BY TxnGone DEF IInv, FlushInv, OriginInv, AckedDurable
  <1>3. OnceInv' /\ NoDuplicates'
    BY TxnGone DEF IInv, TypeOK, FlushInv, OnceInv, NoDuplicates
  <1>4. NoSilentLoss'
    BY TxnGone DEF IInv, TypeOK, NoSilentLoss
  <1> QED  BY <1>1, <1>2, <1>3, <1>4 DEF IInv

LEMMA CrashInv ==
    ASSUME IInv, Crash
    PROVE  IInv'
  <1> USE DEF Crash, Idle
  <1>1. TypeOK'
    BY TxnGone, Typing DEF IInv, TypeOK, Steps
  <1>2. FlushInv' /\ OriginInv' /\ AckedDurable'
    BY TxnGone DEF IInv, FlushInv, OriginInv, AckedDurable
  <1>3. OnceInv' /\ NoDuplicates'
    BY TxnGone DEF IInv, OnceInv, NoDuplicates
  <1>4. NoSilentLoss'
    BY TxnGone DEF IInv, TypeOK, NoSilentLoss
  <1> QED  BY <1>1, <1>2, <1>3, <1>4 DEF IInv

LEMMA StutterInv ==
    ASSUME IInv, UNCHANGED vars
    PROVE  IInv'
  BY DEF vars, history, IInv, TypeOK, FlushInv, OriginInv, OnceInv, NoSilentLoss,
         NoDuplicates, AckedDurable, Copies, InTxn, Stored

LEMMA NextInv ==
    ASSUME IInv, [Next]_vars
    PROVE  IInv'
  BY LogUsageInv, FlushBeginInv, ExecuteOKInv, FlushFailInv,
     ExecuteFailBoundInv, CommitOKInv, CommitUnackedInv, ClearPendingInv,
     CallerCommitInv, CallerRollbackInv, CrashInv, StutterInv
     DEF Next

-----------------------------------------------------------------------------
(* The theorems.                                                           *)

\* The strengthened invariant: every other theorem rests on it.
THEOREM Inductive == Spec => []IInv
  BY InitInv, NextInv, PTL DEF Spec

\* Every variable keeps its type.
THEOREM TypeCorrect == Spec => []TypeOK
  BY Inductive, PTL DEF IInv

\* log_usage and flush_usage never lose a record silently, whatever fails.
THEOREM NothingLost == Spec => []NoSilentLoss
  BY Inductive, PTL DEF IInv

\* A failed flush is repeated without storing a record twice, but for the
\* rows the failure left behind.
THEOREM StoredOnce == Spec => []NoDuplicates
  BY Inductive, PTL DEF IInv

\* What an owned flush_usage counted stays in the table.
THEOREM Durable == Spec => []AckedDurable
  BY Inductive, PTL DEF IInv

\* A refused record that no flush overlapped leaves the queue only in a crash
\* that takes everything queued with it.
THEOREM RejectedBlocks == Spec => RejectedBlocksQueue
  <1> DEFINE Blocked == ((pending \cap Rejected) \ window # {} /\ ~(pending \subseteq pending'))
                          => /\ pending' = {}
                             /\ pending \ Stored \subseteq dropped'
  <1>1. ASSUME IInv, [Next]_vars
        PROVE  Blocked
    <2>1. CASE ClearPending
      <3>1. flush.rows \cap Rejected = {} /\ pending \ flush.rows \subseteq window
        BY <1>1, <2>1 DEF IInv, FlushInv, ClearPending
      <3> QED  BY <3>1
    <2>2. CASE Crash
      BY <2>2 DEF Crash
    <2>3. CASE ~ClearPending /\ ~Crash
      <3>1. pending \subseteq pending'
        BY <1>1, <2>3
           DEF Next, vars, LogUsage, FlushBegin, ExecuteOK, ExecuteFailOwned,
               ExecuteFailBound, CommitOK, CommitFail, CommitUnacked,
               CallerCommit, CallerRollback
      <3> QED  BY <3>1
    <2> QED  BY <2>1, <2>2, <2>3
  <1>2. IInv /\ [Next]_vars => [Blocked]_vars
    BY <1>1
  <1> QED  BY <1>2, Inductive, PTL DEF Spec, RejectedBlocksQueue

-----------------------------------------------------------------------------
(* The queue and its flush implement UsageLedger.                          *)

LEMMA StatusMove ==
    ASSUME NEW S \in SUBSET Record, NEW from, NEW to,
           \A r \in S : Status(r) = from /\ Status(r)' = to,
           \A r \in Record \ S : Status(r)' = Status(r)
    PROVE  Ledger!Move(S, from, to)
  BY DEF Ledger!Move

LEMMA StatusSame ==
    ASSUME UNCHANGED <<logged, Stored>>,
           UNCHANGED (pending \union InTxn)
    PROVE  \A r \in Record : Status(r)' = Status(r)
  BY DEF Status

LEMMA InitLedger == Init => Ledger!Init
  BY DEF Init, Ledger!Init, Status

LEMMA StepLedger ==
    ASSUME IInv, [Next]_vars
    PROVE  [Ledger!Next]_[r \in Record |-> Status(r)]
  <1> DEFINE status == [r \in Record |-> Status(r)]
  <1>0. /\ pending \in SUBSET Record
        /\ pending \subseteq logged /\ InTxn \subseteq logged /\ Stored \subseteq logged
        /\ InTxn \subseteq Record /\ Stored \subseteq Record
        /\ flush.rows \subseteq pending
    BY Typing DEF IInv, OriginInv, FlushInv
  <1>1. ASSUME NEW r \in Record \union Taskless, LogUsage(r)
        PROVE  r \in Record /\ Ledger!Log(r)
    <2>0. r \in Record
      BY <1>1 DEF LogUsage
    <2>1. Status(r) = "new" /\ Status(r)' = "held"
      BY <1>0, <1>1 DEF LogUsage, Status, Stored
    <2>2. \A s \in Record \ {r} : Status(s)' = Status(s)
      BY <1>1 DEF LogUsage, Status, InTxn, Stored
    <2> QED  BY <2>0, <2>1, <2>2, StatusMove DEF Ledger!Log
  <1>2. CASE \/ \E owned \in BOOLEAN : FlushBegin(owned)
             \/ ExecuteFailOwned \/ CommitFail
             \/ UNCHANGED vars
    <2>1. UNCHANGED <<logged, pending, txn, db>>
      BY <1>2 DEF FlushBegin, ExecuteFailOwned, CommitFail, vars, history
    <2>2. UNCHANGED <<Stored, InTxn>>
      BY <2>1 DEF Stored, InTxn
    <2> QED  BY <2>1, <2>2, StatusSame
  <1>3. CASE ExecuteOK
    <2>1. UNCHANGED <<logged, pending, db>>
      BY <1>3 DEF ExecuteOK, history
    <2>2. /\ InTxn \subseteq InTxn' /\ InTxn' \subseteq InTxn \union flush.rows
      <3>1. CASE UNCHANGED txn
        BY <3>1 DEF InTxn
      <3>2. CASE txn' = Add(txn, flush.rows)
        <4>1. /\ \A r \in flush.rows : txn'[r] = txn[r] + 1
              /\ \A r \in Record \ flush.rows : txn'[r] = txn[r]
          BY <3>2, <1>0, AddRows DEF IInv, TypeOK
        <4> QED  BY <4>1, <1>0, Typing DEF IInv, InTxn
      <3> QED  BY <1>3, <3>1, <3>2 DEF ExecuteOK
    <2>3. UNCHANGED Stored /\ UNCHANGED (pending \union InTxn)
      BY <1>0, <2>1, <2>2 DEF Stored
    <2> QED  BY <2>1, <2>3, StatusSame
  <1>4. CASE ExecuteFailBound
    <2>1. UNCHANGED <<logged, pending, db>>
      BY <1>4 DEF ExecuteFailBound
    <2>2. /\ InTxn \subseteq InTxn' /\ InTxn' \subseteq InTxn \union flush.rows
      <3>1. CASE UNCHANGED txn
        BY <3>1 DEF InTxn
      <3>2. CASE \E S \in SUBSET (flush.rows \ Rejected) : txn' = Add(txn, S)
        <4>1. PICK S \in SUBSET (flush.rows \ Rejected) : txn' = Add(txn, S)
          BY <3>2
        <4>2. /\ S \in SUBSET Record
              /\ \A r \in S : txn'[r] = txn[r] + 1
              /\ \A r \in Record \ S : txn'[r] = txn[r]
          BY <4>1, <1>0, AddRows DEF IInv, TypeOK
        <4> QED  BY <4>1, <4>2, Typing DEF IInv, InTxn
      <3> QED  BY <1>4, <3>1, <3>2 DEF ExecuteFailBound
    <2>3. UNCHANGED Stored /\ UNCHANGED (pending \union InTxn)
      BY <1>0, <2>1, <2>2 DEF Stored
    <2> QED  BY <2>1, <2>3, StatusSame
  <1>5. CASE CommitOK \/ CommitUnacked
    <2>1. /\ UNCHANGED <<logged, pending>>
          /\ Stored' = Stored \union flush.rows
          /\ UNCHANGED InTxn
      BY <1>5, CommitRows DEF CommitOK, CommitUnacked, history
    <2>2. Ledger!Move(flush.rows \ Stored, "held", "stored")
      BY <1>0, <2>1, StatusMove DEF Status
    <2> QED  BY <1>0, <2>2 DEF Ledger!Next, Ledger!Store
  <1>6. CASE ClearPending
    <2>1. /\ UNCHANGED <<logged, txn, db>>
          /\ pending' = {}
      BY <1>6 DEF ClearPending
    <2>2. UNCHANGED <<InTxn, Stored>>
      BY <2>1 DEF InTxn, Stored
    <2>3. Ledger!Move(pending \ (InTxn \union Stored), "held", "lost")
      BY <1>0, <2>1, <2>2, StatusMove DEF Status
    <2> QED  BY <1>0, <2>3 DEF Ledger!Next, Ledger!Lose
  <1>7. CASE CallerCommit
    <2>1. /\ UNCHANGED <<logged, pending>>
          /\ \A r \in Record : txn'[r] = 0 /\ db'[r] = db[r] + txn[r]
      BY <1>7, Typing DEF IInv, TypeOK, CallerCommit, EndTxn, None, Sum2, history
    <2>2. InTxn' = {} /\ Stored' = Stored \union InTxn
      BY <2>1, Typing DEF IInv, InTxn, Stored
    <2>3. Ledger!Move(InTxn \ Stored, "held", "stored")
      BY <1>0, <2>1, <2>2, StatusMove DEF Status
    <2> QED  BY <1>0, <2>3 DEF Ledger!Next, Ledger!Store
  <1>8. CASE CallerRollback
    <2>1. UNCHANGED <<logged, pending>> /\ InTxn' = {} /\ Stored' = Stored
      BY <1>8, TxnGone DEF CallerRollback, EndTxn
    <2>2. Ledger!Move(InTxn \ (pending \union Stored), "held", "lost")
      BY <1>0, <2>1, StatusMove DEF Status
    <2> QED  BY <1>0, <2>2 DEF Ledger!Next, Ledger!Lose
  <1>9. CASE Crash
    <2>1. UNCHANGED logged /\ pending' = {} /\ InTxn' = {} /\ Stored' = Stored
      BY <1>9, TxnGone DEF Crash
    <2>2. Ledger!Move((pending \union InTxn) \ Stored, "held", "lost")
      BY <1>0, <2>1, StatusMove DEF Status
    <2> QED  BY <1>0, <2>2 DEF Ledger!Next, Ledger!Lose
  <1> QED
    BY <1>1, <1>2, <1>3, <1>4, <1>5, <1>6, <1>7, <1>8, <1>9 DEF Next, Ledger!Next

\* Every behaviour of the queue and its flush is one of the ledger: a logged
\* record ends stored or lost for good, and a lost one never comes back.
THEOREM ImplementsLedger == Spec => LedgerSpec
  <1>1. IInv /\ [Next]_vars => [Ledger!Next]_[r \in Record |-> Status(r)]
    BY StepLedger
  <1> QED
    BY <1>1, InitLedger, Inductive, PTL DEF Spec, LedgerSpec, Ledger!Spec
=============================================================================
