-------------------------- MODULE LLMSpend_proofs --------------------------
(* Proofs about the guard, for any caps, estimates and threads; and about  *)
(* the spending of a process that has one next to its usage log, for any   *)
(* costs and length of a day too.                                          *)
EXTENDS LLMSpend, FiniteSetTheorems, WellFoundedInduction, TLAPS

LEMMA InitInv == Init => GuardInv
  <1> SUFFICES ASSUME Init PROVE GuardInv
    OBVIOUS
  <1> USE CapAssumption, NaNAssumption DEF Init, Cost, Above
  <1>1. TypeOK
    BY DEF TypeOK
  <1>2. TotalWithinCap
    BY DEF TotalWithinCap
  <1>3. NoOverspend
    BY DEF NoOverspend
  <1>4. Inside = {}
    BY DEF Inside
  <1>5. Current
    BY <1>4 DEF Current
  <1> QED  BY <1>1, <1>2, <1>3, <1>5 DEF GuardInv

-----------------------------------------------------------------------------
(* Each step keeps the invariant.                                          *)

\* A thread that finds another inside has raced; alone, it holds the sum of
\* the current total and its estimate.
LEMMA AdmitInv ==
    ASSUME GuardInv, NEW t \in Thread, NEW cost \in Estimates, Admit(t, cost)
    PROVE  GuardInv'
  <1> USE CapAssumption, EstimateAssumption, NaNAssumption
       DEF GuardInv, Admit, Enter, Cost, Above, Plus
  <1>1. (TypeOK /\ TotalWithinCap)'
    BY DEF TypeOK, TotalWithinCap
  <1>2. NoOverspend'
    BY DEF NoOverspend, TypeOK
  <1>3. Current'
    <2> SUFFICES ASSUME ~raced' PROVE \A u \in Inside' : u = t
      BY DEF Current, Inside, TypeOK
    <2>1. Inside = {}
      OBVIOUS
    <2> QED  BY <2>1 DEF Inside, TypeOK
  <1> QED  BY <1>1, <1>2, <1>3

\* The sum assigned is the one that was compared; without a race it is the
\* total and the estimate that is added to what was spent.
LEMMA AssignInv ==
    ASSUME GuardInv, NEW t \in Thread, Assign(t)
    PROVE  GuardInv'
  <1> USE CapAssumption, NaNAssumption DEF GuardInv, Assign, Cost, Above, Plus, Spend
  <1>1. (TypeOK /\ TotalWithinCap)'
    BY DEF TypeOK, TotalWithinCap
  <1>2. t \in Inside
    BY DEF Inside
  <1>3. NoOverspend'
    BY <1>1, <1>2 DEF NoOverspend, Current, TotalWithinCap, TypeOK
  <1>4. ~raced' => Inside' = {}
    BY <1>2 DEF Current, Inside, TypeOK
  <1>5. Current'
    BY <1>4 DEF Current
  <1> QED  BY <1>1, <1>3, <1>5

LEMMA ResetDayInv ==
    ASSUME GuardInv, NEW t \in Thread, ResetDay(t)
    PROVE  GuardInv'
  <1> USE CapAssumption, NaNAssumption DEF GuardInv, ResetDay, Cost, Above
  <1>1. (TypeOK /\ TotalWithinCap)'
    BY DEF TypeOK, TotalWithinCap
  <1>2. NoOverspend'
    BY DEF NoOverspend
  <1>3. ~raced' => Inside' = {}
    BY DEF Inside
  <1>4. Current'
    BY <1>3 DEF Current
  <1> QED  BY <1>1, <1>2, <1>4

LEMMA RestartInv == GuardInv /\ Restart => GuardInv'
  <1> USE CapAssumption, NaNAssumption DEF GuardInv, Restart, Cost, Above
  <1> SUFFICES ASSUME GuardInv, Restart PROVE GuardInv'
    OBVIOUS
  <1>0. TypeOK'
    BY DEF TypeOK
  <1>1. TotalWithinCap'
    <2>1. \A t \in Thread : ~Above(next[t], DailyCap)'
      OBVIOUS
    <2>2. \A t \in Thread : ~Above(estimated[t], PerCallCap)'
      BY DEF TotalWithinCap
    <2> QED  BY <2>1, <2>2 DEF TotalWithinCap
  <1>2. NoOverspend'
    BY DEF NoOverspend
  <1>3. Inside' = {}
    BY DEF Inside
  <1>4. Current'
    BY <1>3 DEF Current
  <1> QED  BY <1>0, <1>1, <1>2, <1>4

LEMMA NextInv == GuardInv /\ [Next]_vars => GuardInv'
  <1> SUFFICES ASSUME GuardInv, [Next]_vars PROVE GuardInv'
    OBVIOUS
  <1>1. ASSUME UNCHANGED vars PROVE GuardInv'
    BY <1>1 DEF vars, GuardInv, TypeOK, TotalWithinCap, NoOverspend, Current, Inside
  <1> QED  BY <1>1, AdmitInv, AssignInv, ResetDayInv, RestartInv DEF Next, Refuse

-----------------------------------------------------------------------------
(* The theorems of the guard.                                              *)

\* The strengthened invariant holds, for any number of threads.
THEOREM Inductive == Spec => []GuardInv
  BY InitInv, NextInv, PTL DEF Spec

\* However many threads share the guard, what it records stays within the
\* daily cap and every admitted call within the cap per call.
THEOREM RecordedWithinCap == Spec => []TotalWithinCap
  BY Inductive, PTL DEF GuardInv

\* Whichever threads use the guard one after another, it admits between two
\* resets exactly what it records, and never more than the daily cap.
THEOREM SpentWithinCap == Spec => []NoOverspend
  BY Inductive, PTL DEF GuardInv

-----------------------------------------------------------------------------
(* The guard among the steps of the process.                               *)

\* A call that is over is no thread's in check_call: the guard's invariant
\* does not depend on its estimate any more.
LEMMA OverInv ==
    ASSUME GuardInv, Busy, NEW t \in Thread, Over(t)
    PROVE  GuardInv'
  <1> USE NaNAssumption, CapAssumption DEF Over, Cost, Above
  <1>1. t \notin Inside
    BY DEF Busy
  <1>2. TypeOK'
    BY DEF GuardInv, TypeOK
  <1>3. TotalWithinCap' /\ NoOverspend'
    BY DEF GuardInv, TypeOK, TotalWithinCap, NoOverspend
  <1>4. Inside' = Inside /\ \A u \in Inside : estimated'[u] = estimated[u]
    BY <1>1 DEF GuardInv, TypeOK, Inside
  <1>5. Current'
    BY <1>4 DEF GuardInv, Current, Plus
  <1> QED  BY <1>2, <1>3, <1>5 DEF GuardInv

\* Every step of the composition is one of the guard, or leaves it alone, or
\* is a call that is over.
LEMMA StepGuardInv ==
    ASSUME GuardInv, Busy, [SpendNext]_spendVars
    PROVE  GuardInv'
  <1>1. \/ [Next]_vars
        \/ \E t \in Thread : Over(t)
    BY DEF SpendNext, Step, spendVars, Ask, Start, CallFails, CallLogged,
           FlushStore, FlushClear, NewPeriod, ProcessRestart, Tick, Next
  <1> QED  BY <1>1, NextInv, OverInv

LEMMA SpendInitInv == SpendInit => SpendInv
  <1> SUFFICES ASSUME SpendInit PROVE SpendInv
    OBVIOUS
  <1> USE DEF SpendInit
  <1>1. Records = {} /\ Len(log) = 0
    BY DEF Records
  <1>2. SpendTypeOK
    BY <1>1, ClockAssumption, BoundsAssumption DEF SpendTypeOK
  <1>3. GuardInv
    BY InitInv
  <1>4. Busy /\ StoredInv
    BY <1>1 DEF Busy, StoredInv, Inside, Init
  <1> QED  BY <1>2, <1>3, <1>4 DEF SpendInv
-----------------------------------------------------------------------------
(* Each step keeps what the composition adds to the guard's invariant.     *)

Added == SpendTypeOK /\ Busy /\ StoredInv

\* Steps of a thread that leave the log, the queue and the table alone.
LEMMA CallInv ==
    ASSUME SpendInv, NEW t \in Thread,
           Ask(t) \/ Start(t) \/ CallFails(t) \/ NewPeriod(t)
    PROVE  Added'
  <1> USE DEF SpendInv, GuardInv, TypeOK
  <1>1. UNCHANGED <<now, log, flushVars, history>>
    BY DEF Ask, Start, CallFails, NewPeriod
  <1>2. /\ calling' \in [Thread -> Int]
        /\ period' \in Nat
    BY DEF Ask, Start, CallFails, Over, NewPeriod, SpendTypeOK
  <1>3. SpendTypeOK'
    BY <1>1, <1>2 DEF SpendTypeOK, Records, flushVars
  <1>4. Busy'
    BY DEF Busy, Inside, Free, Ask, Admit, Refuse, Enter, Start, Assign, CallFails,
           Over, NewPeriod, ResetDay, vars, SpendTypeOK
  <1>5. StoredInv'
    BY <1>1 DEF StoredInv, Records, InHand, flushVars, history
  <1> QED  BY <1>3, <1>4, <1>5 DEF Added

\* A cost is an estimate at most, and what is beyond it.
LEMMA BeyondIs ==
    ASSUME NEW cost \in Nat, NEW estimate \in Cost
    PROVE  /\ Beyond(cost, estimate) \in Nat
           /\ Beyond(cost, estimate) <= cost
           /\ estimate \in Nat => cost - Beyond(cost, estimate) <= estimate
  BY NaNAssumption DEF Beyond, Above, Cost

\* A record is appended to the log and queued, with no rows.
LEMMA CallLoggedInv ==
    ASSUME SpendInv, NEW t \in Thread, CallLogged(t)
    PROVE  Added'
  <1> USE DEF SpendInv
  <1> DEFINE R == LogRecord
             i == Len(log) + 1
  <1>1. PICK cost \in Costs :
           log' = Append(log, [at |-> now, cost |-> cost, period |-> calling[t],
                               excess |-> Beyond(cost, estimated[t])])
    BY DEF CallLogged
  <1>2. [at |-> now, cost |-> cost, period |-> calling[t],
         excess |-> Beyond(cost, estimated[t])] \in R
    <2>1. cost \in Nat /\ estimated[t] \in Cost
      BY CostsAssumption DEF GuardInv, TypeOK
    <2>2. Beyond(cost, estimated[t]) \in Nat /\ Beyond(cost, estimated[t]) <= cost
      BY <2>1, BeyondIs
    <2> QED  BY <2>1, <2>2 DEF SpendTypeOK, LogRecord
  <1>3. log \in Seq(R) /\ Len(log) \in Nat /\ Records = 1..Len(log)
    BY DEF SpendTypeOK, Records
  <1>4. log' \in Seq(R) /\ Len(log') = i /\ Records' = Records \union {i}
    BY <1>1, <1>2, <1>3 DEF Records
  <1>5. /\ i \in 1..MaxCalls /\ i \notin Records
        /\ pending' = pending \union {i}
        /\ UNCHANGED <<now, flush, rows, period, history>>
    BY <1>3, BoundsAssumption DEF CallLogged
  <1>6. calling' \in [Thread -> Int] /\ next' = next
    BY DEF CallLogged, Over, SpendTypeOK
  <1>7. SpendTypeOK'
    <2>1. flush' \in [Thread -> SUBSET Records'] /\ pending' \subseteq Records'
      BY <1>4, <1>5 DEF SpendTypeOK
    <2>2. Len(log') <= MaxCalls
      BY <1>4, <1>5, BoundsAssumption
    <2>3. /\ now' \in 0..LastTick /\ rows' \in [1..MaxCalls -> Nat]
          /\ period' \in Nat
      BY <1>5 DEF SpendTypeOK
    <2> QED  BY <1>4, <1>6, <2>1, <2>2, <2>3 DEF SpendTypeOK
  <1>8. Busy'
    BY <1>6 DEF Busy, Inside, CallLogged, Over, GuardInv, TypeOK, SpendTypeOK
  <1>9. StoredInv'
    BY <1>4, <1>5 DEF StoredInv, InHand, history, SpendTypeOK
  <1> QED  BY <1>7, <1>8, <1>9 DEF Added

\* The queue is stored: what no flush had in hand has its first row.
LEMMA FlushStoreInv ==
    ASSUME SpendInv, NEW t \in Thread, FlushStore(t)
    PROVE  Added'
  <1> USE DEF SpendInv, FlushStore
  <1>1. Records \subseteq 1..MaxCalls
    BY BoundsAssumption DEF SpendTypeOK, Records
  <1>2. /\ rows' \in [1..MaxCalls -> Nat]
        /\ \A i \in pending : rows'[i] = rows[i] + 1
        /\ \A i \in (1..MaxCalls) \ pending : rows'[i] = rows[i]
    BY <1>1 DEF SpendTypeOK
  <1>3. SpendTypeOK'
    BY <1>2 DEF SpendTypeOK, Records
  <1>4. Busy'
    BY DEF Busy, Inside, vars
  <1>5. Records' = Records /\ pending \subseteq InHand'
    BY DEF Records, InHand, SpendTypeOK
  <1>6. StoredInv'
    <2>1. /\ \A i \in pending : rows[i] = 0 \/ i \in together'
          /\ together \subseteq together'
      BY DEF StoredInv, InHand
    <2>2. \A i \in pending' : rows'[i] = 0 \/ i \in InHand'
      BY <1>5
    <2>3. ASSUME NEW i \in Records
          PROVE  rows'[i] <= 1 \/ i \in together'
      <3>1. CASE i \in pending
        BY <1>2, <2>1, <3>1
      <3>2. CASE i \notin pending
        BY <1>1, <1>2, <2>1, <3>2 DEF StoredInv
      <3> QED  BY <3>1, <3>2
    <2>4. \A i \in Records \ pending : rows'[i] > 0 \/ i \in lost'
      BY <1>1, <1>2 DEF StoredInv
    <2>5. \A i \in (1..MaxCalls) \ Records : rows'[i] = 0
      BY <1>1, <1>2 DEF StoredInv, SpendTypeOK
    <2> QED  BY <1>5, <2>2, <2>3, <2>4, <2>5 DEF StoredInv
  <1> QED  BY <1>3, <1>4, <1>6 DEF Added

\* The queue is emptied: what it still held and was never stored is lost.
LEMMA FlushClearInv ==
    ASSUME SpendInv, NEW t \in Thread, FlushClear(t)
    PROVE  Added'
  <1> USE DEF SpendInv, FlushClear
  <1>1. SpendTypeOK'
    BY DEF SpendTypeOK, Records
  <1>2. Busy'
    BY DEF Busy, Inside, vars
  <1>3. Records \subseteq 1..MaxCalls /\ Records' = Records
    BY BoundsAssumption DEF SpendTypeOK, Records
  <1>4. StoredInv'
    BY <1>3 DEF StoredInv, SpendTypeOK
  <1> QED  BY <1>1, <1>2, <1>4 DEF Added

LEMMA ProcessRestartInv ==
    ASSUME SpendInv, ProcessRestart
    PROVE  Added'
  <1> USE DEF SpendInv, ProcessRestart
  <1>1. SpendTypeOK'
    BY DEF SpendTypeOK, Records
  <1>2. Busy'
    BY DEF Busy, Inside, Restart
  <1>3. Records \subseteq 1..MaxCalls /\ Records' = Records
    BY BoundsAssumption DEF SpendTypeOK, Records
  <1>4. StoredInv'
    BY <1>3 DEF StoredInv, SpendTypeOK
  <1> QED  BY <1>1, <1>2, <1>4 DEF Added

LEMMA TickInv ==
    ASSUME SpendInv, Tick \/ UNCHANGED spendVars
    PROVE  Added'
  <1> USE DEF SpendInv, Tick, spendVars, flushVars, history
  <1>1. SpendTypeOK'
    BY ClockAssumption DEF SpendTypeOK, Records
  <1>2. Busy'
    BY DEF Busy, Inside, vars
  <1>3. StoredInv'
    BY DEF StoredInv, Records, InHand
  <1> QED  BY <1>1, <1>2, <1>3 DEF Added

LEMMA SpendNextInv == SpendInv /\ [SpendNext]_spendVars => SpendInv'
  <1> SUFFICES ASSUME SpendInv, [SpendNext]_spendVars PROVE SpendInv'
    OBVIOUS
  <1>1. GuardInv'
    BY StepGuardInv DEF SpendInv
  <1>2. Added'
    BY CallInv, CallLoggedInv, FlushStoreInv, FlushClearInv, ProcessRestartInv,
       TickInv DEF SpendNext, Step
  <1> QED  BY <1>1, <1>2 DEF SpendInv, Added

-----------------------------------------------------------------------------
(* The theorems.                                                           *)

\* The strengthened invariant of the composition.
THEOREM SpendInductive == SpendSpec => []SpendInv
  BY SpendInitInv, SpendNextInv, PTL DEF SpendSpec

\* In use, among calls that end, fail or are lost and with resets and restarts
\* at any moment, the guard admits what it records, within the daily cap, as
\* long as no two threads were in it at once and no estimate was NaN.
THEOREM GuardKeepsCap == SpendSpec => []NoOverspend
  BY SpendInductive, PTL DEF SpendInv, GuardInv

\* In use, too, what the guard records stays within the daily cap, and every
\* call it admitted within the cap per call.
THEOREM GuardRecordsWithinCap == SpendSpec => []TotalWithinCap
  BY SpendInductive, PTL DEF SpendInv, GuardInv

\* The day of a time is the quotient by the length of a day, and no other.
LEMMA OneDay ==
    ASSUME NEW at \in 0..LastTick
    PROVE  \E day \in Days :
              /\ at >= day * DayLength /\ at < (day + 1) * DayLength
              /\ \A d \in Days : at >= d * DayLength /\ at < (d + 1) * DayLength
                                  => d = day
  <1> USE ClockAssumption
  <1> DEFINE day == at \div DayLength
  <1>1. /\ day \in Nat
        /\ at >= day * DayLength /\ at < (day + 1) * DayLength
    OBVIOUS
  <1>2. LastTick \div DayLength \in Int /\ day <= LastTick \div DayLength
    OBVIOUS
  <1>3. ASSUME NEW d \in Nat, at >= d * DayLength, at < (d + 1) * DayLength
        PROVE  d = day
    BY <1>1, <1>3
  <1>4. day \in Days
    BY <1>1, <1>2 DEF Days
  <1>5. \A d \in Days : d \in Nat
    BY DEF Days
  <1> HIDE DEF day
  <1> QED  BY <1>1, <1>3, <1>4, <1>5

\* A record that has left the queue, neither lost nor shared by two flushes, is
\* in the table once and counted by the summary of one day, whatever the length
\* of a day and whenever it was logged.
THEOREM EveryCallCountedOnce == SpendSpec => []CountedOnce
  <1>1. ASSUME SpendInv PROVE CountedOnce
    <2> SUFFICES ASSUME NEW i \in Records \ (pending \union lost \union together)
                 PROVE  /\ Cardinality({day \in Days : i \in RowsOf(day)}) = 1
                        /\ rows[i] = 1
      BY DEF CountedOnce
    <2>1. rows[i] = 1
      <3>1. i \in 1..MaxCalls
        BY <1>1, BoundsAssumption DEF SpendInv, SpendTypeOK, Records
      <3> QED  BY <1>1, <3>1 DEF SpendInv, StoredInv, SpendTypeOK
    <2>2. log[i].at \in 0..LastTick
      <3>1. log \in Seq(LogRecord) /\ i \in DOMAIN log
        BY <1>1 DEF SpendInv, SpendTypeOK, Records
      <3>2. log[i] \in LogRecord
        BY <3>1
      <3> QED  BY <3>2 DEF LogRecord
    <2>3. PICK day \in Days : {d \in Days : i \in RowsOf(d)} = {day}
      BY <2>1, <2>2, OneDay DEF RowsOf, OnDay
    <2> QED  BY <2>1, <2>3, FS_Singleton
  <1> QED  BY <1>1, SpendInductive, PTL
-----------------------------------------------------------------------------
(* Sums over finite sets: SumFunctionOnSet is defined by a CHOOSE of a       *)
(* recursive function, which is shown to exist.                              *)

\* A nonempty set of naturals has a least element.
LEMMA LeastNat ==
    ASSUME NEW T, T \subseteq Nat, T # {}
    PROVE  \E x \in T : \A y \in T : x <= y
  <1>1. PICK t \in T : TRUE
    OBVIOUS
  <1>2. \E x \in T : \A y \in T : ~ (<<y, x>> \in OpToRel(<, Nat))
    BY <1>1, NatLessThanWellFounded, WFMin
  <1>3. \A x, y \in T : ~ (<<y, x>> \in OpToRel(<, Nat)) => x <= y
    BY DEF OpToRel
  <1> QED  BY <1>2, <1>3

\* A family of sets that has a finite set once it has all its proper subsets
\* has every finite set.
LEMMA SubsetInduction ==
    ASSUME NEW S, IsFiniteSet(S), NEW F,
           \A s \in SUBSET S : (\A t \in SUBSET s : t # s => t \in F) => s \in F
    PROVE  S \in F
  <1> SUFFICES ASSUME S \notin F PROVE FALSE
    OBVIOUS
  <1> DEFINE Bad == {s \in SUBSET S : s \notin F}
             Sizes == {Cardinality(s) : s \in Bad}
  <1>1. \A s \in Bad : IsFiniteSet(s) /\ Cardinality(s) \in Nat
    BY FS_Subset, FS_CardinalityType
  <1>2. Sizes \subseteq Nat /\ Sizes # {}
    <2>1. S \in Bad
      OBVIOUS
    <2> QED  BY <1>1, <2>1
  <1>3. PICK n \in Sizes : \A m \in Sizes : n <= m
    <2> HIDE DEF Sizes
    <2> QED  BY <1>2, LeastNat
  <1>4. PICK s \in Bad : Cardinality(s) = n
    BY <1>3
  <1>5. ASSUME NEW t \in SUBSET s, t # s PROVE t \in F
    <2>1. Cardinality(t) < Cardinality(s) /\ Cardinality(t) \in Nat
      BY <1>1, <1>4, <1>5, FS_Subset, FS_CardinalityType
    <2>2. ASSUME t \in Bad PROVE FALSE
      <3>1. Cardinality(t) \in Sizes
        BY <2>2
      <3>2. n <= Cardinality(t)
        BY <1>3, <3>1
      <3>3. Cardinality(s) \in Nat
        BY <1>1
      <3> HIDE DEF Bad, Sizes
      <3> QED  BY <1>4, <2>1, <3>2, <3>3
    <2>3. t \in SUBSET S
      BY <1>4
    <2> QED  BY <2>2, <2>3
  <1> QED  BY <1>4, <1>5

\* What the fold behind SumFunctionOnSet takes from a set first.
Pick(s) == CHOOSE x \in s : TRUE

\* One step of a sum over the subsets of a set.
Adds(it, f, s) == IF s = {} THEN 0 ELSE f[Pick(s)] + it[s \ {Pick(s)}]
IsSum(it, f, S) == it = [s \in SUBSET S |-> Adds(it, f, s)]

\* SumFunctionOnSet as a function of that kind.
LEMMA SumUnfold ==
    ASSUME NEW f, NEW S
    PROVE  SumFunctionOnSet(f, S) = (CHOOSE it : IsSum(it, f, S))[S]
  BY DEF IsSum, Adds, Pick, SumFunctionOnSet, FoldFunctionOnSet, MapThenFoldSet

\* The subsets of S with at most k elements.
Small(S, k) == {s \in SUBSET S : Cardinality(s) <= k}

\* There is such a function on the subsets of a finite set: it is made for
\* larger and larger ones.
LEMMA SumExists ==
    ASSUME NEW f, NEW S, IsFiniteSet(S)
    PROVE  \E it : IsSum(it, f, S)
  <1> DEFINE On(k) == \E g : g = [s \in Small(S, k) |-> Adds(g, f, s)]
             Bad == {k \in Nat : ~On(k)}
  <1>1. /\ Cardinality(S) \in Nat
        /\ \A s \in SUBSET S : /\ IsFiniteSet(s)
                               /\ Cardinality(s) \in Nat
                               /\ Cardinality(s) <= Cardinality(S)
                               /\ Cardinality(s) = 0 => s = {}
    BY FS_Subset, FS_CardinalityType, FS_EmptySet
  <1>2. On(0)
    <2>1. ASSUME NEW s \in Small(S, 0) PROVE s = {}
      <3>1. s \in SUBSET S /\ Cardinality(s) <= 0
        BY DEF Small
      <3>2. Cardinality(s) = 0
        BY <1>1, <3>1
      <3> QED  BY <1>1, <3>1, <3>2
    <2>2. PICK g : g = [s \in Small(S, 0) |-> 0]
      OBVIOUS
    <2>3. g = [s \in Small(S, 0) |-> Adds(g, f, s)]
      BY <2>1, <2>2 DEF Adds
    <2> QED  BY <2>3
  <1>3. ASSUME NEW k \in Nat, On(k) PROVE On(k + 1)
    <2>1. PICK g : g = [s \in Small(S, k) |-> Adds(g, f, s)]
      BY <1>3
    <2>2. PICK h : h = [s \in Small(S, k + 1) |-> Adds(g, f, s)]
      OBVIOUS
    <2>3. ASSUME NEW s \in Small(S, k + 1)
          PROVE  Adds(g, f, s) = Adds(h, f, s)
      <3>1. CASE s = {}
        BY <3>1 DEF Adds
      <3>2. CASE s # {}
        <4> DEFINE r == s \ {Pick(s)}
        <4>1. Pick(s) \in s
          BY <3>2 DEF Pick
        <4>2. s \in SUBSET S /\ Cardinality(s) <= k + 1
          BY DEF Small
        <4>3. IsFiniteSet(s) /\ Cardinality(s) \in Nat
          BY <1>1, <4>2
        <4>4. r \in SUBSET S /\ Cardinality(r) = Cardinality(s) - 1
          BY <4>1, <4>2, <4>3, FS_RemoveElement
        <4>5. Cardinality(r) <= k /\ Cardinality(r) <= k + 1
          BY <4>2, <4>3, <4>4
        <4>6. r \in Small(S, k) /\ r \in Small(S, k + 1)
          BY <4>4, <4>5 DEF Small
        <4> HIDE DEF r
        <4>7. g[r] = Adds(g, f, r) /\ h[r] = Adds(g, f, r)
          BY <2>1, <2>2, <4>6
        <4> QED  BY <4>7 DEF Adds, r
      <3> QED  BY <3>1, <3>2
    <2>4. h = [s \in Small(S, k + 1) |-> Adds(h, f, s)]
      BY <2>2, <2>3
    <2> QED  BY <2>4
  <1>4. \A k \in Nat : On(k)
    <2> SUFFICES ASSUME Bad # {} PROVE FALSE
      OBVIOUS
    <2>1. PICK k \in Bad : \A m \in Bad : k <= m
      <3> HIDE DEF On
      <3> QED  BY LeastNat
    <2>2. k # 0
      BY <1>2
    <2>3. k - 1 \in Nat /\ k - 1 \notin Bad /\ ~On(k)
      BY <2>1, <2>2
    <2>4. On(k - 1)
      BY <2>3
    <2> HIDE DEF On
    <2> QED  BY <1>3, <2>3, <2>4
  <1>5. Small(S, Cardinality(S)) = SUBSET S
    <2>1. \A s \in SUBSET S : Cardinality(s) <= Cardinality(S)
      BY <1>1
    <2> QED  BY <2>1 DEF Small
  <1>6. On(Cardinality(S))
    <2>1. Cardinality(S) \in Nat
      BY <1>1
    <2> HIDE DEF On
    <2> QED  BY <1>4, <2>1
  <1> QED  BY <1>5, <1>6 DEF IsSum

\* What a sum is.
LEMMA SumIs ==
    ASSUME NEW f, NEW S, IsFiniteSet(S)
    PROVE  \E it : IsSum(it, f, S) /\ SumFunctionOnSet(f, S) = it[S]
  BY SumExists, SumUnfold

\* Functions that agree on the set have the same sum.
LEMMA SumAgrees ==
    ASSUME NEW f, NEW S, IsFiniteSet(S), NEW g, NEW h, NEW U, IsFiniteSet(U), S \subseteq U,
           IsSum(g, f, S), NEW e, IsSum(h, e, U), \A x \in S : f[x] = e[x]
    PROVE  g[S] = h[S]
  <1> DEFINE Same == {s \in SUBSET S : g[s] = h[s]}
  <1>1. ASSUME NEW s \in SUBSET S, \A t \in SUBSET s : t # s => t \in Same
        PROVE  s \in Same
    <2>1. g[s] = Adds(g, f, s) /\ h[s] = Adds(h, e, s)
      BY DEF IsSum
    <2>2. CASE s = {}
      BY <2>1, <2>2 DEF Adds
    <2>3. CASE s # {}
      <3>1. Pick(s) \in s
        BY <2>3 DEF Pick
      <3>2. s \ {Pick(s)} \in SUBSET s /\ s \ {Pick(s)} # s
        BY <3>1
      <3>3. g[s \ {Pick(s)}] = h[s \ {Pick(s)}]
        BY <1>1, <3>2
      <3>4. f[Pick(s)] = e[Pick(s)]
        BY <3>1
      <3> QED  BY <2>1, <2>3, <3>3, <3>4 DEF Adds
    <2> QED  BY <2>2, <2>3
  <1> HIDE DEF Same
  <1>2. S \in Same
    BY <1>1, SubsetInduction
  <1> QED  BY <1>2 DEF Same

\* So the sum depends on the numbers in the set alone.
LEMMA SumCongruence ==
    ASSUME NEW f, NEW g, NEW S, IsFiniteSet(S), \A x \in S : f[x] = g[x]
    PROVE  SumFunctionOnSet(f, S) = SumFunctionOnSet(g, S)
  BY SumIs, SumAgrees

\* Nothing sums to 0.
LEMMA SumEmpty ==
    ASSUME NEW f
    PROVE  SumFunctionOnSet(f, {}) = 0
  <1>1. PICK it : IsSum(it, f, {}) /\ SumFunctionOnSet(f, {}) = it[{}]
    BY SumIs, FS_EmptySet
  <1> QED  BY <1>1 DEF IsSum, Adds

\* A sum is the number picked and the sum of the others.
LEMMA SumStep ==
    ASSUME NEW f, NEW S, IsFiniteSet(S), S # {}
    PROVE  /\ Pick(S) \in S
           /\ SumFunctionOnSet(f, S) = f[Pick(S)] + SumFunctionOnSet(f, S \ {Pick(S)})
  <1>1. PICK h : IsSum(h, f, S) /\ SumFunctionOnSet(f, S) = h[S]
    BY SumIs
  <1>2. PICK T : T = S \ {Pick(S)}
    OBVIOUS
  <1>3. IsFiniteSet(T) /\ T \subseteq S
    BY <1>2, FS_Subset
  <1>4. PICK g : IsSum(g, f, T) /\ SumFunctionOnSet(f, T) = g[T]
    BY <1>3, SumIs
  <1>5. g[T] = h[T]
    BY <1>1, <1>3, <1>4, SumAgrees
  <1>6. h[S] = f[Pick(S)] + h[T]
    BY <1>1, <1>2 DEF IsSum, Adds
  <1>7. Pick(S) \in S
    BY DEF Pick
  <1> QED  BY <1>1, <1>2, <1>4, <1>5, <1>6, <1>7

\* A sum of naturals is one.
LEMMA SumType ==
    ASSUME NEW f, NEW S, IsFiniteSet(S), \A x \in S : f[x] \in Nat
    PROVE  SumFunctionOnSet(f, S) \in Nat
  <1> DEFINE F == {s \in SUBSET S : SumFunctionOnSet(f, s) \in Nat}
  <1>1. ASSUME NEW s \in SUBSET S, \A t \in SUBSET s : t # s => t \in F
        PROVE  s \in F
    <2>1. IsFiniteSet(s)
      BY FS_Subset
    <2>2. CASE s = {}
      BY <2>2, SumEmpty
    <2>3. CASE s # {}
      <3>1. /\ Pick(s) \in s
            /\ SumFunctionOnSet(f, s) = f[Pick(s)] + SumFunctionOnSet(f, s \ {Pick(s)})
        BY <2>1, <2>3, SumStep
      <3>2. SumFunctionOnSet(f, s \ {Pick(s)}) \in Nat
        BY <1>1, <3>1
      <3>3. f[Pick(s)] \in Nat
        BY <3>1
      <3> QED  BY <3>1, <3>2, <3>3
    <2> QED  BY <2>2, <2>3
  <1> HIDE DEF F
  <1>2. S \in F
    BY <1>1, SubsetInduction
  <1> QED  BY <1>2 DEF F

\* Whichever is picked first.
LEMMA SumRemove ==
    ASSUME NEW f, NEW S, IsFiniteSet(S), \A x \in S : f[x] \in Nat, NEW x \in S
    PROVE  SumFunctionOnSet(f, S) = f[x] + SumFunctionOnSet(f, S \ {x})
  <1> DEFINE F == {s \in SUBSET S :
                     \A y \in s : SumFunctionOnSet(f, s) = f[y] + SumFunctionOnSet(f, s \ {y})}
  <1>1. ASSUME NEW s \in SUBSET S, \A t \in SUBSET s : t # s => t \in F
        PROVE  s \in F
    <2> SUFFICES ASSUME NEW y \in s
                 PROVE  SumFunctionOnSet(f, s) = f[y] + SumFunctionOnSet(f, s \ {y})
      OBVIOUS
    <2>1. IsFiniteSet(s) /\ s # {}
      BY FS_Subset
    <2>2. PICK c : c = Pick(s)
      OBVIOUS
    <2>3. c \in s /\ SumFunctionOnSet(f, s) = f[c] + SumFunctionOnSet(f, s \ {c})
      BY <2>1, <2>2, SumStep
    <2>4. CASE c = y
      BY <2>3, <2>4
    <2>5. CASE c # y
      <3>1. s \ {c} \in F /\ y \in s \ {c} /\ s \ {y} \in F /\ c \in s \ {y}
        BY <1>1, <2>3, <2>5
      <3>2. /\ SumFunctionOnSet(f, s \ {c}) = f[y] + SumFunctionOnSet(f, (s \ {c}) \ {y})
            /\ SumFunctionOnSet(f, s \ {y}) = f[c] + SumFunctionOnSet(f, (s \ {y}) \ {c})
        BY <3>1
      <3>3. (s \ {c}) \ {y} = (s \ {y}) \ {c}
        OBVIOUS
      <3>4. SumFunctionOnSet(f, (s \ {y}) \ {c}) \in Nat
        <4>1. PICK r : r = (s \ {y}) \ {c}
          OBVIOUS
        <4>2. IsFiniteSet(r) /\ \A z \in r : f[z] \in Nat
          BY <2>1, <4>1, FS_Subset
        <4> QED  BY <4>1, <4>2, SumType
      <3>5. f[c] \in Nat /\ f[y] \in Nat
        BY <2>3
      <3> HIDE DEF F
      <3> QED  BY <2>3, <3>2, <3>3, <3>4, <3>5
    <2> QED  BY <2>4, <2>5
  <1> HIDE DEF F
  <1>2. S \in F
    BY <1>1, SubsetInduction
  <1> QED  BY <1>2 DEF F

\* One more.
LEMMA SumAdd ==
    ASSUME NEW f, NEW S, IsFiniteSet(S), NEW x, x \notin S, \A y \in S \union {x} : f[y] \in Nat
    PROVE  SumFunctionOnSet(f, S \union {x}) = f[x] + SumFunctionOnSet(f, S)
  <1>1. IsFiniteSet(S \union {x})
    BY FS_AddElement
  <1>2. (S \union {x}) \ {x} = S
    OBVIOUS
  <1> QED  BY <1>1, <1>2, SumRemove

\* Two sets without a common element.
LEMMA SumUnion ==
    ASSUME NEW f, NEW A, NEW B, IsFiniteSet(A), IsFiniteSet(B), A \cap B = {},
           \A x \in A \union B : f[x] \in Nat
    PROVE  SumFunctionOnSet(f, A \union B) = SumFunctionOnSet(f, A) + SumFunctionOnSet(f, B)
  <1> DEFINE F == {b \in SUBSET B : SumFunctionOnSet(f, A \union b)
                                       = SumFunctionOnSet(f, A) + SumFunctionOnSet(f, b)}
  <1>0. SumFunctionOnSet(f, A) \in Nat
    BY SumType
  <1>1. ASSUME NEW b \in SUBSET B, \A t \in SUBSET b : t # b => t \in F
        PROVE  b \in F
    <2>1. IsFiniteSet(b)
      BY FS_Subset
    <2>2. CASE b = {}
      <3>1. A \union b = A
        BY <2>2
      <3> QED  BY <1>0, <2>2, <3>1, SumEmpty
    <2>3. CASE b # {}
      <3>1. PICK x \in b : TRUE
        BY <2>3
      <3>2. PICK r : r = b \ {x}
        OBVIOUS
      <3>3. SumFunctionOnSet(f, A \union r) = SumFunctionOnSet(f, A) + SumFunctionOnSet(f, r)
        BY <1>1, <3>2
      <3>4. IsFiniteSet(r) /\ IsFiniteSet(A \union r)
        BY <2>1, <3>2, FS_Subset, FS_Union
      <3>5. /\ x \notin r /\ x \notin A \union r
            /\ r \union {x} = b /\ (A \union r) \union {x} = A \union b
        BY <3>2
      <3>6. /\ \A y \in r \union {x} : f[y] \in Nat
            /\ \A y \in (A \union r) \union {x} : f[y] \in Nat
        BY <3>5
      <3>7. /\ SumFunctionOnSet(f, b) = f[x] + SumFunctionOnSet(f, r)
            /\ SumFunctionOnSet(f, A \union b) = f[x] + SumFunctionOnSet(f, A \union r)
        BY <3>4, <3>5, <3>6, SumAdd
      <3>8. SumFunctionOnSet(f, r) \in Nat /\ f[x] \in Nat
        BY <3>4, <3>6, SumType
      <3>9. SumFunctionOnSet(f, A \union b) = SumFunctionOnSet(f, A) + SumFunctionOnSet(f, b)
        BY <1>0, <3>3, <3>7, <3>8
      <3> QED  BY <3>9
    <2> QED  BY <2>2, <2>3
  <1> HIDE DEF F
  <1>2. B \in F
    BY <1>1, SubsetInduction
  <1> QED  BY <1>2 DEF F

\* Some of the numbers come to no more than all.
LEMMA SumSubset ==
    ASSUME NEW f, NEW S, IsFiniteSet(S), \A x \in S : f[x] \in Nat, NEW T \in SUBSET S
    PROVE  SumFunctionOnSet(f, T) <= SumFunctionOnSet(f, S)
  <1>1. PICK R : R = S \ T
    OBVIOUS
  <1>2. T \union R = S /\ T \cap R = {} /\ IsFiniteSet(T) /\ IsFiniteSet(R)
    BY <1>1, FS_Subset
  <1>3. SumFunctionOnSet(f, S) = SumFunctionOnSet(f, T) + SumFunctionOnSet(f, R)
    BY <1>2, SumUnion
  <1>4. SumFunctionOnSet(f, T) \in Nat /\ SumFunctionOnSet(f, R) \in Nat
    BY <1>2, SumType
  <1> QED  BY <1>3, <1>4

\* Where each of the groups comes to no more than a cap, all come to no more
\* than as many caps as there are groups.
LEMMA SumOfGroups ==
    ASSUME NEW f, NEW S, IsFiniteSet(S), \A x \in S : f[x] \in Nat, NEW g, NEW cap \in Nat,
           NEW P, IsFiniteSet(P), \A x \in S : g[x] \in P,
           \A p \in P : SumFunctionOnSet(f, {x \in S : g[x] = p}) <= cap
    PROVE  SumFunctionOnSet(f, S) <= Cardinality(P) * cap
  <1> DEFINE In(Q) == {x \in S : g[x] \in Q}
             F == {Q \in SUBSET P : SumFunctionOnSet(f, In(Q)) <= Cardinality(Q) * cap}
  <1>0. \A Q : IsFiniteSet(In(Q)) /\ In(Q) \subseteq S
    BY FS_Subset
  <1>1. ASSUME NEW Q \in SUBSET P, \A t \in SUBSET Q : t # Q => t \in F
        PROVE  Q \in F
    <2>1. IsFiniteSet(Q)
      BY FS_Subset
    <2>2. CASE Q = {}
      <3>1. In(Q) = {} /\ Cardinality(Q) = 0
        BY <2>2, FS_EmptySet
      <3>2. SumFunctionOnSet(f, In(Q)) = 0
        BY <3>1, SumEmpty
      <3> QED  BY <3>1, <3>2
    <2>3. CASE Q # {}
      <3>1. PICK p \in Q : TRUE
        BY <2>3
      <3>2. PICK R : R = Q \ {p}
        OBVIOUS
      <3>3. IsFiniteSet(R) /\ Cardinality(Q) = Cardinality(R) + 1 /\ Cardinality(R) \in Nat
        <4>1. IsFiniteSet(R) /\ Cardinality(R) = Cardinality(Q) - 1
          BY <2>1, <3>1, <3>2, FS_RemoveElement
        <4>2. Cardinality(R) \in Nat /\ Cardinality(Q) \in Nat
          BY <2>1, <4>1, FS_CardinalityType
        <4> QED  BY <4>1, <4>2
      <3>4. SumFunctionOnSet(f, In(R)) <= Cardinality(R) * cap
        BY <1>1, <3>2
      <3>5. PICK A, B : A = In(R) /\ B = {x \in S : g[x] = p}
        OBVIOUS
      <3>6. A \cap B = {} /\ A \union B = In(Q) /\ A \subseteq S /\ B \subseteq S
        BY <3>2, <3>5
      <3>7. IsFiniteSet(A) /\ IsFiniteSet(B)
        BY <3>6, FS_Subset
      <3>8. SumFunctionOnSet(f, In(Q)) = SumFunctionOnSet(f, A) + SumFunctionOnSet(f, B)
        <4> HIDE DEF In
        <4> QED  BY <3>6, <3>7, SumUnion
      <3>9. SumFunctionOnSet(f, A) \in Nat /\ SumFunctionOnSet(f, B) \in Nat
        BY <3>6, <3>7, SumType
      <3>10. SumFunctionOnSet(f, B) <= cap
        BY <3>5
      <3>11. SumFunctionOnSet(f, In(Q)) <= (Cardinality(R) + 1) * cap
        <4> HIDE DEF In
        <4> QED  BY <3>3, <3>4, <3>5, <3>8, <3>9, <3>10
      <3> QED  BY <3>3, <3>11
    <2> QED  BY <2>2, <2>3
  <1> HIDE DEF F
  <1>2. P \in F
    BY <1>1, SubsetInduction
  <1>3. In(P) = S
    OBVIOUS
  <1> QED  BY <1>2, <1>3 DEF F

\* A set and a function with one element more.
LEMMA SumGrows ==
    ASSUME NEW f, NEW e, NEW S, IsFiniteSet(S), NEW x, x \notin S,
           \A y \in S : f[y] \in Nat /\ e[y] = f[y], e[x] \in Nat
    PROVE  SumFunctionOnSet(e, S \union {x}) = SumFunctionOnSet(f, S) + e[x]
  <1>1. SumFunctionOnSet(e, S) = SumFunctionOnSet(f, S)
    BY SumCongruence
  <1>2. SumFunctionOnSet(e, S \union {x}) = e[x] + SumFunctionOnSet(e, S)
    BY SumAdd
  <1>3. SumFunctionOnSet(f, S) \in Nat
    BY SumType
  <1> QED  BY <1>1, <1>2, <1>3

\* Sums of two functions, number by number.
LEMMA SumPlus ==
    ASSUME NEW f, NEW g, NEW h, NEW S, IsFiniteSet(S),
           \A x \in S : g[x] \in Nat /\ h[x] \in Nat /\ f[x] = g[x] + h[x]
    PROVE  SumFunctionOnSet(f, S) = SumFunctionOnSet(g, S) + SumFunctionOnSet(h, S)
  <1> DEFINE F == {s \in SUBSET S : SumFunctionOnSet(f, s)
                                       = SumFunctionOnSet(g, s) + SumFunctionOnSet(h, s)}
  <1>1. ASSUME NEW s \in SUBSET S, \A t \in SUBSET s : t # s => t \in F
        PROVE  s \in F
    <2>1. IsFiniteSet(s)
      BY FS_Subset
    <2>2. CASE s = {}
      BY <2>2, SumEmpty
    <2>3. CASE s # {}
      <3>1. PICK x, r : x = Pick(s) /\ r = s \ {x}
        OBVIOUS
      <3>2. /\ x \in s
            /\ SumFunctionOnSet(f, s) = f[x] + SumFunctionOnSet(f, r)
            /\ SumFunctionOnSet(g, s) = g[x] + SumFunctionOnSet(g, r)
            /\ SumFunctionOnSet(h, s) = h[x] + SumFunctionOnSet(h, r)
        BY <2>1, <2>3, <3>1, SumStep
      <3>3. SumFunctionOnSet(f, r) = SumFunctionOnSet(g, r) + SumFunctionOnSet(h, r)
        BY <1>1, <3>1, <3>2
      <3>4. IsFiniteSet(r) /\ r \subseteq S
        BY <2>1, <3>1, FS_Subset
      <3>5. SumFunctionOnSet(g, r) \in Nat /\ SumFunctionOnSet(h, r) \in Nat
        BY <3>4, SumType
      <3>6. g[x] \in Nat /\ h[x] \in Nat /\ f[x] = g[x] + h[x]
        BY <3>2
      <3>7. SumFunctionOnSet(f, s) = SumFunctionOnSet(g, s) + SumFunctionOnSet(h, s)
        BY <3>2, <3>3, <3>5, <3>6
      <3> QED  BY <3>7
    <2> QED  BY <2>2, <2>3
  <1> HIDE DEF F
  <1>2. S \in F
    BY <1>1, SubsetInduction
  <1> QED  BY <1>2 DEF F

\* A set and a function with one element less.
LEMMA SumShrinks ==
    ASSUME NEW f, NEW e, NEW S, IsFiniteSet(S), NEW x \in S,
           \A y \in S : f[y] \in Nat, \A y \in S \ {x} : e[y] = f[y]
    PROVE  /\ SumFunctionOnSet(e, S \ {x}) \in Nat
           /\ SumFunctionOnSet(f, S) = SumFunctionOnSet(e, S \ {x}) + f[x]
  <1>1. PICK R : R = S \ {x}
    OBVIOUS
  <1>2. IsFiniteSet(R) /\ R \subseteq S
    BY <1>1, FS_Subset
  <1>3. SumFunctionOnSet(e, R) = SumFunctionOnSet(f, R)
    BY <1>1, <1>2, SumCongruence
  <1>4. SumFunctionOnSet(f, S) = f[x] + SumFunctionOnSet(f, R)
    BY <1>1, SumRemove
  <1>5. SumFunctionOnSet(f, R) \in Nat
    BY <1>2, SumType
  <1> QED  BY <1>1, <1>3, <1>4, <1>5

-----------------------------------------------------------------------------
(* What is logged was admitted.                                            *)

\* The sums of ChargeInv are of natural numbers over finite sets.
LEMMA ChargeTypes ==
    ASSUME SpendInv
    PROVE  /\ IsFiniteSet(Records) /\ Records = 1..Len(log) /\ Len(log) \in Nat
           /\ \A i \in Records : /\ log[i].cost \in Nat /\ log[i].excess \in Nat
                                 /\ Charges[i] = log[i].cost - log[i].excess
                                 /\ Charges[i] \in Nat
           /\ \A p : IsFiniteSet(CallsOf(p)) /\ LoggedIn(p) \in Nat
  <1>1. log \in Seq(LogRecord)
    BY DEF SpendInv, SpendTypeOK
  <1>2. Records = 1..Len(log) /\ Len(log) \in Nat
    BY <1>1 DEF Records
  <1>3. IsFiniteSet(Records)
    BY <1>2, FS_Interval
  <1>4. \A i \in Records : /\ log[i].cost \in Nat /\ log[i].excess \in Nat
                           /\ Charges[i] = log[i].cost - log[i].excess
                           /\ Charges[i] \in Nat
    <2>1. \A i \in Records : log[i] \in LogRecord
      BY <1>1, <1>2
    <2>2. \A i \in Records : /\ log[i].cost \in Nat /\ log[i].excess \in Nat
                             /\ log[i].excess <= log[i].cost
      BY <2>1 DEF LogRecord
    <2> QED  BY <2>2 DEF Charges
  <1>5. \A p : IsFiniteSet(CallsOf(p))
    BY ThreadAssumption, FS_Subset DEF CallsOf
  <1>6. ASSUME NEW p PROVE LoggedIn(p) \in Nat
    <2>1. PICK S : S = {i \in Records : log[i].period = p}
      OBVIOUS
    <2>2. IsFiniteSet(S) /\ S \subseteq Records
      BY <1>3, <2>1, FS_Subset
    <2> QED  BY <1>4, <2>1, <2>2, SumType DEF LoggedIn
  <1> QED  BY <1>2, <1>3, <1>4, <1>5, <1>6

\* Nothing is charged before the first call.
LEMMA ChargeInit == SpendInit => ChargeInv
  <1> SUFFICES ASSUME SpendInit PROVE ChargeInv
    OBVIOUS
  <1> USE DEF SpendInit, Init
  <1>1. Records = {}
    BY DEF Records
  <1>2. ASSUME NEW p \in Periods PROVE WithinAdmitted(p)
    <2>1. CallsOf(p) = {} /\ {i \in Records : log[i].period = p} = {} /\ p = 0
      BY <1>1, <1>2 DEF CallsOf, Periods
    <2>2. LoggedIn(p) = 0 /\ SumFunctionOnSet(estimated, CallsOf(p)) = 0
      BY <2>1, SumEmpty DEF LoggedIn
    <2> QED  BY <2>1, <2>2 DEF WithinAdmitted, AdmittedIn
  <1> QED  BY <1>1, <1>2, NaNAssumption DEF ChargeInv, Periods

\* A period whose calls and records are the same has no more to account for.
LEMMA SameCharges ==
    ASSUME SpendInv, NEW p, WithinAdmitted(p), log' = log, CallsOf(p)' = CallsOf(p),
           \A t \in CallsOf(p) : estimated'[t] = estimated[t],
           AdmittedIn(p) \in Int, AdmittedIn(p)' \in Int, AdmittedIn(p) <= AdmittedIn(p)'
    PROVE  WithinAdmitted(p)'
  <1>1. LoggedIn(p)' = LoggedIn(p)
    BY DEF LoggedIn, Charges, Records
  <1>2. SumFunctionOnSet(estimated, CallsOf(p))' = SumFunctionOnSet(estimated, CallsOf(p))
    BY ChargeTypes, SumCongruence
  <1>3. LoggedIn(p) \in Nat /\ SumFunctionOnSet(estimated, CallsOf(p)) \in Nat
    BY ChargeTypes, SumType DEF WithinAdmitted
  <1> QED  BY <1>1, <1>2, <1>3 DEF WithinAdmitted

\* What a period may account for is a number, and for the current one, if
\* sound, no more than the cap.
LEMMA AdmittedTypes ==
    ASSUME SpendInv, ChargeInv, DailyCap # NaN, NEW p \in Periods \ unsound
    PROVE  AdmittedIn(p) \in Nat /\ DailyCap \in Nat /\ AdmittedIn(p) <= DailyCap
  <1>1. DailyCap \in Nat /\ spent \in Nat
    BY CapAssumption DEF SpendInv, GuardInv, TypeOK, Cost
  <1>2. CASE p = period
    <2>1. ~raced /\ total # NaN
      BY <1>2 DEF ChargeInv
    <2>2. ~Above(spent, DailyCap)
      BY <2>1 DEF SpendInv, GuardInv, NoOverspend
    <2> QED  BY <1>1, <1>2, <2>2, NaNAssumption DEF AdmittedIn, Above
  <1> QED  BY <1>1, <1>2 DEF AdmittedIn

\* The history of a step: no period becomes sound again.
Marked == unsound' = IF raced' \/ total' = NaN THEN unsound \union {period'} ELSE unsound

\* Steps in which no call starts, ends or is lost, and the guard records none.
LEMMA QuietCharges ==
    ASSUME SpendInv, ChargeInv, UNCHANGED <<log, calling, period, spent>>,
           \A t \in Thread : calling[t] # -1 => estimated'[t] = estimated[t],
           Marked \/ UNCHANGED <<raced, total, unsound>>
    PROVE  ChargeInv'
  <1>1. unsound \subseteq unsound' /\ (raced' \/ total' = NaN => period' \in unsound')
    BY DEF Marked, ChargeInv
  <1>2. ASSUME DailyCap # NaN, NEW p \in Periods' \ unsound'
        PROVE  WithinAdmitted(p)'
    <2>1. p \in Periods \ unsound /\ WithinAdmitted(p) /\ p \in Nat
      BY <1>1, <1>2 DEF ChargeInv, Periods, SpendInv, SpendTypeOK
    <2>2. AdmittedIn(p)' = AdmittedIn(p) /\ CallsOf(p)' = CallsOf(p)
      BY DEF AdmittedIn, CallsOf
    <2>3. \A t \in CallsOf(p) : estimated'[t] = estimated[t]
      BY <2>1 DEF CallsOf
    <2> QED  BY <1>2, <2>1, <2>2, <2>3, AdmittedTypes, SameCharges
  <1>3. /\ \A i \in Records' : log'[i].period \in Periods'
        /\ \A t \in Thread : calling'[t] \in Periods' \union {-1}
    BY DEF ChargeInv, Records, Periods
  <1> QED  BY <1>1, <1>2, <1>3 DEF ChargeInv

\* An admitted call is added to what was spent and to what is under way.
LEMMA StartCharges ==
    ASSUME SpendInv, ChargeInv, NEW t \in Thread, Start(t), Marked
    PROVE  ChargeInv'
  <1> USE DEF SpendInv, GuardInv
  <1>1. /\ UNCHANGED <<log, period, estimated, raced>>
        /\ next[t] # -1 /\ total' = next[t] /\ spent' = Spend(estimated[t])
        /\ calling' = [calling EXCEPT ![t] = period] /\ calling \in [Thread -> Int]
        /\ period \in Nat
    BY DEF Start, Assign, SpendTypeOK
  <1>2. t \in Inside /\ calling[t] = -1
    BY <1>1 DEF Inside, Busy
  <1>3. unsound \subseteq unsound' /\ (raced' \/ total' = NaN => period' \in unsound')
    BY DEF Marked
  <1>4. /\ \A i \in Records' : log'[i].period \in Periods'
        /\ \A u \in Thread : calling'[u] \in Periods' \union {-1}
    BY <1>1 DEF ChargeInv, Records, Periods
  <1>5. ASSUME DailyCap # NaN, NEW p \in Periods' \ unsound'
        PROVE  WithinAdmitted(p)'
    <2>1. p \in Periods \ unsound /\ WithinAdmitted(p) /\ p \in Nat
      BY <1>1, <1>3, <1>5 DEF ChargeInv, Periods
    <2>2. CASE p # period
      <3>1. AdmittedIn(p)' = AdmittedIn(p) /\ CallsOf(p)' = CallsOf(p)
        BY <1>1, <1>2, <2>1, <2>2 DEF AdmittedIn, CallsOf
      <3> QED  BY <1>1, <1>5, <2>1, <3>1, AdmittedTypes, SameCharges
    <2>3. CASE p = period
      <3>1. ~raced /\ next[t] # NaN
        BY <1>1, <1>3, <1>5, <2>3
      <3>2. estimated[t] \in Nat
        BY <1>2, <3>1 DEF Current, Plus, TypeOK, Cost
      <3>3. spent' = spent + estimated[t] /\ spent \in Nat
        BY <1>1, <3>2, NaNAssumption DEF Spend, TypeOK
      <3>4. PICK C : C = CallsOf(p)
        OBVIOUS
      <3>5. t \notin C /\ CallsOf(p)' = C \union {t} /\ IsFiniteSet(C)
        <4>1. IsFiniteSet(C)
          BY <3>4, ChargeTypes
        <4>2. t \notin C /\ CallsOf(p)' = C \union {t}
          BY <1>1, <1>2, <2>1, <2>3, <3>4 DEF CallsOf
        <4> QED  BY <4>1, <4>2
      <3>6. \A u \in C \union {t} : estimated[u] \in Nat
        BY <2>1, <3>2, <3>4 DEF WithinAdmitted
      <3>7. /\ SumFunctionOnSet(estimated, C \union {t})
                  = SumFunctionOnSet(estimated, C) + estimated[t]
            /\ SumFunctionOnSet(estimated, C) \in Nat
        BY <3>5, <3>6, SumGrows, SumType
      <3>8. LoggedIn(p)' = LoggedIn(p) /\ LoggedIn(p) \in Nat
        BY <1>1, ChargeTypes DEF LoggedIn, Charges, Records
      <3>9. LoggedIn(p) + SumFunctionOnSet(estimated, C) <= spent
        BY <2>1, <2>3, <3>4 DEF WithinAdmitted, AdmittedIn
      <3>10. AdmittedIn(p)' = spent + estimated[t]
        BY <1>1, <2>3, <3>3 DEF AdmittedIn
      <3>11. SumFunctionOnSet(estimated, CallsOf(p))'
                = SumFunctionOnSet(estimated, C) + estimated[t]
        BY <1>1, <3>5, <3>7
      <3>12. (\A u \in CallsOf(p) : estimated[u] \in Nat)'
        BY <1>1, <3>5, <3>6
      <3>13. (LoggedIn(p) + SumFunctionOnSet(estimated, CallsOf(p)) <= AdmittedIn(p))'
        BY <3>2, <3>3, <3>7, <3>8, <3>9, <3>10, <3>11
      <3> QED  BY <3>12, <3>13 DEF WithinAdmitted
    <2> QED  BY <2>2, <2>3
  <1> QED  BY <1>3, <1>4, <1>5 DEF ChargeInv

\* An answered call takes its estimate with it.
LEMMA CallLess ==
    ASSUME SpendInv, NEW t \in Thread, Over(t), NEW p \in Nat, WithinAdmitted(p)
    PROVE  /\ \A u \in CallsOf(p)' : estimated'[u] \in Nat
           /\ SumFunctionOnSet(estimated, CallsOf(p))' \in Nat
           /\ calling[t] = p =>
                 /\ estimated[t] \in Nat
                 /\ SumFunctionOnSet(estimated, CallsOf(p))
                       = SumFunctionOnSet(estimated, CallsOf(p))' + estimated[t]
           /\ calling[t] # p =>
                 SumFunctionOnSet(estimated, CallsOf(p))
                       = SumFunctionOnSet(estimated, CallsOf(p))'
  <1>1. /\ calling' = [calling EXCEPT ![t] = -1] /\ calling \in [Thread -> Int]
        /\ estimated' = [estimated EXCEPT ![t] = 0] /\ estimated \in [Thread -> Cost]
    BY DEF SpendInv, GuardInv, Over, SpendTypeOK, TypeOK
  <1>2. PICK C, e : C = CallsOf(p) /\ e = estimated'
    OBVIOUS
  <1>3. CallsOf(p)' = C \ {t} /\ \A u \in C \ {t} : e[u] = estimated[u]
    BY <1>1, <1>2 DEF CallsOf
  <1>4. IsFiniteSet(C)
    BY <1>2, ChargeTypes
  <1>5. \A u \in C : estimated[u] \in Nat
    BY <1>2 DEF WithinAdmitted
  <1>6. \A u \in C \ {t} : e[u] \in Nat
    BY <1>3, <1>5
  <1>7. IsFiniteSet(C \ {t})
    BY <1>4, FS_RemoveElement
  <1>8. SumFunctionOnSet(e, C \ {t}) \in Nat
    <2>1. PICK D : D = C \ {t}
      OBVIOUS
    <2> QED  BY <1>6, <1>7, <2>1, SumType
  <1>9. SumFunctionOnSet(estimated, CallsOf(p))' = SumFunctionOnSet(e, C \ {t})
    BY <1>2, <1>3
  <1>10. CASE calling[t] = p
    <2>1. t \in C
      BY <1>2, <1>10 DEF CallsOf
    <2>2. SumFunctionOnSet(estimated, C) = SumFunctionOnSet(e, C \ {t}) + estimated[t]
      BY <1>3, <1>4, <1>5, <2>1, SumShrinks
    <2> QED  BY <1>2, <1>3, <1>5, <1>6, <1>8, <1>9, <1>10, <2>1, <2>2
  <1>11. CASE calling[t] # p
    <2>1. C \ {t} = C
      BY <1>2, <1>11 DEF CallsOf
    <2>2. SumFunctionOnSet(estimated, C) = SumFunctionOnSet(e, C)
      BY <1>3, <1>4, <2>1, SumCongruence
    <2> QED  BY <1>2, <1>3, <1>6, <1>8, <1>9, <1>11, <2>1, <2>2
  <1> QED  BY <1>10, <1>11

\* A record more in the log is a charge more for its period.
LEMMA OneMoreCharge ==
    ASSUME SpendInv, NEW r, r.cost - r.excess \in Nat, NEW p, log' = Append(log, r)
    PROVE  /\ Records' = Records \union {Len(log) + 1}
           /\ \A i \in Records : log'[i] = log[i]
           /\ log'[Len(log) + 1] = r
           /\ r.period = p => LoggedIn(p)' = LoggedIn(p) + (r.cost - r.excess)
           /\ r.period # p => LoggedIn(p)' = LoggedIn(p)
  <1> DEFINE n == Len(log) + 1
             q == r.period
             R == LogRecord
  <1>1. /\ IsFiniteSet(Records) /\ Records = 1..Len(log) /\ Len(log) \in Nat
        /\ \A i \in Records : /\ Charges[i] \in Nat
                              /\ Charges[i] = log[i].cost - log[i].excess
    BY ChargeTypes
  <1>2. log \in Seq(R)
    BY DEF SpendInv, SpendTypeOK
  <1> HIDE DEF R
  <1>3. Records' = Records \union {n} /\ n \notin Records
    BY <1>1, <1>2 DEF Records
  <1>4. /\ \A i \in Records : log'[i] = log[i]
        /\ log'[n] = r
    BY <1>1, <1>2
  <1>5. log'[n].period = q
    BY <1>4
  <1>6. PICK S, f, e : /\ S = {i \in Records : log[i].period = p}
                       /\ f = Charges /\ e = Charges'
    OBVIOUS
  <1>7. IsFiniteSet(S) /\ S \subseteq Records /\ n \notin S
    BY <1>1, <1>3, <1>6, FS_Subset
  <1>8. (\A i \in S : f[i] \in Nat /\ e[i] = f[i]) /\ e[n] = r.cost - r.excess
    BY <1>1, <1>3, <1>4, <1>6, <1>7 DEF Charges
  <1>9. CASE q = p
    <2>1. {i \in Records' : log'[i].period = p} = S \union {n}
      BY <1>3, <1>4, <1>5, <1>6, <1>9
    <2>2. SumFunctionOnSet(e, S \union {n}) = SumFunctionOnSet(f, S) + e[n]
      <3> HIDE DEF n
      <3> QED  BY <1>7, <1>8, SumGrows
    <2>3. LoggedIn(p)' = LoggedIn(p) + (r.cost - r.excess)
      BY <1>6, <1>8, <2>1, <2>2 DEF LoggedIn
    <2> QED  BY <1>3, <1>4, <1>5, <1>9, <2>3
  <1>10. CASE q # p
    <2>1. {i \in Records' : log'[i].period = p} = S
      BY <1>3, <1>4, <1>5, <1>6, <1>10
    <2>2. SumFunctionOnSet(e, S) = SumFunctionOnSet(f, S)
      BY <1>7, <1>8, SumCongruence
    <2>3. LoggedIn(p)' = LoggedIn(p)
      BY <1>6, <2>1, <2>2 DEF LoggedIn
    <2> QED  BY <1>3, <1>4, <1>5, <1>10, <2>3
  <1> QED  BY <1>9, <1>10

\* A call that fails charges nothing, one that is logged at most its estimate;
\* what it cost beyond that is its excess.
LEMMA OverCharges ==
    ASSUME SpendInv, ChargeInv, NEW t \in Thread, CallFails(t) \/ CallLogged(t), Marked
    PROVE  ChargeInv'
  <1> DEFINE q == calling[t]
  <1>1. /\ Over(t) /\ UNCHANGED <<total, spent, raced, period>>
        /\ q # -1 /\ q \in Periods /\ period \in Nat
        /\ calling' = [calling EXCEPT ![t] = -1] /\ calling \in [Thread -> Int]
    BY DEF CallFails, CallLogged, Over, SpendInv, SpendTypeOK, ChargeInv
  <1>2. unsound \subseteq unsound' /\ (raced' \/ total' = NaN => period' \in unsound')
    BY DEF Marked
  <1>3. \A u \in Thread : calling'[u] \in Periods' \union {-1}
    BY <1>1 DEF ChargeInv, Periods
  <1>4. ASSUME DailyCap # NaN, NEW p \in Periods' \ unsound'
        PROVE  /\ p \in Nat /\ WithinAdmitted(p) /\ AdmittedIn(p)' = AdmittedIn(p)
               /\ AdmittedIn(p) \in Nat /\ LoggedIn(p) \in Nat
    <2>1. p \in Periods \ unsound /\ p \in Nat
      BY <1>1, <1>2, <1>4 DEF Periods
    <2>2. AdmittedIn(p) \in Nat
      BY <1>4, <2>1, AdmittedTypes
    <2>3. LoggedIn(p) \in Nat
      BY ChargeTypes
    <2> QED  BY <1>1, <1>4, <2>1, <2>2, <2>3 DEF ChargeInv, AdmittedIn
  <1>5. CASE CallFails(t)
    <2>1. log' = log
      BY <1>5 DEF CallFails
    <2>2. \A i \in Records' : log'[i].period \in Periods'
      BY <1>1, <2>1 DEF ChargeInv, Records, Periods
    <2>3. ASSUME DailyCap # NaN, NEW p \in Periods' \ unsound'
          PROVE  WithinAdmitted(p)'
      <3>1. LoggedIn(p)' = LoggedIn(p)
        BY <2>1 DEF LoggedIn, Charges, Records
      <3> QED  BY <1>1, <1>4, <2>3, <3>1, CallLess DEF WithinAdmitted
    <2> QED  BY <1>2, <1>3, <2>2, <2>3 DEF ChargeInv
  <1>6. CASE CallLogged(t)
    <2>1. PICK cost \in Costs :
             log' = Append(log, [at |-> now, cost |-> cost, period |-> q,
                                 excess |-> Beyond(cost, estimated[t])])
      BY <1>6 DEF CallLogged
    <2>2. PICK r : r = [at |-> now, cost |-> cost, period |-> q,
                        excess |-> Beyond(cost, estimated[t])]
      OBVIOUS
    <2>3. /\ log' = Append(log, r) /\ r.period = q /\ r.cost - r.excess \in Nat
          /\ estimated[t] \in Nat => r.cost - r.excess <= estimated[t]
      <3>1. cost \in Nat /\ estimated[t] \in Cost
        BY CostsAssumption DEF SpendInv, GuardInv, TypeOK
      <3>2. r.cost = cost /\ r.excess = Beyond(cost, estimated[t]) /\ r.period = q
        BY <2>2
      <3> QED  BY <2>1, <2>2, <3>1, <3>2, BeyondIs
    <2>4. \A i \in Records' : log'[i].period \in Periods'
      BY <1>1, <2>3, OneMoreCharge DEF ChargeInv, Periods
    <2>5. ASSUME DailyCap # NaN, NEW p \in Periods' \ unsound'
          PROVE  WithinAdmitted(p)'
      <3>1. CASE q = p
        <4>1. estimated[t] \in Nat
          BY <1>1, <1>4, <2>5, <3>1, CallLess
        <4>2. PICK charge \in Nat : charge = r.cost - r.excess /\ charge <= estimated[t]
          BY <2>3, <4>1
        <4>3. LoggedIn(p)' = LoggedIn(p) + charge
          BY <2>3, <3>1, <4>2, OneMoreCharge
        <4> QED  BY <1>1, <1>4, <2>5, <3>1, <4>1, <4>2, <4>3, CallLess
                 DEF WithinAdmitted
      <3>2. CASE q # p
        <4>1. LoggedIn(p)' = LoggedIn(p)
          BY <2>3, <3>2, OneMoreCharge
        <4> QED  BY <1>1, <1>4, <2>5, <3>2, <4>1, CallLess DEF WithinAdmitted
      <3> QED  BY <3>1, <3>2
    <2> QED  BY <1>2, <1>3, <2>4, <2>5 DEF ChargeInv
  <1> QED  BY <1>5, <1>6

\* A new period has nothing to account for, and the last one, if sound, stays
\* within the cap; calls under way keep their estimates or are lost.
LEMMA PeriodCharges ==
    ASSUME SpendInv, ChargeInv, ProcessRestart \/ \E t \in Thread : NewPeriod(t), Marked
    PROVE  ChargeInv'
  <1>1. /\ UNCHANGED <<log, estimated>> /\ spent' = 0 /\ total' = 0
        /\ period \in Nat /\ period' = period + 1
        /\ calling' = calling \/ calling' = [t \in Thread |-> -1]
    BY DEF ProcessRestart, Restart, NewPeriod, ResetDay, SpendInv, SpendTypeOK
  <1>2. unsound \subseteq unsound' /\ (raced' \/ total' = NaN => period' \in unsound')
    BY DEF Marked
  <1>3. /\ \A i \in Records' : log'[i].period \in Periods'
        /\ \A t \in Thread : calling'[t] \in Periods' \union {-1}
    BY <1>1 DEF ChargeInv, Records, Periods
  <1>4. ASSUME DailyCap # NaN, NEW p \in Periods' \ unsound'
        PROVE  WithinAdmitted(p)'
    <2>1. LoggedIn(p)' = LoggedIn(p) /\ LoggedIn(p) \in Nat
      BY <1>1, ChargeTypes DEF LoggedIn, Charges, Records
    <2>2. CASE p = period'
      <3>1. CallsOf(p)' = {} /\ {i \in Records : log[i].period = p} = {}
        BY <1>1, <2>2 DEF CallsOf, ChargeInv, Periods
      <3>2. LoggedIn(p) = 0 /\ SumFunctionOnSet(estimated, CallsOf(p))' = 0
        BY <3>1, SumEmpty DEF LoggedIn
      <3>3. AdmittedIn(p)' = 0
        BY <1>1, <2>2 DEF AdmittedIn
      <3> QED  BY <2>1, <3>1, <3>2, <3>3 DEF WithinAdmitted
    <2>3. CASE p # period'
      <3>1. p \in Periods \ unsound /\ p \in Nat
        BY <1>1, <1>2, <2>3 DEF Periods
      <3>2. WithinAdmitted(p) /\ AdmittedIn(p)' = DailyCap
        BY <1>1, <1>4, <2>3, <3>1 DEF ChargeInv, AdmittedIn
      <3>3. AdmittedIn(p) \in Nat /\ DailyCap \in Nat /\ AdmittedIn(p) <= DailyCap
        BY <1>4, <3>1, AdmittedTypes
      <3>4. CASE calling' = calling
        <4>1. CallsOf(p)' = CallsOf(p) /\ \A t \in CallsOf(p) : estimated'[t] = estimated[t]
          BY <1>1, <3>4 DEF CallsOf
        <4> QED  BY <1>1, <3>2, <3>3, <4>1, SameCharges
      <3>5. CASE calling' = [t \in Thread |-> -1]
        <4>1. CallsOf(p)' = {}
          BY <3>1, <3>5 DEF CallsOf
        <4>2. SumFunctionOnSet(estimated, CallsOf(p))' = 0
          BY <4>1, SumEmpty
        <4>3. /\ \A t \in CallsOf(p) : estimated[t] \in Nat
              /\ LoggedIn(p) + SumFunctionOnSet(estimated, CallsOf(p)) <= AdmittedIn(p)
          BY <3>2 DEF WithinAdmitted
        <4>4. SumFunctionOnSet(estimated, CallsOf(p)) \in Nat
          BY <4>3, ChargeTypes, SumType
        <4> QED  BY <2>1, <3>2, <3>3, <4>1, <4>2, <4>3, <4>4 DEF WithinAdmitted
      <3> QED  BY <1>1, <3>4, <3>5
    <2> QED  BY <2>2, <2>3
  <1> QED  BY <1>2, <1>3, <1>4 DEF ChargeInv

\* Every step of the process keeps what is logged within what was admitted.
LEMMA ChargeNext ==
    ASSUME SpendInv, ChargeInv, [SpendNext]_spendVars
    PROVE  ChargeInv'
  <1>1. CASE UNCHANGED spendVars
    <2>1. /\ UNCHANGED <<log, calling, period, spent, raced, total, unsound>>
          /\ \A t \in Thread : calling[t] # -1 => estimated'[t] = estimated[t]
      BY <1>1 DEF spendVars, vars
    <2> QED  BY <2>1, QuietCharges
  <1>2. CASE SpendNext
    <2>1. Step /\ Marked
      BY <1>2 DEF SpendNext, Marked
    <2>2. ASSUME NEW t \in Thread, Ask(t) PROVE ChargeInv'
      <3>1. UNCHANGED <<log, calling, period, spent>> /\ calling[t] = -1
        BY <2>2 DEF Ask, Free, Admit, Refuse, Enter, vars
      <3>2. \A u \in Thread : calling[u] # -1 => estimated'[u] = estimated[u]
        BY <2>2, <3>1 DEF Ask, Admit, Refuse, Enter, vars, SpendInv, GuardInv, TypeOK
      <3> QED  BY <2>1, <3>1, <3>2, QuietCharges
    <2>3. ASSUME NEW t \in Thread, FlushStore(t) \/ FlushClear(t) PROVE ChargeInv'
      <3>1. UNCHANGED <<log, calling, period, vars>>
        BY <2>3 DEF FlushStore, FlushClear
      <3> QED  BY <2>1, <3>1, QuietCharges DEF vars
    <2>4. ASSUME Tick PROVE ChargeInv'
      <3>1. UNCHANGED <<log, calling, period, vars>>
        BY <2>4 DEF Tick
      <3> QED  BY <2>1, <3>1, QuietCharges DEF vars
    <2>5. CASE ProcessRestart \/ \E t \in Thread : NewPeriod(t)
      BY <2>1, <2>5, PeriodCharges
    <2>6. ASSUME NEW t \in Thread, Start(t) PROVE ChargeInv'
      BY <2>1, <2>6, StartCharges
    <2>7. ASSUME NEW t \in Thread, CallFails(t) \/ CallLogged(t) PROVE ChargeInv'
      BY <2>1, <2>7, OverCharges
    <2> QED  BY <2>1, <2>2, <2>3, <2>4, <2>5, <2>6, <2>7 DEF Step
  <1> QED  BY <1>1, <1>2

\* What was logged of a period's calls up to their estimates, and the estimates
\* of its calls under way, come to no more than the guard admitted in it, for
\* any threads, costs and caps, as long as the period is sound.
THEOREM ChargesAdmitted == SpendSpec => []ChargeInv
  BY ChargeInit, ChargeNext, SpendInductive, PTL DEF SpendSpec

-----------------------------------------------------------------------------
(* What the summary of a day shows.                                        *)

\* A quotient is between its neighbours.
LEMMA Quotient ==
    ASSUME NEW a \in Nat, NEW b \in Nat \ {0}
    PROVE  a \div b \in Nat /\ (a \div b) * b <= a /\ a < (a \div b + 1) * b
  OBVIOUS

\* Rounding adds at most half a grain.
LEMMA RoundedIs ==
    ASSUME NEW m \in Nat
    PROVE  Rounded(m) \in Nat /\ 2 * Rounded(m) <= 2 * m + Grain
  <1>1. PICK a, b : a = 2 * m + Grain /\ b = 2 * Grain
    OBVIOUS
  <1>2. a \in Nat /\ b \in Nat \ {0}
    BY <1>1, GrainAssumption
  <1>3. PICK k : k = a \div b
    OBVIOUS
  <1>4. k \in Nat /\ k * b <= a
    BY <1>2, <1>3, Quotient
  <1>5. Rounded(m) = k * Grain
    BY <1>1, <1>3 DEF Rounded
  <1> QED  BY <1>1, <1>4, <1>5, GrainAssumption

\* And it keeps the order of amounts.
LEMMA RoundedMonotone ==
    ASSUME NEW m \in Nat, NEW n \in Nat, m <= n
    PROVE  Rounded(m) <= Rounded(n)
  <1>1. PICK a, c, b : a = 2 * m + Grain /\ c = 2 * n + Grain /\ b = 2 * Grain
    OBVIOUS
  <1>2. a \in Nat /\ c \in Nat /\ b \in Nat \ {0} /\ a <= c
    BY <1>1, GrainAssumption
  <1>3. PICK j, k : j = a \div b /\ k = c \div b
    OBVIOUS
  <1>4. j \in Nat /\ k \in Nat /\ j * b <= a /\ c < (k + 1) * b
    BY <1>2, <1>3, Quotient
  <1>5. j < k + 1
    <2> SUFFICES ASSUME j >= k + 1 PROVE FALSE
      BY <1>4
    <2>1. j * b >= (k + 1) * b
      BY <1>2, <1>4
    <2> QED  BY <1>2, <1>4, <2>1
  <1>6. Rounded(m) = j * Grain /\ Rounded(n) = k * Grain
    BY <1>1, <1>3 DEF Rounded
  <1> QED  BY <1>4, <1>5, <1>6, GrainAssumption

\* The rows that a sound day counts are counted once each: they show what their
\* calls were charged and what these cost beyond it.
LEMMA SoundDay ==
    ASSUME SpendInv, NEW day \in Int, Sound(day)
    PROVE  /\ RowsOf(day) \subseteq Records /\ IsFiniteSet(RowsOf(day))
           /\ SpentOn(day) = Rounded(SumFunctionOnSet(Charges, RowsOf(day)) + ExcessOn(day))
           /\ ExcessOn(day) \in Nat
  <1>1. PICK S : S = RowsOf(day)
    OBVIOUS
  <1>2. /\ IsFiniteSet(Records)
        /\ \A i \in Records : /\ log[i].cost \in Nat /\ log[i].excess \in Nat
                              /\ Charges[i] = log[i].cost - log[i].excess
                              /\ Charges[i] \in Nat
    BY ChargeTypes
  <1>3. S \subseteq Records /\ IsFiniteSet(S)
    BY <1>1, <1>2, FS_Subset DEF RowsOf
  <1>4. \A i \in S : rows[i] = 1
    <2> SUFFICES ASSUME NEW i \in S PROVE rows[i] = 1
      OBVIOUS
    <2>1. rows[i] > 0 /\ rows[i] <= 1
      BY <1>1, <1>3 DEF Sound, RowsOf, SpendInv, StoredInv
    <2>2. i \in 1..MaxCalls
      BY <1>3, BoundsAssumption, ChargeTypes DEF SpendInv, SpendTypeOK
    <2> QED  BY <2>1, <2>2 DEF SpendInv, SpendTypeOK
  <1>5. PICK f, e : /\ f = [i \in Records |-> rows[i] * log[i].cost]
                    /\ e = [i \in Records |-> log[i].excess]
    OBVIOUS
  <1>6. \A i \in S : Charges[i] \in Nat /\ e[i] \in Nat /\ f[i] = Charges[i] + e[i]
    BY <1>2, <1>3, <1>4, <1>5
  <1>7. SumFunctionOnSet(f, S) = SumFunctionOnSet(Charges, S) + SumFunctionOnSet(e, S)
    BY <1>3, <1>6, SumPlus
  <1>8. SumFunctionOnSet(e, S) \in Nat /\ ExcessOn(day) = SumFunctionOnSet(e, S)
    BY <1>1, <1>3, <1>5, <1>6, SumType DEF ExcessOn
  <1> QED  BY <1>1, <1>3, <1>5, <1>7, <1>8 DEF SpentOn

\* The rows of one period among those of a day come to no more than was
\* admitted in it.
LEMMA PeriodOfDay ==
    ASSUME SpendInv, ChargeInv, DailyCap # NaN, NEW p \in Periods \ unsound,
           NEW S \in SUBSET Records
    PROVE  /\ SumFunctionOnSet(Charges, {i \in S : log[i].period = p}) \in Nat
           /\ SumFunctionOnSet(Charges, {i \in S : log[i].period = p}) <= AdmittedIn(p)
  <1>1. PICK A, B : /\ A = {i \in S : log[i].period = p}
                    /\ B = {i \in Records : log[i].period = p}
    OBVIOUS
  <1>2. A \subseteq B /\ B \subseteq Records
    BY <1>1
  <1>3. IsFiniteSet(B) /\ IsFiniteSet(A)
    BY <1>2, ChargeTypes, FS_Subset
  <1>4. \A i \in B : Charges[i] \in Nat
    BY <1>2, ChargeTypes
  <1>5. SumFunctionOnSet(Charges, A) \in Nat
    BY <1>2, <1>3, <1>4, SumType
  <1>6. SumFunctionOnSet(Charges, A) <= LoggedIn(p)
    BY <1>1, <1>2, <1>3, <1>4, SumSubset DEF LoggedIn
  <1>7. WithinAdmitted(p)
    BY DEF ChargeInv
  <1>8. SumFunctionOnSet(estimated, CallsOf(p)) \in Nat
    BY <1>7, ChargeTypes, SumType DEF WithinAdmitted
  <1>9. AdmittedIn(p) \in Nat /\ LoggedIn(p) \in Nat
    BY AdmittedTypes, ChargeTypes
  <1> QED  BY <1>1, <1>5, <1>6, <1>7, <1>8, <1>9 DEF WithinAdmitted

\* For any threads, estimates, costs, caps, clocks and resets, the summary of a
\* sound day shows no more than the cap once for each period of the guard that
\* its rows are from, and what its calls cost beyond their estimates.
THEOREM DaysWithinCaps == SpendSpec => []SpentWithinCaps
  <1>1. ASSUME SpendInv, ChargeInv PROVE SpentWithinCaps
    <2> SUFFICES ASSUME NEW day \in Days, Sound(day), DailyCap # NaN
                 PROVE  SpentOn(day) <= Rounded(Cardinality(PeriodsOf(day)) * DailyCap
                                                  + ExcessOn(day))
      BY DEF SpentWithinCaps
    <2>1. PICK S, P, g : /\ S = RowsOf(day) /\ P = PeriodsOf(day)
                         /\ g = [i \in Records |-> log[i].period]
      OBVIOUS
    <2>2. /\ S \subseteq Records /\ IsFiniteSet(S)
          /\ SpentOn(day) = Rounded(SumFunctionOnSet(Charges, S) + ExcessOn(day))
          /\ ExcessOn(day) \in Nat
      BY <1>1, <2>1, SoundDay DEF Days
    <2>3. \A i \in S : Charges[i] \in Nat
      BY <1>1, <2>2, ChargeTypes
    <2>4. P = {log[i].period : i \in S}
      BY <2>1 DEF PeriodsOf
    <2>5. P \subseteq Periods \ unsound
      BY <1>1, <2>1, <2>2, <2>4 DEF Sound, ChargeInv
    <2>6. IsFiniteSet(P)
      <3>1. period \in Nat
        BY <1>1 DEF SpendInv, SpendTypeOK
      <3>2. IsFiniteSet(Periods)
        BY <3>1, FS_Interval DEF Periods
      <3> QED  BY <2>5, <3>2, FS_Subset
    <2>7. DailyCap \in Nat
      BY CapAssumption DEF Cost
    <2>8. ASSUME NEW p \in P
          PROVE  SumFunctionOnSet(Charges, {i \in S : g[i] = p}) <= DailyCap
      <3>1. p \in Periods \ unsound
        BY <2>5
      <3>2. {i \in S : g[i] = p} = {i \in S : log[i].period = p}
        BY <2>1, <2>2
      <3>3. AdmittedIn(p) \in Nat /\ AdmittedIn(p) <= DailyCap
        BY <1>1, <3>1, AdmittedTypes
      <3>4. PICK n : n = SumFunctionOnSet(Charges, {i \in S : log[i].period = p})
        OBVIOUS
      <3>5. n \in Nat /\ n <= AdmittedIn(p)
        BY <1>1, <2>2, <3>1, <3>4, PeriodOfDay
      <3>6. n <= DailyCap
        BY <2>7, <3>3, <3>5
      <3> QED  BY <3>2, <3>4, <3>6
    <2>9. \A i \in S : g[i] \in P
      BY <2>1, <2>2, <2>4
    <2>10. SumFunctionOnSet(Charges, S) <= Cardinality(P) * DailyCap
      BY <2>2, <2>3, <2>6, <2>7, <2>8, <2>9, SumOfGroups
    <2>11. SumFunctionOnSet(Charges, S) \in Nat /\ Cardinality(P) \in Nat
      BY <2>2, <2>3, <2>6, SumType, FS_CardinalityType
    <2>12. Cardinality(P) * DailyCap \in Nat
      BY <2>7, <2>11
    <2>13. PICK m, n : /\ m = SumFunctionOnSet(Charges, S) + ExcessOn(day)
                       /\ n = Cardinality(P) * DailyCap + ExcessOn(day)
      OBVIOUS
    <2>14. m \in Nat /\ n \in Nat /\ m <= n
      BY <2>2, <2>10, <2>11, <2>12, <2>13
    <2> QED  BY <2>1, <2>2, <2>13, <2>14, RoundedMonotone
  <1> QED  BY <1>1, SpendInductive, ChargesAdmitted, PTL

\* For any threads, estimates, costs, caps and rounding, where the rows of today
\* are all of the guard's current period, once the summary says that the budget
\* is spent the guard refuses every call of at least a grain and what today's
\* calls cost beyond their estimates.
THEOREM BudgetsAgree == SpendSpec => []StopsAgree
  <1>1. ASSUME SpendInv, ChargeInv PROVE StopsAgree
    <2> SUFFICES ASSUME OverBudget(Today), Sound(Today), PeriodsOf(Today) = {period},
                        period \notin unsound,
                        NEW cost \in Estimates, ~Above(Grain + ExcessOn(Today), cost),
                        cost # NaN
                 PROVE  Above(Plus(total, cost), DailyCap)
      BY DEF StopsAgree
    <2>1. PICK S : S = RowsOf(Today)
      OBVIOUS
    <2>2. Today \in Int /\ period \in Periods \ unsound
      BY <1>1, ClockAssumption DEF Today, SpendInv, SpendTypeOK, Periods
    <2>3. /\ S \subseteq Records /\ ExcessOn(Today) \in Nat
          /\ SpentOn(Today) = Rounded(SumFunctionOnSet(Charges, S) + ExcessOn(Today))
      BY <1>1, <2>1, <2>2, SoundDay
    <2>4. DailyCap # NaN /\ DailyCap \in Nat /\ SpentOn(Today) >= DailyCap
      BY CapAssumption DEF OverBudget, Cost
    <2>5. {i \in S : log[i].period = period} = S
      BY <2>1 DEF PeriodsOf
    <2>6. /\ SumFunctionOnSet(Charges, S) \in Nat
          /\ SumFunctionOnSet(Charges, S) <= AdmittedIn(period)
      BY <1>1, <2>2, <2>3, <2>4, <2>5, PeriodOfDay
    <2>7. total = spent /\ spent \in Nat /\ AdmittedIn(period) = spent
      BY <1>1 DEF ChargeInv, SpendInv, GuardInv, NoOverspend, TypeOK, AdmittedIn
    <2>8. cost \in Nat /\ Grain \in Nat \ {0} /\ Grain + ExcessOn(Today) <= cost
      BY <2>3, EstimateAssumption, GrainAssumption, NaNAssumption DEF Cost, Above
    <2>9. PICK m : m = SumFunctionOnSet(Charges, S) + ExcessOn(Today)
      OBVIOUS
    <2>10. m \in Nat /\ SpentOn(Today) \in Nat /\ 2 * SpentOn(Today) <= 2 * m + Grain
      BY <2>3, <2>6, <2>9, RoundedIs
    <2>11. total + cost > DailyCap
      BY <2>3, <2>4, <2>6, <2>7, <2>8, <2>9, <2>10
    <2> QED  BY <2>4, <2>7, <2>8, <2>11, NaNAssumption DEF Above, Plus
  <1> QED  BY <1>1, SpendInductive, ChargesAdmitted, PTL
=============================================================================
