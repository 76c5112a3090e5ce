--------------------------- MODULE CostBudgetGuard ---------------------------
(***************************************************************************)
(* llm/budget.py: a guard that callers ask before each LLM call.  The      *)
(* guard has no lock, so two threads that share one interleave between the *)
(* read of the total and its assignment.  Costs are whole numbers, or NaN, *)
(* which is above no number and no number above it.                        *)
(***************************************************************************)
EXTENDS Integers

CONSTANTS
    Thread,             \* the threads that share the guard
    Estimates,          \* estimated costs of calls
    PerCallCap,
    DailyCap,           \* NaN for a cap that is not set, or set to nan
    NaN

ASSUME NaNAssumption == NaN \notin Int

Cost == Nat \union {NaN}

ASSUME CapAssumption == PerCallCap \in Cost /\ DailyCap \in Cost
ASSUME EstimateAssumption == Estimates \subseteq Cost

VARIABLES
    total,              \* _daily_total_usd
    next                \* next_total of a thread between check and assignment,
                        \* -1 elsewhere

\* What happened so far, for the properties.
VARIABLES
    estimated,          \* the estimate that thread was admitted with
    spent,              \* the numbers admitted since the last reset_day
    raced               \* since then two threads were in the guard at once

vars == <<total, next, estimated, spent, raced>>

\* a > b and a + b of floats.
Above(a, b) == NaN \notin {a, b} /\ a > b
Plus(a, b) == IF NaN \in {a, b} THEN NaN ELSE a + b

Spend(cost) == IF cost = NaN THEN spent ELSE spent + cost

Inside == {t \in Thread : next[t] # -1}

Init ==
    /\ total = 0
    /\ next = [t \in Thread |-> -1]
    /\ estimated = [t \in Thread |-> 0]
    /\ spent = 0
    /\ raced = FALSE

\* What check_call leaves between its comparisons and its assignment.
Enter(t, cost) ==
    /\ next' = [next EXCEPT ![t] = Plus(total, cost)]
    /\ estimated' = [estimated EXCEPT ![t] = cost]
    /\ raced' = (raced \/ Inside # {})
    /\ UNCHANGED <<total, spent>>

-----------------------------------------------------------------------------
(* Wrong versions of the guard's steps.                                    *)

\* Only the call itself is held against the daily cap.
AdmitAlone(t, cost) ==
    /\ next[t] = -1
    /\ ~Above(cost, PerCallCap) /\ ~Above(cost, DailyCap)
    /\ Enter(t, cost)

\* The assignment reads the total again (self._daily_total_usd += estimated).
AssignAgain(t) ==
    /\ next[t] # -1
    /\ total' = Plus(total, estimated[t])
    /\ spent' = Spend(estimated[t])
    /\ next' = [next EXCEPT ![t] = -1]
    /\ UNCHANGED <<estimated, raced>>

\* The new total is never kept.
AssignNothing(t) ==
    /\ next[t] # -1
    /\ spent' = Spend(estimated[t])
    /\ next' = [next EXCEPT ![t] = -1]
    /\ UNCHANGED <<total, estimated, raced>>

-----------------------------------------------------------------------------
\* check_call up to its two comparisons; a call that breaches a cap raises
\* BudgetExceeded and leaves the guard as it was.
Admit(t, cost) ==
    /\ next[t] = -1
    /\ ~Above(cost, PerCallCap)
    /\ ~Above(Plus(total, cost), DailyCap)
    /\ Enter(t, cost)

Refuse(t, cost) ==
    /\ next[t] = -1
    /\ Above(cost, PerCallCap) \/ Above(Plus(total, cost), DailyCap)
    /\ UNCHANGED vars

\* check_call's assignment, with which it returns.
Assign(t) ==
    /\ next[t] # -1
    /\ total' = next[t]
    /\ spent' = Spend(estimated[t])
    /\ next' = [next EXCEPT ![t] = -1]
    /\ UNCHANGED <<estimated, raced>>

\* reset_day, by a thread that is not inside check_call.
ResetDay(t) ==
    /\ next[t] = -1
    /\ total' = 0
    /\ spent' = 0
    /\ raced' = (Inside # {})
    /\ UNCHANGED <<next, estimated>>

\* The process ends, and __init__ starts a guard that has spent nothing: the
\* total is only in memory.
Restart ==
    /\ total' = 0
    /\ spent' = 0
    /\ next' = [t \in Thread |-> -1]
    /\ raced' = FALSE
    /\ UNCHANGED estimated

Next ==
    \/ Restart
    \/ \E t \in Thread :
          \/ \E cost \in Estimates : Admit(t, cost) \/ Refuse(t, cost)
          \/ Assign(t)
          \/ ResetDay(t)

Spec == Init /\ [][Next]_vars

-----------------------------------------------------------------------------
\* The guard's total and what threads hold for it are sums of estimates.
TypeOK ==
    /\ total \in Cost
    /\ next \in [Thread -> Cost \union {-1}]
    /\ estimated \in [Thread -> Cost]
    /\ spent \in Nat
    /\ raced \in BOOLEAN

\* The guard never records more than the daily cap, nor a call above the cap
\* per call, also when threads share it: each assignment stores the very sum
\* that was compared with the cap.
TotalWithinCap ==
    /\ ~Above(total, DailyCap)
    /\ \A t \in Thread : ~Above(next[t], DailyCap) /\ ~Above(estimated[t], PerCallCap)

\* What callers were admitted to spend since the last reset is what the guard
\* recorded, and so within the daily cap, as long as no two threads were in
\* check_call, or one in it while another reset the day, and no estimate was
\* NaN: an assignment based on a stale total forgets another's spending, and
\* a total that is NaN refuses nothing any more.
NoOverspend == ~raced /\ total # NaN => spent = total /\ ~Above(spent, DailyCap)

\* The strengthening behind NoOverspend: without a race at most one thread is
\* inside, and its sum is the current total and its estimate.
Current ==
    ~raced => \A t \in Inside : /\ next[t] = Plus(total, estimated[t])
                                /\ \A u \in Inside : u = t

\* The inductive invariant of LLMSpend_proofs.
GuardInv == TypeOK /\ TotalWithinCap /\ NoOverspend /\ Current
=============================================================================
