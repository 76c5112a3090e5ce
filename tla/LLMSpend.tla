------------------------------ MODULE LLMSpend ------------------------------
(***************************************************************************)
(* The spending of one process on LLMs: threads (external) that ask the    *)
(* guard of llm/budget.py, call a provider, log the response in one        *)
(* AIUsage of llm/usage.py, flush it, and read daily_budget_summary.       *)
(*                                                                         *)
(* The guard counts estimates when calls are admitted, in memory, between  *)
(* two calls of reset_day; the summary counts the costs of rows that were  *)
(* flushed, by the UTC day they were logged on.  AIUsage.tla has the       *)
(* failures of a flush; here are its threads, and its rows have a time.    *)
(***************************************************************************)
EXTENDS CostBudgetGuard, Sequences, FiniteSets, Functions

CONSTANTS
    Costs,              \* what calls turn out to cost
    Grain,              \* units of cost in 0.0001 USD, which round() keeps
    DayLength,          \* ticks of the clock from midnight to midnight, UTC
    LastTick,           \* bounds on the clock,
    MaxCalls,           \* on the calls logged,
    MaxPeriods          \* and on the resets and restarts of the guard

ASSUME ThreadAssumption == IsFiniteSet(Thread)
ASSUME CostsAssumption == Costs \subseteq Nat
ASSUME GrainAssumption == Grain \in Nat \ {0}
ASSUME ClockAssumption == DayLength \in Nat \ {0} /\ LastTick \in Nat
ASSUME BoundsAssumption == MaxCalls \in Nat /\ MaxPeriods \in Nat

VARIABLES
    now,                \* the clock, UTC
    calling,            \* the period a thread's call was admitted in, while
                        \* it has one that is not answered; -1 otherwise
    log,                \* the UsageRecords made so far: created_at and cost_usd;
                        \* and, for the properties, the period a call was
                        \* admitted in and its cost beyond its estimate
    pending,            \* _pending_usage, by position in log
    flush,              \* what a thread's flush_usage has committed and not yet
                        \* taken out of the queue
    rows                \* how many rows of ai_usage each record has

\* What happened so far, for the properties.
VARIABLES
    period,             \* number of the guard's resets and restarts
    unsound,            \* periods in which threads raced or an estimate was NaN
    together,           \* records two flushes had in hand at once
    lost                \* records a flush or a restart dropped

flushVars == <<pending, flush, rows>>
history == <<together, lost>>
spendVars == <<vars, now, calling, log, flushVars, period, unsound, history>>

Records == DOMAIN log

\* A thread does one thing at a time.
Free(t) == next[t] = -1 /\ calling[t] = -1 /\ flush[t] = {}

SpendInit ==
    /\ Init
    /\ now = 0
    /\ calling = [t \in Thread |-> -1]
    /\ log = <<>>
    /\ pending = {}
    /\ flush = [t \in Thread |-> {}]
    /\ rows = [i \in 1..MaxCalls |-> 0]
    /\ period = 0
    /\ unsound = {}
    /\ together = {}
    /\ lost = {}

-----------------------------------------------------------------------------
(* daily_budget_summary, with DailyCap for daily_budget_usd.               *)

\* Wrong: the day ends with its last instant, midnight.
OnDayClosed(i, day) ==
    log[i].at >= day * DayLength /\ log[i].at <= (day + 1) * DayLength

\* _day_bounds: from midnight to the next, the latter excluded.
OnDay(i, day) ==
    log[i].at >= day * DayLength /\ log[i].at < (day + 1) * DayLength

Rounded(n) == ((2 * n + Grain) \div (2 * Grain)) * Grain

RowsOf(day) == {i \in Records : rows[i] > 0 /\ OnDay(i, day)}

SpentOn(day) ==
    Rounded(SumFunctionOnSet([i \in Records |-> rows[i] * log[i].cost], RowsOf(day)))

OverBudget(day) == DailyCap # NaN /\ DailyCap > 0 /\ SpentOn(day) >= DailyCap

Today == now \div DayLength
Days == 0..(LastTick \div DayLength)

-----------------------------------------------------------------------------
(* Wrong versions of the steps below.                                      *)

\* The queue is not emptied.
FlushClearNothing(t) ==
    /\ flush[t] # {}
    /\ flush' = [flush EXCEPT ![t] = {}]
    /\ UNCHANGED <<vars, now, calling, log, pending, rows, period, history>>

-----------------------------------------------------------------------------
(* A thread's call.                                                        *)

Ask(t) ==
    /\ Free(t)
    /\ \E cost \in Estimates : Admit(t, cost) \/ Refuse(t, cost)
    /\ UNCHANGED <<now, calling, log, flushVars, period, history>>

\* check_call returns, and the call is made.
Start(t) ==
    /\ Assign(t)
    /\ calling' = [calling EXCEPT ![t] = period]
    /\ UNCHANGED <<now, log, flushVars, period, history>>

\* The call is over; the guard keeps its estimate in the total.
Over(t) ==
    /\ calling[t] # -1
    /\ calling' = [calling EXCEPT ![t] = -1]
    /\ estimated' = [estimated EXCEPT ![t] = 0]
    /\ UNCHANGED <<total, next, spent, raced>>

\* AIError, or a cancellation: nothing is logged.
CallFails(t) ==
    /\ Over(t)
    /\ UNCHANGED <<now, log, flushVars, period, history>>

\* What a call cost beyond its estimate; nothing is beyond a NaN.
Beyond(cost, estimate) == IF Above(cost, estimate) THEN cost - estimate ELSE 0

\* A response, and log_response with the time of now and the cost of the tokens
\* it took, whatever the estimate was: the guard is not told.
CallLogged(t) ==
    /\ Over(t)
    /\ Len(log) < MaxCalls
    /\ \E cost \in Costs :
          log' = Append(log, [at |-> now, cost |-> cost, period |-> calling[t],
                              excess |-> Beyond(cost, estimated[t])])
    /\ pending' = pending \union {Len(log) + 1}
    /\ UNCHANGED <<now, flush, rows, period, history>>

-----------------------------------------------------------------------------
(* flush_usage without a bind.                                             *)

\* The queue is copied, inserted and committed.  A flush that fails leaves
\* everything as it was.
FlushStore(t) ==
    /\ Free(t)
    /\ pending # {}
    /\ flush' = [flush EXCEPT ![t] = pending]
    /\ rows' = [i \in DOMAIN rows |-> IF i \in pending THEN rows[i] + 1 ELSE rows[i]]
    /\ together' = together \union (pending \cap UNION {flush[u] : u \in Thread})
    /\ UNCHANGED <<vars, now, calling, log, pending, period, lost>>

\* clear() takes with it what was logged since the copy.
FlushClear(t) ==
    /\ flush[t] # {}
    /\ flush' = [flush EXCEPT ![t] = {}]
    /\ pending' = {}
    /\ lost' = lost \union {i \in pending : rows[i] = 0}
    /\ UNCHANGED <<vars, now, calling, log, rows, period, together>>

-----------------------------------------------------------------------------
(* The day and the process.                                                *)

\* reset_day, whenever the threads' program thinks that a day has begun.
NewPeriod(t) ==
    /\ Free(t)
    /\ period < MaxPeriods
    /\ period' = period + 1
    /\ ResetDay(t)
    /\ UNCHANGED <<now, calling, log, flushVars, history>>

ProcessRestart ==
    /\ period < MaxPeriods
    /\ period' = period + 1
    /\ Restart
    /\ calling' = [t \in Thread |-> -1]
    /\ pending' = {}
    /\ flush' = [t \in Thread |-> {}]
    /\ lost' = lost \union {i \in pending : rows[i] = 0}
    /\ UNCHANGED <<now, log, rows, together>>

Tick ==
    /\ now < LastTick
    /\ now' = now + 1
    /\ UNCHANGED <<vars, calling, log, flushVars, period, history>>

Step ==
    \/ \E t \in Thread :
          \/ Ask(t) \/ Start(t) \/ CallFails(t) \/ CallLogged(t)
          \/ FlushStore(t) \/ FlushClear(t) \/ NewPeriod(t)
    \/ ProcessRestart
    \/ Tick

SpendNext ==
    /\ Step
    /\ unsound' = IF raced' \/ total' = NaN THEN unsound \union {period'} ELSE unsound

SpendSpec == SpendInit /\ [][SpendNext]_spendVars

-----------------------------------------------------------------------------
LogRecord ==
    {r \in [at : 0..LastTick, cost : Nat, period : Int, excess : Nat] : r.excess <= r.cost}

\* Every variable of the composition has its type.
SpendTypeOK ==
    /\ now \in 0..LastTick
    /\ calling \in [Thread -> Int]
    /\ log \in Seq(LogRecord)
    /\ Len(log) <= MaxCalls
    /\ pending \subseteq Records
    /\ flush \in [Thread -> SUBSET Records]
    /\ rows \in [1..MaxCalls -> Nat]
    /\ period \in Nat

PeriodsOf(day) == {log[i].period : i \in RowsOf(day)}

\* The rows that the properties about amounts are about: none that two flushes
\* stored, none of a period in which the guard itself could not keep its cap.
Sound(day) == RowsOf(day) \cap together = {} /\ PeriodsOf(day) \cap unsound = {}

\* What the calls of a day cost beyond their estimates.
ExcessOn(day) == SumFunctionOnSet([i \in Records |-> log[i].excess], RowsOf(day))

\* The guard counts estimates and the summary costs, and nothing compares them.
\* What the summary of a day shows beyond the guard's cap comes from two sources
\* alone: calls dearer than their estimates, which is their excess; and periods
\* of the guard, each with a cap of its own, that reach into the day by a reset
\* at another moment than midnight, a restart, or an answer after the reset.
SpentWithinCaps ==
    \A day \in Days :
        Sound(day) /\ DailyCap # NaN =>
            SpentOn(day) <= Rounded(Cardinality(PeriodsOf(day)) * DailyCap + ExcessOn(day))

\* How far the two budgets agree on stopping, where the rows of today are all of
\* the guard's current period: once the summary says over_budget (>=, and after
\* rounding), the guard refuses (>) every call that is estimated at what
\* rounding can hide and today's calls cost beyond their estimates, or more.
\* It goes on admitting cheaper ones.
StopsAgree ==
    OverBudget(Today) /\ Sound(Today) /\ PeriodsOf(Today) = {period} /\ period \notin unsound
        => \A cost \in Estimates : ~Above(Grain + ExcessOn(Today), cost) /\ cost # NaN
                                    => Above(Plus(total, cost), DailyCap)

\* A logged call that is out of the queue and was not dropped is counted by
\* the summary of exactly one day, once, unless two threads flushed it
\* together: also a call logged at midnight.
CountedOnce ==
    \A i \in Records \ (pending \union lost \union together) :
        Cardinality({day \in Days : i \in RowsOf(day)}) = 1 /\ rows[i] = 1

-----------------------------------------------------------------------------
\* The strengthening that makes NoOverspend and CountedOnce inductive: a thread
\* in check_call has no call under way; a record that is still queued but
\* stored is in the hands of a flush, which a second flush then shares; one
\* that left the queue was stored or lost; and only a record made has rows.
InHand == UNION {flush[t] : t \in Thread}

Busy == \A t \in Inside : calling[t] = -1

StoredInv ==
    /\ \A i \in pending : rows[i] = 0 \/ i \in InHand
    /\ \A i \in Records : rows[i] <= 1 \/ i \in together
    /\ \A i \in Records \ pending : rows[i] > 0 \/ i \in lost
    /\ \A i \in (1..MaxCalls) \ Records : rows[i] = 0

\* The inductive invariant of LLMSpend_proofs.
SpendInv == SpendTypeOK /\ GuardInv /\ Busy /\ StoredInv

\* The strengthening behind SpentWithinCaps and StopsAgree: what was logged of
\* a period's calls up to their estimates, and the estimates of those not
\* answered yet, come to no more than the guard admitted in it; of an earlier
\* period, than its cap.
Charges == [i \in Records |-> log[i].cost - log[i].excess]

LoggedIn(p) == SumFunctionOnSet(Charges, {i \in Records : log[i].period = p})

CallsOf(p) == {t \in Thread : calling[t] = p}

AdmittedIn(p) == IF p = period THEN spent ELSE DailyCap

WithinAdmitted(p) ==
    /\ \A t \in CallsOf(p) : estimated[t] \in Nat
    /\ LoggedIn(p) + SumFunctionOnSet(estimated, CallsOf(p)) <= AdmittedIn(p)

Periods == 0..period

ChargeInv ==
    /\ \A i \in Records : log[i].period \in Periods
    /\ \A t \in Thread : calling[t] \in Periods \union {-1}
    /\ raced \/ total = NaN => period \in unsound
    /\ DailyCap # NaN => \A p \in Periods \ unsound : WithinAdmitted(p)
=============================================================================
