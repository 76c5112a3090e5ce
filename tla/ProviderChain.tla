--------------------------- MODULE ProviderChain ---------------------------
(***************************************************************************)
(* One call of llm/provider.py's ProviderChain: complete, translate or     *)
(* embed.  The chain asks its providers in order; a provider sends one or  *)
(* more POSTs through _post_json, which repeats a POST that failed in a    *)
(* retryable way.  A call shares nothing with another call but the HTTP    *)
(* client, so one call is the whole of the interleaving: the steps of the  *)
(* call, of the remote service and of the caller that may cancel it.       *)
(*                                                                         *)
(* Prompts, answers and vectors are abstracted; how many POSTs an          *)
(* operation takes is not.                                                 *)
(***************************************************************************)
EXTENDS Naturals, Sequences

CONSTANTS
    Providers,      \* the chain: a sequence of [kind, attempts]
    Ops,            \* the operations called, of "complete", "translate", "embed"
    MaxTexts        \* bound on the texts of one embed

Kinds == {"anthropic", "openai", "local"}
N == Len(Providers)

ASSUME ProvidersAssumption == Providers \in Seq([kind : Kinds, attempts : Nat])
ASSUME OpsAssumption == Ops \subseteq {"complete", "translate", "embed"}
ASSUME MaxTextsAssumption == MaxTexts \in Nat

VARIABLES
    op, texts,      \* the call: its operation and, for embed, how many texts
    at,             \* the provider being asked; N + 1 once all have raised
    step,           \* where the call is: see Steps
    posted,         \* attempts of the current POST so far
    answered,       \* POSTs of the current provider that returned a body
    vectors         \* for embed, how many vectors they brought

\* What happened so far, for the properties.
VARIABLES
    requests,       \* requests each provider was sent
    served,         \* requests each provider worked on, answer lost or not
    raised,         \* how each provider failed, "none" while it has not
    cancelled       \* the caller has cancelled the task

call == <<op, texts>>
history == <<requests, served, raised, cancelled>>
progress == <<posted, answered, vectors>>
vars == <<call, at, step, progress, history>>

\* "ask": the head of the chain's loop; "post": about to send a request;
\* "sent": awaiting its response; "sleep": between two attempts.
Running == {"ask", "post", "sent", "sleep"}
Ended == {"returned", "raised", "cancelled"}
Steps == Running \union Ended

Index == 1..N

-----------------------------------------------------------------------------
(* Wrong versions of definitions below, each a mistake the code could make *)
(* and one of the properties catches.                                      *)

\* The chain starts over with its first provider.
GiveUpRestart(why) ==
    /\ raised' = [raised EXCEPT ![at] = why]
    /\ at' = 1
    /\ step' = "ask"
    /\ posted' = 0 /\ answered' = 0 /\ vectors' = 0

\* Answers gathered from one provider are kept for the next.
GiveUpKeeps(why) ==
    /\ raised' = [raised EXCEPT ![at] = why]
    /\ at' = at + 1
    /\ step' = "ask"
    /\ posted' = 0
    /\ UNCHANGED <<answered, vectors>>

\* Attempts are counted per text and never run out.
SendUncounted ==
    /\ step = "post"
    /\ step' = "sent"
    /\ requests' = [requests EXCEPT ![at] = @ + 1]
    /\ UNCHANGED <<call, at, progress, served, raised, cancelled>>

\* The chain returns after trying the last provider, without raising.
AllFailedReturns ==
    /\ step = "ask" /\ at = N + 1
    /\ step' = "returned"
    /\ UNCHANGED <<call, at, progress, history>>

\* The request is sent with no timeout.
TimedOutNever ==
    /\ FALSE
    /\ step = "sent"
    /\ UNCHANGED vars

\* except BaseException: a cancellation counts as a provider's failure.
CancelCaught ==
    /\ step \in {"sent", "sleep"}
    /\ cancelled' = TRUE
    /\ raised' = [raised EXCEPT ![at] = "fatal"]
    /\ at' = at + 1
    /\ step' = "ask"
    /\ posted' = 0 /\ answered' = 0 /\ vectors' = 0
    /\ UNCHANGED <<call, requests, served>>

-----------------------------------------------------------------------------
\* stop_after_attempt(max(1, attempts))
Attempts(p) == IF Providers[p].attempts < 1 THEN 1 ELSE Providers[p].attempts

\* The POSTs an operation takes: one, but for Local's embed, one per text.
Posts(p) == IF op = "embed" /\ Providers[p].kind = "local" THEN texts ELSE 1

\* The loop starts one before the first provider.
InitZero ==
    /\ op \in Ops
    /\ texts \in IF op = "embed" THEN 0..MaxTexts ELSE {1}
    /\ at = 0
    /\ step = "ask"
    /\ posted = 0 /\ answered = 0 /\ vectors = 0
    /\ requests = [p \in Index |-> 0]
    /\ served = [p \in Index |-> 0]
    /\ raised = [p \in Index |-> "none"]
    /\ cancelled = FALSE

Init ==
    /\ op \in Ops
    /\ texts \in IF op = "embed" THEN 0..MaxTexts ELSE {1}
    /\ at = 1
    /\ step = "ask"
    /\ posted = 0 /\ answered = 0 /\ vectors = 0
    /\ requests = [p \in Index |-> 0]
    /\ served = [p \in Index |-> 0]
    /\ raised = [p \in Index |-> "none"]
    /\ cancelled = FALSE

\* The provider raises: the chain logs a warning and takes the next one.
GiveUp(why) ==
    /\ raised' = [raised EXCEPT ![at] = why]
    /\ at' = at + 1
    /\ step' = "ask"
    /\ posted' = 0 /\ answered' = 0 /\ vectors' = 0

-----------------------------------------------------------------------------
\* The loop ends without an answer: RuntimeError.
AllFailed ==
    /\ step = "ask" /\ at = N + 1
    /\ step' = "raised"
    /\ UNCHANGED <<call, at, progress, history>>

\* The next provider is asked.  Anthropic raises NotImplementedError from
\* embed; Local returns [] for no texts; otherwise a first POST is sent.
AskProvider ==
    /\ step = "ask" /\ at <= N
    /\ IF op = "embed" /\ Providers[at].kind = "anthropic"
       THEN GiveUp("unsupported")
       ELSE /\ step' = IF Posts(at) = 0 THEN "returned" ELSE "post"
            /\ UNCHANGED <<at, progress, raised>>
    /\ UNCHANGED <<call, requests, served, cancelled>>

Send ==
    /\ step = "post"
    /\ step' = "sent"
    /\ posted' = posted + 1
    /\ requests' = [requests EXCEPT ![at] = @ + 1]
    /\ UNCHANGED <<call, at, answered, vectors, served, raised, cancelled>>

\* The vectors in an answer to embed: one, maybe empty, from a Local provider;
\* otherwise one per item of data that is an object, however many texts were
\* sent.
Vectors == IF Providers[at].kind = "local" THEN {1} ELSE 0..MaxTexts

\* A JSON object came back.  The next text is posted, or the call returns.
Answered ==
    /\ step = "sent"
    /\ served' = [served EXCEPT ![at] = @ + 1]
    /\ answered' = answered + 1
    /\ \E n \in IF op = "embed" THEN Vectors ELSE {0} : vectors' = vectors + n
    /\ posted' = 0
    /\ step' = IF answered + 1 < Posts(at) THEN "post" ELSE "returned"
    /\ UNCHANGED <<call, at, requests, raised, cancelled>>

\* A status of _RETRYABLE_STATUS_CODES, a timeout or a broken connection:
\* the service may have done the work all the same.  After the last attempt
\* the exception is raised again, and earlier answers are dropped with it.
Retryable ==
    /\ step = "sent"
    /\ \/ UNCHANGED served
       \/ served' = [served EXCEPT ![at] = @ + 1]
    /\ IF posted < Attempts(at)
       THEN /\ step' = "sleep"
            /\ UNCHANGED <<at, progress, raised>>
       ELSE GiveUp("exhausted")
    /\ UNCHANGED <<call, requests, cancelled>>

\* The timeout the request was sent with has passed.  To the call it is one
\* retryable failure among others; it is an action of its own because no other
\* outcome is sure to come.
TimedOut == Retryable

\* Any other status, a body that is not a JSON object, or one whose fields
\* do not have the shape the provider reads: not retried.
Fatal ==
    /\ step = "sent"
    /\ \/ UNCHANGED served
       \/ served' = [served EXCEPT ![at] = @ + 1]
    /\ GiveUp("fatal")
    /\ UNCHANGED <<call, requests, cancelled>>

\* wait_exponential ends.
Wake ==
    /\ step = "sleep"
    /\ step' = "post"
    /\ UNCHANGED <<call, at, progress, history>>

\* The caller cancels the task at an await: CancelledError is no Exception,
\* so neither the chain nor the retries catch it.
Cancel ==
    /\ step \in {"sent", "sleep"}
    /\ cancelled' = TRUE
    /\ step' = "cancelled"
    /\ UNCHANGED <<call, at, progress, requests, served, raised>>

Done ==
    /\ step \in Ended
    /\ UNCHANGED vars

Next ==
    \/ AllFailed
    \/ AskProvider
    \/ Send
    \/ Answered
    \/ Retryable
    \/ TimedOut
    \/ Fatal
    \/ Wake
    \/ Cancel
    \/ Done

Spec == Init /\ [][Next]_vars

\* The event loop runs the call, every sleep ends, and every request has an
\* httpx timeout.  Nothing is assumed of the services, which may never answer.
Fairness ==
    /\ WF_vars(AllFailed \/ AskProvider \/ Send \/ Wake)
    /\ WF_vars(TimedOut)

FairSpec == Spec /\ Fairness

-----------------------------------------------------------------------------
\* The call is at one of its providers, or past the last.
TypeOK ==
    /\ op \in Ops /\ texts \in Nat
    /\ at \in 1..(N + 1)
    /\ step \in Steps
    /\ posted \in Nat /\ answered \in Nat /\ vectors \in Nat
    /\ requests \in [Index -> Nat]
    /\ served \in [Index -> Nat]
    /\ raised \in [Index -> {"none", "unsupported", "exhausted", "fatal"}]
    /\ cancelled \in BOOLEAN

\* A request is only ever sent to a provider all of whose predecessors have
\* raised in this call, and none is sent to one that has raised itself.
InOrder ==
    \A p \in Index :
        /\ p < at <=> raised[p] # "none"
        /\ requests[p] > 0 => p <= at

\* No provider is sent more requests than its attempts allow for the POSTs
\* it has begun, and it is given up as exhausted only after using them all.
AttemptBound ==
    \A p \in Index :
        /\ requests[p] <= Attempts(p) * Posts(p)
        /\ raised[p] = "exhausted" => requests[p] >= Attempts(p)

\* An answer is of one provider and of all its POSTs: Local's embed, one POST
\* per text, returns one vector for each, never those of some texts, and what
\* a provider answered before it failed is never put together with another's.
\* Only an OpenAI-compatible provider may bring fewer vectors, or more, than
\* there are texts: embed does not count what its one POST returned.
WholeAnswer ==
    step = "returned" =>
        /\ at <= N
        /\ answered = Posts(at)
        /\ served[at] >= Posts(at)
        /\ op = "embed" /\ vectors # texts => Providers[at].kind = "openai"

\* Once the caller has cancelled the call it sends no further request, to the
\* provider it was waiting for or to another: neither the chain's except
\* clause nor the retries swallow the cancellation.
CancelIsFinal == [][cancelled => requests' = requests /\ cancelled']_vars

\* A call ends, whatever the providers do, and if they never answer: each
\* attempt in its timeout, and the attempts and the chain in their number.
Terminates == <>(step \in Ended)

\* The chain keeps the promise of Failover.
Outcome ==
    CASE step = "returned" -> "answered"
      [] step = "raised" -> "failed"
      [] step = "cancelled" -> "cancelled"
      [] OTHER -> "open"

Chain == INSTANCE Failover WITH N <- N, given_up <- at - 1, outcome <- Outcome

\* The steps of ProviderChain are steps of Failover, and the call ends.
FailoverSpec == Chain!LiveSpec

-----------------------------------------------------------------------------
\* The strengthening behind the safety properties.  While a provider is asked
\* its requests are those of its answered POSTs, as many as its attempts allow
\* for each, and those of the current POST; a Local provider has brought one
\* vector for each answer; Anthropic has no embed.
UnderWay ==
    step \in {"post", "sent", "sleep"} =>
        /\ at <= N
        /\ ~(op = "embed" /\ Providers[at].kind = "anthropic")
        /\ answered < Posts(at)
        /\ posted <= requests[at]
        /\ requests[at] <= Attempts(at) * answered + posted
        /\ answered <= served[at]
        /\ op = "embed" /\ Providers[at].kind = "local" => vectors = answered
        /\ posted <= Attempts(at)
        /\ step # "sent" => posted < Attempts(at)

\* Each provider starts from nothing; the call ends at a provider, or past the
\* last; and only a cancellation cancels it.
Phases ==
    /\ step = "ask" => /\ posted = 0 /\ answered = 0 /\ vectors = 0
                       /\ at <= N => requests[at] = 0
    /\ step \in {"returned", "cancelled"} => at <= N
    /\ step = "raised" => at = N + 1
    /\ cancelled <=> step = "cancelled"

\* The inductive invariant of ProviderChain_proofs.
ChainInv ==
    TypeOK /\ InOrder /\ AttemptBound /\ WholeAnswer /\ UnderWay /\ Phases
=============================================================================
