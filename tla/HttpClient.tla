----------------------------- MODULE HttpClient -----------------------------
(***************************************************************************)
(* http.py: HttpClient.get and post, which retry through tenacity, and a   *)
(* rate-limited server as far as the client depends on it: a window in     *)
(* which it refuses every request, announced in Retry-After.               *)
(*                                                                         *)
(* Clock readings are ticks from now, which Tick counts down: a sleep, the *)
(* rest of the window, and the rest of the wait a client was told.         *)
(***************************************************************************)
EXTENDS Integers

CONSTANTS
    Client,
    Attempts,           \* attempts
    Multiplier,         \* backoff_multiplier
    BackoffMin,         \* backoff_min
    BackoffMax,         \* backoff_max
    Windows,            \* lengths of the windows the server closes for
    Skew                \* the client's clock is ahead of the server's by this

ASSUME AttemptsAssumption == Attempts \in Nat \ {0}
ASSUME BackoffAssumption ==
    /\ Multiplier \in Nat /\ BackoffMin \in Nat /\ BackoffMax \in Nat
    /\ BackoffMin <= BackoffMax
ASSUME WindowAssumption == Windows \subseteq Nat
ASSUME SkewAssumption == Skew \in Nat

VARIABLES
    step,               \* where each call is: see Steps
    attempt,            \* attempt_number
    answer,             \* what the last attempt ended with
    sleep,              \* ticks left of time.sleep
    result,             \* what the last call returned or raised

    closed,             \* ticks left of the server's window
    told,               \* ticks left of the wait the last answer asked for
    stray               \* given-up requests the server may still carry out

\* What happened to the current call so far, for the properties.
VARIABLES
    effects,            \* times the server carried the request out
    refused,            \* 429 answers
    doubts              \* 5xx answers and timeouts

server == <<closed, told, stray>>
history == <<effects, refused, doubts>>
vars == <<step, attempt, answer, sleep, result, server, history>>

Steps == {"idle", "send", "asked", "answered", "asleep"}

\* A status, "404" for every 3xx and 4xx but 429 and "500" for every 5xx;
\* httpx.TimeoutException; or another transport error.
Answers == {"", "200", "404", "429", "500", "Timeout", "NetworkError"}

\* What a call ends with: its last answer, or the error of a sleep.
Results == Answers \union {"OverflowError"}

\* Retry-After: absent or unreadable, a number of seconds, a date, or either
\* of them longer than time.sleep takes (inf, 1e400, the year 9999).
Forms == {"none", "seconds", "date", "endless"}
Readable == {"seconds", "date"}
Answer(status, form, after) == [status |-> status, form |-> form, after |-> after]
NoAnswer == Answer("", "none", 0)

Init ==
    /\ step = [c \in Client |-> "idle"]
    /\ attempt = [c \in Client |-> 0]
    /\ answer = [c \in Client |-> NoAnswer]
    /\ sleep = [c \in Client |-> 0]
    /\ result = [c \in Client |-> ""]
    /\ closed = 0
    /\ told = [c \in Client |-> 0]
    /\ stray = [c \in Client |-> 0]
    /\ effects = [c \in Client |-> 0]
    /\ refused = [c \in Client |-> 0]
    /\ doubts = [c \in Client |-> 0]

-----------------------------------------------------------------------------
(* Wrong versions of the client's steps.                                   *)

\* Retry-After is capped like the backoff.
WaitCapped(c) ==
    IF answer[c].status = "429" /\ answer[c].form \in Readable
       /\ answer[c].after <= BackoffMax
    THEN answer[c].after
    ELSE BackoffMax

\* A date that has passed gives a negative wait: max(0.0, ...) is missing.
RetryAfterNegative(c) ==
    IF answer[c].form = "seconds" THEN answer[c].after ELSE told[c] - Skew

\* Every error is retried, also one that leaves the request carried out.
RetryableAll(status) == status # "200"

\* One attempt too few.
GivesUpEarly(c) == attempt[c] >= Attempts - 1

\* The client is made with timeout=None.
TimeoutNever(c) ==
    /\ FALSE
    /\ step[c] = "asked"
    /\ UNCHANGED vars

-----------------------------------------------------------------------------
\* _is_retryable_exception.
Retryable(status) == status \in {"429", "500", "Timeout"}

\* stop_after_attempt.
GivesUp(c) == attempt[c] >= Attempts

\* tenacity's wait_exponential after attempt n.
Exponential(n) ==
    LET backoff == Multiplier * 2^(n - 1)
    IN  IF backoff \in BackoffMin..BackoffMax THEN backoff
        ELSE IF backoff < BackoffMin THEN BackoffMin ELSE BackoffMax

\* _parse_retry_after of a readable header: a date is held against the
\* client's own clock, when the answer is looked at.
RetryAfter(c) ==
    IF answer[c].form = "seconds" THEN answer[c].after
    ELSE IF told[c] > Skew THEN told[c] - Skew ELSE 0

\* _WaitRetryAfter: Retry-After is read from a 429 only.
Wait(c) ==
    IF answer[c].status = "429" /\ answer[c].form \in Readable
    THEN RetryAfter(c)
    ELSE Exponential(attempt[c])

-----------------------------------------------------------------------------
(* The client.                                                             *)

Call(c) ==
    /\ step[c] = "idle"
    /\ step' = [step EXCEPT ![c] = "send"]
    /\ attempt' = [attempt EXCEPT ![c] = 0]
    /\ answer' = [answer EXCEPT ![c] = NoAnswer]
    /\ result' = [result EXCEPT ![c] = ""]
    /\ told' = [told EXCEPT ![c] = 0]
    /\ stray' = [stray EXCEPT ![c] = 0]
    /\ effects' = [effects EXCEPT ![c] = 0]
    /\ refused' = [refused EXCEPT ![c] = 0]
    /\ doubts' = [doubts EXCEPT ![c] = 0]
    /\ UNCHANGED <<sleep, closed>>

\* self._client.request sends the request.
Send(c) ==
    /\ step[c] = "send"
    /\ step' = [step EXCEPT ![c] = "asked"]
    /\ attempt' = [attempt EXCEPT ![c] = @ + 1]
    /\ UNCHANGED <<answer, sleep, result, server, history>>

\* The attempt ends with a: the call returns, raises, or sleeps first.
Conclude(c, a) ==
    /\ answer' = [answer EXCEPT ![c] = a]
    /\ step' = [step EXCEPT ![c] = "answered"]
    /\ doubts' = [doubts EXCEPT ![c] = IF a.status \in {"500", "Timeout"} THEN @ + 1 ELSE @]
    /\ refused' = [refused EXCEPT ![c] = IF a.status = "429" THEN @ + 1 ELSE @]

\* A wait that time.sleep refuses.
Endless(c) == answer[c].status = "429" /\ answer[c].form = "endless"

\* Retrying.__call__ looks at the attempt's outcome; an OverflowError of the
\* sleep escapes in place of the 429.
Decide(c) ==
    /\ step[c] = "answered"
    /\ IF Retryable(answer[c].status) /\ ~GivesUp(c) /\ ~Endless(c)
       THEN /\ step' = [step EXCEPT ![c] = "asleep"]
            /\ sleep' = [sleep EXCEPT ![c] = Wait(c)]
            /\ UNCHANGED result
       ELSE /\ step' = [step EXCEPT ![c] = "idle"]
            /\ result' = [result EXCEPT ![c] = IF Endless(c) /\ ~GivesUp(c)
                                               THEN "OverflowError"
                                               ELSE answer[c].status]
            /\ UNCHANGED sleep
    /\ UNCHANGED <<attempt, answer, server, history>>

\* time.sleep ends, no earlier than asked.
Wake(c) ==
    /\ step[c] = "asleep"
    /\ sleep[c] = 0
    /\ step' = [step EXCEPT ![c] = "send"]
    /\ UNCHANGED <<attempt, answer, sleep, result, server, history>>

-----------------------------------------------------------------------------
(* The server and the network.                                             *)

\* The wait a client is told in a form it can read.
Tell(c, form, ticks) ==
    told' = [told EXCEPT ![c] = IF form \in Readable THEN ticks ELSE 0]

\* The request is carried out, or found wrong.
Serve(c) ==
    /\ step[c] = "asked"
    /\ closed = 0
    /\ \E status \in {"200", "404"} :
          /\ Conclude(c, Answer(status, "none", 0))
          /\ effects' = [effects EXCEPT ![c] = IF status = "200" THEN @ + 1 ELSE @]
    /\ Tell(c, "none", 0)
    /\ UNCHANGED <<attempt, sleep, result, closed, stray>>

\* 429, within a window or opening one.
Refuse(c) ==
    /\ step[c] = "asked"
    /\ \E window \in IF closed > 0 THEN {closed} ELSE Windows, form \in Forms :
          /\ closed' = window
          /\ Conclude(c, Answer("429", form, window))
          /\ Tell(c, form, window)
    /\ UNCHANGED <<attempt, sleep, result, stray, effects>>

\* 5xx, with or without Retry-After, before or after the request had effect.
Fail(c) ==
    /\ step[c] = "asked"
    /\ \E window \in Windows, form \in Forms :
          /\ Conclude(c, Answer("500", form, window))
          /\ Tell(c, form, window)
    /\ \E done \in {0, 1} : effects' = [effects EXCEPT ![c] = @ + done]
    /\ UNCHANGED <<attempt, sleep, result, closed, stray>>

\* No response, or none any more: the request may have been carried out, may
\* yet be, or was never sent.
Lose(c, status) ==
    /\ step[c] = "asked"
    /\ Conclude(c, Answer(status, "none", 0))
    /\ \E done, late \in {0, 1} :
          /\ done + late <= 1
          /\ effects' = [effects EXCEPT ![c] = @ + done]
          /\ stray' = [stray EXCEPT ![c] = @ + late]
    /\ Tell(c, "none", 0)
    /\ UNCHANGED <<attempt, sleep, result, closed>>

\* The timeout of the httpx.Client has passed, 5 seconds unless the caller of
\* HttpClient gave another.
Timeout(c) == Lose(c, "Timeout")

\* The connection could not be made, or broke.
Break(c) == Lose(c, "NetworkError")

\* A request given up earlier is carried out after all.
ServeStray(c) ==
    /\ stray[c] > 0
    /\ stray' = [stray EXCEPT ![c] = @ - 1]
    /\ effects' = [effects EXCEPT ![c] = @ + 1]
    /\ UNCHANGED <<step, attempt, answer, sleep, result, closed, told, refused, doubts>>

-----------------------------------------------------------------------------
Less(ticks) == IF ticks > 0 THEN ticks - 1 ELSE 0

Tick ==
    /\ closed > 0 \/ \E c \in Client : sleep[c] > 0 \/ told[c] > 0
    /\ closed' = Less(closed)
    /\ sleep' = [c \in Client |-> Less(sleep[c])]
    /\ told' = [c \in Client |-> Less(told[c])]
    /\ UNCHANGED <<step, attempt, answer, result, stray, history>>

Next ==
    \/ \E c \in Client : Call(c)
    \/ \E c \in Client : Send(c)
    \/ \E c \in Client : Decide(c)
    \/ \E c \in Client : Wake(c)
    \/ \E c \in Client : Serve(c)
    \/ \E c \in Client : Refuse(c)
    \/ \E c \in Client : Fail(c)
    \/ \E c \in Client : Timeout(c)
    \/ \E c \in Client : Break(c)
    \/ \E c \in Client : ServeStray(c)
    \/ Tick

Spec == Init /\ [][Next]_vars

\* Time passes, a caller's thread runs, and httpx's timeout ends each wait
\* for a response that does not come.  Nothing is assumed of the server.
Fairness ==
    /\ WF_vars(Tick)
    /\ \A c \in Client :
          WF_vars(Send(c)) /\ WF_vars(Decide(c)) /\ WF_vars(Wake(c)) /\ WF_vars(Timeout(c))

FairSpec == Spec /\ Fairness

-----------------------------------------------------------------------------
\* Every sleep asked for is a natural number, a date of Retry-After that has
\* passed included.
TypeOK ==
    /\ step \in [Client -> Steps]
    /\ attempt \in [Client -> Nat]
    /\ answer \in [Client -> [status : Answers, form : Forms, after : Nat]]
    /\ sleep \in [Client -> Nat]
    /\ result \in [Client -> Results]
    /\ closed \in Nat
    /\ told \in [Client -> Nat]
    /\ stray \in [Client -> Nat]
    /\ effects \in [Client -> Nat]
    /\ refused \in [Client -> Nat]
    /\ doubts \in [Client -> Nat]

\* A request is never sent again before the time its 429 asked for, whatever
\* the backoff's cap; a date is honoured up to the skew of the clocks.
RetryAfterHonoured ==
    \A c \in Client :
        step[c] = "send" /\ answer[c].status = "429"
        => told[c] <= IF answer[c].form = "date" THEN Skew ELSE 0

\* A request is repeated only after a refusal or when its fate is unknown, so
\* it takes effect at most once more than it was left in doubt: a GET or POST
\* that met no 5xx and no timeout is carried out at most once.
EffectsBounded == \A c \in Client : effects[c] + stray[c] <= 1 + doubts[c]

\* A retryable error is raised only after the last attempt, and any other
\* outcome by the attempt that met it, all earlier ones having been retryable;
\* but a 429 with an endless Retry-After ends the call at once, by an error
\* that is none of httpx's, with attempts left.
GivesUpLast ==
    \A c \in Client :
        /\ attempt[c] <= Attempts
        /\ result[c] \in {"429", "500", "Timeout"} =>
              attempt[c] = Attempts /\ refused[c] + doubts[c] = attempt[c]
        /\ result[c] \in {"200", "404", "NetworkError"} =>
              refused[c] + doubts[c] = attempt[c] - 1
        /\ result[c] = "OverflowError" =>
              attempt[c] < Attempts /\ refused[c] + doubts[c] = attempt[c]

\* Every call ends, although the server refuses, fails or is silent for ever:
\* each attempt has its timeout, each wait is finite, and they run out.
Terminates == \A c \in Client : step[c] # "idle" ~> step[c] = "idle"

-----------------------------------------------------------------------------
\* The strengthening behind RetryAfterHonoured: the sleep covers what is left
\* of the wait, and so does the number in the header until it is read.
Covered(c) ==
    answer[c].status = "429" =>
        /\ step[c] = "answered" /\ answer[c].form = "seconds" => told[c] <= answer[c].after
        /\ step[c] \in {"answered", "asleep", "send"} /\ answer[c].form \notin Readable
              => told[c] = 0
        /\ step[c] = "asleep" /\ answer[c].form = "seconds" => told[c] <= sleep[c]
        /\ step[c] = "asleep" /\ answer[c].form = "date" => told[c] <= sleep[c] + Skew

\* The strengthening behind EffectsBounded: a request on its way was preceded
\* only by refusals and doubts, and the doubts account for every effect so far.
Accounted(c) ==
    \/ step[c] \in {"send", "asked", "asleep"}
    \/ step[c] = "answered" /\ Retryable(answer[c].status)
    => effects[c] + stray[c] <= doubts[c]

\* Every attempt up to the answer at hand was a refusal or a doubt, the last
\* one only if it is a retryable error.
CountedAnswer(c) ==
    \/ /\ answer[c].status \in {"429", "500", "Timeout"}
       /\ refused[c] + doubts[c] = attempt[c]
    \/ /\ answer[c].status \in {"200", "404", "NetworkError"}
       /\ refused[c] + doubts[c] = attempt[c] - 1

\* The strengthening behind GivesUpLast: every attempt before the current one
\* ended in a refusal or a doubt, and another is begun only if one is left.
Counted(c) ==
    /\ attempt[c] <= Attempts
    /\ step[c] # "idle" => result[c] = ""
    /\ step[c] \in {"send", "asleep"} =>
          attempt[c] < Attempts /\ refused[c] + doubts[c] = attempt[c]
    /\ step[c] = "asked" => refused[c] + doubts[c] = attempt[c] - 1
    /\ step[c] = "answered" => CountedAnswer(c)

\* The inductive invariant of HttpClient_proofs, as TLC checks it.
WaitInv ==
    /\ TypeOK
    /\ RetryAfterHonoured
    /\ EffectsBounded
    /\ \A c \in Client : Covered(c) /\ Accounted(c)
=============================================================================
