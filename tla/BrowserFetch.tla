---------------------------- MODULE BrowserFetch ----------------------------
(***************************************************************************)
(* Clients of the hlpp-l0-browser rendering service: browser_fetch.py's    *)
(* BrowserFetchClient (one instance per thread, as its docstring asks) and *)
(* the service as far as the client depends on it: a pool of browsers, a   *)
(* queue in front of it with a time limit, a limit on each render, and the *)
(* time a response takes on its way.                                       *)
(*                                                                         *)
(* Time is discrete: Tick adds one to every clock of an exchange under     *)
(* way, and no step of a live service is later than its limit.             *)
(***************************************************************************)
EXTENDS Integers, FiniteSets

CONSTANTS
    Client,
    Pool,               \* browsers of the service
    QueueTimeout,       \* QUEUE_TIMEOUT_MS, in ticks
    MaxRender,          \* MAX_RENDER_MS
    Overhead,           \* round trip and serialisation take less than this
    ClientTimeout,      \* DEFAULT_TIMEOUT_S, the timeout of httpx.Client
    Attempts,           \* _POOL_TIMEOUT_RETRY_ATTEMPTS
    Methods,            \* the methods callers use
    Statuses,           \* the statuses the service answers with, besides 429
    Bodies,             \* the bodies it sends
    MaxFaults           \* bound on the failures of the service

ASSUME PoolAssumption == Pool \in Nat \ {0}
ASSUME AttemptsAssumption == Attempts \in Nat \ {0}
ASSUME MaxFaultsAssumption == MaxFaults \in Nat
ASSUME MethodsAssumption ==
    Methods \subseteq {"render", "render_html", "render_json", "health"}
ASSUME StatusesAssumption ==
    Statuses \subseteq {200, 400, 401, 403, 500, 502, 503, 504}

\* A body has every field ("full"), lacks the one the caller wants ("null"),
\* or is not the JSON object of the contract ("bad").
ASSUME BodiesAssumption == Bodies \subseteq {"full", "null", "bad"}
ASSUME ServiceAssumption ==
    /\ QueueTimeout \in Nat /\ MaxRender \in Nat /\ Overhead \in Nat \ {0}

\* The rule of the comment on DEFAULT_TIMEOUT_S.
ASSUME ClientTimeoutAssumption ==
    /\ ClientTimeout \in Nat
    /\ ClientTimeout >= QueueTimeout + MaxRender + Overhead

VARIABLES
    step,           \* where each client's call is: see Steps
    op,             \* the method called
    attempt,        \* POSTs sent by the call
    reply,          \* the response on its way back
    outcome,        \* what the last call returned or raised
    waited,         \* ticks since the POST was sent
    stage,          \* ticks since the exchange entered its current step
    service,        \* "ready", "warming", "down" or "hung"
    orphans         \* browsers left rendering for a client that has gone

\* What happened so far, for the properties.
VARIABLES
    refused,        \* 429 answers to the current call
    renders,        \* renders begun for the current call
    hit,            \* clients whose exchange the service let hang
    faults          \* failures so far, at most MaxFaults

clocks == <<waited, stage>>
history == <<refused, renders, hit, faults>>
vars == <<step, op, attempt, reply, outcome, clocks, service, orphans, history>>

InFlight == {"queued", "rendering", "replying"}
Steps == {"idle", "send", "backoff"} \union InFlight
Replies == [status : {0, 200, 400, 401, 403, 429, 500, 502, 503, 504},
            body : {"", "full", "null", "bad"}]
NoReply == [status |-> 0, body |-> ""]

\* What a call ends with.  "unwrapped" is an exception that is none of this
\* module's: an httpx error, a KeyError or a JSONDecodeError.
Classes == {"RenderResult", "HealthResult", "Unavailable", "AuthError",
            "TimeoutError", "BadRequest", "UpstreamFailed", "PoolTimeout",
            "ServerError", "RuntimeError", "unwrapped"}
Outcome(class, fetch_ms) == [class |-> class, fetch_ms |-> fetch_ms]
NoOutcome == Outcome("", "none")

\* What becomes of the duration the service reports in its body.
FetchMs == {"none", "kept", "dropped"}
Kept(r) == IF r.body = "full" THEN "kept" ELSE "none"
Dropped(r) == IF r.body = "full" THEN "dropped" ELSE "none"

-----------------------------------------------------------------------------
(* _parse_render_response, and what render_html and render_json make of    *)
(* its result.                                                             *)

ErrorClass(status) ==
    CASE status \in {401, 403} -> "AuthError"
      [] status = 400 -> "BadRequest"
      [] status = 502 -> "UpstreamFailed"
      [] status = 503 -> "Unavailable"
      [] OTHER -> "ServerError"

Parse(method, r) ==
    IF r.status # 200
    THEN Outcome(ErrorClass(r.status), Kept(r))
    ELSE IF r.body = "bad" THEN Outcome("unwrapped", "none")
    ELSE IF r.body = "null" /\ method # "render" THEN Outcome("RuntimeError", "none")
    ELSE Outcome("RenderResult", "kept")

\* health: anything but a success is Unavailable.
ParseHealth(r) ==
    IF r.status # 200 THEN Outcome("Unavailable", "none")
    ELSE IF r.body = "full" THEN Outcome("HealthResult", "none")
    ELSE Outcome("unwrapped", "none")

-----------------------------------------------------------------------------
Waiting == {c \in Client : step[c] \in InFlight}
Rendering == {c \in Client : step[c] = "rendering"}
PoolFree == Cardinality(Rendering) + orphans < Pool

Init ==
    /\ step = [c \in Client |-> "idle"]
    /\ op = [c \in Client |-> ""]
    /\ attempt = [c \in Client |-> 0]
    /\ reply = [c \in Client |-> NoReply]
    /\ outcome = [c \in Client |-> NoOutcome]
    /\ waited = [c \in Client |-> 0]
    /\ stage = [c \in Client |-> 0]
    /\ service = "ready"
    /\ orphans = 0
    /\ refused = [c \in Client |-> 0]
    /\ renders = [c \in Client |-> 0]
    /\ hit = {}
    /\ faults = 0

\* The call of c ends: it returns or raises, and its exchange is over.
End(c, result) ==
    /\ outcome' = [outcome EXCEPT ![c] = result]
    /\ step' = [step EXCEPT ![c] = "idle"]
    /\ reply' = [reply EXCEPT ![c] = NoReply]
    /\ waited' = [waited EXCEPT ![c] = 0]
    /\ stage' = [stage EXCEPT ![c] = 0]

\* The exchange of c enters its next step.
Enter(c, next) ==
    /\ step' = [step EXCEPT ![c] = next]
    /\ stage' = [stage EXCEPT ![c] = 0]

Answer(c, status, body) ==
    /\ Enter(c, "replying")
    /\ reply' = [reply EXCEPT ![c] = [status |-> status, body |-> body]]

-----------------------------------------------------------------------------
(* Wrong versions of the client's steps, each a mistake it could make and  *)
(* one of the properties catches.                                          *)

\* Attempts are counted down from zero.
SendCountsDown(c) ==
    /\ step[c] = "send" /\ service # "down"
    /\ attempt' = [attempt EXCEPT ![c] = @ - 1]
    /\ Enter(c, "queued")
    /\ waited' = [waited EXCEPT ![c] = 0]
    /\ UNCHANGED <<op, reply, outcome, service, orphans, history>>

\* Attempts are not counted.
SendUncounted(c) ==
    /\ step[c] = "send" /\ service # "down"
    /\ Enter(c, "queued")
    /\ waited' = [waited EXCEPT ![c] = 0]
    /\ UNCHANGED <<op, attempt, reply, outcome, service, orphans, history>>

\* The timeout covers the render but not the queue (30 s, as before 0.1.7).
TimeoutEarly(c) ==
    /\ c \in Waiting
    /\ waited[c] >= MaxRender
    /\ End(c, Outcome("TimeoutError", "none"))
    /\ orphans' = IF step[c] = "rendering" THEN orphans + 1 ELSE orphans
    /\ UNCHANGED <<op, attempt, service, history>>

\* A timeout is retried like a 429.
TimeoutRetried(c) ==
    /\ c \in Waiting
    /\ waited[c] >= ClientTimeout
    /\ attempt[c] < Attempts
    /\ step' = [step EXCEPT ![c] = "send"]
    /\ UNCHANGED <<op, attempt, reply, outcome, clocks, service, orphans, history>>

\* The client has no timeout.
TimeoutNever(c) == FALSE /\ c \in Waiting /\ UNCHANGED vars

-----------------------------------------------------------------------------
(* The client.                                                             *)

Call(c, method) ==
    /\ step[c] = "idle"
    /\ step' = [step EXCEPT ![c] = "send"]
    /\ op' = [op EXCEPT ![c] = method]
    /\ attempt' = [attempt EXCEPT ![c] = 0]
    /\ outcome' = [outcome EXCEPT ![c] = NoOutcome]
    /\ refused' = [refused EXCEPT ![c] = 0]
    /\ renders' = [renders EXCEPT ![c] = 0]
    /\ hit' = hit \ {c}
    /\ UNCHANGED <<reply, clocks, service, orphans, faults>>

\* self._client.post or .get: a connection is made, or ConnectError.
Send(c) ==
    /\ step[c] = "send"
    /\ attempt' = [attempt EXCEPT ![c] = @ + 1]
    /\ IF service = "down"
       THEN /\ End(c, Outcome("Unavailable", "none"))
            /\ UNCHANGED hit
       ELSE /\ Enter(c, "queued")
            /\ waited' = [waited EXCEPT ![c] = 0]
            /\ hit' = IF service = "hung" THEN hit \union {c} ELSE hit
            /\ UNCHANGED <<reply, outcome>>
    /\ UNCHANGED <<op, service, orphans, refused, renders, faults>>

\* httpx.TimeoutException: not retried.  A browser may go on rendering.
Timeout(c) ==
    /\ c \in Waiting
    /\ waited[c] >= ClientTimeout
    /\ End(c, Outcome("TimeoutError", "none"))
    /\ orphans' = IF step[c] = "rendering" THEN orphans + 1 ELSE orphans
    /\ UNCHANGED <<op, attempt, service, history>>

Pause(c) ==
    /\ Enter(c, "backoff")
    /\ reply' = [reply EXCEPT ![c] = NoReply]
    /\ waited' = [waited EXCEPT ![c] = 0]
    /\ UNCHANGED outcome

\* The response arrives: a 429 is retried after a pause, or raised after the
\* last attempt; anything else is mapped to a result or an error.
Receive(c) ==
    /\ step[c] = "replying"
    /\ service # "hung"
    /\ \/ /\ op[c] = "health"
          /\ End(c, ParseHealth(reply[c]))
          /\ UNCHANGED refused
       \/ /\ op[c] # "health" /\ reply[c].status # 429
          /\ End(c, Parse(op[c], reply[c]))
          /\ UNCHANGED refused
       \/ /\ op[c] # "health" /\ reply[c].status = 429
          /\ refused' = [refused EXCEPT ![c] = @ + 1]
          /\ IF attempt[c] < Attempts
             THEN Pause(c)
             ELSE End(c, Outcome("PoolTimeout", Dropped(reply[c])))
    /\ UNCHANGED <<op, attempt, service, orphans, renders, hit, faults>>

\* time.sleep ends; the pauses of one and two seconds are below one tick.
Wake(c) ==
    /\ step[c] = "backoff"
    /\ step' = [step EXCEPT ![c] = "send"]
    /\ UNCHANGED <<op, attempt, reply, outcome, clocks, service, orphans, history>>

-----------------------------------------------------------------------------
(* The service.                                                            *)

Unchanged_service == UNCHANGED <<op, attempt, outcome, waited, service, hit,
                                 refused, faults>>

\* A request that never reaches the pool: the health check, a bad request,
\* a bad token, or a service still warming up.
AnswerAtOnce(c) ==
    /\ step[c] = "queued"
    /\ \/ /\ service = "warming"
          /\ \E body \in Bodies : Answer(c, 503, body)
       \/ /\ service = "ready" /\ op[c] = "health"
          /\ \E body \in Bodies : Answer(c, 200, body)
       \/ /\ service = "ready" /\ op[c] # "health"
          /\ \E status \in Statuses \cap {400, 401, 403} : Answer(c, status, "full")
    /\ UNCHANGED <<orphans, renders>>
    /\ Unchanged_service

StartRender(c) ==
    /\ step[c] = "queued" /\ op[c] # "health"
    /\ service = "ready"
    /\ PoolFree
    /\ Enter(c, "rendering")
    /\ renders' = [renders EXCEPT ![c] = @ + 1]
    /\ UNCHANGED <<reply, orphans>>
    /\ Unchanged_service

\* 429 POOL_EXHAUSTED_QUEUE_TIMEOUT.
QueueTimesOut(c) ==
    /\ step[c] = "queued" /\ op[c] # "health"
    /\ service = "ready"
    /\ ~PoolFree
    /\ stage[c] = QueueTimeout
    /\ Answer(c, 429, "full")
    /\ UNCHANGED <<orphans, renders>>
    /\ Unchanged_service

FinishRender(c) ==
    /\ step[c] = "rendering"
    /\ service = "ready"
    /\ \E status \in Statuses \cap {200, 500, 502, 504}, body \in Bodies :
          /\ status = 504 => stage[c] = MaxRender
          /\ Answer(c, status, body)
    /\ UNCHANGED <<orphans, renders>>
    /\ Unchanged_service

\* The service stops answering, with its connections open.
Hang ==
    /\ service \in {"ready", "warming"}
    /\ faults < MaxFaults
    /\ service' = "hung"
    /\ hit' = hit \union Waiting
    /\ faults' = faults + 1
    /\ UNCHANGED <<step, op, attempt, reply, outcome, clocks, orphans, refused,
                   renders>>

\* The service dies: its connections are reset, and the ReadError or
\* RemoteProtocolError of every waiting client is caught nowhere.
Die ==
    /\ service # "down"
    /\ service = "hung" \/ faults < MaxFaults
    /\ service' = "down"
    /\ faults' = IF service = "hung" THEN faults ELSE faults + 1
    /\ step' = [c \in Client |-> IF c \in Waiting THEN "idle" ELSE step[c]]
    /\ outcome' = [c \in Client |->
                      IF c \in Waiting THEN Outcome("unwrapped", "none")
                                       ELSE outcome[c]]
    /\ reply' = [c \in Client |-> NoReply]
    /\ waited' = [c \in Client |-> 0]
    /\ stage' = [c \in Client |-> 0]
    /\ orphans' = 0
    /\ UNCHANGED <<op, attempt, refused, renders, hit>>

Restart ==
    /\ service = "down"
    /\ service' = "warming"
    /\ UNCHANGED <<step, op, attempt, reply, outcome, clocks, orphans, history>>

WarmedUp ==
    /\ service = "warming"
    /\ service' = "ready"
    /\ UNCHANGED <<step, op, attempt, reply, outcome, clocks, orphans, history>>

-----------------------------------------------------------------------------
\* The service's limits, which hold while it works.
ServiceOnTime(c) ==
    CASE step[c] = "queued" -> stage[c] < QueueTimeout
      [] step[c] = "rendering" -> stage[c] < MaxRender
      [] step[c] = "replying" -> stage[c] + 1 < Overhead

Tick ==
    /\ Waiting # {}
    /\ \A c \in Waiting :
          /\ waited[c] < ClientTimeout
          /\ service = "hung" \/ ServiceOnTime(c)
    /\ waited' = [c \in Client |-> IF c \in Waiting THEN waited[c] + 1 ELSE waited[c]]
    /\ stage' = [c \in Client |-> IF c \in Waiting THEN stage[c] + 1 ELSE stage[c]]
    /\ UNCHANGED <<step, op, attempt, reply, outcome, service, orphans, history>>

ClientStep(c) == Send(c) \/ Timeout(c) \/ Receive(c) \/ Wake(c)
ServiceStep(c) ==
    AnswerAtOnce(c) \/ StartRender(c) \/ QueueTimesOut(c) \/ FinishRender(c)

Next ==
    \/ \E c \in Client, method \in Methods : Call(c, method)
    \/ \E c \in Client : Send(c)
    \/ \E c \in Client : Timeout(c)
    \/ \E c \in Client : Receive(c)
    \/ \E c \in Client : Wake(c)
    \/ \E c \in Client : AnswerAtOnce(c)
    \/ \E c \in Client : StartRender(c)
    \/ \E c \in Client : QueueTimesOut(c)
    \/ \E c \in Client : FinishRender(c)
    \/ Hang
    \/ Die
    \/ Restart
    \/ WarmedUp
    \/ Tick

Spec == Init /\ [][Next]_vars

\* Time passes, a client's thread runs, and a service that is not hung keeps
\* to its limits.  Nothing makes a hung service answer or a dead one return.
Fairness ==
    /\ SF_vars(Tick)
    /\ \A c \in Client : WF_vars(ClientStep(c)) /\ WF_vars(ServiceStep(c))

FairSpec == Spec /\ Fairness

-----------------------------------------------------------------------------
\* Every call of the client ends in a result or an error of Classes, having
\* sent a natural number of POSTs.
TypeOK ==
    /\ step \in [Client -> Steps]
    /\ op \in [Client -> Methods \union {""}]
    /\ attempt \in [Client -> Nat]
    /\ reply \in [Client -> Replies]
    /\ outcome \in [Client -> [class : Classes \union {""}, fetch_ms : FetchMs]]
    /\ waited \in [Client -> Nat]
    /\ stage \in [Client -> Nat]
    /\ service \in {"ready", "warming", "down", "hung"}
    /\ orphans \in Nat
    /\ refused \in [Client -> Nat]
    /\ renders \in [Client -> Nat]
    /\ hit \subseteq Client
    /\ faults \in Nat

\* A call times out only if the service hung while it waited: never while the
\* request is queued, rendered and answered within the service's own limits,
\* however long the queue.  So no browser is left rendering for a client that
\* has gone, and a caller's retry does not double the load, unless the service
\* hangs.
NoSpuriousTimeout ==
    /\ \A c \in Client : outcome[c].class = "TimeoutError" => c \in hit
    /\ orphans > 0 => service = "hung"

\* One call renders its page at most once: what is retried was never begun.
RendersOnce == \A c \in Client : renders[c] <= 1

\* Every POST of a call after its first answers a 429, there are at most
\* Attempts of them, and PoolTimeout is raised exactly when all were refused.
RetriesOnlyRefusals ==
    \A c \in Client :
        /\ attempt[c] <= refused[c] + 1
        /\ attempt[c] <= Attempts
        /\ outcome[c].class = "PoolTimeout" <=>
              step[c] = "idle" /\ refused[c] = Attempts

\* Every call ends, also when the service hangs or dies under it.
Terminates == \A c \in Client : step[c] # "idle" ~> step[c] = "idle"

\* browser_fetch.py:34 and 59-63: BrowserFetchError is the catch-all, "so
\* consumers can catch BrowserFetchError as a broad handler".  With a service
\* that answers as its contract says, no call ends with another exception.
CatchAll == \A c \in Client : outcome[c].class # "unwrapped"

-----------------------------------------------------------------------------
\* The strengthening behind NoSpuriousTimeout.  While the service works, the
\* time a client has waited is covered by the limits of the steps its exchange
\* has been through; a client hit by a hang stays so until the service dies.
Budget(c) ==
    CASE step[c] = "queued" -> waited[c] = stage[c] /\ stage[c] <= QueueTimeout
      [] step[c] = "rendering" -> /\ waited[c] <= QueueTimeout + stage[c]
                                  /\ stage[c] <= MaxRender
      [] step[c] = "replying" -> /\ waited[c] <= QueueTimeout + MaxRender + stage[c]
                                 /\ stage[c] < Overhead
      [] OTHER -> TRUE

ServiceInv ==
    /\ service = "down" => Waiting = {}
    /\ service = "hung" => Waiting \subseteq hit
    /\ service # "hung" => Waiting \cap hit = {}
    /\ \A c \in hit : step[c] \notin {"send", "backoff"}

BudgetInv == \A c \in Client \ hit : Budget(c)

\* The inductive invariant of BrowserFetch_proofs.
TimeoutInv == TypeOK /\ ServiceInv /\ BudgetInv /\ NoSpuriousTimeout

\* The strengthening behind RendersOnce and RetriesOnlyRefusals.  A POST is sent
\* after each refusal of the one before, none of which was rendered.
Retry(c) ==
    /\ step[c] \in {"send", "backoff"} =>
          attempt[c] = refused[c] /\ refused[c] < Attempts /\ renders[c] = 0
    /\ step[c] \in InFlight =>
          attempt[c] = refused[c] + 1 /\ refused[c] < Attempts /\ renders[c] <= 1
    /\ step[c] = "queued" \/ (step[c] = "replying" /\ reply[c].status = 429) =>
          renders[c] = 0
    /\ step[c] = "idle" =>
          /\ attempt[c] <= refused[c] + 1 /\ attempt[c] <= Attempts /\ renders[c] <= 1
          /\ outcome[c].class = "PoolTimeout" <=> refused[c] = Attempts
    /\ step[c] # "idle" => outcome[c].class # "PoolTimeout"

RetryInv == \A c \in Client : Retry(c)
=============================================================================
