------------------------ MODULE BrowserFetch_proofs ------------------------
(* Proofs about the rendering client, for any number of clients, any pool  *)
(* and any limits that satisfy the rule on DEFAULT_TIMEOUT_S.              *)
EXTENDS BrowserFetch, TLAPS

Results == [class : Classes \union {""}, fetch_ms : FetchMs]

\* The parts of TypeOK whose sets the provers need not open.
LEMMA Parts ==
    ASSUME TypeOK
    PROVE  /\ step \in [Client -> Steps]
           /\ outcome \in [Client -> Results] /\ reply \in [Client -> Replies]
           /\ attempt \in [Client -> Nat] /\ waited \in [Client -> Nat]
           /\ stage \in [Client -> Nat] /\ refused \in [Client -> Nat]
           /\ renders \in [Client -> Nat]
           /\ orphans \in Nat /\ faults \in Nat /\ hit \subseteq Client
  BY DEF TypeOK, Results

LEMMA OutcomeType ==
    /\ NoOutcome \in Results
    /\ \A class \in Classes, ms \in FetchMs : Outcome(class, ms) \in Results
    /\ \A r \in Replies : Kept(r) \in FetchMs /\ Dropped(r) \in FetchMs
  BY DEF NoOutcome, Outcome, Results, FetchMs, Kept, Dropped

LEMMA ParseType ==
    ASSUME NEW method, NEW r \in Replies
    PROVE  /\ Parse(method, r) \in Results
           /\ ParseHealth(r) \in Results
           /\ Parse(method, r).class # "TimeoutError"
           /\ ParseHealth(r).class # "TimeoutError"
  <1>1. /\ "none" \in FetchMs /\ "kept" \in FetchMs /\ Kept(r) \in FetchMs
    BY DEF FetchMs, Kept
  <1>2. ErrorClass(r.status) \in Classes /\ ErrorClass(r.status) # "TimeoutError"
    BY DEF ErrorClass, Classes
  <1>3. /\ {"unwrapped", "RuntimeError", "RenderResult", "HealthResult",
            "Unavailable"} \subseteq Classes
    BY DEF Classes
  <1> QED
    BY <1>1, <1>2, <1>3 DEF Parse, ParseHealth, Outcome, Results

LEMMA EndType ==
    ASSUME TypeOK, NEW c \in Client, NEW result \in Results, End(c, result)
    PROVE  /\ outcome' \in [Client -> Results]
           /\ step' \in [Client -> Steps]
           /\ reply' \in [Client -> Replies]
           /\ waited' \in [Client -> Nat] /\ stage' \in [Client -> Nat]
  <1>1. outcome' \in [Client -> Results]
    BY DEF TypeOK, End, Results
  <1>2. step' \in [Client -> Steps]
    BY DEF TypeOK, End, Steps
  <1>3. NoReply \in Replies
    BY DEF NoReply, Replies
  <1>4. reply' \in [Client -> Replies]
    BY <1>3 DEF TypeOK, End
  <1>5. waited' \in [Client -> Nat] /\ stage' \in [Client -> Nat]
    BY DEF TypeOK, End
  <1> QED  BY <1>1, <1>2, <1>4, <1>5

LEMMA EnterType ==
    ASSUME TypeOK, NEW c \in Client, NEW next \in Steps, Enter(c, next)
    PROVE  step' \in [Client -> Steps] /\ stage' \in [Client -> Nat]
  BY DEF TypeOK, Enter

LEMMA AnswerType ==
    ASSUME TypeOK, NEW c \in Client,
           NEW status \in {200, 400, 401, 403, 429, 500, 502, 503, 504},
           NEW body \in {"full", "null", "bad"}, Answer(c, status, body)
    PROVE  /\ step' \in [Client -> Steps] /\ stage' \in [Client -> Nat]
           /\ reply' \in [Client -> Replies]
  <1>1. [status |-> status, body |-> body] \in Replies
    BY DEF Replies
  <1>2. reply' \in [Client -> Replies]
    BY <1>1 DEF TypeOK, Answer
  <1>3. "replying" \in Steps /\ Enter(c, "replying")
    BY DEF Answer, Steps, InFlight
  <1> QED  BY <1>2, <1>3, EnterType

LEMMA InitType == Init => TypeOK
  <1> SUFFICES ASSUME Init PROVE TypeOK
    OBVIOUS
  <1> USE DEF Init
  <1>1. NoReply \in Replies
    BY DEF NoReply, Replies
  <1>2. reply \in [Client -> Replies]
    BY <1>1
  <1>3. outcome \in [Client -> Results]
    BY OutcomeType
  <1>4. /\ step \in [Client -> Steps]
        /\ op \in [Client -> Methods \union {""}]
    BY DEF Steps
  <1>5. /\ attempt \in [Client -> Nat] /\ waited \in [Client -> Nat]
        /\ stage \in [Client -> Nat] /\ refused \in [Client -> Nat]
        /\ renders \in [Client -> Nat]
        /\ orphans \in Nat /\ faults \in Nat /\ hit \subseteq Client
    OBVIOUS
  <1> QED  BY <1>2, <1>3, <1>4, <1>5 DEF TypeOK, Results

LEMMA CallType ==
    ASSUME TypeOK, NEW c \in Client, NEW method \in Methods, Call(c, method)
    PROVE  TypeOK'
  <1> USE DEF Call, clocks
  <1>1. step' \in [Client -> Steps] /\ op' \in [Client -> Methods \union {""}]
    BY DEF TypeOK, Steps
  <1>2. outcome' \in [Client -> Results]
    BY OutcomeType DEF TypeOK, Results
  <1>3. attempt' \in [Client -> Nat]
    BY Parts
  <1>4. refused' \in [Client -> Nat]
    BY Parts
  <1>5. renders' \in [Client -> Nat] /\ hit' \subseteq Client
    BY Parts
  <1> QED  BY <1>1, <1>2, <1>3, <1>4, <1>5 DEF TypeOK, Results

LEMMA SendType ==
    ASSUME TypeOK, NEW c \in Client, Send(c)
    PROVE  TypeOK'
  <1> USE DEF Send
  <1>1. attempt' \in [Client -> Nat]
    BY Parts
  <1>2. CASE service = "down"
    <2>1. End(c, Outcome("Unavailable", "none"))
      BY <1>2
    <2>2. Outcome("Unavailable", "none") \in Results
      BY OutcomeType DEF Classes, FetchMs
    <2> QED  BY <1>1, <1>2, <2>1, <2>2, EndType DEF TypeOK, Results
  <1>3. CASE service # "down"
    <2>1. /\ Enter(c, "queued") /\ "queued" \in Steps
          /\ UNCHANGED <<reply, outcome>>
      BY <1>3 DEF Steps, InFlight
    <2>2. hit' \subseteq Client /\ waited' \in [Client -> Nat]
      BY <1>3, Parts
    <2> QED  BY <1>1, <2>1, <2>2, EnterType DEF TypeOK
  <1> QED  BY <1>2, <1>3

LEMMA TimeoutType ==
    ASSUME TypeOK, NEW c \in Client, Timeout(c)
    PROVE  TypeOK'
  <1>1. End(c, Outcome("TimeoutError", "none"))
    BY DEF Timeout
  <1>2. Outcome("TimeoutError", "none") \in Results
    BY OutcomeType DEF Classes, FetchMs
  <1>3. orphans' \in Nat
    BY Parts DEF Timeout
  <1> QED  BY <1>1, <1>2, <1>3, EndType DEF TypeOK, Timeout, history, Results

LEMMA ReceiveType ==
    ASSUME TypeOK, NEW c \in Client, Receive(c)
    PROVE  TypeOK'
  <1>1. /\ UNCHANGED <<op, attempt, service, orphans, renders, hit, faults>>
        /\ reply[c] \in Replies
    BY Parts DEF Receive
  <1>2. ASSUME NEW result \in Results, End(c, result), refused' \in [Client -> Nat]
        PROVE  TypeOK'
    BY <1>1, <1>2, EndType DEF TypeOK, Results
  <1>3. CASE op[c] = "health" \/ reply[c].status # 429
    <2>1. UNCHANGED refused /\ refused' \in [Client -> Nat]
      BY <1>3, Parts DEF Receive
    <2>2. End(c, ParseHealth(reply[c])) \/ End(c, Parse(op[c], reply[c]))
      BY <1>3 DEF Receive
    <2> QED  BY <1>1, <1>2, <2>1, <2>2, ParseType
  <1>4. CASE op[c] # "health" /\ reply[c].status = 429
    <2>1. refused' \in [Client -> Nat]
      BY <1>4, Parts DEF Receive
    <2>2. CASE Pause(c)
      <3>1. Enter(c, "backoff") /\ "backoff" \in Steps /\ UNCHANGED outcome
        BY <2>2 DEF Pause, Steps
      <3>2. NoReply \in Replies
        BY DEF NoReply, Replies
      <3>3. reply' \in [Client -> Replies] /\ waited' \in [Client -> Nat]
        BY <2>2, <3>2, Parts DEF Pause
      <3> QED  BY <1>1, <2>1, <3>1, <3>3, EnterType DEF TypeOK
    <2>3. CASE End(c, Outcome("PoolTimeout", Dropped(reply[c])))
      <3>1. Outcome("PoolTimeout", Dropped(reply[c])) \in Results
        BY <1>1, OutcomeType DEF Classes
      <3> QED  BY <1>2, <2>1, <2>3, <3>1
    <2> QED  BY <1>4, <2>2, <2>3 DEF Receive
  <1> QED  BY <1>3, <1>4

LEMMA ServiceStepType ==
    ASSUME TypeOK, NEW c \in Client, ServiceStep(c)
    PROVE  TypeOK'
  <1>1. UNCHANGED <<op, attempt, outcome, waited, service, hit, refused, faults,
                    orphans>>
    BY DEF ServiceStep, AnswerAtOnce, StartRender, QueueTimesOut, FinishRender,
           Unchanged_service
  <1>2. ASSUME NEW status \in {200, 400, 401, 403, 429, 500, 502, 503, 504},
               NEW body \in {"full", "null", "bad"}, Answer(c, status, body),
               UNCHANGED renders
        PROVE  TypeOK'
    <2>1. /\ step' \in [Client -> Steps] /\ stage' \in [Client -> Nat]
          /\ reply' \in [Client -> Replies]
      BY <1>2, AnswerType
    <2> QED  BY <1>1, <1>2, <2>1 DEF TypeOK
  <1>3. CASE AnswerAtOnce(c)
    BY <1>2, <1>3, BodiesAssumption DEF AnswerAtOnce
  <1>4. CASE QueueTimesOut(c)
    BY <1>2, <1>4 DEF QueueTimesOut
  <1>5. CASE FinishRender(c)
    BY <1>2, <1>5, BodiesAssumption DEF FinishRender
  <1>6. CASE StartRender(c)
    <2>1. Enter(c, "rendering") /\ "rendering" \in Steps /\ UNCHANGED reply
      BY <1>6 DEF StartRender, Steps, InFlight
    <2>2. renders' \in [Client -> Nat]
      BY <1>6, Parts DEF StartRender
    <2> QED  BY <1>1, <2>1, <2>2, EnterType DEF TypeOK
  <1> QED  BY <1>3, <1>4, <1>5, <1>6 DEF ServiceStep

LEMMA DieType ==
    ASSUME TypeOK, Die
    PROVE  TypeOK'
  <1> USE DEF Die
  <1>1. step' \in [Client -> Steps]
    BY Parts DEF Steps
  <1>2. outcome' \in [Client -> Results]
    BY Parts, OutcomeType DEF Classes, FetchMs
  <1>3. NoReply \in Replies
    BY DEF NoReply, Replies
  <1>4. reply' \in [Client -> Replies]
    BY <1>3
  <1>5. /\ waited' \in [Client -> Nat] /\ stage' \in [Client -> Nat]
        /\ orphans' \in Nat /\ faults' \in Nat
    BY Parts
  <1> QED  BY <1>1, <1>2, <1>4, <1>5 DEF TypeOK, Results

LEMMA TickType ==
    ASSUME TypeOK, Tick
    PROVE  TypeOK'
  <1>1. waited' \in [Client -> Nat]
    BY Parts DEF Tick
  <1>2. stage' \in [Client -> Nat]
    BY Parts DEF Tick
  <1> QED  BY <1>1, <1>2 DEF TypeOK, Tick, history

LEMMA OtherType ==
    ASSUME TypeOK,
           \/ \E c \in Client : Wake(c)
           \/ Hang \/ Restart \/ WarmedUp \/ UNCHANGED vars
    PROVE  TypeOK'
  <1>1. ASSUME NEW c \in Client, Wake(c) PROVE TypeOK'
    BY <1>1 DEF Wake, TypeOK, Steps, clocks, history
  <1>2. CASE Hang
    <2>1. hit' \subseteq Client /\ faults' \in Nat
      BY <1>2, Parts DEF Hang, Waiting
    <2> QED  BY <1>2, <2>1 DEF Hang, TypeOK, clocks
  <1>3. CASE Restart \/ WarmedUp \/ UNCHANGED vars
    BY <1>3 DEF Restart, WarmedUp, vars, TypeOK, clocks, history
  <1> QED  BY <1>1, <1>2, <1>3

LEMMA NextType ==
    ASSUME TypeOK, [Next]_vars
    PROVE  TypeOK'
  BY CallType, SendType, TimeoutType, ReceiveType, ServiceStepType, DieType,
     TickType, OtherType
     DEF Next, ServiceStep

\* Every variable keeps its type.
THEOREM TypeCorrect == Spec => []TypeOK
  BY InitType, NextType, PTL DEF Spec

-----------------------------------------------------------------------------
(* NoSpuriousTimeout.                                                      *)

Core == ServiceInv /\ BudgetInv /\ NoSpuriousTimeout

\* A step of client c alone keeps Core if c's own part of it holds after.
LEMMA OneClient ==
    ASSUME TypeOK, Core, NEW c \in Client,
           \A d \in Client \ {c} :
              /\ step'[d] = step[d] /\ waited'[d] = waited[d]
              /\ stage'[d] = stage[d] /\ outcome'[d] = outcome[d]
              /\ d \in hit' <=> d \in hit,
           hit' \subseteq Client, service' = service,
           step'[c] \in InFlight =>
              service # "down" /\ (c \in hit' <=> service = "hung"),
           step'[c] \in {"send", "backoff"} => c \notin hit',
           c \notin hit' => Budget(c)',
           outcome'[c].class = "TimeoutError" => c \in hit',
           orphans' > 0 => service = "hung"
    PROVE  Core'
  <1>1. /\ Waiting \subseteq Client /\ Waiting' \subseteq Client
        /\ \A d \in Client \ {c} : d \in Waiting' <=> d \in Waiting
        /\ c \in Waiting' <=> step'[c] \in InFlight
    BY DEF Waiting
  <1>2. ServiceInv'
    BY <1>1 DEF Core, ServiceInv
  <1>3. \A d \in Client \ {c} : Budget(d)' <=> Budget(d)
    BY DEF Budget
  <1>4. BudgetInv'
    BY <1>3 DEF Core, BudgetInv
  <1>5. NoSpuriousTimeout'
    BY DEF Core, NoSpuriousTimeout
  <1> QED  BY <1>2, <1>4, <1>5 DEF Core

\* What End and Enter do to c and leave to the others.
LEMMA EndEffect ==
    ASSUME TypeOK, NEW c \in Client, NEW result, End(c, result)
    PROVE  /\ step'[c] = "idle" /\ outcome'[c] = result
           /\ \A d \in Client \ {c} :
                 /\ step'[d] = step[d] /\ waited'[d] = waited[d]
                 /\ stage'[d] = stage[d] /\ outcome'[d] = outcome[d]
           /\ Budget(c)'
  BY Parts DEF End, Budget

LEMMA EnterEffect ==
    ASSUME TypeOK, NEW c \in Client, NEW next, Enter(c, next)
    PROVE  /\ step'[c] = next /\ stage'[c] = 0
           /\ \A d \in Client \ {c} : step'[d] = step[d] /\ stage'[d] = stage[d]
  BY Parts DEF Enter

LEMMA InitCore == Init => Core
  <1> SUFFICES ASSUME Init PROVE Core
    OBVIOUS
  <1>1. /\ Waiting = {} /\ hit = {}
        /\ \A c \in Client : outcome[c].class = ""
    BY DEF Init, Waiting, InFlight, NoOutcome, Outcome
  <1>2. BudgetInv
    BY DEF Init, BudgetInv, Budget
  <1>3. service = "ready" /\ orphans = 0
    BY DEF Init
  <1>4. ServiceInv
    BY <1>1, <1>3 DEF ServiceInv
  <1>5. \A c \in Client : outcome[c].class # "TimeoutError"
    BY <1>1
  <1>6. ~(orphans > 0)
    BY <1>3
  <1> QED  BY <1>2, <1>4, <1>5, <1>6 DEF Core, NoSpuriousTimeout

LEMMA CallCore ==
    ASSUME TypeOK, Core, NEW c \in Client, NEW method \in Methods, Call(c, method)
    PROVE  Core'
  <1>1. /\ step'[c] = "send" /\ outcome'[c].class = "" /\ c \notin hit'
        /\ \A d \in Client \ {c} :
              /\ step'[d] = step[d] /\ waited'[d] = waited[d]
              /\ stage'[d] = stage[d] /\ outcome'[d] = outcome[d]
              /\ d \in hit' <=> d \in hit
    BY Parts DEF Call, clocks, NoOutcome, Outcome
  <1>2. Budget(c)'
    BY <1>1 DEF Budget
  <1>3. /\ hit' \subseteq Client /\ UNCHANGED <<service, orphans>>
        /\ orphans > 0 => service = "hung"
    BY Parts DEF Call, Core, NoSpuriousTimeout
  <1>4. "send" \notin InFlight
    BY DEF InFlight
  <1> QED  BY <1>1, <1>2, <1>3, <1>4, OneClient

LEMMA SendCore ==
    ASSUME TypeOK, Core, NEW c \in Client, Send(c)
    PROVE  Core'
  <1>1. /\ UNCHANGED <<service, orphans>> /\ hit' \subseteq Client
        /\ orphans > 0 => service = "hung"
        /\ c \notin hit
        /\ \A d \in Client \ {c} : d \in hit' <=> d \in hit
    BY Parts DEF Send, Core, NoSpuriousTimeout, ServiceInv
  <1>2. CASE service = "down"
    <2>1. End(c, Outcome("Unavailable", "none")) /\ UNCHANGED hit
      BY <1>2 DEF Send
    <2>2. /\ step'[c] = "idle" /\ outcome'[c].class = "Unavailable" /\ Budget(c)'
          /\ \A d \in Client \ {c} :
                /\ step'[d] = step[d] /\ waited'[d] = waited[d]
                /\ stage'[d] = stage[d] /\ outcome'[d] = outcome[d]
      BY <2>1, EndEffect DEF Outcome
    <2> QED  BY <1>1, <2>1, <2>2, OneClient DEF InFlight
  <1>3. CASE service # "down"
    <2>1. /\ Enter(c, "queued") /\ UNCHANGED outcome
          /\ waited' = [waited EXCEPT ![c] = 0]
          /\ c \in hit' <=> service = "hung"
      BY <1>1, <1>3 DEF Send
    <2>2. waited'[c] = 0 /\ \A d \in Client \ {c} : waited'[d] = waited[d]
      BY <2>1, Parts
    <2>3. Budget(c)'
      BY <2>1, <2>2, EnterEffect, ServiceAssumption DEF Budget
    <2>4. outcome'[c].class # "TimeoutError"
      BY <1>1, <2>1 DEF Core, NoSpuriousTimeout
    <2> QED  BY <1>1, <1>3, <2>1, <2>2, <2>3, <2>4, EnterEffect, OneClient DEF InFlight
  <1> QED  BY <1>2, <1>3

\* Only a client hit by a hang can time out.
LEMMA TimeoutCore ==
    ASSUME TypeOK, Core, NEW c \in Client, Timeout(c)
    PROVE  Core'
  <1>1. /\ c \in Waiting /\ waited[c] >= ClientTimeout
        /\ End(c, Outcome("TimeoutError", "none"))
        /\ UNCHANGED <<service, hit>>
    BY DEF Timeout, history
  <1>2. c \in hit
    <2> SUFFICES ASSUME c \notin hit PROVE FALSE
      OBVIOUS
    <2>1. waited[c] \in Nat /\ stage[c] \in Nat
      BY Parts
    <2>2. Budget(c) /\ step[c] \in InFlight
      BY <1>1 DEF Core, BudgetInv, Waiting
    <2>3. CASE step[c] = "queued"
      BY <1>1, <2>1, <2>2, <2>3, ServiceAssumption, ClientTimeoutAssumption DEF Budget
    <2>4. CASE step[c] = "rendering"
      BY <1>1, <2>1, <2>2, <2>4, ServiceAssumption, ClientTimeoutAssumption DEF Budget
    <2>5. CASE step[c] = "replying"
      BY <1>1, <2>1, <2>2, <2>5, ServiceAssumption, ClientTimeoutAssumption DEF Budget
    <2> QED  BY <2>2, <2>3, <2>4, <2>5 DEF InFlight
  <1>3. service = "hung"
    BY <1>1, <1>2 DEF Core, ServiceInv
  <1> QED  BY <1>1, <1>2, <1>3, EndEffect, OneClient, Parts DEF InFlight

\* A response arrives only while the service is not hung.
LEMMA ReceiveCore ==
    ASSUME TypeOK, Core, NEW c \in Client, Receive(c)
    PROVE  Core'
  <1>1. /\ c \in Waiting /\ service # "hung" /\ reply[c] \in Replies
        /\ UNCHANGED <<service, orphans, hit>>
    BY Parts DEF Receive, Waiting, InFlight
  <1>2. c \notin hit /\ hit' \subseteq Client /\ (orphans > 0 => service = "hung")
    BY <1>1, Parts DEF Core, ServiceInv, NoSpuriousTimeout
  <1>3. ASSUME NEW result, End(c, result), result.class # "TimeoutError"
        PROVE  Core'
    <2>1. /\ step'[c] = "idle" /\ outcome'[c] = result /\ Budget(c)'
          /\ \A d \in Client \ {c} :
                /\ step'[d] = step[d] /\ waited'[d] = waited[d]
                /\ stage'[d] = stage[d] /\ outcome'[d] = outcome[d]
      BY <1>3, EndEffect
    <2> QED  BY <1>1, <1>2, <1>3, <2>1, OneClient DEF InFlight
  <1>4. CASE Pause(c)
    <2>1. /\ Enter(c, "backoff") /\ UNCHANGED outcome
          /\ waited' = [waited EXCEPT ![c] = 0]
      BY <1>4 DEF Pause
    <2>2. /\ step'[c] = "backoff"
          /\ \A d \in Client \ {c} :
                /\ step'[d] = step[d] /\ waited'[d] = waited[d]
                /\ stage'[d] = stage[d] /\ outcome'[d] = outcome[d]
      BY <2>1, EnterEffect, Parts
    <2>3. Budget(c)'
      BY <2>2 DEF Budget
    <2>4. outcome'[c].class # "TimeoutError"
      BY <1>2, <2>1 DEF Core, NoSpuriousTimeout
    <2>5. "backoff" \notin InFlight
      BY DEF InFlight
    <2> QED  BY <1>1, <1>2, <2>2, <2>3, <2>4, <2>5, OneClient
  <1>5. CASE End(c, ParseHealth(reply[c])) \/ End(c, Parse(op[c], reply[c]))
    BY <1>1, <1>3, <1>5, ParseType
  <1>6. CASE End(c, Outcome("PoolTimeout", Dropped(reply[c])))
    BY <1>3, <1>6 DEF Outcome
  <1> QED  BY <1>4, <1>5, <1>6 DEF Receive

LEMMA WakeCore ==
    ASSUME TypeOK, Core, NEW c \in Client, Wake(c)
    PROVE  Core'
  <1>1. /\ step[c] = "backoff" /\ step'[c] = "send"
        /\ \A d \in Client \ {c} : step'[d] = step[d]
        /\ UNCHANGED <<waited, stage, outcome, hit, service, orphans>>
    BY Parts DEF Wake, clocks, history
  <1>2. c \notin hit /\ hit' \subseteq Client
        /\ (orphans > 0 => service = "hung") /\ outcome'[c].class # "TimeoutError"
    BY <1>1, Parts DEF Core, ServiceInv, NoSpuriousTimeout
  <1>3. Budget(c)'
    BY <1>1 DEF Budget
  <1>4. "send" \notin InFlight
    BY DEF InFlight
  <1> QED  BY <1>1, <1>2, <1>3, <1>4, OneClient

\* Each step of the exchange keeps to its limit, so the time waited stays
\* within the limits of the steps behind it.
LEMMA ServiceStepCore ==
    ASSUME TypeOK, Core, NEW c \in Client, ServiceStep(c)
    PROVE  Core'
  <1>1. /\ c \in Waiting /\ service # "hung" /\ service # "down"
        /\ UNCHANGED <<outcome, waited, service, hit, orphans>>
    <2>1. /\ step[c] \in {"queued", "rendering"}
          /\ service \in {"ready", "warming"}
          /\ UNCHANGED <<outcome, waited, service, hit, orphans>>
      BY DEF ServiceStep, AnswerAtOnce, StartRender, QueueTimesOut, FinishRender,
             Unchanged_service
    <2> QED  BY <2>1, Parts DEF Core, ServiceInv, Waiting, InFlight
  <1>2. /\ c \notin hit /\ hit' \subseteq Client
        /\ (orphans > 0 => service = "hung") /\ outcome'[c].class # "TimeoutError"
        /\ Budget(c)
    BY <1>1, Parts DEF Core, ServiceInv, NoSpuriousTimeout, BudgetInv
  <1>3. waited[c] \in Nat /\ stage[c] \in Nat
    BY Parts
  <1>4. ASSUME NEW next \in {"rendering", "replying"}, Enter(c, next), Budget(c)'
        PROVE  Core'
    <2>1. /\ step'[c] \in InFlight
          /\ \A d \in Client \ {c} :
                step'[d] = step[d] /\ stage'[d] = stage[d]
      BY <1>4, EnterEffect DEF InFlight
    <2>2. step'[c] \notin {"send", "backoff"}
      BY <2>1 DEF InFlight
    <2> QED  BY <1>1, <1>2, <1>4, <2>1, <2>2, OneClient
  <1>5. CASE StartRender(c)
    <2>1. step[c] = "queued" /\ Enter(c, "rendering")
      BY <1>5 DEF StartRender
    <2>2. step'[c] = "rendering" /\ stage'[c] = 0 /\ waited'[c] = waited[c]
      BY <1>1, <2>1, EnterEffect
    <2>3. Budget(c)'
      BY <1>2, <1>3, <2>1, <2>2, ServiceAssumption DEF Budget
    <2> QED  BY <1>4, <2>1, <2>3
  <1>6. CASE AnswerAtOnce(c) \/ QueueTimesOut(c) \/ FinishRender(c)
    <2>1. step[c] \in {"queued", "rendering"} /\ Enter(c, "replying")
      BY <1>6 DEF AnswerAtOnce, QueueTimesOut, FinishRender, Answer
    <2>2. step'[c] = "replying" /\ stage'[c] = 0 /\ waited'[c] = waited[c]
      BY <1>1, <2>1, EnterEffect
    <2>3. waited[c] <= QueueTimeout + MaxRender
      BY <1>2, <1>3, <2>1, ServiceAssumption DEF Budget
    <2>4. Budget(c)'
      BY <1>3, <2>2, <2>3, ServiceAssumption DEF Budget
    <2> QED  BY <1>4, <2>1, <2>4
  <1> QED  BY <1>5, <1>6 DEF ServiceStep

LEMMA HangCore ==
    ASSUME TypeOK, Core, Hang
    PROVE  Core'
  <1>1. /\ service' = "hung" /\ hit' = hit \union Waiting
        /\ UNCHANGED <<step, outcome, waited, stage, orphans>>
    BY DEF Hang, clocks
  <1>2. Waiting' = Waiting /\ Waiting \subseteq Client
    BY <1>1 DEF Waiting
  <1>3. ServiceInv'
    <2>1. \A c \in Waiting : step[c] \notin {"send", "backoff"}
      BY DEF Waiting, InFlight
    <2> QED  BY <1>1, <1>2, <2>1 DEF Core, ServiceInv
  <1>4. \A c \in Client : Budget(c)' <=> Budget(c)
    BY <1>1 DEF Budget
  <1>5. BudgetInv'
    BY <1>1, <1>4 DEF Core, BudgetInv
  <1>6. NoSpuriousTimeout'
    BY <1>1 DEF Core, NoSpuriousTimeout
  <1> QED  BY <1>3, <1>5, <1>6 DEF Core

LEMMA DieCore ==
    ASSUME TypeOK, Core, Die
    PROVE  Core'
  <1>1. /\ service' = "down" /\ hit' = hit /\ orphans' = 0
        /\ \A c \in Client :
              /\ step'[c] = IF c \in Waiting THEN "idle" ELSE step[c]
              /\ outcome'[c] = IF c \in Waiting THEN Outcome("unwrapped", "none")
                                                ELSE outcome[c]
    BY DEF Die
  <1>2. \A c \in Client : step'[c] \notin InFlight
    BY <1>1 DEF Waiting, InFlight
  <1>3. Waiting' = {}
    BY <1>2 DEF Waiting
  <1>4. ServiceInv'
    BY <1>1, <1>3, Parts DEF Core, ServiceInv
  <1>5. BudgetInv'
    BY <1>2 DEF BudgetInv, Budget, InFlight
  <1>6. NoSpuriousTimeout'
    BY <1>1 DEF Core, NoSpuriousTimeout, Outcome
  <1> QED  BY <1>4, <1>5, <1>6 DEF Core

LEMMA RestartCore ==
    ASSUME TypeOK, Core, Restart \/ WarmedUp
    PROVE  Core'
  <1>1. /\ service \in {"down", "warming"} /\ service' \in {"warming", "ready"}
        /\ UNCHANGED <<step, outcome, waited, stage, orphans, hit>>
    BY DEF Restart, WarmedUp, clocks, history
  <1>2. Waiting' = Waiting
    BY <1>1 DEF Waiting
  <1>3. ServiceInv'
    BY <1>1, <1>2 DEF Core, ServiceInv
  <1>4. \A c \in Client : Budget(c)' <=> Budget(c)
    BY <1>1 DEF Budget
  <1>5. BudgetInv' /\ NoSpuriousTimeout'
    BY <1>1, <1>4 DEF Core, BudgetInv, NoSpuriousTimeout
  <1> QED  BY <1>3, <1>5 DEF Core

\* Time passes for a working service only within its limits.
LEMMA TickCore ==
    ASSUME TypeOK, Core, Tick
    PROVE  Core'
  <1>1. /\ UNCHANGED <<step, outcome, service, orphans, hit>>
        /\ \A c \in Waiting : service = "hung" \/ ServiceOnTime(c)
    BY DEF Tick, history
  <1>2. Waiting' = Waiting
    BY <1>1 DEF Waiting
  <1>3. ServiceInv' /\ NoSpuriousTimeout'
    BY <1>1, <1>2 DEF Core, ServiceInv, NoSpuriousTimeout
  <1>4. ASSUME NEW c \in Client \ hit PROVE Budget(c)'
    <2>1. Budget(c) /\ waited[c] \in Nat /\ stage[c] \in Nat
      BY Parts DEF Core, BudgetInv
    <2>2. CASE c \in Waiting
      <3>1. ServiceOnTime(c)
        BY <1>1, <2>2 DEF Core, ServiceInv
      <3>2. waited'[c] = waited[c] + 1 /\ stage'[c] = stage[c] + 1
        BY <2>2 DEF Tick
      <3>3. step'[c] = step[c] /\ step[c] \in InFlight
        BY <1>1, <2>2 DEF Waiting
      <3>4. CASE step[c] = "queued"
        BY <2>1, <3>1, <3>2, <3>3, <3>4, ServiceAssumption DEF Budget, ServiceOnTime
      <3>5. CASE step[c] = "rendering"
        BY <2>1, <3>1, <3>2, <3>3, <3>5, ServiceAssumption DEF Budget, ServiceOnTime
      <3>6. CASE step[c] = "replying"
        BY <2>1, <3>1, <3>2, <3>3, <3>6, ServiceAssumption DEF Budget, ServiceOnTime
      <3> QED  BY <3>3, <3>4, <3>5, <3>6 DEF InFlight
    <2>3. CASE c \notin Waiting
      BY <1>1, <2>3 DEF Waiting, InFlight, Budget
    <2> QED  BY <2>2, <2>3
  <1>5. BudgetInv'
    BY <1>1, <1>4 DEF BudgetInv
  <1> QED  BY <1>3, <1>5 DEF Core

LEMMA NextCore ==
    ASSUME TypeOK, Core, [Next]_vars
    PROVE  Core'
  <1>1. CASE UNCHANGED vars
    <2>1. UNCHANGED <<step, outcome, waited, stage, service, orphans, hit>>
      BY <1>1 DEF vars, clocks, history
    <2> QED  BY <2>1 DEF Core, ServiceInv, BudgetInv, Budget, NoSpuriousTimeout, Waiting
  <1>2. CASE Next
    BY <1>2, CallCore, SendCore, TimeoutCore, ReceiveCore, WakeCore, ServiceStepCore,
       HangCore, DieCore, RestartCore, TickCore DEF Next, ServiceStep
  <1> QED  BY <1>1, <1>2

\* With a client timeout above the service's queue and render limits, for any
\* number of clients and browsers: no call times out unless the service hung
\* while it waited, and no browser renders for a client that has gone.
THEOREM TimeoutsAreHangs == Spec => []NoSpuriousTimeout
  <1>1. Init => TypeOK /\ Core
    BY InitType, InitCore
  <1>2. TypeOK /\ Core /\ [Next]_vars => (TypeOK /\ Core)'
    BY NextType, NextCore
  <1>3. TypeOK /\ Core => NoSpuriousTimeout
    BY DEF Core
  <1> QED  BY <1>1, <1>2, <1>3, PTL DEF Spec

-----------------------------------------------------------------------------
(* RendersOnce and RetriesOnlyRefusals.                                    *)

LEMMA AttemptsType == Attempts \in Nat /\ 0 < Attempts
  BY AttemptsAssumption

LEMMA NoOutcomeClass == NoOutcome.class # "PoolTimeout"
  BY DEF NoOutcome, Outcome

LEMMA ParseClass ==
    ASSUME NEW method, NEW r
    PROVE  Parse(method, r).class # "PoolTimeout" /\ ParseHealth(r).class # "PoolTimeout"
  <1>1. ErrorClass(r.status) # "PoolTimeout"
    BY DEF ErrorClass
  <1> QED  BY <1>1 DEF Parse, ParseHealth, Outcome

\* What Retry reads of a client.
Same(d) ==
    /\ step'[d] = step[d] /\ attempt'[d] = attempt[d] /\ reply'[d] = reply[d]
    /\ outcome'[d] = outcome[d] /\ refused'[d] = refused[d] /\ renders'[d] = renders[d]

LEMMA RetrySame == ASSUME NEW d, Retry(d), Same(d) PROVE Retry(d)'
  BY DEF Retry, Same

LEMMA RetryOne ==
    ASSUME RetryInv, NEW c \in Client, \A d \in Client \ {c} : Same(d), Retry(c)'
    PROVE  RetryInv'
  BY RetrySame DEF RetryInv

\* An exchange that ends otherwise than refused for the last time.
LEMMA EndRetry ==
    ASSUME TypeOK, RetryInv, NEW c \in Client, step[c] \in InFlight,
           NEW result, result.class # "PoolTimeout", End(c, result),
           UNCHANGED <<attempt, refused, renders>>
    PROVE  RetryInv'
  <1>1. /\ step'[c] = "idle" /\ outcome'[c] = result
        /\ \A d \in Client \ {c} : step'[d] = step[d] /\ outcome'[d] = outcome[d]
    BY EndEffect
  <1>2. \A d \in Client \ {c} : reply'[d] = reply[d]
    BY Parts DEF End
  <1>3. \A d \in Client \ {c} : Same(d)
    BY <1>1, <1>2 DEF Same
  <1>4. attempt[c] = refused[c] + 1 /\ refused[c] < Attempts /\ renders[c] <= 1
    BY DEF RetryInv, Retry
  <1>5. refused[c] \in Nat /\ attempt[c] \in Nat
    BY Parts
  <1>6. attempt[c] <= refused[c] + 1 /\ attempt[c] <= Attempts /\ refused[c] # Attempts
    BY <1>4, <1>5, AttemptsType
  <1>7. Retry(c)'
    BY <1>1, <1>4, <1>6 DEF Retry, InFlight
  <1> QED  BY <1>3, <1>7, RetryOne

LEMMA CallRetry ==
    ASSUME TypeOK, RetryInv, NEW c \in Client, NEW method, Call(c, method)
    PROVE  RetryInv'
  <1>1. /\ step'[c] = "send" /\ attempt'[c] = 0 /\ refused'[c] = 0 /\ renders'[c] = 0
        /\ outcome'[c] = NoOutcome
    BY Parts DEF Call
  <1>2. \A d \in Client \ {c} : Same(d)
    BY Parts DEF Call, Same
  <1>3. Retry(c)'
    BY <1>1, NoOutcomeClass, AttemptsType DEF Retry, InFlight
  <1> QED  BY <1>2, <1>3, RetryOne

LEMMA SendRetry ==
    ASSUME TypeOK, RetryInv, NEW c \in Client, Send(c)
    PROVE  RetryInv'
  <1>1. /\ step[c] = "send" /\ attempt' = [attempt EXCEPT ![c] = @ + 1]
        /\ UNCHANGED <<refused, renders>>
    BY DEF Send
  <1>2. /\ attempt[c] = refused[c] /\ refused[c] < Attempts /\ renders[c] = 0
        /\ outcome[c].class # "PoolTimeout"
    BY <1>1 DEF RetryInv, Retry
  <1>3. refused[c] \in Nat /\ attempt[c] \in Nat
    BY Parts
  <1>4. attempt'[c] = refused[c] + 1 /\ \A d \in Client \ {c} : attempt'[d] = attempt[d]
    BY <1>1, <1>2, Parts
  <1>5. refused[c] + 1 <= Attempts /\ refused[c] # Attempts
    BY <1>2, <1>3, AttemptsType
  <1>6. CASE service = "down"
    <2>1. End(c, Outcome("Unavailable", "none"))
      BY <1>6 DEF Send
    <2>2. /\ step'[c] = "idle" /\ outcome'[c] = Outcome("Unavailable", "none")
          /\ \A d \in Client \ {c} : step'[d] = step[d] /\ outcome'[d] = outcome[d]
      BY <2>1, EndEffect
    <2>3. \A d \in Client \ {c} : reply'[d] = reply[d]
      BY <2>1, Parts DEF End
    <2>4. \A d \in Client \ {c} : Same(d)
      BY <1>1, <1>4, <2>2, <2>3 DEF Same
    <2>5. outcome'[c].class # "PoolTimeout"
      BY <2>2 DEF Outcome
    <2>6. renders'[c] <= 1 /\ refused'[c] = refused[c]
      BY <1>1, <1>2
    <2>7. Retry(c)'
      BY <1>3, <1>4, <1>5, <2>2, <2>5, <2>6 DEF Retry, InFlight
    <2> QED  BY <2>4, <2>7, RetryOne
  <1>7. CASE service # "down"
    <2>1. Enter(c, "queued") /\ UNCHANGED <<reply, outcome>>
      BY <1>7 DEF Send
    <2>2. step'[c] = "queued" /\ \A d \in Client \ {c} : step'[d] = step[d]
      BY <2>1, EnterEffect
    <2>3. \A d \in Client \ {c} : Same(d)
      BY <1>1, <1>4, <2>1, <2>2 DEF Same
    <2>4. renders'[c] = 0 /\ refused'[c] = refused[c] /\ outcome'[c].class # "PoolTimeout"
      BY <1>1, <1>2, <2>1
    <2>5. Retry(c)'
      BY <1>2, <1>4, <2>2, <2>4 DEF Retry
    <2> QED  BY <2>3, <2>5, RetryOne
  <1> QED  BY <1>6, <1>7

\* Only a refusal leads to another POST, and only the last one to PoolTimeout.
LEMMA ReceiveRetry ==
    ASSUME TypeOK, RetryInv, NEW c \in Client, Receive(c)
    PROVE  RetryInv'
  <1>1. /\ step[c] = "replying" /\ step[c] \in InFlight /\ UNCHANGED <<attempt, renders>>
    BY DEF Receive, InFlight
  <1>2. CASE op[c] = "health" \/ reply[c].status # 429
    <2>1. UNCHANGED refused /\ (End(c, ParseHealth(reply[c])) \/ End(c, Parse(op[c], reply[c])))
      BY <1>2 DEF Receive
    <2> QED  BY <1>1, <2>1, ParseClass, EndRetry
  <1>3. CASE op[c] # "health" /\ reply[c].status = 429
    <2>1. /\ refused' = [refused EXCEPT ![c] = @ + 1]
          /\ IF attempt[c] < Attempts THEN Pause(c)
             ELSE End(c, Outcome("PoolTimeout", Dropped(reply[c])))
      BY <1>3 DEF Receive
    <2>2. /\ attempt[c] = refused[c] + 1 /\ refused[c] < Attempts /\ renders[c] = 0
          /\ outcome[c].class # "PoolTimeout"
      BY <1>1, <1>3 DEF RetryInv, Retry
    <2>3. refused[c] \in Nat /\ attempt[c] \in Nat
      BY Parts
    <2>4. refused'[c] = attempt[c] /\ \A d \in Client \ {c} : refused'[d] = refused[d]
      BY <2>1, <2>2, Parts
    <2>5. renders'[c] = 0 /\ attempt'[c] = attempt[c]
      BY <1>1, <2>2
    <2>6. CASE attempt[c] < Attempts
      <3>1. /\ Enter(c, "backoff") /\ UNCHANGED outcome
            /\ reply' = [reply EXCEPT ![c] = NoReply]
        BY <2>1, <2>6 DEF Pause
      <3>2. step'[c] = "backoff" /\ \A d \in Client \ {c} : step'[d] = step[d]
        BY <3>1, EnterEffect
      <3>3. \A d \in Client \ {c} : reply'[d] = reply[d]
        BY <3>1
      <3>4. \A d \in Client \ {c} : Same(d)
        BY <1>1, <2>4, <3>1, <3>2, <3>3 DEF Same
      <3>5. Retry(c)'
        BY <2>2, <2>4, <2>5, <2>6, <3>1, <3>2 DEF Retry, InFlight
      <3> QED  BY <3>4, <3>5, RetryOne
    <2>7. CASE ~(attempt[c] < Attempts)
      <3>1. End(c, Outcome("PoolTimeout", Dropped(reply[c])))
        BY <2>1, <2>7
      <3>2. /\ step'[c] = "idle" /\ outcome'[c] = Outcome("PoolTimeout", Dropped(reply[c]))
            /\ \A d \in Client \ {c} : step'[d] = step[d] /\ outcome'[d] = outcome[d]
        BY <3>1, EndEffect
      <3>3. \A d \in Client \ {c} : reply'[d] = reply[d]
        BY <3>1, Parts DEF End
      <3>4. \A d \in Client \ {c} : Same(d)
        BY <1>1, <2>4, <3>2, <3>3 DEF Same
      <3>5. attempt[c] = Attempts
        BY <2>2, <2>3, <2>7, AttemptsType
      <3>6. outcome'[c].class = "PoolTimeout"
        BY <3>2 DEF Outcome
      <3>7. attempt'[c] <= refused'[c] + 1 /\ attempt'[c] <= Attempts /\ renders'[c] <= 1
        BY <2>3, <2>4, <2>5, <3>5
      <3>8. Retry(c)'
        BY <2>4, <3>2, <3>5, <3>6, <3>7 DEF Retry, InFlight
      <3> QED  BY <3>4, <3>8, RetryOne
    <2> QED  BY <2>6, <2>7
  <1> QED  BY <1>2, <1>3

\* An answer of the service; a 429 is one to a request that was not rendered.
LEMMA AnswerRetry ==
    ASSUME TypeOK, RetryInv, NEW c \in Client, step[c] \in {"queued", "rendering"},
           NEW status, NEW body, Answer(c, status, body),
           status = 429 => step[c] = "queued",
           UNCHANGED <<attempt, outcome, refused, renders>>
    PROVE  RetryInv'
  <1>1. Enter(c, "replying") /\ reply' = [reply EXCEPT ![c] = [status |-> status, body |-> body]]
    BY DEF Answer
  <1>2. step'[c] = "replying" /\ \A d \in Client \ {c} : step'[d] = step[d]
    BY <1>1, EnterEffect
  <1>3. reply'[c].status = status /\ \A d \in Client \ {c} : reply'[d] = reply[d]
    BY <1>1, Parts
  <1>4. \A d \in Client \ {c} : Same(d)
    BY <1>2, <1>3 DEF Same
  <1>5. /\ attempt[c] = refused[c] + 1 /\ refused[c] < Attempts /\ renders[c] <= 1
        /\ step[c] = "queued" => renders[c] = 0
        /\ outcome[c].class # "PoolTimeout"
    BY DEF RetryInv, Retry, InFlight
  <1>6. Retry(c)'
    BY <1>2, <1>3, <1>5 DEF Retry
  <1> QED  BY <1>4, <1>6, RetryOne

LEMMA ServiceRetry ==
    ASSUME TypeOK, RetryInv, NEW c \in Client, ServiceStep(c)
    PROVE  RetryInv'
  <1>1. UNCHANGED <<attempt, outcome, refused>>
    BY DEF ServiceStep, AnswerAtOnce, StartRender, QueueTimesOut, FinishRender,
           Unchanged_service
  <1>2. CASE AnswerAtOnce(c)
    <2>1. /\ step[c] = "queued" /\ UNCHANGED renders
          /\ \E status \in {200, 400, 401, 403, 503}, body \in Bodies \union {"full"} :
                Answer(c, status, body)
      BY <1>2 DEF AnswerAtOnce
    <2> QED  BY <1>1, <2>1, AnswerRetry
  <1>3. CASE QueueTimesOut(c)
    <2>1. step[c] = "queued" /\ UNCHANGED renders /\ Answer(c, 429, "full")
      BY <1>3 DEF QueueTimesOut
    <2> QED  BY <1>1, <2>1, AnswerRetry
  <1>4. CASE FinishRender(c)
    <2>1. /\ step[c] = "rendering" /\ UNCHANGED renders
          /\ \E status \in {200, 500, 502, 504}, body \in Bodies : Answer(c, status, body)
      BY <1>4 DEF FinishRender
    <2> QED  BY <1>1, <2>1, AnswerRetry
  <1>5. CASE StartRender(c)
    <2>1. /\ step[c] = "queued" /\ Enter(c, "rendering") /\ UNCHANGED reply
          /\ renders' = [renders EXCEPT ![c] = @ + 1]
      BY <1>5 DEF StartRender
    <2>2. step'[c] = "rendering" /\ \A d \in Client \ {c} : step'[d] = step[d]
      BY <2>1, EnterEffect
    <2>3. /\ attempt[c] = refused[c] + 1 /\ refused[c] < Attempts /\ renders[c] = 0
          /\ outcome[c].class # "PoolTimeout"
      BY <2>1 DEF RetryInv, Retry, InFlight
    <2>4. renders'[c] = 1 /\ \A d \in Client \ {c} : renders'[d] = renders[d]
      BY <2>1, <2>3, Parts
    <2>5. \A d \in Client \ {c} : Same(d)
      BY <1>1, <2>1, <2>2, <2>4 DEF Same
    <2>6. Retry(c)'
      BY <1>1, <2>2, <2>3, <2>4 DEF Retry
    <2> QED  BY <2>5, <2>6, RetryOne
  <1> QED  BY <1>2, <1>3, <1>4, <1>5 DEF ServiceStep

\* A reset connection ends a call without a refusal.
LEMMA DieRetry ==
    ASSUME TypeOK, RetryInv, Die
    PROVE  RetryInv'
  <1>1. UNCHANGED <<attempt, refused, renders>>
    BY DEF Die
  <1>2. ASSUME NEW c \in Client PROVE Retry(c)'
    <2>1. /\ step'[c] = IF step[c] \in InFlight THEN "idle" ELSE step[c]
          /\ outcome'[c] = IF step[c] \in InFlight THEN Outcome("unwrapped", "none")
                                                    ELSE outcome[c]
          /\ reply'[c] = NoReply
      BY DEF Die, Waiting
    <2>2. Retry(c)
      BY DEF RetryInv
    <2>3. attempt[c] \in Nat /\ refused[c] \in Nat
      BY Parts
    <2>4. CASE step[c] \in InFlight
      <3>1. attempt[c] = refused[c] + 1 /\ refused[c] < Attempts /\ renders[c] <= 1
        BY <2>2, <2>4 DEF Retry
      <3>2. attempt[c] <= refused[c] + 1 /\ attempt[c] <= Attempts /\ refused[c] # Attempts
        BY <2>3, <3>1, AttemptsType
      <3>3. step'[c] = "idle" /\ outcome'[c].class # "PoolTimeout"
        BY <2>1, <2>4 DEF Outcome
      <3> QED  BY <1>1, <3>1, <3>2, <3>3 DEF Retry, InFlight
    <2>5. CASE step[c] \notin InFlight
      <3>1. /\ step'[c] = step[c] /\ outcome'[c] = outcome[c]
            /\ step[c] # "queued" /\ step[c] # "replying"
        BY <2>1, <2>5 DEF InFlight
      <3> QED  BY <1>1, <2>2, <3>1 DEF Retry
    <2> QED  BY <2>4, <2>5
  <1> QED  BY <1>2 DEF RetryInv

LEMMA NextRetry ==
    ASSUME TypeOK, RetryInv, [Next]_vars
    PROVE  RetryInv'
  <1>a. ASSUME UNCHANGED <<step, attempt, reply, outcome, refused, renders>> PROVE RetryInv'
    BY <1>a DEF RetryInv, Retry
  <1>1. ASSUME NEW c \in Client, NEW method \in Methods, Call(c, method) PROVE RetryInv'
    BY <1>1, CallRetry
  <1>2. ASSUME NEW c \in Client, Send(c) PROVE RetryInv'
    BY <1>2, SendRetry
  <1>3. ASSUME NEW c \in Client, Timeout(c) PROVE RetryInv'
    <2>1. /\ step[c] \in InFlight /\ End(c, Outcome("TimeoutError", "none"))
          /\ UNCHANGED <<attempt, refused, renders>>
      BY <1>3 DEF Timeout, Waiting, history
    <2>2. Outcome("TimeoutError", "none").class # "PoolTimeout"
      BY DEF Outcome
    <2> QED  BY <2>1, <2>2, EndRetry
  <1>4. ASSUME NEW c \in Client, Receive(c) PROVE RetryInv'
    BY <1>4, ReceiveRetry
  <1>5. ASSUME NEW c \in Client, Wake(c) PROVE RetryInv'
    <2>1. /\ step[c] = "backoff" /\ step' = [step EXCEPT ![c] = "send"]
          /\ UNCHANGED <<attempt, reply, outcome, refused, renders>>
      BY <1>5 DEF Wake, history
    <2>2. step'[c] = "send" /\ \A d \in Client \ {c} : step'[d] = step[d]
      BY <2>1, Parts
    <2>3. \A d \in Client \ {c} : Same(d)
      BY <2>1, <2>2 DEF Same
    <2>4. Retry(c)'
      BY <2>1, <2>2 DEF RetryInv, Retry, InFlight
    <2> QED  BY <2>3, <2>4, RetryOne
  <1>6. ASSUME NEW c \in Client, ServiceStep(c) PROVE RetryInv'
    BY <1>6, ServiceRetry
  <1>7. CASE Die
    BY <1>7, DieRetry
  <1>8. CASE Hang \/ Restart \/ WarmedUp \/ Tick \/ UNCHANGED vars
    BY <1>a, <1>8 DEF Hang, Restart, WarmedUp, Tick, vars, history
  <1> QED  BY <1>1, <1>2, <1>3, <1>4, <1>5, <1>6, <1>7, <1>8 DEF Next, ServiceStep

LEMMA InitRetry == Init => RetryInv
  <1> SUFFICES ASSUME Init PROVE RetryInv
    OBVIOUS
  <1>1. ASSUME NEW c \in Client PROVE Retry(c)
    <2>1. /\ step[c] = "idle" /\ attempt[c] = 0 /\ refused[c] = 0 /\ renders[c] = 0
          /\ outcome[c] = NoOutcome
      BY DEF Init
    <2> QED  BY <2>1, NoOutcomeClass, AttemptsType DEF Retry, InFlight
  <1> QED  BY <1>1 DEF RetryInv

\* What each retry knows of the attempts, refusals and renders before it.
THEOREM RetryHolds == Spec => []RetryInv
  <1> QED  BY InitType, NextType, InitRetry, NextRetry, PTL DEF Spec

\* _post_with_retry sends a request again only when it was refused before a
\* browser took it: one call renders its page at most once.
THEOREM RenderedOnce == Spec => []RendersOnce
  <1>1. ASSUME TypeOK, RetryInv PROVE RendersOnce
    <2>1. ASSUME NEW c \in Client PROVE renders[c] <= 1
      <3>1. Retry(c) /\ step[c] \in Steps
        BY <1>1, Parts DEF RetryInv
      <3> QED  BY <3>1 DEF Retry, Steps
    <2> QED  BY <2>1 DEF RendersOnce
  <1> QED  BY <1>1, TypeCorrect, RetryHolds, PTL

\* Every POST after the first answers a 429, there are at most
\* _POOL_TIMEOUT_RETRY_ATTEMPTS, and PoolTimeout means that all were refused.
THEOREM OnlyRefusalsRetried == Spec => []RetriesOnlyRefusals
  <1>1. ASSUME TypeOK, RetryInv PROVE RetriesOnlyRefusals
    <2>1. ASSUME NEW c \in Client
          PROVE  /\ attempt[c] <= refused[c] + 1 /\ attempt[c] <= Attempts
                 /\ outcome[c].class = "PoolTimeout" <=>
                       step[c] = "idle" /\ refused[c] = Attempts
      <3>1. Retry(c) /\ step[c] \in Steps /\ attempt[c] \in Nat /\ refused[c] \in Nat
        BY <1>1, Parts DEF RetryInv
      <3>2. CASE step[c] = "idle"
        BY <3>1, <3>2 DEF Retry
      <3>3. CASE step[c] # "idle"
        <4>1. outcome[c].class # "PoolTimeout" /\ refused[c] < Attempts
          BY <3>1, <3>3 DEF Retry, Steps
        <4>2. attempt[c] \in {refused[c], refused[c] + 1}
          BY <3>1, <3>3 DEF Retry, Steps
        <4>3. attempt[c] <= refused[c] + 1 /\ attempt[c] <= Attempts
          BY <3>1, <4>1, <4>2, AttemptsType
        <4> QED  BY <3>3, <4>1, <4>3
      <3> QED  BY <3>2, <3>3
    <2> QED  BY <2>1 DEF RetriesOnlyRefusals
  <1> QED  BY <1>1, TypeCorrect, RetryHolds, PTL
=============================================================================
