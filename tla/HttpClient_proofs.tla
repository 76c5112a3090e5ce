-------------------------- MODULE HttpClient_proofs --------------------------
(* Proofs about the retrying client, for any number of clients and any     *)
(* backoff, windows and skew.                                              *)
EXTENDS HttpClient, TLAPS

AnswerSet == [status : Answers, form : Forms, after : Nat]

LEMMA Parts ==
    ASSUME TypeOK
    PROVE  /\ step \in [Client -> Steps] /\ answer \in [Client -> AnswerSet]
           /\ attempt \in [Client -> Nat] /\ sleep \in [Client -> Nat]
           /\ result \in [Client -> Results]
           /\ closed \in Nat /\ told \in [Client -> Nat] /\ stray \in [Client -> Nat]
           /\ effects \in [Client -> Nat] /\ refused \in [Client -> Nat]
           /\ doubts \in [Client -> Nat]
  BY DEF TypeOK, AnswerSet

\* The wait is a number of ticks, and covers what the server asked for.
LEMMA WaitType ==
    ASSUME TypeOK, NEW c \in Client
    PROVE  Wait(c) \in Nat
  <1>1. Exponential(attempt[c]) \in Nat
    BY BackoffAssumption DEF Exponential
  <1>2. RetryAfter(c) \in Nat
    BY Parts, SkewAssumption DEF RetryAfter, AnswerSet
  <1> QED  BY <1>1, <1>2 DEF Wait

LEMMA WaitCovers ==
    ASSUME TypeOK, NEW c \in Client, Covered(c),
           step[c] = "answered", answer[c].status = "429", answer[c].form \in Readable
    PROVE  /\ answer[c].form = "seconds" => told[c] <= Wait(c)
           /\ answer[c].form = "date" => told[c] <= Wait(c) + Skew
  <1>1. told[c] \in Nat
    BY Parts
  <1>2. CASE answer[c].form = "seconds"
    BY <1>2 DEF Wait, RetryAfter, Covered
  <1>3. CASE answer[c].form = "date"
    BY <1>1, <1>3, SkewAssumption DEF Wait, RetryAfter
  <1> QED  BY <1>2, <1>3

-----------------------------------------------------------------------------
(* Types.                                                                  *)

LEMMA InitType == Init => TypeOK
  <1> SUFFICES ASSUME Init PROVE TypeOK
    OBVIOUS
  <1>1. NoAnswer \in AnswerSet
    BY DEF NoAnswer, Answer, AnswerSet, Answers, Forms
  <1>2. answer \in [Client -> AnswerSet]
    BY <1>1 DEF Init
  <1>3. step \in [Client -> Steps] /\ result \in [Client -> Results]
    BY DEF Init, Steps, Answers, Results
  <1> QED  BY <1>2, <1>3 DEF Init, TypeOK, AnswerSet

LEMMA CallType ==
    ASSUME TypeOK, NEW c \in Client, Call(c)
    PROVE  TypeOK'
  <1>1. NoAnswer \in AnswerSet
    BY DEF NoAnswer, Answer, AnswerSet, Answers, Forms
  <1>2. answer' \in [Client -> AnswerSet]
    BY <1>1, Parts DEF Call
  <1>3. step' \in [Client -> Steps] /\ result' \in [Client -> Results]
    BY Parts DEF Call, Steps, Answers, Results
  <1>4. /\ attempt' \in [Client -> Nat] /\ told' \in [Client -> Nat]
        /\ stray' \in [Client -> Nat] /\ effects' \in [Client -> Nat]
        /\ refused' \in [Client -> Nat] /\ doubts' \in [Client -> Nat]
    BY Parts DEF Call
  <1> QED  BY <1>2, <1>3, <1>4, Parts DEF Call, TypeOK, AnswerSet

LEMMA SendType ==
    ASSUME TypeOK, NEW c \in Client, Send(c)
    PROVE  TypeOK'
  <1>1. step' \in [Client -> Steps] /\ attempt' \in [Client -> Nat]
    BY Parts DEF Send, Steps
  <1> QED  BY <1>1 DEF Send, TypeOK, server, history

LEMMA DecideType ==
    ASSUME TypeOK, NEW c \in Client, Decide(c)
    PROVE  TypeOK'
  <1>1. answer[c].status \in Answers /\ Wait(c) \in Nat
    BY Parts, WaitType DEF AnswerSet
  <1>2. /\ step' \in [Client -> Steps] /\ sleep' \in [Client -> Nat]
        /\ result' \in [Client -> Results]
    BY <1>1, Parts DEF Decide, Steps, Results
  <1> QED  BY <1>2 DEF Decide, TypeOK, server, history

LEMMA WakeType ==
    ASSUME TypeOK, NEW c \in Client, Wake(c)
    PROVE  TypeOK'
  <1>1. step' \in [Client -> Steps]
    BY Parts DEF Wake, Steps
  <1> QED  BY <1>1 DEF Wake, TypeOK, server, history

\* What the four ends of an attempt have in common.
LEMMA ConcludeType ==
    ASSUME TypeOK, NEW c \in Client,
           NEW status \in Answers, NEW form \in Forms, NEW ticks \in Nat,
           Conclude(c, Answer(status, form, ticks)), Tell(c, form, ticks),
           UNCHANGED <<attempt, sleep, result>>,
           closed' \in Nat, stray' \in [Client -> Nat], effects' \in [Client -> Nat]
    PROVE  TypeOK'
  <1>1. Answer(status, form, ticks) \in AnswerSet
    BY DEF Answer, AnswerSet
  <1>2. answer' \in [Client -> AnswerSet] /\ step' \in [Client -> Steps]
    BY <1>1, Parts DEF Conclude, Steps
  <1>3. doubts' \in [Client -> Nat] /\ refused' \in [Client -> Nat]
    BY Parts DEF Conclude
  <1>4. told' \in [Client -> Nat]
    BY Parts DEF Tell
  <1> QED  BY <1>2, <1>3, <1>4 DEF TypeOK, AnswerSet

LEMMA EndsType ==
    ASSUME TypeOK, NEW c \in Client, Serve(c) \/ Refuse(c) \/ Fail(c) \/ Timeout(c) \/ Break(c)
    PROVE  TypeOK'
  <1>1. {"200", "404", "429", "500", "Timeout", "NetworkError"} \subseteq Answers
        /\ "none" \in Forms /\ 0 \in Nat
    BY DEF Answers, Forms
  <1>2. CASE Serve(c)
    <2>1. effects' \in [Client -> Nat] /\ UNCHANGED <<attempt, sleep, result, closed, stray>>
      BY <1>2, Parts DEF Serve
    <2>2. \E status \in {"200", "404"} : Conclude(c, Answer(status, "none", 0))
      BY <1>2 DEF Serve
    <2>3. Tell(c, "none", 0)
      BY <1>2 DEF Serve
    <2> QED  BY <1>1, <2>1, <2>2, <2>3, ConcludeType, Parts
  <1>3. CASE Refuse(c)
    <2>1. PICK window \in IF closed > 0 THEN {closed} ELSE Windows, form \in Forms :
             /\ closed' = window
             /\ Conclude(c, Answer("429", form, window))
             /\ Tell(c, form, window)
      BY <1>3 DEF Refuse
    <2>2. window \in Nat
      BY Parts, WindowAssumption
    <2>3. UNCHANGED <<attempt, sleep, result, stray, effects>>
      BY <1>3 DEF Refuse
    <2> QED  BY <1>1, <2>1, <2>2, <2>3, ConcludeType, Parts
  <1>4. CASE Fail(c)
    <2>1. PICK window \in Windows, form \in Forms :
             Conclude(c, Answer("500", form, window)) /\ Tell(c, form, window)
      BY <1>4 DEF Fail
    <2>2. window \in Nat
      BY WindowAssumption
    <2>3. effects' \in [Client -> Nat]
      BY <1>4, Parts DEF Fail
    <2>4. UNCHANGED <<attempt, sleep, result, closed, stray>>
      BY <1>4 DEF Fail
    <2> QED  BY <1>1, <2>1, <2>2, <2>3, <2>4, ConcludeType, Parts
  <1>5. CASE Timeout(c) \/ Break(c)
    <2>1. PICK status \in {"Timeout", "NetworkError"} : Lose(c, status)
      BY <1>5 DEF Timeout, Break
    <2>2. effects' \in [Client -> Nat] /\ stray' \in [Client -> Nat]
      BY <2>1, Parts DEF Lose
    <2>3. /\ Conclude(c, Answer(status, "none", 0)) /\ Tell(c, "none", 0)
          /\ UNCHANGED <<attempt, sleep, result, closed>>
      BY <2>1 DEF Lose
    <2> QED  BY <1>1, <2>1, <2>2, <2>3, ConcludeType, Parts
  <1> QED  BY <1>2, <1>3, <1>4, <1>5

LEMMA StrayType ==
    ASSUME TypeOK, NEW c \in Client, ServeStray(c)
    PROVE  TypeOK'
  <1>1. stray' \in [Client -> Nat] /\ effects' \in [Client -> Nat]
    BY Parts DEF ServeStray
  <1> QED  BY <1>1 DEF ServeStray, TypeOK

LEMMA TickType ==
    ASSUME TypeOK, Tick
    PROVE  TypeOK'
  <1>1. /\ closed' \in Nat /\ sleep' \in [Client -> Nat] /\ told' \in [Client -> Nat]
    BY Parts DEF Tick, Less
  <1> QED  BY <1>1 DEF Tick, TypeOK, history

LEMMA NextType ==
    ASSUME TypeOK, [Next]_vars
    PROVE  TypeOK'
  <1>1. ASSUME UNCHANGED vars PROVE TypeOK'
    BY <1>1 DEF vars, server, history, TypeOK
  <1> QED  BY <1>1, CallType, SendType, DecideType, WakeType, EndsType, StrayType,
              TickType DEF Next

\* Every variable keeps its type.
THEOREM TypeCorrect == Spec => []TypeOK
  BY InitType, NextType, PTL DEF Spec

-----------------------------------------------------------------------------
(* RetryAfterHonoured and EffectsBounded.                                  *)

\* What WaitInv says of one client.
Mine(c) ==
    /\ step[c] = "send" /\ answer[c].status = "429"
          => told[c] <= IF answer[c].form = "date" THEN Skew ELSE 0
    /\ effects[c] + stray[c] <= 1 + doubts[c]
    /\ Covered(c)
    /\ Accounted(c)

Core == \A c \in Client : Mine(c)

LEMMA CoreParts == Core => RetryAfterHonoured /\ EffectsBounded
  BY DEF Core, Mine, RetryAfterHonoured, EffectsBounded

\* A step of client c alone keeps Core if c's own part of it holds after.
LEMMA OneClient ==
    ASSUME Core, NEW c \in Client, Mine(c)',
           \A d \in Client \ {c} :
              /\ step'[d] = step[d] /\ answer'[d] = answer[d] /\ sleep'[d] = sleep[d]
              /\ told'[d] = told[d] /\ stray'[d] = stray[d]
              /\ effects'[d] = effects[d] /\ doubts'[d] = doubts[d]
    PROVE  Core'
  <1>1. ASSUME NEW d \in Client \ {c} PROVE Mine(d)'
    <2>1. Mine(d)
      BY DEF Core
    <2> QED  BY <2>1 DEF Mine, Covered, Accounted
  <1> QED  BY <1>1 DEF Core

LEMMA InitCore == Init => Core
  <1> SUFFICES ASSUME Init, NEW c \in Client PROVE Mine(c)
    BY DEF Core
  <1>1. /\ step[c] = "idle" /\ answer[c].status # "429"
        /\ effects[c] = 0 /\ stray[c] = 0 /\ doubts[c] = 0
    BY DEF Init, NoAnswer, Answer
  <1> QED  BY <1>1 DEF Mine, Covered, Accounted

LEMMA CallCore ==
    ASSUME TypeOK, Core, NEW c \in Client, Call(c)
    PROVE  Core'
  <1>1. /\ step'[c] = "send" /\ answer'[c].status # "429"
        /\ effects'[c] = 0 /\ stray'[c] = 0 /\ doubts'[c] = 0
    BY Parts DEF Call, NoAnswer, Answer
  <1>2. Mine(c)'
    BY <1>1 DEF Mine, Covered, Accounted
  <1> QED  BY <1>2, OneClient, Parts DEF Call

LEMMA SendCore ==
    ASSUME TypeOK, Core, NEW c \in Client, Send(c)
    PROVE  Core'
  <1>1. /\ step[c] = "send" /\ step'[c] = "asked"
        /\ UNCHANGED <<answer, sleep, told, stray, effects, doubts>>
    BY Parts DEF Send, server, history
  <1>2. Mine(c) /\ \A d \in Client \ {c} : step'[d] = step[d]
    BY Parts DEF Core, Send
  <1>3. Mine(c)'
    BY <1>1, <1>2 DEF Mine, Covered, Accounted
  <1> QED  BY <1>1, <1>2, <1>3, OneClient

\* The sleep that follows a 429 covers the wait it asked for.
LEMMA DecideCore ==
    ASSUME TypeOK, Core, NEW c \in Client, Decide(c)
    PROVE  Core'
  <1>1. /\ step[c] = "answered" /\ Mine(c)
        /\ UNCHANGED <<answer, told, stray, effects, doubts>>
    BY DEF Decide, Core, server, history
  <1>2. \A d \in Client \ {c} : step'[d] = step[d] /\ sleep'[d] = sleep[d]
    BY Parts DEF Decide
  <1>3. CASE Retryable(answer[c].status) /\ ~GivesUp(c) /\ ~Endless(c)
    <2>1. step'[c] = "asleep" /\ sleep'[c] = Wait(c)
      BY <1>3, Parts DEF Decide
    <2>2. effects[c] + stray[c] <= doubts[c]
      BY <1>1, <1>3 DEF Mine, Accounted
    <2>3. Covered(c)'
      BY <1>1, <2>1, WaitCovers DEF Mine, Covered, Readable
    <2>4. Mine(c)'
      BY <1>1, <2>1, <2>2, <2>3 DEF Mine, Accounted
    <2> QED  BY <1>1, <1>2, <2>4, OneClient
  <1>4. CASE ~(Retryable(answer[c].status) /\ ~GivesUp(c) /\ ~Endless(c))
    <2>1. step'[c] = "idle"
      BY <1>4, Parts DEF Decide
    <2>2. Mine(c)'
      BY <1>1, <2>1 DEF Mine, Covered, Accounted
    <2> QED  BY <1>1, <1>2, <2>2, OneClient
  <1> QED  BY <1>3, <1>4

\* A 429 is read no later than it is answered, so what is left of the wait is
\* at most the number in its header.
LEMMA WakeCore ==
    ASSUME TypeOK, Core, NEW c \in Client, Wake(c)
    PROVE  Core'
  <1>1. /\ step[c] = "asleep" /\ sleep[c] = 0 /\ step'[c] = "send" /\ Mine(c)
        /\ UNCHANGED <<answer, sleep, told, stray, effects, doubts>>
    BY Parts DEF Wake, Core, server, history
  <1>2. \A d \in Client \ {c} : step'[d] = step[d]
    BY Parts DEF Wake
  <1>3. told[c] \in Nat /\ answer[c].form \in Forms
    BY Parts DEF AnswerSet
  <1>4. answer[c].status = "429" =>
           told[c] <= IF answer[c].form = "date" THEN Skew ELSE 0
    <2>1. CASE answer[c].form = "date"
      BY <1>1, <1>3, <2>1, SkewAssumption DEF Mine, Covered
    <2>2. CASE answer[c].form = "seconds"
      BY <1>1, <1>3, <2>2 DEF Mine, Covered
    <2>3. CASE answer[c].form \notin Readable
      BY <1>1, <1>3, <2>3 DEF Mine, Covered, Readable
    <2> QED  BY <2>1, <2>2, <2>3 DEF Readable
  <1>5. Mine(c)'
    <2>1. effects[c] + stray[c] <= doubts[c] /\ effects[c] + stray[c] <= 1 + doubts[c]
      BY <1>1 DEF Mine, Accounted
    <2>2. Covered(c)'
      BY <1>1 DEF Mine, Covered
    <2> QED  BY <1>1, <1>4, <2>1, <2>2 DEF Mine, Accounted
  <1> QED  BY <1>1, <1>2, <1>5, OneClient

\* A request has one effect at most, unless it ends in doubt.
LEMMA ConcludeCore ==
    ASSUME TypeOK, Core, NEW c \in Client, step[c] = "asked",
           NEW status \in Answers, NEW form \in Forms, NEW ticks \in Nat,
           Conclude(c, Answer(status, form, ticks)), Tell(c, form, ticks),
           UNCHANGED sleep,
           effects' \in [Client -> Nat], stray' \in [Client -> Nat],
           effects'[c] + stray'[c] <=
              effects[c] + stray[c] + (IF status = "429" THEN 0 ELSE 1),
           \A d \in Client \ {c} : effects'[d] = effects[d] /\ stray'[d] = stray[d]
    PROVE  Core'
  <1>1. /\ step'[c] = "answered"
        /\ answer'[c].status = status /\ answer'[c].form = form /\ answer'[c].after = ticks
        /\ told'[c] = IF form \in Readable THEN ticks ELSE 0
        /\ doubts'[c] = IF status \in {"500", "Timeout"} THEN doubts[c] + 1 ELSE doubts[c]
    BY Parts DEF Conclude, Tell, Answer
  <1>2. \A d \in Client \ {c} :
           /\ step'[d] = step[d] /\ answer'[d] = answer[d] /\ told'[d] = told[d]
           /\ doubts'[d] = doubts[d]
    BY Parts DEF Conclude, Tell
  <1>3. effects[c] + stray[c] <= doubts[c]
    BY DEF Core, Mine, Accounted
  <1>4. /\ effects[c] \in Nat /\ stray[c] \in Nat /\ doubts[c] \in Nat
        /\ effects'[c] \in Nat /\ stray'[c] \in Nat
    BY Parts
  <1>5. Covered(c)'
    BY <1>1 DEF Covered, Readable
  <1>6. effects'[c] + stray'[c] <= 1 + doubts'[c]
    BY <1>1, <1>3, <1>4
  <1>7. Accounted(c)'
    <2>1. CASE status = "429"
      BY <1>1, <1>3, <1>4, <2>1 DEF Accounted
    <2>2. CASE status \in {"500", "Timeout"}
      BY <1>1, <1>3, <1>4, <2>2 DEF Accounted
    <2>3. CASE ~Retryable(status)
      BY <1>1, <2>3 DEF Accounted, Retryable
    <2> QED  BY <2>1, <2>2, <2>3 DEF Retryable
  <1>8. Mine(c)'
    BY <1>1, <1>5, <1>6, <1>7 DEF Mine
  <1> QED  BY <1>2, <1>8, OneClient

LEMMA EndsCore ==
    ASSUME TypeOK, Core, NEW c \in Client, Serve(c) \/ Refuse(c) \/ Fail(c) \/ Timeout(c) \/ Break(c)
    PROVE  Core'
  <1>1. /\ {"200", "404", "429", "500", "Timeout", "NetworkError"} \subseteq Answers
        /\ "none" \in Forms /\ 0 \in Nat
    BY DEF Answers, Forms
  <1>2. /\ step[c] = "asked" /\ UNCHANGED sleep
        /\ effects[c] \in Nat /\ stray[c] \in Nat
    BY Parts DEF Serve, Refuse, Fail, Timeout, Break, Lose
  <1>3. /\ effects' \in [Client -> Nat] /\ stray' \in [Client -> Nat]
        /\ \A d \in Client \ {c} : effects'[d] = effects[d] /\ stray'[d] = stray[d]
        /\ effects'[c] + stray'[c] <= effects[c] + stray[c] + 1
    BY Parts DEF Serve, Refuse, Fail, Timeout, Break, Lose
  <1>4. CASE Serve(c)
    <2>1. PICK status \in {"200", "404"} : Conclude(c, Answer(status, "none", 0))
      BY <1>4 DEF Serve
    <2>2. Tell(c, "none", 0)
      BY <1>4 DEF Serve
    <2> QED  BY <1>1, <1>2, <1>3, <2>1, <2>2, ConcludeCore
  <1>5. CASE Refuse(c)
    <2>1. PICK window \in IF closed > 0 THEN {closed} ELSE Windows, form \in Forms :
             Conclude(c, Answer("429", form, window)) /\ Tell(c, form, window)
      BY <1>5 DEF Refuse
    <2>2. window \in Nat
      BY Parts, WindowAssumption
    <2>3. effects'[c] + stray'[c] <= effects[c] + stray[c] + 0
      BY <1>2, <1>5 DEF Refuse
    <2> QED  BY <1>1, <1>2, <1>3, <2>1, <2>2, <2>3, ConcludeCore
  <1>6. CASE Fail(c)
    <2>1. PICK window \in Windows, form \in Forms :
             Conclude(c, Answer("500", form, window)) /\ Tell(c, form, window)
      BY <1>6 DEF Fail
    <2>2. window \in Nat
      BY WindowAssumption
    <2> QED  BY <1>1, <1>2, <1>3, <2>1, <2>2, ConcludeCore
  <1>7. CASE Timeout(c) \/ Break(c)
    <2>1. PICK status \in {"Timeout", "NetworkError"} : Lose(c, status)
      BY <1>7 DEF Timeout, Break
    <2>2. Conclude(c, Answer(status, "none", 0)) /\ Tell(c, "none", 0)
      BY <2>1 DEF Lose
    <2> QED  BY <1>1, <1>2, <1>3, <2>1, <2>2, ConcludeCore
  <1> QED  BY <1>4, <1>5, <1>6, <1>7

LEMMA StrayCore ==
    ASSUME TypeOK, Core, NEW c \in Client, ServeStray(c)
    PROVE  Core'
  <1>1. /\ effects'[c] = effects[c] + 1 /\ stray'[c] = stray[c] - 1
        /\ effects[c] \in Nat /\ stray[c] \in Nat /\ Mine(c)
        /\ UNCHANGED <<step, answer, sleep, told, doubts>>
        /\ \A d \in Client \ {c} : effects'[d] = effects[d] /\ stray'[d] = stray[d]
    BY Parts DEF ServeStray, Core
  <1>2. effects'[c] + stray'[c] = effects[c] + stray[c]
    BY <1>1
  <1>3. Mine(c)'
    BY <1>1, <1>2 DEF Mine, Covered, Accounted
  <1> QED  BY <1>1, <1>3, OneClient

\* Sleeps and waits run down together.
LEMMA TickCore ==
    ASSUME TypeOK, Core, Tick
    PROVE  Core'
  <1> SUFFICES ASSUME NEW c \in Client PROVE Mine(c)'
    BY DEF Core
  <1>1. /\ UNCHANGED <<step, answer, stray, effects, doubts>> /\ Mine(c)
        /\ sleep'[c] = Less(sleep[c]) /\ told'[c] = Less(told[c])
    BY DEF Tick, Core, history
  <1>2. /\ sleep[c] \in Nat /\ told[c] \in Nat /\ answer[c].after \in Nat
    BY Parts DEF AnswerSet
  <1>3. /\ told'[c] <= told[c] /\ (told[c] = 0 => told'[c] = 0)
        /\ told[c] <= sleep[c] => told'[c] <= sleep'[c]
        /\ told[c] <= sleep[c] + Skew => told'[c] <= sleep'[c] + Skew
        /\ told'[c] \in Nat
    BY <1>1, <1>2, SkewAssumption DEF Less
  <1>4. Covered(c)'
    BY <1>1, <1>2, <1>3 DEF Mine, Covered
  <1>5. Accounted(c)' /\ effects'[c] + stray'[c] <= 1 + doubts'[c]
    BY <1>1 DEF Mine, Accounted
  <1>6. step[c] = "send" /\ answer[c].status = "429"
           => told'[c] <= IF answer[c].form = "date" THEN Skew ELSE 0
    BY <1>1, <1>2, <1>3, SkewAssumption DEF Mine
  <1> QED  BY <1>1, <1>4, <1>5, <1>6 DEF Mine

LEMMA NextCore ==
    ASSUME TypeOK, Core, [Next]_vars
    PROVE  Core'
  <1>1. ASSUME UNCHANGED vars PROVE Core'
    BY <1>1 DEF vars, server, history, Core, Mine, Covered, Accounted
  <1> QED  BY <1>1, CallCore, SendCore, DecideCore, WakeCore, EndsCore, StrayCore,
              TickCore DEF Next

\* For any clients, backoff, windows and clock skew: a 429 is not answered by
\* a request before the time it asked for, and a request takes effect at most
\* once more than it was left in doubt.
THEOREM WaitsAndEffects == Spec => [](RetryAfterHonoured /\ EffectsBounded)
  <1>1. Init => TypeOK /\ Core
    BY InitType, InitCore
  <1>2. TypeOK /\ Core /\ [Next]_vars => (TypeOK /\ Core)'
    BY NextType, NextCore
  <1>3. TypeOK /\ Core => RetryAfterHonoured /\ EffectsBounded
    BY CoreParts
  <1> QED  BY <1>1, <1>2, <1>3, PTL DEF Spec

\* A request takes effect at most once more than it was left in doubt, late
\* answers to timed out attempts included.
THEOREM EffectsAreBounded == Spec => []EffectsBounded
  BY WaitsAndEffects, PTL

-----------------------------------------------------------------------------
(* GivesUpLast.                                                            *)

\* What GivesUpLast says of one client, and its strengthening.
Last(c) ==
    /\ result[c] \in {"429", "500", "Timeout"} =>
          attempt[c] = Attempts /\ refused[c] + doubts[c] = attempt[c]
    /\ result[c] \in {"200", "404", "NetworkError"} =>
          refused[c] + doubts[c] = attempt[c] - 1
    /\ result[c] = "OverflowError" =>
          attempt[c] < Attempts /\ refused[c] + doubts[c] = attempt[c]
    /\ Counted(c)

AllLast == \A c \in Client : Last(c)

LEMMA AttemptsPositive == Attempts \in Nat /\ 1 <= Attempts
  <1>1. Attempts \in Nat /\ Attempts # 0
    BY AttemptsAssumption
  <1> QED  BY <1>1

LEMMA InitLast == Init => AllLast
  <1> SUFFICES ASSUME Init, NEW c \in Client PROVE Last(c)
    BY DEF AllLast
  <1>1. step[c] = "idle" /\ attempt[c] = 0 /\ result[c] = ""
    BY DEF Init
  <1>2. attempt[c] <= Attempts
    <2>1. attempt[c] = 0
      BY <1>1
    <2> QED  BY <2>1, AttemptsPositive
  <1>3. Counted(c)
    BY <1>1, <1>2 DEF Counted
  <1> QED  BY <1>1, <1>3 DEF Last

\* What the steps of one client leave alone.
LEMMA OthersLast ==
    ASSUME AllLast, NEW c \in Client, Last(c)',
           \A d \in Client \ {c} :
              /\ step'[d] = step[d] /\ answer'[d] = answer[d] /\ result'[d] = result[d]
              /\ attempt'[d] = attempt[d]
              /\ refused'[d] = refused[d] /\ doubts'[d] = doubts[d]
    PROVE  AllLast'
  <1>1. ASSUME NEW d \in Client \ {c} PROVE Last(d)'
    <2>1. Last(d)
      BY DEF AllLast
    <2>2. CountedAnswer(d)' <=> CountedAnswer(d)
      BY DEF CountedAnswer
    <2> QED  BY <2>1, <2>2 DEF Last, Counted
  <1> QED  BY <1>1 DEF AllLast

LEMMA ClientLast ==
    ASSUME TypeOK, AllLast, NEW c \in Client,
           Call(c) \/ Send(c) \/ Decide(c) \/ Wake(c)
    PROVE  AllLast'
  <1>1. \A d \in Client \ {c} :
           /\ step'[d] = step[d] /\ answer'[d] = answer[d] /\ result'[d] = result[d]
           /\ attempt'[d] = attempt[d]
           /\ refused'[d] = refused[d] /\ doubts'[d] = doubts[d]
    BY Parts DEF Call, Send, Decide, Wake, history
  <1>2. /\ attempt[c] \in Nat /\ refused[c] \in Nat /\ doubts[c] \in Nat /\ Last(c)
    BY Parts DEF AllLast
  <1>3. CASE Call(c)
    <2>1. /\ step'[c] = "send" /\ attempt'[c] = 0 /\ result'[c] = ""
          /\ refused'[c] = 0 /\ doubts'[c] = 0
      BY <1>3, Parts DEF Call
    <2>2. attempt'[c] < Attempts /\ attempt'[c] <= Attempts
          /\ refused'[c] + doubts'[c] = attempt'[c]
      <3>1. attempt'[c] = 0 /\ refused'[c] = 0 /\ doubts'[c] = 0
        BY <2>1
      <3> QED  BY <3>1, AttemptsPositive
    <2>3. Counted(c)'
      BY <2>1, <2>2 DEF Counted
    <2>4. Last(c)'
      BY <2>1, <2>3 DEF Last
    <2> QED  BY <1>1, <2>4, OthersLast
  <1>4. CASE Send(c)
    <2>1. /\ step[c] = "send" /\ step'[c] = "asked" /\ attempt'[c] = attempt[c] + 1
          /\ UNCHANGED <<result, refused, doubts>>
      BY <1>4, Parts DEF Send, history
    <2>2. /\ result[c] = "" /\ attempt[c] < Attempts
          /\ refused[c] + doubts[c] = attempt[c]
      BY <1>2, <2>1 DEF Last, Counted
    <2>3. attempt'[c] <= Attempts /\ refused'[c] + doubts'[c] = attempt'[c] - 1
      <3>1. /\ attempt[c] < Attempts /\ refused[c] + doubts[c] = attempt[c]
            /\ attempt'[c] = attempt[c] + 1 /\ UNCHANGED <<refused, doubts>>
        BY <2>1, <2>2
      <3>2. attempt[c] \in Nat
        BY <1>2
      <3> QED  BY <3>1, <3>2, AttemptsPositive
    <2>4. Counted(c)'
      BY <2>1, <2>2, <2>3 DEF Counted
    <2>5. Last(c)'
      BY <2>1, <2>2, <2>4 DEF Last
    <2> QED  BY <1>1, <2>5, OthersLast
  <1>5. CASE Decide(c)
    <2>1. /\ step[c] = "answered" /\ UNCHANGED <<answer, attempt, refused, doubts>>
      BY <1>5 DEF Decide, history
    <2>2. CASE Retryable(answer[c].status) /\ ~GivesUp(c) /\ ~Endless(c)
      <3>1. step'[c] = "asleep" /\ result'[c] = result[c] /\ attempt'[c] = attempt[c]
            /\ refused'[c] + doubts'[c] = refused[c] + doubts[c]
        BY <1>5, <2>1, <2>2, Parts DEF Decide
      <3>2. attempt[c] < Attempts /\ refused[c] + doubts[c] = attempt[c]
        <4>1. CountedAnswer(c) /\ attempt[c] <= Attempts
          BY <1>2, <2>1 DEF Last, Counted
        <4>2. refused[c] + doubts[c] = attempt[c]
          BY <2>2, <4>1 DEF CountedAnswer, Retryable
        <4>3. attempt[c] < Attempts
          BY <1>2, <2>2, <4>1, AttemptsPositive DEF GivesUp
        <4> QED  BY <4>2, <4>3
      <3>3. result[c] = ""
        BY <1>2, <2>1 DEF Last, Counted
      <3>4. Last(c)'
        BY <1>2, <3>1, <3>2, <3>3, AttemptsPositive DEF Last, Counted
      <3> QED  BY <1>1, <3>4, OthersLast
    <2>3. CASE ~(Retryable(answer[c].status) /\ ~GivesUp(c) /\ ~Endless(c))
      <3>1. /\ step'[c] = "idle" /\ attempt'[c] = attempt[c]
            /\ refused'[c] + doubts'[c] = refused[c] + doubts[c]
            /\ result'[c] = IF Endless(c) /\ ~GivesUp(c) THEN "OverflowError"
                                                       ELSE answer[c].status
        BY <1>5, <2>1, <2>3, Parts DEF Decide
      <3>2. CountedAnswer(c) /\ attempt[c] <= Attempts
        BY <1>2, <2>1 DEF Last, Counted
      <3>3. \/ /\ result'[c] = "OverflowError"
               /\ attempt[c] < Attempts /\ refused[c] + doubts[c] = attempt[c]
            \/ /\ result'[c] \in {"429", "500", "Timeout"}
               /\ attempt[c] = Attempts /\ refused[c] + doubts[c] = attempt[c]
            \/ /\ result'[c] \in {"200", "404", "NetworkError"}
               /\ refused[c] + doubts[c] = attempt[c] - 1
        <4>1. CASE answer[c].status \in {"429", "500", "Timeout"}
          <5>1. refused[c] + doubts[c] = attempt[c]
            BY <3>2, <4>1 DEF CountedAnswer
          <5>2. CASE GivesUp(c)
            <6>1. attempt[c] = Attempts
              BY <1>2, <3>2, <5>2, AttemptsPositive DEF GivesUp
            <6>2. result'[c] = answer[c].status
              BY <3>1, <5>2
            <6> QED  BY <4>1, <5>1, <6>1, <6>2
          <5>3. CASE ~GivesUp(c)
            <6>1. attempt[c] < Attempts
              BY <1>2, <5>3, AttemptsPositive DEF GivesUp
            <6>2. result'[c] = "OverflowError"
              BY <2>3, <3>1, <4>1, <5>3 DEF Retryable
            <6> QED  BY <5>1, <6>1, <6>2
          <5> QED  BY <5>2, <5>3
        <4>2. CASE answer[c].status \in {"200", "404", "NetworkError"}
          BY <1>2, <3>1, <3>2, <4>2, Parts DEF CountedAnswer, Endless, AnswerSet
        <4> QED  BY <3>2, <4>1, <4>2 DEF CountedAnswer
      <3>4. Last(c)'
        BY <1>2, <3>1, <3>2, <3>3, AttemptsPositive DEF Last, Counted
      <3> QED  BY <1>1, <3>4, OthersLast
    <2> QED  BY <2>2, <2>3
  <1>6. CASE Wake(c)
    <2>1. /\ step[c] = "asleep" /\ step'[c] = "send"
          /\ UNCHANGED <<result, attempt, refused, doubts>>
      BY <1>6, Parts DEF Wake, history
    <2>2. Last(c)'
      BY <1>2, <2>1 DEF Last, Counted
    <2> QED  BY <1>1, <2>2, OthersLast
  <1> QED  BY <1>3, <1>4, <1>5, <1>6

\* An attempt that ends is counted, if it may be repeated.
LEMMA EndsLast ==
    ASSUME TypeOK, AllLast, NEW c \in Client,
           Serve(c) \/ Refuse(c) \/ Fail(c) \/ Timeout(c) \/ Break(c)
    PROVE  AllLast'
  <1>1. PICK status \in {"200", "404", "429", "500", "Timeout", "NetworkError"},
             form \in Forms, ticks \in Nat \union {closed} :
           Conclude(c, Answer(status, form, ticks))
    <2>1. "none" \in Forms /\ 0 \in Nat
      BY DEF Forms
    <2> QED  BY <2>1, WindowAssumption DEF Serve, Refuse, Fail, Timeout, Break, Lose
  <1>2. step[c] = "asked" /\ UNCHANGED <<attempt, result>>
    BY DEF Serve, Refuse, Fail, Timeout, Break, Lose
  <1>3. /\ step'[c] = "answered" /\ answer'[c].status = status
        /\ doubts'[c] = IF status \in {"500", "Timeout"} THEN doubts[c] + 1 ELSE doubts[c]
        /\ refused'[c] = IF status = "429" THEN refused[c] + 1 ELSE refused[c]
        /\ \A d \in Client \ {c} :
              /\ step'[d] = step[d] /\ answer'[d] = answer[d]
              /\ refused'[d] = refused[d] /\ doubts'[d] = doubts[d]
    BY <1>1, Parts DEF Conclude, Answer
  <1>4. /\ attempt[c] \in Nat /\ refused[c] \in Nat /\ doubts[c] \in Nat /\ Last(c)
    BY Parts DEF AllLast
  <1>5. Last(c)'
    <2>1. /\ result'[c] = "" /\ attempt'[c] = attempt[c] /\ attempt[c] <= Attempts
          /\ refused[c] + doubts[c] = attempt[c] - 1
      BY <1>2, <1>4 DEF Last, Counted
    <2>2. CASE status \in {"429", "500", "Timeout"}
      <3>1. refused'[c] + doubts'[c] = attempt[c]
        <4>1. refused'[c] + doubts'[c] = refused[c] + doubts[c] + 1
          <5>1. CASE status = "429"
            <6>1. refused'[c] = refused[c] + 1 /\ doubts'[c] = doubts[c]
              BY <1>3, <5>1
            <6> QED  BY <1>4, <6>1
          <5>2. CASE status \in {"500", "Timeout"}
            <6>1. refused'[c] = refused[c] /\ doubts'[c] = doubts[c] + 1
              BY <1>3, <5>2
            <6> QED  BY <1>4, <6>1
          <5> QED  BY <2>2, <5>1, <5>2
        <4>2. refused'[c] + doubts'[c] = (attempt[c] - 1) + 1
          BY <2>1, <4>1
        <4> QED  BY <1>4, <4>2
      <3>2. CountedAnswer(c)'
        BY <1>3, <2>1, <2>2, <3>1 DEF CountedAnswer
      <3> QED  BY <1>3, <2>1, <3>2 DEF Last, Counted
    <2>3. CASE status \in {"200", "404", "NetworkError"}
      <3>1. refused'[c] + doubts'[c] = attempt[c] - 1
        BY <1>3, <2>1, <2>3
      <3>2. CountedAnswer(c)'
        BY <1>3, <2>1, <2>3, <3>1 DEF CountedAnswer
      <3> QED  BY <1>3, <2>1, <3>2 DEF Last, Counted
    <2> QED  BY <1>1, <2>2, <2>3
  <1> QED  BY <1>2, <1>3, <1>5, OthersLast

LEMMA NextLast ==
    ASSUME TypeOK, AllLast, [Next]_vars
    PROVE  AllLast'
  <1>1. ASSUME UNCHANGED <<step, attempt, answer, result, refused, doubts>> PROVE AllLast'
    BY <1>1 DEF AllLast, Last, Counted, CountedAnswer
  <1>2. ASSUME UNCHANGED vars \/ Tick \/ \E c \in Client : ServeStray(c)
        PROVE  AllLast'
    BY <1>1, <1>2 DEF vars, history, Tick, ServeStray
  <1> QED  BY <1>2, ClientLast, EndsLast DEF Next

\* For any number of attempts: no call gives up on a retryable error before
\* its last attempt, unless Retry-After asks for a wait that cannot be slept,
\* and none goes on after an outcome that is not to be retried.
THEOREM GivesUpInTime == Spec => []GivesUpLast
  <1>1. Init => TypeOK /\ AllLast
    BY InitType, InitLast
  <1>2. TypeOK /\ AllLast /\ [Next]_vars => (TypeOK /\ AllLast)'
    BY NextType, NextLast
  <1>3. TypeOK /\ AllLast => GivesUpLast
    BY DEF AllLast, Last, Counted, GivesUpLast
  <1> QED  BY <1>1, <1>2, <1>3, PTL DEF Spec
=============================================================================
