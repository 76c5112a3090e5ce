------------------------- MODULE ProviderChain_proofs -------------------------
(* Proofs about one call of the chain, for any providers, with any number  *)
(* of attempts each, and any number of texts.                              *)
EXTENDS ProviderChain, TLAPS

Failures == {"none", "unsupported", "exhausted", "fatal"}

LEMMA Parts ==
    ASSUME TypeOK
    PROVE  /\ op \in Ops /\ texts \in Nat /\ at \in 1..(N + 1) /\ step \in Steps
           /\ posted \in Nat /\ answered \in Nat /\ vectors \in Nat
           /\ requests \in [Index -> Nat] /\ served \in [Index -> Nat]
           /\ raised \in [Index -> Failures] /\ cancelled \in BOOLEAN
  BY DEF TypeOK, Failures

LEMMA LengthType == N \in Nat
  BY ProvidersAssumption DEF N

LEMMA AttemptsType ==
    ASSUME NEW p \in Index
    PROVE  Attempts(p) \in Nat /\ 1 <= Attempts(p)
  <1> DEFINE S == [kind : Kinds, attempts : Nat]
  <1>1. Providers \in Seq(S) /\ p \in 1..Len(Providers)
    BY ProvidersAssumption DEF Index, N
  <1> HIDE DEF S
  <1>2. Providers[p] \in S
    BY <1>1
  <1>3. Providers[p].attempts \in Nat
    BY <1>2 DEF S
  <1> QED  BY <1>3 DEF Attempts

LEMMA PostsType ==
    ASSUME TypeOK, NEW p \in Index
    PROVE  Posts(p) \in Nat
  BY Parts DEF Posts

\* A count of one provider goes up by one.
LEMMA Bump ==
    ASSUME NEW S, NEW f \in [S -> Nat], NEW i \in S
    PROVE  /\ [f EXCEPT ![i] = @ + 1] \in [S -> Nat]
           /\ [f EXCEPT ![i] = @ + 1][i] = f[i] + 1
           /\ \A j \in S : j # i => [f EXCEPT ![i] = @ + 1][j] = f[j]
  <1>1. f[i] + 1 \in Nat
    OBVIOUS
  <1> QED  BY <1>1

\* One more request stays within the attempts of the POSTs begun.
LEMMA OneMore ==
    ASSUME NEW a \in Nat, NEW n \in Nat, NEW m \in Nat, NEW q \in Nat, q < a, n < m
    PROVE  a * n + (q + 1) <= a * m
  <1> DEFINE k == m - (n + 1)
  <1>1. k \in Nat /\ m = n + (1 + k)
    OBVIOUS
  <1>2. a * m = a * n + a + a * k
    BY <1>1
  <1>3. a * k \in Nat /\ a * n \in Nat
    BY <1>1
  <1> HIDE DEF k
  <1> QED  BY <1>2, <1>3

\* The attempts of one answered POST make room for the next POST's.
LEMMA NextPost ==
    ASSUME NEW a \in Nat, NEW n \in Nat, NEW q \in Nat, q <= a
    PROVE  a * n + q <= a * (n + 1) /\ a * (n + 1) \in Nat
  <1>1. a * (n + 1) = a * n + a /\ a * n \in Nat
    OBVIOUS
  <1> QED  BY <1>1

-----------------------------------------------------------------------------
(* Types.                                                                  *)

LEMMA InitType == Init => TypeOK
  <1> SUFFICES ASSUME Init PROVE TypeOK
    OBVIOUS
  <1>1. texts \in Nat
    BY MaxTextsAssumption DEF Init
  <1>2. at \in 1..(N + 1)
    BY LengthType DEF Init
  <1>3. raised \in [Index -> Failures]
    BY DEF Init, Failures
  <1> QED  BY <1>1, <1>2, <1>3 DEF Init, TypeOK, Steps, Running, Failures

\* The next provider is one of the chain, or past the last.
LEMMA GiveUpType ==
    ASSUME TypeOK, at <= N, NEW why \in Failures, GiveUp(why)
    PROVE  /\ at' \in 1..(N + 1) /\ step' \in Steps
           /\ posted' \in Nat /\ answered' \in Nat /\ vectors' \in Nat
           /\ raised' \in [Index -> Failures]
  <1>1. at' \in 1..(N + 1)
    BY Parts, LengthType DEF GiveUp
  <1>2. raised' \in [Index -> Failures]
    BY Parts DEF GiveUp
  <1> QED  BY <1>1, <1>2 DEF GiveUp, Steps, Running

LEMMA NextType ==
    ASSUME ChainInv, [Next]_vars
    PROVE  TypeOK'
  <1>a. TypeOK /\ UnderWay
    BY DEF ChainInv
  <1>0. "none" \in Failures /\ "unsupported" \in Failures /\ "exhausted" \in Failures
        /\ "fatal" \in Failures
    BY DEF Failures
  <1>1. CASE AllFailed
    BY <1>a, <1>1 DEF AllFailed, TypeOK, call, progress, history, Steps, Ended
  <1>2. CASE AskProvider
    <2>1. at <= N /\ UNCHANGED <<op, texts, requests, served, cancelled>>
      BY <1>2 DEF AskProvider, call
    <2>2. CASE GiveUp("unsupported")
      BY <1>a, <1>0, <2>1, <2>2, GiveUpType DEF TypeOK, Failures
    <2>3. CASE ~GiveUp("unsupported")
      BY <1>a, <1>2, <2>1, <2>3 DEF AskProvider, TypeOK, progress, Steps, Running, Ended
    <2> QED  BY <2>2, <2>3
  <1>3. CASE Send
    <2>1. posted' = posted + 1 /\ requests' = [requests EXCEPT ![at] = @ + 1]
      BY <1>3 DEF Send
    <2>2. posted \in Nat /\ requests \in [Index -> Nat]
      BY <1>a, Parts
    <2>3. posted' \in Nat
      BY <2>1, <2>2
    <2>4. at \in Index
      BY <1>a, <1>3, Parts, LengthType DEF Send, UnderWay, Index
    <2>5. requests' \in [Index -> Nat]
      BY <2>1, <2>2, <2>4, Bump
    <2> QED  BY <1>a, <1>3, <2>3, <2>5 DEF Send, TypeOK, call, Steps, Running
  <1>4. CASE Answered
    <2>1. PICK n \in IF op = "embed" THEN Vectors ELSE {0} : vectors' = vectors + n
      BY <1>4 DEF Answered
    <2>2. n \in Nat
      BY MaxTextsAssumption DEF Vectors
    <2>3. answered' = answered + 1 /\ served' = [served EXCEPT ![at] = @ + 1]
      BY <1>4 DEF Answered
    <2>4. vectors \in Nat /\ answered \in Nat /\ served \in [Index -> Nat]
      BY <1>a, Parts
    <2>5. vectors' \in Nat
      BY <2>1, <2>2, <2>4
    <2>6. answered' \in Nat
      BY <2>3, <2>4
    <2>7. at \in Index
      BY <1>a, <1>4, Parts, LengthType DEF Answered, UnderWay, Index
    <2>8. served' \in [Index -> Nat]
      BY <2>3, <2>4, <2>7, Bump
    <2> QED  BY <1>a, <1>4, <2>5, <2>6, <2>8 DEF Answered, TypeOK, call, Steps, Running, Ended
  <1>5. CASE Retryable \/ TimedOut
    <2>1. served' \in [Index -> Nat] /\ UNCHANGED <<op, texts, requests, cancelled>>
      BY <1>a, <1>5, Parts DEF Retryable, TimedOut, call
    <2>2. CASE GiveUp("exhausted")
      <3>1. at <= N
        BY <1>a, <1>5 DEF Retryable, TimedOut, UnderWay
      <3> QED  BY <1>a, <1>0, <2>1, <2>2, <3>1, GiveUpType DEF TypeOK, Failures
    <2>3. CASE ~GiveUp("exhausted")
      BY <1>a, <1>5, <2>1, <2>3 DEF Retryable, TimedOut, TypeOK, progress, Steps, Running
    <2> QED  BY <2>2, <2>3
  <1>6. CASE Fatal
    <2>1. served' \in [Index -> Nat] /\ UNCHANGED <<op, texts, requests, cancelled>>
      BY <1>a, <1>6, Parts DEF Fatal, call
    <2>2. at <= N /\ GiveUp("fatal")
      BY <1>a, <1>6 DEF Fatal, UnderWay
    <2> QED  BY <1>a, <1>0, <2>1, <2>2, GiveUpType DEF TypeOK, Failures
  <1>7. CASE Wake
    BY <1>a, <1>7 DEF Wake, TypeOK, call, progress, history, Steps, Running
  <1>8. CASE Cancel
    BY <1>a, <1>8 DEF Cancel, TypeOK, call, progress, Steps, Ended
  <1>9. CASE UNCHANGED vars
    BY <1>a, <1>9 DEF vars, call, progress, history, TypeOK
  <1> QED  BY <1>1, <1>2, <1>3, <1>4, <1>5, <1>6, <1>7, <1>8, <1>9 DEF Next, Done

-----------------------------------------------------------------------------
(* What every step leaves alone.                                           *)

\* A provider is being asked: it is one of the chain.
LEMMA InRange ==
    ASSUME TypeOK, at <= N
    PROVE  at \in Index
  BY Parts, LengthType DEF Index

LEMMA CallFixed == ASSUME [Next]_vars PROVE UNCHANGED <<op, texts>>
  BY DEF Next, vars, call, AllFailed, AskProvider, Send, Answered, Retryable, TimedOut, Fatal, Wake,
         Cancel, Done

LEMMA PostsFixed == ASSUME [Next]_vars PROVE \A p : Posts(p)' = Posts(p)
  <1>1. UNCHANGED <<op, texts>>
    BY CallFixed
  <1> QED  BY <1>1 DEF Posts

-----------------------------------------------------------------------------
(* The providers are asked in order.                                       *)

LEMMA GiveUpOrder ==
    ASSUME TypeOK, InOrder, at <= N, NEW why, why # "none", GiveUp(why), UNCHANGED requests
    PROVE  InOrder'
  <1>1. SUFFICES ASSUME NEW p \in Index
                 PROVE  /\ p < at' <=> raised'[p] # "none"
                        /\ requests'[p] > 0 => p <= at'
    BY DEF InOrder
  <1>2. at' = at + 1 /\ raised' = [raised EXCEPT ![at] = why] /\ requests' = requests
    BY DEF GiveUp
  <1>3. at \in Index /\ p \in Nat /\ at \in Nat /\ raised \in [Index -> Failures]
    BY InRange, Parts, LengthType DEF Index
  <1>4. (p < at <=> raised[p] # "none") /\ (requests[p] > 0 => p <= at)
    BY DEF InOrder
  <1>5. CASE p = at
    <2>1. raised'[p] = why
      BY <1>2, <1>3, <1>5
    <2>2. p < at' /\ p <= at'
      BY <1>2, <1>3, <1>5
    <2> QED  BY <2>1, <2>2
  <1>6. CASE p # at
    <2>1. raised'[p] = raised[p]
      BY <1>2, <1>3, <1>6
    <2>2. (p < at' <=> p < at) /\ (p <= at => p <= at')
      BY <1>2, <1>3, <1>6
    <2> QED  BY <1>2, <1>4, <2>1, <2>2
  <1> QED  BY <1>5, <1>6

LEMMA NextOrder ==
    ASSUME ChainInv, [Next]_vars
    PROVE  InOrder'
  <1>a. TypeOK /\ UnderWay /\ InOrder
    BY DEF ChainInv
  <1>b. ASSUME UNCHANGED <<at, raised, requests>> PROVE InOrder'
    BY <1>a, <1>b DEF InOrder
  <1>1. CASE AllFailed
    BY <1>b, <1>1 DEF AllFailed, history
  <1>2. CASE AskProvider
    <2>1. at <= N /\ UNCHANGED requests
      BY <1>2 DEF AskProvider
    <2>2. GiveUp("unsupported") \/ UNCHANGED <<at, raised>>
      BY <1>2 DEF AskProvider
    <2> QED  BY <1>a, <1>b, <2>1, <2>2, GiveUpOrder
  <1>3. CASE Send
    <2>1. UNCHANGED <<at, raised>> /\ requests' = [requests EXCEPT ![at] = @ + 1]
      BY <1>3 DEF Send
    <2>2. at \in Index /\ requests \in [Index -> Nat] /\ at \in Nat
      BY <1>a, <1>3, InRange, Parts DEF Send, UnderWay
    <2>3. \A p \in Index : p # at => requests'[p] = requests[p]
      BY <2>1, <2>2, Bump
    <2> QED  BY <1>a, <2>1, <2>2, <2>3 DEF InOrder
  <1>4. CASE Answered
    BY <1>b, <1>4 DEF Answered
  <1>5. CASE Retryable \/ TimedOut
    <2>1. at <= N /\ UNCHANGED requests
      BY <1>a, <1>5 DEF Retryable, TimedOut, UnderWay
    <2>2. GiveUp("exhausted") \/ UNCHANGED <<at, raised>>
      BY <1>5 DEF Retryable, TimedOut
    <2> QED  BY <1>a, <1>b, <2>1, <2>2, GiveUpOrder
  <1>6. CASE Fatal
    <2>1. at <= N /\ UNCHANGED requests /\ GiveUp("fatal")
      BY <1>a, <1>6 DEF Fatal, UnderWay
    <2> QED  BY <1>a, <2>1, GiveUpOrder
  <1>7. CASE Wake
    BY <1>b, <1>7 DEF Wake, history
  <1>8. CASE Cancel
    BY <1>b, <1>8 DEF Cancel
  <1>9. CASE UNCHANGED vars
    BY <1>b, <1>9 DEF vars, history
  <1> QED  BY <1>1, <1>2, <1>3, <1>4, <1>5, <1>6, <1>7, <1>8, <1>9 DEF Next, Done

-----------------------------------------------------------------------------
(* The attempts of each provider.                                          *)

LEMMA GiveUpBound ==
    ASSUME TypeOK, AttemptBound, [Next]_vars, at <= N, NEW why, GiveUp(why),
           UNCHANGED requests, why = "exhausted" => requests[at] >= Attempts(at)
    PROVE  AttemptBound'
  <1>1. SUFFICES ASSUME NEW p \in Index
                 PROVE  /\ requests'[p] <= Attempts(p) * Posts(p)'
                        /\ raised'[p] = "exhausted" => requests'[p] >= Attempts(p)
    BY DEF AttemptBound, Attempts
  <1>2. raised' = [raised EXCEPT ![at] = why] /\ requests' = requests
    BY DEF GiveUp
  <1>3. at \in Index /\ raised \in [Index -> Failures]
    BY InRange, Parts
  <1>4. /\ requests[p] <= Attempts(p) * Posts(p)
        /\ raised[p] = "exhausted" => requests[p] >= Attempts(p)
    BY DEF AttemptBound
  <1>5. Posts(p)' = Posts(p)
    BY PostsFixed
  <1>6. raised'[p] = "exhausted" => requests[p] >= Attempts(p)
    BY <1>2, <1>3, <1>4
  <1> QED  BY <1>2, <1>4, <1>5, <1>6

\* A request is sent only while the attempts of the current POST last.
LEMMA SendBound ==
    ASSUME TypeOK, UnderWay, step = "post"
    PROVE  /\ requests[at] + 1 <= Attempts(at) * Posts(at)
           /\ requests[at] + 1 <= Attempts(at) * answered + (posted + 1)
           /\ posted + 1 <= Attempts(at)
  <1>1. at \in Index
    BY InRange DEF UnderWay
  <1>2. /\ answered < Posts(at) /\ requests[at] <= Attempts(at) * answered + posted
        /\ posted < Attempts(at)
    BY DEF UnderWay
  <1>3. /\ Posts(at) \in Nat /\ Attempts(at) \in Nat /\ requests[at] \in Nat
        /\ answered \in Nat /\ posted \in Nat
    BY <1>1, PostsType, AttemptsType, Parts
  <1>4. Attempts(at) * answered + (posted + 1) <= Attempts(at) * Posts(at)
    BY <1>2, <1>3, OneMore
  <1>5. Attempts(at) * answered \in Nat /\ Attempts(at) * Posts(at) \in Nat
    BY <1>3
  <1> QED  BY <1>2, <1>3, <1>4, <1>5

LEMMA NextBound ==
    ASSUME ChainInv, [Next]_vars
    PROVE  AttemptBound'
  <1>a. TypeOK /\ UnderWay /\ AttemptBound
    BY DEF ChainInv
  <1>b. ASSUME UNCHANGED <<raised, requests>> PROVE AttemptBound'
    BY <1>a, <1>b, PostsFixed DEF AttemptBound, Attempts
  <1>1. CASE AllFailed
    BY <1>b, <1>1 DEF AllFailed, history
  <1>2. CASE AskProvider
    <2>1. at <= N /\ UNCHANGED requests
      BY <1>2 DEF AskProvider
    <2>2. GiveUp("unsupported") \/ UNCHANGED raised
      BY <1>2 DEF AskProvider
    <2> QED  BY <1>a, <1>b, <2>1, <2>2, GiveUpBound
  <1>3. CASE Send
    <2>1. /\ UNCHANGED raised /\ step = "post"
          /\ requests' = [requests EXCEPT ![at] = @ + 1]
      BY <1>3 DEF Send
    <2>2. at \in Index /\ requests \in [Index -> Nat]
      BY <1>a, <1>3, InRange, Parts DEF Send, UnderWay
    <2>3. /\ requests'[at] = requests[at] + 1
          /\ \A p \in Index : p # at => requests'[p] = requests[p]
      BY <2>1, <2>2, Bump
    <2>4. requests[at] + 1 <= Attempts(at) * Posts(at)
      BY <1>a, <2>1, SendBound
    <2>5. SUFFICES ASSUME NEW p \in Index
                   PROVE  /\ requests'[p] <= Attempts(p) * Posts(p)'
                          /\ raised'[p] = "exhausted" => requests'[p] >= Attempts(p)
      BY DEF AttemptBound, Attempts
    <2>6. /\ requests[p] <= Attempts(p) * Posts(p)
          /\ raised[p] = "exhausted" => requests[p] >= Attempts(p)
          /\ Posts(p)' = Posts(p)
      BY <1>a, PostsFixed DEF AttemptBound
    <2>7. requests'[p] <= Attempts(p) * Posts(p)
      BY <2>3, <2>4, <2>6
    <2>8. requests[p] \in Nat /\ requests'[p] \in {requests[p], requests[p] + 1}
          /\ Attempts(p) \in Nat
      BY <2>2, <2>3, AttemptsType
    <2>9. raised'[p] = "exhausted" => requests'[p] >= Attempts(p)
      BY <2>1, <2>6, <2>8
    <2> QED  BY <2>6, <2>7, <2>9
  <1>4. CASE Answered
    BY <1>b, <1>4 DEF Answered
  <1>5. CASE Retryable \/ TimedOut
    <2>1. at <= N /\ UNCHANGED requests /\ step = "sent"
      BY <1>a, <1>5 DEF Retryable, TimedOut, UnderWay
    <2>2. CASE posted < Attempts(at)
      BY <1>b, <1>5, <2>1, <2>2 DEF Retryable, TimedOut
    <2>3. CASE ~(posted < Attempts(at))
      <3>1. GiveUp("exhausted")
        BY <1>5, <2>3 DEF Retryable, TimedOut
      <3>2. posted <= requests[at]
        BY <1>a, <2>1 DEF UnderWay
      <3>3. posted \in Nat /\ requests[at] \in Nat /\ Attempts(at) \in Nat
        BY <1>a, <2>1, InRange, Parts, AttemptsType
      <3>4. requests[at] >= Attempts(at)
        BY <2>3, <3>2, <3>3
      <3> QED  BY <1>a, <2>1, <3>1, <3>4, GiveUpBound
    <2> QED  BY <2>2, <2>3
  <1>6. CASE Fatal
    <2>1. at <= N /\ UNCHANGED requests /\ GiveUp("fatal")
      BY <1>a, <1>6 DEF Fatal, UnderWay
    <2> QED  BY <1>a, <2>1, GiveUpBound
  <1>7. CASE Wake
    BY <1>b, <1>7 DEF Wake, history
  <1>8. CASE Cancel
    BY <1>b, <1>8 DEF Cancel
  <1>9. CASE UNCHANGED vars
    BY <1>b, <1>9 DEF vars, history
  <1> QED  BY <1>1, <1>2, <1>3, <1>4, <1>5, <1>6, <1>7, <1>8, <1>9 DEF Next, Done

-----------------------------------------------------------------------------
(* A provider under way.                                                   *)

LEMMA AskUnderWay ==
    ASSUME TypeOK, Phases, AskProvider, [Next]_vars
    PROVE  UnderWay'
  <1>1. CASE GiveUp("unsupported")
    BY <1>1 DEF GiveUp, UnderWay
  <1>2. CASE ~GiveUp("unsupported")
    <2>1. /\ step = "ask" /\ at <= N /\ ~(op = "embed" /\ Providers[at].kind = "anthropic")
          /\ step' = IF Posts(at) = 0 THEN "returned" ELSE "post"
          /\ UNCHANGED <<op, texts, at, posted, answered, vectors, requests, served>>
      BY <1>2 DEF AskProvider, progress, call
    <2>2. posted = 0 /\ answered = 0 /\ vectors = 0 /\ requests[at] = 0
      BY <2>1 DEF Phases
    <2>3. /\ Posts(at) \in Nat /\ Attempts(at) \in Nat /\ 1 <= Attempts(at)
          /\ served[at] \in Nat
      BY <2>1, InRange, PostsType, AttemptsType, Parts
    <2>4. SUFFICES ASSUME Posts(at) # 0 PROVE UnderWay'
      BY <2>1 DEF UnderWay
    <2>5. step' = "post" /\ Posts(at)' = Posts(at)
      BY <2>1, <2>4, PostsFixed
    <2>6. answered < Posts(at)
      BY <2>2, <2>3, <2>4
    <2>7. requests[at] <= Attempts(at) * answered + posted
      BY <2>2, <2>3
    <2>8. posted <= requests[at] /\ answered <= served[at] /\ posted < Attempts(at)
          /\ posted <= Attempts(at) /\ vectors = answered
      BY <2>2, <2>3
    <2> QED  BY <2>1, <2>5, <2>6, <2>7, <2>8 DEF UnderWay, Attempts
  <1> QED  BY <1>1, <1>2

LEMMA SendUnderWay ==
    ASSUME TypeOK, UnderWay, Send, [Next]_vars
    PROVE  UnderWay'
  <1>1. /\ step = "post" /\ step' = "sent" /\ posted' = posted + 1
        /\ requests' = [requests EXCEPT ![at] = @ + 1]
        /\ UNCHANGED <<op, texts, at, answered, vectors, served>>
    BY DEF Send, call
  <1>2. at \in Index /\ requests \in [Index -> Nat] /\ posted \in Nat
    BY <1>1, InRange, Parts DEF UnderWay
  <1>3. requests'[at] = requests[at] + 1 /\ requests[at] \in Nat
    BY <1>1, <1>2, Bump
  <1>4. /\ requests'[at] <= Attempts(at) * answered + posted'
        /\ posted' <= Attempts(at)
    BY <1>1, <1>3, SendBound
  <1>5. posted' <= requests'[at]
    BY <1>1, <1>2, <1>3 DEF UnderWay
  <1>6. Posts(at)' = Posts(at)
    BY <1>1, PostsFixed
  <1>7. /\ at <= N /\ ~(op = "embed" /\ Providers[at].kind = "anthropic")
        /\ answered < Posts(at) /\ answered <= served[at]
        /\ op = "embed" /\ Providers[at].kind = "local" => vectors = answered
    BY <1>1 DEF UnderWay
  <1> QED  BY <1>1, <1>4, <1>5, <1>6, <1>7 DEF UnderWay, Attempts

\* An answer counts as one more POST of the provider, and of a Local one as
\* one more vector.
LEMMA AnsweredCounts ==
    ASSUME TypeOK, UnderWay, Answered
    PROVE  /\ at \in Index /\ at <= N /\ at' = at /\ UNCHANGED <<op, texts, requests>>
           /\ posted' = 0 /\ answered' = answered + 1
           /\ served'[at] = served[at] + 1
           /\ answered' <= served'[at] /\ answered' <= Posts(at)
           /\ op = "embed" /\ Providers[at].kind = "local" => vectors' = answered'
  <1>1. /\ step = "sent" /\ at' = at /\ UNCHANGED <<op, texts, requests>>
        /\ posted' = 0 /\ answered' = answered + 1
        /\ served' = [served EXCEPT ![at] = @ + 1]
    BY DEF Answered, call
  <1>2. /\ at <= N /\ answered <= served[at] /\ answered < Posts(at)
        /\ op = "embed" /\ Providers[at].kind = "local" => vectors = answered
    BY <1>1 DEF UnderWay
  <1>3. /\ at \in Index /\ served \in [Index -> Nat] /\ answered \in Nat
        /\ Posts(at) \in Nat
    BY <1>2, InRange, Parts, PostsType
  <1>4. served'[at] = served[at] + 1 /\ served[at] \in Nat
    BY <1>1, <1>3, Bump
  <1>5. answered' <= served'[at] /\ answered' <= Posts(at)
    BY <1>1, <1>2, <1>3, <1>4
  <1>6. op = "embed" /\ Providers[at].kind = "local" => vectors' = vectors + 1
    BY DEF Answered, Vectors
  <1> QED  BY <1>1, <1>2, <1>3, <1>4, <1>5, <1>6

LEMMA AnsweredUnderWay ==
    ASSUME TypeOK, UnderWay, Answered, [Next]_vars
    PROVE  UnderWay'
  <1>1. SUFFICES ASSUME answered + 1 < Posts(at) PROVE UnderWay'
    BY DEF Answered, UnderWay
  <1>2. step = "sent" /\ step' = "post"
    BY <1>1 DEF Answered
  <1>3. /\ requests[at] <= Attempts(at) * answered + posted /\ posted <= Attempts(at)
        /\ ~(op = "embed" /\ Providers[at].kind = "anthropic")
    BY <1>2 DEF UnderWay
  <1>4. /\ requests[at] \in Nat /\ Attempts(at) \in Nat /\ 1 <= Attempts(at)
        /\ answered \in Nat /\ posted \in Nat
    BY AnsweredCounts, AttemptsType, Parts
  <1>5. /\ Attempts(at) * answered + posted <= Attempts(at) * (answered + 1)
        /\ Attempts(at) * (answered + 1) \in Nat /\ Attempts(at) * answered \in Nat
    BY <1>3, <1>4, NextPost
  <1>6. requests[at] <= Attempts(at) * (answered + 1) + 0
    BY <1>3, <1>4, <1>5
  <1>7. /\ at' = at /\ UNCHANGED <<op, texts, requests>> /\ posted' = 0
        /\ answered' = answered + 1 /\ answered' <= served'[at] /\ at <= N
        /\ op = "embed" /\ Providers[at].kind = "local" => vectors' = answered'
    BY AnsweredCounts
  <1>8. Posts(at)' = Posts(at)
    BY <1>7, PostsFixed
  <1>9. 0 <= requests[at] /\ 0 <= Attempts(at) /\ 0 < Attempts(at)
    BY <1>4
  <1> QED  BY <1>1, <1>2, <1>3, <1>6, <1>7, <1>8, <1>9 DEF UnderWay, Attempts

\* The service may or may not have worked on a request whose answer is lost.
LEMMA RetryableUnderWay ==
    ASSUME TypeOK, UnderWay, Retryable \/ TimedOut, [Next]_vars
    PROVE  UnderWay'
  <1>1. CASE GiveUp("exhausted")
    BY <1>1 DEF GiveUp, UnderWay
  <1>2. CASE ~GiveUp("exhausted")
    <2>1. /\ step = "sent" /\ posted < Attempts(at) /\ step' = "sleep"
          /\ UNCHANGED <<op, texts, at, posted, answered, vectors, requests>>
      BY <1>2 DEF Retryable, TimedOut, progress, call
    <2>2. served' = served \/ served' = [served EXCEPT ![at] = @ + 1]
      BY DEF Retryable, TimedOut
    <2>3. at \in Index /\ served \in [Index -> Nat] /\ answered \in Nat
      BY <2>1, InRange, Parts DEF UnderWay
    <2>4. served'[at] \in {served[at], served[at] + 1} /\ served[at] \in Nat
      BY <2>2, <2>3, Bump
    <2>5. answered <= served[at]
      BY <2>1 DEF UnderWay
    <2>6. answered <= served'[at]
      BY <2>3, <2>4, <2>5
    <2>7. Posts(at)' = Posts(at)
      BY <2>1, PostsFixed
    <2> QED  BY <2>1, <2>6, <2>7 DEF UnderWay, Attempts
  <1> QED  BY <1>1, <1>2

LEMMA NextUnderWay ==
    ASSUME ChainInv, [Next]_vars
    PROVE  UnderWay'
  <1>a. TypeOK /\ UnderWay /\ Phases
    BY DEF ChainInv
  <1>1. CASE AllFailed
    BY <1>1 DEF AllFailed, UnderWay
  <1>2. CASE AskProvider
    BY <1>a, <1>2, AskUnderWay
  <1>3. CASE Send
    BY <1>a, <1>3, SendUnderWay
  <1>4. CASE Answered
    BY <1>a, <1>4, AnsweredUnderWay
  <1>5. CASE Retryable \/ TimedOut
    BY <1>a, <1>5, RetryableUnderWay
  <1>6. CASE Fatal
    BY <1>6 DEF Fatal, GiveUp, UnderWay
  <1>7. CASE Wake
    <2>1. /\ step = "sleep" /\ step' = "post"
          /\ UNCHANGED <<op, texts, at, posted, answered, vectors, requests, served>>
      BY <1>7 DEF Wake, call, progress, history
    <2>2. Posts(at)' = Posts(at)
      BY <2>1, PostsFixed
    <2> QED  BY <1>a, <2>1, <2>2 DEF UnderWay, Attempts
  <1>8. CASE Cancel
    BY <1>8 DEF Cancel, UnderWay
  <1>9. CASE UNCHANGED vars
    <2>1. UNCHANGED <<op, texts, at, step, posted, answered, vectors, requests, served>>
      BY <1>9 DEF vars, call, progress, history
    <2>2. Posts(at)' = Posts(at)
      BY <2>1, PostsFixed
    <2> QED  BY <1>a, <2>1, <2>2 DEF UnderWay, Attempts
  <1> QED  BY <1>1, <1>2, <1>3, <1>4, <1>5, <1>6, <1>7, <1>8, <1>9 DEF Next, Done

-----------------------------------------------------------------------------
(* The answer is whole.                                                    *)

\* An OpenAI-compatible embed asked with no texts still posts; only Local
\* answers without a request, with no vectors.
LEMMA AskAnswer ==
    ASSUME TypeOK, Phases, AskProvider, [Next]_vars
    PROVE  WholeAnswer'
  <1>1. CASE GiveUp("unsupported")
    BY <1>1 DEF GiveUp, WholeAnswer
  <1>2. CASE ~GiveUp("unsupported")
    <2>1. /\ step = "ask" /\ at <= N
          /\ step' = IF Posts(at) = 0 THEN "returned" ELSE "post"
          /\ UNCHANGED <<op, texts, at, answered, vectors, served>>
      BY <1>2 DEF AskProvider, progress, call
    <2>2. SUFFICES ASSUME Posts(at) = 0 PROVE WholeAnswer'
      BY <2>1 DEF WholeAnswer
    <2>3. answered = 0 /\ vectors = 0
      BY <2>1 DEF Phases
    <2>4. texts = 0
      BY <2>2 DEF Posts
    <2>5. served[at] >= 0
      BY <2>1, InRange, Parts
    <2>6. Posts(at)' = 0
      BY <2>2, <2>1, PostsFixed
    <2> QED  BY <2>1, <2>3, <2>4, <2>5, <2>6 DEF WholeAnswer
  <1> QED  BY <1>1, <1>2

LEMMA KindType ==
    ASSUME NEW p \in Index
    PROVE  Providers[p].kind \in {"anthropic", "openai", "local"}
  <1> DEFINE S == [kind : Kinds, attempts : Nat]
  <1>1. Providers \in Seq(S) /\ p \in 1..Len(Providers)
    BY ProvidersAssumption DEF Index, N
  <1> HIDE DEF S
  <1>2. Providers[p] \in S
    BY <1>1
  <1> QED  BY <1>2 DEF S, Kinds

LEMMA LastAnswer ==
    ASSUME TypeOK, UnderWay, Answered, [Next]_vars
    PROVE  WholeAnswer'
  <1>1. SUFFICES ASSUME ~(answered + 1 < Posts(at)) PROVE WholeAnswer'
    BY DEF Answered, WholeAnswer
  <1>2. /\ at \in Index /\ at <= N /\ at' = at /\ UNCHANGED <<op, texts>>
        /\ answered' = answered + 1 /\ answered' <= served'[at] /\ answered' <= Posts(at)
        /\ op = "embed" /\ Providers[at].kind = "local" => vectors' = answered'
        /\ served'[at] = served[at] + 1
    BY AnsweredCounts
  <1>3. answered \in Nat /\ Posts(at) \in Nat /\ served[at] \in Nat
    BY <1>2, Parts, PostsType
  <1>4. answered' = Posts(at)
    BY <1>1, <1>2, <1>3
  <1>5. served'[at] >= Posts(at)
    BY <1>2, <1>3, <1>4
  <1>6. ~(op = "embed" /\ Providers[at].kind = "anthropic")
    BY DEF Answered, UnderWay
  <1>7. op = "embed" /\ vectors' # texts => Providers[at].kind = "openai"
    BY <1>2, <1>4, <1>6, KindType DEF Posts
  <1>8. Posts(at)' = Posts(at)
    BY <1>2, PostsFixed
  <1> QED  BY <1>2, <1>4, <1>5, <1>7, <1>8 DEF WholeAnswer

LEMMA NextAnswer ==
    ASSUME ChainInv, [Next]_vars
    PROVE  WholeAnswer'
  <1>a. TypeOK /\ UnderWay /\ Phases /\ WholeAnswer
    BY DEF ChainInv
  <1>1. CASE AskProvider
    BY <1>a, <1>1, AskAnswer
  <1>2. CASE Answered
    BY <1>a, <1>2, LastAnswer
  <1>3. CASE AllFailed \/ Send \/ Retryable \/ TimedOut \/ Fatal \/ Wake \/ Cancel
    BY <1>3 DEF AllFailed, Send, Retryable, TimedOut, Fatal, Wake, Cancel, GiveUp, WholeAnswer
  <1>4. CASE UNCHANGED vars
    <2>1. UNCHANGED <<op, texts, at, step, answered, vectors, served>>
      BY <1>4 DEF vars, call, progress, history
    <2>2. Posts(at)' = Posts(at)
      BY <2>1, PostsFixed
    <2> QED  BY <1>a, <2>1, <2>2 DEF WholeAnswer
  <1> QED  BY <1>1, <1>2, <1>3, <1>4 DEF Next, Done

-----------------------------------------------------------------------------
(* Each provider starts from nothing.                                      *)

LEMMA GiveUpPhases ==
    ASSUME TypeOK, InOrder, at <= N, NEW why, GiveUp(why), UNCHANGED <<requests, cancelled>>,
           ~cancelled
    PROVE  Phases'
  <1>1. /\ at' = at + 1 /\ step' = "ask" /\ posted' = 0 /\ answered' = 0 /\ vectors' = 0
        /\ requests' = requests /\ ~cancelled'
    BY DEF GiveUp
  <1>2. ASSUME at' <= N PROVE requests'[at'] = 0
    <2>1. at \in Nat /\ at' \in Index
      BY <1>1, <1>2, Parts, LengthType DEF Index
    <2>2. ~(at' <= at) /\ requests[at'] \in Nat
      BY <1>1, <2>1, Parts
    <2>3. ~(requests[at'] > 0)
      BY <2>1, <2>2 DEF InOrder
    <2> QED  BY <1>1, <2>2, <2>3
  <1> QED  BY <1>1, <1>2 DEF Phases

LEMMA NextPhases ==
    ASSUME ChainInv, [Next]_vars
    PROVE  Phases'
  <1>a. TypeOK /\ UnderWay /\ Phases /\ InOrder
    BY DEF ChainInv
  <1>1. CASE AllFailed
    BY <1>a, <1>1 DEF AllFailed, progress, history, Phases
  <1>2. CASE AskProvider
    <2>1. at <= N /\ step = "ask" /\ ~cancelled /\ UNCHANGED <<requests, cancelled>>
      BY <1>a, <1>2 DEF AskProvider, Phases
    <2>2. CASE GiveUp("unsupported")
      BY <1>a, <2>1, <2>2, GiveUpPhases
    <2>3. CASE ~GiveUp("unsupported")
      <3>1. at' = at /\ step' \in {"post", "returned"}
        BY <1>2, <2>3 DEF AskProvider
      <3> QED  BY <2>1, <3>1 DEF Phases
    <2> QED  BY <2>2, <2>3
  <1>3. CASE Send
    BY <1>a, <1>3 DEF Send, Phases
  <1>4. CASE Answered
    <2>1. step = "sent" /\ at <= N /\ at' = at /\ ~cancelled /\ cancelled' = cancelled
          /\ step' \in {"post", "returned"}
      BY <1>a, <1>4 DEF Answered, UnderWay, Phases
    <2> QED  BY <2>1 DEF Phases
  <1>5. CASE Retryable \/ TimedOut
    <2>1. at <= N /\ ~cancelled /\ UNCHANGED <<requests, cancelled>>
      BY <1>a, <1>5 DEF Retryable, TimedOut, UnderWay, Phases
    <2>2. CASE GiveUp("exhausted")
      BY <1>a, <2>1, <2>2, GiveUpPhases
    <2>3. CASE ~GiveUp("exhausted")
      BY <1>5, <2>1, <2>3 DEF Retryable, TimedOut, Phases
    <2> QED  BY <2>2, <2>3
  <1>6. CASE Fatal
    <2>1. at <= N /\ ~cancelled /\ UNCHANGED <<requests, cancelled>> /\ GiveUp("fatal")
      BY <1>a, <1>6 DEF Fatal, UnderWay, Phases
    <2> QED  BY <1>a, <2>1, GiveUpPhases
  <1>7. CASE Wake
    BY <1>a, <1>7 DEF Wake, history, Phases
  <1>8. CASE Cancel
    <2>1. at <= N /\ at' = at /\ step' = "cancelled" /\ cancelled' = TRUE
      BY <1>a, <1>8 DEF Cancel, UnderWay
    <2> QED  BY <2>1 DEF Phases
  <1>9. CASE UNCHANGED vars
    BY <1>a, <1>9 DEF vars, progress, history, Phases
  <1> QED  BY <1>1, <1>2, <1>3, <1>4, <1>5, <1>6, <1>7, <1>8, <1>9 DEF Next, Done

-----------------------------------------------------------------------------
(* The theorems.                                                           *)

LEMMA InitChain == Init => ChainInv
  <1> SUFFICES ASSUME Init PROVE ChainInv
    OBVIOUS
  <1>1. TypeOK
    BY InitType
  <1>2. /\ at = 1 /\ step = "ask" /\ posted = 0 /\ answered = 0 /\ vectors = 0
        /\ requests = [p \in Index |-> 0] /\ raised = [p \in Index |-> "none"] /\ ~cancelled
    BY DEF Init
  <1>3. InOrder
    BY <1>2, LengthType DEF InOrder, Index
  <1>4. ASSUME NEW p \in Index PROVE requests[p] <= Attempts(p) * Posts(p)
    <2>1. Attempts(p) \in Nat /\ Posts(p) \in Nat
      BY <1>1, AttemptsType, PostsType
    <2>2. Attempts(p) * Posts(p) \in Nat
      BY <2>1
    <2> QED  BY <1>2, <2>2
  <1>5. AttemptBound
    BY <1>2, <1>4 DEF AttemptBound
  <1>6. WholeAnswer /\ UnderWay
    BY <1>2 DEF WholeAnswer, UnderWay
  <1>7. at <= N => requests[at] = 0
    BY <1>1, <1>2, InRange
  <1>8. Phases
    BY <1>2, <1>7 DEF Phases
  <1> QED  BY <1>1, <1>3, <1>5, <1>6, <1>8 DEF ChainInv

LEMMA NextChain == ChainInv /\ [Next]_vars => ChainInv'
  BY NextType, NextOrder, NextBound, NextAnswer, NextUnderWay, NextPhases DEF ChainInv

\* The strengthened invariant holds throughout a call.
THEOREM ChainHolds == Spec => []ChainInv
  <1> QED  BY InitChain, NextChain, PTL DEF Spec

\* The call is always at one of its providers, or past the last.
THEOREM TypeCorrect == Spec => []TypeOK
  <1>1. ChainInv => TypeOK
    BY DEF ChainInv
  <1> QED  BY <1>1, ChainHolds, PTL

\* ProviderChain asks a provider only once all those before it have raised in
\* this call, and never one that has raised.
THEOREM AskedInOrder == Spec => []InOrder
  <1>1. ChainInv => InOrder
    BY DEF ChainInv
  <1> QED  BY <1>1, ChainHolds, PTL

\* _post_json never sends more requests than max(1, attempts) for each POST of
\* the operation, and gives up on a retryable failure only after them all.
THEOREM AttemptsBounded == Spec => []AttemptBound
  <1>1. ChainInv => AttemptBound
    BY DEF ChainInv
  <1> QED  BY <1>1, ChainHolds, PTL

\* What the chain returns is the answer of one provider to all its POSTs; only
\* an OpenAI-compatible embed may return another number of vectors than texts.
THEOREM AnswersWhole == Spec => []WholeAnswer
  <1>1. ChainInv => WholeAnswer
    BY DEF ChainInv
  <1> QED  BY <1>1, ChainHolds, PTL

LEMMA CancelStep ==
    ASSUME ChainInv, [Next]_vars, cancelled
    PROVE  requests' = requests /\ cancelled'
  <1>1. step = "cancelled"
    BY DEF ChainInv, Phases
  <1> QED  BY <1>1 DEF Next, AllFailed, AskProvider, Send, Answered, Retryable, TimedOut, Fatal, Wake,
                       Cancel, Done, Ended, vars, history

\* Nothing catches the CancelledError: a cancelled call sends no request.
THEOREM CancelFinal == Spec => CancelIsFinal
  <1>1. ChainInv /\ [Next]_vars => [cancelled => requests' = requests /\ cancelled']_vars
    BY CancelStep
  <1> QED  BY <1>1, ChainHolds, PTL DEF Spec, CancelIsFinal

-----------------------------------------------------------------------------
(* The chain implements Failover.                                          *)

\* Giving up a provider is the abstract GiveUp, whatever made it fail.
LEMMA GiveUpImplements ==
    ASSUME TypeOK, at <= N, step \in Running, NEW why, GiveUp(why)
    PROVE  Chain!GiveUp
  <1>1. at \in Nat /\ at >= 1 /\ N \in Nat
    BY Parts, LengthType
  <1>2. at' = at + 1 /\ step' = "ask"
    BY DEF GiveUp
  <1>3. Outcome = "open" /\ Outcome' = "open"
    BY <1>2 DEF Outcome, Running
  <1>4. at - 1 < N /\ (at - 1)' = (at - 1) + 1
    BY <1>1, <1>2
  <1> QED  BY <1>3, <1>4 DEF Chain!GiveUp

LEMMA NextImplements ==
    ASSUME ChainInv, [Next]_vars
    PROVE  [Chain!Next]_(Chain!fvars)
  <1>a. TypeOK /\ UnderWay /\ Phases
    BY DEF ChainInv
  <1>b. ASSUME UNCHANGED <<at, Outcome>> PROVE UNCHANGED Chain!fvars
    BY <1>b DEF Chain!fvars
  <1>c. at \in Nat /\ N \in Nat /\ at <= N + 1
    BY <1>a, Parts, LengthType
  <1>1. CASE AllFailed
    <2>1. step = "ask" /\ at = N + 1 /\ step' = "raised" /\ at' = at
      BY <1>1 DEF AllFailed
    <2>2. Outcome = "open" /\ Outcome' = "failed"
      BY <2>1 DEF Outcome
    <2>3. at - 1 = N /\ (at - 1)' = at - 1
      BY <1>c, <2>1
    <2> QED  BY <2>2, <2>3 DEF Chain!Next, Chain!Fail
  <1>2. CASE AskProvider
    <2>1. step = "ask" /\ at <= N
      BY <1>2 DEF AskProvider
    <2>2. CASE GiveUp("unsupported")
      BY <1>a, <2>1, <2>2, GiveUpImplements DEF Running, Chain!Next
    <2>3. CASE ~GiveUp("unsupported") /\ step' = "returned"
      <3>1. at' = at
        BY <1>2, <2>3 DEF AskProvider
      <3>2. Outcome = "open" /\ Outcome' = "answered"
        BY <2>1, <2>3 DEF Outcome
      <3>3. at - 1 < N /\ (at - 1)' = at - 1
        BY <1>c, <2>1, <3>1
      <3> QED  BY <3>2, <3>3 DEF Chain!Next, Chain!Answer
    <2>4. CASE ~GiveUp("unsupported") /\ step' # "returned"
      <3>1. at' = at /\ step' = "post"
        BY <1>2, <2>4 DEF AskProvider
      <3> QED  BY <1>b, <2>1, <3>1 DEF Outcome
    <2> QED  BY <2>2, <2>3, <2>4
  <1>3. CASE Send
    BY <1>b, <1>3 DEF Send, Outcome
  <1>4. CASE Answered
    <2>1. step = "sent" /\ at' = at /\ at <= N /\ step' \in {"post", "returned"}
      BY <1>a, <1>4 DEF Answered, UnderWay
    <2>2. CASE step' = "post"
      BY <1>b, <2>1, <2>2 DEF Outcome
    <2>3. CASE step' = "returned"
      <3>1. Outcome = "open" /\ Outcome' = "answered"
        BY <2>1, <2>3 DEF Outcome
      <3>2. at - 1 < N /\ (at - 1)' = at - 1
        BY <1>c, <2>1
      <3> QED  BY <3>1, <3>2 DEF Chain!Next, Chain!Answer
    <2> QED  BY <2>1, <2>2, <2>3
  <1>5. CASE Retryable \/ TimedOut
    <2>1. step = "sent" /\ at <= N
      BY <1>a, <1>5 DEF Retryable, TimedOut, UnderWay
    <2>2. CASE GiveUp("exhausted")
      BY <1>a, <2>1, <2>2, GiveUpImplements DEF Running, Chain!Next
    <2>3. CASE ~GiveUp("exhausted")
      <3>1. at' = at /\ step' = "sleep"
        BY <1>5, <2>3 DEF Retryable, TimedOut
      <3> QED  BY <1>b, <2>1, <3>1 DEF Outcome
    <2> QED  BY <2>2, <2>3
  <1>6. CASE Fatal
    <2>1. step \in Running /\ at <= N /\ GiveUp("fatal")
      BY <1>a, <1>6 DEF Fatal, UnderWay, Running
    <2> QED  BY <1>a, <2>1, GiveUpImplements DEF Chain!Next
  <1>7. CASE Wake
    BY <1>b, <1>7 DEF Wake, Outcome
  <1>8. CASE Cancel
    <2>1. step \in {"sent", "sleep"} /\ step' = "cancelled" /\ at' = at
      BY <1>8 DEF Cancel
    <2>2. Outcome = "open" /\ Outcome' = "cancelled" /\ (at - 1)' = at - 1
      BY <2>1 DEF Outcome
    <2> QED  BY <2>2 DEF Chain!Next, Chain!Cancel
  <1>9. CASE UNCHANGED vars
    BY <1>b, <1>9 DEF vars, Outcome
  <1> QED  BY <1>1, <1>2, <1>3, <1>4, <1>5, <1>6, <1>7, <1>8, <1>9 DEF Next, Done

\* Every step of the call is a step of Failover or leaves it alone: the chain
\* keeps the safety part of what a fallback chain promises.  That it ends is
\* left to FailoverSpec, which TLC checks.
THEOREM Implements == Spec => Chain!Spec
  <1>1. Init => Chain!Init
    BY DEF Init, Chain!Init, Outcome
  <1>2. ChainInv /\ [Next]_vars => [Chain!Next]_(Chain!fvars)
    BY NextImplements
  <1> QED  BY <1>1, <1>2, ChainHolds, PTL DEF Spec, Chain!Spec
=============================================================================
