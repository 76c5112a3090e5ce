---------------------------- MODULE Builder_proofs ----------------------------
(* Proofs about the builders of one process, for any finite number of      *)
(* threads, any frames and any number of commits.                          *)
EXTENDS Builder, FiniteSetTheorems, TLAPS

LEMMA HeadType == ASSUME PlacesInv PROVE head \in Nat /\ MaxHead \in Nat /\ 0..head \subseteq 0..MaxHead
  BY MaxHeadAssumption DEF PlacesInv

\* One thread moves on.
LEMMA GotoType ==
    ASSUME PlacesInv, NEW t \in Thread, NEW from, NEW to \in Places, Goto(t, from, to)
    PROVE  /\ pc' \in [Thread -> Places] /\ pc[t] = from /\ pc'[t] = to
           /\ \A u \in Thread : u # t => pc'[u] = pc[u]
  BY DEF PlacesInv, Goto

-----------------------------------------------------------------------------
(* PlacesInv.                                                              *)

\* A step of thread t that gives it no version and no frame.
LEMMA PlainStep ==
    ASSUME PlacesInv, NEW t \in Thread, NEW from, NEW to \in Places, Goto(t, from, to),
           UNCHANGED <<version, frame, head>>,
           cache' \in {NoVersion, Unknown} \union 0..head,
           to \in Holding => from \in Holding,
           from = "idle" => to = "idle"
    PROVE  PlacesInv'
  <1>1. /\ pc' \in [Thread -> Places] /\ pc[t] = from /\ pc'[t] = to
        /\ \A u \in Thread : u # t => pc'[u] = pc[u]
    BY GotoType
  <1>2. ASSUME NEW u \in Thread
        PROVE  /\ pc'[u] \in Holding => version[u] \in {Unknown} \union 0..head
               /\ pc'[u] # "idle" => frame[u] \in Frames
    BY <1>1 DEF PlacesInv
  <1> QED  BY <1>1, <1>2 DEF PlacesInv

\* A step of thread t that gives it a version.
LEMMA ToldStep ==
    ASSUME PlacesInv, NEW t \in Thread, NEW from, NEW to \in Places, Goto(t, from, to),
           from # "idle", NEW v, v \in {Unknown} \union 0..head,
           version' = [version EXCEPT ![t] = v], UNCHANGED <<frame, cache, head>>
    PROVE  PlacesInv'
  <1>1. /\ pc' \in [Thread -> Places] /\ pc[t] = from /\ pc'[t] = to
        /\ \A u \in Thread : u # t => pc'[u] = pc[u]
    BY GotoType
  <1>2. v \in Versions
    BY HeadType DEF Versions
  <1>3. version' \in [Thread -> {NoVersion} \union Versions]
    BY <1>2 DEF PlacesInv
  <1>4. version'[t] = v /\ \A u \in Thread : u # t => version'[u] = version[u]
    BY DEF PlacesInv
  <1>5. ASSUME NEW u \in Thread
        PROVE  /\ pc'[u] \in Holding => version'[u] \in {Unknown} \union 0..head
               /\ pc'[u] # "idle" => frame[u] \in Frames
    BY <1>1, <1>4 DEF PlacesInv
  <1> QED  BY <1>1, <1>3, <1>5 DEF PlacesInv

LEMMA NextPlaces ==
    ASSUME PlacesInv, [Next]_vars
    PROVE  PlacesInv'
  <1>a. Places = {"idle", "version", "ask", "told", "dirty", "validate", "write"}
        /\ Holding = {"told", "dirty", "validate", "write"}
    BY DEF Places, Holding
  <1>b. cache \in {NoVersion, Unknown} \union 0..head
    BY DEF PlacesInv
  <1>1. ASSUME NEW t \in Thread, Begin(t) PROVE PlacesInv'
    <2>1. Goto(t, "idle", "version") /\ UNCHANGED <<version, cache, head>>
      BY <1>1 DEF Begin, checkout
    <2>2. PICK f \in Frames : frame' = [frame EXCEPT ![t] = f]
      BY <1>1 DEF Begin
    <2>3. /\ pc' \in [Thread -> Places] /\ pc'[t] = "version"
          /\ \A u \in Thread : u # t => pc'[u] = pc[u]
      BY <1>a, <2>1, GotoType
    <2>4. /\ frame' \in [Thread -> {NoFrame} \union Frames] /\ frame'[t] = f
          /\ \A u \in Thread : u # t => frame'[u] = frame[u]
      BY <2>2 DEF PlacesInv
    <2>5. ASSUME NEW u \in Thread
          PROVE  /\ pc'[u] \in Holding => version[u] \in {Unknown} \union 0..head
                 /\ pc'[u] # "idle" => frame'[u] \in Frames
      BY <1>a, <2>3, <2>4 DEF PlacesInv
    <2> QED  BY <2>1, <2>3, <2>4, <2>5 DEF PlacesInv
  <1>2. ASSUME NEW t \in Thread, Hit(t) PROVE PlacesInv'
    <2>1. /\ Goto(t, "version", "dirty") /\ version' = [version EXCEPT ![t] = cache]
          /\ cache # NoVersion /\ UNCHANGED <<frame, cache, head>>
      BY <1>2 DEF Hit, checkout
    <2> QED  BY <1>a, <1>b, <2>1, ToldStep
  <1>3. ASSUME NEW t \in Thread, Ask(t) PROVE PlacesInv'
    <2> DEFINE v == IF works THEN head ELSE Unknown
    <2>1. /\ Goto(t, "ask", "told") /\ version' = [version EXCEPT ![t] = v]
          /\ UNCHANGED <<frame, cache, head>>
      BY <1>3 DEF Ask, checkout
    <2>2. v \in {Unknown} \union 0..head
      BY HeadType
    <2> HIDE DEF v
    <2> QED  BY <1>a, <2>1, <2>2, ToldStep
  <1>4. ASSUME NEW t \in Thread, Store(t) PROVE PlacesInv'
    <2>1. /\ Goto(t, "told", "dirty") /\ UNCHANGED <<version, frame, head>>
          /\ cache' = IF cache = NoVersion THEN version[t] ELSE cache
      BY <1>4 DEF Store, checkout
    <2>2. version[t] \in {Unknown} \union 0..head
      BY <1>a, <2>1 DEF PlacesInv, Goto
    <2>3. cache' \in {NoVersion, Unknown} \union 0..head
      BY <1>b, <2>1, <2>2
    <2> QED  BY <1>a, <2>1, <2>3, PlainStep
  <1>5. ASSUME NEW t \in Thread, Miss(t) PROVE PlacesInv'
    BY <1>a, <1>b, <1>5, PlainStep DEF Miss, checkout
  <1>6. ASSUME NEW t \in Thread, Dirty(t) PROVE PlacesInv'
    BY <1>a, <1>b, <1>6, PlainStep DEF Dirty, checkout
  <1>7. ASSUME NEW t \in Thread, Clean(t) PROVE PlacesInv'
    BY <1>a, <1>b, <1>7, PlainStep DEF Clean, checkout
  <1>8. ASSUME NEW t \in Thread, Reject(t) PROVE PlacesInv'
    BY <1>a, <1>b, <1>8, PlainStep DEF Reject, checkout
  <1>9. ASSUME NEW t \in Thread, Accept(t) PROVE PlacesInv'
    BY <1>a, <1>b, <1>9, PlainStep DEF Accept, checkout
  <1>10. ASSUME NEW t \in Thread, Write(t) PROVE PlacesInv'
    BY <1>a, <1>b, <1>10, PlainStep DEF Write, checkout
  <1>11. CASE Commit
    <2>1. head' = head + 1 /\ head < MaxHead /\ UNCHANGED <<pc, version, frame, cache>>
      BY <1>11 DEF Commit, local
    <2>2. head' \in 0..MaxHead /\ 0..head \subseteq 0..head'
      BY <2>1, HeadType
    <2>3. ASSUME NEW t \in Thread
          PROVE  pc[t] \in Holding => version[t] \in {Unknown} \union 0..head'
      BY <2>2 DEF PlacesInv
    <2>4. cache \in {NoVersion, Unknown} \union 0..head'
      BY <1>b, <2>2
    <2> QED  BY <2>1, <2>2, <2>3, <2>4 DEF PlacesInv
  <1>12. CASE Restart
    <2>1. /\ pc' = [t \in Thread |-> "idle"] /\ version' = [t \in Thread |-> NoVersion]
          /\ frame' = [t \in Thread |-> NoFrame] /\ cache' = NoVersion /\ head' = head
      BY <1>12 DEF Restart, checkout
    <2> QED  BY <1>a, <2>1 DEF PlacesInv
  <1>13. CASE Edit \/ GitChanges \/ UNCHANGED vars
    BY <1>13 DEF Edit, GitChanges, vars, local, checkout, PlacesInv
  <1> QED  BY <1>1, <1>2, <1>3, <1>4, <1>5, <1>6, <1>7, <1>8, <1>9, <1>10, <1>11, <1>12, <1>13
           DEF Next, Build

-----------------------------------------------------------------------------
(* The versions known.                                                     *)

LEMMA InKnown ==
    ASSUME NEW v
    PROVE  v \in Known <=>
              \/ \E w \in written : v = w.version
              \/ (v = cache /\ v # NoVersion)
              \/ \E t \in Thread : pc[t] \in Holding /\ v = version[t]
  BY DEF Known

LEMMA InKnownNext ==
    ASSUME NEW v
    PROVE  v \in Known' <=>
              \/ \E w \in written' : v = w.version
              \/ (v = cache' /\ v # NoVersion)
              \/ \E t \in Thread : pc'[t] \in Holding /\ v = version'[t]
  BY DEF Known

\* What a step must not do for no version to become known.
LEMMA KnownShrinks ==
    ASSUME \A w \in written' : w.version \in Known,
           cache' \in Known \union {NoVersion},
           \A t \in Thread : pc'[t] \in Holding => version'[t] \in Known
    PROVE  Known' \subseteq Known
  BY InKnownNext

LEMMA Held ==
    /\ \A w \in written : w.version \in Known
    /\ cache \in Known \union {NoVersion}
    /\ \A t \in Thread : pc[t] \in Holding => version[t] \in Known
  BY InKnown

\* Those who have missed stay the same.
LEMMA StillMissed ==
    ASSUME NEW S, NEW f, Missed(S, f), Known' \subseteq Known,
           \A t \in S : pc'[t] # "ask" /\ (cache' = NoVersion => pc'[t] = "told")
    PROVE  Missed(S, f)'
  BY DEF Missed

\* A step of thread t that makes no version known and does not ask.
LEMMA QuietStep ==
    ASSUME PlacesInv, NEW S \in SUBSET Thread, NEW f, Missed(S, f),
           NEW t \in Thread, NEW from, NEW to \in Places, Goto(t, from, to),
           from # "told" \/ cache' # NoVersion, to # "ask",
           UNCHANGED version,
           cache' # NoVersion \/ cache = NoVersion,
           cache' \in Known \union {NoVersion},
           \A w \in written' : w.version \in Known,
           to \in Holding => from \in Holding
    PROVE  Missed(S, f)'
  <1>1. /\ pc[t] = from /\ pc'[t] = to /\ \A u \in Thread : u # t => pc'[u] = pc[u]
    BY GotoType
  <1>2. \A u \in Thread : pc'[u] \in Holding => version'[u] \in Known
    BY <1>1, Held
  <1>3. Known' \subseteq Known
    BY <1>2, KnownShrinks
  <1>4. \A u \in S : pc'[u] # "ask" /\ (cache' = NoVersion => pc'[u] = "told")
    BY <1>1 DEF Missed
  <1> QED  BY <1>3, <1>4, StillMissed

LEMMA HitMissed ==
    ASSUME PlacesInv, NEW S \in SUBSET Thread, NEW f, Missed(S, f),
           NEW t \in Thread, Hit(t)
    PROVE  Missed(S, f)'
  <1>1. /\ Goto(t, "version", "dirty") /\ cache # NoVersion /\ cache' = cache
        /\ version' = [version EXCEPT ![t] = cache] /\ written' = written
    BY DEF Hit, outcome
  <1>2. "dirty" \in Places
    BY DEF Places
  <1>3. /\ pc[t] = "version" /\ pc'[t] = "dirty" /\ \A u \in Thread : u # t => pc'[u] = pc[u]
    BY <1>1, <1>2, GotoType
  <1>4. version'[t] = cache /\ \A u \in Thread : u # t => version'[u] = version[u]
    BY <1>1 DEF PlacesInv
  <1>5. Known' \subseteq Known
    BY <1>1, <1>3, <1>4, Held, KnownShrinks
  <1>6. \A u \in S : pc'[u] # "ask" /\ (cache' = NoVersion => pc'[u] = "told")
    BY <1>1, <1>3 DEF Missed
  <1> QED  BY <1>5, <1>6, StillMissed

\* Only with nothing cached does a thread come to ask.
LEMMA MissMissed ==
    ASSUME PlacesInv, NEW S \in SUBSET Thread, NEW f, Missed(S, f),
           NEW t \in Thread, Miss(t)
    PROVE  Missed(S, f)'
  <1>1. /\ Goto(t, "version", "ask") /\ cache = NoVersion
        /\ UNCHANGED <<cache, version, written>>
    BY DEF Miss, outcome
  <1>2. "ask" \in Places /\ "ask" \notin Holding
    BY DEF Places, Holding
  <1>3. /\ pc[t] = "version" /\ pc'[t] = "ask" /\ \A u \in Thread : u # t => pc'[u] = pc[u]
    BY <1>1, <1>2, GotoType
  <1>4. Known' \subseteq Known
    BY <1>1, <1>2, <1>3, Held, KnownShrinks
  <1>5. t \notin S
    BY <1>1, <1>3 DEF Missed
  <1>6. \A u \in S : pc'[u] # "ask" /\ (cache' = NoVersion => pc'[u] = "told")
    BY <1>1, <1>3, <1>5 DEF Missed
  <1> QED  BY <1>4, <1>6, StillMissed

\* A thread that git answers joins those who have missed.
LEMMA AskMissed ==
    ASSUME PlacesInv, NEW S \in SUBSET Thread, NEW f \in [S -> Versions], Missed(S, f),
           NEW t \in Thread, Ask(t)
    PROVE  \E T \in SUBSET Thread : \E g \in [T -> Versions] : Missed(T, g)'
  <1>1. PICK v : v = IF works THEN head ELSE Unknown
    OBVIOUS
  <1>2. v \in Versions
    BY <1>1, HeadType DEF Versions
  <1>a. /\ Goto(t, "ask", "told") /\ version' = [version EXCEPT ![t] = v]
        /\ UNCHANGED <<cache, written>>
    BY <1>1 DEF Ask, outcome
  <1> DEFINE T == S \union {t}
             g == [u \in T |-> IF u = t THEN v ELSE f[u]]
  <1>3. /\ pc[t] = "ask" /\ pc'[t] = "told" /\ \A u \in Thread : u # t => pc'[u] = pc[u]
    BY <1>a, GotoType DEF Places
  <1>4. version'[t] = v /\ \A u \in Thread : u # t => version'[u] = version[u]
    BY <1>a DEF PlacesInv
  <1>5. t \notin S
    BY <1>3 DEF Missed
  <1>6. T \in SUBSET Thread /\ g \in [T -> Versions]
    BY <1>2
  <1>7. g[t] = v /\ \A u \in S : u \in T /\ g[u] = f[u]
    BY <1>5
  <1>8. t \in T
    OBVIOUS
  <1>9. \A u \in T : u = t \/ u \in S
    OBVIOUS
  <1> HIDE DEF T, g
  <1>10. ASSUME NEW x \in Known' PROVE x \in Known \/ x = v
    BY <1>a, <1>3, <1>4, Held, InKnownNext
  <1>11. ASSUME NEW x \in Known' PROVE \E u \in T : x = g[u]
    <2>1. CASE x \in Known
      <3>1. PICK u \in S : x = f[u]
        BY <2>1 DEF Missed
      <3> QED  BY <3>1, <1>7
    <2>2. CASE x = v
      BY <2>2, <1>7, <1>8
    <2> QED  BY <1>10, <2>1, <2>2
  <1>12. \A u \in T : pc'[u] # "ask" /\ (cache' = NoVersion => pc'[u] = "told")
    BY <1>a, <1>3, <1>5, <1>9 DEF Missed
  <1>13. Missed(T, g)'
    BY <1>11, <1>12 DEF Missed
  <1> QED  BY <1>6, <1>13

\* The threads that have missed the cache, before a step and after it.
SomeMissed == \E S \in SUBSET Thread : \E f \in [S -> Versions] : Missed(S, f)

LEMMA NextMissed ==
    ASSUME PlacesInv, SomeMissed, [Next]_vars
    PROVE  SomeMissed'
  <1>0. PICK S \in SUBSET Thread : \E g \in [S -> Versions] : Missed(S, g)
    BY DEF SomeMissed
  <1>00. PICK f \in [S -> Versions] : Missed(S, f)
    BY <1>0
  <1>a. ASSUME Missed(S, f)' PROVE SomeMissed'
    BY <1>a DEF SomeMissed, Versions
  <1>b. Places = {"idle", "version", "ask", "told", "dirty", "validate", "write"}
        /\ Holding = {"told", "dirty", "validate", "write"}
    BY DEF Places, Holding
  <1>c. ASSUME UNCHANGED <<pc, version, cache, written>> PROVE SomeMissed'
    BY <1>00, <1>a, <1>c DEF Missed, Known
  <1>1. ASSUME NEW t \in Thread, Begin(t) PROVE SomeMissed'
    <2>1. Goto(t, "idle", "version") /\ UNCHANGED <<version, cache, written>>
      BY <1>1 DEF Begin, outcome
    <2>2. Missed(S, f)'
      BY <1>00, <1>b, <2>1, Held, QuietStep
    <2> QED  BY <1>a, <2>2
  <1>2. ASSUME NEW t \in Thread, Hit(t) PROVE SomeMissed'
    BY <1>00, <1>2, <1>a, HitMissed
  <1>3. ASSUME NEW t \in Thread, Miss(t) PROVE SomeMissed'
    BY <1>00, <1>3, <1>a, MissMissed
  <1>4. ASSUME NEW t \in Thread, Ask(t) PROVE SomeMissed'
    <2>1. \E T \in SUBSET Thread : \E g \in [T -> Versions] : Missed(T, g)'
      BY <1>00, <1>4, AskMissed
    <2> QED  BY <2>1 DEF SomeMissed, Versions
  <1>5. ASSUME NEW t \in Thread, Store(t) PROVE SomeMissed'
    <2>1. /\ Goto(t, "told", "dirty") /\ UNCHANGED <<version, written>>
          /\ cache' = IF cache = NoVersion THEN version[t] ELSE cache
      BY <1>5 DEF Store, outcome
    <2>2. pc[t] = "told"
      BY <2>1 DEF Goto
    <2>3. version[t] \in {Unknown} \union 0..head /\ version[t] \in Known
      BY <1>b, <2>2, Held DEF PlacesInv
    <2>4. version[t] # NoVersion
      BY <2>3, HeadType DEF NoVersion, Unknown
    <2>5. cache' # NoVersion /\ cache' \in Known \union {NoVersion}
      BY <2>1, <2>3, <2>4, Held
    <2>6. Missed(S, f)'
      BY <1>00, <1>b, <2>1, <2>5, Held, QuietStep
    <2> QED  BY <1>a, <2>6
  <1>6. ASSUME NEW t \in Thread, Dirty(t) PROVE SomeMissed'
    <2>1. Goto(t, "dirty", "idle") /\ UNCHANGED <<version, cache, written>>
      BY <1>6 DEF Dirty, outcome
    <2>2. Missed(S, f)'
      BY <1>00, <1>b, <2>1, Held, QuietStep
    <2> QED  BY <1>a, <2>2
  <1>7. ASSUME NEW t \in Thread, Clean(t) PROVE SomeMissed'
    <2>1. Goto(t, "dirty", "validate") /\ UNCHANGED <<version, cache, written>>
      BY <1>7 DEF Clean, outcome
    <2>2. Missed(S, f)'
      BY <1>00, <1>b, <2>1, Held, QuietStep
    <2> QED  BY <1>a, <2>2
  <1>8. ASSUME NEW t \in Thread, Reject(t) PROVE SomeMissed'
    <2>1. Goto(t, "validate", "idle") /\ UNCHANGED <<version, cache, written>>
      BY <1>8 DEF Reject
    <2>2. Missed(S, f)'
      BY <1>00, <1>b, <2>1, Held, QuietStep
    <2> QED  BY <1>a, <2>2
  <1>9. ASSUME NEW t \in Thread, Accept(t) PROVE SomeMissed'
    <2>1. Goto(t, "validate", "write") /\ UNCHANGED <<version, cache, written>>
      BY <1>9 DEF Accept, outcome
    <2>2. Missed(S, f)'
      BY <1>00, <1>b, <2>1, Held, QuietStep
    <2> QED  BY <1>a, <2>2
  <1>10. ASSUME NEW t \in Thread, Write(t) PROVE SomeMissed'
    <2>1. /\ Goto(t, "write", "idle") /\ UNCHANGED <<version, cache>>
          /\ written' = written \union {[version |-> version[t], frame |-> frame[t]]}
      BY <1>10 DEF Write
    <2>2. version[t] \in Known
      BY <1>b, <2>1, Held DEF Goto
    <2>3. \A w \in written' : w.version \in Known
      BY <2>1, <2>2, Held
    <2>4. Missed(S, f)'
      BY <1>00, <1>b, <2>1, <2>3, Held, QuietStep
    <2> QED  BY <1>a, <2>4
  <1>11. CASE Restart
    <2>1. /\ pc' = [t \in Thread |-> "idle"] /\ cache' = NoVersion /\ written' = {}
      BY <1>11 DEF Restart
    <2>2. \A t \in Thread : pc'[t] = "idle"
      BY <2>1
    <2>3. Known' = {}
      BY <1>b, <2>1, <2>2, InKnownNext
    <2> DEFINE g == [t \in {} |-> Unknown]
    <2>4. {} \in SUBSET Thread /\ g \in [{} -> Versions]
      OBVIOUS
    <2> HIDE DEF g
    <2>5. PICK e \in [{} -> Versions] : TRUE
      BY <2>4
    <2>6. Missed({}, e)'
      BY <2>3 DEF Missed
    <2> QED  BY <2>4, <2>6 DEF SomeMissed, Versions
  <1>12. CASE Commit \/ Edit \/ GitChanges \/ UNCHANGED vars
    BY <1>c, <1>12 DEF Commit, Edit, GitChanges, vars, local, outcome
  <1> QED  BY <1>1, <1>2, <1>3, <1>4, <1>5, <1>6, <1>7, <1>8, <1>9, <1>10, <1>11, <1>12
           DEF Next, Build

-----------------------------------------------------------------------------
(* The theorems.                                                           *)

LEMMA InitBuilder == Init => BuilderInv
  <1> SUFFICES ASSUME Init PROVE BuilderInv
    OBVIOUS
  <1>1. /\ pc = [t \in Thread |-> "idle"] /\ version = [t \in Thread |-> NoVersion]
        /\ frame = [t \in Thread |-> NoFrame] /\ cache = NoVersion /\ head = 0 /\ written = {}
    BY DEF Init
  <1>2. Places = {"idle", "version", "ask", "told", "dirty", "validate", "write"}
        /\ Holding = {"told", "dirty", "validate", "write"}
    BY DEF Places, Holding
  <1>3. PlacesInv
    BY <1>1, <1>2, MaxHeadAssumption DEF PlacesInv
  <1>4. Known = {}
    BY <1>1, <1>2, InKnown
  <1> DEFINE g == [t \in {} |-> Unknown]
  <1>5. {} \in SUBSET Thread /\ g \in [{} -> Versions]
    OBVIOUS
  <1> HIDE DEF g
  <1>6. Missed({}, g)
    BY <1>4 DEF Missed
  <1> QED  BY <1>3, <1>5, <1>6 DEF BuilderInv

LEMMA NextBuilder == BuilderInv /\ [Next]_vars => BuilderInv'
  <1>1. BuilderInv <=> PlacesInv /\ SomeMissed
    BY DEF BuilderInv, SomeMissed
  <1>2. (BuilderInv <=> PlacesInv /\ SomeMissed)'
    BY DEF BuilderInv, SomeMissed
  <1> QED  BY <1>1, <1>2, NextPlaces, NextMissed

\* The strengthened invariant holds in every process.
THEOREM BuilderHolds == Spec => []BuilderInv
  <1> QED  BY InitBuilder, NextBuilder, PTL DEF Spec

\* A frame that reaches git_dirty and the validators has a builder_version, a
\* commit that was HEAD or "unknown".
THEOREM TypeCorrect == Spec => []TypeOK
  <1>1. BuilderInv => TypeOK
    BY DEF BuilderInv, PlacesInv, TypeOK, Places, Holding
  <1> QED  BY <1>1, BuilderHolds, PTL

\* The values of a function are no more than its arguments.
LEMMA ImageBound ==
    ASSUME NEW S, NEW T, NEW f \in [S -> T], IsFiniteSet(S), NEW V, V \subseteq {f[s] : s \in S}
    PROVE  Cardinality(V) <= Cardinality(S) /\ IsFiniteSet(V)
  <1> DEFINE W == {f[s] : s \in S}
  <1>1. f \in Surjection(S, W)
    BY DEF Surjection
  <1> HIDE DEF W
  <1>2. IsFiniteSet(W) /\ Cardinality(W) <= Cardinality(S)
    BY <1>1, FS_Surjection
  <1>3. V \in SUBSET W
    BY DEF W
  <1>4. IsFiniteSet(V) /\ Cardinality(V) <= Cardinality(W)
    BY <1>2, <1>3, FS_Subset
  <1>5. Cardinality(V) \in Nat /\ Cardinality(W) \in Nat /\ Cardinality(S) \in Nat
    BY <1>2, <1>4, FS_CardinalityType
  <1> QED  BY <1>2, <1>4, <1>5

\* However HEAD moves, the frames one process writes have no more versions than
\* the process has threads: lru_cache may be missed by each thread once.
THEOREM FewVersions == Spec => []VersionsBounded
  <1>1. ASSUME BuilderInv PROVE VersionsBounded
    <2>1. PICK S \in SUBSET Thread : \E g \in [S -> Versions] : Missed(S, g)
      BY <1>1 DEF BuilderInv
    <2>2. PICK f \in [S -> Versions] : Missed(S, f)
      BY <2>1
    <2>3. {w.version : w \in written} \subseteq {f[t] : t \in S}
      BY <2>2 DEF Missed, Known
    <2>4. IsFiniteSet(S) /\ Cardinality(S) <= Cardinality(Thread)
      BY ThreadAssumption, FS_Subset
    <2> DEFINE V == {w.version : w \in written}
    <2> HIDE DEF V
    <2>5. V \subseteq {f[t] : t \in S}
      BY <2>3 DEF V
    <2>6. Cardinality(V) <= Cardinality(S) /\ IsFiniteSet(V)
      BY <2>4, <2>5, ImageBound
    <2>7. Cardinality(V) \in Nat /\ Cardinality(S) \in Nat /\ Cardinality(Thread) \in Nat
      BY <2>4, <2>6, ThreadAssumption, FS_CardinalityType
    <2>8. Cardinality(V) <= Cardinality(Thread)
      BY <2>4, <2>6, <2>7
    <2> QED  BY <2>8 DEF VersionsBounded, V
  <1> QED  BY <1>1, BuilderHolds, PTL
=============================================================================
