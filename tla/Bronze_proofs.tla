----------------------------- MODULE Bronze_proofs -----------------------------
(* Proofs about provenance and bronze, for any number of objects, payloads *)
(* and runs.                                                               *)
EXTENDS Bronze, TLAPS

Shas == {NoSha, "sha", "version"}

LEMMA VarsType == Vars \subseteq Shas
  BY VarsAssumption DEF Shas

LEMMA RunsType == MaxRuns \in Nat
  BY MaxRunsAssumption

-----------------------------------------------------------------------------
(* Rows.                                                                   *)

IsRow(x) ==
    x = [kind |-> x.kind, payload |-> x.payload, hash |-> x.hash, run |-> x.run,
         sha |-> x.sha, inputs |-> x.inputs]

\* A hash is of something.
LEMMA PairNotEmpty == ASSUME NEW k, NEW p PROVE <<k, p>> # <<>>
  OBVIOUS

LEMMA Columns ==
    ASSUME NEW x, NEW k, NEW p, NEW h, NEW n, NEW s, NEW i,
           x = [kind |-> k, payload |-> p, hash |-> h, run |-> n, sha |-> s, inputs |-> i]
    PROVE  /\ IsRow(x) /\ x.kind = k /\ x.payload = p /\ x.hash = h /\ x.run = n
           /\ x.sha = s /\ x.inputs = i
  BY DEF IsRow

\* A stamp changes the columns it names.
LEMMA SetHash ==
    ASSUME NEW x, IsRow(x), NEW h
    PROVE  [x EXCEPT !.hash = h] = [kind |-> x.kind, payload |-> x.payload, hash |-> h,
                                    run |-> x.run, sha |-> x.sha, inputs |-> x.inputs]
  BY DEF IsRow

LEMMA SetRun ==
    ASSUME NEW x, IsRow(x), NEW n
    PROVE  [x EXCEPT !.run = n] = [kind |-> x.kind, payload |-> x.payload, hash |-> x.hash,
                                   run |-> n, sha |-> x.sha, inputs |-> x.inputs]
  BY DEF IsRow

LEMMA SetSha ==
    ASSUME NEW x, IsRow(x), NEW s
    PROVE  [x EXCEPT !.sha = s] = [kind |-> x.kind, payload |-> x.payload, hash |-> x.hash,
                                   run |-> x.run, sha |-> s, inputs |-> x.inputs]
  BY DEF IsRow

LEMMA SetPayload ==
    ASSUME NEW x, IsRow(x), NEW p
    PROVE  [x EXCEPT !.payload = p] = [kind |-> x.kind, payload |-> p, hash |-> x.hash,
                                       run |-> x.run, sha |-> x.sha, inputs |-> x.inputs]
  BY DEF IsRow

LEMMA Restamp ==
    ASSUME NEW x, IsRow(x), NEW h, NEW n, NEW s
    PROVE  [x EXCEPT !.hash = h, !.run = n, !.sha = s]
              = [kind |-> x.kind, payload |-> x.payload, hash |-> h, run |-> n,
                 sha |-> s, inputs |-> x.inputs]
  <1> DEFINE a == [x EXCEPT !.hash = h]
             b == [a EXCEPT !.run = n]
             c == [b EXCEPT !.sha = s]
  <1>1. a = [kind |-> x.kind, payload |-> x.payload, hash |-> h, run |-> x.run,
             sha |-> x.sha, inputs |-> x.inputs]
    BY SetHash
  <1> HIDE DEF a
  <1>2. b = [kind |-> x.kind, payload |-> x.payload, hash |-> h, run |-> n,
             sha |-> x.sha, inputs |-> x.inputs]
    BY <1>1, Columns, SetRun
  <1> HIDE DEF b
  <1>3. c = [kind |-> x.kind, payload |-> x.payload, hash |-> h, run |-> n,
             sha |-> s, inputs |-> x.inputs]
    BY <1>2, Columns, SetSha
  <1>4. c = [x EXCEPT !.hash = h, !.run = n, !.sha = s]
    BY DEF a, b
  <1> QED  BY <1>3, <1>4

LEMMA Linked ==
    ASSUME NEW x, IsRow(x), NEW H
    PROVE  LET y == WithInputs(x, H)
           IN  /\ IsRow(y) /\ y.kind = x.kind /\ y.payload = x.payload
               /\ y.hash = x.hash /\ y.run = x.run /\ y.sha = x.sha
               /\ y.inputs = IF x.inputs = {} THEN H ELSE x.inputs
  BY DEF IsRow, WithInputs

\* More runs, and more frames stamped again, ask no more of a row.
LEMMA StillStamped ==
    ASSUME NEW x, NEW n \in Nat, NEW m \in Nat, n <= m, NEW A, NEW B, A \subseteq B,
           Stamped(x, n, A)
    PROVE  Stamped(x, m, B)
  <1>1. x.run \in 0..m
    BY DEF Stamped
  <1> QED  BY <1>1 DEF Stamped

LEMMA BlankStamped == Stamped(Blank, 0, {})
  BY DEF Stamped, Blank

LEMMA NewStamped ==
    ASSUME NEW kind \in {"article", "frame"}, NEW p \in Payload
    PROVE  Stamped(New(kind, p), 0, {}) /\ New(kind, p).run = 0
  <1> DEFINE x == [Blank EXCEPT !.kind = kind]
             y == [x EXCEPT !.payload = p]
  <1>1. x = [kind |-> kind, payload |-> NoPayload, hash |-> <<>>, run |-> 0,
             sha |-> NoSha, inputs |-> {}]
    BY DEF Blank
  <1> HIDE DEF x
  <1>a. IsRow(x) /\ x.kind = kind /\ x.hash = <<>> /\ x.run = 0 /\ x.sha = NoSha /\ x.inputs = {}
    BY <1>1, Columns
  <1>2. y = [kind |-> kind, payload |-> p, hash |-> <<>>, run |-> 0,
             sha |-> NoSha, inputs |-> {}]
    BY <1>a, SetPayload
  <1>3. y = New(kind, p)
    BY DEF New, x
  <1> HIDE DEF y
  <1>4. Stamped(y, 0, {}) /\ y.run = 0
    BY <1>2 DEF Stamped
  <1> QED  BY <1>3, <1>4

LEMMA CodeShaKnown ==
    ASSUME ContextInv, ShaKnown
    PROVE  CodeSha \in Shas /\ CodeSha # NoSha
  BY VarsType DEF ContextInv, ShaKnown, CodeSha, Shas, NoSha

\* The first loop of _stamp_rows leaves an article stamped.
LEMMA FilledStamped ==
    ASSUME ContextInv, ShaKnown, NEW r \in Row, Stamped(row[r], runs, restamped),
           row[r].kind = "article"
    PROVE  /\ Stamped(Filled(r), runs + 1, restamped)
           /\ Filled(r).kind = "article" /\ Filled(r).run > 0
           /\ Filled(r).inputs = row[r].inputs
  <1> DEFINE x == row[r]
             h == IF x.hash = <<>> THEN ContentHash(r) ELSE x.hash
             n == IF x.run = 0 THEN runs + 1 ELSE x.run
             s == IF x.sha = NoSha THEN CodeSha ELSE x.sha
             y == Filled(r)
  <1>1. y = [x EXCEPT !.hash = h, !.run = n, !.sha = s]
    BY DEF Filled
  <1>2. IsRow(x)
    BY DEF Stamped, IsRow
  <1> HIDE DEF h, n, s, y
  <1>3. /\ IsRow(y) /\ y.kind = x.kind /\ y.payload = x.payload
        /\ y.hash = h /\ y.run = n /\ y.sha = s /\ y.inputs = x.inputs
    <2>1. y = [kind |-> x.kind, payload |-> x.payload, hash |-> h, run |-> n,
               sha |-> s, inputs |-> x.inputs]
      BY <1>1, <1>2, Restamp
    <2> QED  BY <2>1 DEF IsRow
  <1>4. runs \in Nat /\ x.run \in 0..runs
    BY RunsType DEF ContextInv, Stamped
  <1>5. n \in 1..(runs + 1)
    BY <1>4 DEF n
  <1>6. s \in Shas /\ s # NoSha
    BY CodeShaKnown DEF s, Stamped, Shas
  <1>7. x.hash = <<>> \/ x.hash = <<x.kind, x.payload>>
    BY DEF Stamped
  <1>8. h = <<y.kind, y.payload>>
    BY <1>3, <1>7 DEF h, ContentHash
  <1>9. h # <<>>
    BY <1>8, PairNotEmpty
  <1>10. x.inputs # {} => h \in x.inputs
    BY <1>9 DEF Stamped, h
  <1>11. y.run > 0 /\ y.run \in 0..(runs + 1)
    BY <1>3, <1>5, <1>4
  <1> QED  BY <1>3, <1>6, <1>8, <1>9, <1>10, <1>11 DEF Stamped, IsRow, Shas, x, y

\* What collect hands on is stamped and has its inputs.
LEMMA CollectedStamped ==
    ASSUME NEW y, NEW n, NEW A, Stamped(y, n, A), y.kind = "article", y.run > 0,
           NEW H, y.hash \in H
    PROVE  Stamped(WithInputs(y, H), n, A) /\ Whole(WithInputs(y, H))
           /\ WithInputs(y, H).kind = "article"
  <1> DEFINE z == WithInputs(y, H)
  <1>1. IsRow(y)
    BY DEF Stamped, IsRow
  <1> HIDE DEF z
  <1>2. /\ IsRow(z) /\ z.kind = y.kind /\ z.payload = y.payload /\ z.hash = y.hash
        /\ z.run = y.run /\ z.sha = y.sha
        /\ z.inputs = IF y.inputs = {} THEN H ELSE y.inputs
    BY <1>1, Linked DEF z
  <1>3. z.hash \in z.inputs
    BY <1>2 DEF Stamped
  <1>4. Stamped(z, n, A)
    BY <1>2, <1>3 DEF Stamped, IsRow
  <1>5. Whole(z)
    BY <1>2, <1>3 DEF Whole
  <1> QED  BY <1>2, <1>4, <1>5 DEF z

\* What _sha256_row hashes is never nothing, and only the payload the first time.
LEMMA FrameHashType ==
    ASSUME NEW r
    PROVE  /\ FrameHash(r) # <<>>
           /\ row[r].run = 0 => FrameHash(r) = <<row[r].kind, row[r].payload>>
  <1> DEFINE k == row[r].kind
             p == row[r].payload
             h == row[r].hash
             n == row[r].run
  <1>1. FrameHash(r) = IF n = 0 THEN <<k, p>> \o <<>> ELSE <<k, p>> \o <<h, n>>
    BY DEF FrameHash
  <1> HIDE DEF k, p, h, n
  <1>2. <<k, p>> \o <<>> = <<k, p>>
    OBVIOUS
  <1>3. <<k, p>> \o <<h, n>> # <<>>
    OBVIOUS
  <1>4. <<k, p>> # <<>>
    BY PairNotEmpty
  <1> QED  BY <1>1, <1>2, <1>3, <1>4 DEF k, p, n

LEMMA FrameStamped ==
    ASSUME ContextInv, NEW r \in Row, Stamped(row[r], runs, restamped),
           row[r].kind = "frame", NEW A, restamped \subseteq A,
           row[r].run # 0 => row[r].payload \in A
    PROVE  Stamped(Framed(r), runs + 1, A) /\ Whole(Framed(r))
  <1> DEFINE w == row[r]
             h == FrameHash(r)
             y == [w EXCEPT !.hash = h]
             x == Framed(r)
  <1>1. IsRow(w)
    BY DEF Stamped, IsRow
  <1> HIDE DEF h, w
  <1>2. y = [kind |-> w.kind, payload |-> w.payload, hash |-> h, run |-> w.run,
             sha |-> w.sha, inputs |-> w.inputs]
    BY <1>1, SetHash
  <1> HIDE DEF y
  <1>3. x = [y EXCEPT !.run = runs + 1]
    BY DEF Framed, y, w, h
  <1> HIDE DEF x
  <1>4. x = [kind |-> w.kind, payload |-> w.payload, hash |-> h, run |-> runs + 1,
             sha |-> w.sha, inputs |-> w.inputs]
    BY <1>2, <1>3, Columns, SetRun
  <1>5. runs \in Nat
    BY RunsType DEF ContextInv
  <1>6. h # <<>> /\ (w.run = 0 => h = <<w.kind, w.payload>>)
    BY FrameHashType DEF h, w
  <1>7. /\ w.kind = "frame" /\ w.payload \in Payload /\ w.sha \in Shas
        /\ w.run # 0 => w.payload \in A
    BY DEF Stamped, w, Shas
  <1>8. runs + 1 \in 0..(runs + 1) /\ runs + 1 > 0
    BY <1>5
  <1>9. /\ x.kind = "frame" /\ x.payload = w.payload /\ x.hash = h /\ x.run = runs + 1
        /\ x.sha = w.sha /\ IsRow(x)
    BY <1>4, <1>7, Columns
  <1>10. x.payload \notin A => x.hash = <<x.kind, x.payload>>
    BY <1>6, <1>7, <1>9
  <1> QED  BY <1>6, <1>7, <1>8, <1>9, <1>10 DEF Stamped, Whole, Shas, IsRow, x

-----------------------------------------------------------------------------
(* Each step keeps the invariant.                                          *)

LEMMA RunsGrow ==
    ASSUME ContextInv, runs' \in {runs, runs + 1}
    PROVE  runs \in Nat /\ runs' \in Nat /\ runs <= runs' /\ runs + 1 \in Nat
  BY RunsType DEF ContextInv

LEMMA FreeNotReturned ==
    ASSUME MemoryInv, NEW r \in Row, row[r].kind = "free"
    PROVE  r \notin returned
  <1>1. Stamped(row[r], runs, restamped) /\ (r \in returned => Whole(row[r]))
    BY DEF MemoryInv
  <1>2. row[r] = Blank
    BY <1>1 DEF Stamped
  <1>3. row[r].run = 0
    BY <1>2 DEF Blank
  <1> QED  BY <1>1, <1>3 DEF Whole

\* A step that replaces one object.
LEMMA OneObject ==
    ASSUME MemoryInv, ContextInv, NEW r \in Row, NEW x, row' = [row EXCEPT ![r] = x],
           runs' \in {runs, runs + 1}, restamped \subseteq restamped',
           Stamped(x, runs', restamped'),
           returned' \subseteq returned \union {r}, r \in returned' => Whole(x)
    PROVE  MemoryInv'
  <1>1. row' = [q \in Row |-> IF q = r THEN x ELSE row[q]]
    BY DEF MemoryInv
  <1>2. row' = [q \in Row |-> row'[q]]
    BY <1>1
  <1>3. ASSUME NEW q \in Row PROVE Stamped(row'[q], runs', restamped')
    <2>1. CASE q = r
      BY <1>1, <2>1
    <2>2. CASE q # r
      <3>1. row'[q] = row[q]
        BY <1>1, <2>2
      <3> QED  BY <3>1, RunsGrow, StillStamped DEF MemoryInv
    <2> QED  BY <2>1, <2>2
  <1>4. ASSUME NEW q \in returned' PROVE q \in Row /\ Whole(row'[q])
    BY <1>1, <1>4 DEF MemoryInv
  <1> QED  BY <1>2, <1>3, <1>4 DEF MemoryInv

\* A step that may touch any, and runs once more.
LEMMA ManyObjects ==
    ASSUME MemoryInv, ContextInv, NEW S \in SUBSET Row, NEW f,
           row' = [r \in Row |-> IF r \in S THEN f[r] ELSE row[r]],
           runs' = runs + 1, restamped' = restamped,
           \A r \in S : Stamped(f[r], runs + 1, restamped),
           returned' \subseteq returned \union S,
           \A r \in returned' \intersect S : Whole(f[r])
    PROVE  MemoryInv'
  <1>1. row' = [r \in Row |-> row'[r]]
    OBVIOUS
  <1>2. ASSUME NEW r \in Row PROVE Stamped(row'[r], runs', restamped')
    <2>1. CASE r \in S
      BY <2>1
    <2>2. CASE r \notin S
      BY <2>2, RunsGrow, StillStamped DEF MemoryInv
    <2> QED  BY <2>1, <2>2
  <1>3. ASSUME NEW r \in returned' PROVE r \in Row /\ Whole(row'[r])
    <2>1. CASE r \in S
      BY <1>3, <2>1
    <2>2. CASE r \notin S
      BY <1>3, <2>2 DEF MemoryInv
    <2> QED  BY <2>1, <2>2
  <1> QED  BY <1>1, <1>2, <1>3 DEF MemoryInv

LEMMA CollectMemory ==
    ASSUME MemoryInv, ContextInv, NEW S \in SUBSET Row, Collect(S)
    PROVE  MemoryInv'
  <1> DEFINE H == {Filled(r).hash : r \in S}
             f == [r \in S |-> WithInputs(Filled(r), H)]
  <1>1. /\ ShaKnown /\ runs' = runs + 1 /\ restamped' = restamped
        /\ returned' = returned \union S /\ S \subseteq Of("article")
    BY DEF Collect
  <1>2. row' = [r \in Row |-> IF r \in S THEN WithInputs(Filled(r), H) ELSE row[r]]
    BY DEF Collect
  <1>3. row' = [r \in Row |-> IF r \in S THEN f[r] ELSE row[r]]
    BY <1>2
  <1>4. ASSUME NEW r \in S PROVE Stamped(f[r], runs + 1, restamped) /\ Whole(f[r])
    <2>1. r \in Row /\ row[r].kind = "article" /\ Stamped(row[r], runs, restamped)
      BY <1>1 DEF Of, MemoryInv
    <2>2. /\ Stamped(Filled(r), runs + 1, restamped)
          /\ Filled(r).kind = "article" /\ Filled(r).run > 0
      BY <1>1, <2>1, FilledStamped
    <2>3. Filled(r).hash \in H
      OBVIOUS
    <2> HIDE DEF H
    <2>4. Stamped(WithInputs(Filled(r), H), runs + 1, restamped)
          /\ Whole(WithInputs(Filled(r), H))
      BY <2>2, <2>3, CollectedStamped
    <2> QED  BY <2>4
  <1> HIDE DEF f, H
  <1> QED  BY <1>1, <1>3, <1>4, ManyObjects

\* The rows before the bad one are stamped, and none is handed on.
LEMMA RaisesMemory ==
    ASSUME MemoryInv, ContextInv, NEW S \in SUBSET Row, CollectRaises(S)
    PROVE  MemoryInv'
  <1>1. /\ ShaKnown /\ runs' = runs + 1 /\ restamped' = restamped
        /\ returned' = returned /\ S \subseteq Of("article")
    BY DEF CollectRaises
  <1>2. PICK P \in SUBSET S : row' = [r \in Row |-> IF r \in P THEN Filled(r) ELSE row[r]]
    BY DEF CollectRaises
  <1> DEFINE f == [r \in P |-> Filled(r)]
  <1>3. row' = [r \in Row |-> IF r \in P THEN f[r] ELSE row[r]]
    BY <1>2
  <1>4. ASSUME NEW r \in P PROVE Stamped(f[r], runs + 1, restamped)
    <2>1. r \in Row /\ row[r].kind = "article" /\ Stamped(row[r], runs, restamped)
      BY <1>1 DEF Of, MemoryInv
    <2> QED  BY <1>1, <2>1, FilledStamped
  <1>5. ASSUME NEW r \in returned' \intersect P PROVE Whole(f[r])
    <2>1. r \in Row /\ row[r].kind = "article" /\ Stamped(row[r], runs, restamped)
      BY <1>1 DEF Of, MemoryInv
    <2>2. Whole(row[r])
      BY <1>1, <1>5 DEF MemoryInv
    <2>3. /\ Filled(r).kind = "article" /\ Filled(r).run > 0
          /\ Filled(r).inputs = row[r].inputs
      BY <1>1, <2>1, FilledStamped
    <2>4. Whole(Filled(r))
      BY <2>1, <2>2, <2>3 DEF Whole
    <2> QED  BY <2>4
  <1> HIDE DEF f
  <1> QED  BY <1>1, <1>3, <1>4, <1>5, ManyObjects

LEMMA FrameMemory ==
    ASSUME MemoryInv, ContextInv, NEW r \in Row, StampFrame(r)
    PROVE  MemoryInv'
  <1>1. /\ row[r].kind = "frame" /\ runs' = runs + 1 /\ row' = [row EXCEPT ![r] = Framed(r)]
        /\ returned' = returned \union {r}
        /\ restamped' = IF row[r].run = 0 THEN restamped ELSE restamped \union {row[r].payload}
    BY DEF StampFrame, Of
  <1>2. Stamped(row[r], runs, restamped)
    BY DEF MemoryInv
  <1>3. restamped \subseteq restamped' /\ (row[r].run # 0 => row[r].payload \in restamped')
    BY <1>1
  <1>4. Stamped(Framed(r), runs + 1, restamped') /\ Whole(Framed(r))
    BY <1>1, <1>2, <1>3, FrameStamped
  <1> QED  BY <1>1, <1>3, <1>4, OneObject

LEMMA ForgetMemory ==
    ASSUME MemoryInv, ContextInv, NEW S \in SUBSET Row, Forget(S)
    PROVE  MemoryInv'
  <1>1. /\ row' = [r \in Row |-> IF r \in S THEN Blank ELSE row[r]]
        /\ returned' = returned \ S /\ runs' = runs /\ restamped' = restamped
    BY DEF Forget
  <1>2. Stamped(Blank, runs, restamped)
    BY RunsType, BlankStamped, StillStamped DEF ContextInv
  <1>3. \A r \in Row : Stamped(row'[r], runs', restamped')
    BY <1>1, <1>2 DEF MemoryInv
  <1>4. \A r \in returned' : r \in Row /\ Whole(row'[r])
    BY <1>1 DEF MemoryInv
  <1>5. row' = [r \in Row |-> row'[r]]
    BY <1>1
  <1> QED  BY <1>3, <1>4, <1>5 DEF MemoryInv

LEMMA NextMemory ==
    ASSUME BronzeInv, [Next]_vars
    PROVE  MemoryInv'
  <1>a. MemoryInv /\ TableInv /\ ContextInv
    BY DEF BronzeInv
  <1>b. ASSUME UNCHANGED <<row, returned, runs, restamped>> PROVE MemoryInv'
    BY <1>a, <1>b DEF MemoryInv
  <1>1. ASSUME NEW r \in Row, NEW kind \in {"article", "frame"}, NEW p \in Payload,
               Fetch(r, kind, p)
        PROVE  MemoryInv'
    <2>1. /\ row[r].kind = "free" /\ row' = [row EXCEPT ![r] = New(kind, p)]
          /\ UNCHANGED <<returned, runs, restamped>>
      BY <1>1 DEF Fetch
    <2>2. Stamped(New(kind, p), runs, restamped)
      BY <1>a, RunsType, NewStamped, StillStamped DEF ContextInv
    <2>3. r \notin returned
      BY <1>a, <2>1, FreeNotReturned
    <2> HIDE DEF New
    <2> QED  BY <1>a, <2>1, <2>2, <2>3, OneObject
  <1>2. ASSUME NEW S \in SUBSET Row, Collect(S) PROVE MemoryInv'
    BY <1>a, <1>2, CollectMemory
  <1>3. ASSUME NEW S \in SUBSET Row, CollectRaises(S) PROVE MemoryInv'
    BY <1>a, <1>3, RaisesMemory
  <1>4. ASSUME NEW r \in Row, StampFrame(r) PROVE MemoryInv'
    BY <1>a, <1>4, FrameMemory
  <1>5. ASSUME NEW r \in Row, NEW b \in bronze, ReadBack(r, b) PROVE MemoryInv'
    <2>1. /\ row[r].kind = "free" /\ row' = [row EXCEPT ![r] = b]
          /\ UNCHANGED <<returned, runs, restamped>>
      BY <1>5 DEF ReadBack
    <2>2. Stamped(b, runs, restamped)
      BY <1>a DEF TableInv
    <2>3. r \notin returned
      BY <1>a, <2>1, FreeNotReturned
    <2> QED  BY <1>a, <2>1, <2>2, <2>3, OneObject
  <1>6. ASSUME NEW r \in Row, Insert(r) PROVE MemoryInv'
    BY <1>b, <1>6 DEF Insert
  <1>7. ASSUME NEW S \in SUBSET Row, Forget(S) PROVE MemoryInv'
    BY <1>a, <1>7, ForgetMemory
  <1>8. CASE Redeploy
    BY <1>b, <1>8 DEF Redeploy
  <1>9. CASE UNCHANGED vars
    BY <1>b, <1>9 DEF vars
  <1> QED  BY <1>1, <1>2, <1>3, <1>4, <1>5, <1>6, <1>7, <1>8, <1>9 DEF Next

\* The table changes with Insert alone.
LEMMA NextTable ==
    ASSUME BronzeInv, [Next]_vars
    PROVE  TableInv'
  <1>a. MemoryInv /\ TableInv /\ ContextInv
    BY DEF BronzeInv
  <1>b. ASSUME UNCHANGED bronze, runs' \in {runs, runs + 1}, restamped \subseteq restamped'
        PROVE  TableInv'
    <2>1. ASSUME NEW b \in bronze PROVE Stamped(b, runs', restamped')
      BY <1>a, <1>b, RunsGrow, StillStamped DEF TableInv
    <2> QED  BY <1>a, <1>b, <2>1 DEF TableInv
  <1>1. ASSUME NEW r \in Row, NEW kind \in {"article", "frame"}, NEW p \in Payload,
               Fetch(r, kind, p)
        PROVE  TableInv'
    BY <1>b, <1>1 DEF Fetch
  <1>2. ASSUME NEW S \in SUBSET Row, Collect(S) PROVE TableInv'
    BY <1>b, <1>2 DEF Collect
  <1>3. ASSUME NEW S \in SUBSET Row, CollectRaises(S) PROVE TableInv'
    BY <1>b, <1>3 DEF CollectRaises
  <1>4. ASSUME NEW r \in Row, StampFrame(r) PROVE TableInv'
    BY <1>b, <1>4 DEF StampFrame
  <1>5. ASSUME NEW r \in Row, NEW b \in bronze, ReadBack(r, b) PROVE TableInv'
    BY <1>b, <1>5 DEF ReadBack
  <1>6. ASSUME NEW r \in Row, Insert(r) PROVE TableInv'
    <2>1. /\ r \in returned /\ UNCHANGED <<runs, restamped>>
          /\ bronze' = IF \E b \in bronze : b.hash = row[r].hash THEN bronze
                                                            ELSE bronze \union {row[r]}
      BY <1>6 DEF Insert
    <2>2. Stamped(row[r], runs, restamped) /\ Whole(row[r])
      BY <1>a, <2>1 DEF MemoryInv
    <2>3. \A b \in bronze : Stamped(b, runs, restamped) /\ Whole(b)
      BY <1>a DEF TableInv
    <2>4. \A b, c \in bronze : b.hash = c.hash => b = c
      BY <1>a DEF TableInv
    <2> DEFINE x == row[r]
    <2>5. \/ bronze' = bronze
          \/ (bronze' = bronze \union {x} /\ \A b \in bronze : b.hash # x.hash)
      BY <2>1
    <2> HIDE DEF x
    <2>6. \A b, c \in bronze' : b.hash = c.hash => b = c
      BY <2>4, <2>5
    <2>7. \A b \in bronze' : Stamped(b, runs, restamped) /\ Whole(b)
      BY <2>2, <2>3, <2>5 DEF x
    <2> QED  BY <2>1, <2>6, <2>7 DEF TableInv
  <1>7. ASSUME NEW S \in SUBSET Row, Forget(S) PROVE TableInv'
    BY <1>b, <1>7 DEF Forget
  <1>8. CASE Redeploy
    BY <1>b, <1>8 DEF Redeploy
  <1>9. CASE UNCHANGED vars
    BY <1>b, <1>9 DEF vars
  <1> QED  BY <1>1, <1>2, <1>3, <1>4, <1>5, <1>6, <1>7, <1>8, <1>9 DEF Next

LEMMA NextContext ==
    ASSUME BronzeInv, [Next]_vars
    PROVE  ContextInv'
  <1>a. MemoryInv /\ ContextInv
    BY DEF BronzeInv
  <1>b. runs \in Nat /\ MaxRuns \in Nat
    BY <1>a, RunsType DEF ContextInv
  <1>1. ASSUME NEW r \in Row, StampFrame(r) PROVE ContextInv'
    <2>1. Stamped(row[r], runs, restamped) /\ row[r].kind = "frame"
      BY <1>a, <1>1 DEF MemoryInv, StampFrame, Of
    <2>2. row[r].payload \in Payload
      BY <2>1 DEF Stamped
    <2> HIDE DEF Framed
    <2> QED  BY <1>a, <1>b, <1>1, <2>2 DEF StampFrame, ContextInv
  <1>2. ASSUME NEW S \in SUBSET Row, Collect(S) \/ CollectRaises(S) PROVE ContextInv'
    <2>1. runs < MaxRuns /\ runs' = runs + 1 /\ UNCHANGED <<git, var, restamped>>
      BY <1>2 DEF Collect, CollectRaises
    <2> QED  BY <1>a, <1>b, <2>1 DEF ContextInv
  <1>3. CASE Redeploy
    BY <1>a, <1>3 DEF Redeploy, ContextInv
  <1>4. CASE UNCHANGED <<runs, git, var, restamped>>
    BY <1>a, <1>4 DEF ContextInv
  <1>5. ASSUME NEW r \in Row, NEW kind \in {"article", "frame"}, NEW p \in Payload,
               Fetch(r, kind, p)
        PROVE  ContextInv'
    BY <1>4, <1>5 DEF Fetch
  <1>6. ASSUME NEW r \in Row, NEW b \in bronze, ReadBack(r, b) PROVE ContextInv'
    BY <1>4, <1>6 DEF ReadBack
  <1>7. ASSUME NEW r \in Row, Insert(r) PROVE ContextInv'
    BY <1>4, <1>7 DEF Insert
  <1>8. ASSUME NEW S \in SUBSET Row, Forget(S) PROVE ContextInv'
    BY <1>4, <1>8 DEF Forget
  <1>9. CASE UNCHANGED vars
    BY <1>4, <1>9 DEF vars
  <1> QED  BY <1>1, <1>2, <1>3, <1>5, <1>6, <1>7, <1>8, <1>9 DEF Next

-----------------------------------------------------------------------------
(* The theorems.                                                           *)

LEMMA InitBronze == Init => BronzeInv
  <1> SUFFICES ASSUME Init PROVE BronzeInv
    OBVIOUS
  <1>1. row = [r \in Row |-> Blank] /\ returned = {} /\ bronze = {} /\ runs = 0
        /\ restamped = {} /\ git = TRUE /\ var \in Vars
    BY DEF Init
  <1>2. \A r \in Row : Stamped(row[r], runs, restamped)
    BY <1>1, BlankStamped
  <1>3. row = [r \in Row |-> row[r]]
    BY <1>1
  <1>4. MemoryInv
    BY <1>1, <1>2, <1>3 DEF MemoryInv
  <1>5. TableInv /\ ContextInv
    BY <1>1, RunsType DEF TableInv, ContextInv
  <1> QED  BY <1>4, <1>5 DEF BronzeInv

LEMMA NextBronze == BronzeInv /\ [Next]_vars => BronzeInv'
  BY NextMemory, NextTable, NextContext DEF BronzeInv

\* The strengthened invariant holds throughout.
THEOREM BronzeHolds == Spec => []BronzeInv
  <1> QED  BY InitBronze, NextBronze, PTL DEF Spec

\* Every stamp is of a run that has begun, and only what went through collect
\* or stamp_for_bronze reaches the writer.
THEOREM TypeCorrect == Spec => []TypeOK
  <1>1. ASSUME BronzeInv PROVE TypeOK
    <2>1. MemoryInv /\ ContextInv
      BY <1>1 DEF BronzeInv
    <2>2. ASSUME NEW r \in Row
          PROVE  /\ row[r].kind \in {"free", "article", "frame"}
                 /\ row[r].payload \in Payload \union {NoPayload}
                 /\ row[r].run \in 0..runs
                 /\ row[r].sha \in {NoSha, "sha", "version"}
      <3>1. Stamped(row[r], runs, restamped)
        BY <2>1 DEF MemoryInv
      <3>2. Blank.payload = NoPayload
        BY DEF Blank
      <3> QED  BY <3>1, <3>2 DEF Stamped
    <2>3. \A r \in returned : row[r].run > 0
      BY <2>1 DEF MemoryInv, Whole
    <2> QED  BY <2>1, <2>2, <2>3 DEF TypeOK, ContextInv
  <1> QED  BY <1>1, BronzeHolds, PTL

\* No row enters bronze without its hash, run, code_sha and inputs_hash,
\* whatever collect raised on before.
THEOREM BronzeComplete == Spec => []CompleteInBronze
  <1>1. ASSUME BronzeInv PROVE CompleteInBronze
    <2>1. ASSUME NEW b \in bronze
          PROVE  /\ b.hash # <<>> /\ b.run > 0
                 /\ b.kind = "article" => b.sha # NoSha /\ b.inputs # {} /\ b.hash \in b.inputs
      <3>1. Stamped(b, runs, restamped) /\ Whole(b)
        BY <1>1 DEF BronzeInv, TableInv
      <3> QED  BY <3>1 DEF Stamped, Whole
    <2> QED  BY <2>1 DEF CompleteInBronze
  <1> QED  BY <1>1, BronzeHolds, PTL

\* However often a payload is collected and inserted, it is in bronze once for
\* each way in, but for frames that stamp_for_bronze was given again.
THEOREM OneRowEach == Spec => []OneRowPerPayload
  <1>1. ASSUME BronzeInv PROVE OneRowPerPayload
    <2>1. SUFFICES ASSUME NEW b \in bronze, NEW c \in bronze,
                          b.kind = c.kind, b.payload = c.payload
                   PROVE  b = c \/ (b.kind = "frame" /\ b.payload \in restamped)
      BY DEF OneRowPerPayload
    <2>2. /\ Stamped(b, runs, restamped) /\ Whole(b) /\ Stamped(c, runs, restamped) /\ Whole(c)
          /\ b.hash = c.hash => b = c
      BY <1>1 DEF BronzeInv, TableInv
    <2>3. b.run > 0 /\ c.run > 0
      BY <2>2 DEF Whole
    <2>4. CASE b.kind = "free"
      <3>1. b = Blank
        BY <2>2, <2>4 DEF Stamped
      <3>2. b.run = 0
        BY <3>1 DEF Blank
      <3> QED  BY <2>3, <3>2
    <2>5. CASE b.kind = "article" \/ (b.kind = "frame" /\ b.payload \notin restamped)
      <3>1. b.hash = <<b.kind, b.payload>>
        BY <2>2, <2>3, <2>5 DEF Stamped
      <3>2. c.hash = <<c.kind, c.payload>>
        BY <2>1, <2>2, <2>3, <2>5 DEF Stamped
      <3> QED  BY <2>1, <2>2, <3>1, <3>2
    <2>6. b.kind \in {"free", "article", "frame"}
      BY <2>2 DEF Stamped
    <2> QED  BY <2>4, <2>5, <2>6
  <1> QED  BY <1>1, BronzeHolds, PTL

\* The stamps an article keeps.
Kept(x, y) ==
    /\ x.hash # <<>> => y.hash = x.hash
    /\ x.run # 0 => y.run = x.run
    /\ x.sha # NoSha => y.sha = x.sha
    /\ x.inputs # {} => y.inputs = x.inputs

LEMMA FilledKeeps ==
    ASSUME NEW r \in Row, IsRow(row[r]), NEW H
    PROVE  Kept(row[r], Filled(r)) /\ Kept(row[r], WithInputs(Filled(r), H))
  <1> DEFINE x == row[r]
             h == IF x.hash = <<>> THEN ContentHash(r) ELSE x.hash
             n == IF x.run = 0 THEN runs + 1 ELSE x.run
             s == IF x.sha = NoSha THEN CodeSha ELSE x.sha
             y == Filled(r)
             z == WithInputs(y, H)
  <1>1. y = [x EXCEPT !.hash = h, !.run = n, !.sha = s]
    BY DEF Filled
  <1> HIDE DEF h, n, s, y
  <1>2. y = [kind |-> x.kind, payload |-> x.payload, hash |-> h, run |-> n,
             sha |-> s, inputs |-> x.inputs]
    BY <1>1, Restamp
  <1>3. IsRow(y) /\ y.hash = h /\ y.run = n /\ y.sha = s /\ y.inputs = x.inputs
    BY <1>2, Columns
  <1> HIDE DEF z
  <1>4. /\ z.hash = y.hash /\ z.run = y.run /\ z.sha = y.sha
        /\ z.inputs = IF y.inputs = {} THEN H ELSE y.inputs
    BY <1>3, Linked DEF z
  <1>5. Kept(x, y)
    BY <1>3 DEF Kept, h, n, s
  <1>6. Kept(x, z)
    BY <1>3, <1>4 DEF Kept, h, n, s
  <1> QED  BY <1>5, <1>6 DEF y, z

LEMMA FinalStep ==
    ASSUME MemoryInv, [Next]_vars, NEW r \in Row,
           row[r].kind = "article", row'[r].kind = "article"
    PROVE  Kept(row[r], row'[r])
  <1>a. row = [q \in Row |-> row[q]] /\ IsRow(row[r])
    BY DEF MemoryInv, Stamped, IsRow
  <1>b. ASSUME row'[r] = row[r] PROVE Kept(row[r], row'[r])
    BY <1>b DEF Kept
  <1>1. ASSUME NEW q \in Row, NEW kind \in {"article", "frame"}, NEW p \in Payload,
               Fetch(q, kind, p)
        PROVE  Kept(row[r], row'[r])
    <2>1. q # r /\ row' = [row EXCEPT ![q] = New(kind, p)]
      BY <1>1 DEF Fetch
    <2> HIDE DEF New
    <2>2. row'[r] = row[r]
      BY <1>a, <2>1
    <2> QED  BY <1>b, <2>2
  <1>2. ASSUME NEW S \in SUBSET Row, Collect(S) PROVE Kept(row[r], row'[r])
    <2>1. PICK H : row' = [q \in Row |-> IF q \in S THEN WithInputs(Filled(q), H) ELSE row[q]]
      BY <1>2 DEF Collect
    <2>2. row'[r] = row[r] \/ row'[r] = WithInputs(Filled(r), H)
      BY <2>1
    <2> QED  BY <1>a, <1>b, <2>2, FilledKeeps
  <1>3. ASSUME NEW S \in SUBSET Row, CollectRaises(S) PROVE Kept(row[r], row'[r])
    <2>1. PICK P \in SUBSET S : row' = [q \in Row |-> IF q \in P THEN Filled(q) ELSE row[q]]
      BY <1>3 DEF CollectRaises
    <2>2. row'[r] = row[r] \/ row'[r] = Filled(r)
      BY <2>1
    <2> QED  BY <1>a, <1>b, <2>2, FilledKeeps
  <1>4. ASSUME NEW q \in Row, StampFrame(q) PROVE Kept(row[r], row'[r])
    <2>1. row' = [row EXCEPT ![q] = Framed(q)] /\ q # r
      BY <1>4 DEF StampFrame, Of
    <2> HIDE DEF Framed
    <2>2. row'[r] = row[r]
      BY <1>a, <2>1
    <2> QED  BY <1>b, <2>2
  <1>5. ASSUME NEW q \in Row, NEW b \in bronze, ReadBack(q, b) PROVE Kept(row[r], row'[r])
    <2>1. row' = [row EXCEPT ![q] = b] /\ q # r
      BY <1>5 DEF ReadBack
    <2>2. row'[r] = row[r]
      BY <1>a, <2>1
    <2> QED  BY <1>b, <2>2
  <1>6. ASSUME NEW q \in Row, Insert(q) PROVE Kept(row[r], row'[r])
    BY <1>b, <1>6 DEF Insert
  <1>7. ASSUME NEW S \in SUBSET Row, Forget(S) PROVE Kept(row[r], row'[r])
    <2>1. row'[r] = Blank \/ row'[r] = row[r]
      BY <1>7 DEF Forget
    <2>2. Blank.kind = "free"
      BY DEF Blank
    <2> QED  BY <1>b, <2>1, <2>2
  <1>8. CASE Redeploy
    BY <1>b, <1>8 DEF Redeploy
  <1>9. CASE UNCHANGED vars
    BY <1>b, <1>9 DEF vars
  <1> QED  BY <1>1, <1>2, <1>3, <1>4, <1>5, <1>6, <1>7, <1>8, <1>9 DEF Next

\* _stamp_rows fills what is empty and nothing else: no later collect, failed
\* or not, changes what an article was stamped with.
THEOREM StampsFinal == Spec => StampsAreFinal
  <1> DEFINE A == \A r \in Row :
                    row[r].kind = "article" /\ row'[r].kind = "article" =>
                        /\ row[r].hash # <<>> => row'[r].hash = row[r].hash
                        /\ row[r].run # 0 => row'[r].run = row[r].run
                        /\ row[r].sha # NoSha => row'[r].sha = row[r].sha
                        /\ row[r].inputs # {} => row'[r].inputs = row[r].inputs
  <1>1. ASSUME BronzeInv, [Next]_vars PROVE A
    <2>1. MemoryInv
      BY <1>1 DEF BronzeInv
    <2>2. ASSUME NEW r \in Row, row[r].kind = "article", row'[r].kind = "article"
          PROVE  Kept(row[r], row'[r])
      BY <1>1, <2>1, <2>2, FinalStep
    <2> QED  BY <2>2 DEF Kept
  <1>2. BronzeInv /\ [Next]_vars => [A]_vars
    BY <1>1
  <1> QED  BY <1>2, BronzeHolds, PTL DEF Spec, StampsAreFinal
=============================================================================
