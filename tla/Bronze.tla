------------------------------- MODULE Bronze -------------------------------
(***************************************************************************)
(* How a row gets its provenance and enters a bronze table:                *)
(* BaseCollector.collect stamps RawArticle objects in place, filling only  *)
(* the fields still empty; stamp_for_bronze stamps a copy of a DataFrame   *)
(* row, overwriting; idempotent_insert writes a row unless one with its    *)
(* content_hash is there.  The writer around them (external) may crash and *)
(* repeat any of it.                                                       *)
(*                                                                         *)
(* A hash is the sequence of what went into it: hashing is injective.      *)
(***************************************************************************)
EXTENDS Integers, Sequences

CONSTANTS
    Row,                \* objects in the memory of the process
    Payload,            \* what a source delivers
    Vars,               \* values HT_CODE_SHA may have: none, a SHA, a version
    MaxRuns             \* bound on the runs of collect and stamp_for_bronze

\* Of a payload, a code_sha or HT_CODE_SHA: empty.
NoPayload == "none"
NoSha == "none"

ASSUME VarsAssumption == Vars \subseteq {NoSha, "sha", "version"}
ASSUME MaxRunsAssumption == MaxRuns \in Nat

VARIABLES
    row,                \* the objects in memory
    returned,           \* those collect or stamp_for_bronze returned
    bronze,             \* the rows of the table
    runs,               \* run_ids and timestamps given out so far
    git,                \* git rev-parse works in the collector's checkout
    var                 \* HT_CODE_SHA

\* What happened so far, for the properties.
VARIABLE restamped      \* payloads of frames stamped more than once

vars == <<row, returned, bronze, runs, git, var, restamped>>

Blank == [kind |-> "free", payload |-> NoPayload, hash |-> <<>>, run |-> 0,
          sha |-> NoSha, inputs |-> {}]
New(kind, p) == [Blank EXCEPT !.kind = kind, !.payload = p]

Of(kind) == {r \in Row : row[r].kind = kind}

\* Wrong: the hash covers the run as well.
ContentHashOfRun(r) == <<row[r].kind, row[r].payload, runs>>

\* BaseCollector._content_hash: the payload's fields only.
ContentHash(r) == <<row[r].kind, row[r].payload>>

\* _sha256_row: every column the frame has, those of an earlier stamp too.
FrameHash(r) ==
    <<row[r].kind, row[r].payload>>
        \o IF row[r].run = 0 THEN <<>> ELSE <<row[r].hash, row[r].run>>

\* _code_sha: HEAD of the checkout, or whatever HT_CODE_SHA holds.
ShaKnown == git \/ var # NoSha
CodeSha == IF git THEN "sha" ELSE var

Init ==
    /\ row = [r \in Row |-> Blank]
    /\ returned = {}
    /\ bronze = {}
    /\ runs = 0
    /\ git = TRUE
    /\ var \in Vars
    /\ restamped = {}

-----------------------------------------------------------------------------
(* Wrong versions of the steps below.                                      *)

\* A stamp replaces what is there.
FilledAnew(r) ==
    [row[r] EXCEPT !.hash = ContentHash(r), !.run = runs + 1, !.sha = CodeSha]

\* run_id and the timestamps are left to the writer.
FilledNoRun(r) == [row[r] EXCEPT !.hash = IF @ = <<>> THEN ContentHash(r) ELSE @]

\* Rows are handed on as they are stamped, before the last is looked at.
RaiseReturns(S) ==
    /\ S # {} /\ S \subseteq Of("article")
    /\ ShaKnown
    /\ runs < MaxRuns
    /\ \E P \in SUBSET S :
          /\ row' = [r \in Row |-> IF r \in P
                        THEN [row[r] EXCEPT !.hash = ContentHash(r), !.run = runs + 1,
                                            !.sha = CodeSha]
                        ELSE row[r]]
          /\ returned' = returned \union P
    /\ runs' = runs + 1
    /\ UNCHANGED <<bronze, git, var, restamped>>

-----------------------------------------------------------------------------
(* The collector.                                                          *)

\* _collect makes a RawArticle, and a loader a DataFrame, of a payload.
Fetch(r, kind, p) ==
    /\ row[r].kind = "free"
    /\ row' = [row EXCEPT ![r] = New(kind, p)]
    /\ UNCHANGED <<returned, bronze, runs, git, var, restamped>>

\* The first loop of _stamp_rows: what a row has, it keeps.
Filled(r) ==
    [row[r] EXCEPT !.hash = IF @ = <<>> THEN ContentHash(r) ELSE @,
                   !.run = IF @ = 0 THEN runs + 1 ELSE @,
                   !.sha = IF @ = NoSha THEN CodeSha ELSE @]

\* The second loop, once every row has its content_hash.
WithInputs(x, hashes) == [x EXCEPT !.inputs = IF @ = {} THEN hashes ELSE @]

\* Without a SHA, _code_sha raises before the first row is touched.
Collect(S) ==
    /\ S # {} /\ S \subseteq Of("article")
    /\ ShaKnown
    /\ runs < MaxRuns
    /\ runs' = runs + 1
    /\ LET hashes == {Filled(r).hash : r \in S}
       IN  row' = [r \in Row |-> IF r \in S THEN WithInputs(Filled(r), hashes) ELSE row[r]]
    /\ returned' = returned \union S
    /\ UNCHANGED <<bronze, git, var, restamped>>

\* A row that is no RawArticle: TypeError, with the rows before it stamped
\* except for inputs_hash.  They stay in the collector, which may yield them
\* again.
CollectRaises(S) ==
    /\ S # {} /\ S \subseteq Of("article")
    /\ ShaKnown
    /\ runs < MaxRuns
    /\ runs' = runs + 1
    /\ \E P \in SUBSET S : row' = [r \in Row |-> IF r \in P THEN Filled(r) ELSE row[r]]
    /\ UNCHANGED <<returned, bronze, git, var, restamped>>

-----------------------------------------------------------------------------
(* stamp_for_bronze.                                                       *)

\* Every column is assigned.
Framed(r) == [row[r] EXCEPT !.hash = FrameHash(r), !.run = runs + 1]

\* The copy replaces the frame.
StampFrame(r) ==
    /\ r \in Of("frame")
    /\ runs < MaxRuns
    /\ runs' = runs + 1
    /\ row' = [row EXCEPT ![r] = Framed(r)]
    /\ returned' = returned \union {r}
    /\ restamped' = IF row[r].run = 0 THEN restamped
                                      ELSE restamped \union {row[r].payload}
    /\ UNCHANGED <<bronze, git, var>>

\* A job reads a frame from bronze to stamp it for another table.
ReadBack(r, b) ==
    /\ row[r].kind = "free"
    /\ b \in bronze /\ b.kind = "frame"
    /\ row' = [row EXCEPT ![r] = b]
    /\ UNCHANGED <<returned, bronze, runs, git, var, restamped>>

-----------------------------------------------------------------------------
(* The writer and its surroundings.                                        *)

\* idempotent_insert, with content_hash unique in the table.
Insert(r) ==
    /\ r \in returned
    /\ bronze' = IF \E b \in bronze : b.hash = row[r].hash THEN bronze
                                                         ELSE bronze \union {row[r]}
    /\ UNCHANGED <<row, returned, runs, git, var, restamped>>

\* An object is garbage, or the process dies and is started again.
Forget(S) ==
    /\ S # {}
    /\ row' = [r \in Row |-> IF r \in S THEN Blank ELSE row[r]]
    /\ returned' = returned \ S
    /\ UNCHANGED <<bronze, runs, git, var, restamped>>

\* The checkout is missing where the collector is deployed, or back.
Redeploy ==
    /\ git' = ~git
    /\ UNCHANGED <<row, returned, bronze, runs, var, restamped>>

Next ==
    \/ \E r \in Row, kind \in {"article", "frame"}, p \in Payload : Fetch(r, kind, p)
    \/ \E S \in SUBSET Row : Collect(S)
    \/ \E S \in SUBSET Row : CollectRaises(S)
    \/ \E r \in Row : StampFrame(r)
    \/ \E r \in Row, b \in bronze : ReadBack(r, b)
    \/ \E r \in Row : Insert(r)
    \/ \E r \in Row : Forget({r})
    \/ Forget(Row)
    \/ Redeploy

Spec == Init /\ [][Next]_vars

-----------------------------------------------------------------------------
\* A stamp is of a run begun, and only what has gone through collect or
\* stamp_for_bronze is handed to the writer.
TypeOK ==
    /\ \A r \in Row : /\ row[r].kind \in {"free", "article", "frame"}
                      /\ row[r].payload \in Payload \union {NoPayload}
                      /\ row[r].run \in 0..runs
                      /\ row[r].sha \in {NoSha, "sha", "version"}
    /\ \A r \in returned : row[r].run > 0
    /\ runs \in 0..MaxRuns
    /\ git \in BOOLEAN
    /\ var \in Vars
    /\ restamped \subseteq Payload

\* Every row in bronze has all its columns, also if an earlier collect of the
\* same objects raised half-way: a row without inputs_hash, or with a hash
\* but no run, is never handed to the writer.
CompleteInBronze ==
    \A b \in bronze :
        /\ b.hash # <<>> /\ b.run > 0
        /\ b.kind = "article" => b.sha # NoSha /\ b.inputs # {} /\ b.hash \in b.inputs

\* However often a payload is fetched, collected and inserted, by whatever
\* run, with failures and restarts between: bronze has one row of it per way
\* in, but for frames that were stamped again.
OneRowPerPayload ==
    \A b, c \in bronze :
        b.kind = c.kind /\ b.payload = c.payload =>
            \/ b = c
            \/ b.kind = "frame" /\ b.payload \in restamped

\* What a row was stamped with stays: collecting it again changes no stamp.
StampsAreFinal ==
    [][\A r \in Row :
          row[r].kind = "article" /\ row'[r].kind = "article" =>
              /\ row[r].hash # <<>> => row'[r].hash = row[r].hash
              /\ row[r].run # 0 => row'[r].run = row[r].run
              /\ row[r].sha # NoSha => row'[r].sha = row[r].sha
              /\ row[r].inputs # {} => row'[r].inputs = row[r].inputs]_vars

-----------------------------------------------------------------------------
(* The strengthening behind the safety properties.                         *)

\* A row in memory or in bronze, after n runs, with the payloads in again those
\* of frames stamped more than once.  An article's stamps come all at once, but for
\* inputs, which come with or after them; what it is hashed by is its payload,
\* and so it is for a frame until its payload is stamped again.
Stamped(x, n, again) ==
    /\ x = [kind |-> x.kind, payload |-> x.payload, hash |-> x.hash, run |-> x.run,
            sha |-> x.sha, inputs |-> x.inputs]
    /\ x.kind \in {"free", "article", "frame"}
    /\ x.kind = "free" => x = Blank
    /\ x.kind # "free" => x.payload \in Payload
    /\ x.run \in 0..n
    /\ x.sha \in {NoSha, "sha", "version"}
    /\ x.hash # <<>> <=> x.run > 0
    /\ x.kind = "article" => /\ x.sha # NoSha <=> x.run > 0
                             /\ x.run > 0 => x.hash = <<x.kind, x.payload>>
                             /\ x.inputs # {} => x.run > 0 /\ x.hash \in x.inputs
    /\ x.kind = "frame" /\ x.payload \notin again /\ x.run > 0
           => x.hash = <<x.kind, x.payload>>

\* Ready for the writer.
Whole(x) == x.run > 0 /\ (x.kind = "article" => x.inputs # {})

MemoryInv ==
    /\ row = [r \in Row |-> row[r]]
    /\ \A r \in Row : Stamped(row[r], runs, restamped)
    /\ returned \subseteq Row
    /\ \A r \in returned : Whole(row[r])

TableInv ==
    /\ \A b \in bronze : Stamped(b, runs, restamped) /\ Whole(b)
    /\ \A b, c \in bronze : b.hash = c.hash => b = c

ContextInv ==
    runs \in 0..MaxRuns /\ git \in BOOLEAN /\ var \in Vars /\ restamped \subseteq Payload

\* The inductive invariant of Bronze_proofs.
BronzeInv == MemoryInv /\ TableInv /\ ContextInv
=============================================================================
