------------------------------ MODULE Builder ------------------------------
(***************************************************************************)
(* What an L1b or L2 builder asks of this package before it writes:        *)
(* git_meta.git_commit_hash for builder_version, git_meta.git_dirty, and   *)
(* validators.validate_normalized or validate_computed.  The threads of    *)
(* one process share the lru_cache of git_commit_hash.  The builders that  *)
(* make these calls in this order, and the checkout they run from, are     *)
(* external.                                                               *)
(***************************************************************************)
EXTENDS Integers, Sequences, FiniteSets

CONSTANTS
    Thread,
    Frames,             \* what the builders build
    SampleRows,         \* sample_rows
    MaxHead             \* bound on the commits made

ASSUME ThreadAssumption == IsFiniteSet(Thread)
ASSUME SampleRowsAssumption == SampleRows \in Nat
ASSUME MaxHeadAssumption == MaxHead \in Nat

VARIABLES
    pc, version, frame, \* of each thread
    cache,              \* git_commit_hash's, for the builders' (cwd, short)
    head, edited, works,\* HEAD, uncommitted changes, and git answers
    written, refused    \* by this process

local == <<pc, version, frame>>
checkout == <<head, edited, works>>
outcome == <<written, refused>>
vars == <<local, cache, checkout, outcome>>

\* Commits are numbered as they become HEAD.
Unknown == -1
NoVersion == -2
NoFrame == [kind |-> "none"]

\* The columns that must hold one value, the one the caller names.  The domain
\* column of a computed frame is not one of them: nothing reads it here.
Uniform(kind) ==
    IF kind = "computed" THEN {"dataset_id", "chain_depth"} ELSE {"dataset_id"}

\* _validate_mandatory_cols, _validate_dataset_id, and for a computed frame
\* _validate_chain_depth and _validate_domain, which refuse a chain_depth or a
\* domain, named by the caller, that is not on their lists.  An empty frame has
\* no dataset_id.
ColumnsOK(f) ==
    /\ f.missing = {}
    /\ f.unlisted = {}
    /\ \A c \in Uniform(f.kind) : f.values[c] = {"named"}

\* _validate_sample_rows against the base class, which forbids columns it
\* does not have.
RowOK(f, i) == f.rows[i] = "ok" /\ f.payload = {}
Sampled(f) == {i \in DOMAIN f.rows : i <= SampleRows}

Accepted(f) == ColumnsOK(f) /\ \A i \in Sampled(f) : RowOK(f, i)

Init ==
    /\ pc = [t \in Thread |-> "idle"]
    /\ version = [t \in Thread |-> NoVersion]
    /\ frame = [t \in Thread |-> NoFrame]
    /\ cache = NoVersion
    /\ head = 0
    /\ edited = FALSE
    /\ works = TRUE
    /\ written = {}
    /\ refused = {}

Goto(t, from, to) ==
    /\ pc[t] = from
    /\ pc' = [pc EXCEPT ![t] = to]

-----------------------------------------------------------------------------
(* Wrong versions of the steps below.                                      *)

\* Without lru_cache.
StoreNothing(t) ==
    /\ Goto(t, "told", "dirty")
    /\ UNCHANGED <<version, frame, cache, checkout, outcome>>

\* A failure gives no version at all.
AskSilent(t) ==
    /\ Goto(t, "ask", "told")
    /\ version' = [version EXCEPT ![t] = IF works THEN head ELSE NoVersion]
    /\ UNCHANGED <<frame, cache, checkout, outcome>>

-----------------------------------------------------------------------------
(* git_commit_hash.                                                        *)

Begin(t) ==
    /\ Goto(t, "idle", "version")
    /\ \E f \in Frames : frame' = [frame EXCEPT ![t] = f]
    /\ UNCHANGED <<version, cache, checkout, outcome>>

Hit(t) ==
    /\ cache # NoVersion
    /\ Goto(t, "version", "dirty")
    /\ version' = [version EXCEPT ![t] = cache]
    /\ UNCHANGED <<frame, cache, checkout, outcome>>

Miss(t) ==
    /\ cache = NoVersion
    /\ Goto(t, "version", "ask")
    /\ UNCHANGED <<version, frame, cache, checkout, outcome>>

\* git rev-parse HEAD: not installed, more than 2 s or no repository is "unknown".
Ask(t) ==
    /\ Goto(t, "ask", "told")
    /\ version' = [version EXCEPT ![t] = IF works THEN head ELSE Unknown]
    /\ UNCHANGED <<frame, cache, checkout, outcome>>

\* lru_cache keeps the first result, and returns to each caller its own.
Store(t) ==
    /\ Goto(t, "told", "dirty")
    /\ cache' = IF cache = NoVersion THEN version[t] ELSE cache
    /\ UNCHANGED <<version, frame, checkout, outcome>>

-----------------------------------------------------------------------------
(* git_dirty, the validators, and the write.                               *)

\* A git that fails has no output: not dirty.
git_dirty == works /\ edited

Dirty(t) ==
    /\ git_dirty
    /\ Goto(t, "dirty", "idle")
    /\ UNCHANGED <<version, frame, cache, checkout, outcome>>

Clean(t) ==
    /\ ~git_dirty
    /\ Goto(t, "dirty", "validate")
    /\ UNCHANGED <<version, frame, cache, checkout, outcome>>

\* SchemaValidationError.
Reject(t) ==
    /\ Goto(t, "validate", "idle")
    /\ ~Accepted(frame[t])
    /\ refused' = refused \union {frame[t]}
    /\ UNCHANGED <<version, frame, cache, checkout, written>>

Accept(t) ==
    /\ Goto(t, "validate", "write")
    /\ Accepted(frame[t])
    /\ UNCHANGED <<version, frame, cache, checkout, outcome>>

Write(t) ==
    /\ Goto(t, "write", "idle")
    /\ written' = written \union {[version |-> version[t], frame |-> frame[t]]}
    /\ UNCHANGED <<version, frame, cache, checkout, refused>>

-----------------------------------------------------------------------------
(* The checkout and the process.                                           *)

Commit ==
    /\ head < MaxHead
    /\ head' = head + 1
    /\ edited' = FALSE
    /\ UNCHANGED <<local, cache, works, outcome>>

Edit ==
    /\ edited' = ~edited
    /\ UNCHANGED <<local, cache, head, works, outcome>>

GitChanges ==
    /\ works' = ~works
    /\ UNCHANGED <<local, cache, head, edited, outcome>>

Restart ==
    /\ pc' = [t \in Thread |-> "idle"]
    /\ version' = [t \in Thread |-> NoVersion]
    /\ frame' = [t \in Thread |-> NoFrame]
    /\ cache' = NoVersion
    /\ written' = {}
    /\ refused' = {}
    /\ UNCHANGED checkout

Build(t) ==
    \/ Begin(t) \/ Hit(t) \/ Miss(t) \/ Ask(t) \/ Store(t)
    \/ Dirty(t) \/ Clean(t) \/ Reject(t) \/ Accept(t) \/ Write(t)

Next ==
    \/ \E t \in Thread : Build(t)
    \/ Commit \/ Edit \/ GitChanges \/ Restart

Spec == Init /\ [][Next]_vars

-----------------------------------------------------------------------------
\* A frame that reaches the validators has a version, a commit that has been
\* HEAD or "unknown".
TypeOK ==
    /\ \A t \in Thread :
          /\ pc[t] \in {"idle", "version", "ask", "told", "dirty", "validate", "write"}
          /\ pc[t] \in {"dirty", "validate", "write"} => version[t] \in {Unknown} \union 0..head
          /\ pc[t] # "idle" => frame[t] \in Frames
    /\ cache \in {NoVersion, Unknown} \union 0..head
    /\ head \in 0..MaxHead

\* However often HEAD moves and git fails, one process writes frames of no
\* more versions than it has threads: each can miss the cache once, and with a
\* single thread all frames have the same builder_version.
VersionsBounded ==
    Cardinality({w.version : w \in written}) <= Cardinality(Thread)

\* git_meta.py:45: "Return True if working tree has uncommitted changes."  A
\* builder goes on to validate and write only from a clean tree.
DirtyRefused ==
    [][\A t \in Thread : pc[t] = "dirty" /\ pc'[t] = "validate" => ~edited]_vars

\* schemas/base.py:17: "Per-builder payload schema extends via subclass + adds
\* payload fields"; validators.py:1: "gate parquet writes from L1b + L2
\* builders".  A frame whose mandatory columns are right and whose rows are
\* all valid is not refused for having the payload columns of its schema.
PayloadsAccepted ==
    \A f \in refused : ~(ColumnsOK(f) /\ \A i \in DOMAIN f.rows : f.rows[i] = "ok")

-----------------------------------------------------------------------------
(* The strengthening behind VersionsBounded.                               *)

Places == {"idle", "version", "ask", "told", "dirty", "validate", "write"}
Holding == {"told", "dirty", "validate", "write"}
Versions == {Unknown} \union 0..MaxHead

\* A thread that has been told a version, by git or by the cache, keeps it.
PlacesInv ==
    /\ pc \in [Thread -> Places]
    /\ version \in [Thread -> {NoVersion} \union Versions]
    /\ frame \in [Thread -> {NoFrame} \union Frames]
    /\ cache \in {NoVersion, Unknown} \union 0..head
    /\ head \in 0..MaxHead
    /\ \A t \in Thread :
          /\ pc[t] \in Holding => version[t] \in {Unknown} \union 0..head
          /\ pc[t] # "idle" => frame[t] \in Frames

\* Where a version can be: in a row written, in the cache, in a thread.
Known ==
    {w.version : w \in written}
        \union ({cache} \ {NoVersion})
        \union {version[t] : t \in {u \in Thread : pc[u] \in Holding}}

\* The threads that have missed the cache, and what git told each.  Until one
\* has stored its answer they are the threads yet to do so; afterwards only
\* those still asking may join them.
Missed(S, f) ==
    /\ Known \subseteq {f[t] : t \in S}
    /\ \A t \in S : pc[t] # "ask" /\ (cache = NoVersion => pc[t] = "told")

\* The inductive invariant of Builder_proofs.
BuilderInv ==
    PlacesInv /\ \E S \in SUBSET Thread : \E f \in [S -> Versions] : Missed(S, f)
=============================================================================
