------------------------------- MODULE Sources -------------------------------
(***************************************************************************)
(* A crawler's day: sources_config.load_sources_yaml says which sources    *)
(* are on, each of them leaves a row or, through                           *)
(* source_status.emit_skipped_row, the row of a skip, and                  *)
(* idempotent_insert writes it to a table with a unique content_hash.  The *)
(* operator who edits sources.yaml and the crawler that calls these are    *)
(* external.                                                               *)
(*                                                                         *)
(* A row is its source, its content_hash, its as_of_date and its status.   *)
(***************************************************************************)
EXTENDS Integers

CONSTANTS
    Source,             \* names in sources.yaml
    Payload,            \* what a source delivers
    LastDay,            \* bounds on the calendar
    MaxEdits            \* and on the edits of the file

ASSUME BoundsAssumption == LastDay \in Nat /\ MaxEdits \in Nat

\* A SourceEntry with ops.status active; one with disabled or deprecated, or
\* none; one that pydantic refuses (a key missing or unknown, another status).
Entry == {"on", "off", "refused"}

VARIABLES
    file,               \* sources.yaml
    edits,
    today,              \* UTC
    run,                \* the crawler's run: since when, which file, what is
                        \* still to do; its day is -1 between runs
    bronze              \* the rows of the table

\* What happened so far, for the properties.
VARIABLES
    how,                \* what each source's job did in this run
    fetched,            \* hashes of the payloads that jobs delivered
    shadows             \* hashes of payloads that skip rows carry

history == <<how, fetched, shadows>>
vars == <<file, edits, today, run, bronze, history>>

NoRun == [day |-> -1, file |-> [s \in Source |-> "off"], todo |-> {}]
Deed == {"nothing", "fetched", "skipped", "skipped with hash", "skipped with row"}
Undone == [s \in Source |-> "nothing"]

Init ==
    /\ file = [s \in Source |-> "on"]
    /\ edits = 0
    /\ today = 0
    /\ run = NoRun
    /\ bronze = {}
    /\ how = Undone
    /\ fetched = {}
    /\ shadows = {}

\* row.update(columns).
Updated(row, columns) ==
    [k \in DOMAIN row \union DOMAIN columns |->
        IF k \in DOMAIN columns THEN columns[k] ELSE row[k]]

-----------------------------------------------------------------------------
(* Wrong versions of the operators below.                                  *)

\* Entries that are refused are left out of the list.
LoadsLeniently(f) == {f}

\* The caller's columns are merged last.
SkippedRowMergedLast(s, columns) ==
    Updated([source |-> s, hash |-> <<>>, day |-> today, status |-> "SKIPPED"], columns)

-----------------------------------------------------------------------------
\* What load_sources_yaml returns: all of the file, or nothing but an error.
Loads(f) == {g \in {f} : \A s \in Source : g[s] # "refused"}

\* _content_hash of what a source delivered, and a hash that a caller makes
\* for a skip, of the source and the day.
PayloadHash(s, p) == <<s, p>>
SkipHash(s) == <<s, "skip", today>>

Row(s, hash) == [source |-> s, hash |-> hash, day |-> today, status |-> "OK"]

\* emit_skipped_row with base_columns: the defaults, among them content_hash
\* "" and the date of now; what the caller gives; and the status in any case.
SkippedRow(s, columns) ==
    Updated(Updated([source |-> s, hash |-> <<>>, day |-> today], columns),
            [status |-> "SKIPPED"])

\* idempotent_insert into a table with a unique content_hash.
Insert(row) ==
    bronze' = IF \E b \in bronze : b.hash = row.hash THEN bronze ELSE bronze \union {row}

-----------------------------------------------------------------------------
(* The operator and the calendar.                                          *)

Edit(s, e) ==
    /\ edits < MaxEdits
    /\ file[s] # e
    /\ file' = [file EXCEPT ![s] = e]
    /\ edits' = edits + 1
    /\ UNCHANGED <<today, run, bronze, history>>

Midnight ==
    /\ today < LastDay
    /\ today' = today + 1
    /\ UNCHANGED <<file, edits, run, bronze, history>>

-----------------------------------------------------------------------------
(* The crawler.                                                            *)

\* It loads the file, and starts with the sources that are on.
Start ==
    /\ run.day = -1
    /\ \E f \in Loads(file) :
          run' = [day |-> today, file |-> f, todo |-> {s \in Source : f[s] = "on"}]
    /\ UNCHANGED <<file, edits, today, bronze, history>>

\* A file that is refused starts nothing.
Refuse ==
    /\ run.day = -1
    /\ Loads(file) = {}
    /\ UNCHANGED vars

Done(s, what) ==
    /\ s \in run.todo
    /\ run' = [run EXCEPT !.todo = @ \ {s}]
    /\ how' = [how EXCEPT ![s] = what]
    /\ UNCHANGED <<file, edits, today>>

\* The source delivers a payload.
Deliver(s, p) ==
    /\ Done(s, "fetched")
    /\ Insert(Row(s, PayloadHash(s, p)))
    /\ fetched' = fetched \union {PayloadHash(s, p)}
    /\ UNCHANGED shadows

\* The source is skipped, with no columns of the caller's, or with a hash made
\* for this skip.
Skip(s) ==
    /\ \/ Done(s, "skipped") /\ Insert(SkippedRow(s, <<>>))
       \/ Done(s, "skipped with hash") /\ Insert(SkippedRow(s, [hash |-> SkipHash(s)]))
    /\ UNCHANGED <<fetched, shadows>>

\* A payload is skipped after it was stamped, and the stamped row given as
\* base_columns, its status OK.
SkipStamped(s, p) ==
    /\ Done(s, "skipped with row")
    /\ Insert(SkippedRow(s, Row(s, PayloadHash(s, p))))
    /\ shadows' = shadows \union {PayloadHash(s, p)}
    /\ UNCHANGED fetched

\* The run is over, or the process dies; it may be run again the same day.
End ==
    /\ run.day # -1
    /\ run' = NoRun
    /\ how' = Undone
    /\ UNCHANGED <<file, edits, today, bronze, fetched, shadows>>

Next ==
    \/ \E s \in Source, e \in Entry : Edit(s, e)
    \/ Midnight
    \/ Start
    \/ Refuse
    \/ \E s \in Source :
          \/ \E p \in Payload : Deliver(s, p)
          \/ Skip(s)
          \/ \E p \in Payload : SkipStamped(s, p)
    \/ End

Spec == Init /\ [][Next]_vars

-----------------------------------------------------------------------------
\* A run that has nothing left to do has accounted for every source the file
\* did not switch off, a malformed entry included: by a row no older than the
\* run's first day, also when it ran over midnight or after a crash; by an
\* earlier row of the same content; or, for a skip without a hash, by the one
\* row with an empty hash, which may be another source's of another day.
EverySourceAccountedFor ==
    run.day # -1 /\ run.todo = {} =>
        \A s \in Source : run.file[s] # "off" =>
            \/ \E b \in bronze : b.source = s /\ b.day \in run.day..today
            \/ how[s] \in {"fetched", "skipped with row"} /\ \E b \in bronze : b.source = s
            \/ how[s] = "skipped" /\ \E b \in bronze : b.hash = <<>>

\* A row that says OK is of a payload a job delivered, and a delivered payload
\* has such a row, unless a skip row took its content_hash first and, since
\* rows are never updated, hides it for good.
StatusIsTrue ==
    /\ \A b \in bronze : b.status = "OK" => b.hash \in fetched
    /\ \A h \in fetched \ shadows : \E b \in bronze : b.hash = h /\ b.status = "OK"

-----------------------------------------------------------------------------
\* The strengthening that makes the two inductive: how far the types go; where
\* the content_hash of a row comes from, so that a row with the same hash is
\* the same source's; and the row that each source done in this run has left.
Types ==
    /\ file \in [Source -> Entry]
    /\ today \in Nat
    /\ run \in [day : Int, file : [Source -> Entry], todo : SUBSET Source]
    /\ run.day <= today
    /\ how \in [Source -> Deed]

FromPayload(b) ==
    /\ \E p \in Payload : b.hash = PayloadHash(b.source, p)
    /\ b.status = "OK" \/ b.hash \in shadows

FromSkip(b) ==
    /\ b.hash \in {<<>>, <<b.source, "skip", b.day>>}
    /\ b.status = "SKIPPED"

Origins == \A b \in bronze : FromPayload(b) \/ FromSkip(b)

Delivered ==
    fetched \subseteq {PayloadHash(s, p) : s \in Source, p \in Payload}

Accounted(s) ==
    \/ \E b \in bronze : b.source = s /\ b.day \in run.day..today
    \/ how[s] \in {"fetched", "skipped with row"} /\ \E b \in bronze : b.source = s
    \/ how[s] = "skipped" /\ \E b \in bronze : b.hash = <<>>

DoneAccounted ==
    run.day # -1 =>
        \A s \in Source : run.file[s] # "off" /\ s \notin run.todo => Accounted(s)

\* The inductive invariant of Calendar_proofs.
SourcesInv == Types /\ Origins /\ Delivered /\ DoneAccounted /\ StatusIsTrue
=============================================================================
