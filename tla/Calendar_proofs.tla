-------------------------- MODULE Calendar_proofs --------------------------
(* Proofs about the two components that follow the calendar, which share   *)
(* nothing else: a crawler's days, for any sources, payloads, edits and    *)
(* number of days; and the check of a backfill's rows, for any targets,    *)
(* years and number of rows.                                               *)
EXTENDS Sources, Backfill, TLAPS

-----------------------------------------------------------------------------
(* The hashes and rows of Sources.                                         *)

\* A payload's hash tells its source and is no skip's; a skip's hash tells its
\* source and its day, and is not empty.
LEMMA PayloadHashes ==
    ASSUME NEW s, NEW p, NEW r, NEW x
    PROVE  /\ PayloadHash(s, p) = PayloadHash(r, x) => s = r
           /\ PayloadHash(s, p) # <<r, "skip", x>>
           /\ PayloadHash(s, p) # <<>>
  BY DEF PayloadHash

LEMMA SkipHashes ==
    ASSUME NEW s, NEW d, NEW r, NEW x
    PROVE  /\ <<s, "skip", d>> = <<r, "skip", x>> => s = r /\ d = x
           /\ <<s, "skip", d>> # <<>>
  OBVIOUS

\* The columns of a row of today.
IsRow(row, s, hash, status) ==
    row.source = s /\ row.hash = hash /\ row.day = today /\ row.status = status

LEMMA Rows ==
    ASSUME NEW s, NEW hash
    PROVE  IsRow(Row(s, hash), s, hash, "OK")
  BY DEF IsRow, Row

\* What emit_skipped_row makes of the caller's columns: the status is SKIPPED
\* whatever they say, and a column they do not give has its default.
LEMMA SkippedRows ==
    ASSUME NEW s
    PROVE  /\ IsRow(SkippedRow(s, <<>>), s, <<>>, "SKIPPED")
           /\ \A hash : IsRow(SkippedRow(s, [hash |-> hash]), s, hash, "SKIPPED")
           /\ \A hash : IsRow(SkippedRow(s, Row(s, hash)), s, hash, "SKIPPED")
  BY DEF IsRow, SkippedRow, Updated, Row

\* After an insert the table has a row with this hash, a new one only if it is
\* this row, and all the rows it had.
LEMMA Inserts ==
    ASSUME NEW row, Insert(row)
    PROVE  /\ bronze \subseteq bronze'
           /\ bronze' \subseteq bronze \union {row}
           /\ \E b \in bronze' : b.hash = row.hash
  BY DEF Insert

-----------------------------------------------------------------------------
(* What a source's job leaves is accounted for.                            *)

\* Another source's account does not depend on this job's.
LEMMA OthersAccounted ==
    ASSUME Types, NEW s \in Source, NEW what, Done(s, what), bronze \subseteq bronze',
           NEW r \in Source, r # s, Accounted(r)
    PROVE  Accounted(r)'
  BY DEF Types, Done, Accounted

\* A job that accounts for its source keeps the types and the accounts.
LEMMA DoneKeeps ==
    ASSUME Types, DoneAccounted, NEW s \in Source, NEW what \in Deed, Done(s, what),
           bronze \subseteq bronze', Accounted(s)'
    PROVE  Types' /\ DoneAccounted'
  <1>1. /\ run.todo \subseteq Source
        /\ run' = [day |-> run.day, file |-> run.file, todo |-> run.todo \ {s}]
    BY DEF Types, Done
  <1>2. Types'
    BY <1>1 DEF Types, Done
  <1>3. ASSUME run.day # -1, NEW r \in Source, run.file[r] # "off", r \notin run.todo \ {s}
        PROVE  Accounted(r)'
    <2>1. CASE r = s
      BY <2>1
    <2>2. CASE r # s
      BY <1>3, <2>2, OthersAccounted DEF DoneAccounted
    <2> QED  BY <2>1, <2>2
  <1> QED  BY <1>1, <1>2, <1>3 DEF DoneAccounted

\* A row that a job writes, or the earlier row with its hash, accounts for the
\* job's source where that row has a hash of this source.
LEMMA InsertsOwn ==
    ASSUME Types, NEW s \in Source, NEW what, Done(s, what), NEW row, Insert(row),
           row.source = s, row.day = today
    PROVE  \/ Accounted(s)'
           \/ \E b \in bronze : b.hash = row.hash
  <1>1. CASE row \in bronze'
    <2>1. run'.day = run.day /\ today' = today
      BY DEF Types, Done
    <2>2. row.day \in run.day..today
      BY DEF Types
    <2> QED  BY <1>1, <2>1, <2>2 DEF Accounted
  <1>2. CASE row \notin bronze'
    BY <1>2 DEF Insert
  <1> QED  BY <1>1, <1>2

\* A row with a payload's hash is of the payload's source.
LEMMA PayloadOrigin ==
    ASSUME Origins, NEW b \in bronze, NEW s, NEW p, b.hash = PayloadHash(s, p)
    PROVE  b.source = s /\ (b.status = "OK" \/ b.hash \in shadows)
  <1>1. ~FromSkip(b)
    BY PayloadHashes DEF FromSkip
  <1> QED  BY <1>1, PayloadHashes DEF Origins, FromPayload

\* A row with a hash made for a skip is of that source and day.
LEMMA SkipOrigin ==
    ASSUME Origins, NEW b \in bronze, NEW s, b.hash = SkipHash(s)
    PROVE  b.source = s /\ b.day = today
  <1>1. ~FromPayload(b)
    BY PayloadHashes DEF FromPayload, SkipHash
  <1> QED  BY <1>1, SkipHashes DEF Origins, FromSkip, SkipHash

-----------------------------------------------------------------------------
(* Each step keeps the invariant.                                          *)

LEMMA InitInv == Init => SourcesInv
  BY DEF Init, NoRun, Undone, Deed, Entry, SourcesInv, Types, Origins, Delivered,
         DoneAccounted, StatusIsTrue

LEMMA DeliverInv ==
    ASSUME SourcesInv, NEW s \in Source, NEW p \in Payload, Deliver(s, p)
    PROVE  SourcesInv'
  <1>0. PICK row : row = Row(s, PayloadHash(s, p))
    OBVIOUS
  <1>1. /\ row.source = s /\ row.day = today
        /\ row.hash = PayloadHash(s, p) /\ row.status = "OK"
    BY <1>0, Rows DEF IsRow
  <1>2. /\ Insert(row) /\ Done(s, "fetched")
        /\ shadows' = shadows /\ fetched' = fetched \union {row.hash}
    BY <1>0, <1>1 DEF Deliver
  <1>3. /\ bronze \subseteq bronze' /\ bronze' \subseteq bronze \union {row}
        /\ \E b \in bronze' : b.hash = row.hash
    BY <1>2, Inserts
  <1>4. Accounted(s)'
    <2>1. CASE \E b \in bronze : b.hash = row.hash
      <3>1. PICK b \in bronze : b.source = s
        BY <1>1, <2>1, PayloadOrigin DEF SourcesInv
      <3>2. how'[s] = "fetched"
        BY <1>2 DEF SourcesInv, Types, Done
      <3> QED  BY <1>3, <3>1, <3>2 DEF Accounted
    <2>2. CASE ~\E b \in bronze : b.hash = row.hash
      BY <1>1, <1>2, <2>2, InsertsOwn DEF SourcesInv
    <2> QED  BY <2>1, <2>2
  <1>5. Types' /\ DoneAccounted'
    BY <1>2, <1>3, <1>4, DoneKeeps DEF SourcesInv, Deed
  <1>6. Origins'
    <2>1. FromPayload(row)'
      BY <1>1 DEF FromPayload, PayloadHash
    <2> QED  BY <1>2, <1>3, <2>1 DEF SourcesInv, Origins, FromPayload, FromSkip, PayloadHash
  <1>7. Delivered'
    BY <1>1, <1>2 DEF SourcesInv, Delivered, PayloadHash
  <1>8. StatusIsTrue'
    <2>1. \A b \in bronze' : b.status = "OK" => b.hash \in fetched'
      BY <1>1, <1>2, <1>3 DEF SourcesInv, StatusIsTrue
    <2>2. row.hash \in shadows \/ \E b \in bronze' : b.hash = row.hash /\ b.status = "OK"
      <3>1. CASE row \in bronze'
        BY <1>1, <3>1
      <3>2. CASE row \notin bronze'
        <4>1. PICK b \in bronze' : b.hash = row.hash
          BY <1>3
        <4>2. b \in bronze
          BY <1>3, <3>2, <4>1
        <4> QED  BY <1>1, <4>1, <4>2, PayloadOrigin DEF SourcesInv
      <3> QED  BY <3>1, <3>2
    <2>3. \A h \in fetched' \ shadows' : \E b \in bronze' : b.hash = h /\ b.status = "OK"
      BY <1>2, <1>3, <2>2 DEF SourcesInv, StatusIsTrue
    <2> QED  BY <2>1, <2>3 DEF StatusIsTrue
  <1> QED  BY <1>5, <1>6, <1>7, <1>8 DEF SourcesInv

\* A row of a skip changes nothing about what was fetched: the rows stay and
\* the new one is not OK.
LEMMA SkippedKeeps ==
    ASSUME Origins, Delivered, StatusIsTrue, NEW row, Insert(row), row.status = "SKIPPED",
           fetched' = fetched, shadows \subseteq shadows',
           (FromPayload(row) \/ FromSkip(row))'
    PROVE  Origins' /\ Delivered' /\ StatusIsTrue'
  <1>1. bronze \subseteq bronze' /\ bronze' \subseteq bronze \union {row}
    BY Inserts
  <1>2. Origins'
    BY <1>1 DEF Origins, FromPayload, FromSkip, PayloadHash
  <1>3. Delivered'
    BY DEF Delivered, PayloadHash
  <1>4. StatusIsTrue'
    BY <1>1 DEF StatusIsTrue
  <1> QED  BY <1>2, <1>3, <1>4

LEMMA SkipInv ==
    ASSUME SourcesInv, NEW s \in Source, Skip(s)
    PROVE  SourcesInv'
  <1>1. CASE Done(s, "skipped") /\ Insert(SkippedRow(s, <<>>))
    <2>0. PICK row : row = SkippedRow(s, <<>>)
      OBVIOUS
    <2>1. /\ row.source = s /\ row.day = today
          /\ row.hash = <<>> /\ row.status = "SKIPPED"
      BY <2>0, SkippedRows DEF IsRow
    <2>2. /\ Insert(row) /\ Done(s, "skipped")
          /\ fetched' = fetched /\ shadows \subseteq shadows'
      BY <1>1, <2>0 DEF Skip
    <2>3. Accounted(s)'
      <3>1. \E b \in bronze' : b.hash = <<>>
        BY <2>1, <2>2, Inserts
      <3>2. how'[s] = "skipped"
        BY <2>2 DEF SourcesInv, Types, Done
      <3> QED  BY <3>1, <3>2 DEF Accounted
    <2>4. Types' /\ DoneAccounted'
      BY <2>2, <2>3, Inserts, DoneKeeps DEF SourcesInv, Deed
    <2>5. FromSkip(row)'
      BY <2>1 DEF FromSkip
    <2> QED  BY <2>1, <2>2, <2>4, <2>5, SkippedKeeps DEF SourcesInv
  <1>2. CASE Done(s, "skipped with hash") /\ Insert(SkippedRow(s, [hash |-> SkipHash(s)]))
    <2>0. PICK row : row = SkippedRow(s, [hash |-> SkipHash(s)])
      OBVIOUS
    <2>1. /\ row.source = s /\ row.day = today
          /\ row.hash = SkipHash(s) /\ row.status = "SKIPPED"
      BY <2>0, SkippedRows DEF IsRow
    <2>2. /\ Insert(row) /\ Done(s, "skipped with hash")
          /\ fetched' = fetched /\ shadows \subseteq shadows'
      BY <1>2, <2>0 DEF Skip
    <2>3. Accounted(s)'
      <3>1. CASE \E b \in bronze : b.hash = row.hash
        <4>1. PICK b \in bronze : b.source = s /\ b.day = today
          BY <2>1, <3>1, SkipOrigin DEF SourcesInv
        <4>2. b.day \in run.day..today
          BY <4>1 DEF SourcesInv, Types
        <4>3. b \in bronze' /\ run'.day = run.day /\ today' = today
          BY <2>2, <4>1, Inserts DEF SourcesInv, Types, Done
        <4> QED  BY <4>1, <4>2, <4>3 DEF Accounted
      <3>2. CASE ~\E b \in bronze : b.hash = row.hash
        BY <2>1, <2>2, <3>2, InsertsOwn DEF SourcesInv
      <3> QED  BY <3>1, <3>2
    <2>4. Types' /\ DoneAccounted'
      BY <2>2, <2>3, Inserts, DoneKeeps DEF SourcesInv, Deed
    <2>5. FromSkip(row)'
      BY <2>1 DEF FromSkip, SkipHash
    <2> QED  BY <2>1, <2>2, <2>4, <2>5, SkippedKeeps DEF SourcesInv
  <1> QED  BY <1>1, <1>2 DEF Skip

LEMMA SkipStampedInv ==
    ASSUME SourcesInv, NEW s \in Source, NEW p \in Payload, SkipStamped(s, p)
    PROVE  SourcesInv'
  <1>0. PICK row : row = SkippedRow(s, Row(s, PayloadHash(s, p)))
    OBVIOUS
  <1>1. /\ row.source = s /\ row.day = today
        /\ row.hash = PayloadHash(s, p) /\ row.status = "SKIPPED"
    BY <1>0, SkippedRows DEF IsRow
  <1>2. /\ Insert(row) /\ Done(s, "skipped with row")
        /\ fetched' = fetched /\ shadows \subseteq shadows' /\ row.hash \in shadows'
    BY <1>0, <1>1 DEF SkipStamped
  <1>3. Accounted(s)'
    <2>1. CASE \E b \in bronze : b.hash = row.hash
      <3>1. PICK b \in bronze : b.source = s
        BY <1>1, <2>1, PayloadOrigin DEF SourcesInv
      <3>2. how'[s] = "skipped with row" /\ b \in bronze'
        BY <1>2, Inserts DEF SourcesInv, Types, Done
      <3> QED  BY <3>1, <3>2 DEF Accounted
    <2>2. CASE ~\E b \in bronze : b.hash = row.hash
      BY <1>1, <1>2, <2>2, InsertsOwn DEF SourcesInv
    <2> QED  BY <2>1, <2>2
  <1>4. Types' /\ DoneAccounted'
    BY <1>2, <1>3, Inserts, DoneKeeps DEF SourcesInv, Deed
  <1>5. FromPayload(row)'
    BY <1>1, <1>2 DEF FromPayload, PayloadHash
  <1> QED  BY <1>1, <1>2, <1>4, <1>5, SkippedKeeps DEF SourcesInv

\* A run starts with a file none of whose entries is refused: what is not to
\* do is off.
LEMMA StartInv == SourcesInv /\ Start => SourcesInv'
  <1> SUFFICES ASSUME SourcesInv, Start PROVE SourcesInv'
    OBVIOUS
  <1>1. PICK todo \in SUBSET Source :
            /\ run' = [day |-> today, file |-> file, todo |-> todo]
            /\ \A s \in Source : s \notin todo => file[s] = "off"
    <2>1. PICK f \in Loads(file) :
              run' = [day |-> today, file |-> f, todo |-> {s \in Source : f[s] = "on"}]
      BY DEF Start
    <2>2. f = file /\ \A s \in Source : file[s] # "refused"
      BY <2>1 DEF Loads
    <2>3. PICK todo : todo = {s \in Source : file[s] = "on"}
      OBVIOUS
    <2>4. run' = [day |-> today, file |-> file, todo |-> todo]
      BY <2>1, <2>2, <2>3
    <2>5. \A s \in Source : s \notin todo => file[s] = "off"
      BY <2>2, <2>3 DEF SourcesInv, Types, Entry
    <2> QED  BY <2>3, <2>4, <2>5
  <1>2. UNCHANGED <<file, today, bronze, how, fetched, shadows>>
    BY DEF Start, history
  <1>3. Types'
    BY <1>1, <1>2 DEF SourcesInv, Types
  <1>4. DoneAccounted'
    BY <1>1, <1>2 DEF DoneAccounted
  <1>5. Origins' /\ Delivered' /\ StatusIsTrue'
    BY <1>2 DEF SourcesInv, Origins, FromPayload, FromSkip, Delivered, PayloadHash, StatusIsTrue
  <1> QED  BY <1>3, <1>4, <1>5 DEF SourcesInv

LEMMA EndInv == SourcesInv /\ End => SourcesInv'
  <1> SUFFICES ASSUME SourcesInv, End PROVE SourcesInv'
    OBVIOUS
  <1>1. Types'
    <2>1. /\ run'.day = -1
          /\ run' \in [day : Int, file : [Source -> Entry], todo : SUBSET Source]
      BY DEF End, NoRun, Entry
    <2>2. how' \in [Source -> Deed]
      BY DEF End, Undone, Deed
    <2> QED  BY <2>1, <2>2 DEF SourcesInv, Types, End
  <1>2. DoneAccounted'
    BY DEF End, NoRun, DoneAccounted
  <1>3. Origins' /\ Delivered' /\ StatusIsTrue'
    BY DEF End, SourcesInv, Origins, FromPayload, FromSkip, Delivered, PayloadHash, StatusIsTrue
  <1> QED  BY <1>1, <1>2, <1>3 DEF SourcesInv

\* The operator and the calendar: an account stays one when the day ends.
LEMMA WorldInv ==
    ASSUME SourcesInv,
           (\E s \in Source, e \in Entry : Edit(s, e)) \/ Midnight \/ UNCHANGED vars
    PROVE  SourcesInv'
  <1>1. /\ UNCHANGED <<run, bronze, how, fetched, shadows>>
        /\ today' \in Nat /\ today' >= today
        /\ file' \in [Source -> Entry]
    BY DEF SourcesInv, Types, Edit, Midnight, vars, history
  <1>2. Types'
    BY <1>1 DEF SourcesInv, Types
  <1>3. \A s \in Source : Accounted(s) => Accounted(s)'
    <2>1. run.day..today \subseteq run.day..today'
      BY <1>1 DEF SourcesInv, Types
    <2> QED  BY <1>1, <2>1 DEF Accounted
  <1>4. DoneAccounted'
    BY <1>1, <1>3 DEF SourcesInv, DoneAccounted
  <1>5. Origins' /\ Delivered' /\ StatusIsTrue'
    BY <1>1 DEF SourcesInv, Origins, FromPayload, FromSkip, Delivered, PayloadHash, StatusIsTrue
  <1> QED  BY <1>2, <1>4, <1>5 DEF SourcesInv

LEMMA NextInv == SourcesInv /\ [Next]_vars => SourcesInv'
  BY DeliverInv, SkipInv, SkipStampedInv, StartInv, EndInv, WorldInv DEF Next, Refuse

-----------------------------------------------------------------------------
(* The theorems of Sources.                                                *)

\* The strengthened invariant, for any sources, payloads and calendar.
THEOREM SourcesHold == Spec => []SourcesInv
  BY InitInv, NextInv, PTL DEF Spec

\* However often sources.yaml is edited, the run crosses midnight or dies, a
\* run with nothing left to do has accounted for every source its file did not
\* switch off.
THEOREM EverySourceLeavesARow == Spec => []EverySourceAccountedFor
  <1>1. SourcesInv => EverySourceAccountedFor
    BY DEF SourcesInv, DoneAccounted, Accounted, EverySourceAccountedFor
  <1> QED  BY <1>1, SourcesHold, PTL

\* A row that says OK was delivered, and what was delivered has a row that says
\* OK, unless a skip row has its content_hash.
THEOREM StatusTold == Spec => []StatusIsTrue
  BY SourcesHold, PTL DEF SourcesInv

-----------------------------------------------------------------------------
(* The check of a backfill's rows: each step keeps the invariant.          *)

\* The type of a row.
Dated == [dated : Nat, other : Nat]

LEMMA BackfillInitInv == BackfillInit => BackfillInv
  BY YearAssumption, MaxRowsAssumption
     DEF BackfillInit, BackfillInv, TypeOK, RowsOfCall, GenuineReturned

LEMMA CallInv ==
    ASSUME BackfillInv, NEW t \in Targets, Call(t)
    PROVE  BackfillInv'
  <1> USE YearAssumption, TargetAssumption, MaxRowsAssumption DEF Call, BackfillInv
  <1>1. TypeOK'
    BY DEF TypeOK
  <1>2. RowsOfCall'
    BY DEF TypeOK, RowsOfCall
  <1>3. GenuineReturned'
    BY DEF GenuineReturned
  <1> QED  BY <1>1, <1>2, <1>3

\* A row is made with dates of the call's time, and leaves the others.
LEMMA ProduceInv == BackfillInv /\ Produce => BackfillInv'
  <1> SUFFICES ASSUME BackfillInv, Produce PROVE BackfillInv'
    OBVIOUS
  <1>1. PICK dated \in {target, year, 0}, other \in {year, 0} :
            rows' = Append(rows, DatedRow(dated, other))
    BY DEF Produce
  <1>2. /\ year \in Nat /\ target \in Nat /\ rows \in Seq(Dated)
        /\ began \in Nat /\ began <= year
        /\ step = "running" /\ outcome = "none" /\ Len(rows) < MaxRows
        /\ UNCHANGED <<year, step, target, outcome, began>>
    BY YearAssumption DEF BackfillInv, TypeOK, RowsOfCall, Produce, Dated
  <1>3. PICK r \in Dated : r = DatedRow(dated, other) /\ r.other = other
    <2>1. DatedRow(dated, other) \in Dated /\ DatedRow(dated, other).other = other
      BY <1>2 DEF DatedRow, Dated
    <2> QED  BY <2>1
  <1>4. rows' = Append(rows, r)
    BY <1>1, <1>3
  <1>5. /\ rows' \in Seq(Dated) /\ Len(rows') = Len(rows) + 1
        /\ \A i \in DOMAIN rows' : \/ i \in DOMAIN rows /\ rows'[i] = rows[i]
                                   \/ rows'[i] = r
    BY <1>2, <1>4
  <1>6. TypeOK'
    BY <1>2, <1>5, MaxRowsAssumption DEF BackfillInv, TypeOK
  <1>7. r.other = 0 \/ r.other \in began..year
    BY <1>2, <1>3
  <1>8. RowsOfCall'
    BY <1>2, <1>5, <1>7 DEF BackfillInv, RowsOfCall, Dated
  <1>9. GenuineReturned'
    BY <1>2 DEF GenuineReturned
  <1> QED  BY <1>6, <1>8, <1>9 DEF BackfillInv

\* What is refused has a row whose date is not the target's.
LEMMA CheckInv == BackfillInv /\ Check => BackfillInv'
  <1> SUFFICES ASSUME BackfillInv, Check PROVE BackfillInv'
    OBVIOUS
  <1>1. TypeOK' /\ RowsOfCall'
    BY YearAssumption DEF BackfillInv, TypeOK, RowsOfCall, Check
  <1>2. ASSUME outcome' = "refused"
        PROVE  ~\A i \in DOMAIN rows : rows[i].dated = target
    BY <1>2 DEF Check, Restamped, Datable, ExtractYear
  <1>3. GenuineReturned'
    BY <1>2 DEF GenuineReturned, Check
  <1> QED  BY <1>1, <1>3 DEF BackfillInv

LEMMA NewYearInv == BackfillInv /\ NewYear => BackfillInv'
  <1> SUFFICES ASSUME BackfillInv, NewYear PROVE BackfillInv'
    OBVIOUS
  <1>1. /\ year \in Nat /\ year' = year + 1 /\ year < LastYear
        /\ UNCHANGED <<step, target, rows, outcome, began>>
    BY YearAssumption DEF BackfillInv, TypeOK, NewYear
  <1>2. TypeOK'
    BY <1>1, YearAssumption DEF BackfillInv, TypeOK
  <1>3. \A i \in DOMAIN rows : rows[i].other = 0 \/ rows[i].other \in began..year'
    <2>1. began..year \subseteq began..year'
      BY <1>1 DEF BackfillInv, RowsOfCall
    <2> QED  BY <2>1 DEF BackfillInv, RowsOfCall
  <1>4. RowsOfCall'
    BY <1>1, <1>3 DEF BackfillInv, RowsOfCall
  <1>5. GenuineReturned'
    BY <1>1 DEF BackfillInv, GenuineReturned
  <1> QED  BY <1>2, <1>4, <1>5 DEF BackfillInv

LEMMA BackfillNextInv == BackfillInv /\ [BackfillNext]_backfillVars => BackfillInv'
  <1> SUFFICES ASSUME BackfillInv, [BackfillNext]_backfillVars PROVE BackfillInv'
    OBVIOUS
  <1>1. CASE UNCHANGED backfillVars
    BY <1>1 DEF backfillVars, BackfillInv, TypeOK, RowsOfCall, GenuineReturned
  <1> QED  BY <1>1, CallInv, ProduceInv, CheckInv, NewYearInv DEF BackfillNext

\* The action of FakesRefused.
RefusesFakes ==
    step = "running" /\ step' = "idle" /\ target \notin {0, began}
       /\ began = year
       /\ (\E i \in DOMAIN rows : rows[i].dated # 0)
       /\ (\A i \in DOMAIN rows : rows[i].dated \in {0, began})
       => outcome' = "refused"

LEMMA ChecksFakes == BackfillInv /\ [BackfillNext]_backfillVars => RefusesFakes
  <1> SUFFICES ASSUME BackfillInv, [BackfillNext]_backfillVars,
                      step = "running", step' = "idle", target \notin {0, began},
                      began = year,
                      \E i \in DOMAIN rows : rows[i].dated # 0,
                      \A i \in DOMAIN rows : rows[i].dated \in {0, began}
               PROVE  outcome' = "refused"
    BY DEF RefusesFakes
  <1>1. Check
    BY DEF BackfillNext, Call, Produce, NewYear, backfillVars
  <1>2. \A i \in DOMAIN rows : rows[i].other \in {0, year}
    BY YearAssumption DEF BackfillInv, RowsOfCall, TypeOK
  <1>3. Restamped
    BY <1>2 DEF Restamped, Datable, ExtractYear
  <1> QED  BY <1>1, <1>3 DEF Check

-----------------------------------------------------------------------------
(* The theorems of the check.                                              *)

\* The strengthened invariant, for any targets, years and number of rows.
THEOREM BackfillHolds == BackfillSpec => []BackfillInv
  BY BackfillInitInv, BackfillNextInv, PTL DEF BackfillSpec

\* A call that has ended was returned or refused, whatever it was called with.
THEOREM BackfillTypes == BackfillSpec => []TypeOK
  BY BackfillHolds, PTL DEF BackfillInv

\* Nothing of today in a row, and no New Year, gets a true backfill refused.
THEOREM GenuineKept == BackfillSpec => []GenuineReturned
  BY BackfillHolds, PTL DEF BackfillInv

\* Rows stamped with the day they were made are never returned for another
\* year by a check in the year the call began in.
THEOREM FakesStopped == BackfillSpec => FakesRefused
  <1>1. BackfillInv /\ [BackfillNext]_backfillVars => [RefusesFakes]_backfillVars
    BY ChecksFakes
  <1> QED  BY <1>1, BackfillHolds, PTL DEF BackfillSpec, FakesRefused, RefusesFakes
=============================================================================
