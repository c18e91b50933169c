---------------------------- MODULE TraceCacheProofs ----------------------------
(***************************************************************************)
(* Proofs about TraceCache, for every store, every number of schema        *)
(* versions, of failures and of deaths of the dashboard.                   *)
(***************************************************************************)
EXTENDS TraceCache, TLAPS, FiniteSetTheorems

\* From the decision to sync to the note of the schema.
Syncing == pc \in {"drop_ledger", "list", "extract", "note_loose", "write", "mark"}

\* The extracted rows wait to be written.
Extracted == pc \in {"note_loose", "write"}

\* Only a readable file has rows, and only a torn one is neither readable nor
\* absent.
Readable ==
    /\ cache.state # "readable" => cache.rows = EmptyBag
    /\ ~torn => cache.state \in {"absent", "readable"}

\* The backups of a label are numbered without a gap, so that the number of
\* them is a new name.
Numbered ==
    \A label \in 0..MaxSchema : \E k \in Nat :
        {n \in DOMAIN backups : n[1] = label} = {<<label, i>> : i \in 0..(k - 1)}

\* The rows in the file have one shape: the one that the sidecar names, if it
\* is the installed one, or any, until a sync is about to add to them.
Shapes ==
    /\ sidecar <= schema
    /\ Extracted => \A r \in fresh : r.schema = schema
    /\ ~misfiled =>
          /\ OneShape
          /\ sidecar = schema \/ Syncing =>
                \A r \in BagToSet(cache.rows) : r.schema = schema

\* What is extracted is of cases that the file does not have.
Distinct ==
    /\ EachRowOnce
    /\ pc \in {"extract", "note_loose", "write"} => covered = ExistingCaseIds
    /\ Extracted => \A r \in fresh : Case(r.of) \notin covered

\* Whether the cache has the conversation of a trace.
Has(t) == Case(t) \in CasesOf(cache.rows)

\* The fingerprint never names what is not there yet, and it does not match
\* while a sync is under way or there is no file.
Behind ==
    /\ fingerprint.store \subseteq store /\ fingerprint.schema <= schema
    /\ pc # "idle" \/ ~Exists => fingerprint # CurrentFingerprint

\* Where the conversation of a trace can be at each step of a call.
Placed(t) ==
    /\ pc = "idle" /\ IsFresh => Has(t) \/ t \in missed
    /\ pc = "extract" => Has(t) \/ t \in missed \/ t \in listed
    /\ Extracted => Has(t) \/ t \in missed \/ \E r \in fresh : Case(r.of) = Case(t)
    /\ pc \in {"mark", "refresh"} => Has(t) \/ t \in missed

\* Each trace of a conversation is in the file, on its way to it, or missed.
Covered == ~torn => \A t \in store : Case(t) \in Conversations => Placed(t)

\* The inductive invariant.
Inv == TypeOK /\ Readable /\ ImportedKept /\ Numbered /\ Shapes /\ Distinct
         /\ Behind /\ Covered

-----------------------------------------------------------------------------
(* Rows and bags *)

\* The rows that are added to a file, and the file's own.
LEMMA CombinedRows ==
  ASSUME TypeOK
  PROVE  /\ IsABag(Combined)
         /\ BagToSet(Combined) = (IF Exists THEN BagToSet(cache.rows) ELSE {}) \cup fresh
         /\ BagToSet(Combined) \subseteq Rows
         /\ \A r \in BagToSet(Combined) \ fresh : Combined[r] = cache.rows[r]
         /\ \A r \in fresh : r \notin BagToSet(cache.rows) => Combined[r] = 1
<1> USE DEF BagToSet, IsABag, SetToBag, BagIn
<1>1. fresh \subseteq Rows /\ BagToSet(cache.rows) \subseteq Rows /\ IsABag(cache.rows)
  BY DEF TypeOK
<1>2. CASE Exists
  <2>1. Combined = cache.rows (+) SetToBag(fresh)
    BY <1>2 DEF Combined
  <2>2. DOMAIN Combined = DOMAIN cache.rows \cup fresh
    BY <2>1 DEF (+)
  <2>3. \A r \in DOMAIN Combined :
          Combined[r] = (IF r \in DOMAIN cache.rows THEN cache.rows[r] ELSE 0)
                        + (IF r \in fresh THEN 1 ELSE 0)
    BY <2>1 DEF (+)
  <2>4. IsABag(Combined)
    BY <1>1, <2>1, <2>2, <2>3 DEF (+)
  <2> QED
    BY <1>1, <1>2, <2>2, <2>3, <2>4
<1>3. CASE ~Exists
  <2>1. Combined = [r \in fresh |-> 1]
    BY <1>3 DEF Combined
  <2> QED
    BY <1>1, <1>3, <2>1
<1> QED
  BY <1>2, <1>3

\* A set of rows as a bag, and the empty one.
LEMMA SetRows ==
  /\ \A S : IsABag(SetToBag(S)) /\ BagToSet(SetToBag(S)) = S
  /\ \A S : \A r \in S : SetToBag(S)[r] = 1
  /\ BagToSet(EmptyBag) = {} /\ IsABag(EmptyBag)
  BY DEF BagToSet, IsABag, SetToBag, BagIn, EmptyBag

\* What is extracted are rows of the installed shape, of conversations that are
\* not covered, and there is one for each trace.
LEMMA RowsForFound ==
  ASSUME TypeOK, NEW S \in SUBSET Traces, \A t \in S : Case(t) \in Conversations
  PROVE  /\ RowsFor(S) \subseteq Rows
         /\ \A r \in RowsFor(S) : r.schema = schema /\ \E t \in S : Case(r.of) = Case(t)
         /\ \A t \in S : \E r \in RowsFor(S) : Case(r.of) = Case(t)
<1> DEFINE cases == {Case(t) : t \in S}
<1>1. /\ \A r \in RowsFor(S) : \/ \E t \in S : r = Row(t, schema)
                               \/ \E c \in feedback \cap cases : r = Row(Feedback(c), schema)
      /\ \A t \in S : Row(t, schema) \in RowsFor(S)
  BY DEF RowsFor
<1>2. schema \in 1..MaxSchema /\ feedback \subseteq Conversations
  BY DEF TypeOK
<1>3. ASSUME NEW t \in S
      PROVE  /\ Row(t, schema) \in Rows /\ Row(t, schema).schema = schema
             /\ Row(t, schema).of = t
  BY <1>2 DEF Row, Rows
<1>4. ASSUME NEW c \in feedback \cap cases
      PROVE  /\ Row(Feedback(c), schema) \in Rows /\ Row(Feedback(c), schema).schema = schema
             /\ Case(Row(Feedback(c), schema).of) = c
  BY <1>2 DEF Row, Rows, Feedback, Case
<1> QED
  BY <1>1, <1>3, <1>4

-----------------------------------------------------------------------------
(* TypeOK *)

\* Every variable keeps its shape.
LEMMA TypeInv == TypeOK /\ [Next]_vars => TypeOK'
<1>1. ASSUME TypeOK, UNCHANGED vars PROVE TypeOK'
  BY <1>1 DEF TypeOK, vars, outside, files, call
<1> SUFFICES ASSUME TypeOK, Next PROVE TypeOK'
  BY <1>1
<1> USE DEF TypeOK, outside, files, call, history
<1>2. ASSUME NEW t \in Traces, Record(t) PROVE TypeOK'
  BY <1>2 DEF Record
<1>3. ASSUME NEW c \in Conversations, SaveFeedback(c) PROVE TypeOK'
  BY <1>3 DEF SaveFeedback
<1>4. CASE Upgrade
  BY <1>4, BoundsAssumption DEF Upgrade
<1>5. ASSUME NEW c \in Foreign, NEW v \in 1..schema, NEW b \in BOOLEAN, Import(c, v, b)
      PROVE  TypeOK'
  <2>1. v \in 1..MaxSchema
    BY BoundsAssumption
  <2>2. Row(<<c, 1>>, v) \in Rows
    BY <2>1 DEF Row, Rows
  <2>3. cache' = [state |-> "readable", rows |-> SetToBag({Row(<<c, 1>>, v)})]
    BY <1>5 DEF Import
  <2> QED
    BY <1>5, <2>1, <2>2, <2>3, SetRows DEF Import
<1>6. CASE CheckFreshness \/ DecideToSync \/ NothingToWrite \/ QuarantineFails
  BY <1>6 DEF CheckFreshness, DecideToSync, NothingToWrite, QuarantineFails
<1>7. CASE Quarantine
  BY <1>7, SetRows DEF Quarantine, NoCache
<1>8. CASE DropLedger \/ WriteAside \/ WriteSchema
  BY <1>8, BoundsAssumption DEF DropLedger, WriteAside, WriteSchema
<1>9. CASE ListNew \/ ListByClient
  BY <1>9 DEF ListNew, ListByClient, NewRequestIds
<1>10. ASSUME NEW skipped, ExtractBut(skipped) PROVE TypeOK'
  <2> DEFINE found == {t \in ToExtract(listed) \ skipped : Case(t) \in Conversations}
  <2>1. found \in SUBSET Traces /\ \A t \in found : Case(t) \in Conversations
    BY DEF ToExtract
  <2>2. RowsFor(found) \subseteq Rows
    BY <2>1, RowsForFound
  <2>3. {t \in listed \ skipped : NoSession(t)} \subseteq Loose \X {0}
    BY KindsAssumption DEF NoSession, Traces, Case
  <2> QED
    BY <1>10, <2>2, <2>3 DEF ExtractBut
<1>11. CASE NoteLoose
  BY <1>11 DEF NoteLoose
<1>12. CASE WriteCache
  BY <1>12, CombinedRows DEF WriteCache
<1>13. CASE Refresh
  BY <1>13 DEF Refresh, Idle, CurrentFingerprint
<1>14. CASE Crash
  BY <1>14 DEF Crash, Dies, Idle
<1>15. ASSUME NEW kept \in SUBSET BagToSet(Combined), CrashInWrite(kept) PROVE TypeOK'
  <2>1. kept \subseteq Rows
    BY CombinedRows
  <2>2. /\ cache'.state \in {"empty", "readable", "corrupt"}
        /\ cache'.rows \in {SetToBag(kept), EmptyBag}
    BY <1>15 DEF CrashInWrite
  <2>3. IsABag(cache'.rows) /\ BagToSet(cache'.rows) \subseteq Rows
    BY <2>1, <2>2, SetRows
  <2> QED
    BY <1>15, <2>2, <2>3 DEF CrashInWrite, Dies, Idle
<1> QED
  BY <1>2, <1>3, <1>4, <1>5, <1>6, <1>7, <1>8, <1>9, <1>10, <1>11, <1>12, <1>13, <1>14, <1>15
     DEF Next, Sync, Extract

-----------------------------------------------------------------------------
(* ImportedKept *)

\* The steps that change no file.
NoFile ==
    \/ \E t \in Traces : Record(t)
    \/ \E c \in Conversations : SaveFeedback(c)
    \/ Upgrade \/ CheckFreshness \/ DecideToSync \/ QuarantineFails
    \/ ListNew \/ ListByClient \/ Extract \/ NothingToWrite \/ Crash

\* Nor do they change what is said of the files' past.
LEMMA NoFileStep ==
  ASSUME NoFile
  PROVE  UNCHANGED <<files, imported, torn, misfiled>>
  BY DEF NoFile, Record, SaveFeedback, Upgrade, CheckFreshness, DecideToSync, QuarantineFails,
     ListNew, ListByClient, Extract, ExtractBut, NothingToWrite, Crash, history

\* The steps that change a file beside the cache and its backups.
Beside == DropLedger \/ NoteLoose \/ WriteAside \/ WriteSchema \/ Refresh

\* They leave the cache and its backups alone.
LEMMA BesideStep ==
  ASSUME Beside
  PROVE  UNCHANGED <<cache, backups, imported, torn, misfiled>>
  BY DEF Beside, DropLedger, NoteLoose, WriteAside, WriteSchema, Refresh, history

\* Only a file that can be read has rows.
LEMMA ReadableInv == TypeOK /\ Readable /\ [Next]_vars => Readable'
<1> SUFFICES ASSUME TypeOK, Readable, [Next]_vars PROVE Readable'
  OBVIOUS
<1> USE DEF Readable
<1>1. CASE UNCHANGED vars \/ NoFile \/ Beside
  BY <1>1, NoFileStep, BesideStep DEF vars, files, history
<1>2. CASE Quarantine
  BY <1>2 DEF Quarantine, NoCache, history
<1>3. CASE WriteCache
  BY <1>3 DEF WriteCache, history
<1>4. ASSUME NEW c, NEW v, NEW b, Import(c, v, b) PROVE Readable'
  BY <1>4 DEF Import
<1>5. ASSUME NEW kept, CrashInWrite(kept) PROVE Readable'
  <2>1. cache'.state # "readable" => cache'.rows = EmptyBag
    BY <1>5 DEF CrashInWrite
  <2> QED
    BY <1>5, <2>1 DEF CrashInWrite
<1> QED
  BY <1>1, <1>2, <1>3, <1>4, <1>5 DEF Next, Sync, NoFile, Beside

\* The number of the backups of a label is a new name.
LEMMA NewName ==
  ASSUME Numbered, NEW label \in 0..MaxSchema
  PROVE  \E k \in Nat :
           /\ QuarantinePath(label) = <<label, k>>
           /\ QuarantinePath(label) \notin DOMAIN backups
           /\ {n \in DOMAIN backups : n[1] = label} = {<<label, i>> : i \in 0..(k - 1)}
<1>1. PICK k \in Nat :
        {n \in DOMAIN backups : n[1] = label} = {<<label, i>> : i \in 0..(k - 1)}
  BY DEF Numbered
<1> DEFINE names == {<<label, i>> : i \in 0..(k - 1)}
           name == [i \in 0..(k - 1) |-> <<label, i>>]
<1>2. IsFiniteSet(0..(k - 1)) /\ Cardinality(0..(k - 1)) = k
  BY FS_Interval
<1>3. name \in Bijection(0..(k - 1), names)
  <2>1. name \in [0..(k - 1) -> names]
    OBVIOUS
  <2>2. \A i, j \in 0..(k - 1) : name[i] = name[j] => i = j
    OBVIOUS
  <2>3. \A n \in names : \E i \in 0..(k - 1) : name[i] = n
    OBVIOUS
  <2> HIDE DEF name, names
  <2> QED
    BY <2>1, <2>2, <2>3 DEF Bijection, Injection, Surjection, IsInjective
<1>4. Cardinality(names) = k
  BY <1>2, <1>3, FS_Bijection DEF ExistsBijection
<1>5. QuarantinePath(label) = <<label, k>>
  BY <1>1, <1>4 DEF QuarantinePath
<1>6. <<label, k>> \notin DOMAIN backups
  BY <1>1
<1> QED
  BY <1>1, <1>5, <1>6

\* The backups stay numbered without a gap.
LEMMA NumberedInv == TypeOK /\ Numbered /\ [Next]_vars => Numbered'
<1> SUFFICES ASSUME TypeOK, Numbered, [Next]_vars PROVE Numbered'
  OBVIOUS
<1>1. CASE Quarantine
  <2>1. sidecar \in 0..MaxSchema
    BY DEF TypeOK
  <2>2. PICK k \in Nat :
          /\ QuarantinePath(sidecar) = <<sidecar, k>>
          /\ {n \in DOMAIN backups : n[1] = sidecar} = {<<sidecar, i>> : i \in 0..(k - 1)}
    BY <2>1, NewName
  <2>3. DOMAIN backups' = DOMAIN backups \cup {<<sidecar, k>>}
    BY <1>1, <2>2 DEF Quarantine
  <2> SUFFICES ASSUME NEW label \in 0..MaxSchema
               PROVE  \E m \in Nat : {n \in DOMAIN backups' : n[1] = label}
                                      = {<<label, i>> : i \in 0..(m - 1)}
    BY DEF Numbered
  <2>4. CASE label = sidecar
    <3>1. {n \in DOMAIN backups' : n[1] = label}
            = {<<label, i>> : i \in 0..(k - 1)} \cup {<<label, k>>}
      BY <2>2, <2>3, <2>4
    <3>2. 0..((k + 1) - 1) = 0..(k - 1) \cup {k}
      OBVIOUS
    <3>3. {<<label, i>> : i \in 0..((k + 1) - 1)}
            = {<<label, i>> : i \in 0..(k - 1)} \cup {<<label, k>>}
      BY <3>2
    <3>4. k + 1 \in Nat
      OBVIOUS
    <3> QED
      BY <3>1, <3>3, <3>4
  <2>5. CASE label # sidecar
    <3>1. {n \in DOMAIN backups' : n[1] = label} = {n \in DOMAIN backups : n[1] = label}
      BY <2>3, <2>5
    <3> QED
      BY <3>1 DEF Numbered
  <2> QED
    BY <2>4, <2>5
<1>2. CASE UNCHANGED backups
  BY <1>2 DEF Numbered
<1>3. Quarantine \/ UNCHANGED backups
  BY NoFileStep, BesideStep
     DEF Next, Sync, NoFile, Beside, vars, files, Import, WriteCache, CrashInWrite
<1> QED
  BY <1>1, <1>2, <1>3

\* What a colleague gave is moved, never dropped.
LEMMA ImportedInv == TypeOK /\ Readable /\ Numbered /\ ImportedKept /\ [Next]_vars => ImportedKept'
<1> SUFFICES ASSUME TypeOK, Readable, Numbered, ImportedKept, [Next]_vars PROVE ImportedKept'
  OBVIOUS
<1> USE DEF ImportedKept
<1>1. CASE UNCHANGED vars \/ NoFile \/ Beside
  BY <1>1, NoFileStep, BesideStep DEF vars, files, history
<1>2. CASE Quarantine
  <2>1. QuarantinePath(sidecar) \notin DOMAIN backups
    BY NewName DEF TypeOK
  <2>2. /\ DOMAIN backups' = DOMAIN backups \cup {QuarantinePath(sidecar)}
        /\ backups'[QuarantinePath(sidecar)] = cache.rows
        /\ \A n \in DOMAIN backups : backups'[n] = backups[n]
        /\ UNCHANGED <<imported, torn>>
    BY <1>2, <2>1 DEF Quarantine, history
  <2> QED
    BY <2>2
<1>3. CASE WriteCache
  <2>1. BagToSet(cache.rows) \subseteq BagToSet(cache'.rows)
    BY <1>3, CombinedRows, SetRows DEF WriteCache, Exists, Readable
  <2> QED
    BY <1>3, <2>1 DEF WriteCache, history, BagIn
<1>4. ASSUME NEW c, NEW v, NEW b, Import(c, v, b) PROVE ImportedKept'
  <2>1. imported' = BagToSet(cache'.rows)
    BY <1>4, SetRows DEF Import
  <2> QED
    BY <2>1 DEF BagIn
<1>5. ASSUME NEW kept, CrashInWrite(kept) PROVE ImportedKept'
  BY <1>5 DEF CrashInWrite
<1> QED
  BY <1>1, <1>2, <1>3, <1>4, <1>5 DEF Next, Sync, NoFile, Beside

-----------------------------------------------------------------------------
(* OneShape *)

\* Rows are only added in the shape of the ones that are there.
LEMMA ShapesInv == TypeOK /\ Readable /\ Shapes /\ [Next]_vars => Shapes'
<1> SUFFICES ASSUME TypeOK, Readable, Shapes, [Next]_vars PROVE Shapes'
  OBVIOUS
<1>0. schema \in 1..MaxSchema /\ sidecar \in 0..MaxSchema /\ MaxSchema \in Nat
  BY BoundsAssumption DEF TypeOK
<1> USE DEF Shapes, OneShape, Syncing, Extracted
<1>1. CASE UNCHANGED <<schema, sidecar, cache, pc, fresh, misfiled>>
  BY <1>1
<1>2. CASE Upgrade
  <2>1. /\ schema' = schema + 1 /\ pc = "idle"
        /\ UNCHANGED <<sidecar, cache, pc, fresh, misfiled>>
    BY <1>2 DEF Upgrade, files, call, history
  <2>2. sidecar' <= schema' /\ sidecar' # schema'
    BY <1>0, <2>1
  <2>3. ~Extracted' /\ ~Syncing'
    BY <2>1
  <2>4. OneShape'
    BY <2>1
  <2> QED
    BY <2>2, <2>3, <2>4
<1>3. ASSUME NEW c \in Foreign, NEW v \in 1..schema, NEW b \in BOOLEAN, Import(c, v, b)
      PROVE  Shapes'
  <2>1. /\ pc = "idle" /\ pc' = "idle" /\ schema' = schema
        /\ sidecar' \in {sidecar, v} /\ (~misfiled' => sidecar' \in {0, v})
    BY <1>3 DEF Import, outside
  <2>2. BagToSet(cache'.rows) = {Row(<<c, 1>>, v)} /\ Row(<<c, 1>>, v).schema = v
    BY <1>3, SetRows DEF Import, Row
  <2>3. sidecar' <= schema' /\ ~Extracted' /\ ~Syncing'
    BY <1>0, <2>1
  <2>4. OneShape'
    BY <2>2
  <2>5. ~misfiled' /\ sidecar' = schema' => v = schema'
    BY <1>0, <2>1
  <2> QED
    BY <2>2, <2>3, <2>4, <2>5
<1>4. CASE DecideToSync
  <2>1. BagToSet(cache.rows) = {} \/ sidecar = schema
    BY <1>4, SetRows DEF DecideToSync, MustQuarantine, HasRows, Exists, Readable
  <2>2. pc' = "list" /\ UNCHANGED <<schema, sidecar, cache, fresh, misfiled>>
    BY <1>4 DEF DecideToSync, outside, files, call, history
  <2> QED
    BY <2>1, <2>2
<1>5. CASE Quarantine
  <2>1. /\ BagToSet(cache'.rows) = {} /\ pc' = "drop_ledger"
        /\ UNCHANGED <<schema, sidecar, misfiled>>
    BY <1>5, SetRows DEF Quarantine, NoCache, outside, history
  <2> QED
    BY <2>1
<1>6. CASE CheckFreshness \/ QuarantineFails
  <2>1. pc' \in {"decide", "refresh"} /\ UNCHANGED <<schema, sidecar, cache, fresh, misfiled>>
    BY <1>6 DEF CheckFreshness, QuarantineFails, outside, files, call, history
  <2> QED
    BY <2>1
<1>7. CASE DropLedger \/ ListNew \/ ListByClient \/ NoteLoose \/ NothingToWrite \/ WriteAside
  <2>1. /\ Syncing /\ pc' \in {"list", "extract", "write", "mark"}
        /\ pc' = "write" => Extracted
        /\ UNCHANGED <<schema, sidecar, cache, fresh, misfiled>>
    BY <1>7 DEF DropLedger, ListNew, ListByClient, NoteLoose, NothingToWrite, WriteAside,
       outside, files, call, history
  <2> QED
    BY <2>1
<1>8. ASSUME NEW skipped, ExtractBut(skipped) PROVE Shapes'
  <2> DEFINE found == {t \in ToExtract(listed) \ skipped : Case(t) \in Conversations}
  <2>1. found \in SUBSET Traces /\ \A t \in found : Case(t) \in Conversations
    BY DEF ToExtract, TypeOK
  <2>2. \A r \in fresh' : r.schema = schema
    BY <1>8, <2>1, RowsForFound DEF ExtractBut
  <2>3. Syncing /\ UNCHANGED <<schema, sidecar, cache, misfiled>>
    BY <1>8 DEF ExtractBut, outside, files
  <2> QED
    BY <2>2, <2>3
<1>9. CASE WriteCache
  <2>1. BagToSet(cache'.rows) \subseteq BagToSet(cache.rows) \cup fresh
    BY <1>9, CombinedRows DEF WriteCache
  <2>2. /\ pc = "write" /\ pc' = "mark" /\ UNCHANGED <<schema, sidecar, misfiled>>
    BY <1>9 DEF WriteCache, outside, history
  <2> QED
    BY <2>1, <2>2
<1>10. CASE WriteSchema
  <2>1. /\ pc = "mark" /\ pc' = "refresh" /\ sidecar' = schema
        /\ UNCHANGED <<schema, cache, misfiled>>
    BY <1>10 DEF WriteSchema, outside, history
  <2> QED
    BY <1>0, <2>1
<1>11. CASE Refresh \/ Crash
  <2>1. pc' = "idle" /\ UNCHANGED <<schema, sidecar, cache, misfiled>>
    BY <1>11 DEF Refresh, Crash, Dies, Idle, outside, files, history
  <2> QED
    BY <2>1
<1>12. ASSUME NEW kept \in SUBSET BagToSet(Combined), CrashInWrite(kept) PROVE Shapes'
  <2>1. kept \subseteq BagToSet(cache.rows) \cup fresh
    BY CombinedRows
  <2>2. BagToSet(cache'.rows) \subseteq kept
    BY <1>12, SetRows DEF CrashInWrite
  <2>3. pc = "write" /\ pc' = "idle" /\ UNCHANGED <<schema, sidecar, misfiled>>
    BY <1>12 DEF CrashInWrite, Dies, Idle, outside
  <2> QED
    BY <2>1, <2>2, <2>3
<1>13. ASSUME \/ UNCHANGED vars
              \/ \E t \in Traces : Record(t)
              \/ \E c \in Conversations : SaveFeedback(c)
       PROVE  UNCHANGED <<schema, sidecar, cache, pc, fresh, misfiled>>
  BY <1>13 DEF vars, outside, files, call, history, Record, SaveFeedback
<1> QED
  BY <1>1, <1>2, <1>3, <1>4, <1>5, <1>6, <1>7, <1>8, <1>9, <1>10, <1>11, <1>12, <1>13
     DEF Next, Sync, Extract

-----------------------------------------------------------------------------
(* EachRowOnce *)

\* A sync adds rows of cases that the file does not have.
LEMMA DistinctInv == TypeOK /\ Readable /\ Distinct /\ [Next]_vars => Distinct'
<1> SUFFICES ASSUME TypeOK, Readable, Distinct, [Next]_vars PROVE Distinct'
  OBVIOUS
<1> USE DEF Distinct, EachRowOnce, Extracted
<1>1. CASE UNCHANGED <<cache, pc, covered, fresh>>
  BY <1>1 DEF ExistingCaseIds
<1>2. CASE pc' \notin {"extract", "note_loose", "write"} /\ UNCHANGED cache
  BY <1>2
<1>3. ASSUME NEW c, NEW v, NEW b, Import(c, v, b) PROVE Distinct'
  <2>1. cache'.rows = SetToBag({Row(<<c, 1>>, v)}) /\ pc' = "idle"
    BY <1>3 DEF Import
  <2> QED
    BY <2>1, SetRows
<1>4. CASE Quarantine
  <2>1. BagToSet(cache'.rows) = {} /\ pc' = "drop_ledger"
    BY <1>4, SetRows DEF Quarantine, NoCache
  <2> QED
    BY <2>1
<1>5. CASE ListNew \/ ListByClient
  <2>1. covered' = ExistingCaseIds /\ pc' = "extract" /\ UNCHANGED cache
    BY <1>5 DEF ListNew, ListByClient, files
  <2> QED
    BY <2>1 DEF ExistingCaseIds
<1>6. ASSUME NEW skipped, ExtractBut(skipped) PROVE Distinct'
  <2> DEFINE found == {t \in ToExtract(listed) \ skipped : Case(t) \in Conversations}
  <2>1. found \in SUBSET Traces /\ \A t \in found : Case(t) \in Conversations \ covered
    BY DEF ToExtract, TypeOK
  <2>2. \A r \in fresh' : Case(r.of) \notin covered
    BY <1>6, <2>1, RowsForFound DEF ExtractBut
  <2>3. pc = "extract" /\ UNCHANGED <<cache, covered>>
    BY <1>6 DEF ExtractBut, files
  <2> QED
    BY <2>2, <2>3 DEF ExistingCaseIds
<1>7. CASE NoteLoose
  <2>1. pc = "note_loose" /\ UNCHANGED <<cache, covered, fresh>>
    BY <1>7 DEF NoteLoose, call
  <2> QED
    BY <2>1 DEF ExistingCaseIds
<1>8. CASE WriteCache
  <2>1. pc = "write" /\ pc' = "mark" /\ ~Unreadable /\ cache'.rows = Combined
    BY <1>8 DEF WriteCache
  <2>2. \A r \in fresh : r \notin BagToSet(cache.rows)
    BY <2>1, SetRows DEF Unreadable, Readable, ExistingCaseIds, CasesOf, TypeOK
  <2>3. \A r \in BagToSet(Combined) : Combined[r] = 1
    BY <2>1, <2>2, CombinedRows
  <2> QED
    BY <2>1, <2>3
<1>9. ASSUME NEW kept, CrashInWrite(kept) PROVE Distinct'
  <2>1. pc' = "idle" /\ (cache'.rows = SetToBag(kept) \/ cache'.rows = EmptyBag)
    BY <1>9 DEF CrashInWrite, Dies, Idle
  <2> QED
    BY <2>1, SetRows
<1>10. ASSUME \/ UNCHANGED vars \/ Upgrade
              \/ \E t \in Traces : Record(t)
              \/ \E c \in Conversations : SaveFeedback(c)
       PROVE  UNCHANGED <<cache, pc, covered, fresh>>
  BY <1>10 DEF vars, files, call, Record, SaveFeedback, Upgrade
<1>11. ASSUME \/ CheckFreshness \/ DecideToSync \/ QuarantineFails \/ DropLedger \/ NothingToWrite
              \/ WriteAside \/ WriteSchema \/ Refresh \/ Crash
       PROVE  pc' \notin {"extract", "note_loose", "write"} /\ UNCHANGED cache
  BY <1>11 DEF CheckFreshness, DecideToSync, QuarantineFails, DropLedger, NothingToWrite,
     WriteAside, WriteSchema, Refresh, Crash, Dies, Idle, files
<1> QED
  BY <1>1, <1>2, <1>3, <1>4, <1>5, <1>6, <1>7, <1>8, <1>9, <1>10, <1>11 DEF Next, Sync, Extract

-----------------------------------------------------------------------------
(* FreshOrMissed *)

\* A fingerprint that is behind stays behind until it is noted again.
LEMMA BehindInv == TypeOK /\ Behind /\ [Next]_vars => Behind'
<1> SUFFICES ASSUME TypeOK, Behind, [Next]_vars PROVE Behind'
  OBVIOUS
<1>0. schema \in Nat /\ fingerprint.schema \in Nat
  BY DEF TypeOK
<1> USE DEF Behind, CurrentFingerprint, Exists
<1>1. CASE UNCHANGED <<schema, store, fingerprint, pc, cache>>
  BY <1>1
<1>2. ASSUME NEW t \in Traces, Record(t) PROVE Behind'
  <2>1. t \notin store /\ store' = store \cup {t} /\ UNCHANGED <<schema, fingerprint>>
    BY <1>2 DEF Record, files
  <2> QED
    BY <2>1
<1>3. CASE Upgrade
  <2>1. schema' = schema + 1 /\ UNCHANGED <<store, fingerprint>>
    BY <1>3 DEF Upgrade, files
  <2>2. fingerprint.schema <= schema' /\ fingerprint.schema # schema'
    BY <1>0, <2>1
  <2> QED
    BY <2>1, <2>2
<1>4. ASSUME NEW c, NEW v, NEW b, Import(c, v, b) PROVE Behind'
  BY <1>4 DEF Import, outside
<1>5. CASE CheckFreshness
  <2>1. ~IsFresh /\ UNCHANGED <<schema, store, fingerprint, cache>>
    BY <1>5 DEF CheckFreshness, outside, files
  <2> QED
    BY <2>1 DEF IsFresh
<1>6. CASE Refresh
  <2>1. /\ fingerprint' = IF Exists THEN CurrentFingerprint ELSE fingerprint
        /\ pc = "refresh" /\ pc' = "idle" /\ UNCHANGED <<schema, store, cache>>
    BY <1>6 DEF Refresh, Idle, outside
  <2> QED
    BY <1>0, <2>1
<1>7. CASE pc # "idle" /\ UNCHANGED <<schema, store, fingerprint>>
  BY <1>7
<1>8. ASSUME \/ DecideToSync \/ Quarantine \/ QuarantineFails \/ DropLedger \/ ListNew
             \/ ListByClient \/ Extract \/ NoteLoose \/ WriteCache \/ NothingToWrite
             \/ WriteAside \/ WriteSchema \/ Crash
             \/ \E kept \in SUBSET BagToSet(Combined) : CrashInWrite(kept)
      PROVE  pc # "idle" /\ UNCHANGED <<schema, store, fingerprint>>
  BY <1>8 DEF DecideToSync, Quarantine, QuarantineFails, DropLedger, ListNew, ListByClient,
     Extract, ExtractBut, NoteLoose, WriteCache, NothingToWrite, WriteAside, WriteSchema,
     Crash, CrashInWrite, Dies, outside, files
<1>9. ASSUME \/ UNCHANGED vars \/ \E c \in Conversations : SaveFeedback(c)
      PROVE  UNCHANGED <<schema, store, fingerprint, pc, cache>>
  BY <1>9 DEF vars, outside, files, SaveFeedback
<1> QED
  BY <1>1, <1>2, <1>3, <1>4, <1>5, <1>6, <1>7, <1>8, <1>9 DEF Next, Sync

\* A fingerprint that is behind during a call is behind after it, unless noted.
LEMMA NotFresh ==
  ASSUME Behind, Behind', pc # "idle", UNCHANGED <<schema, store, fingerprint>>
  PROVE  ~IsFresh'
  BY DEF Behind, IsFresh, CurrentFingerprint

\* Each trace goes from the listing over the extraction into the file, or it
\* is noted as missed.
LEMMA CoveredInv ==
  TypeOK /\ Readable /\ Distinct /\ Behind /\ Behind' /\ Covered /\ [Next]_vars => Covered'
<1> SUFFICES ASSUME TypeOK, Readable, Distinct, Behind, Behind', Covered, [Next]_vars,
                    ~torn',
                    NEW t \in store', Case(t) \in Conversations
             PROVE  Placed(t)'
  BY DEF Covered
<1> USE DEF Extracted, Placed
<1>1. CASE UNCHANGED <<schema, store, fingerprint, cache, torn, missed, pc, listed, fresh>>
  BY <1>1 DEF Covered, Has, IsFresh, Exists, CurrentFingerprint
<1>2. ASSUME NEW u \in Traces, Record(u) PROVE Placed(t)'
  <2>1. /\ u \notin store /\ store' = store \cup {u}
        /\ missed' = IF Listed THEN missed \cup {u} ELSE missed
        /\ UNCHANGED <<schema, fingerprint, cache, torn, pc, listed, fresh>>
    BY <1>2 DEF Record, files, call
  <2>2. ~IsFresh'
    BY <2>1 DEF Behind, IsFresh, CurrentFingerprint
  <2> QED
    BY <2>1, <2>2 DEF Covered, Has, Listed
<1>3. CASE Upgrade
  <2>1. fingerprint.schema # schema' /\ pc' = "idle" /\ UNCHANGED fingerprint
    BY <1>3 DEF Upgrade, Behind, TypeOK, files
  <2> QED
    BY <2>1 DEF IsFresh, CurrentFingerprint
<1>4. ASSUME NEW c, NEW v, NEW b, Import(c, v, b) PROVE Placed(t)'
  BY <1>4 DEF Import, Behind, IsFresh, Exists, CurrentFingerprint, outside
<1>5. CASE CheckFreshness \/ DecideToSync \/ Quarantine \/ DropLedger
  BY <1>5 DEF CheckFreshness, DecideToSync, Quarantine, DropLedger
<1>6. CASE QuarantineFails
  BY <1>6 DEF QuarantineFails, outside
<1>7. CASE ListNew \/ ListByClient
  <2>1. ExistingCaseIds \subseteq CasesOf(cache.rows)
    BY DEF ExistingCaseIds
  <2>2. t \notin ledger
    BY KindsAssumption DEF TypeOK, Case, Conversations
  <2>3. t \in NewRequestIds(ExistingCaseIds) \/ Has(t)
    BY <1>7, <2>1, <2>2 DEF NewRequestIds, Has, ListNew, ListByClient, outside
  <2> QED
    BY <1>7, <2>3 DEF ListNew, ListByClient, Has, outside, files
<1>8. ASSUME NEW skipped, ExtractBut(skipped)
      PROVE  Placed(t)'
  <2> DEFINE found == {u \in ToExtract(listed) \ skipped : Case(u) \in Conversations}
  <2>1. /\ pc = "extract" /\ pc' = "note_loose" /\ fresh' = RowsFor(found)
        /\ missed' = missed \cup skipped /\ UNCHANGED <<store, torn, cache>>
    BY <1>8 DEF ExtractBut, outside, files
  <2>2. Has(t) \/ t \in missed \/ t \in listed
    BY <2>1 DEF Covered
  <2>3. covered \subseteq CasesOf(cache.rows)
    BY <2>1 DEF Distinct, ExistingCaseIds
  <2>4. t \in found \/ Has(t) \/ t \in missed'
    BY <2>1, <2>2, <2>3 DEF ToExtract, Has
  <2>5. found \in SUBSET Traces /\ \A u \in found : Case(u) \in Conversations
    BY DEF ToExtract, TypeOK
  <2>6. \A u \in found : \E r \in RowsFor(found) : Case(r.of) = Case(u)
    BY <2>5, RowsForFound
  <2> QED
    BY <2>1, <2>4, <2>6 DEF Has
<1>9. CASE NoteLoose \/ NothingToWrite \/ WriteSchema
  <2>1. UNCHANGED <<store, cache, fresh, missed, torn>>
    BY <1>9 DEF NoteLoose, NothingToWrite, WriteSchema, outside, files, call, history
  <2>2. Has(t)' <=> Has(t)
    BY <2>1 DEF Has
  <2> QED
    BY <1>9, <2>1, <2>2 DEF Covered, NoteLoose, NothingToWrite, WriteSchema
<1>10. CASE WriteCache
  <2>1. /\ pc = "write" /\ pc' = "mark" /\ cache'.rows = Combined
        /\ UNCHANGED <<store, missed, torn>>
    BY <1>10 DEF WriteCache, outside, history
  <2>2. Has(t) \/ t \in missed \/ \E r \in fresh : Case(r.of) = Case(t)
    BY <2>1 DEF Covered
  <2>3. BagToSet(cache.rows) \cup fresh \subseteq BagToSet(cache'.rows)
    BY <2>1, CombinedRows, SetRows DEF Readable, Exists
  <2> QED
    BY <2>1, <2>2, <2>3 DEF Has, CasesOf
<1>11. CASE WriteAside
  BY <1>11 DEF WriteAside, Unreadable, Readable, history
<1>12. CASE Refresh
  <2>1. /\ pc = "refresh" /\ pc' = "idle" /\ UNCHANGED <<store, cache, missed, torn>>
    BY <1>12 DEF Refresh, Idle, outside, history
  <2> QED
    BY <2>1 DEF Covered, Has
<1>13. CASE Crash
  <2>1. pc # "idle" /\ pc' = "idle" /\ UNCHANGED <<schema, store, fingerprint>>
    BY <1>13 DEF Crash, Dies, Idle, outside, files
  <2> QED
    BY <2>1, NotFresh
<1>14. ASSUME NEW kept, CrashInWrite(kept) PROVE FALSE
  BY <1>14 DEF CrashInWrite
<1>15. ASSUME \/ UNCHANGED vars \/ \E c \in Conversations : SaveFeedback(c)
       PROVE  UNCHANGED <<schema, store, fingerprint, cache, torn, missed, pc, listed, fresh>>
  BY <1>15 DEF vars, outside, files, call, history, SaveFeedback
<1> QED
  BY <1>1, <1>2, <1>3, <1>4, <1>5, <1>6, <1>7, <1>8, <1>9, <1>10, <1>11, <1>12, <1>13, <1>14, <1>15
     DEF Next, Sync, Extract

-----------------------------------------------------------------------------
(* The theorems *)

\* The invariant holds in the beginning.
LEMMA InitInv == Init => Inv
<1> SUFFICES ASSUME Init PROVE Inv
  OBVIOUS
<1>1. TypeOK
  BY SetRows, BoundsAssumption DEF Init, TypeOK, NoCache, NoFingerprint
<1>2. Readable /\ ImportedKept /\ Shapes /\ Distinct /\ Behind /\ Covered
  BY SetRows DEF Init, Readable, ImportedKept, Shapes, OneShape, Distinct, EachRowOnce,
     Behind, Covered, Extracted, Syncing, NoCache, NoFingerprint, CurrentFingerprint, Exists
<1>3. Numbered
  <2> SUFFICES ASSUME NEW label \in 0..MaxSchema
               PROVE  {n \in DOMAIN backups : n[1] = label} = {<<label, i>> : i \in 0..(0 - 1)}
    BY DEF Numbered
  <2>1. DOMAIN backups = {} /\ 0..(0 - 1) = {}
    BY DEF Init
  <2> QED
    BY <2>1
<1> QED
  BY <1>1, <1>2, <1>3 DEF Inv

\* Every step keeps it.
LEMMA NextInv == Inv /\ [Next]_vars => Inv'
  BY TypeInv, ReadableInv, ImportedInv, NumberedInv, ShapesInv, DistinctInv, BehindInv, CoveredInv
     DEF Inv

\* Inv holds in every reachable state: what is said of the files, of the rows on
\* their way into the cache and of the fingerprint, whatever fails or dies.
THEOREM Invariance == Spec => []Inv
  BY InitInv, NextInv, PTL DEF Spec

\* Every variable of trace_cache.py's call and of its files keeps its shape.
THEOREM TypeCorrect == Spec => []TypeOK
<1>1. Inv => TypeOK
  BY DEF Inv
<1> QED
  BY <1>1, Invariance, PTL

\* Imported rows are never silently destroyed: _quarantine_cache's backups never
\* take each other's names, and nothing but a write that was cut short loses a
\* row a colleague gave.
THEOREM ImportedRowsAreKept == Spec => []ImportedKept
<1>1. Inv => ImportedKept
  BY DEF Inv
<1> QED
  BY <1>1, Invariance, PTL

\* Rows of different schema versions never share a cache whose sidecar is its
\* own: _sync_cache appends only to rows of the installed shape.
THEOREM CachesHaveOneShape == Spec => []OneShape
<1>1. Inv => OneShape
  BY DEF Inv, Shapes, OneShape
<1> QED
  BY <1>1, Invariance, PTL

\* No sync that is cut short, repeated or listed by the client extracts a row
\* that the cache has already.
THEOREM RowsAreWrittenOnce == Spec => []EachRowOnce
<1>1. Inv => EachRowOnce
  BY DEF Inv, Distinct
<1> QED
  BY <1>1, Invariance, PTL

\* When ensure_trace_cache trusts the fingerprint, every conversation of MLflow
\* is in the cache, but for the traces it could not have or did not list.
THEOREM FreshMeansCovered == Spec => []FreshOrMissed
<1>1. Inv => FreshOrMissed
  <2> SUFFICES ASSUME Covered, pc = "idle", IsFresh, ~torn, NEW t \in store,
                      Case(t) \in Conversations \ CasesOf(cache.rows)
               PROVE  t \in missed
    BY DEF Inv, FreshOrMissed
  <2>1. Placed(t) /\ ~Has(t)
    BY DEF Covered, Has
  <2> QED
    BY <2>1 DEF Placed
<1> QED
  BY <1>1, Invariance, PTL
=================================================================================
