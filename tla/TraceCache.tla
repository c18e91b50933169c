------------------------------ MODULE TraceCache ------------------------------
(***************************************************************************)
(* The cache of MLflow traces as one CSV that can be handed to colleagues  *)
(* (src/dashboard/metrics/trace_cache.py, the extraction of                *)
(* src/trace_processing/trace_processor.py and the listing of              *)
(* mlflow_sqlite.py).  ensure_trace_cache runs when the metrics page is    *)
(* entered, on the dashboard's one thread; simulations write to MLflow     *)
(* meanwhile, the process may die between any two steps, and the code's    *)
(* schema version moves on between two visits.                             *)
(*                                                                         *)
(* A trace is one turn of a conversation, <<case, turn>>.  A row of the    *)
(* CSV stands for all rows of a trace, or for the feedback of a case.      *)
(***************************************************************************)
EXTENDS Naturals, FiniteSets, Bags

CONSTANTS Sessions,   \* conversations whose traces carry a session key
          Legacy,     \* conversations of one turn whose case only the spans tell
          Loose,      \* traces of no conversation
          Foreign,    \* conversations of a colleague
          MaxTurns,   \* bound on the turns of a conversation
          MaxSchema,  \* bound on the schema versions of the extractor
          MaxFaults   \* bound on the operations that fail and on the deaths of
                      \* the dashboard

ASSUME BoundsAssumption == MaxTurns \in Nat \ {0} /\ MaxSchema \in Nat \ {0}

ASSUME KindsAssumption == Loose \cap (Sessions \cup Legacy) = {}

VARIABLES
    \* outside the dashboard
    schema,      \* _SCHEMA_VERSION of the code that is installed
    store,       \* the traces of MLflow
    feedback,    \* the cases of feedback_store.json
    \* the directory of logs
    cache,       \* _all_traces.csv
    sidecar,     \* the version _all_traces.meta names, 0 if there is none
    fingerprint, \* what _all_traces.sync.meta recorded
    ledger,      \* _all_traces.no_session
    backups,     \* the quarantined caches by name
    aside,       \* the rows of _all_traces.csv.new
    \* the call of ensure_trace_cache
    pc, covered, by_client, listed, fresh, no_session,
    faults,
    \* history, read by the properties only
    imported,    \* the rows a colleague gave
    torn,        \* whether the writing of a cache was cut short
    misfiled,    \* whether a file was put beside the sidecar of another
    missed       \* traces that came after the last listing of a sync that was
                 \* not over, or that it could not have

outside  == <<schema, store, feedback>>
files    == <<cache, sidecar, fingerprint, ledger, backups, aside>>
call     == <<covered, by_client, listed, fresh, no_session>>
history  == <<imported, torn, misfiled, missed>>
vars     == <<outside, files, pc, call, faults, history>>

Conversations == Sessions \cup Legacy

Traces == (Sessions \X (1..MaxTurns)) \cup (Legacy \X {1}) \cup (Loose \X {0})

\* The case of a trace or of a feedback.
Case(t) == t[1]

Feedback(c) == <<c, 0>>

Row(t, v) == [of |-> t, schema |-> v]

Rows == [of : Traces \cup (Foreign \X {1}) \cup {Feedback(c) : c \in Conversations},
         schema : 1..MaxSchema]

NoCache == [state |-> "absent", rows |-> EmptyBag]

NoFingerprint == [store |-> {}, schema |-> 0]

Exists == cache.state # "absent"

CasesOf(rows) == {Case(r.of) : r \in BagToSet(rows)}

Init ==
    /\ schema = 1 /\ store = {} /\ feedback = {}
    /\ cache = NoCache /\ sidecar = 0 /\ fingerprint = NoFingerprint
    /\ ledger = {} /\ backups = << >> /\ aside = {}
    /\ pc = "idle" /\ covered = {} /\ by_client = FALSE /\ listed = {} /\ fresh = {} /\ no_session = {}
    /\ faults = 0
    /\ imported = {} /\ torn = FALSE /\ misfiled = FALSE /\ missed = {}

-----------------------------------------------------------------------------
(* What goes on outside the dashboard *)

\* Whether a sync has listed the store and not yet noted its fingerprint.
Listed == pc \in {"extract", "note_loose", "write", "mark", "refresh"}

\* A turn ends and MLflow has its trace.
Record(t) ==
    /\ t \in Traces \ store
    /\ \A k \in 1..(MaxTurns - 1) : t = <<Case(t), k + 1>> => <<Case(t), k>> \in store
    /\ Case(t) \notin feedback
    /\ store' = store \cup {t}
    /\ missed' = IF Listed THEN missed \cup {t} ELSE missed
    /\ UNCHANGED <<schema, feedback, files, pc, call, faults, imported, torn, misfiled>>

\* A conversation ends; run_automated saves what the customer thinks of it.
SaveFeedback(c) ==
    /\ <<c, 1>> \in store /\ c \notin feedback
    /\ feedback' = feedback \cup {c}
    /\ UNCHANGED <<schema, store, files, pc, call, faults, history>>

\* A newer version of the code is installed.
Upgrade ==
    /\ pc = "idle" /\ schema < MaxSchema
    /\ schema' = schema + 1
    /\ UNCHANGED <<store, feedback, files, pc, call, faults, history>>

\* The user puts a colleague's CSV where there is none, with its sidecar or
\* without, while the dashboard does not look.
Import(c, v, with_sidecar) ==
    /\ pc = "idle" /\ ~Exists /\ imported = {}
    /\ cache' = [state |-> "readable", rows |-> SetToBag({Row(<<c, 1>>, v)})]
    /\ imported' = {Row(<<c, 1>>, v)}
    /\ sidecar' = IF with_sidecar THEN v ELSE sidecar
    /\ misfiled' = (sidecar' \notin {0, v})
    /\ UNCHANGED <<outside, fingerprint, ledger, backups, aside, pc, call, faults,
                   torn, missed>>

-----------------------------------------------------------------------------
(* ensure_trace_cache *)

\* An operation on a file or on MLflow fails.
Fails == faults < MaxFaults /\ faults' = faults + 1

CurrentFingerprint == [store |-> store, schema |-> schema]

IsFresh == fingerprint = CurrentFingerprint /\ Exists

\* The page is entered.  With a matching fingerprint, with an empty store and
\* with one that cannot be read it gets the cache as it is, if there is one.
CheckFreshness ==
    /\ pc = "idle"
    /\ ~IsFresh
    /\ store # {}
    /\ pc' = "decide"
    /\ UNCHANGED <<outside, files, call, faults, history>>

\* A file of no bytes counts as no cache here.
HasRows == Exists /\ cache.state # "empty"

\* Mutant of MustQuarantine: a cache without a sidecar is taken for our own.
MustQuarantine_Known == HasRows /\ sidecar \notin {0, schema}

\* Appending would mix shapes, or nobody knows.
MustQuarantine == HasRows /\ sidecar # schema

DecideToSync ==
    /\ pc = "decide" /\ ~MustQuarantine
    /\ pc' = "list"
    /\ UNCHANGED <<outside, files, call, faults, history>>

\* Mutant of QuarantinePath: the name is used again.
QuarantinePath_Primary(label) == <<label, 0>>

\* A name of that label that no backup has; 0 stands for unknown-schema.
QuarantinePath(label) ==
    <<label, Cardinality({n \in DOMAIN backups : n[1] = label})>>

Quarantine ==
    /\ pc = "decide" /\ MustQuarantine
    /\ backups' = [n \in DOMAIN backups \cup {QuarantinePath(sidecar)} |->
                     IF n = QuarantinePath(sidecar) THEN cache.rows ELSE backups[n]]
    /\ cache' = NoCache
    /\ pc' = "drop_ledger"
    /\ UNCHANGED <<outside, sidecar, fingerprint, ledger, aside, call, faults, history>>

\* The cache stays where it is and nothing is synced, yet the caller goes on
\* to note the fingerprint.
QuarantineFails ==
    /\ pc = "decide" /\ MustQuarantine
    /\ Fails
    /\ pc' = "refresh"
    /\ missed' = missed \cup store
    /\ UNCHANGED <<outside, files, call, imported, torn, misfiled>>

\* What the previous extractor classified no longer counts.
DropLedger ==
    /\ pc = "drop_ledger"
    /\ ledger' = {}
    /\ pc' = "list"
    /\ UNCHANGED <<outside, cache, sidecar, fingerprint, backups, aside, call, faults,
                   history>>

(* _sync_cache *)

ExistingCaseIds == IF cache.state = "readable" THEN CasesOf(cache.rows) ELSE {}

HasSession(t) == Case(t) \in Sessions

\* sqlite_new_request_ids: by the session key, or by the ledger without one.
NewRequestIds(known) ==
    {t \in store : IF HasSession(t) THEN Case(t) \notin known ELSE t \notin ledger}

ListNew ==
    /\ pc = "list"
    /\ covered' = ExistingCaseIds
    /\ listed' = NewRequestIds(ExistingCaseIds)
    /\ pc' = "extract"
    /\ missed' = {}
    /\ UNCHANGED <<outside, files, by_client, fresh, no_session, faults, imported, torn, misfiled>>

\* The query fails, and MLflow's client gives all traces.
ListByClient ==
    /\ pc = "list"
    /\ Fails
    /\ covered' = ExistingCaseIds
    /\ listed' = store
    /\ by_client' = TRUE
    /\ pc' = "extract"
    /\ missed' = {}
    /\ UNCHANGED <<outside, files, fresh, no_session, imported, torn, misfiled>>

\* Mutant of ToExtract: the case of a trace is looked up by its session only.
ToExtract_BySession(traces) ==
    {t \in traces : ~(HasSession(t) /\ Case(t) \in covered)}

\* The traces that are not skipped: the peek finds the case in the session key
\* or in the spans.
ToExtract(traces) == {t \in traces : Case(t) \notin covered}

\* The rows of these traces, with the feedback of their cases only.
RowsFor(traces) ==
    {Row(t, schema) : t \in traces}
      \cup {Row(Feedback(c), schema) : c \in feedback \cap {Case(t) : t \in traces}}

\* Mutant of NoSession: whatever was looked at is noted.
NoSession_Any(t) == ~by_client

\* A trace that gave no row of a case, if the ledger is asked for.
NoSession(t) == Case(t) \in Loose /\ ~by_client

\* _extract_from_traces: a trace that MLflow will not give, or that makes the
\* generator fail, is skipped with a warning.
ExtractBut(skipped) ==
    LET found == {t \in ToExtract(listed) \ skipped : Case(t) \in Conversations}
    IN  /\ pc = "extract"
        /\ fresh' = RowsFor(found)
        /\ no_session' = {t \in listed \ skipped : NoSession(t)}
        /\ missed' = missed \cup skipped
        /\ pc' = "note_loose"
        /\ UNCHANGED <<outside, files, covered, by_client, listed, imported, torn,
                       misfiled>>

Extract ==
    \/ ExtractBut({}) /\ UNCHANGED faults
    \/ \E t \in listed : ExtractBut({t}) /\ Fails

\* The ledger is written and CSVs of old runs are deleted, but no backup.
NoteLoose ==
    /\ pc = "note_loose"
    /\ ledger' = ledger \cup no_session
    /\ pc' = "write"
    /\ UNCHANGED <<outside, cache, sidecar, fingerprint, backups, aside, call, faults,
                   history>>

Unreadable == cache.state \in {"corrupt", "empty"}

Combined == IF Exists THEN cache.rows (+) SetToBag(fresh) ELSE SetToBag(fresh)

\* Mutant of WriteCache: what is there is not read back.
WriteCache_Replaces ==
    /\ pc = "write" /\ fresh # {} /\ ~Unreadable
    /\ cache' = [state |-> "readable", rows |-> SetToBag(fresh)]
    /\ pc' = "mark"
    /\ UNCHANGED <<outside, sidecar, fingerprint, ledger, backups, aside, call, faults,
                   history>>

\* The file is written in place.
WriteCache ==
    /\ pc = "write" /\ fresh # {} /\ ~Unreadable
    /\ cache' = [state |-> "readable", rows |-> Combined]
    /\ pc' = "mark"
    /\ UNCHANGED <<outside, sidecar, fingerprint, ledger, backups, aside, call, faults,
                   history>>

NothingToWrite ==
    /\ pc = "write" /\ fresh = {}
    /\ pc' = "mark"
    /\ UNCHANGED <<outside, files, call, faults, history>>

\* An unreadable cache is left in place.
WriteAside ==
    /\ pc = "write" /\ fresh # {} /\ Unreadable
    /\ aside' = fresh
    /\ pc' = "mark"
    /\ UNCHANGED <<outside, cache, sidecar, fingerprint, ledger, backups, call, faults,
                   history>>

WriteSchema ==
    /\ pc = "mark"
    /\ sidecar' = schema
    /\ pc' = "refresh"
    /\ UNCHANGED <<outside, cache, fingerprint, ledger, backups, aside, call, faults,
                   history>>

Idle ==
    /\ pc' = "idle" /\ covered' = {} /\ by_client' = FALSE /\ listed' = {}
    /\ fresh' = {} /\ no_session' = {}

\* The fingerprint is read again, and noted if there is a cache.
Refresh ==
    /\ pc = "refresh"
    /\ fingerprint' = IF Exists THEN CurrentFingerprint ELSE fingerprint
    /\ Idle
    /\ UNCHANGED <<outside, cache, sidecar, ledger, backups, aside, faults, history>>

-----------------------------------------------------------------------------
(* The dashboard's process dies *)

Dies == pc # "idle" /\ Fails /\ Idle

Crash ==
    /\ Dies
    /\ UNCHANGED <<outside, files, history>>

\* It dies while it writes the cache, which is sorted by time: the first rows
\* are in the file, or nothing that can be read.
CrashInWrite(kept) ==
    /\ pc = "write" /\ fresh # {} /\ ~Unreadable
    /\ \A r \in kept, q \in BagToSet(Combined) \ kept :
            Case(r.of) = Case(q.of) /\ q.of[2] # 0 => r.of[2] \in 1..q.of[2]
    /\ Dies
    /\ \/ cache' = [state |-> "readable", rows |-> SetToBag(kept)]
       \/ \E state \in {"corrupt", "empty"} : cache' = [state |-> state, rows |-> EmptyBag]
    /\ torn' = TRUE
    /\ UNCHANGED <<outside, sidecar, fingerprint, ledger, backups, aside,
                   imported, misfiled, missed>>

Sync ==
    \/ CheckFreshness \/ DecideToSync \/ Quarantine \/ QuarantineFails \/ DropLedger
    \/ ListNew \/ ListByClient \/ Extract \/ NoteLoose \/ WriteCache \/ NothingToWrite \/ WriteAside
    \/ WriteSchema \/ Refresh

Next ==
    \/ \E t \in Traces : Record(t)
    \/ \E c \in Conversations : SaveFeedback(c)
    \/ Upgrade
    \/ \E c \in Foreign, v \in 1..schema, b \in BOOLEAN : Import(c, v, b)
    \/ Sync
    \/ Crash
    \/ \E kept \in SUBSET BagToSet(Combined) : CrashInWrite(kept)

Spec == Init /\ [][Next]_vars

-----------------------------------------------------------------------------
(* Properties *)

TypeOK ==
    /\ schema \in 1..MaxSchema /\ store \subseteq Traces
    /\ feedback \subseteq Conversations
    /\ cache.state \in {"absent", "empty", "readable", "corrupt"}
    /\ IsABag(cache.rows) /\ BagToSet(cache.rows) \subseteq Rows
    /\ sidecar \in 0..MaxSchema
    /\ fingerprint.store \subseteq Traces /\ fingerprint.schema \in 0..MaxSchema
    /\ ledger \subseteq Loose \X {0}
    /\ \A n \in DOMAIN backups : IsABag(backups[n])
    /\ listed \subseteq Traces /\ no_session \subseteq Loose \X {0}
    /\ fresh \subseteq Rows /\ aside \subseteq Rows

\* "Imported rows are never silently destroyed": what a colleague gave is in
\* the cache or in a backup, through quarantine, upgrade and crash, unless
\* the writing of the whole file in place was itself cut short.
ImportedKept ==
    ~torn => \A r \in imported :
        \/ BagIn(r, cache.rows)
        \/ \E n \in DOMAIN backups : BagIn(r, backups[n])

\* The rows of one cache have one shape: rows of different schema versions
\* never share a file, unless a file was put beside another one's sidecar.
OneShape ==
    ~misfiled => \A r, q \in BagToSet(cache.rows) : r.schema = q.schema

\* No trace and no feedback is in the cache twice, although a sync may be cut,
\* repeated, or list what is covered already.
EachRowOnce == \A r \in BagToSet(cache.rows) : cache.rows[r] = 1

\* A matching fingerprint means that the cache covers every conversation of
\* the store, but for traces that came in during a sync or could not be had.
FreshOrMissed ==
    (pc = "idle" /\ IsFresh /\ ~torn) =>
        \A t \in store :
            Case(t) \in Conversations \ CasesOf(cache.rows) => t \in missed
=============================================================================
