---------------------------- MODULE CoffeeMachine ----------------------------
(***************************************************************************)
(* The coffee machine service (services/coffee_machine/state.py and        *)
(* worker.py).  FastAPI runs its handlers on a pool of threads and a       *)
(* daemon thread polls every unfinished job; they share `jobs`,            *)
(* `job_events` and `machine_dirty` and take no lock, so a handler is a    *)
(* sequence of steps here, one for each access to shared state that        *)
(* another thread can observe or disturb.                                  *)
(*                                                                         *)
(* The outcome of a brew is drawn when the job is created; how the queue   *)
(* of outcomes is kept is the subject of OutcomeQueue.                     *)
(***************************************************************************)
EXTENDS Naturals, FiniteSets

CONSTANTS Jobs,     \* the brew jobs that can be created
          Clients,  \* the threads that run the HTTP handlers
          Worker,   \* the background thread of worker.py
          NoJob     \* what an idle thread works on

ASSUME ThreadsAssumption == Worker \notin Clients
ASSUME NoJobAssumption == NoJob \notin Jobs

VARIABLES
    jobs,           \* the job records: `made` once built, `known` once the dict
                    \* holds them
    job_events,     \* of each job, the last activity emitted, and how many
                    \* times one that says the brew is finished was
    machine_dirty,
    thread,         \* where each thread is, and the job it works on
    todo,           \* the jobs the worker has yet to visit in this round
    \* history, read by the properties only
    told,           \* jobs whose final status some poll has returned
    swept           \* failed brews that were over at the last clean_machine

vars == <<jobs, job_events, machine_dirty, thread, todo, told, swept>>

Threads == Clients \cup {Worker}

JobRecord == [made: BOOLEAN, known: BOOLEAN, will_fail: BOOLEAN, contaminated: BOOLEAN,
              over: BOOLEAN,   \* created_at + duration has passed
              logged_finished: BOOLEAN]

Activities == {"job_created", "process_order", "brew_completed", "brew_failed"}

FinishActivities == {"brew_completed", "brew_failed"}

\* Mutant of FinishActivity: the job's status is logged, not the activity.
FinishActivity_Status(j) == IF jobs[j].will_fail THEN "failed" ELSE "ready"

FinishActivity(j) == IF jobs[j].will_fail THEN "brew_failed" ELSE "brew_completed"

Idle == [pc |-> "idle", job |-> NoJob]

ProgramPoints == {"put_job", "emit_created", "read_events", "emit_process",
                  "check_finished", "emit_finish", "set_dirty", "set_finished"}

Made == {j \in Jobs : jobs[j].made}

Known == {j \in Jobs : jobs[j].known}

\* The failed brews no cleaning has come after.
Unswept == {j \in Jobs : jobs[j].will_fail /\ jobs[j].over} \ swept

Init ==
    /\ jobs = [j \in Jobs |-> [made |-> FALSE, known |-> FALSE,
                               will_fail |-> FALSE, contaminated |-> FALSE,
                               over |-> FALSE, logged_finished |-> FALSE]]
    /\ job_events = [j \in Jobs |-> [last |-> "none", finishes |-> 0]]
    /\ machine_dirty = FALSE
    /\ thread = [t \in Threads |-> Idle]
    /\ todo = {}
    /\ told = {}
    /\ swept = {}

-----------------------------------------------------------------------------
(* Steps of a thread.                                                      *)

At(t, pc) == thread[t].pc = pc

Goto(t, pc) == thread' = [thread EXCEPT ![t].pc = pc]

Begin(t, j, pc) == thread' = [thread EXCEPT ![t] = [pc |-> pc, job |-> j]]

Return(t) == thread' = [thread EXCEPT ![t] = Idle]

emit_event(j, activity) ==
    job_events' = [job_events EXCEPT ![j] =
        [last |-> activity,
         finishes |-> IF activity \in FinishActivities
                      THEN @.finishes + 1 ELSE @.finishes]]

\* Mutant of create_job: contaminated takes the failure for the cause.
create_job_OnlyFailures(t, j, will_fail) ==
    /\ At(t, "idle") /\ ~jobs[j].made
    /\ jobs' = [jobs EXCEPT ![j] =
                  [made |-> TRUE, known |-> FALSE, will_fail |-> will_fail,
                   contaminated |-> machine_dirty /\ will_fail,
                   over |-> FALSE, logged_finished |-> FALSE]]
    /\ Begin(t, j, "put_job")
    /\ UNCHANGED <<job_events, machine_dirty, todo, told, swept>>

\* create_job: the record is built from the current machine_dirty, then put in
\* the dict, where the worker finds it; only then is job_created emitted.
create_job(t, j, will_fail) ==
    /\ At(t, "idle") /\ ~jobs[j].made
    /\ jobs' = [jobs EXCEPT ![j] =
                  [made |-> TRUE, known |-> FALSE, will_fail |-> will_fail,
                   contaminated |-> machine_dirty /\ ~will_fail,
                   over |-> FALSE, logged_finished |-> FALSE]]
    /\ Begin(t, j, "put_job")
    /\ UNCHANGED <<job_events, machine_dirty, todo, told, swept>>

PutJob(t) ==
    /\ At(t, "put_job")
    /\ jobs' = [jobs EXCEPT ![thread[t].job].known = TRUE]
    /\ Goto(t, "emit_created")
    /\ UNCHANGED <<job_events, machine_dirty, todo, told, swept>>

EmitCreated(t) ==
    /\ At(t, "emit_created")
    /\ emit_event(thread[t].job, "job_created")
    /\ Return(t)
    /\ UNCHANGED <<jobs, machine_dirty, todo, told, swept>>

\* The brewing time of a job passes.
Elapse(j) ==
    /\ jobs[j].made /\ ~jobs[j].over
    /\ jobs' = [jobs EXCEPT ![j].over = TRUE]
    /\ UNCHANGED <<job_events, machine_dirty, thread, todo, told, swept>>

\* get_job starts by sampling the clock; what it does next hangs on that
\* sample and never on a later one.
get_job(t, j) ==
    /\ At(t, "idle") /\ jobs[j].known
    /\ Begin(t, j, IF jobs[j].over THEN "check_finished" ELSE "read_events")
    /\ UNCHANGED <<jobs, job_events, machine_dirty, told, swept>>

\* A client learns a job's id from the answer to its /brew request.
Answered(j) == \A t \in Clients : thread[t] # [pc |-> "emit_created", job |-> j]

ClientPoll(t, j) == Answered(j) /\ get_job(t, j) /\ UNCHANGED todo

ReadEvents(t) ==
    /\ At(t, "read_events")
    /\ IF job_events[thread[t].job].last = "process_order"
       THEN Return(t)
       ELSE Goto(t, "emit_process")
    /\ UNCHANGED <<jobs, job_events, machine_dirty, todo, told, swept>>

EmitProcess(t) ==
    /\ At(t, "emit_process")
    /\ emit_event(thread[t].job, "process_order")
    /\ Return(t)
    /\ UNCHANGED <<jobs, machine_dirty, todo, told, swept>>

\* Mutant of CheckFinished: the job is marked before its event is emitted, to
\* keep a second poller from emitting it again.
CheckFinished_MarksFirst(t) ==
    LET j == thread[t].job IN
    /\ At(t, "check_finished")
    /\ jobs' = [jobs EXCEPT ![j].logged_finished = TRUE]
    /\ \/ jobs[j].logged_finished /\ Return(t) /\ told' = told \cup {j}
       \/ ~jobs[j].logged_finished /\ Goto(t, "emit_finish") /\ UNCHANGED told
    /\ UNCHANGED <<job_events, machine_dirty, todo, swept>>

CheckFinished(t) ==
    LET j == thread[t].job IN
    /\ At(t, "check_finished")
    /\ \/ /\ jobs[j].logged_finished
          /\ Return(t)
          /\ told' = told \cup {j}
       \/ /\ ~jobs[j].logged_finished
          /\ Goto(t, "emit_finish")
          /\ UNCHANGED told
    /\ UNCHANGED <<jobs, job_events, machine_dirty, todo, swept>>

\* Mutant of EmitFinish: the job is marked before the machine is.
EmitFinish_MarksFirst(t) ==
    LET j == thread[t].job IN
    /\ At(t, "emit_finish")
    /\ emit_event(j, FinishActivity(j))
    /\ jobs' = [jobs EXCEPT ![j].logged_finished = TRUE]
    /\ Goto(t, IF jobs[j].will_fail THEN "set_dirty" ELSE "set_finished")
    /\ UNCHANGED <<machine_dirty, todo, told, swept>>

EmitFinish(t) ==
    LET j == thread[t].job IN
    /\ At(t, "emit_finish")
    /\ emit_event(j, FinishActivity(j))
    /\ Goto(t, IF jobs[j].will_fail THEN "set_dirty" ELSE "set_finished")
    /\ UNCHANGED <<jobs, machine_dirty, todo, told, swept>>

SetDirty(t) ==
    /\ At(t, "set_dirty")
    /\ machine_dirty' = TRUE
    /\ Goto(t, "set_finished")
    /\ UNCHANGED <<jobs, job_events, todo, told, swept>>

SetFinished(t) ==
    LET j == thread[t].job IN
    /\ At(t, "set_finished")
    /\ jobs' = [jobs EXCEPT ![j].logged_finished = TRUE]
    /\ Return(t)
    /\ told' = told \cup {j}
    /\ UNCHANGED <<job_events, machine_dirty, todo, swept>>

GetJobStep(t) ==
    \/ ReadEvents(t) \/ EmitProcess(t) \/ CheckFinished(t)
    \/ EmitFinish(t) \/ SetDirty(t) \/ SetFinished(t)

\* clean_machine tests and clears the flag; a set by another thread between
\* the two is as if it came before both or after both.
clean_machine(t) ==
    /\ At(t, "idle")
    /\ machine_dirty' = FALSE
    /\ swept' = swept \cup Unswept
    /\ UNCHANGED <<jobs, job_events, thread, todo, told>>

-----------------------------------------------------------------------------
(* run_worker: a round visits a snapshot of the keys, skips what is logged *)
(* as finished, and polls the rest.                                        *)

\* Mutant of WorkerRound: a job that was polled once is not polled again.
WorkerRound_NewOnly ==
    /\ At(Worker, "idle") /\ todo = {}
    /\ todo' = {j \in Known : job_events[j].last = "job_created"}
    /\ UNCHANGED <<jobs, job_events, machine_dirty, thread, told, swept>>

WorkerRound ==
    /\ At(Worker, "idle") /\ todo = {}
    /\ todo' = Known
    /\ UNCHANGED <<jobs, job_events, machine_dirty, thread, told, swept>>

WorkerSkip(j) ==
    /\ At(Worker, "idle") /\ j \in todo /\ jobs[j].logged_finished
    /\ todo' = todo \ {j}
    /\ UNCHANGED <<jobs, job_events, machine_dirty, thread, told, swept>>

WorkerPoll(j) ==
    /\ j \in todo /\ ~jobs[j].logged_finished
    /\ get_job(Worker, j)
    /\ todo' = todo \ {j}

run_worker == WorkerRound \/ \E j \in Jobs : WorkerSkip(j) \/ WorkerPoll(j)

-----------------------------------------------------------------------------

Next ==
    \/ \E t \in Clients :
        \/ \E j \in Jobs, f \in BOOLEAN : create_job(t, j, f)
        \/ \E j \in Jobs : ClientPoll(t, j)
        \/ PutJob(t) \/ EmitCreated(t)
        \/ clean_machine(t)
    \/ \E t \in Threads : GetJobStep(t)
    \/ \E j \in Jobs : Elapse(j)
    \/ run_worker

\* The worker never stops (its loop catches what get_job raises) and time
\* passes; no client is obliged to call anything.
Fairness ==
    /\ WF_vars(run_worker)
    /\ WF_vars(GetJobStep(Worker))
    /\ \A j \in Jobs : WF_vars(Elapse(j))

Spec == Init /\ [][Next]_vars

FairSpec == Spec /\ Fairness

-----------------------------------------------------------------------------
(* The promise this service implements.                                    *)

Promise == INSTANCE BrewMachine WITH
    accepted <- Made,
    fails    <- {j \in Made : jobs[j].will_fail},
    tainted  <- {j \in Made : jobs[j].contaminated},
    expired  <- {j \in Made : jobs[j].over},
    reported <- {j \in Made : jobs[j].logged_finished},
    dirty    <- machine_dirty,
    cleaned  <- swept

\* The racing threads together behave as a machine whose operations are
\* atomic: in particular a failure is never reported before its soil shows.
ImplementsPromise == Promise!MachineSpec

-----------------------------------------------------------------------------
(* Properties.                                                             *)

\* Every variable keeps the shape state.py gives it.
TypeOK ==
    /\ jobs \in [Jobs -> JobRecord]
    /\ job_events \in [Jobs -> [last: Activities \cup {"none"}, finishes: Nat]]
    /\ machine_dirty \in BOOLEAN
    /\ thread \in [Threads -> [pc: ProgramPoints, job: Jobs] \cup {Idle}]
    /\ todo \subseteq Jobs
    /\ told \subseteq Jobs
    /\ swept \subseteq Jobs

\* Once a failed brew is marked as logged, the machine is dirty until somebody
\* cleans it, whichever of the racing pollers got there first (state.py sets
\* machine_dirty before logged_finished).
LoggedFailureDirties ==
    \A j \in Unswept : jobs[j].logged_finished => machine_dirty

\* Nobody is told a brew is ready or failed before the event that says so is
\* in the job's history, even when the poller told is not the one that emitted.
ToldAfterEmitted ==
    \A j \in told : job_events[j].finishes > 0

\* A retry after a failure that some poll has reported, with no cleaning in
\* between, is brewed contaminated: "If you skip cleaning, the coffee will be
\* contaminated" (barista_agent.yaml).
UncleanRetryContaminates ==
    [][\A j \in Jobs :
         (~jobs[j].made /\ jobs'[j].made /\ ~jobs'[j].will_fail
            /\ told \cap Unswept # {}) => jobs'[j].contaminated]_vars

\* Every job the service accepted is logged as finished, even if its client
\* never polls again: the worker alone gets it there.
AcceptedJobFinishes == \A j \in Jobs : jobs[j].known ~> jobs[j].logged_finished
=============================================================================
