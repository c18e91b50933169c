------------------------- MODULE CoffeeMachineProofs -------------------------
(***************************************************************************)
(* Proofs about CoffeeMachine, for every number of jobs and threads.       *)
(***************************************************************************)
EXTENDS CoffeeMachine, TLAPS

\* The points of get_job past the test of the sampled status.
Finishing == {"check_finished", "emit_finish", "set_dirty", "set_finished"}

\* A thread works on a job that was built and, once it polls, is in the dict;
\* a thread that is finishing a job saw its time over; and what a thread at
\* set_finished is about to make public is already true.
ThreadKnows(t) ==
    LET j == thread[t].job IN
    /\ jobs[j].made
    /\ thread[t].pc \in Finishing => jobs[j].over
    /\ thread[t].pc = "set_dirty" => jobs[j].will_fail
    /\ thread[t].pc \in {"set_dirty", "set_finished"} => job_events[j].finishes > 0
    /\ (thread[t].pc = "set_finished" /\ j \in Unswept) => machine_dirty

ThreadsKnow == \A t \in Threads : thread[t].pc # "idle" => ThreadKnows(t)

\* The life of a job: built, over, logged as finished, told.
JobOrder(j) ==
    /\ jobs[j].known => jobs[j].made
    /\ jobs[j].over => jobs[j].made
    /\ jobs[j].logged_finished => jobs[j].over /\ job_events[j].finishes > 0
    /\ j \in told => jobs[j].logged_finished
    /\ j \in swept => jobs[j].over /\ jobs[j].will_fail

JobsOrdered == \A j \in Jobs : JobOrder(j)

\* The inductive invariant: LoggedFailureDirties and ToldAfterEmitted are not
\* inductive alone, for a thread between its emission and its last assignment
\* carries an obligation that only ThreadsKnow states.
Inv == TypeOK /\ ThreadsKnow /\ JobsOrdered /\ LoggedFailureDirties

\* TypeOK in the form the steps below use.
LEMMA ThreadType ==
  ASSUME TypeOK, NEW t \in Threads
  PROVE  /\ thread[t].pc # "idle" => thread[t].job \in Jobs
         /\ thread[t].pc # "idle" => thread[t] \in [pc: ProgramPoints, job: Jobs]
         /\ thread[t].pc \in ProgramPoints \cup {"idle"}
  BY DEF TypeOK, Idle, ProgramPoints

\* An empty service satisfies the invariant.
LEMMA InitInv == Init => Inv
<1> SUFFICES ASSUME Init PROVE Inv
  OBVIOUS
<1>1. TypeOK
  <2>1. jobs \in [Jobs -> JobRecord]
    BY DEF Init, JobRecord
  <2>2. job_events \in [Jobs -> [last: Activities \cup {"none"}, finishes: Nat]]
    BY DEF Init
  <2>3. thread \in [Threads -> [pc: ProgramPoints, job: Jobs] \cup {Idle}]
    BY DEF Init
  <2> QED
    BY <2>1, <2>2, <2>3 DEF Init, TypeOK
<1>2. ThreadsKnow
  BY DEF Init, ThreadsKnow, Idle
<1>3. JobsOrdered
  BY DEF Init, JobsOrdered, JobOrder
<1>4. LoggedFailureDirties
  BY DEF Init, LoggedFailureDirties, Unswept
<1> QED
  BY <1>1, <1>2, <1>3, <1>4 DEF Inv

\* A new record is well formed and no other thread works on it.
LEMMA CreateInv ==
  ASSUME Inv, NEW t \in Clients, NEW j \in Jobs, NEW f \in BOOLEAN,
         create_job(t, j, f)
  PROVE  Inv'
<1> USE DEF Inv
<1>1. TypeOK'
  <2>1. jobs' \in [Jobs -> JobRecord]
    BY DEF create_job, TypeOK, JobRecord
  <2>2. thread' \in [Threads -> [pc: ProgramPoints, job: Jobs] \cup {Idle}]
    BY DEF create_job, TypeOK, Begin, ProgramPoints, Threads
  <2> QED
    BY <2>1, <2>2 DEF TypeOK, create_job
<1>2. ThreadsKnow'
  BY ThreadType DEF create_job, ThreadsKnow, ThreadKnows, JobsOrdered, JobOrder, TypeOK,
     JobRecord, Begin, Finishing, Unswept, Threads
<1>3. JobsOrdered'
  BY DEF create_job, JobsOrdered, JobOrder, TypeOK
<1>4. LoggedFailureDirties'
  BY DEF create_job, LoggedFailureDirties, Unswept, JobsOrdered, JobOrder, TypeOK, JobRecord
<1> QED
  BY <1>1, <1>2, <1>3, <1>4

\* The record is published by the thread that built it.
LEMMA PutInv ==
  ASSUME Inv, NEW t \in Threads, PutJob(t)
  PROVE  Inv'
<1> USE DEF Inv
<1>1. TypeOK'
  <2>1. jobs' \in [Jobs -> JobRecord]
    BY ThreadType DEF PutJob, At, TypeOK, JobRecord
  <2> QED
    BY <2>1, ThreadType DEF PutJob, At, Goto, Return, TypeOK, ProgramPoints, Idle
<1>2. ThreadsKnow'
  BY ThreadType DEF PutJob, At, Goto, ThreadsKnow, ThreadKnows, JobsOrdered,
     JobOrder, TypeOK, JobRecord, Finishing, Unswept, Idle
<1>3. JobsOrdered'
  BY ThreadType DEF PutJob, At, Goto, ThreadsKnow, ThreadKnows, JobsOrdered,
     JobOrder, TypeOK, JobRecord, Finishing
<1>4. LoggedFailureDirties'
  BY ThreadType DEF PutJob, At, Goto, LoggedFailureDirties, ThreadsKnow, ThreadKnows,
     JobsOrdered, JobOrder, Unswept, TypeOK, JobRecord, Finishing
<1> QED
  BY <1>1, <1>2, <1>3, <1>4

\* job_created says nothing about the end of a brew.
LEMMA EmitCreatedInv ==
  ASSUME Inv, NEW t \in Threads, EmitCreated(t)
  PROVE  Inv'
<1> USE DEF Inv
<1>1. TypeOK'
  BY ThreadType DEF EmitCreated, At, Return, emit_event, FinishActivities, TypeOK, JobRecord, ProgramPoints, Idle, Activities
<1>2. ThreadsKnow'
  BY ThreadType DEF EmitCreated, At, Return, emit_event, FinishActivities, ThreadsKnow, ThreadKnows, JobsOrdered,
     JobOrder, TypeOK, JobRecord, Finishing, Unswept, Idle
<1>3. JobsOrdered'
  BY ThreadType DEF EmitCreated, At, Return, emit_event, FinishActivities, ThreadsKnow, ThreadKnows, JobsOrdered,
     JobOrder, TypeOK, JobRecord, Finishing
<1>4. LoggedFailureDirties'
  BY ThreadType DEF EmitCreated, At, Return, emit_event, FinishActivities, LoggedFailureDirties, ThreadsKnow, ThreadKnows,
     JobsOrdered, JobOrder, Unswept, TypeOK, JobRecord, Finishing
<1> QED
  BY <1>1, <1>2, <1>3, <1>4

\* Time only turns a brew into one that is over.
LEMMA ElapseInv ==
  ASSUME Inv, NEW j \in Jobs, Elapse(j)
  PROVE  Inv'
<1> USE DEF Inv
<1>1. TypeOK'
  <2>1. jobs' \in [Jobs -> JobRecord]
    BY DEF Inv, Elapse, TypeOK, JobRecord
  <2> QED
    BY <2>1, ThreadType DEF Elapse, At, Goto, Return, TypeOK, ProgramPoints, Idle
<1>2. ThreadsKnow'
  BY ThreadType DEF Elapse, Made, ThreadsKnow, ThreadKnows, JobsOrdered,
     JobOrder, TypeOK, JobRecord, Finishing, Unswept, Idle
<1>3. JobsOrdered'
  BY ThreadType DEF Elapse, Made, ThreadsKnow, ThreadKnows, JobsOrdered,
     JobOrder, TypeOK, JobRecord, Finishing
<1>4. LoggedFailureDirties'
  BY ThreadType DEF Elapse, Made, LoggedFailureDirties, ThreadsKnow, ThreadKnows,
     JobsOrdered, JobOrder, Unswept, TypeOK, JobRecord, Finishing
<1> QED
  BY <1>1, <1>2, <1>3, <1>4

\* A poll starts on a known job, with the clock it sampled.
LEMMA GetJobInv ==
  ASSUME Inv, NEW t \in Threads, NEW j \in Jobs, get_job(t, j),
         todo' \subseteq todo
  PROVE  Inv'
<1> USE DEF Inv
<1>1. TypeOK'
  BY ThreadType DEF get_job, At, Begin, TypeOK, JobRecord, ProgramPoints, Idle, Activities
<1>2. ThreadsKnow'
  BY ThreadType DEF get_job, At, Begin, ThreadsKnow, ThreadKnows, JobsOrdered,
     JobOrder, TypeOK, JobRecord, Finishing, Unswept, Idle
<1>3. JobsOrdered'
  BY ThreadType DEF get_job, At, Begin, ThreadsKnow, ThreadKnows, JobsOrdered,
     JobOrder, TypeOK, JobRecord, Finishing
<1>4. LoggedFailureDirties'
  BY ThreadType DEF get_job, At, Begin, LoggedFailureDirties, ThreadsKnow, ThreadKnows,
     JobsOrdered, JobOrder, Unswept, TypeOK, JobRecord, Finishing
<1> QED
  BY <1>1, <1>2, <1>3, <1>4

\* The look at the event list changes the thread only.
LEMMA ReadEventsInv ==
  ASSUME Inv, NEW t \in Threads, ReadEvents(t)
  PROVE  Inv'
<1> USE DEF Inv
<1>1. TypeOK'
  BY ThreadType DEF ReadEvents, At, Goto, Return, TypeOK, JobRecord, ProgramPoints, Idle, Activities
<1>2. ThreadsKnow'
  <2>1. CASE (job_events[thread[t].job].last = "process_order")
    BY <2>1, ThreadType DEF ReadEvents, At, Goto, Return, ThreadsKnow, ThreadKnows, JobsOrdered,
     JobOrder, TypeOK, JobRecord, Finishing, Unswept, Idle
  <2>2. CASE ~(job_events[thread[t].job].last = "process_order")
    BY <2>2, ThreadType DEF ReadEvents, At, Goto, Return, ThreadsKnow, ThreadKnows, JobsOrdered,
     JobOrder, TypeOK, JobRecord, Finishing, Unswept, Idle
  <2> QED
    BY <2>1, <2>2
<1>3. JobsOrdered'
  BY ThreadType DEF ReadEvents, At, Goto, Return, ThreadsKnow, ThreadKnows, JobsOrdered,
     JobOrder, TypeOK, JobRecord, Finishing
<1>4. LoggedFailureDirties'
  BY ThreadType DEF ReadEvents, At, Goto, Return, LoggedFailureDirties, ThreadsKnow, ThreadKnows,
     JobsOrdered, JobOrder, Unswept, TypeOK, JobRecord, Finishing
<1> QED
  BY <1>1, <1>2, <1>3, <1>4

\* process_order does not undo a finish that was counted.
LEMMA EmitProcessInv ==
  ASSUME Inv, NEW t \in Threads, EmitProcess(t)
  PROVE  Inv'
<1> USE DEF Inv
<1>1. TypeOK'
  BY ThreadType DEF EmitProcess, At, Return, emit_event, FinishActivities, TypeOK, JobRecord, ProgramPoints, Idle, Activities
<1>2. ThreadsKnow'
  BY ThreadType DEF EmitProcess, At, Return, emit_event, FinishActivities, ThreadsKnow, ThreadKnows, JobsOrdered,
     JobOrder, TypeOK, JobRecord, Finishing, Unswept, Idle
<1>3. JobsOrdered'
  BY ThreadType DEF EmitProcess, At, Return, emit_event, FinishActivities, ThreadsKnow, ThreadKnows, JobsOrdered,
     JobOrder, TypeOK, JobRecord, Finishing
<1>4. LoggedFailureDirties'
  BY ThreadType DEF EmitProcess, At, Return, emit_event, FinishActivities, LoggedFailureDirties, ThreadsKnow, ThreadKnows,
     JobsOrdered, JobOrder, Unswept, TypeOK, JobRecord, Finishing
<1> QED
  BY <1>1, <1>2, <1>3, <1>4

\* A poller is told the end only of a job that is marked, so emitted.
LEMMA CheckFinishedInv ==
  ASSUME Inv, NEW t \in Threads, CheckFinished(t)
  PROVE  Inv'
<1> USE DEF Inv
<1>1. TypeOK'
  BY ThreadType DEF CheckFinished, At, Goto, Return, TypeOK, JobRecord, ProgramPoints, Idle, Activities
<1>2. ThreadsKnow'
  <2>1. CASE jobs[thread[t].job].logged_finished
    BY <2>1, ThreadType DEF CheckFinished, At, Goto, Return, ThreadsKnow, ThreadKnows, JobsOrdered,
     JobOrder, TypeOK, JobRecord, Finishing, Unswept, Idle
  <2>2. CASE ~jobs[thread[t].job].logged_finished
    BY <2>2, ThreadType DEF CheckFinished, At, Goto, Return, ThreadsKnow, ThreadKnows, JobsOrdered,
     JobOrder, TypeOK, JobRecord, Finishing, Unswept, Idle
  <2> QED
    BY <2>1, <2>2
<1>3. JobsOrdered'
  BY ThreadType DEF CheckFinished, At, Goto, Return, ThreadsKnow, ThreadKnows, JobsOrdered,
     JobOrder, TypeOK, JobRecord, Finishing
<1>4. LoggedFailureDirties'
  BY ThreadType DEF CheckFinished, At, Goto, Return, LoggedFailureDirties, ThreadsKnow, ThreadKnows,
     JobsOrdered, JobOrder, Unswept, TypeOK, JobRecord, Finishing
<1> QED
  BY <1>1, <1>2, <1>3, <1>4

\* The finish is emitted before anything marks the job.
LEMMA EmitFinishInv ==
  ASSUME Inv, NEW t \in Threads, EmitFinish(t)
  PROVE  Inv'
<1> USE DEF Inv
<1>1. TypeOK'
  BY ThreadType DEF EmitFinish, At, Goto, emit_event, FinishActivities, FinishActivity, TypeOK, JobRecord, ProgramPoints, Idle, Activities
<1>2. ThreadsKnow'
  BY ThreadType DEF EmitFinish, At, Goto, emit_event, FinishActivities, FinishActivity, ThreadsKnow, ThreadKnows, JobsOrdered,
     JobOrder, TypeOK, JobRecord, Finishing, Unswept, Idle
<1>3. JobsOrdered'
  BY ThreadType DEF EmitFinish, At, Goto, emit_event, FinishActivities, FinishActivity, ThreadsKnow, ThreadKnows, JobsOrdered,
     JobOrder, TypeOK, JobRecord, Finishing
<1>4. LoggedFailureDirties'
  BY ThreadType DEF EmitFinish, At, Goto, emit_event, FinishActivities, FinishActivity, LoggedFailureDirties, ThreadsKnow, ThreadKnows,
     JobsOrdered, JobOrder, Unswept, TypeOK, JobRecord, Finishing
<1> QED
  BY <1>1, <1>2, <1>3, <1>4

\* The flag is set by a poller of a failed brew that is over.
LEMMA SetDirtyInv ==
  ASSUME Inv, NEW t \in Threads, SetDirty(t)
  PROVE  Inv'
<1> USE DEF Inv
<1>1. TypeOK'
  BY ThreadType DEF SetDirty, At, Goto, TypeOK, JobRecord, ProgramPoints, Idle, Activities
<1>2. ThreadsKnow'
  BY ThreadType DEF SetDirty, At, Goto, ThreadsKnow, ThreadKnows, JobsOrdered,
     JobOrder, TypeOK, JobRecord, Finishing, Unswept, Idle
<1>3. JobsOrdered'
  BY ThreadType DEF SetDirty, At, Goto, ThreadsKnow, ThreadKnows, JobsOrdered,
     JobOrder, TypeOK, JobRecord, Finishing
<1>4. LoggedFailureDirties'
  BY ThreadType DEF SetDirty, At, Goto, LoggedFailureDirties, ThreadsKnow, ThreadKnows,
     JobsOrdered, JobOrder, Unswept, TypeOK, JobRecord, Finishing
<1> QED
  BY <1>1, <1>2, <1>3, <1>4

\* The mark comes after the event, and after the flag if the brew failed.
LEMMA SetFinishedInv ==
  ASSUME Inv, NEW t \in Threads, SetFinished(t)
  PROVE  Inv'
<1> USE DEF Inv
<1>1. TypeOK'
  <2>1. jobs' \in [Jobs -> JobRecord]
    BY ThreadType DEF SetFinished, At, TypeOK, JobRecord
  <2> QED
    BY <2>1, ThreadType DEF SetFinished, At, Goto, Return, TypeOK, ProgramPoints, Idle
<1>2. ThreadsKnow'
  BY ThreadType DEF SetFinished, At, Return, ThreadsKnow, ThreadKnows, JobsOrdered,
     JobOrder, TypeOK, JobRecord, Finishing, Unswept, Idle
<1>3. JobsOrdered'
  BY ThreadType DEF SetFinished, At, Return, ThreadsKnow, ThreadKnows, JobsOrdered,
     JobOrder, TypeOK, JobRecord, Finishing
<1>4. LoggedFailureDirties'
  BY ThreadType DEF SetFinished, At, Return, LoggedFailureDirties, ThreadsKnow, ThreadKnows,
     JobsOrdered, JobOrder, Unswept, TypeOK, JobRecord, Finishing
<1> QED
  BY <1>1, <1>2, <1>3, <1>4

\* A cleaning sweeps every failure it clears the flag of.
LEMMA CleanInv ==
  ASSUME Inv, NEW t \in Threads, clean_machine(t)
  PROVE  Inv'
<1> USE DEF Inv
<1>1. TypeOK'
  BY ThreadType DEF clean_machine, At, Unswept, TypeOK, JobRecord, ProgramPoints, Idle, Activities
<1>2. ThreadsKnow'
  BY ThreadType DEF clean_machine, At, ThreadsKnow, ThreadKnows, JobsOrdered,
     JobOrder, TypeOK, JobRecord, Finishing, Unswept, Idle
<1>3. JobsOrdered'
  BY ThreadType DEF clean_machine, At, Unswept, ThreadsKnow, ThreadKnows, JobsOrdered,
     JobOrder, TypeOK, JobRecord, Finishing
<1>4. LoggedFailureDirties'
  BY ThreadType DEF clean_machine, At, LoggedFailureDirties, ThreadsKnow, ThreadKnows,
     JobsOrdered, JobOrder, Unswept, TypeOK, JobRecord, Finishing
<1> QED
  BY <1>1, <1>2, <1>3, <1>4

\* A round takes a snapshot of the known jobs.
LEMMA RoundInv ==
  ASSUME Inv, WorkerRound
  PROVE  Inv'
<1> USE DEF Inv
<1>1. TypeOK'
  BY ThreadType DEF WorkerRound, Known, TypeOK, JobRecord, ProgramPoints, Idle, Activities
<1>2. ThreadsKnow'
  BY ThreadType DEF WorkerRound, Known, ThreadsKnow, ThreadKnows, JobsOrdered,
     JobOrder, TypeOK, JobRecord, Finishing, Unswept, Idle
<1>3. JobsOrdered'
  BY ThreadType DEF WorkerRound, Known, ThreadsKnow, ThreadKnows, JobsOrdered,
     JobOrder, TypeOK, JobRecord, Finishing
<1>4. LoggedFailureDirties'
  BY ThreadType DEF WorkerRound, Known, LoggedFailureDirties, ThreadsKnow, ThreadKnows,
     JobsOrdered, JobOrder, Unswept, TypeOK, JobRecord, Finishing
<1> QED
  BY <1>1, <1>2, <1>3, <1>4

\* A job that is skipped leaves the round and nothing else changes.
LEMMA SkipInv ==
  ASSUME Inv, NEW j \in Jobs, WorkerSkip(j)
  PROVE  Inv'
<1> USE DEF Inv
<1>1. TypeOK'
  BY ThreadType DEF WorkerSkip, Known, TypeOK, JobRecord, ProgramPoints, Idle, Activities
<1>2. ThreadsKnow'
  BY ThreadType DEF WorkerSkip, Known, ThreadsKnow, ThreadKnows, JobsOrdered,
     JobOrder, TypeOK, JobRecord, Finishing, Unswept, Idle
<1>3. JobsOrdered'
  BY ThreadType DEF WorkerSkip, Known, ThreadsKnow, ThreadKnows, JobsOrdered,
     JobOrder, TypeOK, JobRecord, Finishing
<1>4. LoggedFailureDirties'
  BY ThreadType DEF WorkerSkip, Known, LoggedFailureDirties, ThreadsKnow, ThreadKnows,
     JobsOrdered, JobOrder, Unswept, TypeOK, JobRecord, Finishing
<1> QED
  BY <1>1, <1>2, <1>3, <1>4

\* The next-state relation, one action at a time.
LEMMA StepInv == Inv /\ [Next]_vars => Inv'
<1> SUFFICES ASSUME Inv, [Next]_vars PROVE Inv'
  OBVIOUS
<1>1. ASSUME NEW t \in Clients, NEW j \in Jobs, NEW f \in BOOLEAN, create_job(t, j, f)
      PROVE  Inv'
  BY <1>1, CreateInv
<1>2. ASSUME NEW t \in Clients, NEW j \in Jobs, ClientPoll(t, j)
      PROVE  Inv'
  BY <1>2, GetJobInv DEF ClientPoll, Threads
<1>3. ASSUME NEW t \in Clients, PutJob(t) \/ EmitCreated(t)
      PROVE  Inv'
  BY <1>3, PutInv, EmitCreatedInv DEF Threads
<1>4. ASSUME NEW t \in Clients, clean_machine(t)
      PROVE  Inv'
  BY <1>4, CleanInv DEF Threads
<1>5. ASSUME NEW t \in Threads, GetJobStep(t)
      PROVE  Inv'
  BY <1>5, ReadEventsInv, EmitProcessInv, CheckFinishedInv, EmitFinishInv,
     SetDirtyInv, SetFinishedInv DEF GetJobStep
<1>6. ASSUME NEW j \in Jobs, Elapse(j)
      PROVE  Inv'
  BY <1>6, ElapseInv
<1>7. CASE WorkerRound
  BY <1>7, RoundInv
<1>8. ASSUME NEW j \in Jobs, WorkerSkip(j) \/ WorkerPoll(j)
      PROVE  Inv'
  BY <1>8, SkipInv, GetJobInv DEF WorkerPoll, Threads
<1>9. CASE UNCHANGED vars
  BY <1>9 DEF vars, Inv, TypeOK, ThreadsKnow, ThreadKnows, JobsOrdered, JobOrder,
     LoggedFailureDirties, Unswept
<1> QED
  BY <1>1, <1>2, <1>3, <1>4, <1>5, <1>6, <1>7, <1>8, <1>9 DEF Next, run_worker

\* The inductive invariant holds in every state of the service.
THEOREM Invariance == Spec => []Inv
  BY InitInv, StepInv, PTL DEF Spec

\* state.py keeps its data well formed whatever the threads do.
THEOREM TypeCorrect == Spec => []TypeOK
<1>1. Inv => TypeOK
  BY DEF Inv
<1> QED
  BY <1>1, Invariance, PTL

\* A logged failure leaves the machine dirty until it is cleaned, for any
\* number of racing pollers.
THEOREM FailureDirties == Spec => []LoggedFailureDirties
<1>1. Inv => LoggedFailureDirties
  BY DEF Inv
<1> QED
  BY <1>1, Invariance, PTL

\* No poll returns the end of a brew before its event is logged.
THEOREM EmissionFirst == Spec => []ToldAfterEmitted
<1>1. Inv => ToldAfterEmitted
  BY DEF Inv, TypeOK, JobsOrdered, JobOrder, ToldAfterEmitted
<1> QED
  BY <1>1, Invariance, PTL

-----------------------------------------------------------------------------
(* Every step moves the machine of BrewMachine or leaves it alone.         *)

\* The steps that touch nothing a client can be promised.
LEMMA QuietSteps ==
  ASSUME Inv, Next,
         ~\E t \in Clients, j \in Jobs, f \in BOOLEAN : create_job(t, j, f),
         ~\E t \in Clients : PutJob(t) \/ clean_machine(t),
         ~\E t \in Threads : SetDirty(t) \/ SetFinished(t),
         ~\E j \in Jobs : Elapse(j)
  PROVE  UNCHANGED <<jobs, machine_dirty, swept>>
  BY DEF Next, run_worker, GetJobStep, ClientPoll, EmitCreated, ReadEvents,
     EmitProcess, CheckFinished, EmitFinish, WorkerRound, WorkerSkip, WorkerPoll,
     get_job

\* A job is built by create_job and by nothing else.
LEMMA OnlyCreateMakes ==
  ASSUME Inv, Next, NEW i \in Jobs,
         ~\E t \in Clients, f \in BOOLEAN : create_job(t, i, f)
  PROVE  jobs'[i].made = jobs[i].made
<1> jobs \in [Jobs -> JobRecord]
  BY DEF Inv, TypeOK
<1>1. CASE \E t \in Clients, j \in Jobs, f \in BOOLEAN : create_job(t, j, f)
  <2> PICK t \in Clients, j \in Jobs, f \in BOOLEAN : create_job(t, j, f)
    BY <1>1
  <2> i # j
    OBVIOUS
  <2> QED
    BY DEF create_job
<1>2. CASE \E t \in Clients : PutJob(t)
  BY <1>2 DEF PutJob, JobRecord
<1>3. CASE \E t \in Threads : SetFinished(t)
  BY <1>3 DEF SetFinished, JobRecord
<1>4. CASE \E j \in Jobs : Elapse(j)
  BY <1>4 DEF Elapse, JobRecord
<1>5. CASE \E t \in Clients : clean_machine(t)
  BY <1>5 DEF clean_machine
<1>6. CASE \E t \in Threads : SetDirty(t)
  BY <1>6 DEF SetDirty
<1> QED
  BY <1>1, <1>2, <1>3, <1>4, <1>5, <1>6, QuietSteps

\* A retry whose failure was told, with no cleaning since, comes out contaminated.
THEOREM UncleanRetry == Spec => UncleanRetryContaminates
<1> DEFINE Tainted == \A j \in Jobs :
              (~jobs[j].made /\ jobs'[j].made /\ ~jobs'[j].will_fail
                 /\ told \cap Unswept # {}) => jobs'[j].contaminated
<1>1. Inv /\ [Next]_vars => [Tainted]_vars
  <2> SUFFICES ASSUME Inv, Next, NEW i \in Jobs,
                      ~jobs[i].made, jobs'[i].made, ~jobs'[i].will_fail,
                      told \cap Unswept # {}
               PROVE  jobs'[i].contaminated
    OBVIOUS
  <2>1. machine_dirty
    BY DEF Inv, TypeOK, JobsOrdered, JobOrder, LoggedFailureDirties, Unswept
  <2>2. PICK t \in Clients, f \in BOOLEAN : create_job(t, i, f)
    BY OnlyCreateMakes, Zenon
  <2>3. jobs'[i].will_fail = f
    BY <2>2 DEF create_job, Inv, TypeOK
  <2>4. jobs'[i].contaminated = (machine_dirty /\ ~f)
    BY <2>2 DEF create_job, Inv, TypeOK
  <2>5. ~f
    BY <2>3, Zenon
  <2> QED
    BY <2>1, <2>4, <2>5, Zenon
<1> QED
  BY <1>1, Invariance, PTL DEF Spec, UncleanRetryContaminates

\* A step that leaves the records, the flag and the history of cleanings alone
\* leaves the promised machine alone.
LEMMA Stutters ==
  ASSUME UNCHANGED <<jobs, machine_dirty, swept>>
  PROVE  UNCHANGED Promise!machineVars
  BY DEF Promise!machineVars, Made, Known

\* Unswept failures are what BrewMachine calls the spoilers.
LEMMA UnsweptSpoils == Inv => Unswept = Promise!Spoilers
  BY DEF Inv, JobsOrdered, JobOrder, Unswept, Promise!Spoilers, Made

\* create_job is Accept once the record is built.
LEMMA CreateAccepts ==
  ASSUME Inv, NEW t \in Clients, NEW j \in Jobs, NEW f \in BOOLEAN,
         create_job(t, j, f)
  PROVE  Promise!Accept(j, f)
<1> jobs \in [Jobs -> JobRecord] /\ machine_dirty \in BOOLEAN
  BY DEF Inv, TypeOK
<1>1. /\ jobs'[j].made /\ jobs'[j].will_fail = f
      /\ jobs'[j].contaminated = (machine_dirty /\ ~f)
      /\ ~jobs'[j].over /\ ~jobs'[j].logged_finished
      /\ ~jobs[j].made
  BY DEF create_job
<1>2. \A i \in Jobs \ {j} : jobs'[i] = jobs[i]
  BY DEF create_job
<1>3. j \notin Made /\ Made' = Made \cup {j}
  BY <1>1, <1>2 DEF Made
<1>4. {i \in Made : jobs[i].will_fail}' = IF f THEN {i \in Made : jobs[i].will_fail} \cup {j}
                                          ELSE {i \in Made : jobs[i].will_fail}
  BY <1>1, <1>2, <1>3 DEF Made
<1>5. {i \in Made : jobs[i].contaminated}' =
         IF machine_dirty /\ ~f THEN {i \in Made : jobs[i].contaminated} \cup {j}
                                ELSE {i \in Made : jobs[i].contaminated}
  BY <1>1, <1>2, <1>3 DEF Made
<1>6. /\ {i \in Made : jobs[i].over}' = {i \in Made : jobs[i].over}
      /\ {i \in Made : jobs[i].logged_finished}' = {i \in Made : jobs[i].logged_finished}
  BY <1>1, <1>2, <1>3 DEF Made
<1>7. UNCHANGED <<machine_dirty, swept>>
  BY DEF create_job
<1> QED
  BY <1>3, <1>4, <1>5, <1>6, <1>7 DEF Promise!Accept

\* The passing of the brewing time is Expire.
LEMMA ElapseExpires ==
  ASSUME Inv, NEW j \in Jobs, Elapse(j)
  PROVE  Promise!Expire(j)
<1> jobs \in [Jobs -> JobRecord]
  BY DEF Inv, TypeOK
<1>1. /\ jobs[j].made /\ ~jobs[j].over /\ jobs'[j].over
      /\ jobs'[j].made = jobs[j].made /\ jobs'[j].will_fail = jobs[j].will_fail
      /\ jobs'[j].contaminated = jobs[j].contaminated
      /\ jobs'[j].logged_finished = jobs[j].logged_finished
  BY DEF Elapse, JobRecord
<1>2. \A i \in Jobs \ {j} : jobs'[i] = jobs[i]
  BY DEF Elapse
<1>3. UNCHANGED <<machine_dirty, swept>>
  BY DEF Elapse
<1> QED
  BY <1>1, <1>2, <1>3 DEF Promise!Expire, Made

\* Marking a job is Report: the soil of an unswept failure shows by then.
LEMMA SetFinishedReports ==
  ASSUME Inv, NEW t \in Threads, NEW j \in Jobs, j = thread[t].job, SetFinished(t)
  PROVE  Promise!Report(j)
<1> jobs \in [Jobs -> JobRecord]
  BY DEF Inv, TypeOK
<1>1. /\ jobs'[j].logged_finished /\ jobs'[j].over = jobs[j].over
      /\ jobs'[j].made = jobs[j].made /\ jobs'[j].will_fail = jobs[j].will_fail
      /\ jobs'[j].contaminated = jobs[j].contaminated
  BY DEF SetFinished, JobRecord
<1>2. \A i \in Jobs \ {j} : jobs'[i] = jobs[i]
  BY DEF SetFinished
<1>3. UNCHANGED <<machine_dirty, swept>>
  BY DEF SetFinished
<1>4. jobs[j].made /\ jobs[j].over /\ (j \in Unswept => machine_dirty)
  BY DEF SetFinished, At, Inv, ThreadsKnow, ThreadKnows, Finishing
<1>5. j \in Promise!Spoilers => machine_dirty
  BY <1>4, UnsweptSpoils
<1>6. j \in {i \in Made : jobs[i].over}
  BY <1>4 DEF Made
<1>7. {i \in Made : jobs[i].logged_finished}' = {i \in Made : jobs[i].logged_finished} \cup {j}
  BY <1>1, <1>2, <1>4 DEF Made
<1>8. /\ Made' = Made
      /\ {i \in Made : jobs[i].will_fail}' = {i \in Made : jobs[i].will_fail}
      /\ {i \in Made : jobs[i].contaminated}' = {i \in Made : jobs[i].contaminated}
      /\ {i \in Made : jobs[i].over}' = {i \in Made : jobs[i].over}
  BY <1>1, <1>2 DEF Made
<1> QED
  BY <1>3, <1>5, <1>6, <1>7, <1>8 DEF Promise!Report

\* Setting the flag is Soil.
LEMMA SetDirtySoils ==
  ASSUME Inv, NEW t \in Threads, SetDirty(t)
  PROVE  Promise!Soil
<1>1. thread[t].job \in {i \in Made : jobs[i].will_fail} \cap {i \in Made : jobs[i].over}
  BY ThreadType DEF SetDirty, At, Inv, ThreadsKnow, ThreadKnows, Finishing, Made
<1> QED
  BY <1>1 DEF SetDirty, Promise!Soil, Made

\* clean_machine is Clean.
LEMMA CleanCleans ==
  ASSUME Inv, NEW t \in Clients, clean_machine(t)
  PROVE  Promise!Clean
  BY UnsweptSpoils DEF clean_machine, Promise!Clean, Made

\* Publishing the record changes nothing the promise speaks of.
LEMMA PutStutters ==
  ASSUME Inv, NEW t \in Clients, PutJob(t)
  PROVE  UNCHANGED Promise!machineVars
<1> DEFINE j == thread[t].job
<1> jobs \in [Jobs -> JobRecord] /\ j \in Jobs
  BY ThreadType DEF Inv, TypeOK, PutJob, At, Threads
<1>1. \A i \in Jobs : /\ jobs'[i].made = jobs[i].made
                      /\ jobs'[i].will_fail = jobs[i].will_fail
                      /\ jobs'[i].contaminated = jobs[i].contaminated
                      /\ jobs'[i].over = jobs[i].over
                      /\ jobs'[i].logged_finished = jobs[i].logged_finished
  BY DEF PutJob, JobRecord
<1>2. UNCHANGED <<machine_dirty, swept>>
  BY DEF PutJob
<1> QED
  BY <1>1, <1>2 DEF Promise!machineVars, Made

\* The service, with all its racing threads, implements the atomic machine of
\* BrewMachine, on which the ordering of soil and report rests.
THEOREM Implementation == Spec => ImplementsPromise
<1>1. Init => Promise!MachineInit
  BY DEF Init, Promise!MachineInit, Made
<1>2. Inv /\ [Next]_vars => [Promise!MachineNext]_(Promise!machineVars)
  <2> SUFFICES ASSUME Inv, [Next]_vars
               PROVE  [Promise!MachineNext]_(Promise!machineVars)
    OBVIOUS
  <2>1. CASE UNCHANGED vars
    BY <2>1, Stutters DEF vars
  <2>2. ASSUME NEW t \in Clients, NEW j \in Jobs, NEW f \in BOOLEAN, create_job(t, j, f)
        PROVE  Promise!MachineNext
    BY <2>2, CreateAccepts DEF Promise!MachineNext
  <2>3. ASSUME NEW j \in Jobs, Elapse(j)
        PROVE  Promise!MachineNext
    BY <2>3, ElapseExpires DEF Promise!MachineNext, Promise!MachineStep
  <2>4. ASSUME NEW t \in Threads, SetFinished(t)
        PROVE  Promise!MachineNext
    <3>1. PICK j \in Jobs : j = thread[t].job
      BY <2>4, ThreadType DEF SetFinished, At, Inv
    <3>2. Promise!Report(j)
      BY <2>4, <3>1, SetFinishedReports
    <3> QED
      BY <3>2 DEF Promise!MachineNext, Promise!MachineStep
  <2>5. ASSUME NEW t \in Threads, SetDirty(t)
        PROVE  Promise!MachineNext
    BY <2>5, SetDirtySoils DEF Promise!MachineNext
  <2>6. ASSUME NEW t \in Clients, clean_machine(t)
        PROVE  Promise!MachineNext
    BY <2>6, CleanCleans DEF Promise!MachineNext
  <2>7. ASSUME NEW t \in Clients, PutJob(t)
        PROVE  UNCHANGED Promise!machineVars
    BY <2>7, PutStutters
  <2> QED
    BY <2>1, <2>2, <2>3, <2>4, <2>5, <2>6, <2>7, QuietSteps, Stutters
<1> QED
  BY <1>1, <1>2, Invariance, PTL DEF Spec, ImplementsPromise, Promise!MachineSpec
=============================================================================
