--------------------------- MODULE ExperimentProofs ---------------------------
(***************************************************************************)
(* Proofs about Experiment, for every grid, quota, store of earlier        *)
(* sessions and number of faults.                                          *)
(***************************************************************************)
EXTENDS Experiment, TLAPS

\* Between the query before an attempt and the one after it.
Measuring == driver.pc \in {"spawn", "run", "after"}

\* What the process still may add to its cell.
Owed(a) == sims[a].left + IF sims[a].talk = "silent" THEN 1 ELSE 0

\* The process the driver waits for works on the driver's cell, and, if no
\* process outlived its driver, no other one is alive.
Watch ==
    /\ At("run") => sims[driver.attempt].cell = driver.cell
    /\ ~Happened({"orphan"}) => \A a \in DOMAIN sims : Watched(a)

\* The cell in flight may hold more than the ledger says, by what the store
\* gained since it was asked; the others do not.
Overruns ==
    ~Happened({"orphan", "uncounted", "blind_after"}) =>
        /\ \A c \in Cells : tagged[c] <= Quota
        /\ \A c \in Cells : (driver.pc \in {"run", "after", "save"} => c # driver.cell)
                                => tagged[c] <= DoneBefore(c)
        /\ Measuring => tagged[driver.cell] - DoneBefore(driver.cell)
                            <= sessions - driver.before
        /\ At("run") => tagged[driver.cell] + Owed(driver.attempt) <= Quota
        /\ At("save") => tagged[driver.cell] <= driver.conversations

\* The ledger promises no more than the store holds, and what the store gained
\* since it was asked went to the cell in flight.
Promises ==
    ~Happened({"orphan", "blind_before"}) =>
        /\ \A c \in Cells : /\ DoneBefore(c) <= tagged[c]
                            /\ ledger[c].status = "done" => tagged[c] >= Quota
        /\ Measuring => sessions - driver.before
                            <= tagged[driver.cell] - DoneBefore(driver.cell)
        /\ At("save") => /\ driver.conversations <= tagged[driver.cell]
                         /\ driver.status = "done" => driver.conversations >= Quota

\* From the wipe to the start of the process nobody has used the order store,
\* from its start to the first conversation nobody the machine; then only that
\* process.
Alone ==
    ~Happened({"orphan", "stale_machine"}) =>
        /\ ~mixed
        /\ driver.pc \in {"stop", "start", "before", "spawn"} => db = {}
        /\ At("start") => ~machine.up
        /\ driver.pc \in {"before", "spawn"} => machine.used = {}
        /\ At("run") => /\ db \subseteq {driver.attempt}
                        /\ machine.used \subseteq {driver.attempt}

\* The inductive invariant.  The properties look at MLflow and the ledger; they
\* are kept because of what the driver has read and not yet written, which the
\* last three conjuncts add.
Inv == TypeOK /\ Watch /\ Overruns /\ Promises /\ Alone

-----------------------------------------------------------------------------
(* The steps, by what they do to the processes *)

\* The steps of the driver that leave the processes alone.
DriverElsewhere ==
    \/ \E b \in BOOLEAN : Launch(b)
    \/ SkipCell \/ WipeDb \/ StopBefore \/ StartMachine \/ StatsBefore \/ StatsAfter
    \/ SaveLedger \/ Finish \/ StartFails \/ InterruptSetUp \/ DriverDies

\* After them the driver waits for no process.  Before them it did, if it dies
\* and leaves that one behind.
LEMMA Elsewhere ==
  ASSUME TypeOK, DriverElsewhere
  PROVE  /\ sims' = sims
         /\ driver'.pc # "run"
         /\ driver.pc = "run" => "orphan" \in wrong'
<1> USE DEF DriverElsewhere, TypeOK, DriverType
<1>1. sims' = sims
  BY DEF Launch, SkipCell, WipeDb, StopBefore, StartMachine, StatsBefore, StatsAfter,
     SaveLedger, Finish, StartFails, InterruptSetUp, DriverDies
<1>2. driver'.pc # "run"
  <2>1. CASE \E b \in BOOLEAN : Launch(b)
    <3>1. PICK b \in BOOLEAN : driver' = [Off EXCEPT !.pc = "top", !.stop_on_error = b]
      BY <2>1 DEF Launch
    <3> QED
      BY <3>1 DEF Off
  <2>2. CASE SkipCell \/ WipeDb \/ StopBefore \/ StartMachine \/ InterruptSetUp
    BY <2>2 DEF SkipCell, WipeDb, StopBefore, StartMachine, InterruptSetUp, StopMachine, Goto, At
  <2>3. CASE StatsBefore \/ StatsAfter \/ SaveLedger
    BY <2>3 DEF StatsBefore, StatsAfter, SaveLedger, Off
  <2>4. CASE Finish \/ StartFails \/ DriverDies
    BY <2>4 DEF Finish, StartFails, DriverDies, StopMachine, Off
  <2> QED
    BY <2>1, <2>2, <2>3, <2>4
<1>3. driver.pc = "run" => "orphan" \in wrong'
  <2>1. CASE DriverDies
    BY <2>1 DEF DriverDies, Fault, At
  <2>2. CASE ~DriverDies
    BY <2>2 DEF Launch, SkipCell, WipeDb, StopBefore, StartMachine, StatsBefore, StatsAfter,
       SaveLedger, Finish, StartFails, InterruptSetUp, At
  <2> QED
    BY <2>1, <2>2
<1> QED
  BY <1>1, <1>2, <1>3

\* The steps of a process within its conversations.
Talks(a) ==
    BeginConversation(a) \/ Turn(a) \/ EndConversation(a) \/ ConversationDies(a)

\* They change that process alone, and never its cell.
LEMMA TalkStep ==
  ASSUME TypeOK, NEW a \in DOMAIN sims, Talks(a)
  PROVE  /\ DOMAIN sims' = DOMAIN sims
         /\ \A b \in DOMAIN sims : sims'[b].cell = sims[b].cell
         /\ \A b \in DOMAIN sims \ {a} : sims'[b] = sims[b]
         /\ UNCHANGED <<driver, ledger, wrong>>
<1>1. sims \in [DOMAIN sims -> SimulationType]
  BY DEF TypeOK
<1>2. \/ sims' = [sims EXCEPT ![a].talk = "tagged"]
      \/ sims' = [sims EXCEPT ![a].talk = "none"]
      \/ sims' = [sims EXCEPT ![a].left = @ - 1, ![a].talk = "silent"]
  BY DEF Talks, BeginConversation, Turn, EndConversation, ConversationDies
<1>3. DOMAIN sims' = DOMAIN sims /\ \A b \in DOMAIN sims \ {a} : sims'[b] = sims[b]
  BY <1>1, <1>2
<1>4. sims'[a].cell = sims[a].cell
  BY <1>1, <1>2 DEF SimulationType
<1>5. UNCHANGED <<driver, ledger, wrong>>
  BY DEF Talks, BeginConversation, Turn, EndConversation, ConversationDies, NoFault
<1> QED
  BY <1>3, <1>4, <1>5

\* The steps that end a process.
Exits(a) ==
    \/ SimulationEnds(a) \/ SimulationFails(a)
    \/ InterruptRun /\ a = driver.attempt

\* They leave the others alone, and the driver that waited for it moves on.
LEMMA ExitStep ==
  ASSUME TypeOK, NEW a \in DOMAIN sims, Exits(a)
  PROVE  /\ DOMAIN sims' = DOMAIN sims \ {a}
         /\ \A b \in DOMAIN sims \ {a} : sims'[b] = sims[b]
         /\ \/ ~Watched(a) /\ driver' = driver
            \/ /\ Watched(a) /\ driver'.pc = "after"
               /\ driver'.cell = driver.cell /\ driver'.before = driver.before
         /\ UNCHANGED <<ledger, wrong>>
<1>1. PICK status \in {"done", "failed", "interrupted"} : ExitAs(a, status)
  BY DEF Exits, SimulationEnds, SimulationFails, InterruptRun
<1>2. UNCHANGED <<ledger, wrong>>
  BY DEF Exits, SimulationEnds, SimulationFails, InterruptRun, NoFault, Fault
<1>3. CASE Watched(a)
  <2>1. driver' = [driver EXCEPT !.pc = "after", !.status = status] /\ driver \in DriverType
    BY <1>1, <1>3 DEF ExitAs, TypeOK
  <2>2. driver'.pc = "after" /\ driver'.cell = driver.cell /\ driver'.before = driver.before
    BY <2>1 DEF DriverType
  <2> QED
    BY <1>1, <1>2, <1>3, <2>2 DEF ExitAs, Gone
<1> QED
  BY <1>1, <1>2, <1>3 DEF ExitAs, Gone

\* Every step is one of these, or starts a process.
LEMMA StepKinds ==
  ASSUME TypeOK, Next
  PROVE  \/ DriverElsewhere \/ RunCell
         \/ \E a \in DOMAIN sims : Talks(a) \/ Exits(a)
<1>1. CASE InterruptRun
  BY <1>1 DEF InterruptRun, TypeOK, Exits
<1>2. CASE ~InterruptRun
  BY <1>2 DEF Next, Drive, Simulate, DriverElsewhere, Talks, Exits
<1> QED
  BY <1>1, <1>2

\* A process that is started is new, and it is the one the driver waits for.
Started(a) ==
    /\ a \notin DOMAIN sims \cup db \cup machine.used
    /\ DOMAIN sims' = DOMAIN sims \cup {a}
    /\ sims'[a] = Simulation(driver.cell, Outstanding(driver.cell))
    /\ \A b \in DOMAIN sims : sims'[b] = sims[b]
    /\ driver.pc = "spawn" /\ driver.cell \in Cells
    /\ driver'.pc = "run" /\ driver'.attempt = a
    /\ driver'.cell = driver.cell /\ driver'.before = driver.before
    /\ UNCHANGED <<ledger, mlflow, db, machine, mixed, wrong>>

\* RunCell starts one.
LEMMA RunStep ==
  ASSUME TypeOK, RunCell
  PROVE  \E a \in Attempts : Started(a)
<1>1. NewProcess \in Attempts \ (DOMAIN sims \cup db \cup machine.used)
  BY DEF RunCell, NewProcess, NewNames
<1>2. driver' = [driver EXCEPT !.attempt = NewProcess, !.pc = "run"] /\ driver \in DriverType
  BY DEF RunCell, TypeOK
<1>3. /\ driver'.pc = "run" /\ driver'.attempt = NewProcess
      /\ driver'.cell = driver.cell /\ driver'.before = driver.before
  BY <1>2 DEF DriverType
<1> QED
  BY <1>1, <1>3 DEF Started, RunCell, At, NoFault, TypeOK

-----------------------------------------------------------------------------
(* TypeOK *)

\* A driver that is not running is one that has no cell yet.
LEMMA OffTyped == Off \in DriverType /\ Off.cell \in 1..NCells
  BY BoundsAssumption DEF Off, DriverType, Statuses

\* The driver keeps its shape, at each of its steps.
LEMMA DriverTyped ==
  ASSUME TypeOK, Next
  PROVE  driver' \in DriverType /\ (~At("top") => driver.cell \in Cells)'
<1> DEFINE Typed == driver' \in DriverType /\ (driver'.pc # "top" => driver'.cell \in 1..NCells)
<1>1. /\ NCells \in Nat \ {0} /\ Quota \in Nat /\ sessions \in Nat
      /\ driver \in DriverType /\ (driver.pc # "top" => driver.cell \in 1..NCells)
  BY BoundsAssumption DEF TypeOK, Cells, At
<1> SUFFICES Typed
  BY DEF At, Cells
<1>2. ASSUME NEW b \in BOOLEAN, Launch(b) PROVE Typed
  <2>1. driver' = [Off EXCEPT !.pc = "top", !.stop_on_error = b]
    BY <1>2 DEF Launch
  <2> QED
    BY <1>1, <2>1, OffTyped DEF DriverType
<1>3. CASE SkipCell
  <2>1. driver' = [driver EXCEPT !.cell = @ + 1] /\ driver.pc = "top" /\ driver.cell \in 1..NCells
    BY <1>3 DEF SkipCell, At, Cells
  <2> QED
    BY <1>1, <2>1 DEF DriverType
<1>4. CASE WipeDb
  <2>1. driver' = [driver EXCEPT !.pc = "stop"] /\ driver.cell \in 1..NCells
    BY <1>4 DEF WipeDb, At, Goto, Cells
  <2> QED
    BY <1>1, <2>1 DEF DriverType
<1>5. CASE StopBefore \/ StartMachine \/ InterruptSetUp
  <2>1. \E pc \in {"start", "before", "finish"} : driver' = [driver EXCEPT !.pc = pc]
    BY <1>5 DEF StopBefore, StopMachine, StartMachine, InterruptSetUp, Goto
  <2>2. driver.pc # "top"
    BY <1>5 DEF StopBefore, StartMachine, InterruptSetUp, At
  <2>3. PICK pc \in {"start", "before", "finish"} : driver' = [driver EXCEPT !.pc = pc]
    BY <2>1
  <2> QED
    BY <1>1, <2>2, <2>3 DEF DriverType
<1>6. CASE StatsBefore
  <2>1. PICK n \in {0, sessions} : driver' = [driver EXCEPT !.before = n, !.pc = "spawn"]
    BY <1>6 DEF StatsBefore
  <2>2. n \in Nat /\ driver.pc = "before"
    BY <1>1, <1>6 DEF StatsBefore, At
  <2> QED
    BY <1>1, <2>1, <2>2 DEF DriverType
<1>7. CASE RunCell
  <2>1. driver.pc = "spawn"
        /\ \E a \in Attempts : driver' = [driver EXCEPT !.attempt = a, !.pc = "run"]
    BY <1>7 DEF RunCell, At, NewProcess, NewNames
  <2> QED
    BY <1>1, <2>1 DEF DriverType
<1>8. CASE StatsAfter
  <2>1. PICK n \in {0, sessions} :
          LET now == DoneBefore(driver.cell) + (n - driver.before)
          IN  driver' = [driver EXCEPT !.conversations = now, !.pc = "save",
                                       !.status = StatusOf(@, now)]
    BY <1>8 DEF StatsAfter
  <2> DEFINE now == DoneBefore(driver.cell) + (n - driver.before)
  <2>2. driver.pc = "after"
    BY <1>8 DEF StatsAfter, At
  <2>3. driver.before \in Int /\ driver.cell \in Cells
    BY <1>1, <2>2 DEF DriverType, Cells
  <2>4. DoneBefore(driver.cell) \in Int
    BY <2>3 DEF DoneBefore, AtLeastZero, TypeOK
  <2>5. now \in Int
    BY <1>1, <2>3, <2>4
  <2>6. StatusOf(driver.status, now) \in Statuses
    BY <1>1 DEF StatusOf, Statuses, DriverType
  <2> HIDE DEF now
  <2>7. driver' = [driver EXCEPT !.conversations = now, !.pc = "save",
                                 !.status = StatusOf(driver.status, now)]
    BY <2>1 DEF now
  <2> QED
    BY <1>1, <2>2, <2>5, <2>6, <2>7 DEF DriverType
<1>9. CASE SaveLedger
  <2>1. driver.pc = "save"
        /\ \/ driver' = [driver EXCEPT !.pc = "finish"]
           \/ driver' = [Off EXCEPT !.pc = "top", !.cell = driver.cell + 1,
                                    !.stop_on_error = driver.stop_on_error]
    BY <1>9 DEF SaveLedger, At
  <2>2. CASE driver' = [driver EXCEPT !.pc = "finish"]
    BY <1>1, <2>1, <2>2 DEF DriverType
  <2>3. CASE driver' = [Off EXCEPT !.pc = "top", !.cell = driver.cell + 1,
                                   !.stop_on_error = driver.stop_on_error]
    <3>1. driver.stop_on_error \in BOOLEAN /\ driver.cell + 1 \in 1..(NCells + 1)
      BY <1>1, <2>1 DEF DriverType
    <3> QED
      BY <1>1, <2>3, <3>1, OffTyped DEF DriverType
  <2> QED
    BY <2>1, <2>2, <2>3
<1>10. CASE Finish \/ StartFails \/ DriverDies
  <2>1. driver' = Off
    BY <1>10 DEF Finish, StopMachine, StartFails, DriverDies
  <2> QED
    BY <1>1, <2>1, OffTyped
<1>11. ASSUME NEW a \in DOMAIN sims,
              BeginConversation(a) \/ Turn(a) \/ EndConversation(a) \/ ConversationDies(a)
       PROVE  Typed
  <2>1. driver' = driver
    BY <1>11 DEF BeginConversation, Turn, EndConversation, ConversationDies
  <2> QED
    BY <1>1, <2>1
<1>12. ASSUME NEW a, NEW status \in Statuses, ExitAs(a, status)
       PROVE  Typed
  <2>1. \/ driver' = driver
        \/ driver.pc = "run" /\ driver' = [driver EXCEPT !.pc = "after", !.status = status]
    BY <1>12 DEF ExitAs, Watched, At
  <2> QED
    BY <1>1, <2>1 DEF DriverType
<1>13. ASSUME NEW a \in DOMAIN sims, SimulationEnds(a) \/ SimulationFails(a)
       PROVE  Typed
  BY <1>13, <1>12 DEF SimulationEnds, SimulationFails, Statuses
<1>14. CASE InterruptRun
  BY <1>14, <1>12 DEF InterruptRun, Statuses
<1> HIDE DEF Typed
<1> QED
  BY <1>2, <1>3, <1>4, <1>5, <1>6, <1>7, <1>8, <1>9, <1>10, <1>11, <1>13, <1>14
     DEF Next, Drive, Simulate

\* The processes keep their shape, and what they use are names of processes.
LEMMA SimsTyped ==
  ASSUME TypeOK, Next
  PROVE  /\ DOMAIN sims' \subseteq Attempts /\ sims' \in [DOMAIN sims' -> SimulationType]
         /\ (At("run") => driver.attempt \in DOMAIN sims)'
<1>1. /\ DOMAIN sims \subseteq Attempts /\ sims \in [DOMAIN sims -> SimulationType]
      /\ driver.pc = "run" => driver.attempt \in DOMAIN sims
  BY DEF TypeOK, At
<1> DEFINE Typed == /\ DOMAIN sims' \subseteq Attempts /\ sims' \in [DOMAIN sims' -> SimulationType]
                    /\ driver'.pc = "run" => driver'.attempt \in DOMAIN sims'
<1> SUFFICES Typed
  BY DEF At
<1>2. CASE RunCell
  <2> DEFINE a == NewProcess
             new == Simulation(driver.cell, Outstanding(driver.cell))
  <2>1. a \in Attempts
    BY <1>2 DEF RunCell, NewProcess, NewNames
  <2>2. driver.cell \in Cells
    BY <1>2 DEF RunCell, TypeOK, At
  <2>3. new \in SimulationType
    BY <2>2, BoundsAssumption DEF Simulation, SimulationType, Outstanding, DoneBefore,
       AtLeastZero, TypeOK
  <2>4. /\ sims' = [b \in DOMAIN sims \cup {a} |-> IF b = a THEN new ELSE sims[b]]
        /\ driver' = [driver EXCEPT !.attempt = a, !.pc = "run"]
    BY <1>2 DEF RunCell
  <2>5. driver'.attempt = a
    BY <2>4 DEF TypeOK, DriverType
  <2> HIDE DEF a, new
  <2> QED
    BY <1>1, <2>1, <2>3, <2>4, <2>5
<1>3. ASSUME NEW a \in DOMAIN sims,
             BeginConversation(a) \/ Turn(a) \/ EndConversation(a) \/ ConversationDies(a)
      PROVE  Typed
  <2>1. sims[a] \in SimulationType
    BY <1>1
  <2>2. \/ sims' = [sims EXCEPT ![a].talk = "tagged"]
        \/ sims' = [sims EXCEPT ![a].talk = "none"]
        \/ sims[a].left > 0 /\ sims' = [sims EXCEPT ![a].left = @ - 1, ![a].talk = "silent"]
    BY <1>3 DEF BeginConversation, Turn, EndConversation, ConversationDies
  <2>3. PICK s \in SimulationType : sims' = [sims EXCEPT ![a] = s]
    <3>1. CASE sims' = [sims EXCEPT ![a].talk = "tagged"]
      BY <2>1, <3>1 DEF SimulationType
    <3>2. CASE sims' = [sims EXCEPT ![a].talk = "none"]
      BY <2>1, <3>2 DEF SimulationType
    <3>3. CASE sims[a].left > 0 /\ sims' = [sims EXCEPT ![a].left = @ - 1, ![a].talk = "silent"]
      <4>1. sims[a].left - 1 \in 0..Quota
        BY <2>1, <3>3, BoundsAssumption DEF SimulationType
      <4>2. sims' = [sims EXCEPT ![a] = [sims[a] EXCEPT !.left = sims[a].left - 1, !.talk = "silent"]]
        BY <3>3
      <4> QED
        BY <2>1, <4>1, <4>2 DEF SimulationType
    <3> QED
      BY <2>2, <3>1, <3>2, <3>3
  <2>4. driver' = driver
    BY <1>3 DEF BeginConversation, Turn, EndConversation, ConversationDies
  <2> QED
    BY <1>1, <2>3, <2>4
<1>4. ASSUME NEW a \in DOMAIN sims, NEW status \in Statuses, ExitAs(a, status)
      PROVE  Typed
  <2>1. sims' = [b \in DOMAIN sims \ {a} |-> sims[b]]
    BY <1>4 DEF ExitAs, Gone
  <2>2. \/ driver' = driver /\ (driver.pc = "run" => driver.attempt # a)
        \/ driver'.pc = "after"
    BY <1>4 DEF ExitAs, Watched, At, TypeOK, DriverType
  <2> QED
    BY <1>1, <2>1, <2>2
<1>5. ASSUME NEW a \in DOMAIN sims, SimulationEnds(a) \/ SimulationFails(a)
      PROVE  Typed
  BY <1>5, <1>4 DEF SimulationEnds, SimulationFails, Statuses
<1>6. CASE InterruptRun
  BY <1>6, <1>4, <1>1 DEF InterruptRun, Statuses, At
<1>7. CASE DriverElsewhere
  BY <1>1, <1>7, Elsewhere DEF DriverElsewhere
<1> HIDE DEF Typed
<1> QED
  BY <1>2, <1>3, <1>5, <1>6, <1>7 DEF Next, Drive, Simulate, DriverElsewhere

\* The ledger and MLflow keep their shape.
LEMMA StoresTyped ==
  ASSUME TypeOK, Next
  PROVE  /\ ledger' \in [Cells -> [status : Statuses, conversations : Int]]
         /\ tagged' \in [Cells -> Nat] /\ sessions' \in Nat /\ cut' \subseteq Cells
<1> DEFINE LedgerTyped == ledger' \in [Cells -> [status : Statuses, conversations : Int]]
           StoreTyped == tagged' \in [Cells -> Nat] /\ sessions' \in Nat
           CutTyped == cut' \subseteq Cells
<1>1. LedgerTyped
  <2>1. CASE SkipCell
    BY <2>1 DEF SkipCell, TypeOK, Statuses
  <2>2. CASE SaveLedger
    BY <2>2 DEF SaveLedger, TypeOK, DriverType, At
  <2>3. CASE ledger' = ledger
    BY <2>3 DEF TypeOK
  <2> QED
    BY <2>1, <2>2, <2>3 DEF Next, Drive, Simulate, Launch, WipeDb, StopBefore, StartMachine,
       StatsBefore, RunCell, StatsAfter, Finish, BeginConversation, Turn, EndConversation,
       ConversationDies, SimulationEnds, SimulationFails, StartFails, InterruptSetUp,
       InterruptRun, DriverDies
<1>2. ASSUME NEW a \in DOMAIN sims PROVE sims[a].cell \in Cells
  BY DEF TypeOK, SimulationType
<1>3. StoreTyped
  <2>1. ASSUME NEW a \in DOMAIN sims, Tag(a) PROVE StoreTyped
    BY <1>2, <2>1 DEF Tag, TypeOK, mlflow
  <2>2. CASE UNCHANGED mlflow
    BY <2>2 DEF TypeOK, mlflow
  <2>3. CASE InterruptRun
    BY <2>1, <2>2, <2>3 DEF InterruptRun, TypeOK
  <2> HIDE DEF StoreTyped
  <2>4. ASSUME NEW a \in DOMAIN sims, Turn(a) PROVE StoreTyped
    BY <2>1, <2>4 DEF Turn
  <2> QED
    BY <2>2, <2>3, <2>4 DEF Next, Drive, Simulate, Launch, SkipCell, WipeDb, StopBefore,
       StartMachine, StatsBefore, RunCell, StatsAfter, SaveLedger, Finish, BeginConversation,
       EndConversation, ConversationDies, SimulationEnds, SimulationFails, StartFails,
       InterruptSetUp, DriverDies
<1>4. CutTyped
  <2>1. ASSUME NEW a \in DOMAIN sims, NEW counted, Cut(a, counted) PROVE CutTyped
    BY <1>2, <2>1 DEF Cut, TypeOK
  <2>2. CASE cut' = cut
    BY <2>2 DEF TypeOK
  <2>3. CASE InterruptRun
    BY <2>1, <2>3 DEF InterruptRun, TypeOK
  <2> HIDE DEF CutTyped
  <2>4. ASSUME NEW a \in DOMAIN sims, ConversationDies(a) \/ SimulationFails(a) PROVE CutTyped
    BY <2>1, <2>4 DEF ConversationDies, SimulationFails
  <2> QED
    BY <2>2, <2>3, <2>4 DEF Next, Drive, Simulate, Launch, SkipCell, WipeDb, StopBefore,
       StartMachine, StatsBefore, RunCell, StatsAfter, SaveLedger, Finish, BeginConversation,
       Turn, EndConversation, SimulationEnds, StartFails, InterruptSetUp, DriverDies
<1> QED
  BY <1>1, <1>3, <1>4

\* So do the order store, the machine and the counters.
LEMMA RestTyped ==
  ASSUME TypeOK, Next
  PROVE  /\ db' \subseteq Attempts
         /\ machine' \in [up : BOOLEAN, used : SUBSET Attempts]
         /\ launches' \in 0..MaxLaunches /\ faults' \in 0..MaxFaults
         /\ wrong' \subseteq FaultKinds /\ mixed' \in BOOLEAN
<1>1. ASSUME NEW kinds \in SUBSET FaultKinds, Fault(kinds)
      PROVE  faults' \in 0..MaxFaults /\ wrong' \subseteq FaultKinds
  BY <1>1, BoundsAssumption DEF Fault, TypeOK
<1>2. ASSUME NoFault \/ (\E kinds \in SUBSET FaultKinds : Fault(kinds))
      PROVE  faults' \in 0..MaxFaults /\ wrong' \subseteq FaultKinds
  BY <1>1, <1>2 DEF NoFault, TypeOK
<1>3. NoFault \/ (\E kinds \in SUBSET FaultKinds : Fault(kinds))
  <2> DEFINE Some == \E kinds \in SUBSET FaultKinds : Fault(kinds)
  <2>1. {} \in SUBSET FaultKinds /\ \A k \in FaultKinds : {k} \in SUBSET FaultKinds
    OBVIOUS
  <2>2. CASE \E a \in DOMAIN sims : SimulationFails(a)
    BY <2>1, <2>2 DEF SimulationFails
  <2>3. CASE StartFails \/ InterruptSetUp \/ InterruptRun
    BY <2>1, <2>3 DEF StartFails, InterruptSetUp, InterruptRun
  <2>4. CASE DriverDies
    <3>1. (CASE At("run") -> {"orphan"} [] driver.pc \in {"after", "save"} -> {"uncounted"}
             [] OTHER -> {}) \in {{"orphan"}, {"uncounted"}, {}}
      OBVIOUS
    <3> QED
      BY <2>1, <2>4, <3>1 DEF DriverDies, FaultKinds
  <2>5. CASE StatsBefore \/ StatsAfter
    BY <2>1, <2>5 DEF StatsBefore, StatsAfter, StatsAre, FaultKinds
  <2>6. CASE StopBefore \/ Finish
    BY <2>1, <2>6 DEF StopBefore, Finish, StopMachine, FaultKinds
  <2> QED
    BY <2>2, <2>3, <2>4, <2>5, <2>6 DEF Next, Drive, Simulate, Launch, SkipCell, WipeDb,
       StartMachine, RunCell, SaveLedger, BeginConversation, Turn, EndConversation,
       ConversationDies, SimulationEnds
<1>4. launches' \in 0..MaxLaunches
  <2>1. CASE \E b \in BOOLEAN : Launch(b)
    BY <2>1, BoundsAssumption DEF Launch, TypeOK
  <2>2. CASE launches' = launches
    BY <2>2 DEF TypeOK
  <2> QED
    BY <2>1, <2>2 DEF Next, Drive, Simulate, SkipCell, WipeDb, StopBefore, StartMachine,
       StatsBefore, RunCell, StatsAfter, SaveLedger, Finish, BeginConversation, Turn,
       EndConversation, ConversationDies, SimulationEnds, SimulationFails, StartFails,
       InterruptSetUp, InterruptRun, DriverDies
<1> DEFINE UseTyped == db' \subseteq Attempts /\ mixed' \in BOOLEAN
                       /\ machine' \in [up : BOOLEAN, used : SUBSET Attempts]
<1>5. UseTyped
  <2>1. ASSUME NEW a \in DOMAIN sims, BeginConversation(a) PROVE UseTyped
    BY <2>1 DEF BeginConversation, TypeOK
  <2>2. CASE StopBefore \/ Finish
    <3>1. machine' \in {machine, Down} /\ db' = db /\ mixed' = mixed
      BY <2>2 DEF StopBefore, Finish, StopMachine
    <3>2. Down \in [up : BOOLEAN, used : SUBSET Attempts]
      BY DEF Down
    <3> QED
      BY <3>1, <3>2 DEF TypeOK
  <2>3. CASE StartMachine \/ WipeDb
    <3>1. machine' \in {machine, [up |-> TRUE, used |-> {}]} /\ db' \in {db, {}} /\ mixed' = mixed
      BY <2>3 DEF StartMachine, WipeDb
    <3>2. [up |-> TRUE, used |-> {}] \in [up : BOOLEAN, used : SUBSET Attempts]
      OBVIOUS
    <3> QED
      BY <3>1, <3>2 DEF TypeOK
  <2>4. CASE UNCHANGED <<db, machine, mixed>>
    BY <2>4 DEF TypeOK
  <2> HIDE DEF UseTyped
  <2> QED
    BY <2>1, <2>2, <2>3, <2>4 DEF Next, Drive, Simulate, Launch, SkipCell, StatsBefore,
       RunCell, StatsAfter, SaveLedger, Turn, EndConversation, ConversationDies,
       SimulationEnds, SimulationFails, StartFails, InterruptSetUp, InterruptRun, DriverDies
<1> QED
  BY <1>2, <1>3, <1>4, <1>5

\* TypeOK is an invariant by itself.
LEMMA TypeInv == TypeOK /\ [Next]_vars => TypeOK'
<1>1. ASSUME TypeOK, Next PROVE TypeOK'
  BY <1>1, DriverTyped, SimsTyped, StoresTyped, RestTyped DEF TypeOK
<1>2. ASSUME TypeOK, UNCHANGED vars PROVE TypeOK'
  BY <1>2 DEF TypeOK, vars, mlflow, At
<1> QED
  BY <1>1, <1>2

-----------------------------------------------------------------------------
(* Watch *)

\* What went wrong stays wrong.
LEMMA Grows == [Next]_vars => wrong \subseteq wrong'
  BY DEF Next, Drive, Simulate, Launch, SkipCell, WipeDb, StopBefore, StopMachine,
     StartMachine, StatsBefore, StatsAre, RunCell, StatsAfter, SaveLedger, Finish,
     BeginConversation, Turn, EndConversation, ConversationDies, SimulationEnds,
     SimulationFails, StartFails, InterruptSetUp, InterruptRun, DriverDies, Fault, NoFault, vars

\* The driver watches what it started, for as long as it lives.
LEMMA WatchInv == TypeOK /\ Watch /\ [Next]_vars => Watch'
<1>1. ASSUME TypeOK, Watch, UNCHANGED vars PROVE Watch'
  BY <1>1 DEF Watch, vars, Watched, At, Happened
<1> SUFFICES ASSUME TypeOK, Watch, Next PROVE Watch'
  BY <1>1
<1>2. wrong \subseteq wrong'
  BY Grows
<1>3. CASE DriverElsewhere
  BY <1>2, <1>3, Elsewhere DEF Watch, Watched, At, Happened
<1>4. CASE RunCell
  <2>1. PICK a \in Attempts : Started(a)
    BY <1>4, RunStep
  <2> QED
    BY <1>2, <2>1 DEF Started, Watch, Watched, At, Happened, Simulation
<1>5. ASSUME NEW a \in DOMAIN sims, Talks(a) PROVE Watch'
  BY <1>5, TalkStep DEF Watch, Watched, At, Happened, TypeOK
<1>6. ASSUME NEW a \in DOMAIN sims, Exits(a) PROVE Watch'
  <2>1. ~Happened({"orphan"})' => \A b \in DOMAIN sims' : Watched(b)'
    BY <1>6, ExitStep DEF Watch, Watched, At, Happened
  <2>2. driver'.pc = "run" => sims'[driver'.attempt].cell = driver'.cell
    BY <1>6, ExitStep DEF Watch, Watched, At, TypeOK
  <2> QED
    BY <2>1, <2>2 DEF Watch, At
<1> QED
  BY <1>3, <1>4, <1>5, <1>6, StepKinds

-----------------------------------------------------------------------------
(* What the steps do to the counts *)

\* One more session of that cell.
Counts(c) == tagged' = [tagged EXCEPT ![c] = @ + 1] /\ sessions' = sessions + 1

\* A process tags no more than it owes.
LEMMA TalkCounts ==
  ASSUME TypeOK, NEW a \in DOMAIN sims, Talks(a)
  PROVE  /\ Owed(a) \in Nat /\ Owed(a)' \in Nat
         /\ \/ UNCHANGED mlflow /\ Owed(a)' <= Owed(a)
            \/ Counts(sims[a].cell) /\ Owed(a)' = Owed(a) - 1
<1>1. sims[a] \in SimulationType /\ sims \in [DOMAIN sims -> SimulationType]
  BY DEF TypeOK
<1>2. sims[a].left \in Nat /\ sims[a].talk \in {"none", "silent", "tagged"}
  BY <1>1, BoundsAssumption DEF SimulationType
<1>3. CASE BeginConversation(a)
  <2>1. /\ sims[a].talk = "none" /\ sims[a].left > 0
        /\ sims' = [sims EXCEPT ![a].left = @ - 1, ![a].talk = "silent"]
        /\ UNCHANGED mlflow
    BY <1>3 DEF BeginConversation, InTalk
  <2>2. sims'[a].left = sims[a].left - 1 /\ sims'[a].talk = "silent"
    BY <1>1, <2>1 DEF SimulationType
  <2> QED
    BY <1>2, <2>1, <2>2 DEF Owed
<1>4. CASE Turn(a)
  <2>1. /\ sims[a].talk = "silent" /\ Counts(sims[a].cell)
        /\ sims' = [sims EXCEPT ![a].talk = "tagged"]
    BY <1>4 DEF Turn, Tag, Counts
  <2>2. sims'[a].left = sims[a].left /\ sims'[a].talk = "tagged"
    BY <1>1, <2>1 DEF SimulationType
  <2> QED
    BY <1>2, <2>1, <2>2 DEF Owed
<1>5. CASE EndConversation(a) \/ ConversationDies(a)
  <2>1. sims' = [sims EXCEPT ![a].talk = "none"] /\ UNCHANGED mlflow
    BY <1>5 DEF EndConversation, ConversationDies
  <2>2. sims'[a].left = sims[a].left /\ sims'[a].talk = "none"
    BY <1>1, <2>1 DEF SimulationType
  <2> QED
    BY <1>2, <2>1, <2>2 DEF Owed
<1> QED
  BY <1>3, <1>4, <1>5 DEF Talks

\* Nor does it when it is interrupted.
LEMMA ExitCounts ==
  ASSUME TypeOK, NEW a \in DOMAIN sims, Exits(a)
  PROVE  /\ Owed(a) \in Nat
         /\ \/ UNCHANGED mlflow
            \/ Owed(a) > 0 /\ Counts(sims[a].cell)
<1>1. sims[a] \in SimulationType
  BY DEF TypeOK
<1>2. sims[a].left \in Nat
  BY <1>1, BoundsAssumption DEF SimulationType
<1>3. CASE SimulationEnds(a) \/ SimulationFails(a)
  BY <1>2, <1>3 DEF SimulationEnds, SimulationFails, Owed
<1>4. CASE InterruptRun /\ a = driver.attempt
  BY <1>2, <1>4 DEF InterruptRun, Tag, Counts, Owed
<1> QED
  BY <1>3, <1>4 DEF Exits

\* What a step does to a cell, or not, said of its numbers.
LEMMA CountsTyped ==
  ASSUME TypeOK, NEW c \in Cells, Counts(c)
  PROVE  /\ tagged'[c] = tagged[c] + 1 /\ sessions' = sessions + 1
         /\ \A b \in Cells \ {c} : tagged'[b] = tagged[b]
  BY DEF TypeOK, Counts

\* The ledger is a lower bound, of no less than zero.
LEMMA DoneBeforeTyped ==
  ASSUME TypeOK, NEW c \in Cells
  PROVE  /\ DoneBefore(c) \in Nat /\ DoneBefore(c) >= ledger[c].conversations
         /\ tagged[c] \in Nat /\ Outstanding(c) \in 0..Quota
         /\ Outstanding(c) > 0 => Outstanding(c) = Quota - DoneBefore(c)
  BY BoundsAssumption DEF TypeOK, DoneBefore, AtLeastZero, Outstanding

\* The steps of the driver that neither read MLflow nor write the ledger.
Quiet ==
    \/ \E b \in BOOLEAN : Launch(b)
    \/ WipeDb \/ StopBefore \/ StartMachine \/ Finish
    \/ StartFails \/ InterruptSetUp \/ DriverDies

\* Nothing is in flight after them, and if it was before, a fault is noted.
LEMMA QuietStep ==
  ASSUME TypeOK, Quiet
  PROVE  /\ UNCHANGED <<ledger, mlflow>>
         /\ driver'.pc \notin {"spawn", "run", "after", "save"}
         /\ driver.pc = "run" => "orphan" \in wrong'
         /\ driver.pc \in {"after", "save"} => "uncounted" \in wrong'
<1> USE DEF Quiet, TypeOK, DriverType
<1>1. UNCHANGED <<ledger, mlflow>>
  BY DEF Launch, WipeDb, StopBefore, StartMachine, Finish, StartFails, InterruptSetUp,
     DriverDies
<1>2. driver'.pc \notin {"spawn", "run", "after", "save"}
  <2>1. CASE \E b \in BOOLEAN : Launch(b)
    <3>1. PICK b \in BOOLEAN : driver' = [Off EXCEPT !.pc = "top", !.stop_on_error = b]
      BY <2>1 DEF Launch
    <3> QED
      BY <3>1 DEF Off
  <2>2. CASE WipeDb \/ StopBefore \/ StartMachine \/ InterruptSetUp
    BY <2>2 DEF WipeDb, StopBefore, StartMachine, InterruptSetUp, StopMachine, Goto
  <2>3. CASE Finish \/ StartFails \/ DriverDies
    BY <2>3 DEF Finish, StartFails, DriverDies, StopMachine, Off
  <2> QED
    BY <2>1, <2>2, <2>3
<1>3. CASE DriverDies
  <2>1. driver.pc = "run" => "orphan" \in wrong'
    BY <1>3 DEF DriverDies, Fault, At
  <2>2. driver.pc \in {"after", "save"} => "uncounted" \in wrong'
    BY <1>3 DEF DriverDies, Fault, At
  <2> QED
    BY <1>1, <1>2, <2>1, <2>2
<1>4. CASE ~DriverDies
  BY <1>1, <1>2, <1>4 DEF Launch, WipeDb, StopBefore, StartMachine, Finish, StartFails,
     InterruptSetUp, At
<1> QED
  BY <1>3, <1>4

\* Before the attempt the store is asked how many sessions it has.
LEMMA BeforeStep ==
  ASSUME TypeOK, StatsBefore
  PROVE  /\ UNCHANGED <<ledger, mlflow>>
         /\ driver.pc = "before" /\ driver'.pc = "spawn" /\ driver'.cell = driver.cell
         /\ \/ driver'.before = sessions
            \/ driver'.before = 0 /\ "blind_before" \in wrong'
<1>1. PICK n \in {0, sessions} :
        StatsAre(n, "blind_before") /\ driver' = [driver EXCEPT !.before = n, !.pc = "spawn"]
  BY DEF StatsBefore
<1>2. driver'.pc = "spawn" /\ driver'.cell = driver.cell /\ driver'.before = n
  BY <1>1 DEF TypeOK, DriverType
<1> QED
  BY <1>1, <1>2 DEF StatsBefore, StatsAre, Fault, At

\* After it, what the store gained is added to what the ledger has.
LEMMA AfterStep ==
  ASSUME TypeOK, StatsAfter
  PROVE  /\ UNCHANGED <<ledger, mlflow>>
         /\ driver.pc = "after" /\ driver'.pc = "save" /\ driver'.cell = driver.cell
         /\ \E n \in {0, sessions} :
               /\ n = sessions \/ "blind_after" \in wrong'
               /\ driver'.conversations = DoneBefore(driver.cell) + (n - driver.before)
         /\ driver'.status = "done" => driver'.conversations >= Quota
<1>1. PICK n \in {0, sessions} :
        /\ StatsAre(n, "blind_after")
        /\ LET now == DoneBefore(driver.cell) + (n - driver.before)
           IN  driver' = [driver EXCEPT !.conversations = now, !.pc = "save",
                                        !.status = StatusOf(@, now)]
  BY DEF StatsAfter
<1> DEFINE now == DoneBefore(driver.cell) + (n - driver.before)
<1>2. driver.pc = "after"
  BY DEF StatsAfter, At
<1>3. now \in Int
  BY <1>1, <1>2, DoneBeforeTyped DEF TypeOK, DriverType, At
<1> HIDE DEF now
<1>4. driver' = [driver EXCEPT !.conversations = now, !.pc = "save",
                               !.status = StatusOf(driver.status, now)]
  BY <1>1 DEF now
<1>5. /\ driver'.pc = "save" /\ driver'.cell = driver.cell /\ driver'.conversations = now
      /\ driver'.status = StatusOf(driver.status, now)
  BY <1>4 DEF TypeOK, DriverType
<1>6. driver'.status = "done" => now >= Quota
  BY <1>3, <1>5, BoundsAssumption DEF StatusOf
<1> QED
  BY <1>1, <1>2, <1>5, <1>6 DEF now, StatsAfter, StatsAre, Fault

\* The ledger gets what the driver has computed.
LEMMA SaveStep ==
  ASSUME TypeOK, SaveLedger
  PROVE  /\ UNCHANGED <<mlflow, wrong>>
         /\ driver.pc = "save" /\ driver'.pc \in {"top", "finish"}
         /\ \A c \in Cells \ {driver.cell} : ledger'[c] = ledger[c]
         /\ ledger'[driver.cell].status = driver.status
         /\ ledger'[driver.cell].conversations = driver.conversations
<1>1. driver.pc = "save" /\ driver.cell \in Cells
  BY DEF SaveLedger, At, TypeOK
<1>2. driver'.pc \in {"top", "finish"}
  BY DEF SaveLedger, TypeOK, DriverType, Off
<1> QED
  BY <1>1, <1>2 DEF SaveLedger, TypeOK, NoFault

\* A cell that owes nothing is called done.
LEMMA SkipStep ==
  ASSUME TypeOK, SkipCell
  PROVE  /\ UNCHANGED <<mlflow, wrong>>
         /\ driver.pc = "top" /\ driver'.pc = "top" /\ driver.cell \in Cells
         /\ Outstanding(driver.cell) = 0
         /\ \A c \in Cells : ledger'[c].conversations = ledger[c].conversations
         /\ \A c \in Cells : c # driver.cell => ledger'[c].status = ledger[c].status
  BY DEF SkipCell, TypeOK, DriverType, At, NoFault

\* Every step is one of these.
LEMMA CountKinds ==
  ASSUME TypeOK, Next
  PROVE  \/ Quiet \/ SkipCell \/ StatsBefore \/ RunCell \/ StatsAfter \/ SaveLedger
         \/ \E a \in DOMAIN sims : Talks(a) \/ Exits(a)
  BY StepKinds DEF DriverElsewhere, Quiet

-----------------------------------------------------------------------------
(* Overruns *)

\* No step makes a cell hold more than its quota.
LEMMA OverrunsInv == TypeOK /\ Watch /\ Overruns /\ [Next]_vars => Overruns'
<1>1. ASSUME Overruns, UNCHANGED vars PROVE Overruns'
  BY <1>1 DEF Overruns, vars, mlflow, At, Happened, Measuring, Owed, DoneBefore
<1> SUFFICES ASSUME TypeOK, Watch, Overruns, Next,
                    ~Happened({"orphan", "uncounted", "blind_after"})'
             PROVE  Overruns'
  BY <1>1 DEF Overruns
<1>. PICK c : c = driver.cell
  OBVIOUS
<1> DEFINE InFlight == driver.pc \in {"run", "after", "save"}
<1>2. /\ wrong \subseteq wrong'
      /\ "orphan" \notin wrong' /\ "uncounted" \notin wrong' /\ "blind_after" \notin wrong'
  BY Grows DEF Happened
<1>3. /\ \A b \in Cells : tagged[b] <= Quota
      /\ \A b \in Cells : (InFlight => b # c) => tagged[b] <= DoneBefore(b)
      /\ Measuring => tagged[c] - DoneBefore(c) <= sessions - driver.before
      /\ At("run") => tagged[c] + Owed(driver.attempt) <= Quota
      /\ At("save") => tagged[c] <= driver.conversations
  BY <1>2 DEF Overruns, Happened
<1>4. /\ \A a \in DOMAIN sims : At("run") /\ a = driver.attempt
      /\ At("run") => sims[driver.attempt].cell = c
  BY <1>2 DEF Watch, Watched, Happened
<1>5. /\ Quota \in Nat /\ sessions \in Nat /\ driver.before \in Nat
      /\ driver.conversations \in Int
      /\ driver.pc # "top" => c \in Cells
  BY BoundsAssumption DEF TypeOK, DriverType, At
<1>6. \A b \in Cells : DoneBefore(b) \in Nat /\ tagged[b] \in Nat
  BY DoneBeforeTyped
<1>7. UNCHANGED ledger => \A b \in Cells : DoneBefore(b)' = DoneBefore(b)
  BY DEF DoneBefore
<1>8. CASE Quiet
  BY <1>2, <1>3, <1>7, <1>8, QuietStep DEF Overruns, At, Measuring, mlflow
<1>9. CASE SkipCell
  <2>1. \A b \in Cells : DoneBefore(b)' = DoneBefore(b)
    BY <1>9, SkipStep DEF DoneBefore
  <2> QED
    BY <1>3, <1>9, <2>1, SkipStep DEF Overruns, At, Measuring, mlflow
<1>10. CASE StatsBefore
  <2>1. tagged[c] - DoneBefore(c) <= 0
    BY <1>3, <1>5, <1>6, <1>10, BeforeStep
  <2>2. 0 <= sessions - driver'.before
    BY <1>5, <1>10, BeforeStep
  <2>3. tagged[c] - DoneBefore(c) <= sessions - driver'.before
    BY <1>5, <1>6, <1>10, <2>1, <2>2, BeforeStep
  <2> QED
    BY <1>3, <1>5, <1>7, <1>10, <2>3, BeforeStep DEF Overruns, At, Measuring, mlflow
<1>11. CASE RunCell
  <2>1. PICK a \in Attempts : Started(a)
    BY <1>11, RunStep
  <2>2. Owed(a)' = Outstanding(c)
    BY <1>5, <2>1, DoneBeforeTyped, BoundsAssumption DEF Started, Owed, Simulation
  <2>3. tagged[c] + Outstanding(c) <= Quota
    BY <1>3, <1>5, <1>6, <2>1, DoneBeforeTyped DEF Started
  <2> QED
    BY <1>3, <1>7, <2>1, <2>2, <2>3 DEF Started, Overruns, At, Measuring, mlflow
<1>12. CASE StatsAfter
  <2>1. driver'.conversations = DoneBefore(c) + (sessions - driver.before)
    BY <1>2, <1>12, AfterStep
  <2>2. tagged[c] <= driver'.conversations
    BY <1>3, <1>5, <1>6, <1>12, <2>1, AfterStep DEF Measuring
  <2> QED
    BY <1>3, <1>7, <1>12, <2>2, AfterStep DEF Overruns, At, Measuring, mlflow
<1>13. CASE SaveLedger
  <2>1. \A b \in Cells \ {c} : DoneBefore(b)' = DoneBefore(b)
    BY <1>13, SaveStep DEF DoneBefore
  <2>2. tagged[c] <= DoneBefore(c)'
    BY <1>3, <1>5, <1>6, <1>13, SaveStep DEF DoneBefore, AtLeastZero, At
  <2> QED
    BY <1>3, <1>13, <2>1, <2>2, SaveStep DEF Overruns, At, Measuring, mlflow
<1>14. ASSUME NEW a \in DOMAIN sims, Talks(a) PROVE Overruns'
  <2>1. a = driver.attempt /\ driver.pc = "run" /\ sims[a].cell = c /\ c \in Cells
    BY <1>4, <1>5 DEF At
  <2>2. UNCHANGED <<driver, ledger>>
    BY <1>14, TalkStep
  <2>3. CASE UNCHANGED mlflow /\ Owed(a)' <= Owed(a)
    <3>1. tagged[c] + Owed(a)' <= Quota
      BY <1>3, <1>5, <1>6, <1>14, <2>1, <2>3, TalkCounts DEF At
    <3> QED
      BY <1>3, <1>7, <2>1, <2>2, <2>3, <3>1 DEF Overruns, At, Measuring, mlflow
  <2>4. CASE Counts(c) /\ Owed(a)' = Owed(a) - 1
    <3>1. /\ tagged'[c] = tagged[c] + 1 /\ sessions' = sessions + 1
          /\ \A b \in Cells \ {c} : tagged'[b] = tagged[b]
      BY <2>1, <2>4, CountsTyped
    <3>2. tagged'[c] + Owed(a)' <= Quota /\ tagged'[c] <= Quota
      BY <1>3, <1>5, <1>6, <1>14, <2>1, <2>4, <3>1, TalkCounts DEF At
    <3>3. tagged'[c] - DoneBefore(c) <= sessions' - driver.before
      BY <1>3, <1>5, <1>6, <2>1, <3>1 DEF Measuring
    <3> QED
      BY <1>3, <1>7, <2>1, <2>2, <3>1, <3>2, <3>3 DEF Overruns, At, Measuring
  <2> QED
    BY <1>14, <2>1, <2>3, <2>4, TalkCounts
<1>15. ASSUME NEW a \in DOMAIN sims, Exits(a) PROVE Overruns'
  <2>1. a = driver.attempt /\ driver.pc = "run" /\ sims[a].cell = c /\ c \in Cells
    BY <1>4, <1>5 DEF At
  <2>2. /\ UNCHANGED ledger /\ driver'.pc = "after"
        /\ driver'.cell = c /\ driver'.before = driver.before
    BY <1>15, <2>1, ExitStep DEF Watched, At
  <2>3. CASE UNCHANGED mlflow
    BY <1>3, <1>7, <2>1, <2>2, <2>3 DEF Overruns, At, Measuring, mlflow
  <2>4. CASE Owed(a) > 0 /\ Counts(c)
    <3>1. /\ tagged'[c] = tagged[c] + 1 /\ sessions' = sessions + 1
          /\ \A b \in Cells \ {c} : tagged'[b] = tagged[b]
      BY <2>1, <2>4, CountsTyped
    <3>2. tagged'[c] <= Quota
      BY <1>3, <1>5, <1>6, <1>15, <2>1, <2>4, <3>1, ExitCounts DEF At
    <3>3. tagged'[c] - DoneBefore(c) <= sessions' - driver.before
      BY <1>3, <1>5, <1>6, <2>1, <3>1 DEF Measuring
    <3> QED
      BY <1>3, <1>7, <2>1, <2>2, <3>1, <3>2, <3>3 DEF Overruns, At, Measuring
  <2> QED
    BY <1>15, <2>1, <2>3, <2>4, ExitCounts
<1> QED
  BY <1>8, <1>9, <1>10, <1>11, <1>12, <1>13, <1>14, <1>15, CountKinds

-----------------------------------------------------------------------------
(* Promises *)

\* No step makes the ledger promise what the store does not hold.
LEMMA PromisesInv == TypeOK /\ Watch /\ Promises /\ [Next]_vars => Promises'
<1>1. ASSUME Promises, UNCHANGED vars PROVE Promises'
  BY <1>1 DEF Promises, vars, mlflow, At, Happened, Measuring, DoneBefore
<1> SUFFICES ASSUME TypeOK, Watch, Promises, Next,
                    ~Happened({"orphan", "blind_before"})'
             PROVE  Promises'
  BY <1>1 DEF Promises
<1>. PICK c : c = driver.cell
  OBVIOUS
<1>2. /\ wrong \subseteq wrong'
      /\ "orphan" \notin wrong' /\ "blind_before" \notin wrong'
  BY Grows DEF Happened
<1>3. /\ \A b \in Cells : /\ DoneBefore(b) <= tagged[b]
                          /\ ledger[b].status = "done" => tagged[b] >= Quota
      /\ Measuring => sessions - driver.before <= tagged[c] - DoneBefore(c)
      /\ At("save") => /\ driver.conversations <= tagged[c]
                       /\ driver.status = "done" => driver.conversations >= Quota
  BY <1>2 DEF Promises, Happened
<1>4. /\ \A a \in DOMAIN sims : At("run") /\ a = driver.attempt
      /\ At("run") => sims[driver.attempt].cell = c
  BY <1>2 DEF Watch, Watched, Happened
<1>5. /\ Quota \in Nat /\ sessions \in Nat /\ driver.before \in Nat
      /\ driver.conversations \in Int
      /\ driver.pc # "top" => c \in Cells
  BY BoundsAssumption DEF TypeOK, DriverType, At
<1>6. \A b \in Cells : DoneBefore(b) \in Nat /\ tagged[b] \in Nat
  BY DoneBeforeTyped
<1>7. UNCHANGED ledger => \A b \in Cells : DoneBefore(b)' = DoneBefore(b)
  BY DEF DoneBefore
<1>8. CASE Quiet
  BY <1>2, <1>3, <1>7, <1>8, QuietStep DEF Promises, At, Measuring, mlflow
<1>9. CASE SkipCell
  <2>1. \A b \in Cells : DoneBefore(b)' = DoneBefore(b)
    BY <1>9, SkipStep DEF DoneBefore
  <2>2. tagged[c] >= Quota
    BY <1>3, <1>5, <1>6, <1>9, SkipStep DEF Outstanding, AtLeastZero
  <2> QED
    BY <1>3, <1>9, <2>1, <2>2, SkipStep DEF Promises, At, Measuring, mlflow
<1>10. CASE StatsBefore
  <2>1. sessions - driver'.before <= tagged[c] - DoneBefore(c)
    BY <1>2, <1>3, <1>5, <1>6, <1>10, BeforeStep
  <2> QED
    BY <1>3, <1>5, <1>7, <1>10, <2>1, BeforeStep DEF Promises, At, Measuring, mlflow
<1>11. CASE RunCell
  <2>1. PICK a \in Attempts : Started(a)
    BY <1>11, RunStep
  <2> QED
    BY <1>3, <1>7, <2>1 DEF Started, Promises, At, Measuring, mlflow
<1>12. CASE StatsAfter
  <2>1. PICK n \in {0, sessions} :
          driver'.conversations = DoneBefore(c) + (n - driver.before)
    BY <1>12, AfterStep
  <2>2. driver'.conversations <= tagged[c]
    BY <1>3, <1>5, <1>6, <1>12, <2>1, AfterStep DEF Measuring
  <2> QED
    BY <1>3, <1>7, <1>12, <2>2, AfterStep DEF Promises, At, Measuring, mlflow
<1>13. CASE SaveLedger
  <2>1. \A b \in Cells \ {c} : DoneBefore(b)' = DoneBefore(b)
    BY <1>13, SaveStep DEF DoneBefore
  <2>2. DoneBefore(c)' <= tagged[c]
    BY <1>3, <1>5, <1>6, <1>13, SaveStep DEF DoneBefore, AtLeastZero, At
  <2>3. driver.status = "done" => tagged[c] >= Quota
    BY <1>3, <1>5, <1>6, <1>13, SaveStep DEF At
  <2> QED
    BY <1>3, <1>13, <2>1, <2>2, <2>3, SaveStep DEF Promises, At, Measuring, mlflow
<1>14. ASSUME NEW a \in DOMAIN sims, Counts(c), UNCHANGED ledger
       PROVE  /\ \A b \in Cells : /\ DoneBefore(b)' <= tagged'[b]
                                  /\ ledger'[b].status = "done" => tagged'[b] >= Quota
              /\ sessions' - driver.before <= tagged'[c] - DoneBefore(c)'
  <2>1. driver.pc = "run" /\ c \in Cells
    BY <1>4, <1>5 DEF At
  <2>2. /\ tagged'[c] = tagged[c] + 1 /\ sessions' = sessions + 1
        /\ \A b \in Cells \ {c} : tagged'[b] = tagged[b]
    BY <1>14, <2>1, CountsTyped
  <2>3. sessions' - driver.before <= tagged'[c] - DoneBefore(c)'
    BY <1>3, <1>5, <1>6, <1>7, <1>14, <2>1, <2>2 DEF Measuring
  <2>4. DoneBefore(c)' <= tagged'[c] /\ (ledger'[c].status = "done" => tagged'[c] >= Quota)
    BY <1>3, <1>5, <1>6, <1>7, <1>14, <2>1, <2>2
  <2> QED
    BY <1>3, <1>7, <1>14, <2>2, <2>3, <2>4
<1>15. ASSUME NEW a \in DOMAIN sims, Talks(a) PROVE Promises'
  <2>1. driver.pc = "run" /\ sims[a].cell = c
    BY <1>4 DEF At
  <2>2. UNCHANGED <<driver, ledger>>
    BY <1>15, TalkStep
  <2>3. CASE UNCHANGED mlflow
    BY <1>3, <1>5, <1>7, <2>1, <2>2, <2>3 DEF Promises, At, Measuring, mlflow
  <2>4. CASE Counts(c)
    BY <1>14, <2>1, <2>2, <2>4 DEF Promises, At, Measuring
  <2> QED
    BY <1>15, <2>1, <2>3, <2>4, TalkCounts
<1>16. ASSUME NEW a \in DOMAIN sims, Exits(a) PROVE Promises'
  <2>1. a = driver.attempt /\ driver.pc = "run" /\ sims[a].cell = c
    BY <1>4 DEF At
  <2>2. /\ UNCHANGED ledger /\ driver'.pc = "after"
        /\ driver'.cell = c /\ driver'.before = driver.before
    BY <1>16, <2>1, ExitStep DEF Watched, At
  <2>3. CASE UNCHANGED mlflow
    BY <1>3, <1>5, <1>7, <2>1, <2>2, <2>3 DEF Promises, At, Measuring, mlflow
  <2>4. CASE Counts(c)
    BY <1>14, <2>2, <2>4 DEF Promises, At, Measuring
  <2> QED
    BY <1>16, <2>1, <2>3, <2>4, ExitCounts
<1> QED
  BY <1>8, <1>9, <1>10, <1>11, <1>12, <1>13, <1>15, <1>16, CountKinds

-----------------------------------------------------------------------------
(* Alone *)

\* No step lets a process in on what another has used.
LEMMA AloneInv == TypeOK /\ Watch /\ Alone /\ [Next]_vars => Alone'
<1>1. ASSUME Alone, UNCHANGED vars PROVE Alone'
  BY <1>1 DEF Alone, vars, At, Happened
<1> SUFFICES ASSUME TypeOK, Watch, Alone, Next,
                    ~Happened({"orphan", "stale_machine"})'
             PROVE  Alone'
  BY <1>1 DEF Alone
<1>2. /\ wrong \subseteq wrong'
      /\ "orphan" \notin wrong' /\ "stale_machine" \notin wrong'
  BY Grows DEF Happened
<1>3. /\ ~mixed
      /\ driver.pc \in {"stop", "start", "before", "spawn"} => db = {}
      /\ driver.pc = "start" => ~machine.up
      /\ driver.pc \in {"before", "spawn"} => machine.used = {}
      /\ driver.pc = "run" => /\ db \subseteq {driver.attempt}
                              /\ machine.used \subseteq {driver.attempt}
  BY <1>2 DEF Alone, Happened, At
<1>4. \A a \in DOMAIN sims : driver.pc = "run" /\ a = driver.attempt
  BY <1>2 DEF Watch, Watched, Happened, At
<1> DEFINE New == /\ ~mixed'
                  /\ driver'.pc \in {"stop", "start", "before", "spawn"} => db' = {}
                  /\ driver'.pc = "start" => ~machine'.up
                  /\ driver'.pc \in {"before", "spawn"} => machine'.used = {}
                  /\ driver'.pc = "run" => /\ db' \subseteq {driver'.attempt}
                                           /\ machine'.used \subseteq {driver'.attempt}
<1> SUFFICES New
  BY DEF Alone, At
<1>5. driver \in DriverType
  BY DEF TypeOK
<1>6. ASSUME NEW b \in BOOLEAN, Launch(b) PROVE New
  <2>1. driver'.pc = "top" /\ UNCHANGED mixed
    BY <1>6 DEF Launch, Off
  <2> QED
    BY <1>3, <2>1
<1>7. CASE SkipCell \/ SaveLedger
  <2>1. driver'.pc \in {"top", "finish"} /\ UNCHANGED mixed
    BY <1>7, SkipStep, SaveStep DEF SkipCell, SaveLedger
  <2> QED
    BY <1>3, <2>1
<1>8. CASE WipeDb
  <2>1. driver'.pc = "stop"
    BY <1>5, <1>8 DEF WipeDb, Goto, DriverType
  <2> QED
    BY <1>3, <1>8, <2>1 DEF WipeDb
<1>9. CASE StopBefore
  <2>1. driver.pc = "stop" /\ driver'.pc = "start"
    BY <1>5, <1>9 DEF StopBefore, StopMachine, DriverType, At
  <2>2. machine' = Down /\ UNCHANGED <<db, mixed>>
    BY <1>2, <1>9 DEF StopBefore, StopMachine, Fault
  <2> QED
    BY <1>3, <2>1, <2>2 DEF Down
<1>10. CASE StartMachine
  <2>1. driver.pc = "start" /\ driver'.pc = "before"
    BY <1>5, <1>10 DEF StartMachine, Goto, DriverType, At
  <2>2. machine' = [up |-> TRUE, used |-> {}] /\ UNCHANGED <<db, mixed>>
    BY <1>3, <1>10, <2>1 DEF StartMachine
  <2> QED
    BY <1>3, <2>1, <2>2
<1>11. CASE StatsBefore
  <2>1. driver.pc = "before" /\ driver'.pc = "spawn" /\ UNCHANGED <<db, machine, mixed>>
    BY <1>11, BeforeStep DEF StatsBefore
  <2> QED
    BY <1>3, <2>1
<1>12. CASE RunCell
  <2>1. PICK a \in Attempts : Started(a)
    BY <1>12, RunStep
  <2> QED
    BY <1>3, <2>1 DEF Started
<1>13. CASE StatsAfter
  <2>1. driver'.pc = "save" /\ UNCHANGED mixed
    BY <1>13, AfterStep DEF StatsAfter
  <2> QED
    BY <1>3, <2>1
<1>14. CASE Finish \/ StartFails \/ DriverDies
  <2>1. driver'.pc = "off" /\ UNCHANGED mixed
    BY <1>14 DEF Finish, StartFails, DriverDies, StopMachine, Off
  <2> QED
    BY <1>3, <2>1
<1>15. CASE InterruptSetUp
  <2>1. driver'.pc = "finish" /\ UNCHANGED mixed
    BY <1>5, <1>15 DEF InterruptSetUp, Goto, DriverType
  <2> QED
    BY <1>3, <2>1
<1>16. ASSUME NEW a \in DOMAIN sims, Talks(a) PROVE New
  <2>1. a = driver.attempt /\ driver.pc = "run" /\ driver' = driver
    BY <1>4, <1>16, TalkStep
  <2>2. CASE BeginConversation(a)
    <3>1. /\ db' = db \cup {a} /\ machine' = [up |-> TRUE, used |-> machine.used \cup {a}]
          /\ mixed' = (mixed \/ db' # {a} \/ machine'.used # {a})
      BY <2>2 DEF BeginConversation
    <3>2. db' = {a} /\ machine'.used = {a}
      BY <1>3, <2>1, <3>1
    <3> QED
      BY <1>3, <2>1, <3>1, <3>2
  <2>3. CASE ~BeginConversation(a)
    <3>1. UNCHANGED <<db, machine, mixed>>
      BY <1>16, <2>3 DEF Talks, Turn, EndConversation, ConversationDies
    <3> QED
      BY <1>3, <2>1, <3>1
  <2> QED
    BY <2>2, <2>3
<1>17. ASSUME NEW a \in DOMAIN sims, Exits(a) PROVE New
  <2>1. driver'.pc = "after"
    BY <1>4, <1>17, ExitStep DEF Watched, At
  <2>2. UNCHANGED mixed
    BY <1>17 DEF Exits, SimulationEnds, SimulationFails, InterruptRun
  <2> QED
    BY <1>3, <2>1, <2>2
<1> HIDE DEF New
<1> QED
  BY <1>6, <1>7, <1>8, <1>9, <1>10, <1>11, <1>12, <1>13, <1>14, <1>15, <1>16, <1>17, StepKinds
     DEF DriverElsewhere

-----------------------------------------------------------------------------
(* The theorems *)

\* An experiment that has not begun.
LEMMA InitInv == Init => Inv
<1> SUFFICES ASSUME Init PROVE Inv
  OBVIOUS
<1> USE BoundsAssumption
<1>1. TypeOK
  <2>1. ledger \in [Cells -> [status : Statuses, conversations : Int]]
    BY DEF Init, NotRun, Statuses
  <2>2. Down \in [up : BOOLEAN, used : SUBSET Attempts]
    BY DEF Down
  <2>3. driver \in DriverType /\ driver.cell \in Cells /\ driver.pc = "off"
    BY OffTyped DEF Init, Cells, Off
  <2>4. DOMAIN sims = {}
    BY DEF Init
  <2>5. sims \in [DOMAIN sims -> SimulationType]
    BY DEF Init
  <2>6. /\ tagged \in [Cells -> Nat] /\ sessions \in Nat
        /\ launches \in 0..MaxLaunches /\ faults \in 0..MaxFaults
    BY DEF Init
  <2>7. cut = {} /\ db = {} /\ machine = Down /\ wrong = {} /\ mixed = FALSE
    BY DEF Init
  <2> QED
    BY <2>1, <2>2, <2>3, <2>4, <2>5, <2>6, <2>7 DEF TypeOK, At
<1>2. driver.pc = "off" /\ DOMAIN sims = {}
  BY DEF Init, Off
<1>3. \A c \in Cells : tagged[c] = 0 /\ DoneBefore(c) = 0 /\ ledger[c].status = "none"
  BY DEF Init, NotRun, DoneBefore, AtLeastZero
<1> QED
  BY <1>1, <1>2, <1>3 DEF Init, Inv, Watch, Overruns, Promises, Alone, At, Measuring

\* Every step keeps the invariant.
LEMMA NextInv == Inv /\ [Next]_vars => Inv'
  BY TypeInv, WatchInv, OverrunsInv, PromisesInv, AloneInv DEF Inv

\* The inductive invariant of an experiment: whatever fails, is interrupted or
\* killed, and however often the driver is started again.
THEOREM Invariance == Spec => []Inv
  BY InitInv, NextInv, PTL DEF Spec

\* The driver waits for a process that is alive, and writes to the ledger
\* numbers and statuses only.
THEOREM TypeCorrect == Spec => []TypeOK
<1>1. Inv => TypeOK
  BY DEF Inv
<1> QED
  BY <1>1, Invariance, PTL

\* A cell that the ledger calls done has its quota of sessions in MLflow.
THEOREM DoneCellsHoldTheirQuota == Spec => []DoneHasQuota
<1>1. Inv => DoneHasQuota
  BY DEF Inv, Promises, DoneHasQuota
<1> QED
  BY <1>1, Invariance, PTL

\* No resumption, retry or interrupt makes a cell hold more than its quota.
THEOREM CellsAreToppedUp == Spec => []NeverOverrun
<1>1. Inv => NeverOverrun
  BY DEF Inv, Overruns, NeverOverrun
<1> QED
  BY <1>1, Invariance, PTL

\* No conversation meets an order store or a machine that another attempt has
\* used.
THEOREM CellsAreIsolated == Spec => []Isolated
<1>1. Inv => Isolated
  BY DEF Inv, Alone, Isolated
<1> QED
  BY <1>1, Invariance, PTL
================================================================================
