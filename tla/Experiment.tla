------------------------------ MODULE Experiment ------------------------------
(***************************************************************************)
(* The driver of an experiment (scripts/run_experiment.py) and the         *)
(* simulations it starts (src/simulate.py).  A grid of cells is worked     *)
(* off; each cell owes Quota conversations, run by one `simulate` process  *)
(* per attempt on a wiped order store and a restarted coffee machine.      *)
(* What was reached is journalled in a ledger, from which a sweep that was *)
(* interrupted, or whose driver died, is resumed.                          *)
(*                                                                         *)
(* A conversation is counted by what it leaves in MLflow: a session with a *)
(* `setup` tag, which each of its turns sets.                              *)
(***************************************************************************)
EXTENDS Integers

CONSTANTS NCells,      \* cells of the grid
          Quota,       \* --count
          Earlier,     \* tagged sessions of earlier experiments in MLflow
          MaxLaunches, \* bound on the starts of the driver
          MaxFaults    \* bound on what goes wrong, interrupts included

ASSUME BoundsAssumption ==
    /\ NCells \in Nat \ {0} /\ Quota \in Nat \ {0}
    /\ {Earlier, MaxLaunches, MaxFaults} \subseteq Nat

Cells == 1..NCells

\* An attempt is named by its process.  Live ones and ones whose traces are left
\* are few: an orphan or an old machine takes a fault.
Attempts == 1..(MaxFaults + 3)

VARIABLES
    ledger,   \* of each cell: its status and how many conversations it has
    tagged,   \* MLflow: of each cell, the sessions with a tag
    sessions, \* MLflow: all of them, whichever cell they belong to
    db,       \* attempts that used the order store since it was wiped
    machine,  \* whether a coffee machine listens, and the attempts that used it
    sims,     \* the live `simulate` processes, by attempt
    driver,   \* where the driver is, and its locals
    launches, faults,
    \* history, read by the properties only
    wrong,    \* the kinds of faults that happened
    mixed,    \* whether a conversation met what another attempt had left
    cut       \* cells of which a conversation was counted and never came to its end

mlflow == <<tagged, sessions>>

vars == <<ledger, mlflow, db, machine, sims, driver, launches, faults,
          wrong, mixed, cut>>

Statuses == {"none", "done", "short", "failed", "interrupted"}

NotRun == [status |-> "none", conversations |-> 0]

Down == [up |-> FALSE, used |-> {}]

Off == [pc |-> "off", cell |-> 1, attempt |-> 0, before |-> 0, status |-> "none",
        conversations |-> 0, stop_on_error |-> FALSE]

Init ==
    /\ ledger = [c \in Cells |-> NotRun]
    /\ tagged = [c \in Cells |-> 0] /\ sessions = Earlier
    /\ db = {} /\ machine = Down
    /\ sims = << >>
    /\ driver = Off
    /\ launches = 0 /\ faults = 0
    /\ wrong = {} /\ mixed = FALSE /\ cut = {}

-----------------------------------------------------------------------------

At(pc) == driver.pc = pc

Goto(pc) == driver' = [driver EXCEPT !.pc = pc]

\* One more fault; some kinds are remembered.
Fault(kinds) ==
    /\ faults < MaxFaults
    /\ faults' = faults + 1
    /\ wrong' = wrong \cup kinds

NoFault == UNCHANGED <<faults, wrong>>

AtLeastZero(n) == IF n > 0 THEN n ELSE 0

DoneBefore(c) == AtLeastZero(ledger[c].conversations)

\* outstanding: the status beats the arithmetic.
Outstanding(c) ==
    IF ledger[c].status = "done" THEN 0 ELSE AtLeastZero(Quota - DoneBefore(c))

(* The driver *)

\* The first start makes the ledger, later ones resume from it.
Launch(stop_on_error) ==
    /\ At("off") /\ launches < MaxLaunches
    /\ launches' = launches + 1
    /\ driver' = [Off EXCEPT !.pc = "top", !.stop_on_error = stop_on_error]
    /\ UNCHANGED <<ledger, mlflow, db, machine, sims, mixed, cut>>
    /\ NoFault

\* Nothing is owed: the cell is done, if it was not called so.
SkipCell ==
    /\ At("top") /\ driver.cell \in Cells /\ Outstanding(driver.cell) = 0
    /\ ledger' = [ledger EXCEPT ![driver.cell].status = "done"]
    /\ driver' = [driver EXCEPT !.cell = @ + 1]
    /\ UNCHANGED <<mlflow, db, machine, sims, launches, mixed, cut>>
    /\ NoFault

\* Mutant of WipeDb: the order store of the previous cell is kept.
WipeDb_Keeps ==
    /\ At("top") /\ driver.cell \in Cells /\ Outstanding(driver.cell) > 0
    /\ Goto("stop")
    /\ UNCHANGED <<ledger, mlflow, db, machine, sims, launches, mixed, cut>>
    /\ NoFault

WipeDb ==
    /\ At("top") /\ driver.cell \in Cells /\ Outstanding(driver.cell) > 0
    /\ db' = {}
    /\ Goto("stop")
    /\ UNCHANGED <<ledger, mlflow, machine, sims, launches, mixed, cut>>
    /\ NoFault

\* Whoever listens on the port is terminated, if the driver can see it.
StopMachine(next) ==
    /\ \/ machine' = Down /\ NoFault
       \/ machine.up /\ Fault({"stale_machine"}) /\ UNCHANGED machine
    /\ driver' = next

StopBefore ==
    /\ At("stop")
    /\ StopMachine([driver EXCEPT !.pc = "start"])
    /\ UNCHANGED <<ledger, mlflow, db, sims, launches, mixed, cut>>

\* A machine that still holds the port answers in place of the new one.
StartMachine ==
    /\ At("start")
    /\ machine' = IF machine.up THEN machine ELSE [up |-> TRUE, used |-> {}]
    /\ Goto("before")
    /\ UNCHANGED <<ledger, mlflow, db, sims, launches, mixed, cut>>
    /\ NoFault

\* The new machine exits or does not come up: nobody catches it.
StartFails ==
    /\ At("start")
    /\ Fault({})
    /\ driver' = Off
    /\ UNCHANGED <<ledger, mlflow, db, machine, sims, launches, mixed, cut>>

\* What trace_stats returns: the number of tagged sessions, which do not tell
\* their cell; an error of SQLite reads as an empty store.
StatsAre(n, kind) ==
    \/ n = sessions /\ NoFault
    \/ n = 0 /\ Fault({kind})

StatsBefore ==
    /\ At("before")
    /\ \E n \in {0, sessions} :
         /\ StatsAre(n, "blind_before")
         /\ driver' = [driver EXCEPT !.before = n, !.pc = "spawn"]
    /\ UNCHANGED <<ledger, mlflow, db, machine, sims, launches, mixed, cut>>

NewNames == Attempts \ (DOMAIN sims \cup db \cup machine.used)

NewProcess == CHOOSE a \in NewNames : TRUE

Simulation(c, n) == [cell |-> c, left |-> n, talk |-> "none"]

\* Mutant of RunCell: the process is asked for the whole cell.
RunCell_WholeQuota ==
    /\ At("spawn") /\ NewNames # {}
    /\ sims' = [a \in DOMAIN sims \cup {NewProcess} |->
                  IF a = NewProcess THEN Simulation(driver.cell, Quota)
                  ELSE sims[a]]
    /\ driver' = [driver EXCEPT !.attempt = NewProcess, !.pc = "run"]
    /\ UNCHANGED <<ledger, mlflow, db, machine, launches, mixed, cut>>
    /\ NoFault

\* run_cell: one process for the conversations that are owed.
RunCell ==
    /\ At("spawn") /\ NewNames # {}
    /\ sims' = [a \in DOMAIN sims \cup {NewProcess} |->
                  IF a = NewProcess THEN Simulation(driver.cell, Outstanding(driver.cell))
                  ELSE sims[a]]
    /\ driver' = [driver EXCEPT !.attempt = NewProcess, !.pc = "run"]
    /\ UNCHANGED <<ledger, mlflow, db, machine, launches, mixed, cut>>
    /\ NoFault

\* Mutant of StatusOf: a process that exits well has done the cell.
StatusOf_ExitCode(status, n) == status

\* "done" means that the cell holds its quota.
StatusOf(status, n) == IF status = "done" /\ n < Quota THEN "short" ELSE status

StatsAfter ==
    /\ At("after")
    /\ \E n \in {0, sessions} :
         /\ StatsAre(n, "blind_after")
         /\ LET now == DoneBefore(driver.cell) + (n - driver.before)
            IN  driver' = [driver EXCEPT !.conversations = now, !.pc = "save",
                                         !.status = StatusOf(@, now)]
    /\ UNCHANGED <<ledger, mlflow, db, machine, sims, launches, mixed, cut>>

Stops == \/ driver.status = "interrupted"
         \/ driver.status = "failed" /\ driver.stop_on_error

\* save_ledger: a new file replaces the old one.
SaveLedger ==
    /\ At("save")
    /\ ledger' = [ledger EXCEPT ![driver.cell] =
                    [status |-> driver.status, conversations |-> driver.conversations]]
    /\ driver' = IF Stops
                 THEN [driver EXCEPT !.pc = "finish"]
                 ELSE [Off EXCEPT !.pc = "top", !.cell = driver.cell + 1,
                                  !.stop_on_error = driver.stop_on_error]
    /\ UNCHANGED <<mlflow, db, machine, sims, launches, mixed, cut>>
    /\ NoFault

\* All cells were visited, or the sweep was stopped: the machine is stopped.
Finish ==
    /\ At("finish") \/ (At("top") /\ driver.cell \notin Cells)
    /\ StopMachine(Off)
    /\ UNCHANGED <<ledger, mlflow, db, sims, launches, mixed, cut>>

-----------------------------------------------------------------------------
(* The simulations; an orphan goes on like any other *)

Gone(a) == sims' = [b \in DOMAIN sims \ {a} |-> sims[b]]

InTalk(a) == sims[a].talk # "none"

\* run_automated begins: it uses the order store and the machine, which the
\* barista starts if none listens.
BeginConversation(a) ==
    /\ ~InTalk(a) /\ sims[a].left > 0
    /\ sims' = [sims EXCEPT ![a].left = @ - 1, ![a].talk = "silent"]
    /\ db' = db \cup {a}
    /\ machine' = [up |-> TRUE, used |-> machine.used \cup {a}]
    /\ mixed' = (mixed \/ db' # {a} \/ machine'.used # {a})
    /\ UNCHANGED <<ledger, mlflow, driver, launches, cut>>
    /\ NoFault

\* send_message: the trace of the turn is tagged, even when the turn blew up.
Tag(a) ==
    IF sims[a].talk = "silent"
    THEN /\ tagged' = [tagged EXCEPT ![sims[a].cell] = @ + 1]
         /\ sessions' = sessions + 1
    ELSE UNCHANGED mlflow

\* The conversation stops here; it may have been counted by then.
Cut(a, counted) == cut' = IF counted THEN cut \cup {sims[a].cell} ELSE cut

Counted(a) == sims[a].talk = "tagged"

Turn(a) ==
    /\ sims[a].talk = "silent"
    /\ Tag(a)
    /\ sims' = [sims EXCEPT ![a].talk = "tagged"]
    /\ UNCHANGED <<ledger, db, machine, driver, launches, mixed, cut>>
    /\ NoFault

\* The customer is content, or the context is full; feedback is saved.
EndConversation(a) ==
    /\ sims[a].talk = "tagged"
    /\ sims' = [sims EXCEPT ![a].talk = "none"]
    /\ UNCHANGED <<ledger, mlflow, db, machine, driver, launches, mixed, cut>>
    /\ NoFault

\* The conversation raises, before its first turn has a trace or in a later
\* one; --on-error skip goes on with the next.
ConversationDies(a) ==
    /\ InTalk(a)
    /\ sims' = [sims EXCEPT ![a].talk = "none"]
    /\ Cut(a, Counted(a))
    /\ UNCHANGED <<ledger, mlflow, db, machine, driver, launches, mixed>>
    /\ NoFault

Watched(a) == At("run") /\ driver.attempt = a

\* Mutant of ExitAs: the driver does not notice.
ExitAs_Unnoticed(a, status) == Gone(a) /\ UNCHANGED driver

\* The process is over; the driver, if it waits for it, learns how.
ExitAs(a, status) ==
    /\ Gone(a)
    /\ driver' = IF Watched(a)
                 THEN [driver EXCEPT !.pc = "after", !.status = status]
                 ELSE driver

SimulationEnds(a) ==
    /\ ~InTalk(a) /\ sims[a].left = 0
    /\ ExitAs(a, "done")
    /\ UNCHANGED <<ledger, mlflow, db, machine, launches, mixed, cut>>
    /\ NoFault

\* It cannot open the shop, or is killed.
SimulationFails(a) ==
    /\ Fault({})
    /\ ExitAs(a, "failed")
    /\ Cut(a, Counted(a))
    /\ UNCHANGED <<ledger, mlflow, db, machine, launches, mixed>>

-----------------------------------------------------------------------------
(* Interrupts and deaths of the driver *)

\* Ctrl-C while a cell is prepared: no attempt was made.
InterruptSetUp ==
    /\ driver.pc \in {"stop", "start"}
    /\ Fault({})
    /\ Goto("finish")
    /\ UNCHANGED <<ledger, mlflow, db, machine, sims, launches, mixed, cut>>

\* Ctrl-C while a cell runs reaches the process too, whose turn may still be
\* tagged.
InterruptRun ==
    /\ At("run")
    /\ Fault({})
    /\ LET a == driver.attempt
       IN  /\ \/ Tag(a) /\ Cut(a, InTalk(a))
              \/ UNCHANGED mlflow /\ Cut(a, Counted(a))
           /\ ExitAs(a, "interrupted")
    /\ UNCHANGED <<ledger, db, machine, launches, mixed>>

\* The driver is killed, or an interrupt finds it where it catches none.  An
\* attempt that is not in the ledger yet is forgotten, one that runs goes on.
DriverDies ==
    /\ ~At("off")
    /\ Fault(CASE At("run") -> {"orphan"}
               [] driver.pc \in {"after", "save"} -> {"uncounted"}
               [] OTHER -> {})
    /\ driver' = Off
    /\ UNCHANGED <<ledger, mlflow, db, machine, sims, launches, mixed, cut>>

Drive ==
    \/ SkipCell \/ WipeDb \/ StopBefore \/ StartMachine \/ StatsBefore \/ RunCell
    \/ StatsAfter \/ SaveLedger \/ Finish

Simulate(a) ==
    \/ BeginConversation(a) \/ Turn(a) \/ EndConversation(a) \/ ConversationDies(a)
    \/ SimulationEnds(a)

Next ==
    \/ \E b \in BOOLEAN : Launch(b)
    \/ Drive
    \/ \E a \in DOMAIN sims : Simulate(a) \/ SimulationFails(a)
    \/ StartFails \/ InterruptSetUp \/ InterruptRun \/ DriverDies

Spec == Init /\ [][Next]_vars

-----------------------------------------------------------------------------
(* Properties *)

FaultKinds == {"orphan", "uncounted", "blind_before", "blind_after", "stale_machine"}

Happened(kinds) == wrong \cap kinds # {}

SimulationType == [cell : Cells, left : 0..Quota, talk : {"none", "silent", "tagged"}]

DriverType ==
    [pc : {"off", "top", "stop", "start", "before", "spawn", "run", "after", "save",
           "finish"},
     cell : 1..(NCells + 1), attempt : Attempts \cup {0}, before : Nat,
     status : Statuses, conversations : Int, stop_on_error : BOOLEAN]

\* The variables keep their shape; the driver watches a process that lives,
\* and past the end of the grid it does nothing but finish.
TypeOK ==
    /\ ledger \in [Cells -> [status : Statuses, conversations : Int]]
    /\ tagged \in [Cells -> Nat] /\ sessions \in Nat /\ cut \subseteq Cells
    /\ db \subseteq Attempts
    /\ machine \in [up : BOOLEAN, used : SUBSET Attempts]
    /\ DOMAIN sims \subseteq Attempts /\ sims \in [DOMAIN sims -> SimulationType]
    /\ driver \in DriverType
    /\ ~At("top") => driver.cell \in Cells
    /\ At("run") => driver.attempt \in DOMAIN sims
    /\ launches \in 0..MaxLaunches /\ faults \in 0..MaxFaults
    /\ wrong \subseteq FaultKinds /\ mixed \in BOOLEAN

\* "Done means the cell holds its quota": of a cell called done MLflow has
\* the sessions, whatever was interrupted, killed and resumed, unless a
\* simulation outlived its driver or the store could not be read at first.
DoneHasQuota ==
    ~Happened({"orphan", "blind_before"}) =>
        \A c \in Cells : ledger[c].status = "done" => tagged[c] >= Quota

\* "Resume tops cells up rather than restarting them": no cell gets more than
\* its quota, unless an attempt was over and its driver died before the ledger
\* had it, or the store could not be read after it.
NeverOverrun ==
    ~Happened({"orphan", "uncounted", "blind_after"}) =>
        \A c \in Cells : tagged[c] <= Quota

\* "Cells never share order history, stock drift, or brew-failure RNG": each
\* conversation meets an order store and a machine that only its own attempt has
\* used, unless a simulation outlived its driver or an old machine could not
\* be stopped.
Isolated == ~Happened({"orphan", "stale_machine"}) => ~mixed

\* "A cell whose conversations all died still exits 0, and calling that done
\* would silently ship a short cell": every conversation that is counted for a
\* cell called done came to its end.  It did not: the first turn makes it count,
\* and a turn that blew up is tagged too.
DoneIsWhole == \A c \in Cells : ledger[c].status = "done" => c \notin cut
=============================================================================
