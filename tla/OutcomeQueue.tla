----------------------------- MODULE OutcomeQueue -----------------------------
(***************************************************************************)
(* The queue of pre-rolled brew outcomes of the coffee machine             *)
(* (services/coffee_machine/state.py).  create_job takes the outcome of a  *)
(* new brew from the front and rolls one more; reseed replaces the         *)
(* generator and then the queue.  Handlers run in a pool of threads and    *)
(* take no lock.                                                           *)
(*                                                                         *)
(* Which outcome it is does not matter here, only which draw of which      *)
(* generator decided it: equal seeds give equal draws.                     *)
(***************************************************************************)
EXTENDS Naturals, Sequences, FiniteSets

CONSTANTS Clients,    \* the threads that run the HTTP handlers
          Depth,      \* outcomes that are rolled in advance
          MaxBrews,   \* bound on the brews
          MaxReseeds  \* bound on the calls of reseed

ASSUME DepthAssumption == Depth \in Nat \ {0}

ASSUME PoolAssumption == IsFiniteSet(Clients) /\ {MaxBrews, MaxReseeds} \subseteq Nat

VARIABLES
    rng,           \* the generator: how many came before it, how often it drew
    outcome_queue, \* the list the global names
    assigned,      \* how many times that global was assigned: which list it is
    thread,        \* of each thread: where it is, the outcome it took, the list
                   \* it will append to, and the outcomes it has rolled
    \* history, read by the properties only
    brewed,        \* the outcomes used, in order
    since,         \* how many of them were used before the last reseed began
    raced,         \* whether two handlers overlapped since then
    refused        \* whether a brew found the list empty

vars == <<rng, outcome_queue, assigned, thread, brewed, since, raced, refused>>

Idle == [pc |-> "idle", list |-> 0, rolls |-> <<>>]

\* The draw that is about to be made, as the outcome it may decide.
Draw == [generator |-> rng.generator, draw |-> rng.drawn + 1]

NextRng == [rng EXCEPT !.drawn = @ + 1]

\* _generate_outcome draws a duration that is not used, then the outcome.
Init ==
    /\ rng = [generator |-> 0, drawn |-> 2 * Depth]
    /\ outcome_queue = [k \in 1..Depth |-> [generator |-> 0, draw |-> 2 * k]]
    /\ assigned = 0
    /\ thread = [t \in Clients |-> Idle]
    /\ brewed = <<>>
    /\ since = 0
    /\ raced = FALSE
    /\ refused = FALSE

-----------------------------------------------------------------------------

At(t, pc) == thread[t].pc = pc

Goto(t, pc) == thread' = [thread EXCEPT ![t].pc = pc]

Return(t) == thread' = [thread EXCEPT ![t] = Idle]

OthersBusy(t) == \E u \in Clients \ {t} : ~At(u, "idle")

Begin(t) == At(t, "idle") /\ raced' = (raced \/ OthersBusy(t))

(* create_job *)

\* Mutant of TakeOutcome: where the list is empty, the brew fails by default.
TakeOutcome_Default(t) ==
    /\ Begin(t) /\ Len(brewed) < MaxBrews
    /\ outcome_queue' = IF outcome_queue = <<>> THEN <<>> ELSE Tail(outcome_queue)
    /\ brewed' = Append(brewed, IF outcome_queue = <<>>
                                THEN [generator |-> rng.generator, draw |-> 0]
                                ELSE Head(outcome_queue))
    /\ Goto(t, "bind")
    /\ UNCHANGED <<rng, assigned, since, refused>>

\* pop(0); on an empty list it raises, and the client gets an error.
TakeOutcome(t) ==
    /\ Begin(t) /\ Len(brewed) < MaxBrews
    /\ \/ /\ outcome_queue # <<>>
          /\ outcome_queue' = Tail(outcome_queue)
          /\ brewed' = Append(brewed, Head(outcome_queue))
          /\ Goto(t, "bind")
          /\ UNCHANGED refused
       \/ /\ outcome_queue = <<>>
          /\ refused' = TRUE
          /\ UNCHANGED <<outcome_queue, thread, brewed>>
    /\ UNCHANGED <<rng, assigned, since>>

\* The list to append to is looked up before the outcome is rolled.
BindList(t) ==
    /\ At(t, "bind")
    /\ thread' = [thread EXCEPT ![t].list = assigned, ![t].pc = "skip_duration"]
    /\ UNCHANGED <<rng, outcome_queue, assigned, brewed, since, raced, refused>>

SkipDuration(t) ==
    /\ At(t, "skip_duration")
    /\ rng' = NextRng
    /\ Goto(t, "roll")
    /\ UNCHANGED <<outcome_queue, assigned, brewed, since, raced, refused>>

RollOutcome(t) ==
    /\ At(t, "roll")
    /\ rng' = NextRng
    /\ thread' = [thread EXCEPT ![t].rolls = <<Draw>>, ![t].pc = "append"]
    /\ UNCHANGED <<outcome_queue, assigned, brewed, since, raced, refused>>

\* Mutant of AppendOutcome: the outcome is used next, not last.
AppendOutcome_InFront(t) ==
    /\ At(t, "append")
    /\ outcome_queue' = thread[t].rolls \o outcome_queue
    /\ Goto(t, "duration")
    /\ UNCHANGED <<rng, assigned, brewed, since, raced, refused>>

\* Appended to a list that reseed has replaced, the outcome is lost.
AppendOutcome(t) ==
    /\ At(t, "append")
    /\ outcome_queue' = IF thread[t].list = assigned
                        THEN outcome_queue \o thread[t].rolls ELSE outcome_queue
    /\ Goto(t, "duration")
    /\ UNCHANGED <<rng, assigned, brewed, since, raced, refused>>

DrawDuration(t) ==
    /\ At(t, "duration")
    /\ rng' = NextRng
    /\ Return(t)
    /\ UNCHANGED <<outcome_queue, assigned, brewed, since, raced, refused>>

create_job(t) ==
    \/ TakeOutcome(t) \/ BindList(t) \/ SkipDuration(t) \/ RollOutcome(t)
    \/ AppendOutcome(t) \/ DrawDuration(t)

(* reseed *)

\* The global generator is replaced first; a brew under way draws from it too.
NewGenerator(t) ==
    /\ At(t, "idle") /\ rng.generator < MaxReseeds
    /\ since' = Len(brewed)
    /\ raced' = OthersBusy(t)
    /\ rng' = [generator |-> rng.generator + 1, drawn |-> 0]
    /\ Goto(t, "reseed_duration")
    /\ UNCHANGED <<outcome_queue, assigned, brewed, refused>>

ReseedDuration(t) ==
    /\ At(t, "reseed_duration")
    /\ rng' = NextRng
    /\ Goto(t, "reseed_roll")
    /\ UNCHANGED <<outcome_queue, assigned, brewed, since, raced, refused>>

\* Mutant of ReseedRoll: one outcome too few is rolled.
ReseedRoll_OneShort(t) ==
    LET rolls == Append(thread[t].rolls, Draw) IN
    /\ At(t, "reseed_roll")
    /\ rng' = NextRng
    /\ thread' = [thread EXCEPT
                    ![t].rolls = rolls,
                    ![t].pc = IF Len(rolls) < Depth - 1 THEN "reseed_duration" ELSE "assign"]
    /\ UNCHANGED <<outcome_queue, assigned, brewed, since, raced, refused>>

ReseedRoll(t) ==
    LET rolls == Append(thread[t].rolls, Draw) IN
    /\ At(t, "reseed_roll")
    /\ rng' = NextRng
    /\ thread' = [thread EXCEPT
                    ![t].rolls = rolls,
                    ![t].pc = IF Len(rolls) < Depth THEN "reseed_duration" ELSE "assign"]
    /\ UNCHANGED <<outcome_queue, assigned, brewed, since, raced, refused>>

AssignQueue(t) ==
    /\ At(t, "assign")
    /\ outcome_queue' = thread[t].rolls
    /\ assigned' = assigned + 1
    /\ Return(t)
    /\ UNCHANGED <<rng, brewed, since, raced, refused>>

reseed(t) ==
    \/ NewGenerator(t) \/ ReseedDuration(t) \/ ReseedRoll(t) \/ AssignQueue(t)

Next == \E t \in Clients : create_job(t) \/ reseed(t)

Spec == Init /\ [][Next]_vars

-----------------------------------------------------------------------------
(* Properties.                                                             *)

Outcomes == [generator: 0..MaxReseeds, draw: Nat \ {0}]

ProgramPoints == {"bind", "skip_duration", "roll", "append", "duration",
                  "reseed_duration", "reseed_roll", "assign"}

ThreadType ==
    [pc: ProgramPoints, list: 0..MaxReseeds, rolls: Seq(Outcomes)] \cup {Idle}

\* Every variable keeps the shape state.py gives it; no outcome is used or waits
\* but one that some generator drew.
TypeOK ==
    /\ rng \in [generator: 0..MaxReseeds, drawn: Nat]
    /\ outcome_queue \in Seq(Outcomes)
    /\ assigned \in 0..MaxReseeds
    /\ thread \in [Clients -> ThreadType]
    /\ brewed \in Seq(Outcomes) /\ since \in 0..Len(brewed)
    /\ raced \in BOOLEAN /\ refused \in BOOLEAN

\* The draw that decides the k-th brew after a reseed: the first Depth were
\* rolled then, with two draws each; a brew makes three, the second of which
\* decides the brew Depth places later.
Reference(k) == IF k <= Depth THEN 2 * k ELSE 2 * Depth + 3 * (k - Depth) - 1

\* "Every cell replays the same failure sequence from --seed" (README.md): the
\* k-th brew after a reseed is decided by the same draw each time, provided that
\* no two handlers overlapped.  (Two brews that do may swap outcomes and
\* durations with each other and with every later brew.)
Replays ==
    ~raced => \A k \in 1..(Len(brewed) - since) :
        brewed[since + k] = [generator |-> rng.generator, draw |-> Reference(k)]

\* The brews that took an outcome and have not put one back.
Owing == {t \in Clients : thread[t].pc \in {"bind", "skip_duration", "roll", "append"}}

\* A brew is refused for want of an outcome only while Depth others owe one, a
\* reseed at the same time or not.
RefusedOnlyInACrowd ==
    [][refused' # refused => Cardinality(Owing) >= Depth]_vars
=============================================================================
