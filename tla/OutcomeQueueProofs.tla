-------------------------- MODULE OutcomeQueueProofs --------------------------
(***************************************************************************)
(* Proofs about OutcomeQueue, for every pool of threads, every depth of    *)
(* the queue and every number of brews and reseeds.                        *)
(***************************************************************************)
EXTENDS OutcomeQueue, TLAPS, FiniteSetTheorems

\* Where a thread is in a reseed.
Rerolling == {"reseed_duration", "reseed_roll", "assign"}

Reseeding == {t \in Clients : thread[t].pc \in Rerolling}

\* Each generator's queue is assigned once, by the thread that made it.
Counted == assigned + Cardinality(Reseeding) <= rng.generator

\* How much a thread has rolled.
Rolled ==
    \A t \in Clients :
        /\ At(t, "append") => Len(thread[t].rolls) = 1
        /\ thread[t].pc \in {"reseed_duration", "reseed_roll"} => Len(thread[t].rolls) < Depth
        /\ At(t, "assign") => Len(thread[t].rolls) = Depth

\* The brews whose outcome will get into the list that is in use.
Promised ==
    {t \in Clients : \/ At(t, "bind")
                     \/ thread[t].pc \in {"skip_duration", "roll", "append"}
                        /\ thread[t].list = assigned}

\* The outcomes that wait and those that are promised.
Supplied == Depth <= Len(outcome_queue) + Cardinality(Promised)

\* The brews since the last reseed began.
Served == Len(brewed) - since

\* What decides the k-th of them.
Outcome(k) == [generator |-> rng.generator, draw |-> Reference(k)]

\* The list holds what decides the next m brews.
Ahead(m) ==
    /\ Len(outcome_queue) = m
    /\ \A k \in 1..m : outcome_queue[k] = Outcome(Served + k)

\* The draws when that many brews are over.
Drawn(n) == 2 * Depth + 3 * n

\* Where a lone brew is: it has drawn so much, and the list is short of the
\* outcome it will roll.
Brewing(t) ==
    /\ thread[t].pc \in {"bind", "skip_duration", "roll", "append", "duration"} => Served > 0
    /\ thread[t].pc \in {"bind", "skip_duration", "roll", "append"} => Ahead(Depth - 1)
    /\ At(t, "duration") => Ahead(Depth)
    /\ thread[t].pc \in {"bind", "skip_duration"} => rng.drawn = Drawn(Served - 1)
    /\ At(t, "roll") => rng.drawn = Drawn(Served - 1) + 1
    /\ thread[t].pc \in {"append", "duration"} => rng.drawn = Drawn(Served - 1) + 2
    /\ thread[t].pc \in {"skip_duration", "roll", "append"} => thread[t].list = assigned
    /\ At(t, "append") => thread[t].rolls = <<Outcome(Served + Depth)>>

\* Where a lone reseed is.
Refilling(t) ==
    LET rolls == thread[t].rolls IN
    thread[t].pc \in Rerolling =>
        /\ Served = 0
        /\ \A k \in DOMAIN rolls : rolls[k] = Outcome(k)
        /\ rng.drawn = 2 * Len(rolls) + IF At(t, "reseed_roll") THEN 1 ELSE 0

\* While no two handlers overlap, one thread at most is at work, and every draw
\* has its place.
InStep ==
    ~raced =>
        /\ \A t \in Clients : At(t, "idle") \/ ~OthersBusy(t)
        /\ \A k \in 1..Served : brewed[since + k] = Outcome(k)
        /\ (\A t \in Clients : At(t, "idle")) => rng.drawn = Drawn(Served) /\ Ahead(Depth)
        /\ \A t \in Clients : Brewing(t) /\ Refilling(t)

\* The inductive invariant.
Inv == TypeOK /\ Counted /\ Rolled /\ Supplied /\ InStep

-----------------------------------------------------------------------------
(* Sets of threads *)

\* The pool is finite, and a thread comes into a set of threads or leaves it.
LEMMA OneMoreOneLess ==
  ASSUME NEW S \in SUBSET Clients, NEW t \in Clients
  PROVE  /\ Cardinality(S) \in Nat
         /\ t \notin S => Cardinality(S \cup {t}) = Cardinality(S) + 1
         /\ t \in S => Cardinality(S \ {t}) = Cardinality(S) - 1 /\ Cardinality(S) > 0
<1>1. IsFiniteSet(S)
  BY PoolAssumption, FS_Subset
<1>2. Cardinality(S) \in Nat
  BY <1>1, FS_CardinalityType
<1>3. t \in S => Cardinality(S \ {t}) = Cardinality(S) - 1
  BY <1>1, FS_RemoveElement
<1>4. t \in S => Cardinality(S) # 0
  BY <1>1, FS_EmptySet
<1> QED
  BY <1>1, <1>2, <1>3, <1>4, FS_AddElement

\* A step of a thread is nothing to the others.
LEMMA OthersStay ==
  ASSUME TypeOK, NEW t \in Clients, create_job(t) \/ reseed(t)
  PROVE  \A u \in Clients \ {t} : thread'[u] = thread[u]
  BY DEF TypeOK, create_job, reseed, TakeOutcome, BindList, SkipDuration, RollOutcome,
     AppendOutcome, DrawDuration, NewGenerator, ReseedDuration, ReseedRoll, AssignQueue,
     Goto, Return

-----------------------------------------------------------------------------
(* TypeOK *)

\* What a thread can become.
LEMMA ThreadTypes ==
  ASSUME TypeOK, NEW t \in Clients
  PROVE  /\ \A p \in ProgramPoints : Goto(t, p) => thread' \in [Clients -> ThreadType]
         /\ Return(t) => thread' \in [Clients -> ThreadType]
         /\ \A p \in ProgramPoints, l \in 0..MaxReseeds :
              thread' = [thread EXCEPT ![t].list = l, ![t].pc = p]
                => thread' \in [Clients -> ThreadType]
         /\ \A p \in ProgramPoints, r \in Seq(Outcomes) :
              thread' = [thread EXCEPT ![t].rolls = r, ![t].pc = p]
                => thread' \in [Clients -> ThreadType]
<1> DEFINE Working == [pc: ProgramPoints, list: 0..MaxReseeds, rolls: Seq(Outcomes)]
<1>1. thread \in [Clients -> ThreadType] /\ 0 \in 0..MaxReseeds /\ <<>> \in Seq(Outcomes)
  BY PoolAssumption DEF TypeOK
<1>2. Working \subseteq ThreadType /\ Idle \in ThreadType /\ thread[t] \in Working \cup {Idle}
  BY <1>1 DEF ThreadType
<1>3. ASSUME NEW r \in Working \cup {Idle}, NEW p \in ProgramPoints
      PROVE  /\ [r EXCEPT !.pc = p] \in Working
             /\ \A l \in 0..MaxReseeds : [r EXCEPT !.list = l, !.pc = p] \in Working
             /\ \A s \in Seq(Outcomes) : [r EXCEPT !.rolls = s, !.pc = p] \in Working
  <2>1. CASE r \in Working
    BY <2>1
  <2>2. CASE r = [pc |-> "idle", list |-> 0, rolls |-> <<>>]
    BY <1>1, <2>2
  <2> QED
    BY <2>1, <2>2 DEF Idle
<1> HIDE DEF Working
<1>4. ASSUME NEW p \in ProgramPoints PROVE Goto(t, p) => thread' \in [Clients -> ThreadType]
  BY <1>1, <1>2, <1>3 DEF Goto
<1>5. Return(t) => thread' \in [Clients -> ThreadType]
  BY <1>1, <1>2 DEF Return
<1>6. ASSUME NEW p \in ProgramPoints, NEW l \in 0..MaxReseeds,
             thread' = [thread EXCEPT ![t].list = l, ![t].pc = p]
      PROVE  thread' \in [Clients -> ThreadType]
  <2>1. [thread[t] EXCEPT !.list = l, !.pc = p] \in ThreadType
    BY <1>2, <1>3
  <2>2. thread' = [thread EXCEPT ![t] = [thread[t] EXCEPT !.list = l, !.pc = p]]
    BY <1>1, <1>6
  <2> QED
    BY <1>1, <2>1, <2>2
<1>7. ASSUME NEW p \in ProgramPoints, NEW r \in Seq(Outcomes),
             thread' = [thread EXCEPT ![t].rolls = r, ![t].pc = p]
      PROVE  thread' \in [Clients -> ThreadType]
  <2>1. [thread[t] EXCEPT !.rolls = r, !.pc = p] \in ThreadType
    BY <1>2, <1>3
  <2>2. thread' = [thread EXCEPT ![t] = [thread[t] EXCEPT !.rolls = r, !.pc = p]]
    BY <1>1, <1>7
  <2> QED
    BY <1>1, <2>1, <2>2
<1> QED
  BY <1>4, <1>5, <1>6, <1>7

\* Every variable keeps its type.
LEMMA TypeInv == TypeOK /\ Counted /\ [Next]_vars => TypeOK'
<1>1. ASSUME TypeOK, UNCHANGED vars PROVE TypeOK'
  BY <1>1 DEF TypeOK, vars
<1> SUFFICES ASSUME TypeOK, Counted, NEW t \in Clients, create_job(t) \/ reseed(t) PROVE TypeOK'
  BY <1>1 DEF Next
<1>a. /\ rng \in [generator: 0..MaxReseeds, drawn: Nat] /\ outcome_queue \in Seq(Outcomes)
      /\ assigned \in 0..MaxReseeds /\ brewed \in Seq(Outcomes) /\ since \in 0..Len(brewed)
      /\ raced \in BOOLEAN /\ refused \in BOOLEAN /\ MaxReseeds \in Nat
  BY PoolAssumption DEF TypeOK
<1>c. thread[t] \in ThreadType /\ <<>> \in Seq(Outcomes)
  BY DEF TypeOK
<1>d. thread[t].rolls \in Seq(Outcomes)
  <2>1. CASE thread[t] = Idle
    BY <1>c, <2>1 DEF Idle
  <2>2. CASE thread[t] # Idle
    BY <1>c, <2>2 DEF ThreadType
  <2> QED
    BY <2>1, <2>2
<1>e. rng.generator \in 0..MaxReseeds /\ rng.drawn \in Nat
  BY <1>a
<1>b. NextRng \in [generator: 0..MaxReseeds, drawn: Nat] /\ Draw \in Outcomes
  <2>1. rng.drawn + 1 \in Nat /\ rng.drawn + 1 \in Nat \ {0}
    BY <1>e
  <2>2. Draw \in Outcomes
    BY <1>e, <2>1 DEF Draw, Outcomes
  <2> QED
    BY <1>a, <1>e, <2>1, <2>2 DEF NextRng
<1> USE DEF ProgramPoints
<1>1a. CASE TakeOutcome(t)
  <2>1. outcome_queue # <<>> => Head(outcome_queue) \in Outcomes
                                /\ Tail(outcome_queue) \in Seq(Outcomes)
    BY <1>a
  <2>2. outcome_queue' \in Seq(Outcomes) /\ brewed' \in Seq(Outcomes)
    <3>1. CASE outcome_queue = <<>>
      BY <1>1a, <1>a, <3>1 DEF TakeOutcome
    <3>2. CASE outcome_queue # <<>>
      <4>1. /\ outcome_queue' = Tail(outcome_queue)
            /\ brewed' = Append(brewed, Head(outcome_queue))
        BY <1>1a, <3>2 DEF TakeOutcome
      <4>2. Append(brewed, Head(outcome_queue)) \in Seq(Outcomes)
        BY <1>a, <2>1, <3>2
      <4> QED
        BY <2>1, <3>2, <4>1, <4>2
    <3> QED
      BY <3>1, <3>2
  <2>5. Len(brewed') \in {Len(brewed), Len(brewed) + 1} /\ since' = since
    BY <1>1a, <1>a DEF TakeOutcome
  <2>6. since' \in 0..Len(brewed')
    BY <1>a, <2>5
  <2>3. thread' \in [Clients -> ThreadType]
    BY <1>1a, ThreadTypes DEF TakeOutcome, TypeOK
  <2>4. raced' \in BOOLEAN /\ refused' \in BOOLEAN
    BY <1>1a, <1>a DEF TakeOutcome, Begin, OthersBusy
  <2> QED
    BY <1>1a, <1>a, <2>2, <2>3, <2>4, <2>6 DEF TakeOutcome, TypeOK
<1>2. CASE BindList(t)
  <2>1. thread' \in [Clients -> ThreadType]
    BY <1>2, <1>a, ThreadTypes DEF BindList
  <2> QED
    BY <1>2, <1>a, <2>1 DEF BindList, TypeOK
<1>3. CASE SkipDuration(t) \/ ReseedDuration(t)
  <2>1. thread' \in [Clients -> ThreadType]
    BY <1>3, ThreadTypes DEF SkipDuration, ReseedDuration
  <2> QED
    BY <1>3, <1>a, <1>b, <2>1 DEF SkipDuration, ReseedDuration, TypeOK
<1>4. CASE RollOutcome(t)
  <2>1. <<Draw>> \in Seq(Outcomes)
    BY <1>b
  <2>2. thread' \in [Clients -> ThreadType]
    BY <1>4, <2>1, ThreadTypes DEF RollOutcome
  <2> QED
    BY <1>4, <1>a, <1>b, <2>2 DEF RollOutcome, TypeOK
<1>5. CASE AppendOutcome(t)
  <2>1. thread' \in [Clients -> ThreadType]
    BY <1>5, ThreadTypes DEF AppendOutcome
  <2> QED
    BY <1>5, <1>a, <1>d, <2>1 DEF AppendOutcome, TypeOK
<1>6. CASE DrawDuration(t)
  <2>1. thread' \in [Clients -> ThreadType]
    BY <1>6, ThreadTypes DEF DrawDuration
  <2> QED
    BY <1>6, <1>a, <1>b, <2>1 DEF DrawDuration, TypeOK
<1>7. CASE NewGenerator(t)
  <2>1. thread' \in [Clients -> ThreadType]
    BY <1>7, ThreadTypes DEF NewGenerator
  <2>2. rng' \in [generator: 0..MaxReseeds, drawn: Nat]
    BY <1>7, <1>a DEF NewGenerator
  <2>3. raced' \in BOOLEAN
    BY <1>7 DEF NewGenerator, OthersBusy
  <2> QED
    BY <1>7, <1>a, <2>1, <2>2, <2>3 DEF NewGenerator, TypeOK
<1>8. CASE ReseedRoll(t)
  <2> DEFINE rolls == Append(thread[t].rolls, Draw)
  <2>1. rolls \in Seq(Outcomes)
    BY <1>b, <1>d
  <2> HIDE DEF rolls
  <2>2. thread' \in [Clients -> ThreadType]
    BY <1>8, <2>1, ThreadTypes DEF ReseedRoll, rolls
  <2> QED
    BY <1>8, <1>a, <1>b, <2>2 DEF ReseedRoll, TypeOK
<1>9. CASE AssignQueue(t)
  <2>1. t \in Reseeding /\ Reseeding \subseteq Clients
    BY <1>9 DEF AssignQueue, Reseeding, Rerolling, At
  <2>2. Cardinality(Reseeding) \in Nat /\ Cardinality(Reseeding) > 0
    BY <2>1, OneMoreOneLess
  <2>4. assigned + 1 \in 0..MaxReseeds
    BY <1>a, <1>e, <2>2 DEF Counted
  <2>3. thread' \in [Clients -> ThreadType]
    BY <1>9, ThreadTypes DEF AssignQueue
  <2> QED
    BY <1>9, <1>a, <1>d, <2>3, <2>4 DEF AssignQueue, TypeOK
<1> QED
  BY <1>1a, <1>2, <1>3, <1>4, <1>5, <1>6, <1>7, <1>8, <1>9 DEF create_job, reseed

-----------------------------------------------------------------------------
(* RefusedOnlyInACrowd *)

\* What a step of a thread does to that thread.
LEMMA OwnStep ==
  ASSUME TypeOK, NEW t \in Clients
  PROVE  /\ TakeOutcome(t) =>
              /\ At(t, "idle")
              /\ outcome_queue # <<>> => /\ thread'[t].pc = "bind"
                                         /\ thread'[t].rolls = <<>>
              /\ outcome_queue = <<>> => UNCHANGED thread
         /\ BindList(t) => At(t, "bind") /\ thread'[t].pc = "skip_duration"
                           /\ thread'[t].list = assigned
         /\ SkipDuration(t) => At(t, "skip_duration") /\ thread'[t].pc = "roll"
                               /\ thread'[t].list = thread[t].list
         /\ RollOutcome(t) => At(t, "roll") /\ thread'[t].pc = "append"
                              /\ thread'[t].list = thread[t].list
                              /\ thread'[t].rolls = <<Draw>>
         /\ AppendOutcome(t) => At(t, "append") /\ thread'[t].pc = "duration"
         /\ DrawDuration(t) => At(t, "duration") /\ thread'[t].pc = "idle"
         /\ NewGenerator(t) => At(t, "idle") /\ thread'[t].pc = "reseed_duration"
                               /\ thread'[t].rolls = <<>>
         /\ ReseedDuration(t) => At(t, "reseed_duration") /\ thread'[t].pc = "reseed_roll"
                                 /\ thread'[t].rolls = thread[t].rolls
         /\ ReseedRoll(t) => /\ At(t, "reseed_roll")
                             /\ thread'[t].rolls = Append(thread[t].rolls, Draw)
                             /\ thread'[t].pc = IF Len(thread'[t].rolls) < Depth
                                                THEN "reseed_duration" ELSE "assign"
         /\ AssignQueue(t) => At(t, "assign") /\ thread'[t].pc = "idle"
<1>1. thread \in [Clients -> ThreadType]
  BY DEF TypeOK
<1>2. /\ DOMAIN thread[t] = {"pc", "list", "rolls"}
      /\ At(t, "idle") => thread[t].rolls = <<>>
  <2>1. CASE thread[t] = Idle
    BY <2>1 DEF Idle
  <2>2. CASE thread[t] # Idle
    BY <1>1, <2>2 DEF ThreadType, ProgramPoints, At
  <2> QED
    BY <2>1, <2>2
<1> USE DEF At, Goto, Return
<1>3. /\ \A p : Goto(t, p) => thread'[t].pc = p /\ thread'[t].list = thread[t].list
                               /\ thread'[t].rolls = thread[t].rolls
      /\ Return(t) => thread'[t].pc = "idle"
  BY <1>1, <1>2 DEF Idle
<1>4. \A p, l : thread' = [thread EXCEPT ![t].list = l, ![t].pc = p]
                  => thread'[t].pc = p /\ thread'[t].list = l
  BY <1>1, <1>2
<1>5. \A p, r : thread' = [thread EXCEPT ![t].rolls = r, ![t].pc = p]
                  => thread'[t].pc = p /\ thread'[t].rolls = r /\ thread'[t].list = thread[t].list
  BY <1>1, <1>2
<1> HIDE DEF Goto, Return
<1>6. /\ TakeOutcome(t) =>
              /\ At(t, "idle")
              /\ outcome_queue # <<>> => /\ thread'[t].pc = "bind"
                                         /\ thread'[t].rolls = <<>>
              /\ outcome_queue = <<>> => UNCHANGED thread
  BY <1>2, <1>3 DEF TakeOutcome, Begin
<1>7. /\ BindList(t) => At(t, "bind") /\ thread'[t].pc = "skip_duration"
                           /\ thread'[t].list = assigned
  BY <1>4 DEF BindList
<1>8. /\ SkipDuration(t) => At(t, "skip_duration") /\ thread'[t].pc = "roll"
                               /\ thread'[t].list = thread[t].list
      /\ AppendOutcome(t) => At(t, "append") /\ thread'[t].pc = "duration"
      /\ DrawDuration(t) => At(t, "duration") /\ thread'[t].pc = "idle"
  BY <1>3 DEF SkipDuration, AppendOutcome, DrawDuration
<1>9. RollOutcome(t) => At(t, "roll") /\ thread'[t].pc = "append"
                              /\ thread'[t].list = thread[t].list
                              /\ thread'[t].rolls = <<Draw>>
  BY <1>5 DEF RollOutcome
<1>10. /\ NewGenerator(t) => At(t, "idle") /\ thread'[t].pc = "reseed_duration"
                               /\ thread'[t].rolls = <<>>
       /\ ReseedDuration(t) => At(t, "reseed_duration") /\ thread'[t].pc = "reseed_roll"
                                 /\ thread'[t].rolls = thread[t].rolls
       /\ AssignQueue(t) => At(t, "assign") /\ thread'[t].pc = "idle"
  BY <1>2, <1>3 DEF NewGenerator, ReseedDuration, AssignQueue
<1>11. ReseedRoll(t) => /\ At(t, "reseed_roll")
                        /\ thread'[t].rolls = Append(thread[t].rolls, Draw)
                        /\ thread'[t].pc = IF Len(thread'[t].rolls) < Depth
                                           THEN "reseed_duration" ELSE "assign"
  BY <1>5 DEF ReseedRoll
<1> QED
  BY <1>6, <1>7, <1>8, <1>9, <1>10, <1>11

\* A reseed is counted from its generator to its queue.
LEMMA CountedInv == TypeOK /\ Counted /\ [Next]_vars => Counted'
<1>1. ASSUME Counted, UNCHANGED vars PROVE Counted'
  BY <1>1 DEF Counted, vars, Reseeding
<1> SUFFICES ASSUME TypeOK, Counted, NEW t \in Clients, create_job(t) \/ reseed(t) PROVE Counted'
  BY <1>1 DEF Next
<1>2. Reseeding \in SUBSET Clients /\ Cardinality(Reseeding) \in Nat
  BY OneMoreOneLess DEF Reseeding
<1>3. assigned \in Nat /\ rng.generator \in Nat
  BY PoolAssumption DEF TypeOK
<1>4. \A u \in Clients \ {t} : u \in Reseeding' <=> u \in Reseeding
  BY OthersStay DEF Reseeding
<1>5. CASE create_job(t) \/ ReseedDuration(t) \/ ReseedRoll(t)
  <2>1. t \in Reseeding' <=> t \in Reseeding
    BY <1>5, OwnStep DEF create_job, Reseeding, Rerolling, At
  <2>2. Reseeding' = Reseeding
    BY <1>2, <1>4, <2>1 DEF Reseeding
  <2>3. assigned' = assigned /\ rng'.generator = rng.generator
    BY <1>5 DEF TypeOK, create_job, TakeOutcome, BindList, SkipDuration, RollOutcome,
       AppendOutcome, DrawDuration, ReseedDuration, ReseedRoll, NextRng
  <2> QED
    BY <2>2, <2>3 DEF Counted
<1>6. CASE NewGenerator(t)
  <2>1. t \in Reseeding' /\ t \notin Reseeding
    BY <1>6, OwnStep DEF Reseeding, Rerolling, At
  <2>2. Reseeding' = Reseeding \cup {t}
    BY <1>2, <1>4, <2>1 DEF Reseeding
  <2>3. assigned' = assigned /\ rng'.generator = rng.generator + 1
    BY <1>6 DEF NewGenerator
  <2> QED
    BY <1>2, <1>3, <2>1, <2>2, <2>3, OneMoreOneLess DEF Counted
<1>7. CASE AssignQueue(t)
  <2>1. t \notin Reseeding' /\ t \in Reseeding
    BY <1>7, OwnStep DEF Reseeding, Rerolling, At
  <2>2. Reseeding' = Reseeding \ {t}
    BY <1>2, <1>4, <2>1 DEF Reseeding
  <2>3. assigned' = assigned + 1 /\ rng' = rng
    BY <1>7 DEF AssignQueue
  <2> QED
    BY <1>2, <1>3, <2>1, <2>2, <2>3, OneMoreOneLess DEF Counted
<1> QED
  BY <1>5, <1>6, <1>7 DEF reseed

\* A thread that appends has rolled one outcome, one that assigns a whole queue.
LEMMA RolledInv == TypeOK /\ Rolled /\ [Next]_vars => Rolled'
<1>1. ASSUME Rolled, UNCHANGED vars PROVE Rolled'
  BY <1>1 DEF Rolled, vars, At
<1> SUFFICES ASSUME TypeOK, Rolled, NEW t \in Clients, create_job(t) \/ reseed(t) PROVE Rolled'
  BY <1>1 DEF Next
<1>2. /\ At(t, "append")' => Len(thread'[t].rolls) = 1
      /\ thread'[t].pc \in {"reseed_duration", "reseed_roll"} => Len(thread'[t].rolls) < Depth
      /\ At(t, "assign")' => Len(thread'[t].rolls) = Depth
  <2>1. thread[t] \in ThreadType
    BY DEF TypeOK
  <2>2. CASE TakeOutcome(t)
    BY <2>2, OwnStep DEF At, Rolled
  <2>3. CASE BindList(t) \/ SkipDuration(t) \/ AppendOutcome(t) \/ DrawDuration(t)
    BY <2>3, OwnStep DEF At
  <2>6. CASE RollOutcome(t)
    <3>1. thread'[t].rolls = <<Draw>> /\ thread'[t].pc = "append"
      BY <2>6, OwnStep
    <3>2. Len(<<Draw>>) = 1
      OBVIOUS
    <3> QED
      BY <3>1, <3>2 DEF At
  <2>4. CASE NewGenerator(t) \/ ReseedDuration(t) \/ AssignQueue(t)
    BY <2>4, OwnStep, DepthAssumption DEF At, Rolled
  <2>5. CASE ReseedRoll(t)
    <3>1. thread[t].rolls \in Seq(Outcomes)
      BY <2>1, <2>5, OwnStep DEF ThreadType, At, Idle
    <3>2. Len(thread[t].rolls) < Depth
      BY <2>5, OwnStep DEF Rolled, At
    <3>3. Len(thread'[t].rolls) = Len(thread[t].rolls) + 1
      BY <2>5, <3>1, OwnStep
    <3>4. Len(thread[t].rolls) \in Nat
      BY <3>1
    <3>5. thread'[t].pc = IF Len(thread'[t].rolls) < Depth THEN "reseed_duration" ELSE "assign"
      BY <2>5, OwnStep
    <3> QED
      BY <3>2, <3>3, <3>4, <3>5, DepthAssumption DEF At
  <2> QED
    BY <2>2, <2>3, <2>4, <2>5, <2>6 DEF create_job, reseed
<1> QED
  BY <1>2, OthersStay DEF Rolled, At

\* An outcome leaves the list only with a promise of another, and a promise is
\* kept, unless the list is replaced by a full one.
LEMMA SuppliedInv == TypeOK /\ Rolled /\ Supplied /\ [Next]_vars => Supplied'
<1>1. ASSUME Supplied, UNCHANGED vars PROVE Supplied'
  BY <1>1 DEF Supplied, vars, Promised, At
<1> SUFFICES ASSUME TypeOK, Rolled, Supplied, NEW t \in Clients, create_job(t) \/ reseed(t)
             PROVE  Supplied'
  BY <1>1 DEF Next
<1>2. Promised \in SUBSET Clients /\ Cardinality(Promised) \in Nat
  BY OneMoreOneLess DEF Promised
<1>3. outcome_queue \in Seq(Outcomes) /\ Len(outcome_queue) \in Nat /\ Depth \in Nat
  BY DepthAssumption DEF TypeOK
<1>4. ~AssignQueue(t) => /\ assigned' = assigned
                         /\ \A u \in Clients \ {t} : u \in Promised' <=> u \in Promised
  <2>1. ~AssignQueue(t) => assigned' = assigned
    BY DEF create_job, reseed, TakeOutcome, BindList, SkipDuration, RollOutcome,
       AppendOutcome, DrawDuration, NewGenerator, ReseedDuration, ReseedRoll
  <2> QED
    BY <2>1, OthersStay DEF Promised, At
<1>5. CASE /\ ~AssignQueue(t) /\ ~TakeOutcome(t) /\ ~AppendOutcome(t)
  <2>1. t \in Promised' <=> t \in Promised
    BY <1>4, <1>5, OwnStep DEF create_job, reseed, Promised, At
  <2>2. Promised' = Promised
    BY <1>2, <1>4, <1>5, <2>1 DEF Promised
  <2>3. outcome_queue' = outcome_queue
    BY <1>5 DEF create_job, reseed, BindList, SkipDuration, RollOutcome,
       DrawDuration, NewGenerator, ReseedDuration, ReseedRoll
  <2> QED
    BY <2>2, <2>3 DEF Supplied
<1>6. CASE TakeOutcome(t)
  <2>1. ~AssignQueue(t) /\ t \notin Promised
    BY <1>6, OwnStep DEF Promised, At
  <2>2. CASE outcome_queue = <<>>
    <3>1. UNCHANGED <<outcome_queue, thread, assigned>>
      BY <1>6, <2>2 DEF TakeOutcome
    <3> QED
      BY <3>1 DEF Supplied, Promised, At
  <2>3. CASE outcome_queue # <<>>
    <3>1. t \in Promised'
      BY <1>6, <2>3, OwnStep DEF Promised, At
    <3>2. Promised' = Promised \cup {t}
      BY <1>2, <1>4, <2>1, <3>1 DEF Promised
    <3>3. Cardinality(Promised') = Cardinality(Promised) + 1
      BY <1>2, <2>1, <3>2, OneMoreOneLess
    <3>4. outcome_queue' = Tail(outcome_queue)
      BY <1>6, <2>3 DEF TakeOutcome
    <3>5. Len(outcome_queue') = Len(outcome_queue) - 1
      BY <1>3, <2>3, <3>4
    <3> QED
      BY <1>2, <1>3, <3>3, <3>5 DEF Supplied
  <2> QED
    BY <2>2, <2>3
<1>7. CASE AppendOutcome(t)
  <2>1. ~AssignQueue(t) /\ t \notin Promised'
    BY <1>7, OwnStep DEF Promised, At
  <2>2. thread[t] \in ThreadType /\ Len(thread[t].rolls) = 1
    BY <1>7, OwnStep DEF Rolled, TypeOK
  <2>3. thread[t].rolls \in Seq(Outcomes)
    BY <1>7, <2>2, OwnStep DEF ThreadType, Idle, At
  <2>4. CASE thread[t].list = assigned
    <3>1. t \in Promised
      BY <1>7, <2>4, OwnStep DEF Promised, At
    <3>2. Promised' = Promised \ {t}
      BY <1>2, <1>4, <2>1, <3>1 DEF Promised
    <3>3. Cardinality(Promised') = Cardinality(Promised) - 1
      BY <1>2, <3>1, <3>2, OneMoreOneLess
    <3>4. outcome_queue' = outcome_queue \o thread[t].rolls
      BY <1>7, <2>4 DEF AppendOutcome
    <3>5. \A p, q \in Seq(Outcomes) : Len(p \o q) = Len(p) + Len(q)
      OBVIOUS
    <3>6. Len(outcome_queue') = Len(outcome_queue) + 1
      BY <1>3, <2>2, <2>3, <3>4, <3>5
    <3> QED
      BY <1>2, <1>3, <3>3, <3>6 DEF Supplied
  <2>5. CASE thread[t].list # assigned
    <3>1. t \notin Promised
      BY <1>7, <2>5, OwnStep DEF Promised, At
    <3>2. Promised' = Promised
      BY <1>2, <1>4, <2>1, <3>1 DEF Promised
    <3>3. outcome_queue' = outcome_queue
      BY <1>7, <2>5 DEF AppendOutcome
    <3> QED
      BY <3>2, <3>3 DEF Supplied
  <2> QED
    BY <2>4, <2>5
<1>8. CASE AssignQueue(t)
  <2>1. Len(outcome_queue') = Depth
    BY <1>8, OwnStep DEF AssignQueue, Rolled, At
  <2>2. Cardinality(Promised') \in Nat
    <3> DEFINE S == Promised'
    <3>1. S \in SUBSET Clients
      BY DEF Promised
    <3> HIDE DEF S
    <3>2. Cardinality(S) \in Nat
      BY <3>1, OneMoreOneLess
    <3> QED
      BY <3>2 DEF S
  <2> QED
    BY <1>3, <2>1, <2>2 DEF Supplied
<1> QED
  BY <1>5, <1>6, <1>7, <1>8

-----------------------------------------------------------------------------
(* Replays *)

\* What Reference promises: two draws each for the first, then the second of
\* three.
LEMMA References ==
  /\ \A k \in Nat : k <= Depth => Reference(k) = 2 * k
  /\ \A n \in Nat : n > 0 => Reference(n + Depth) = Drawn(n - 1) + 2
  BY DepthAssumption DEF Reference, Drawn

\* Alone, a thread finds each draw in its place and leaves it there.
LEMMA LoneThread ==
  ASSUME TypeOK, TypeOK', Rolled, InStep, NEW t \in Clients, create_job(t) \/ reseed(t), ~raced',
         \A u \in Clients \ {t} : At(u, "idle"),
         NewGenerator(t) \/ ~raced
  PROVE  /\ \A k \in 1..Served' : brewed'[since' + k] = Outcome(k)'
         /\ At(t, "idle")' => rng'.drawn = Drawn(Served') /\ Ahead(Depth)'
         /\ Brewing(t)' /\ Refilling(t)'
<1>1. /\ Depth \in Nat /\ Depth > 0
      /\ outcome_queue \in Seq(Outcomes) /\ brewed \in Seq(Outcomes)
      /\ Len(brewed) \in Nat /\ since \in Nat /\ since <= Len(brewed) /\ Served \in Nat
      /\ rng \in [generator : 0..MaxReseeds, drawn : Nat] /\ rng.drawn \in Nat
  BY DepthAssumption DEF TypeOK, Served
<1> DEFINE g == rng.generator
           n == Served
           Made(k) == [generator |-> g, draw |-> Reference(k)]
<1>2. ~raced => /\ \A k \in 1..n : brewed[since + k] = Made(k)
                /\ At(t, "idle") => /\ rng.drawn = Drawn(n) /\ Len(outcome_queue) = Depth
                                    /\ \A k \in 1..Depth : outcome_queue[k] = Made(n + k)
                /\ Brewing(t) /\ Refilling(t)
  BY DEF InStep, Outcome, Ahead
<1>3. CASE TakeOutcome(t)
  <2>1. At(t, "idle") /\ ~raced
    BY <1>3, OwnStep DEF NewGenerator, At, TakeOutcome, Begin
  <2>2. /\ rng.drawn = Drawn(n) /\ Len(outcome_queue) = Depth
        /\ \A k \in 1..Depth : outcome_queue[k] = Made(n + k)
        /\ \A k \in 1..n : brewed[since + k] = Made(k)
    BY <1>2, <2>1
  <2>3. outcome_queue # <<>>
    BY <1>1, <2>2
  <2>4. /\ outcome_queue' = Tail(outcome_queue) /\ brewed' = Append(brewed, Head(outcome_queue))
        /\ UNCHANGED <<rng, assigned, since>>
    BY <1>3, <2>3 DEF TakeOutcome
  <2>5. At(t, "bind")' /\ thread'[t].rolls = <<>>
    BY <1>3, <2>3, OwnStep DEF At
  <2>6. /\ Len(outcome_queue') = Depth - 1
        /\ \A k \in 1..(Depth - 1) : outcome_queue'[k] = outcome_queue[k + 1]
        /\ Head(outcome_queue) = outcome_queue[1]
    BY <1>1, <2>2, <2>3, <2>4
  <2>7. /\ Len(brewed') = Len(brewed) + 1
        /\ \A k \in 1..Len(brewed) : brewed'[k] = brewed[k]
        /\ brewed'[Len(brewed) + 1] = Made(n + 1)
    BY <1>1, <2>2, <2>4, <2>6
  <2>8. Served' = n + 1
    BY <1>1, <2>4, <2>7 DEF Served
  <2>9. \A k \in 1..(n + 1) : brewed'[since + k] = Made(k)
    <3>1. \A k \in 1..n : since + k \in 1..Len(brewed)
      BY <1>1 DEF Served
    <3>2. since + (n + 1) = Len(brewed) + 1
      BY <1>1 DEF Served
    <3>3. \A k \in 1..n : brewed'[since + k] = Made(k)
      BY <2>2, <2>7, <3>1
    <3>4. brewed'[since + (n + 1)] = Made(n + 1)
      BY <2>7, <3>2
    <3>5. \A k \in 1..(n + 1) : k \in 1..n \/ k = n + 1
      BY <1>1
    <3> HIDE DEF Made, n
    <3> QED
      BY <3>3, <3>4, <3>5
  <2>10. \A k \in 1..(Depth - 1) : outcome_queue'[k] = Made((n + 1) + k)
    <3>1. \A k \in 1..(Depth - 1) : k + 1 \in 1..Depth /\ n + (k + 1) = (n + 1) + k
      BY <1>1
    <3> QED
      BY <2>2, <2>6, <3>1
  <2>11. rng'.drawn = Drawn(Served' - 1) /\ rng' = rng
    BY <1>1, <2>2, <2>4, <2>8
  <2>12. Ahead(Depth - 1)'
    BY <2>6, <2>8, <2>10, <2>11 DEF Ahead, Outcome
  <2>13. \A k \in 1..Served' : brewed'[since' + k] = Outcome(k)'
    BY <2>4, <2>8, <2>9 DEF Outcome
  <2>14. Served' > 0
    BY <1>1, <2>8
  <2> QED
    BY <2>5, <2>11, <2>12, <2>13, <2>14 DEF Brewing, Refilling, Rerolling, At
<1>4. CASE BindList(t) \/ SkipDuration(t) \/ RollOutcome(t)
  <2>1. ~raced /\ UNCHANGED <<outcome_queue, assigned, brewed, since>> /\ rng'.generator = g
    BY <1>1, <1>4 DEF NewGenerator, At, BindList, SkipDuration, RollOutcome, NextRng
  <2>2. Served' = n
    BY <2>1 DEF Served
  <2>3. \A k : Outcome(k)' = Made(k)
    BY <2>1 DEF Outcome
  <2>4. n > 0 /\ Ahead(Depth - 1)
    BY <1>2, <1>4, <2>1, OwnStep DEF Brewing, At
  <2>5. Ahead(Depth - 1)'
    BY <2>1, <2>2, <2>4 DEF Ahead, Outcome
  <2>6. \A k \in 1..Served' : brewed'[since' + k] = Outcome(k)'
    BY <1>2, <2>1, <2>2, <2>3
  <2>7. CASE BindList(t)
    <3>1. rng' = rng /\ rng.drawn = Drawn(n - 1)
      BY <1>2, <2>1, <2>7, OwnStep DEF BindList, Brewing, At
    <3>2. thread'[t].pc = "skip_duration" /\ thread'[t].list = assigned'
      BY <2>1, <2>7, OwnStep
    <3> QED
      BY <2>2, <2>4, <2>5, <2>6, <3>1, <3>2 DEF Brewing, Refilling, Rerolling, At
  <2>8. CASE SkipDuration(t)
    <3>1. rng'.drawn = rng.drawn + 1 /\ rng.drawn = Drawn(n - 1) /\ thread[t].list = assigned
      BY <1>1, <1>2, <2>1, <2>8, OwnStep DEF SkipDuration, NextRng, Brewing, At
    <3>2. thread'[t].pc = "roll" /\ thread'[t].list = assigned'
      BY <2>1, <2>8, <3>1, OwnStep
    <3> QED
      BY <2>2, <2>4, <2>5, <2>6, <3>1, <3>2 DEF Brewing, Refilling, Rerolling, At
  <2>9. CASE RollOutcome(t)
    <3>1. rng'.drawn = rng.drawn + 1 /\ rng.drawn = Drawn(n - 1) + 1 /\ thread[t].list = assigned
      BY <1>1, <1>2, <2>1, <2>9, OwnStep DEF RollOutcome, NextRng, Brewing, At
    <3>2. thread'[t].pc = "append" /\ thread'[t].list = assigned' /\ thread'[t].rolls = <<Draw>>
      BY <2>1, <2>9, <3>1, OwnStep
    <3>3. Drawn(n - 1) \in Nat
      BY <1>1, <2>4 DEF Drawn
    <3>4. rng'.drawn = Drawn(n - 1) + 2 /\ rng.drawn + 1 = Drawn(n - 1) + 2
      BY <3>1, <3>3
    <3>5. Draw = Made(n + Depth)
      BY <1>1, <2>4, <3>4, References DEF Draw
    <3>6. <<Draw>> = <<Outcome(Served + Depth)>>'
      BY <2>1, <2>2, <3>5 DEF Outcome
    <3> QED
      BY <2>2, <2>4, <2>5, <2>6, <3>2, <3>4, <3>6 DEF Brewing, Refilling, Rerolling, At
  <2> QED
    BY <1>4, <2>7, <2>8, <2>9
<1>5. CASE AppendOutcome(t)
  <2>1. /\ ~raced /\ UNCHANGED <<rng, assigned, brewed, since>> /\ At(t, "append")
        /\ At(t, "duration")'
    BY <1>5, OwnStep DEF NewGenerator, At, AppendOutcome
  <2>2. Served' = n
    BY <2>1 DEF Served
  <2>3. /\ n > 0 /\ Len(outcome_queue) = Depth - 1 /\ rng.drawn = Drawn(n - 1) + 2
        /\ \A k \in 1..(Depth - 1) : outcome_queue[k] = Made(n + k)
        /\ thread[t].list = assigned /\ thread[t].rolls = <<Made(n + Depth)>>
    BY <1>2, <2>1 DEF Brewing, Ahead, Outcome, At
  <2>4. outcome_queue' = outcome_queue \o <<Made(n + Depth)>>
    BY <1>5, <2>3 DEF AppendOutcome
  <2>5. /\ Len(outcome_queue') = Depth
        /\ \A k \in 1..(Depth - 1) : outcome_queue'[k] = outcome_queue[k]
        /\ outcome_queue'[Depth] = Made(n + Depth)
    <3>1. \A q \in Seq(Outcomes) : \A v :
            /\ Len(q \o <<v>>) = Len(q) + 1
            /\ \A k \in 1..Len(q) : (q \o <<v>>)[k] = q[k]
            /\ (q \o <<v>>)[Len(q) + 1] = v
      OBVIOUS
    <3>2. Len(outcome_queue) = Depth - 1 /\ Len(outcome_queue) + 1 = Depth
      BY <1>1, <2>3
    <3> HIDE DEF Made, n
    <3>3. PICK v : v = Made(n + Depth)
      OBVIOUS
    <3>4. outcome_queue' = outcome_queue \o <<v>>
      BY <2>4, <3>3
    <3>5. /\ Len(outcome_queue') = Len(outcome_queue) + 1
          /\ \A k \in 1..Len(outcome_queue) : outcome_queue'[k] = outcome_queue[k]
          /\ outcome_queue'[Len(outcome_queue) + 1] = v
      <4>1. outcome_queue \in Seq(Outcomes)
        BY <1>1
      <4> QED
        BY <4>1, <3>1, <3>4
    <3> QED
      BY <3>2, <3>3, <3>5
  <2>6. \A k \in 1..Depth : outcome_queue'[k] = Made(n + k)
    <3>1. \A k \in 1..Depth : k = Depth \/ k \in 1..(Depth - 1)
      BY <1>1
    <3> QED
      BY <2>3, <2>5, <3>1
  <2>7. Ahead(Depth)'
    BY <2>1, <2>2, <2>5, <2>6 DEF Ahead, Outcome
  <2>8. \A k \in 1..Served' : brewed'[since' + k] = Outcome(k)'
    BY <1>2, <2>1, <2>2 DEF Outcome
  <2> QED
    BY <2>1, <2>2, <2>3, <2>7, <2>8 DEF Brewing, Refilling, Rerolling, At
<1>6. CASE DrawDuration(t)
  <2>1. /\ ~raced /\ UNCHANGED <<outcome_queue, brewed, since>> /\ At(t, "duration")
        /\ At(t, "idle")' /\ rng'.generator = g /\ rng'.drawn = rng.drawn + 1
    BY <1>1, <1>6, OwnStep DEF NewGenerator, At, DrawDuration, NextRng
  <2>2. Served' = n
    BY <2>1 DEF Served
  <2>3. n > 0 /\ Ahead(Depth) /\ rng.drawn = Drawn(n - 1) + 2
    BY <1>2, <2>1 DEF Brewing, At
  <2>4. rng'.drawn = Drawn(n)
    BY <1>1, <2>1, <2>3 DEF Drawn
  <2>5. Ahead(Depth)'
    BY <2>1, <2>2, <2>3 DEF Ahead, Outcome
  <2>6. \A k \in 1..Served' : brewed'[since' + k] = Outcome(k)'
    BY <1>2, <2>1, <2>2 DEF Outcome
  <2> QED
    BY <2>1, <2>2, <2>4, <2>5, <2>6 DEF Brewing, Refilling, Rerolling, At
<1>7. CASE NewGenerator(t)
  <2>1. /\ Served' = 0 /\ rng'.drawn = 0 /\ thread'[t].pc = "reseed_duration"
        /\ thread'[t].rolls = <<>>
    BY <1>1, <1>7, OwnStep DEF NewGenerator, Served
  <2> QED
    BY <2>1 DEF Brewing, Refilling, Rerolling, At
<1>8. CASE ReseedDuration(t) \/ ReseedRoll(t)
  <2>1. /\ ~raced /\ UNCHANGED <<outcome_queue, brewed, since>>
        /\ thread[t].pc \in {"reseed_duration", "reseed_roll"}
        /\ rng'.generator = g /\ rng'.drawn = rng.drawn + 1
    BY <1>1, <1>8 DEF NewGenerator, At, ReseedDuration, ReseedRoll, NextRng
  <2>2. Served' = n /\ n = 0
    BY <1>2, <2>1 DEF Served, Refilling, Rerolling
  <2> DEFINE rolls == thread[t].rolls
  <2>3. /\ rolls \in Seq(Outcomes) /\ Len(rolls) \in Nat
        /\ thread'[t].rolls \in Seq(Outcomes) /\ Len(thread'[t].rolls) \in Nat
    <3>1. thread[t].pc # "idle" /\ thread'[t].pc # "idle"
      BY <1>8, <2>1, OwnStep
    <3>2. thread[t] \in ThreadType /\ thread'[t] \in ThreadType
      BY DEF TypeOK
    <3> QED
      BY <3>1, <3>2 DEF ThreadType, Idle
  <2>4. /\ \A k \in DOMAIN rolls : rolls[k] = Made(k)
        /\ rng.drawn = 2 * Len(rolls) + IF At(t, "reseed_roll") THEN 1 ELSE 0
        /\ Len(rolls) < Depth
    BY <1>2, <2>1 DEF Refilling, Rerolling, Outcome, Rolled
  <2>5. CASE ReseedDuration(t)
    <3>1. At(t, "reseed_duration") /\ thread'[t].pc = "reseed_roll" /\ thread'[t].rolls = rolls
      BY <2>5, OwnStep
    <3>2. rng'.drawn = 2 * Len(rolls) + 1
      BY <2>1, <2>3, <2>4, <3>1 DEF At
    <3> QED
      BY <2>1, <2>2, <2>4, <3>1, <3>2 DEF Brewing, Refilling, Rerolling, At, Outcome
  <2>6. CASE ReseedRoll(t)
    <3>1. /\ At(t, "reseed_roll") /\ thread'[t].pc \in {"reseed_duration", "assign"}
          /\ thread'[t].rolls = Append(rolls, Draw)
      BY <2>6, OwnStep
    <3>2. /\ Len(thread'[t].rolls) = Len(rolls) + 1
          /\ \A k \in 1..Len(rolls) : thread'[t].rolls[k] = rolls[k]
          /\ thread'[t].rolls[Len(rolls) + 1] = Draw
          /\ DOMAIN rolls = 1..Len(rolls)
          /\ DOMAIN thread'[t].rolls = 1..(Len(rolls) + 1)
      BY <2>3, <3>1
    <3>3. rng.drawn = 2 * Len(rolls) + 1 /\ rng'.drawn = 2 * (Len(rolls) + 1)
      BY <2>1, <2>3, <2>4, <3>1
    <3>4. Draw = Made(Len(rolls) + 1)
      <4>1. Reference(Len(rolls) + 1) = 2 * (Len(rolls) + 1)
        BY <1>1, <2>3, <2>4, References
      <4> QED
        BY <2>3, <3>3, <4>1 DEF Draw
    <3>5. \A k \in DOMAIN thread'[t].rolls : thread'[t].rolls[k] = Made(k)
      <4>1. \A k \in 1..(Len(rolls) + 1) : k = Len(rolls) + 1 \/ k \in 1..Len(rolls)
        BY <2>3
      <4> QED
        BY <2>4, <3>2, <3>4, <4>1
    <3>6. ~At(t, "reseed_roll")' /\ rng'.drawn = 2 * Len(thread'[t].rolls) + 0
      BY <2>3, <3>1, <3>2, <3>3 DEF At
    <3> QED
      BY <2>1, <2>2, <3>1, <3>5, <3>6 DEF Brewing, Refilling, Rerolling, At, Outcome
  <2> QED
    BY <1>8, <2>5, <2>6
<1>9. CASE AssignQueue(t)
  <2>1. /\ ~raced /\ UNCHANGED <<rng, brewed, since>> /\ outcome_queue' = thread[t].rolls
        /\ At(t, "assign") /\ At(t, "idle")'
    BY <1>9, OwnStep DEF NewGenerator, At, AssignQueue
  <2>2. Served' = n /\ n = 0
    BY <1>2, <2>1 DEF Served, Refilling, Rerolling, At
  <2>3. /\ \A k \in DOMAIN outcome_queue' : outcome_queue'[k] = Made(k)
        /\ Len(outcome_queue') = Depth /\ rng.drawn = 2 * Depth + 0
    BY <1>2, <2>1 DEF Refilling, Rerolling, Outcome, Rolled, At
  <2>4. DOMAIN outcome_queue' = 1..Depth
    BY <2>3 DEF TypeOK
  <2>5. Ahead(Depth)'
    <3>1. \A k \in 1..Depth : 0 + k = k
      BY <1>1
    <3> QED
      BY <2>1, <2>2, <2>3, <2>4, <3>1 DEF Ahead, Outcome
  <2>6. rng'.drawn = Drawn(0)
    BY <1>1, <2>1, <2>3 DEF Drawn
  <2> QED
    BY <2>1, <2>2, <2>5, <2>6 DEF Brewing, Refilling, Rerolling, At
<1> QED
  BY <1>3, <1>4, <1>5, <1>6, <1>7, <1>8, <1>9 DEF create_job, reseed

\* While no two handlers overlap, every draw has its place.
LEMMA InStepInv == TypeOK /\ TypeOK' /\ Rolled /\ InStep /\ [Next]_vars => InStep'
<1>1. ASSUME InStep, UNCHANGED vars PROVE InStep'
  BY <1>1 DEF InStep, vars, At, OthersBusy, Served, Outcome, Ahead, Brewing, Refilling
<1> SUFFICES ASSUME TypeOK, TypeOK', Rolled, InStep, NEW t \in Clients, create_job(t) \/ reseed(t),
                    ~raced'
             PROVE  InStep'
  BY <1>1 DEF Next, InStep
<1>2. /\ NewGenerator(t) \/ ~raced
      /\ \A u \in Clients \ {t} : At(u, "idle")
  <2>1. CASE TakeOutcome(t) \/ NewGenerator(t)
    BY <2>1 DEF TakeOutcome, NewGenerator, Begin, OthersBusy
  <2>2. CASE ~TakeOutcome(t) /\ ~NewGenerator(t)
    <3>1. ~raced /\ ~At(t, "idle")
      BY <2>2 DEF create_job, reseed, BindList, SkipDuration, RollOutcome, AppendOutcome,
         DrawDuration, ReseedDuration, ReseedRoll, AssignQueue, At
    <3> QED
      BY <3>1 DEF InStep, OthersBusy
  <2> QED
    BY <2>1, <2>2
<1>3. /\ \A k \in 1..Served' : brewed'[since' + k] = Outcome(k)'
      /\ At(t, "idle")' => rng'.drawn = Drawn(Served') /\ Ahead(Depth)'
      /\ Brewing(t)' /\ Refilling(t)'
  BY <1>2, LoneThread
<1>4. \A u \in Clients \ {t} : At(u, "idle")'
  BY <1>2, OthersStay DEF At
<1>5. \A u \in Clients \ {t} : Brewing(u)' /\ Refilling(u)'
  BY <1>4 DEF Brewing, Refilling, Rerolling, At
<1>6. \A u \in Clients : At(u, "idle")' \/ ~OthersBusy(u)'
  BY <1>4 DEF OthersBusy
<1> QED
  BY <1>3, <1>4, <1>5, <1>6 DEF InStep, Drawn

-----------------------------------------------------------------------------
(* The theorems *)

\* The invariant holds in the beginning.
LEMMA InitInv == Init => Inv
<1> SUFFICES ASSUME Init PROVE Inv
  OBVIOUS
<1>1. Depth \in Nat /\ Depth > 0 /\ MaxReseeds \in Nat
  BY DepthAssumption, PoolAssumption
<1>2. /\ outcome_queue \in Seq(Outcomes) /\ Len(outcome_queue) = Depth
      /\ \A k \in 1..Depth : outcome_queue[k] = [generator |-> 0, draw |-> 2 * k]
  <2>1. \A k \in 1..Depth : [generator |-> 0, draw |-> 2 * k] \in Outcomes
    BY <1>1 DEF Outcomes
  <2> QED
    BY <1>1, <2>1 DEF Init
<1>3. TypeOK
  <2>1. rng \in [generator : 0..MaxReseeds, drawn : Nat]
    BY <1>1 DEF Init
  <2>2. brewed \in Seq(Outcomes) /\ since \in 0..Len(brewed)
    BY DEF Init
  <2>3. thread \in [Clients -> ThreadType]
    BY DEF Init, ThreadType
  <2> QED
    BY <1>1, <1>2, <2>1, <2>2, <2>3 DEF Init, TypeOK
<1>4. \A t \in Clients : At(t, "idle") /\ thread[t].pc = "idle"
  BY DEF Init, Idle, At
<1>5. Rolled
  BY <1>4 DEF Rolled, At
<1>6. Counted
  <2>1. Reseeding = {}
    BY <1>4 DEF Reseeding, Rerolling
  <2> QED
    BY <2>1, FS_EmptySet DEF Init, Counted
<1>7. Supplied
  <2>1. Promised = {}
    BY <1>4 DEF Promised, At
  <2>2. Cardinality(Promised) = 0
    BY <2>1, FS_EmptySet
  <2> QED
    BY <1>1, <1>2, <2>2 DEF Supplied
<1>8. InStep
  <2>1. Served = 0
    BY DEF Init, Served
  <2>2. rng.drawn = Drawn(Served) /\ rng.generator = 0
    BY <1>1, <2>1 DEF Init, Drawn
  <2>3. \A k \in 1..Depth : Reference(Served + k) = 2 * k
    BY <1>1, <2>1, References
  <2>4. Ahead(Depth)
    BY <1>2, <2>2, <2>3 DEF Ahead, Outcome
  <2>5. \A t \in Clients : Brewing(t) /\ Refilling(t)
    BY <1>4 DEF Brewing, Refilling, Rerolling, At
  <2>6. \A k \in 1..Served : brewed[since + k] = Outcome(k)
    BY <2>1
  <2> QED
    BY <1>4, <2>2, <2>4, <2>5, <2>6 DEF InStep
<1> QED
  BY <1>3, <1>5, <1>6, <1>7, <1>8 DEF Inv

\* Every step keeps it.
LEMMA NextInv == Inv /\ [Next]_vars => Inv'
  BY TypeInv, CountedInv, RolledInv, SuppliedInv, InStepInv DEF Inv

\* Inv holds in every reachable state: each list in use is supplied, and while
\* handlers do not overlap, each draw of the generator has its place.
THEOREM Invariance == Spec => []Inv
  BY InitInv, NextInv, PTL DEF Spec

\* Every variable keeps the shape state.py gives it, and no more queues are
\* assigned than generators were made.
THEOREM TypeCorrect == Spec => []TypeOK
<1>1. Inv => TypeOK
  BY DEF Inv
<1> QED
  BY <1>1, Invariance, PTL

\* "Every cell replays the same failure sequence from --seed" (README.md): the
\* k-th brew after a reseed is decided by the draw Reference(k) names, for every
\* depth of the queue, as long as no two handlers overlap.
THEOREM SeedsReplay == Spec => []Replays
<1>1. Inv => Replays
  BY DEF Inv, InStep, Replays, Served, Outcome
<1> QED
  BY <1>1, Invariance, PTL

\* create_job's pop(0) finds the list empty only while Depth other brews owe it an
\* outcome, whatever reseeds overlap with them.
THEOREM NoneRefusedAlone == Spec => RefusedOnlyInACrowd
<1>1. ASSUME Inv, [Next]_vars PROVE refused' # refused => Cardinality(Owing) >= Depth
  <2> SUFFICES ASSUME refused' # refused PROVE Cardinality(Owing) >= Depth
    OBVIOUS
  <2>1. PICK t \in Clients : create_job(t) \/ reseed(t)
    BY <1>1 DEF Next, vars
  <2>2. TakeOutcome(t) /\ outcome_queue = <<>>
    BY <2>1 DEF create_job, reseed, TakeOutcome, BindList, SkipDuration, RollOutcome,
       AppendOutcome, DrawDuration, NewGenerator, ReseedDuration, ReseedRoll, AssignQueue
  <2>3. Depth <= Cardinality(Promised)
    <3>1. Promised \in SUBSET Clients
      BY DEF Promised
    <3>2. Cardinality(Promised) \in Nat /\ Len(outcome_queue) = 0
      BY <2>2, <3>1, OneMoreOneLess
    <3>3. Depth <= Len(outcome_queue) + Cardinality(Promised)
      BY <1>1 DEF Inv, Supplied
    <3> QED
      BY <3>2, <3>3
  <2>4. Promised \subseteq Owing /\ Owing \subseteq Clients
    BY DEF Promised, Owing, At
  <2>5. IsFiniteSet(Owing)
    BY <2>4, PoolAssumption, FS_Subset
  <2>6. Cardinality(Promised) <= Cardinality(Owing)
    BY <2>4, <2>5, FS_Subset
  <2>7. Cardinality(Promised) \in Nat /\ Cardinality(Owing) \in Nat
    BY <2>4, OneMoreOneLess
  <2> QED
    BY <2>3, <2>6, <2>7, DepthAssumption
<1> QED
  BY <1>1, Invariance, PTL DEF RefusedOnlyInACrowd, Spec
===============================================================================
