--------------------------- MODULE ObservatoryProofs ---------------------------
(***************************************************************************)
(* Proofs about Observatory, for all agents, texts, limits and bounds.     *)
(*                                                                         *)
(* What the swarm says of a message passes through the stream, the bus and *)
(* the poll to the panels.  Every piece of news has a place: first that    *)
(* there is a message, then that it was rejected, then the next message.   *)
(* `told` is the place up to which the runner has passed the news on.      *)
(***************************************************************************)
EXTENDS Observatory, TLAPS

Tells(x) == x.kind \in {"message", "correction", "fallback", "rejected"}

\* The fallback brings the rejection of the message before it as well.
Place(x) ==
    IF x.kind = "message" THEN 2 * x.ref
    ELSE IF x.kind = "fallback" THEN 2 * x.ref - 1
    ELSE 2 * x.ref + 1

PlaceShown(p) == IF p.role = "ai" THEN 2 * p.msg ELSE 2 * p.msg + 1

\* The stream may repeat a message, the bus repeats nothing.
InOrder(s) ==
    \A i, j \in DOMAIN s : i < j /\ Tells(s[i]) /\ Tells(s[j]) =>
        Place(s[i]) < Place(s[j]) \/ (s[i] = s[j] /\ s[i].kind = "message")

Rising(s) ==
    \A i, j \in DOMAIN s : i < j /\ Tells(s[i]) /\ Tells(s[j]) => Place(s[i]) < Place(s[j])

Before(s, t) ==
    \A d \in ToSet(s), e \in ToSet(t) : Tells(d) /\ Tells(e) => Place(d) < Place(e)

Streaming == {"stream", "seam", "paused"}

\* The stream is empty and the swarm idle unless the runner is in a turn.
Phase ==
    /\ is_running <=> run.pc # "off"
    /\ run.pc \notin Streaming => swarm.at = "off" /\ updates = <<>>
    /\ run.pc \notin {"off", "begin"} => run.thread # 0
    /\ run.pc = "off" => ~run.auto
    /\ run.pc \in {"begin", "open", "turn", "respond", "finish"} => run.auto
    /\ run.pc = "manual" => run.turns = 0
    /\ swarm.at = "judge" => messages # <<>>

\* What the stream says of orders is about those of this conversation.
OrdersOurs ==
    /\ \A u \in ToSet(updates) : u.kind \in {"order", "placed"} => orders[u.ref] = run.thread
    /\ run.auto /\ run.pc # "begin" /\ current_order_id # 0 =>
          orders[current_order_id] = run.thread

\* The stream has the news of the rejection.
Pending(m) == Update("correction", m) \in ToSet(updates) \/ Update("fallback", m + 1) \in ToSet(updates)

\* The stream has all news after `told`, in order; of what was told it has
\* repetitions only, which the runner knows.
Stream(told) ==
    /\ InOrder(updates)
    /\ \A u \in ToSet(updates) : Tells(u) =>
          told < Place(u) \/ (u.kind = "message" /\ u.ref \in run.seen)
    /\ \A m \in Messages : told < 2 * m =>
          Update("message", m) \in ToSet(updates) \/ Update("fallback", m) \in ToSet(updates)
    /\ \A m \in run.seen : 2 * m <= told
    /\ \A m \in Messages : Pending(m) => m \in Rejected
    /\ \A m \in Rejected : told < 2 * m + 1 => Pending(m)

\* Nothing comes after the message that is being judged.
UnderJudgement(told) ==
    swarm.at = "judge" =>
        /\ messages[Len(messages)].verdict = "open"
        /\ told < 2 * Len(messages) \/ (told = 2 * Len(messages) /\ Len(messages) \in run.seen)
        /\ \A u \in ToSet(updates) : Tells(u) => Place(u) <= 2 * Len(messages)

Way == ToSet(polled) \cup ToSet(bus)

\* What is on its way to the page is in order, and true.
OnItsWay(told) ==
    /\ Rising(polled) /\ Rising(bus) /\ Before(polled, bus)
    /\ \A e \in Way : Tells(e) => Place(e) <= told
    /\ \A e \in Way : e.kind = "rejected" => e.ref \in Rejected

\* The panels show what came before it.
Panels(told) ==
    /\ \A i, j \in DOMAIN page.panel : i < j => page.panel[i].msg < page.panel[j].msg
    /\ \A i \in DOMAIN page.panel : PlaceShown(page.panel[i]) <= told
    /\ \A i \in DOMAIN page.panel : \A e \in Way :
          Tells(e) => PlaceShown(page.panel[i]) < Place(e)
    /\ \A i \in DOMAIN page.panel :
          page.panel[i].role = "rejected_ai" => page.panel[i].msg \in Rejected

\* A message that was told of is on its way, or shown, or else the panels were
\* emptied after it.
NoGap(told) ==
    \A m \in Messages : 2 * m <= told =>
        \/ Event("message", m) \in Way
        \/ /\ \A e \in Way : Tells(e) => 2 * m < Place(e)
           /\ \/ \E i \in DOMAIN page.panel : page.panel[i].msg = m
              \/ \A i \in DOMAIN page.panel : m < page.panel[i].msg

\* The rejection of a message that is shown or will be is on its way.
Owed(told) ==
    \A m \in Rejected :
        /\ 2 * m + 1 <= told
        /\ \/ Event("message", m) \in Way
           \/ \E i \in DOMAIN page.panel : page.panel[i] = [msg |-> m, role |-> "ai"]
        => Event("rejected", m) \in Way

\* A reply that was rejected will be taken back.
TakenBack(told) ==
    run.pc \in Streaming /\ run.last \in Rejected => told < 2 * run.last + 1

PageHas(told) == OnItsWay(told) /\ Panels(told) /\ NoGap(told) /\ Owed(told)

News(told) == Stream(told) /\ UnderJudgement(told) /\ PageHas(told) /\ TakenBack(told)

\* The inductive invariant.
Inv ==
    /\ TypeOK /\ Phase /\ OrdersOurs /\ ReplyStands
    /\ \E told \in 0..(2 * Len(messages) + 1) : News(told)

-----------------------------------------------------------------------------
(* Sequences *)

\* One sequence after another.
LEMMA Joined ==
  ASSUME NEW S, NEW p \in Seq(S), NEW q \in Seq(S)
  PROVE  /\ p \o q \in Seq(S) /\ Len(p \o q) = Len(p) + Len(q)
         /\ \A k \in 1..Len(p) : (p \o q)[k] = p[k]
         /\ \A k \in 1..Len(q) : (p \o q)[Len(p) + k] = q[k]
         /\ \A k \in (Len(p) + 1)..(Len(p) + Len(q)) :
               k - Len(p) \in 1..Len(q) /\ (p \o q)[k] = q[k - Len(p)]
         /\ ToSet(p \o q) = ToSet(p) \cup ToSet(q)
<1>1. /\ p \o q \in Seq(S) /\ Len(p \o q) = Len(p) + Len(q)
      /\ \A k \in 1..Len(p) : (p \o q)[k] = p[k]
      /\ \A k \in 1..Len(q) : (p \o q)[Len(p) + k] = q[k]
      /\ Len(p) \in Nat /\ Len(q) \in Nat
      /\ DOMAIN p = 1..Len(p) /\ DOMAIN q = 1..Len(q) /\ DOMAIN (p \o q) = 1..(Len(p) + Len(q))
  OBVIOUS
<1>2. ASSUME NEW k \in (Len(p) + 1)..(Len(p) + Len(q))
      PROVE  k - Len(p) \in 1..Len(q) /\ (p \o q)[k] = q[k - Len(p)]
  <2>1. k - Len(p) \in 1..Len(q) /\ k = Len(p) + (k - Len(p))
    BY <1>1
  <2> QED
    BY <1>1, <2>1
<1>3. ToSet(p \o q) \subseteq ToSet(p) \cup ToSet(q)
  <2> SUFFICES ASSUME NEW k \in 1..(Len(p) + Len(q))
               PROVE  (p \o q)[k] \in ToSet(p) \cup ToSet(q)
    BY <1>1 DEF ToSet
  <2>1. CASE k \in 1..Len(p)
    BY <1>1, <2>1 DEF ToSet
  <2>2. CASE k \in (Len(p) + 1)..(Len(p) + Len(q))
    BY <1>1, <1>2, <2>2 DEF ToSet
  <2> QED
    BY <1>1, <2>1, <2>2
<1>4. ToSet(p) \subseteq ToSet(p \o q)
  <2>1. 1..Len(p) \subseteq 1..(Len(p) + Len(q))
    BY <1>1
  <2> QED
    BY <1>1, <2>1 DEF ToSet
<1>5. ToSet(q) \subseteq ToSet(p \o q)
  <2>1. \A k \in 1..Len(q) : Len(p) + k \in 1..(Len(p) + Len(q))
    BY <1>1
  <2> QED
    BY <1>1, <2>1 DEF ToSet
<1> QED
  BY <1>1, <1>2, <1>3, <1>4, <1>5

\* The first element, and the rest.
LEMMA Taken ==
  ASSUME NEW S, NEW s \in Seq(S), s # <<>>
  PROVE  /\ Head(s) \in S /\ Tail(s) \in Seq(S)
         /\ 1 \in DOMAIN s /\ Head(s) = s[1]
         /\ \A k \in DOMAIN Tail(s) : k + 1 \in DOMAIN s /\ k + 1 > 1 /\ Tail(s)[k] = s[k + 1]
         /\ \A k, l \in DOMAIN Tail(s) : k < l => k + 1 < l + 1
         /\ ToSet(s) = {Head(s)} \cup ToSet(Tail(s))
<1>1. /\ Len(s) \in Nat \ {0} /\ DOMAIN s = 1..Len(s) /\ Head(s) = s[1] /\ Head(s) \in S
      /\ Tail(s) \in Seq(S) /\ Len(Tail(s)) = Len(s) - 1 /\ DOMAIN Tail(s) = 1..(Len(s) - 1)
      /\ \A k \in 1..(Len(s) - 1) : Tail(s)[k] = s[k + 1]
  OBVIOUS
<1>2. /\ \A k \in 1..(Len(s) - 1) : k + 1 \in 1..Len(s) /\ k + 1 > 1
      /\ \A k, l \in 1..(Len(s) - 1) : k < l => k + 1 < l + 1
      /\ 1 \in 1..Len(s)
  BY <1>1
<1>3. \A k \in 1..Len(s) : k = 1 \/ (k - 1 \in 1..(Len(s) - 1) /\ (k - 1) + 1 = k)
  BY <1>1
<1>4. ToSet(s) \subseteq {Head(s)} \cup ToSet(Tail(s))
  <2> SUFFICES ASSUME NEW k \in 1..Len(s) PROVE s[k] \in {Head(s)} \cup ToSet(Tail(s))
    BY <1>1 DEF ToSet
  <2>1. CASE k = 1
    BY <1>1, <2>1
  <2>2. CASE k - 1 \in 1..(Len(s) - 1) /\ (k - 1) + 1 = k
    <3>1. Tail(s)[k - 1] = s[k]
      BY <1>1, <2>2
    <3> QED
      BY <1>1, <2>2, <3>1 DEF ToSet
  <2> QED
    BY <1>3, <2>1, <2>2
<1>5. {Head(s)} \cup ToSet(Tail(s)) \subseteq ToSet(s)
  BY <1>1, <1>2 DEF ToSet
<1> QED
  BY <1>1, <1>2, <1>4, <1>5

\* Order is kept by the rest, whose news come after the first.
LEMMA OrderOfRest ==
  ASSUME NEW S, NEW s \in Seq(S), s # <<>>
  PROVE  /\ InOrder(s) => InOrder(Tail(s))
         /\ InOrder(s) => \A u \in ToSet(Tail(s)) : Tells(Head(s)) /\ Tells(u) =>
               Place(Head(s)) < Place(u) \/ (u = Head(s) /\ u.kind = "message")
         /\ Rising(s) => Rising(Tail(s))
         /\ Rising(s) => \A e \in ToSet(Tail(s)) : Tells(Head(s)) /\ Tells(e) =>
               Place(Head(s)) < Place(e)
<1>1. /\ 1 \in DOMAIN s /\ Head(s) = s[1]
      /\ \A k \in DOMAIN Tail(s) : k + 1 \in DOMAIN s /\ 1 < k + 1 /\ Tail(s)[k] = s[k + 1]
      /\ \A k, l \in DOMAIN Tail(s) : k < l => k + 1 < l + 1
  <2>1. \A k \in DOMAIN Tail(s) : k \in Nat
    OBVIOUS
  <2> QED
    BY Taken, <2>1
<1>2. \A u \in ToSet(Tail(s)) : \E k \in DOMAIN Tail(s) : u = Tail(s)[k]
  BY DEF ToSet
<1>3. InOrder(s) => InOrder(Tail(s))
  BY <1>1 DEF InOrder
<1>4. Rising(s) => Rising(Tail(s))
  BY <1>1 DEF Rising
<1>5. ASSUME InOrder(s), NEW u \in ToSet(Tail(s)), Tells(Head(s)), Tells(u)
      PROVE  Place(Head(s)) < Place(u) \/ (u = Head(s) /\ u.kind = "message")
  BY <1>1, <1>2, <1>5 DEF InOrder
<1>6. ASSUME Rising(s), NEW e \in ToSet(Tail(s)), Tells(Head(s)), Tells(e)
      PROVE  Place(Head(s)) < Place(e)
  BY <1>1, <1>2, <1>6 DEF Rising
<1> QED
  BY <1>3, <1>4, <1>5, <1>6

\* Two sequences in order are one, if the news of the first come first.
LEMMA OrderJoined ==
  ASSUME NEW S, NEW p \in Seq(S), NEW q \in Seq(S)
  PROVE  /\ /\ InOrder(p) /\ InOrder(q)
            /\ \A d \in ToSet(p), e \in ToSet(q) : Tells(d) /\ Tells(e) =>
                  Place(d) < Place(e) \/ (d = e /\ d.kind = "message")
            => InOrder(p \o q)
         /\ Rising(p) /\ Rising(q) /\ Before(p, q) => Rising(p \o q)
<1> DEFINE n == Len(p)
           m == Len(q)
<1>1. /\ n \in Nat /\ m \in Nat /\ DOMAIN p = 1..n /\ DOMAIN q = 1..m
      /\ DOMAIN (p \o q) = 1..(n + m)
      /\ \A k \in 1..n : (p \o q)[k] = p[k]
      /\ \A k \in (n + 1)..(n + m) : k - n \in 1..m /\ (p \o q)[k] = q[k - n]
  <2>1. /\ p \o q \in Seq(S) /\ Len(p \o q) = n + m
        /\ \A k \in 1..n : (p \o q)[k] = p[k]
        /\ \A k \in (n + 1)..(n + m) : k - n \in 1..m /\ (p \o q)[k] = q[k - n]
    BY Joined
  <2> QED
    BY <2>1
<1> HIDE DEF n, m
<1>2. ASSUME NEW i \in 1..(n + m), NEW j \in 1..(n + m), i < j
      PROVE  \/ i \in 1..n /\ j \in 1..n
             \/ i \in 1..n /\ j \in (n + 1)..(n + m)
             \/ i \in (n + 1)..(n + m) /\ j \in (n + 1)..(n + m) /\ i - n < j - n
  BY <1>1, <1>2
<1>3. /\ \A k \in 1..n : p[k] \in ToSet(p)
      /\ \A k \in 1..m : q[k] \in ToSet(q)
  BY <1>1 DEF ToSet
<1>4. ASSUME InOrder(p), InOrder(q),
             \A d \in ToSet(p), e \in ToSet(q) : Tells(d) /\ Tells(e) =>
                Place(d) < Place(e) \/ (d = e /\ d.kind = "message")
      PROVE  InOrder(p \o q)
  <2> SUFFICES ASSUME NEW i \in 1..(n + m), NEW j \in 1..(n + m), i < j,
                      Tells((p \o q)[i]), Tells((p \o q)[j])
               PROVE  \/ Place((p \o q)[i]) < Place((p \o q)[j])
                      \/ (p \o q)[i] = (p \o q)[j] /\ (p \o q)[i].kind = "message"
    BY <1>1 DEF InOrder
  <2>1. CASE i \in 1..n /\ j \in 1..n
    BY <1>1, <1>4, <2>1 DEF InOrder
  <2>2. CASE i \in 1..n /\ j \in (n + 1)..(n + m)
    BY <1>1, <1>3, <1>4, <2>2
  <2>3. CASE i \in (n + 1)..(n + m) /\ j \in (n + 1)..(n + m) /\ i - n < j - n
    <3>1. /\ i - n \in DOMAIN q /\ j - n \in DOMAIN q
          /\ (p \o q)[i] = q[i - n] /\ (p \o q)[j] = q[j - n]
      BY <1>1, <2>3
    <3> QED
      BY <1>4, <2>3, <3>1 DEF InOrder
  <2> QED
    BY <1>2, <2>1, <2>2, <2>3
<1>5. ASSUME Rising(p), Rising(q), Before(p, q)
      PROVE  Rising(p \o q)
  <2> SUFFICES ASSUME NEW i \in 1..(n + m), NEW j \in 1..(n + m), i < j,
                      Tells((p \o q)[i]), Tells((p \o q)[j])
               PROVE  Place((p \o q)[i]) < Place((p \o q)[j])
    BY <1>1 DEF Rising
  <2>1. CASE i \in 1..n /\ j \in 1..n
    BY <1>1, <1>5, <2>1 DEF Rising
  <2>2. CASE i \in 1..n /\ j \in (n + 1)..(n + m)
    BY <1>1, <1>3, <1>5, <2>2 DEF Before
  <2>3. CASE i \in (n + 1)..(n + m) /\ j \in (n + 1)..(n + m) /\ i - n < j - n
    <3>1. /\ i - n \in DOMAIN q /\ j - n \in DOMAIN q
          /\ (p \o q)[i] = q[i - n] /\ (p \o q)[j] = q[j - n]
      BY <1>1, <2>3
    <3> QED
      BY <1>5, <2>3, <3>1 DEF Rising
  <2> QED
    BY <1>2, <2>1, <2>2, <2>3
<1> QED
  BY <1>4, <1>5

\* Short sequences.
LEMMA Short ==
  ASSUME NEW S, NEW d \in S, NEW e \in S
  PROVE  /\ <<>> \in Seq(S) /\ ToSet(<<>>) = {} /\ InOrder(<<>>) /\ Rising(<<>>)
         /\ <<d>> \in Seq(S) /\ ToSet(<<d>>) = {d} /\ InOrder(<<d>>) /\ Rising(<<d>>)
         /\ <<d, e>> \in Seq(S) /\ ToSet(<<d, e>>) = {d, e}
         /\ Place(d) < Place(e) => InOrder(<<d, e>>) /\ Rising(<<d, e>>)
<1>1. DOMAIN <<>> = {} /\ <<>> \in Seq(S)
  OBVIOUS
<1>2. DOMAIN <<d>> = {1} /\ <<d>>[1] = d /\ <<d>> \in Seq(S)
  OBVIOUS
<1>3. DOMAIN <<d, e>> = {1, 2} /\ <<d, e>>[1] = d /\ <<d, e>>[2] = e /\ <<d, e>> \in Seq(S)
  OBVIOUS
<1>4. ToSet(<<>>) = {} /\ InOrder(<<>>) /\ Rising(<<>>)
  BY <1>1 DEF ToSet, InOrder, Rising
<1>5. ToSet(<<d>>) = {d} /\ InOrder(<<d>>) /\ Rising(<<d>>)
  <2>1. \A i, j \in DOMAIN <<d>> : ~(i < j)
    BY <1>2
  <2> QED
    BY <1>2, <2>1 DEF ToSet, InOrder, Rising
<1>6. ToSet(<<d, e>>) = {d, e}
  BY <1>3 DEF ToSet
<1>7. ASSUME Place(d) < Place(e) PROVE InOrder(<<d, e>>) /\ Rising(<<d, e>>)
  <2>1. \A i, j \in DOMAIN <<d, e>> : i < j => i = 1 /\ j = 2
    BY <1>3
  <2> QED
    BY <1>3, <1>7, <2>1 DEF InOrder, Rising
<1> QED
  BY <1>1, <1>2, <1>3, <1>4, <1>5, <1>6, <1>7

-----------------------------------------------------------------------------
(* Types *)

MessageType == [text : Texts \cup {"fallback"}, verdict : {"open", "approved", "rejected"}]

RunType ==
    [pc : {"off", "begin", "open", "manual", "turn", "stream", "seam",
           "paused", "respond", "finish", "feedback", "closing"},
     auto : BOOLEAN, thread : 0..threads, turns : 0..MaxTurns,
     last : Messages \cup {0}, seen : SUBSET Messages,
     handoff : (Agents \X Agents) \cup {<<>>}]

SwarmType ==
    [at : {"off", "llm", "judge", "handing", "over"}, agent : Agents,
     retries : 0..MaxRetries, transfers : 0..MaxTransfers]

EntryType == [msg : Messages, role : {"ai", "rejected_ai"}]

PageType == [panel : Seq(EntryType), button : Orders \cup {0}]

ClickType == [count : 0..MaxClicks, taking : Orders \cup {0}]

FieldsTyped ==
    /\ is_running \in BOOLEAN
    /\ pause_on_next_handover \in BOOLEAN
    /\ resume_event \in BOOLEAN
    /\ current_order_id \in Orders \cup {0}
    /\ threads \in Nat /\ manual_thread_id \in 1..threads

QueuesTyped ==
    /\ updates \in Seq(UpdateType)
    /\ bus \in Seq(EventType)
    /\ polled \in Seq(EventType)

WorldTyped ==
    /\ messages \in Seq(MessageType)
    /\ orders \in Seq(1..threads)
    /\ trays \subseteq Orders

LEMMA Typed ==
  TypeOK <=> /\ FieldsTyped /\ run \in RunType /\ swarm \in SwarmType /\ QueuesTyped
             /\ page \in PageType /\ click \in ClickType /\ WorldTyped
BY DEF TypeOK, FieldsTyped, RunType, SwarmType, QueuesTyped, PageType, EntryType, ClickType,
       WorldTyped, MessageType

\* A sequence over a set is one over a larger set.
LEMMA Wider == \A S, T : S \subseteq T => Seq(S) \subseteq Seq(T)
OBVIOUS

LEMMA SwarmKept ==
  ASSUME TypeOK, Next
  PROVE  swarm' \in SwarmType
<1> USE SwarmAssumption
<1>0. MaxRetries \in Nat /\ MaxTransfers \in Nat
  OBVIOUS
<1>1. swarm \in SwarmType
  BY Typed
<1>2. NoSwarm \in SwarmType /\ [NoSwarm EXCEPT !.at = "llm"] \in SwarmType
  BY DEF NoSwarm, SwarmType
<1>3. Other(swarm.agent) \in Agents
  BY <1>1 DEF Other, SwarmType
<1>4. CASE Swarm
  <2>1. ASSUME \/ \E text \in Texts : Says(text)
               \/ Approves \/ RejectsAtCap \/ PlacesOrder \/ TakesOver \/ Fails
               \/ \E o \in DOMAIN orders : PlacesOnTray(o)
        PROVE  swarm' \in SwarmType
    BY <1>1, <2>1 DEF Says, Approves, RejectsAtCap, PlacesOrder, TakesOver, Fails,
       PlacesOnTray, SwarmType
  <2>2. CASE Rejects
    <3>1. swarm' = [swarm EXCEPT !.at = "llm", !.retries = swarm.retries + 1]
      BY <2>2 DEF Rejects
    <3>2. swarm.retries + 1 \in 0..MaxRetries
      BY <1>0, <1>1, <2>2 DEF Rejects, SwarmType
    <3> QED
      BY <1>1, <3>1, <3>2 DEF SwarmType
  <2>3. CASE HandsOver
    <3>1. swarm' = [swarm EXCEPT !.at = "handing", !.agent = Other(swarm.agent),
                                 !.retries = 0, !.transfers = swarm.transfers + 1]
      BY <2>3 DEF HandsOver
    <3>2. swarm.transfers + 1 \in 0..MaxTransfers /\ 0 \in 0..MaxRetries
      BY <1>0, <1>1, <2>3 DEF HandsOver, SwarmType
    <3> QED
      BY <1>1, <1>3, <3>1, <3>2 DEF SwarmType
  <2> QED
    BY <1>4, <2>1, <2>2, <2>3 DEF Swarm
<1>5. CASE Runner
  <2>1. ASSUME NextTurn \/ run_manual_turn PROVE swarm' \in SwarmType
    BY <1>2, <2>1 DEF NextTurn, run_manual_turn, BeginStream
  <2>2. ASSUME StreamEnds \/ RunFails PROVE swarm' \in SwarmType
    BY <1>2, <2>2 DEF StreamEnds, RunFails
  <2>3. ASSUME ~(NextTurn \/ run_manual_turn), ~(StreamEnds \/ RunFails)
        PROVE  swarm' = swarm
    BY <1>5, <2>3 DEF Runner, run_conversation, get_initial_message, TooManyTurns, on_message,
       on_correction, on_fallback, on_handoff, on_tool_result, on_error, wait_for_resume, Resumed,
       PauseTimesOut, respond_to, FinishTurns, capture_feedback, RunCloses
  <2> QED
    BY <1>1, <2>1, <2>2, <2>3
<1>6. CASE Page
  <2>1. swarm' = swarm
    BY <1>6 DEF Page, on_run, on_send, on_end_conversation, on_take_tray, consume_tray,
       on_pause_toggle, on_setup_change, poll_events, DispatchNext
  <2> QED
    BY <1>1, <2>1
<1> QED
  BY <1>4, <1>5, <1>6 DEF Next

\* A verdict changes nothing but the verdict of the last message.
LEMMA Verdicts ==
  ASSUME TypeOK, NEW v \in {"approved", "rejected"}
  PROVE  /\ Judged(v) \in Seq(MessageType) /\ DOMAIN Judged(v) = DOMAIN messages
         /\ Len(Judged(v)) = Len(messages)
         /\ \A k \in Messages : k # Len(messages) => Judged(v)[k] = messages[k]
         /\ messages # <<>> => Judged(v)[Len(messages)].verdict = v
<1>1. /\ messages \in Seq(MessageType)
      /\ DOMAIN messages = 1..Len(messages) /\ Len(messages) \in Nat
      /\ \A i \in 1..Len(messages) : messages[i] \in MessageType
      /\ messages # <<>> => Len(messages) \in 1..Len(messages)
  BY Typed DEF WorldTyped
<1>2. \A m \in MessageType :
         [m EXCEPT !.verdict = v] \in MessageType /\ [m EXCEPT !.verdict = v].verdict = v
  BY DEF MessageType
<1>3. Judged(v) = [messages EXCEPT ![Len(messages)] =
                     [messages[Len(messages)] EXCEPT !.verdict = v]]
  BY DEF Judged
<1>4. Judged(v) \in [1..Len(messages) -> MessageType]
  BY <1>1, <1>2, <1>3
<1> QED
  BY <1>1, <1>2, <1>3, <1>4 DEF Messages

\* What the agents did stays, and there may be more of it.
LEMMA WorldGrows ==
  ASSUME TypeOK, Phase, Next
  PROVE  /\ WorldTyped'
         /\ Messages \subseteq Messages' /\ Len(messages) <= Len(messages')
         /\ Orders \subseteq Orders'
         /\ threads \in Nat /\ threads' \in Nat /\ threads <= threads'
         /\ \A o \in Orders : orders'[o] = orders[o]
<1>1. /\ messages \in Seq(MessageType) /\ orders \in Seq(1..threads) /\ trays \subseteq Orders
      /\ threads \in Nat /\ run \in RunType
  BY Typed DEF WorldTyped, FieldsTyped
<1>2. threads' \in Nat /\ threads <= threads' /\ (orders' # orders => threads' = threads)
  <2>1. CASE Swarm
    <3>1. threads' = threads
      BY <2>1 DEF Swarm, Says, Approves, Rejects, RejectsAtCap, PlacesOrder, TakesOver, Fails,
         PlacesOnTray, HandsOver, fields
    <3> QED
      BY <1>1, <3>1
  <2>2. CASE Runner
    <3>1. orders' = orders /\ (threads' = threads \/ threads' = threads + 1)
      BY <2>2 DEF Runner, run_conversation, get_initial_message, TooManyTurns, on_message,
         on_correction, on_fallback, on_handoff, on_tool_result, on_error, wait_for_resume,
         Resumed, PauseTimesOut, respond_to, FinishTurns, capture_feedback, RunCloses, NextTurn,
         run_manual_turn, StreamEnds, RunFails, fields, world
    <3> QED
      BY <1>1, <3>1
  <2>3. CASE Page
    <3>1. orders' = orders /\ (threads' = threads \/ threads' = threads + 1)
      BY <2>3 DEF Page, on_run, on_send, on_end_conversation, on_take_tray, consume_tray,
         on_pause_toggle, on_setup_change, poll_events, DispatchNext, fields, world
    <3> QED
      BY <1>1, <3>1
  <2> QED
    BY <2>1, <2>2, <2>3 DEF Next
<1>3. /\ messages' \in Seq(MessageType) /\ Messages \subseteq Messages'
      /\ Len(messages) <= Len(messages')
  <2>1. ASSUME NEW v \in {"approved", "rejected"}
        PROVE  /\ Judged(v) \in Seq(MessageType) /\ DOMAIN Judged(v) = DOMAIN messages
               /\ Len(Judged(v)) = Len(messages)
    BY Verdicts
  <2>2. \A s \in Seq(MessageType), m \in MessageType :
           /\ Append(s, m) \in Seq(MessageType)
           /\ Len(Append(s, m)) = Len(s) + 1 /\ Len(s) \in Nat
           /\ DOMAIN Append(s, m) = 1..(Len(s) + 1) /\ DOMAIN s = 1..Len(s)
    OBVIOUS
  <2>3. \A s \in Seq(MessageType), m \in MessageType :
           DOMAIN s \subseteq DOMAIN Append(s, m) /\ Len(s) <= Len(Append(s, m))
    BY <2>2
  <2>4. ASSUME NEW text \in Texts, Says(text)
        PROVE  /\ messages' \in Seq(MessageType) /\ Messages \subseteq Messages'
               /\ Len(messages) <= Len(messages')
    <3>1. [text |-> text, verdict |-> "open"] \in MessageType
      BY DEF MessageType
    <3> QED
      BY <1>1, <2>2, <2>3, <2>4, <3>1 DEF Says, Messages
  <2>5. ASSUME Approves \/ Rejects
        PROVE  /\ messages' \in Seq(MessageType) /\ Messages \subseteq Messages'
               /\ Len(messages) <= Len(messages')
    <3>1. messages' = Judged("approved") \/ messages' = Judged("rejected")
      BY <2>5 DEF Approves, Rejects
    <3>2. Len(messages) <= Len(messages)
      BY <1>1, <2>2
    <3> QED
      BY <2>1, <3>1, <3>2 DEF Messages
  <2>6. CASE RejectsAtCap
    <3>1. [text |-> "fallback", verdict |-> "approved"] \in MessageType
      BY DEF MessageType
    <3>2. messages' = Append(Judged("rejected"), [text |-> "fallback", verdict |-> "approved"])
      BY <2>6 DEF RejectsAtCap
    <3> QED
      BY <2>1, <2>2, <2>3, <3>1, <3>2 DEF Messages
  <2>7. ASSUME ~(\E text \in Texts : Says(text)), ~(Approves \/ Rejects), ~RejectsAtCap
        PROVE  messages' = messages
    BY <2>7 DEF Next, Swarm, PlacesOrder, TakesOver, Fails, PlacesOnTray, HandsOver, world,
       Runner, run_conversation, get_initial_message, TooManyTurns, on_message,
       on_correction, on_fallback, on_handoff, on_tool_result, on_error, wait_for_resume,
       Resumed, PauseTimesOut, respond_to, FinishTurns, capture_feedback, RunCloses, NextTurn,
       run_manual_turn, StreamEnds, RunFails,
       Page, on_run, on_send, on_end_conversation, on_take_tray, consume_tray,
       on_pause_toggle, on_setup_change, poll_events, DispatchNext
  <2> QED
    BY <1>1, <2>2, <2>4, <2>5, <2>6, <2>7 DEF Messages
<1>4. /\ orders' \in Seq(1..threads') /\ Orders \subseteq Orders'
      /\ \A o \in Orders : orders'[o] = orders[o]
  <2>1. CASE PlacesOrder
    <3>1. run.thread \in 1..threads
      BY <1>1, <2>1 DEF PlacesOrder, SwarmAt, Phase, Streaming, RunType
    <3>2. orders' = Append(orders, run.thread) /\ threads' = threads
      BY <2>1 DEF PlacesOrder, fields
    <3> QED
      BY <1>1, <3>1, <3>2 DEF Orders
  <2>2. CASE ~PlacesOrder
    <3>1. orders' = orders
      BY <2>2 DEF Next, Swarm, Says, Approves, Rejects, RejectsAtCap, TakesOver, Fails,
         PlacesOnTray, HandsOver, world,
         Runner, run_conversation, get_initial_message, TooManyTurns, on_message,
         on_correction, on_fallback, on_handoff, on_tool_result, on_error, wait_for_resume,
         Resumed, PauseTimesOut, respond_to, FinishTurns, capture_feedback, RunCloses, NextTurn,
         run_manual_turn, StreamEnds, RunFails,
         Page, on_run, on_send, on_end_conversation, on_take_tray, consume_tray,
         on_pause_toggle, on_setup_change, poll_events, DispatchNext
    <3>2. 1..threads \subseteq 1..threads'
      BY <1>1, <1>2
    <3> QED
      BY <1>1, <3>1, <3>2, Wider DEF Orders
  <2> QED
    BY <2>1, <2>2
<1>5. trays' \subseteq Orders'
  <2>1. \/ trays' \subseteq trays
        \/ \E o \in DOMAIN orders : trays' = trays \cup {o}
    BY DEF Next, Swarm, Says, Approves, Rejects, RejectsAtCap, TakesOver, Fails,
       PlacesOnTray, HandsOver, world, PlacesOrder,
       Runner, run_conversation, get_initial_message, TooManyTurns, on_message,
       on_correction, on_fallback, on_handoff, on_tool_result, on_error, wait_for_resume,
       Resumed, PauseTimesOut, respond_to, FinishTurns, capture_feedback, RunCloses, NextTurn,
       run_manual_turn, StreamEnds, RunFails,
       Page, on_run, on_send, on_end_conversation, on_take_tray, consume_tray,
       on_pause_toggle, on_setup_change, poll_events, DispatchNext
  <2> QED
    BY <1>1, <1>4, <2>1 DEF Orders
<1> QED
  BY <1>1, <1>2, <1>3, <1>4, <1>5 DEF WorldTyped

LEMMA TypesGrow ==
  ASSUME TypeOK, Phase, Next
  PROVE  UpdateType \subseteq UpdateType' /\ EventType \subseteq EventType'
         /\ RunType \subseteq RunType' /\ EntryType \subseteq EntryType'
         /\ PageType \subseteq PageType'
<1>1. /\ Messages \subseteq Messages' /\ Orders \subseteq Orders'
      /\ threads \in Nat /\ threads' \in Nat /\ threads <= threads'
  BY WorldGrows
<1>2. UpdateType \subseteq UpdateType' /\ EventType \subseteq EventType'
  BY <1>1 DEF UpdateType, EventType, Update
<1>3. EntryType \subseteq EntryType'
  BY <1>1 DEF EntryType
<1>4. PageType \subseteq PageType'
  <2>1. Seq(EntryType) \subseteq Seq(EntryType')
    BY <1>3, Wider
  <2> QED
    BY <1>1, <2>1 DEF PageType
<1>5. RunType \subseteq RunType'
  <2>1. 0..threads \subseteq 0..threads'
    BY <1>1
  <2> QED
    BY <1>1, <2>1 DEF RunType
<1> QED
  BY <1>2, <1>3, <1>4, <1>5

\* The head of what waits, and the events made of it, are of their types.
LEMMA HeadTyped ==
  ASSUME TypeOK, updates # <<>>
  PROVE  /\ Head(updates) \in UpdateType /\ Tail(updates) \in Seq(UpdateType)
         /\ Head(updates).kind \in {"message", "correction", "fallback"} =>
               Head(updates).ref \in Messages
         /\ Head(updates).kind \in {"order", "placed"} => Head(updates).ref \in Orders
         /\ Head(updates).kind = "handoff" => Head(updates).ref \in Agents \X Agents
<1>1. updates \in Seq(UpdateType)
  BY Typed DEF QueuesTyped
<1>2. Head(updates) \in UpdateType /\ Tail(updates) \in Seq(UpdateType)
  BY <1>1, Taken
<1> QED
  BY <1>2 DEF UpdateType, Update

LEMMA FieldsKept ==
  ASSUME TypeOK, Phase, Next
  PROVE  FieldsTyped'
<1>1. FieldsTyped /\ click \in ClickType
  BY Typed
<1>2. threads' \in Nat /\ threads \in Nat /\ threads <= threads' /\ Orders \subseteq Orders'
  BY WorldGrows
<1>3. CASE Swarm
  <2>1. UNCHANGED fields
    BY <1>3 DEF Swarm, Says, Approves, Rejects, RejectsAtCap, PlacesOrder, TakesOver, Fails,
       PlacesOnTray, HandsOver
  <2> QED
    BY <1>1, <1>2, <2>1 DEF FieldsTyped, fields
<1>4. CASE Runner
  <2>1. ASSUME on_tool_result PROVE FieldsTyped'
    <3>1. updates # <<>> /\ Head(updates).kind \in {"order", "placed"}
      BY <2>1 DEF on_tool_result, Arrives
    <3>2. Head(updates).ref \in Orders
      BY <3>1, HeadTyped
    <3> QED
      BY <1>1, <1>2, <2>1, <3>2 DEF FieldsTyped, on_tool_result, track_order_id
  <2>2. CASE run_conversation
    BY <1>1, <1>2, <2>2 DEF FieldsTyped, run_conversation
  <2>3. CASE wait_for_resume \/ PauseTimesOut \/ RunCloses
    BY <1>1, <1>2, <2>3 DEF FieldsTyped, wait_for_resume, PauseTimesOut, RunCloses
  <2>4. ASSUME ~on_tool_result, ~run_conversation, ~(wait_for_resume \/ PauseTimesOut \/ RunCloses)
        PROVE  UNCHANGED fields
    BY <1>4, <2>4 DEF Runner, get_initial_message, TooManyTurns, on_message,
       on_correction, on_fallback, on_handoff, on_error, Resumed,
       respond_to, FinishTurns, capture_feedback, NextTurn,
       run_manual_turn, StreamEnds, RunFails
  <2> QED
    BY <1>1, <1>2, <2>1, <2>2, <2>3, <2>4 DEF FieldsTyped, fields
<1>5. CASE Page
  <2>1. CASE on_run
    BY <1>1, <1>2, <2>1 DEF FieldsTyped, on_run
  <2>2. CASE on_send
    BY <1>1, <1>2, <2>2 DEF FieldsTyped, on_send
  <2>3. ASSUME on_end_conversation \/ on_setup_change PROVE FieldsTyped'
    <3>1. /\ threads' = threads + 1 /\ manual_thread_id' = threads' /\ current_order_id' = 0
          /\ is_running' = is_running
          /\ pause_on_next_handover' \in BOOLEAN /\ resume_event' \in BOOLEAN
      BY <1>1, <2>3 DEF on_end_conversation, on_setup_change, FieldsTyped
    <3>2. threads' \in 1..threads'
      BY <1>2, <3>1
    <3> QED
      BY <1>1, <1>2, <3>1, <3>2 DEF FieldsTyped
  <2>4. CASE on_pause_toggle
    <3>1. /\ pause_on_next_handover' \in BOOLEAN /\ resume_event' \in BOOLEAN
          /\ is_running' = is_running /\ current_order_id' = current_order_id
          /\ manual_thread_id' = manual_thread_id /\ threads' = threads
      BY <2>4 DEF on_pause_toggle
    <3> QED
      BY <1>1, <1>2, <3>1 DEF FieldsTyped
  <2>5. CASE on_take_tray \/ consume_tray \/ poll_events \/ DispatchNext
    <3>1. UNCHANGED fields
      BY <2>5 DEF on_take_tray, consume_tray, poll_events, DispatchNext
    <3> QED
      BY <1>1, <1>2, <3>1 DEF FieldsTyped, fields
  <2> QED
    BY <1>5, <2>1, <2>2, <2>3, <2>4, <2>5 DEF Page
<1> QED
  BY <1>3, <1>4, <1>5 DEF Next

LEMMA RunKept ==
  ASSUME TypeOK, Phase, Next
  PROVE  run' \in RunType'
<1>1. /\ run \in RunType /\ FieldsTyped /\ RunType \subseteq RunType'
      /\ MaxTurns \in Nat
  BY Typed, TypesGrow, SwarmAssumption
<1>2. /\ threads \in Nat /\ threads' \in Nat /\ threads <= threads'
      /\ Messages \subseteq Messages'
  BY WorldGrows
<1>3. NoRun \in RunType
  BY <1>1, <1>2 DEF NoRun, RunType
<1>4. CASE Swarm
  <2>1. run' = run
    BY <1>4 DEF Swarm, Says, Approves, Rejects, RejectsAtCap, PlacesOrder, TakesOver, Fails,
       PlacesOnTray, HandsOver
  <2> QED
    BY <1>1, <2>1
<1>5. CASE Runner
  <2>1. ASSUME NEW pc \in {"off", "begin", "open", "manual", "turn", "stream", "seam",
                           "paused", "respond", "finish", "feedback", "closing"}, Goto(pc)
        PROVE  run' \in RunType'
    <3>1. run' \in RunType
      BY <1>1, <2>1 DEF Goto, RunType
    <3> QED
      BY <1>1, <3>1
  <2>2. CASE run_conversation
    <3>1. run' = [run EXCEPT !.pc = "open", !.thread = threads'] /\ threads' \in 0..threads'
      BY <1>2, <2>2 DEF run_conversation
    <3>2. run \in RunType'
      BY <1>1
    <3> QED
      BY <3>1, <3>2 DEF RunType
  <2>3. ASSUME NextTurn \/ run_manual_turn PROVE run' \in RunType'
    <3>1. /\ run' = [run EXCEPT !.pc = "stream", !.turns = run.turns + 1, !.last = 0,
                                !.seen = {}, !.handoff = <<>>]
          /\ run.turns < MaxTurns
      <4>1. CASE NextTurn
        BY <4>1 DEF NextTurn, BeginStream
      <4>2. CASE run_manual_turn
        <5>1. run.turns = 0
          BY <4>2 DEF run_manual_turn, At, Phase
        <5> QED
          BY <1>1, <4>2, <5>1, SwarmAssumption DEF run_manual_turn, BeginStream
      <4> QED
        BY <2>3, <4>1, <4>2
    <3>2. run.turns + 1 \in 0..MaxTurns
      BY <1>1, <3>1 DEF RunType
    <3>3. run' \in RunType
      BY <1>1, <3>1, <3>2 DEF RunType
    <3> QED
      BY <1>1, <3>3
  <2>4. ASSUME on_message \/ on_correction \/ on_fallback PROVE run' \in RunType'
    <3>1. PICK m \in Messages : m = Head(updates).ref
      BY <2>4, HeadTyped DEF on_message, on_correction, on_fallback, Arrives
    <3>2. \/ run' = run
          \/ run' = [run EXCEPT !.seen = run.seen \cup {m}, !.last = m]
          \/ run' = [run EXCEPT !.last = IF run.last = m THEN 0 ELSE run.last]
      BY <2>4, <3>1 DEF on_message, on_correction, on_fallback
    <3>3. CASE run' = run
      BY <1>1, <3>3
    <3>4. CASE run' = [run EXCEPT !.seen = run.seen \cup {m}, !.last = m]
      <4>1. run.seen \cup {m} \in SUBSET Messages /\ m \in Messages \cup {0}
        BY <1>1, <3>1 DEF RunType
      <4>2. run' \in RunType
        BY <1>1, <3>4, <4>1 DEF RunType
      <4> QED
        BY <1>1, <4>2
    <3>5. CASE run' = [run EXCEPT !.last = IF run.last = m THEN 0 ELSE run.last]
      <4>1. (IF run.last = m THEN 0 ELSE run.last) \in Messages \cup {0}
        BY <1>1 DEF RunType
      <4>2. run' \in RunType
        BY <1>1, <3>5, <4>1 DEF RunType
      <4> QED
        BY <1>1, <4>2
    <3> QED
      BY <3>2, <3>3, <3>4, <3>5
  <2>5. CASE on_handoff
    <3>1. PICK h \in Agents \X Agents : h = Head(updates).ref
      BY <2>5, HeadTyped DEF on_handoff, Arrives
    <3>2. \/ run' = run
          \/ run' = [run EXCEPT !.handoff = h, !.pc = "seam"]
          \/ run' = [run EXCEPT !.handoff = h, !.pc = "stream"]
      BY <2>5, <3>1 DEF on_handoff
    <3>3. h \in (Agents \X Agents) \cup {<<>>}
      BY <3>1
    <3>4. CASE run' = run
      BY <1>1, <3>4
    <3>5. ASSUME NEW pc \in {"seam", "stream"}, run' = [run EXCEPT !.handoff = h, !.pc = pc]
          PROVE  run' \in RunType
      BY <1>1, <3>3, <3>5 DEF RunType
    <3> QED
      BY <1>1, <3>2, <3>4, <3>5
  <2>6. CASE RunCloses
    BY <1>1, <1>3, <2>6 DEF RunCloses
  <2>7. CASE on_tool_result \/ on_error
    BY <1>1, <2>7 DEF on_tool_result, on_error
  <2>8. CASE \/ get_initial_message \/ TooManyTurns \/ StreamEnds \/ wait_for_resume \/ Resumed
             \/ PauseTimesOut \/ respond_to \/ FinishTurns \/ capture_feedback \/ RunFails
    <3>1. \E pc \in {"off", "begin", "open", "manual", "turn", "stream", "seam",
                     "paused", "respond", "finish", "feedback", "closing"} : Goto(pc)
      BY <2>8 DEF get_initial_message, TooManyTurns, StreamEnds, wait_for_resume, Resumed,
         PauseTimesOut, respond_to, FinishTurns, capture_feedback, RunFails
    <3> QED
      BY <2>1, <3>1
  <2> QED
    BY <1>5, <2>2, <2>3, <2>4, <2>5, <2>6, <2>7, <2>8 DEF Runner
<1>6. CASE Page
  <2>1. CASE on_run
    <3>1. run' \in RunType
      BY <1>3, <2>1 DEF on_run, RunType
    <3> QED
      BY <1>1, <3>1
  <2>2. CASE on_send
    <3>1. run' = [NoRun EXCEPT !.pc = "manual", !.thread = manual_thread_id]
          /\ manual_thread_id \in 0..threads
      BY <1>1, <2>2 DEF on_send, FieldsTyped
    <3>2. run' \in RunType
      BY <1>3, <3>1 DEF RunType
    <3> QED
      BY <1>1, <3>2
  <2>3. CASE ~on_run /\ ~on_send
    <3>1. run' = run
      BY <1>6, <2>3 DEF Page, on_end_conversation, on_take_tray, consume_tray,
         on_pause_toggle, on_setup_change, poll_events, DispatchNext
    <3> QED
      BY <1>1, <3>1
  <2> QED
    BY <2>1, <2>2, <2>3
<1> QED
  BY <1>4, <1>5, <1>6 DEF Next

\* What the swarm says is of its type.
LEMMA EchoTyped ==
  ASSUME TypeOK, NEW m \in Messages'
  PROVE  /\ Echo(m) \in Seq(UpdateType')
         /\ ToSet(Echo(m)) \subseteq
               {Update("message", m), Update("handoff", <<Other(swarm.agent), swarm.agent>>)}
         /\ Update("message", m) \in ToSet(Echo(m))
         /\ InOrder(Echo(m))
<1>1. PICK h : h = Update("handoff", <<Other(swarm.agent), swarm.agent>>)
  OBVIOUS
<1>2. PICK u : u = Update("message", m)
  OBVIOUS
<1>3. swarm.agent \in Agents /\ Other(swarm.agent) \in Agents
  BY Typed, SwarmAssumption DEF SwarmType, Other
<1>4. h \in UpdateType' /\ u \in UpdateType' /\ ~Tells(h)
  BY <1>1, <1>2, <1>3 DEF UpdateType, Update, Tells
<1>5. Echo(m) = <<>> \o <<u>> \/ Echo(m) = <<h>> \o <<u>>
  BY <1>1, <1>2 DEF Echo
<1>6. \A t \in {<<>>, <<h>>} :
         /\ t \o <<u>> \in Seq(UpdateType')
         /\ ToSet(t \o <<u>>) \subseteq {u, h} /\ u \in ToSet(t \o <<u>>)
         /\ InOrder(t \o <<u>>)
  <2>1. /\ <<>> \in Seq(UpdateType') /\ ToSet(<<>>) = {} /\ InOrder(<<>>)
        /\ <<h>> \in Seq(UpdateType') /\ ToSet(<<h>>) = {h} /\ InOrder(<<h>>)
        /\ <<u>> \in Seq(UpdateType') /\ ToSet(<<u>>) = {u} /\ InOrder(<<u>>)
    BY <1>4, Short
  <2>2. PICK v : v = <<u>>
    OBVIOUS
  <2>3. v \in Seq(UpdateType') /\ ToSet(v) = {u} /\ InOrder(v)
    BY <2>1, <2>2
  <2>4. ASSUME NEW t \in Seq(UpdateType'), ToSet(t) \subseteq {h}, InOrder(t)
        PROVE  /\ t \o v \in Seq(UpdateType')
               /\ ToSet(t \o v) \subseteq {u, h} /\ u \in ToSet(t \o v)
               /\ InOrder(t \o v)
    <3>1. t \o v \in Seq(UpdateType') /\ ToSet(t \o v) = ToSet(t) \cup ToSet(v)
      BY ONLY <2>3, <2>4, Joined
    <3>2. \A d \in ToSet(t), e \in ToSet(v) : ~Tells(d)
      BY <1>4, <2>4
    <3>3. InOrder(t \o v)
      BY ONLY <2>3, <2>4, <3>2, OrderJoined
    <3> QED
      BY <2>3, <2>4, <3>1, <3>3
  <2> QED
    BY <2>1, <2>2, <2>4
<1> QED
  BY <1>1, <1>2, <1>5, <1>6

\* What the swarm emits.
LEMMA EmittedTyped ==
  ASSUME TypeOK, Phase, Next, NEW new \in Seq(UpdateType'), Emit(new)
  PROVE  /\ updates' = updates \o new /\ updates' \in Seq(UpdateType')
         /\ ToSet(updates') = ToSet(updates) \cup ToSet(new)
<1>1. updates \in Seq(UpdateType')
  BY Typed, TypesGrow, Wider DEF QueuesTyped
<1> QED
  BY <1>1, Joined DEF Emit

LEMMA UpdatesKept ==
  ASSUME TypeOK, Phase, Next
  PROVE  updates' \in Seq(UpdateType')
<1>1. /\ updates \in Seq(UpdateType') /\ messages \in Seq(MessageType)
      /\ messages' \in Seq(MessageType) /\ messages \in Seq(MessageType)
      /\ Messages \subseteq Messages' /\ Orders \subseteq Orders'
      /\ run \in RunType /\ orders \in Seq(1..threads) /\ swarm \in SwarmType
      /\ Other(swarm.agent) \in Agents
  BY Typed, TypesGrow, Wider, WorldGrows, SwarmAssumption
     DEF QueuesTyped, WorldTyped, SwarmType, Other
<1>2. ASSUME NEW u \in UpdateType', Emit(<<u>>)
      PROVE  updates' \in Seq(UpdateType')
  BY <1>1, <1>2, EmittedTyped, Short
<1>3. CASE Swarm
  <2>1. ASSUME NEW text \in Texts, Says(text)
        PROVE  updates' \in Seq(UpdateType')
    <3>1. Emit(<<Update("message", Len(messages'))>>)
      BY <2>1 DEF Says
    <3>2. Len(messages') \in Messages'
      BY <1>1, <2>1 DEF Says, Messages
    <3>3. Update("message", Len(messages')) \in UpdateType'
      BY <3>2 DEF UpdateType, Update
    <3> QED
      BY <1>2, <3>1, <3>3
  <2>2. ASSUME NEW o \in DOMAIN orders, PlacesOnTray(o)
        PROVE  updates' \in Seq(UpdateType')
    <3>1. Update("placed", o) \in UpdateType'
      BY <1>1 DEF UpdateType, Update, Orders
    <3> QED
      BY <1>2, <2>2, <3>1 DEF PlacesOnTray
  <2>3. CASE PlacesOrder
    <3>1. Len(orders') \in Orders'
      BY <1>1, <2>3 DEF PlacesOrder, Orders
    <3>2. Update("order", Len(orders')) \in UpdateType'
      BY <3>1 DEF UpdateType, Update
    <3> QED
      BY <1>2, <2>3, <3>2 DEF PlacesOrder
  <2>4. CASE HandsOver
    <3>1. Update("handoff", <<swarm.agent, Other(swarm.agent)>>) \in UpdateType'
      BY <1>1 DEF UpdateType, Update, SwarmType
    <3> QED
      BY <1>2, <2>4, <3>1 DEF HandsOver
  <2>5. CASE Fails
    <3>1. Update("error", 0) \in UpdateType'
      BY DEF UpdateType
    <3> QED
      BY <1>2, <2>5, <3>1 DEF Fails
  <2>6. CASE TakesOver
    BY <1>1, <2>6 DEF TakesOver
  <2>7. ASSUME messages # <<>> PROVE Len(messages) \in Messages'
    BY <1>1, <2>7 DEF Messages
  <2>8. ASSUME messages # <<>>, Approves \/ Rejects PROVE updates' \in Seq(UpdateType')
    <3>1. CASE Approves
      BY <1>1, <2>7, <2>8, <3>1, EchoTyped, EmittedTyped DEF Approves
    <3>2. CASE Rejects
      <4>1. Update("correction", Len(messages)) \in UpdateType'
        BY <2>7, <2>8 DEF UpdateType, Update
      <4> QED
        BY <1>2, <3>2, <4>1 DEF Rejects
    <3> QED
      BY <2>8, <3>1, <3>2
  <2>9. CASE RejectsAtCap
    <3>1. PICK n \in Messages' : n = Len(messages')
      <4>1. /\ Judged("rejected") \in Seq(MessageType)
            /\ messages' = Append(Judged("rejected"),
                                  [text |-> "fallback", verdict |-> "approved"])
        BY <2>9, Verdicts DEF RejectsAtCap
      <4>2. messages' # <<>>
        BY <4>1
      <4> QED
        BY <1>1, <4>2 DEF Messages
    <3>2. Emit(<<Update("fallback", n)>> \o Echo(n))
      BY <2>9, <3>1 DEF RejectsAtCap
    <3>3. Update("fallback", n) \in UpdateType'
      <4>1. /\ Judged("rejected") \in Seq(MessageType) /\ Len(Judged("rejected")) = Len(messages)
            /\ messages' = Append(Judged("rejected"),
                                  [text |-> "fallback", verdict |-> "approved"])
            /\ messages # <<>>
        BY <2>9, Verdicts DEF RejectsAtCap, SwarmAt, Phase
      <4>2. n # 1
        BY <1>1, <3>1, <4>1
      <4> QED
        BY <4>2 DEF UpdateType, Update
    <3>4. <<Update("fallback", n)>> \in Seq(UpdateType') /\ Echo(n) \in Seq(UpdateType')
      BY <3>3, Short, EchoTyped
    <3>5. <<Update("fallback", n)>> \o Echo(n) \in Seq(UpdateType')
      BY <3>4, Joined
    <3> QED
      BY <3>2, <3>5, EmittedTyped
  <2>10. Approves \/ Rejects => messages # <<>>
    BY DEF Approves, Rejects, SwarmAt, Phase
  <2> QED
    BY <1>3, <2>1, <2>2, <2>3, <2>4, <2>5, <2>6, <2>8, <2>9, <2>10 DEF Swarm
<1>4. CASE ~Swarm
  <2>1. updates' = updates \/ (updates # <<>> /\ updates' = Tail(updates))
    BY <1>4 DEF Next, Runner, run_conversation, get_initial_message, TooManyTurns, on_message,
       on_correction, on_fallback, on_handoff, on_tool_result, on_error, wait_for_resume, Resumed,
       PauseTimesOut, respond_to, FinishTurns, capture_feedback, RunCloses, NextTurn, Arrives,
       run_manual_turn, BeginStream, StreamEnds, RunFails, Consume, Page, on_run, on_send,
       on_end_conversation, on_take_tray, consume_tray, on_pause_toggle, on_setup_change,
       poll_events, DispatchNext
  <2> QED
    BY <1>1, <2>1, Taken
<1> QED
  BY <1>3, <1>4

\* What is published is of its type.
LEMMA PublishedTyped ==
  ASSUME TypeOK, Phase, Next, NEW new \in Seq(EventType'), Publish(new)
  PROVE  /\ bus' = bus \o new /\ bus' \in Seq(EventType')
         /\ ToSet(bus') = ToSet(bus) \cup ToSet(new)
<1>1. bus \in Seq(EventType')
  BY Typed, TypesGrow, Wider DEF QueuesTyped
<1> QED
  BY <1>1, Joined DEF Publish

LEMMA BusKept ==
  ASSUME TypeOK, Phase, Next
  PROVE  bus' \in Seq(EventType') /\ polled' \in Seq(EventType')
<1>1. /\ bus \in Seq(EventType') /\ polled \in Seq(EventType')
      /\ polled \in Seq(EventType)
      /\ Messages \subseteq Messages' /\ Orders \subseteq Orders'
      /\ current_order_id \in Orders \cup {0} /\ click \in ClickType
      /\ <<>> \in Seq(EventType') /\ messages \in Seq(MessageType)
  BY Typed, TypesGrow, Wider, WorldGrows DEF QueuesTyped, FieldsTyped, WorldTyped
<1>2. /\ \A m \in Messages : Event("message", m) \in EventType' /\ Event("rejected", m) \in EventType'
      /\ \A o \in Orders : Event("tray_ready", o) \in EventType' /\ Event("tray_taken", o) \in EventType'
  BY <1>1 DEF EventType, Event
<1>3. ASSUME NEW e \in EventType', Publish(<<e>>) PROVE bus' \in Seq(EventType')
  BY <1>3, PublishedTyped, Short
<1>4. bus' \in Seq(EventType')
  <2>1. CASE on_message
    <3>1. PICK m \in Messages : m = Head(updates).ref
      BY <2>1, HeadTyped DEF on_message, Arrives
    <3> QED
      BY <1>1, <1>2, <1>3, <2>1, <3>1 DEF on_message
  <2>2. CASE on_correction
    <3>1. PICK m \in Messages : m = Head(updates).ref
      BY <2>2, HeadTyped DEF on_correction, Arrives
    <3> QED
      BY <1>2, <1>3, <2>2, <3>1 DEF on_correction
  <2>3. CASE on_fallback
    <3>1. PICK m \in Messages : m = Head(updates).ref
      BY <2>3, HeadTyped DEF on_fallback, Arrives
    <3>2. m - 1 \in Messages
      <4>1. m # 1
        BY <2>3, <3>1, HeadTyped DEF on_fallback, Arrives, UpdateType, Update
      <4> QED
        BY <1>1, <4>1 DEF Messages
    <3>3. <<Event("rejected", m - 1), Event("message", m)>> \in Seq(EventType')
      BY <1>2, <3>1, <3>2, Short
    <3> QED
      BY <2>3, <3>1, <3>3, PublishedTyped DEF on_fallback
  <2>4. CASE on_tool_result
    <3>1. PICK o \in Orders : o = Head(updates).ref
      BY <2>4, HeadTyped DEF on_tool_result, Arrives
    <3>2. Publish(<<>>) \/ Publish(<<Event("tray_ready", o)>>)
      BY <2>4, <3>1 DEF on_tool_result
    <3> QED
      BY <1>1, <1>2, <1>3, <3>1, <3>2, PublishedTyped
  <2>5. CASE FinishTurns \/ on_end_conversation
    <3>1. \/ Publish(<<>>)
          \/ current_order_id \in Orders /\ Publish(<<Event("tray_ready", current_order_id)>>)
      BY <1>1, <2>5 DEF FinishTurns, on_end_conversation
    <3> QED
      BY <1>1, <1>2, <1>3, <3>1, PublishedTyped
  <2>6. CASE consume_tray
    <3>1. click.taking \in Orders
      BY <1>1, <2>6 DEF consume_tray, ClickType
    <3> QED
      BY <1>2, <1>3, <2>6, <3>1 DEF consume_tray
  <2>7. CASE on_setup_change \/ poll_events
    BY <1>1, <2>7 DEF on_setup_change, poll_events
  <2>8. ASSUME ~on_message, ~on_correction, ~on_fallback, ~on_tool_result,
               ~(FinishTurns \/ on_end_conversation), ~consume_tray,
               ~(on_setup_change \/ poll_events)
        PROVE  bus' = bus
    BY <2>8 DEF Next, Swarm, Says, Approves, Rejects, RejectsAtCap, TakesOver, Fails,
       PlacesOnTray, HandsOver, PlacesOrder, Runner, run_conversation, get_initial_message,
       TooManyTurns, on_handoff, on_error, wait_for_resume, Resumed,
       PauseTimesOut, respond_to, capture_feedback, RunCloses, NextTurn,
       run_manual_turn, StreamEnds, RunFails, Page, on_run, on_send,
       on_take_tray, on_pause_toggle, DispatchNext
  <2> QED
    BY <1>1, <2>1, <2>2, <2>3, <2>4, <2>5, <2>6, <2>7, <2>8
<1>5. polled' \in Seq(EventType')
  <2>1. CASE poll_events
    BY <1>1, <2>1 DEF poll_events
  <2>2. CASE DispatchNext
    <3>1. polled # <<>> /\ polled' = Tail(polled)
      BY <2>2 DEF DispatchNext
    <3> QED
      BY <1>1, <3>1, Taken
  <2>3. ASSUME ~poll_events, ~DispatchNext
        PROVE  polled' = polled
    BY <2>3 DEF Next, Swarm, Says, Approves, Rejects, RejectsAtCap, TakesOver, Fails, ui,
       PlacesOnTray, HandsOver, PlacesOrder, Runner, run_conversation, get_initial_message,
       TooManyTurns, on_handoff, on_error, wait_for_resume, Resumed,
       PauseTimesOut, respond_to, capture_feedback, RunCloses, NextTurn,
       run_manual_turn, StreamEnds, RunFails, Page, on_run, on_send,
       on_take_tray, on_pause_toggle, on_message, on_correction, on_fallback, on_tool_result,
       FinishTurns, on_end_conversation, consume_tray, on_setup_change
  <2> QED
    BY <1>1, <2>1, <2>2, <2>3
<1> QED
  BY <1>4, <1>5

\* Marking a message changes the role of one entry at most; an entry of the
\* message that is shown last is the one.
LEMMA Marked ==
  ASSUME NEW panel \in Seq(EntryType), NEW m
  PROVE  /\ mark_last_ai_message_rejected(panel, m) \in Seq(EntryType)
         /\ panel = <<>> => mark_last_ai_message_rejected(panel, m) = <<>>
         /\ panel # <<>> /\ panel[Len(panel)].role = "ai" /\ panel[Len(panel)].msg = m =>
               mark_last_ai_message_rejected(panel, m)
                  = [panel EXCEPT ![Len(panel)].role = "rejected_ai"]
<1> DEFINE Said(e) == e.role = "ai" /\ messages[e.msg].text = messages[m].text
           I == {k \in 1..Len(panel) : Said(panel[k])}
           i == IF I # {} THEN CHOOSE x \in I : \A y \in I : x >= y ELSE 0
           marked == [panel EXCEPT ![i] = [panel[i] EXCEPT !.role = "rejected_ai"]]
<1>1. mark_last_ai_message_rejected(panel, m) = IF i = 0 THEN panel ELSE marked
  BY DEF mark_last_ai_message_rejected, SelectLastInSeq, Max
<1>2. /\ Len(panel) \in Nat /\ DOMAIN panel = 1..Len(panel)
      /\ \A k \in 1..Len(panel) : panel[k] \in EntryType
  OBVIOUS
<1>3. marked \in Seq(EntryType)
  <2>1. \A e \in EntryType : [e EXCEPT !.role = "rejected_ai"] \in EntryType
    BY DEF EntryType
  <2>2. marked \in [1..Len(panel) -> EntryType]
    BY <1>2, <2>1
  <2>3. \A n \in Nat : [1..n -> EntryType] \subseteq Seq(EntryType)
    OBVIOUS
  <2> HIDE DEF marked
  <2> QED
    BY <1>2, <2>2, <2>3
<1>4. ASSUME panel = <<>> PROVE mark_last_ai_message_rejected(panel, m) = <<>>
  <2>1. I = {}
    BY <1>4
  <2> QED
    BY <1>1, <1>4, <2>1
<1>5. ASSUME panel # <<>>, panel[Len(panel)].role = "ai", panel[Len(panel)].msg = m
      PROVE  mark_last_ai_message_rejected(panel, m)
                = [panel EXCEPT ![Len(panel)].role = "rejected_ai"]
  <2>1. Len(panel) \in I /\ \A y \in I : Len(panel) >= y /\ y \in Nat
    BY <1>2, <1>5
  <2>2. i = Len(panel) /\ i # 0
    BY <1>2, <1>5, <2>1
  <2> QED
    BY <1>1, <2>2
<1> QED
  BY <1>1, <1>3, <1>4, <1>5

LEMMA PageKept ==
  ASSUME TypeOK, Phase, Next
  PROVE  page' \in PageType' /\ click' \in ClickType'
<1>1. /\ page \in PageType /\ PageType \subseteq PageType' /\ click \in ClickType
      /\ Orders \subseteq Orders' /\ FieldsTyped /\ polled \in Seq(EventType)
      /\ trays \subseteq Orders /\ MaxClicks \in Nat
  BY Typed, TypesGrow, WorldGrows, SwarmAssumption DEF QueuesTyped, WorldTyped
<1>2. page' \in PageType'
  <2>1. CASE on_run \/ on_setup_change
    <3>1. page' = Blank(page.button)
      BY <2>1 DEF on_run, on_setup_change
    <3>2. page' \in PageType
      BY <1>1, <3>1 DEF Blank, PageType
    <3> QED
      BY <1>1, <3>2
  <2>2. CASE on_take_tray \/ consume_tray
    <3>1. page' = page \/ page' = [page EXCEPT !.button = 0]
      BY <2>2 DEF on_take_tray, consume_tray
    <3>2. page' \in PageType
      BY <1>1, <3>1 DEF PageType
    <3> QED
      BY <1>1, <3>2
  <2>3. CASE DispatchNext
    <3>1. PICK e \in EventType : e = Head(polled)
      BY <1>1, <2>3, Taken DEF DispatchNext
    <3>2. page' = dispatch_event(page, e)
      BY <2>3, <3>1 DEF DispatchNext
    <3>3. CASE e.kind = "message"
      <4>1. page' = [page EXCEPT !.panel = Append(page.panel, [msg |-> e.ref, role |-> "ai"])]
        BY <3>2, <3>3 DEF dispatch_event
      <4>2. [msg |-> e.ref, role |-> "ai"] \in EntryType
        BY <3>1, <3>3 DEF EventType, EntryType
      <4>3. page.panel \in Seq(EntryType)
        BY <1>1 DEF PageType
      <4>4. Append(page.panel, [msg |-> e.ref, role |-> "ai"]) \in Seq(EntryType)
        BY <4>2, <4>3
      <4>5. page' \in PageType
        BY <1>1, <4>1, <4>4 DEF PageType
      <4> QED
        BY <1>1, <4>5
    <3>4. CASE e.kind = "rejected"
      <4>1. page' = [page EXCEPT !.panel = mark_last_ai_message_rejected(page.panel, e.ref)]
        BY <3>2, <3>4 DEF dispatch_event
      <4>2. mark_last_ai_message_rejected(page.panel, e.ref) \in Seq(EntryType)
        BY <1>1, Marked DEF PageType
      <4>3. page' \in PageType
        BY <1>1, <4>1, <4>2 DEF PageType
      <4> QED
        BY <1>1, <4>3
    <3>5. CASE e.kind \in {"tray_ready", "tray_taken"}
      <4>1. page' = [page EXCEPT !.button = e.ref] \/ page' = [page EXCEPT !.button = 0]
        BY <3>2, <3>5 DEF dispatch_event
      <4>2. e.ref \in Orders
        BY <3>1, <3>5 DEF EventType
      <4>3. page' \in PageType
        BY <1>1, <4>1, <4>2 DEF PageType
      <4> QED
        BY <1>1, <4>3
    <3>6. e.kind \in {"message", "rejected", "tray_ready", "tray_taken"}
      BY <3>1 DEF EventType
    <3> QED
      BY <3>3, <3>4, <3>5, <3>6
  <2>4. ASSUME ~(on_run \/ on_setup_change), ~(on_take_tray \/ consume_tray), ~DispatchNext
        PROVE  page' = page
    BY <2>4 DEF Next, Swarm, Says, Approves, Rejects, RejectsAtCap, TakesOver, Fails, ui,
       PlacesOnTray, HandsOver, PlacesOrder, Runner, run_conversation, get_initial_message,
       TooManyTurns, on_handoff, on_error, wait_for_resume, Resumed,
       PauseTimesOut, respond_to, capture_feedback, RunCloses, NextTurn,
       run_manual_turn, StreamEnds, RunFails, Page, on_send,
       on_pause_toggle, on_message, on_correction, on_fallback, on_tool_result,
       FinishTurns, on_end_conversation, poll_events
  <2> QED
    BY <1>1, <2>1, <2>2, <2>3, <2>4
<1>3. click' \in ClickType'
  <2>1. ASSUME NEW o \in Orders \cup {0}, ClickTakes(o) PROVE click' \in ClickType'
    <3>1. click' = [count |-> click.count + 1, taking |-> o]
      BY <2>1 DEF ClickTakes
    <3>2. click.count + 1 \in 0..MaxClicks
      BY <1>1, <2>1 DEF ClickTakes, ClickType
    <3> QED
      BY <1>1, <3>1, <3>2 DEF ClickType
  <2>2. CASE consume_tray
    <3>1. click' = [click EXCEPT !.taking = 0]
      BY <2>2 DEF consume_tray
    <3> QED
      BY <1>1, <3>1 DEF ClickType
  <2>3. CASE on_take_tray
    <3>1. \/ current_order_id \in trays /\ ClickTakes(current_order_id)
          \/ ClickTakes(0)
      BY <2>3 DEF on_take_tray, Clicked
    <3> QED
      BY <1>1, <2>1, <3>1
  <2>4. CASE on_run \/ on_send \/ on_end_conversation \/ on_pause_toggle \/ on_setup_change
    <3>1. ClickTakes(0)
      BY <2>4 DEF on_run, on_send, on_end_conversation, on_pause_toggle, on_setup_change, Clicked
    <3> QED
      BY <2>1, <3>1
  <2>5. ASSUME ~consume_tray, ~on_take_tray,
               ~(on_run \/ on_send \/ on_end_conversation \/ on_pause_toggle \/ on_setup_change)
        PROVE  click' = click
    BY <2>5 DEF Next, Swarm, Says, Approves, Rejects, RejectsAtCap, TakesOver, Fails, ui,
       PlacesOnTray, HandsOver, PlacesOrder, Runner, run_conversation, get_initial_message,
       TooManyTurns, on_handoff, on_error, wait_for_resume, Resumed,
       PauseTimesOut, respond_to, capture_feedback, RunCloses, NextTurn,
       run_manual_turn, StreamEnds, RunFails, Page, on_message, on_correction, on_fallback,
       on_tool_result, FinishTurns, poll_events, DispatchNext
  <2> QED
    BY <1>1, <2>2, <2>3, <2>4, <2>5 DEF ClickType
<1> QED
  BY <1>2, <1>3

LEMMA TypeKept ==
  ASSUME TypeOK, Phase, [Next]_vars
  PROVE  TypeOK'
<1>1. CASE Next
  <2>1. /\ FieldsTyped' /\ run' \in RunType' /\ swarm' \in SwarmType'
        /\ updates' \in Seq(UpdateType') /\ bus' \in Seq(EventType') /\ polled' \in Seq(EventType')
        /\ page' \in PageType' /\ click' \in ClickType' /\ WorldTyped'
    BY <1>1, FieldsKept, RunKept, SwarmKept, UpdatesKept, BusKept, PageKept, WorldGrows
       DEF SwarmType
  <2>2. UpdateType' = UpdateType' /\ EventType' = EventType'
    OBVIOUS
  <2> QED
    BY <2>1 DEF TypeOK, FieldsTyped, RunType, SwarmType, PageType, EntryType, ClickType,
       WorldTyped, MessageType
<1>2. CASE UNCHANGED vars
  <2>1. /\ UNCHANGED <<is_running, pause_on_next_handover, resume_event, current_order_id,
                        manual_thread_id, threads>>
        /\ UNCHANGED <<run, swarm, updates, bus, polled, page, click, messages, orders, trays>>
    BY <1>2 DEF vars, fields, world, ui
  <2>2. Messages' = Messages /\ Orders' = Orders
    BY <2>1 DEF Messages, Orders
  <2>3. UpdateType' = UpdateType /\ EventType' = EventType
    BY <2>2 DEF UpdateType, EventType
  <2> QED
    BY <2>1, <2>2, <2>3 DEF TypeOK
<1> QED
  BY <1>1, <1>2

\* A step of the runner that only goes on to another place.
LEMMA GoesOn ==
  ASSUME TypeOK, Phase, NEW pc, Goto(pc), pc \notin {"off", "begin", "manual"},
         run.pc \notin {"off", "begin"}, is_running' = is_running,
         pc \in {"open", "turn", "respond", "finish"} => run.auto,
         \/ pc \in Streaming /\ run.pc \in Streaming
         \/ pc \notin Streaming /\ swarm'.at = "off" /\ updates' = <<>>,
         swarm'.at # "judge" \/ UNCHANGED <<swarm, messages>>
  PROVE  Phase'
<1>1. run' = [run EXCEPT !.pc = pc] /\ run \in RunType
  BY Typed DEF Goto
<1>2. run'.pc = pc /\ run'.thread = run.thread /\ run'.auto = run.auto
  BY <1>1 DEF RunType
<1> QED
  BY <1>2 DEF Phase, Streaming

LEMMA PhaseKept ==
  ASSUME TypeOK, Phase, [Next]_vars
  PROVE  Phase'
<1>0. run \in RunType /\ swarm \in SwarmType /\ FieldsTyped
  BY Typed
<1>1. CASE Swarm
  <2>1. UNCHANGED fields /\ run' = run /\ swarm.at # "off"
    BY <1>1 DEF Swarm, Says, Approves, Rejects, RejectsAtCap, TakesOver, Fails,
       PlacesOnTray, HandsOver, PlacesOrder, SwarmAt
  <2>2. CASE \E text \in Texts : Says(text)
    <3>1. messages \in Seq(MessageType) /\ messages' # <<>>
      <4>1. PICK text \in Texts : messages' = Append(messages, [text |-> text, verdict |-> "open"])
        BY <2>2 DEF Says
      <4> QED
        BY <4>1, Typed DEF WorldTyped
    <3> QED
      BY <2>1, <3>1 DEF Phase, fields
  <2>3. CASE ~\E text \in Texts : Says(text)
    <3>1. swarm'.at # "judge" \/ UNCHANGED <<messages, swarm>>
      BY <1>0, <1>1, <2>3 DEF Swarm, Approves, Rejects, RejectsAtCap, TakesOver, Fails,
         PlacesOnTray, HandsOver, PlacesOrder, SwarmAt, world, SwarmType
    <3> QED
      BY <2>1, <3>1 DEF Phase, fields
  <2> QED
    BY <2>2, <2>3
<1>2. CASE Runner
  <2>1. CASE run_conversation
    <3>1. /\ run' = [run EXCEPT !.pc = "open", !.thread = threads'] /\ threads' = threads + 1
          /\ run.pc = "begin" /\ UNCHANGED <<swarm, updates, is_running>>
      BY <2>1 DEF run_conversation, At
    <3>2. run'.pc = "open" /\ run'.thread # 0 /\ run'.auto = run.auto
      BY <1>0, <3>1 DEF RunType, FieldsTyped
    <3> QED
      BY <3>1, <3>2 DEF Phase, Streaming
  <2>2. CASE NextTurn \/ run_manual_turn
    <3>1. /\ run' = [run EXCEPT !.pc = "stream", !.turns = run.turns + 1, !.last = 0,
                                !.seen = {}, !.handoff = <<>>]
          /\ run.pc \in {"turn", "manual"} /\ is_running' = is_running
          /\ swarm' = [NoSwarm EXCEPT !.at = "llm"]
      BY <2>2 DEF NextTurn, run_manual_turn, BeginStream, At, fields
    <3>2. run'.pc = "stream" /\ run'.thread = run.thread /\ run'.auto = run.auto
      BY <1>0, <3>1 DEF RunType
    <3>3. swarm'.at = "llm"
      BY <3>1 DEF NoSwarm
    <3> QED
      BY <3>1, <3>2, <3>3 DEF Phase, Streaming
  <2>3. CASE on_message \/ on_correction \/ on_fallback \/ on_tool_result \/ on_error
    <3>1. /\ run.pc = "stream" /\ is_running' = is_running /\ UNCHANGED <<swarm, messages>>
          /\ run'.pc = run.pc /\ run'.thread = run.thread /\ run'.auto = run.auto
      BY <1>0, <2>3 DEF on_message, on_correction, on_fallback, on_tool_result, on_error,
         Arrives, At, RunType, fields, world
    <3> QED
      BY <3>1 DEF Phase, Streaming
  <2>4. CASE on_handoff
    <3>1. /\ run.pc = "stream" /\ is_running' = is_running /\ UNCHANGED <<swarm, messages>>
          /\ run'.pc \in Streaming /\ run'.thread = run.thread /\ run'.auto = run.auto
      BY <1>0, <2>4 DEF on_handoff, Arrives, At, RunType, fields, world, Streaming
    <3> QED
      BY <3>1 DEF Phase, Streaming
  <2>5. CASE get_initial_message \/ TooManyTurns \/ respond_to \/ FinishTurns \/ capture_feedback
    <3>1. /\ \E pc \in {"turn", "finish", "feedback", "closing"} : Goto(pc)
          /\ run.pc \in {"open", "turn", "respond", "finish", "feedback"}
          /\ run.pc = "feedback" => Goto("closing")
          /\ UNCHANGED <<is_running, swarm, updates>>
      BY <2>5 DEF get_initial_message, TooManyTurns, respond_to, FinishTurns, capture_feedback,
         At, fields
    <3> QED
      BY <3>1, GoesOn DEF Phase, Streaming
  <2>6. CASE StreamEnds \/ RunFails
    <3>1. /\ \E pc \in {"finish", "respond", "closing"} : Goto(pc)
          /\ run.pc \notin {"off", "begin"} /\ is_running' = is_running
          /\ updates' = updates /\ (updates = <<>> \/ run.pc \notin Streaming) /\ swarm' = NoSwarm
      BY <2>6 DEF StreamEnds, RunFails, At, fields, Streaming
    <3>2. updates' = <<>> /\ swarm'.at = "off"
      BY <3>1 DEF Phase, NoSwarm
    <3>3. PICK pc \in {"finish", "respond", "closing"} : Goto(pc) /\ (pc # "closing" => run.auto)
      BY <2>6 DEF StreamEnds, RunFails
    <3> QED
      BY <3>1, <3>2, <3>3, GoesOn DEF Streaming
  <2>7. CASE wait_for_resume \/ Resumed \/ PauseTimesOut
    <3>1. /\ \E pc \in {"stream", "paused"} : Goto(pc)
          /\ run.pc \in {"seam", "paused"} /\ is_running' = is_running
          /\ UNCHANGED <<swarm, messages>>
      BY <2>7 DEF wait_for_resume, Resumed, PauseTimesOut, At, fields, world
    <3> QED
      BY <3>1, GoesOn DEF Streaming
  <2>8. CASE RunCloses
    <3>1. is_running' = FALSE /\ run' = NoRun /\ UNCHANGED <<swarm, updates, messages>>
          /\ run.pc = "closing"
      BY <2>8 DEF RunCloses, At, world
    <3> QED
      BY <3>1 DEF Phase, NoRun, Streaming
  <2> QED
    BY <1>2, <2>1, <2>2, <2>3, <2>4, <2>5, <2>6, <2>7, <2>8 DEF Runner
<1>3. CASE Page
  <2>1. CASE on_run
    <3>1. /\ run' = [NoRun EXCEPT !.pc = "begin", !.auto = TRUE] /\ is_running' = TRUE
          /\ UNCHANGED <<swarm, updates, messages>> /\ ~is_running
      BY <2>1 DEF on_run, world
    <3> QED
      BY <3>1 DEF Phase, NoRun, Streaming
  <2>2. CASE on_send
    <3>1. /\ run' = [NoRun EXCEPT !.pc = "manual", !.thread = manual_thread_id]
          /\ is_running' = TRUE /\ UNCHANGED <<swarm, updates, messages>> /\ ~is_running
      BY <2>2 DEF on_send, world
    <3>2. manual_thread_id # 0
      BY <1>0 DEF FieldsTyped
    <3>3. run'.pc = "manual" /\ run'.thread # 0 /\ run'.turns = 0
      BY <3>1, <3>2 DEF NoRun
    <3> QED
      BY <3>1, <3>3 DEF Phase, Streaming
  <2>3. CASE ~on_run /\ ~on_send
    <3>1. UNCHANGED <<run, is_running, swarm, updates, messages>>
      BY <1>3, <2>3 DEF Page, on_end_conversation, on_take_tray, consume_tray,
         on_pause_toggle, on_setup_change, poll_events, DispatchNext, fields, world
    <3> QED
      BY <3>1 DEF Phase
  <2> QED
    BY <2>1, <2>2, <2>3
<1>4. CASE UNCHANGED vars
  BY <1>4 DEF Phase, vars, fields, world
<1> QED
  BY <1>1, <1>2, <1>3, <1>4 DEF Next

-----------------------------------------------------------------------------
(* What the swarm tells *)

\* It says something.
LEMMA SaysTells ==
  ASSUME TypeOK, Phase, Next, NEW text \in Texts, Says(text), NEW n, n = Len(messages) + 1
  PROVE  /\ messages' = Append(messages, [text |-> text, verdict |-> "open"])
         /\ n \in Messages' /\ Len(messages') = n
         /\ <<Update("message", n)>> \in Seq(UpdateType')
         /\ Emit(<<Update("message", n)>>)
         /\ ToSet(<<Update("message", n)>>) = {Update("message", n)}
         /\ InOrder(<<Update("message", n)>>)
<1>1. messages' = Append(messages, [text |-> text, verdict |-> "open"])
  BY DEF Says
<1>2. Len(messages') = n /\ n \in Messages'
  BY <1>1, Typed DEF WorldTyped, Messages
<1>3. Update("message", n) \in UpdateType'
  BY <1>2 DEF UpdateType, Update
<1>4. Emit(<<Update("message", n)>>)
  BY <1>2 DEF Says
<1> QED
  BY <1>1, <1>2, <1>3, <1>4, Short

\* What it said is approved.
LEMMA ApprovesTells ==
  ASSUME TypeOK, Phase, Next, Approves, NEW n, n = Len(messages)
  PROVE  /\ n \in Messages /\ messages' = Judged("approved")
         /\ \E new \in Seq(UpdateType') :
               /\ Emit(new) /\ InOrder(new)
               /\ Update("message", n) \in ToSet(new)
               /\ \A u \in ToSet(new) : u = Update("message", n) \/ u.kind = "handoff"
<1>1. n \in Messages
  BY Typed DEF Approves, SwarmAt, Phase, WorldTyped, Messages
<1>2. messages' = Judged("approved") /\ Emit(Echo(n))
  BY DEF Approves
<1>3. n \in Messages'
  BY <1>1, WorldGrows
<1>4. /\ Echo(n) \in Seq(UpdateType') /\ InOrder(Echo(n))
      /\ Update("message", n) \in ToSet(Echo(n))
      /\ ToSet(Echo(n)) \subseteq
            {Update("message", n), Update("handoff", <<Other(swarm.agent), swarm.agent>>)}
  BY <1>3, EchoTyped
<1>5. \A u \in ToSet(Echo(n)) : u = Update("message", n) \/ u.kind = "handoff"
  BY <1>4 DEF Update
<1> QED
  BY <1>1, <1>2, <1>4, <1>5

\* It is rejected and the model called again.
LEMMA RejectsTells ==
  ASSUME TypeOK, Phase, Next, Rejects, NEW n, n = Len(messages)
  PROVE  /\ n \in Messages /\ messages' = Judged("rejected")
         /\ <<Update("correction", n)>> \in Seq(UpdateType')
         /\ Emit(<<Update("correction", n)>>)
         /\ ToSet(<<Update("correction", n)>>) = {Update("correction", n)}
         /\ InOrder(<<Update("correction", n)>>)
<1>1. n \in Messages
  BY Typed DEF Rejects, SwarmAt, Phase, WorldTyped, Messages
<1>2. messages' = Judged("rejected") /\ Emit(<<Update("correction", n)>>)
  BY DEF Rejects
<1>3. Update("correction", n) \in UpdateType'
  BY <1>1, WorldGrows DEF UpdateType, Update
<1> QED
  BY <1>1, <1>2, <1>3, Short

\* It is rejected for the last time, and the fallback takes its place.
LEMMA FallbackTells ==
  ASSUME TypeOK, Phase, Next, RejectsAtCap, NEW n, n = Len(messages) + 1
  PROVE  /\ n - 1 \in Messages /\ n \in Messages' /\ Len(messages') = n
         /\ messages' = Append(Judged("rejected"), [text |-> "fallback", verdict |-> "approved"])
         /\ \E new \in Seq(UpdateType') :
               /\ Emit(new) /\ InOrder(new)
               /\ Update("fallback", n) \in ToSet(new)
               /\ \A u \in ToSet(new) : \/ u \in {Update("fallback", n), Update("message", n)}
                                        \/ u.kind = "handoff"
<1>1. Len(messages) \in Nat /\ n - 1 \in Messages /\ n \in Nat /\ n # 1
  BY Typed DEF RejectsAtCap, SwarmAt, Phase, WorldTyped, Messages
<1>2. /\ messages' = Append(Judged("rejected"), [text |-> "fallback", verdict |-> "approved"])
      /\ Emit(<<Update("fallback", Len(messages'))>> \o Echo(Len(messages')))
  BY DEF RejectsAtCap
<1>3. Len(messages') = n /\ n \in Messages'
  <2>1. Judged("rejected") \in Seq(MessageType) /\ Len(Judged("rejected")) = Len(messages)
    BY Verdicts
  <2> QED
    BY <1>1, <1>2, <2>1 DEF Messages
<1>4. PICK f : f = Update("fallback", n)
  OBVIOUS
<1>5. f \in UpdateType'
  BY <1>1, <1>3, <1>4 DEF UpdateType, Update
<1>6. PICK p : p = <<f>>
  OBVIOUS
<1>7. p \in Seq(UpdateType') /\ ToSet(p) = {f} /\ InOrder(p)
  BY <1>5, <1>6, Short
<1>8. PICK q : q = Echo(n)
  OBVIOUS
<1>9. /\ q \in Seq(UpdateType') /\ InOrder(q)
      /\ ToSet(q) \subseteq
            {Update("message", n), Update("handoff", <<Other(swarm.agent), swarm.agent>>)}
  BY <1>3, <1>8, EchoTyped
<1>10. p \o q \in Seq(UpdateType') /\ ToSet(p \o q) = ToSet(p) \cup ToSet(q)
  BY ONLY <1>7, <1>9, Joined
<1>11. InOrder(p \o q)
  <2>1. ASSUME NEW d \in ToSet(p), NEW e \in ToSet(q), Tells(d), Tells(e)
        PROVE  Place(d) < Place(e)
    <3>1. d = Update("fallback", n) /\ e = Update("message", n)
      BY <1>4, <1>7, <1>9, <2>1 DEF Tells, Update
    <3> QED
      BY <1>1, <3>1 DEF Place, Update
  <2> QED
    BY ONLY <1>7, <1>9, <2>1, OrderJoined
<1>12. \A u \in ToSet(p \o q) : \/ u \in {Update("fallback", n), Update("message", n)}
                                \/ u.kind = "handoff"
  BY <1>4, <1>7, <1>9, <1>10 DEF Update
<1>13. Emit(p \o q) /\ Update("fallback", n) \in ToSet(p \o q)
  BY <1>2, <1>3, <1>4, <1>6, <1>7, <1>8, <1>10
<1> QED
  BY <1>1, <1>2, <1>3, <1>10, <1>11, <1>12, <1>13

-----------------------------------------------------------------------------
(* Orders *)

\* A step that adds to the stream nothing about orders of other conversations,
\* and tracks none.
LEMMA OrdersUntouched ==
  ASSUME TypeOK, Phase, OrdersOurs, Next,
         run'.thread = run.thread \/ (updates' = <<>> /\ (~run'.auto \/ run'.pc = "begin")),
         run'.auto /\ run'.pc # "begin" => run.auto /\ run.pc # "begin",
         current_order_id' \in {current_order_id, 0},
         \A u \in ToSet(updates') : u.kind \in {"order", "placed"} =>
            u \in ToSet(updates) \/ orders'[u.ref] = run.thread
  PROVE  OrdersOurs'
<1>1. \A o \in Orders : orders'[o] = orders[o]
  BY WorldGrows
<1>2. current_order_id \in Orders \cup {0} /\ updates \in Seq(UpdateType)
  BY Typed DEF FieldsTyped, QueuesTyped
<1>3. \A u \in ToSet(updates) : u.kind \in {"order", "placed"} => u.ref \in Orders
  <2>1. \A u \in ToSet(updates) : u \in UpdateType
    BY <1>2 DEF ToSet
  <2> QED
    BY <2>1 DEF UpdateType, Update
<1>4. ToSet(<<>>) = {}
  BY Short
<1>5. \A u \in ToSet(updates') : u.kind \in {"order", "placed"} => orders'[u.ref] = run'.thread
  <2>1. CASE updates' = <<>>
    BY <1>4, <2>1
  <2>2. CASE updates' # <<>>
    BY <1>1, <1>3, <2>2 DEF OrdersOurs
  <2> QED
    BY <2>1, <2>2
<1>6. ASSUME run'.auto, run'.pc # "begin", current_order_id' # 0
      PROVE  orders'[current_order_id'] = run'.thread
  <2>1. run'.thread = run.thread /\ current_order_id' = current_order_id
    BY <1>6
  <2> QED
    BY <1>1, <1>2, <1>6, <2>1 DEF OrdersOurs
<1> QED
  BY <1>5, <1>6 DEF OrdersOurs

LEMMA OrdersKept ==
  ASSUME TypeOK, Phase, OrdersOurs, Next
  PROVE  OrdersOurs'
<1>0. /\ run \in RunType /\ current_order_id \in Orders \cup {0} /\ updates \in Seq(UpdateType)
      /\ orders \in Seq(1..threads)
  BY Typed DEF FieldsTyped, QueuesTyped, WorldTyped
<1>1. CASE Swarm
  <2>1. run' = run /\ current_order_id' = current_order_id
    BY <1>1 DEF Swarm, Says, Approves, Rejects, RejectsAtCap, TakesOver, Fails,
       PlacesOnTray, HandsOver, PlacesOrder, fields
  <2>2. ASSUME NEW u \in UpdateType', Emit(<<u>>),
               u.kind \in {"order", "placed"} => orders'[u.ref] = run.thread
        PROVE  OrdersOurs'
    <3>1. <<u>> \in Seq(UpdateType') /\ ToSet(<<u>>) = {u}
      BY Short
    <3>2. ToSet(updates') = ToSet(updates) \cup {u}
      BY <1>1, <2>2, <3>1, EmittedTyped DEF Next
    <3> QED
      BY <1>1, <2>1, <2>2, <3>2, OrdersUntouched DEF Next
  <2>3. CASE PlacesOrder
    <3>1. orders' = Append(orders, run.thread) /\ Len(orders') \in Orders'
          /\ orders'[Len(orders')] = run.thread
      BY <1>0, <2>3 DEF PlacesOrder, Orders
    <3>2. PICK o \in Orders' : o = Len(orders')
      BY <3>1
    <3>3. Update("order", o) \in UpdateType' /\ Update("order", o).ref = o
      BY DEF UpdateType, Update
    <3> QED
      BY <2>2, <2>3, <3>1, <3>2, <3>3 DEF PlacesOrder
  <2>4. ASSUME NEW o \in DOMAIN orders, PlacesOnTray(o) PROVE OrdersOurs'
    <3>1. orders' = orders /\ o \in Orders' /\ orders[o] = run.thread
      BY <2>4 DEF PlacesOnTray, Orders
    <3>2. Update("placed", o) \in UpdateType' /\ Update("placed", o).ref = o
      BY <3>1 DEF UpdateType, Update
    <3> QED
      BY <2>2, <2>4, <3>1, <3>2 DEF PlacesOnTray
  <2>5. ASSUME NEW new \in Seq(UpdateType'), Emit(new),
               \A u \in ToSet(new) : u.kind \notin {"order", "placed"}
        PROVE  OrdersOurs'
    <3>1. ToSet(updates') = ToSet(updates) \cup ToSet(new)
      BY <1>1, <2>5, EmittedTyped DEF Next
    <3> QED
      BY <1>1, <2>1, <2>5, <3>1, OrdersUntouched DEF Next
  <2>6. ASSUME NEW text \in Texts, Says(text) PROVE OrdersOurs'
    <3>1. PICK n : n = Len(messages) + 1
      OBVIOUS
    <3>2. PICK new : new = <<Update("message", n)>>
      OBVIOUS
    <3>3. /\ new \in Seq(UpdateType') /\ Emit(new) /\ ToSet(new) = {Update("message", n)}
      BY <1>1, <2>6, <3>1, <3>2, SaysTells DEF Next
    <3> QED
      BY <2>5, <3>3 DEF Update
  <2>7. CASE Rejects
    <3>1. PICK n : n = Len(messages)
      OBVIOUS
    <3>2. PICK new : new = <<Update("correction", n)>>
      OBVIOUS
    <3>3. /\ new \in Seq(UpdateType') /\ Emit(new) /\ ToSet(new) = {Update("correction", n)}
      BY <1>1, <2>7, <3>1, <3>2, RejectsTells DEF Next
    <3> QED
      BY <2>5, <3>3 DEF Update
  <2>8. CASE Approves \/ RejectsAtCap
    <3>1. PICK new \in Seq(UpdateType') :
             Emit(new) /\ \A u \in ToSet(new) : u.kind \in {"message", "fallback", "handoff"}
      <4>1. Next
        BY <1>1 DEF Next
      <4>2. CASE Approves
        <5>1. PICK n : n = Len(messages)
          OBVIOUS
        <5>2. PICK new \in Seq(UpdateType') :
                 /\ Emit(new)
                 /\ \A u \in ToSet(new) : u = Update("message", n) \/ u.kind = "handoff"
          BY <4>1, <4>2, <5>1, ApprovesTells
        <5> QED
          BY <5>2 DEF Update
      <4>3. CASE RejectsAtCap
        <5>1. PICK n : n = Len(messages) + 1
          OBVIOUS
        <5>2. PICK new \in Seq(UpdateType') :
                 /\ Emit(new)
                 /\ \A u \in ToSet(new) : \/ u \in {Update("fallback", n), Update("message", n)}
                                          \/ u.kind = "handoff"
          BY <4>1, <4>3, <5>1, FallbackTells
        <5> QED
          BY <5>2 DEF Update
      <4> QED
        BY <2>8, <4>2, <4>3
    <3> QED
      BY <2>5, <3>1
  <2>9. CASE TakesOver
    BY <1>1, <2>1, <2>9, OrdersUntouched DEF TakesOver, Next
  <2>10. CASE HandsOver
    <3>1. Update("handoff", <<swarm.agent, Other(swarm.agent)>>) \in UpdateType'
      BY Typed, SwarmAssumption DEF UpdateType, Update, SwarmType, Other
    <3> QED
      BY <2>2, <2>10, <3>1 DEF HandsOver, Update
  <2>11. CASE Fails
    <3>1. Update("error", 0) \in UpdateType'
      BY DEF UpdateType
    <3> QED
      BY <2>2, <2>11, <3>1 DEF Fails, Update
  <2> QED
    BY <1>1, <2>3, <2>4, <2>6, <2>7, <2>8, <2>9, <2>10, <2>11 DEF Swarm
<1>2. CASE Runner
  <2>1. CASE on_tool_result
    <3>1. /\ run' = run /\ orders' = orders /\ updates # <<>> /\ updates' = Tail(updates)
          /\ Head(updates).kind \in {"order", "placed"} /\ track_order_id(Head(updates).ref)
      BY <2>1 DEF on_tool_result, Arrives, Consume, world
    <3>2. Head(updates) \in ToSet(updates) /\ ToSet(updates') \subseteq ToSet(updates)
      BY <1>0, <3>1, Taken
    <3>3. orders[Head(updates).ref] = run.thread
      BY <3>1, <3>2 DEF OrdersOurs
    <3>4. run.pc = "stream"
      BY <2>1 DEF on_tool_result, Arrives, At
    <3> QED
      BY <3>1, <3>2, <3>3 DEF OrdersOurs, track_order_id
  <2>2. CASE run_conversation
    <3>1. /\ current_order_id' = 0 /\ updates' = updates /\ run.pc = "begin"
      BY <2>2 DEF run_conversation, At
    <3>2. updates' = <<>> /\ ToSet(updates') = {}
      BY <3>1, Short DEF Phase, Streaming
    <3> QED
      BY <3>1, <3>2 DEF OrdersOurs
  <2>3. CASE RunCloses
    <3>1. run' = NoRun /\ updates' = updates /\ run.pc = "closing"
      BY <2>3 DEF RunCloses, At
    <3>2. updates' = <<>> /\ ToSet(updates') = {}
      BY <3>1, Short DEF Phase, Streaming
    <3> QED
      BY <3>1, <3>2 DEF OrdersOurs, NoRun
  <2>4. ASSUME ~on_tool_result, ~run_conversation, ~RunCloses PROVE OrdersOurs'
    <3>1. /\ run'.thread = run.thread /\ run'.auto = run.auto
          /\ run.pc = "begin" => run'.pc = "begin"
      BY <1>0, <1>2, <2>4 DEF Runner, get_initial_message, TooManyTurns, on_message,
         on_correction, on_fallback, on_handoff, on_error, wait_for_resume, Resumed,
         PauseTimesOut, respond_to, FinishTurns, capture_feedback, NextTurn, At, Arrives,
         run_manual_turn, BeginStream, StreamEnds, RunFails, Goto, RunType
    <3>2. current_order_id' = current_order_id
      BY <1>2, <2>4 DEF Runner, get_initial_message, TooManyTurns, on_message, fields,
         on_correction, on_fallback, on_handoff, on_error, wait_for_resume, Resumed,
         PauseTimesOut, respond_to, FinishTurns, capture_feedback, NextTurn,
         run_manual_turn, StreamEnds, RunFails
    <3>3. updates' = updates \/ (updates # <<>> /\ updates' = Tail(updates))
      BY <1>2, <2>4 DEF Runner, get_initial_message, TooManyTurns, on_message, Consume, Arrives,
         on_correction, on_fallback, on_handoff, on_error, wait_for_resume, Resumed,
         PauseTimesOut, respond_to, FinishTurns, capture_feedback, NextTurn,
         run_manual_turn, StreamEnds, RunFails
    <3>4. ToSet(updates') \subseteq ToSet(updates)
      BY <1>0, <3>3, Taken
    <3> QED
      BY <1>2, <3>1, <3>2, <3>4, OrdersUntouched DEF Next
  <2> QED
    BY <2>1, <2>2, <2>3, <2>4
<1>3. CASE Page
  <2>1. CASE on_run \/ on_send
    <3>1. /\ updates' = updates /\ ~is_running
          /\ ~run'.auto \/ run'.pc = "begin"
      BY <2>1 DEF on_run, on_send, NoRun
    <3>2. updates' = <<>> /\ ToSet(updates') = {}
      BY <3>1, Short DEF Phase, Streaming
    <3> QED
      BY <3>1, <3>2 DEF OrdersOurs
  <2>2. CASE ~(on_run \/ on_send)
    <3>1. /\ run' = run /\ updates' = updates
          /\ current_order_id' \in {0, current_order_id}
      BY <1>3, <2>2 DEF Page, on_end_conversation, on_take_tray, consume_tray,
         on_pause_toggle, on_setup_change, poll_events, DispatchNext, fields
    <3> QED
      BY <1>3, <3>1, OrdersUntouched DEF Next
  <2> QED
    BY <2>1, <2>2
<1> QED
  BY <1>1, <1>2, <1>3 DEF Next

-----------------------------------------------------------------------------
(* News *)

\* News is about messages, and has a place.
LEMMA Places ==
  ASSUME TypeOK
  PROVE  /\ Len(messages) \in Nat /\ Messages = 1..Len(messages)
         /\ \A m \in Messages : m \in Nat /\ m # 0 /\ m <= Len(messages)
         /\ Rejected \subseteq Messages
         /\ \A u \in ToSet(updates) : Tells(u) =>
               /\ u.kind \in {"message", "correction", "fallback"} /\ u.ref \in Messages
               /\ u.kind = "fallback" => u.ref # 1
               /\ u = Update(u.kind, u.ref) /\ Place(u) \in Nat
         /\ \A e \in Way : Tells(e) =>
               /\ e.kind \in {"message", "rejected"} /\ e.ref \in Messages
               /\ e = Event(e.kind, e.ref) /\ Place(e) \in Nat
         /\ \A i \in DOMAIN page.panel :
               page.panel[i] \in EntryType /\ PlaceShown(page.panel[i]) \in Nat
<1>1. /\ messages \in Seq(MessageType) /\ updates \in Seq(UpdateType)
      /\ polled \in Seq(EventType) /\ bus \in Seq(EventType) /\ page.panel \in Seq(EntryType)
  BY Typed DEF WorldTyped, QueuesTyped, PageType
<1>2. Len(messages) \in Nat /\ Messages = 1..Len(messages)
  BY <1>1 DEF Messages
<1>3. \A m \in Messages : m \in Nat /\ m # 0 /\ m <= Len(messages)
  BY <1>2
<1>4. ASSUME NEW u \in ToSet(updates), Tells(u)
      PROVE  /\ u.kind \in {"message", "correction", "fallback"} /\ u.ref \in Messages
             /\ u.kind = "fallback" => u.ref # 1
             /\ u = Update(u.kind, u.ref) /\ Place(u) \in Nat
  <2>1. u \in UpdateType
    BY <1>1, <1>4 DEF ToSet
  <2>2. /\ u.kind \in {"message", "correction", "fallback"} /\ u.ref \in Messages
        /\ u.kind = "fallback" => u.ref # 1
        /\ u = Update(u.kind, u.ref)
    BY <1>4, <2>1 DEF UpdateType, Update, Tells
  <2>3. u.ref \in Nat /\ u.ref # 0 /\ Place(u) \in {2 * u.ref, 2 * u.ref - 1, 2 * u.ref + 1}
    BY <1>3, <2>2 DEF Place
  <2> QED
    BY <2>2, <2>3
<1>5. ASSUME NEW e \in Way, Tells(e)
      PROVE  /\ e.kind \in {"message", "rejected"} /\ e.ref \in Messages
             /\ e = Event(e.kind, e.ref) /\ Place(e) \in Nat
  <2>1. e \in EventType
    BY <1>1, <1>5 DEF ToSet, Way
  <2>2. /\ e.kind \in {"message", "rejected"} /\ e.ref \in Messages /\ e = Event(e.kind, e.ref)
    BY <1>5, <2>1 DEF EventType, Event, Tells
  <2>3. e.ref \in Nat /\ Place(e) \in {2 * e.ref, 2 * e.ref + 1}
    BY <1>3, <2>2 DEF Place
  <2> QED
    BY <2>2, <2>3
<1>6. ASSUME NEW i \in DOMAIN page.panel
      PROVE  page.panel[i] \in EntryType /\ PlaceShown(page.panel[i]) \in Nat
  <2>1. page.panel[i] \in EntryType
    BY <1>1, <1>6
  <2> QED
    BY <1>3, <2>1 DEF EntryType, PlaceShown
<1> QED
  BY <1>2, <1>3, <1>4, <1>5, <1>6 DEF Rejected

\* News the page has not been told of changes nothing there.
LEMMA PageUntouched ==
  ASSUME TypeOK, NEW told \in Nat, PageHas(told),
         bus' = bus, polled' = polled, page'.panel = page.panel,
         Rejected \subseteq Rejected',
         \A m \in Messages' : m \in Nat /\ (m \in Messages \/ told < 2 * m),
         \A m \in Rejected' : m \in Rejected \/ (m \in Nat /\ told < 2 * m + 1)
  PROVE  PageHas(told)'
<1>1. Way' = Way
  BY DEF Way
<1>2. OnItsWay(told)'
  BY <1>1 DEF PageHas, OnItsWay
<1>3. Panels(told)'
  BY <1>1 DEF PageHas, Panels
<1>4. NoGap(told)'
  <2> SUFFICES ASSUME NEW m \in Messages', 2 * m <= told
               PROVE  \/ Event("message", m) \in Way
                      \/ /\ \A e \in Way : Tells(e) => 2 * m < Place(e)
                         /\ \/ \E i \in DOMAIN page.panel : page.panel[i].msg = m
                            \/ \A i \in DOMAIN page.panel : m < page.panel[i].msg
    BY <1>1 DEF NoGap
  <2>1. m \in Nat /\ (m \in Messages \/ told < 2 * m)
    OBVIOUS
  <2>2. m \in Messages
    BY <2>1
  <2> QED
    BY <2>2 DEF PageHas, NoGap
<1>5. Owed(told)'
  <2>1. \A m \in Rejected' : 2 * m + 1 <= told => m \in Rejected
    OBVIOUS
  <2> QED
    BY <1>1, <2>1 DEF PageHas, Owed
<1> QED
  BY <1>2, <1>3, <1>4, <1>5 DEF PageHas

\* The runner publishes the news up to a place.
LEMMA Published ==
  ASSUME TypeOK, NEW told \in Nat, NEW upto \in Nat, told <= upto, PageHas(told),
         NEW new \in Seq(EventType), Rising(new),
         bus' = bus \o new, polled' = polled, page'.panel = page.panel, messages' = messages,
         \A e \in ToSet(new) : Tells(e) => Place(e) \in Nat /\ told < Place(e) /\ Place(e) <= upto,
         \A e \in ToSet(new) : e.kind = "rejected" => e.ref \in Rejected,
         \A m \in Messages : told < 2 * m /\ 2 * m <= upto => Event("message", m) \in ToSet(new),
         \A m \in Rejected : told < 2 * m + 1 /\ 2 * m + 1 <= upto =>
            Event("rejected", m) \in ToSet(new)
  PROVE  PageHas(upto)'
<1>1. /\ bus \in Seq(EventType)
      /\ ToSet(bus') = ToSet(bus) \cup ToSet(new) /\ Way' = Way \cup ToSet(new)
      /\ Rejected' = Rejected /\ Messages' = Messages
  <2>1. bus \in Seq(EventType)
    BY Typed DEF QueuesTyped
  <2>2. ToSet(bus') = ToSet(bus) \cup ToSet(new)
    BY ONLY <2>1, new \in Seq(EventType), bus' = bus \o new, Joined
  <2> QED
    BY <2>1, <2>2 DEF Way, Rejected, Messages
<1>2. /\ \A e \in Way : Tells(e) => Place(e) \in Nat /\ Place(e) <= told
      /\ \A i \in DOMAIN page.panel :
            PlaceShown(page.panel[i]) \in Nat /\ PlaceShown(page.panel[i]) <= told
      /\ \A m \in Messages : m \in Nat
      /\ Rejected \subseteq Messages
  BY Places DEF PageHas, OnItsWay, Panels
<1>3. OnItsWay(upto)'
  <2>1. Before(bus, new) /\ Before(polled, bus')
    <3>1. \A d \in ToSet(bus) \cup ToSet(polled), e \in ToSet(new) :
             Tells(d) /\ Tells(e) => Place(d) < Place(e)
      BY <1>2 DEF Way
    <3> QED
      BY <1>1, <3>1 DEF Before, PageHas, OnItsWay
  <2>2. Rising(bus')
    BY <1>1, <2>1, OrderJoined DEF PageHas, OnItsWay
  <2>3. \A e \in Way' : Tells(e) => Place(e) <= upto
    BY <1>1, <1>2
  <2>4. \A e \in Way' : e.kind = "rejected" => e.ref \in Rejected'
    BY <1>1 DEF PageHas, OnItsWay
  <2>5. Rising(polled)' /\ Before(polled, bus)'
    BY <2>1 DEF PageHas, OnItsWay, Rising, Before
  <2> QED
    BY <2>2, <2>3, <2>4, <2>5 DEF OnItsWay, Rising
<1>4. Panels(upto)'
  <2>1. \A i \in DOMAIN page.panel : \A e \in Way' :
           Tells(e) => PlaceShown(page.panel[i]) < Place(e)
    BY <1>1, <1>2 DEF PageHas, Panels
  <2>2. \A i \in DOMAIN page.panel : PlaceShown(page.panel[i]) <= upto
    BY <1>2
  <2> QED
    BY <1>1, <2>1, <2>2 DEF PageHas, Panels
<1>5. NoGap(upto)'
  <2> SUFFICES ASSUME NEW m \in Messages, 2 * m <= upto
               PROVE  \/ Event("message", m) \in Way'
                      \/ /\ \A e \in Way' : Tells(e) => 2 * m < Place(e)
                         /\ \/ \E i \in DOMAIN page.panel : page.panel[i].msg = m
                            \/ \A i \in DOMAIN page.panel : m < page.panel[i].msg
    BY <1>1 DEF NoGap
  <2>1. CASE told < 2 * m
    BY <1>1, <2>1
  <2>2. CASE 2 * m <= told
    <3>1. \A e \in ToSet(new) : Tells(e) => 2 * m < Place(e)
      BY <1>2, <2>2
    <3> QED
      BY <1>1, <2>2, <3>1 DEF PageHas, NoGap
  <2> QED
    BY <1>2, <2>1, <2>2
<1>6. Owed(upto)'
  <2> SUFFICES ASSUME NEW m \in Rejected, 2 * m + 1 <= upto,
                      \/ Event("message", m) \in Way'
                      \/ \E i \in DOMAIN page.panel : page.panel[i] = [msg |-> m, role |-> "ai"]
               PROVE  Event("rejected", m) \in Way'
    BY <1>1 DEF Owed
  <2>1. CASE told < 2 * m + 1
    BY <1>1, <2>1
  <2>2. CASE 2 * m + 1 <= told
    <3>1. Event("message", m) \notin ToSet(new)
      <4>1. Tells(Event("message", m)) /\ Place(Event("message", m)) = 2 * m
        BY DEF Tells, Place, Event
      <4> QED
        BY <1>2, <2>2, <4>1
    <3> QED
      BY <1>1, <2>2, <3>1 DEF PageHas, Owed
  <2> QED
    BY <1>2, <2>1, <2>2
<1> QED
  BY <1>3, <1>4, <1>5, <1>6 DEF PageHas

\* The swarm adds to the stream.
LEMMA StreamGrows ==
  ASSUME TypeOK, NEW told \in Nat, Stream(told), NEW new \in Seq(UpdateType'),
         updates \in Seq(UpdateType'), updates' = updates \o new,
         run' = run, InOrder(new),
         \A d \in ToSet(updates), e \in ToSet(new) : Tells(d) /\ Tells(e) =>
            Place(d) < Place(e) \/ (d = e /\ d.kind = "message"),
         \A u \in ToSet(new) : Tells(u) =>
            told < Place(u) \/ (u.kind = "message" /\ u.ref \in run.seen),
         \A m \in Messages' : \/ m \in Messages
                              \/ Update("message", m) \in ToSet(new)
                              \/ Update("fallback", m) \in ToSet(new),
         Rejected \subseteq Rejected',
         \A m \in Rejected' : \/ m \in Rejected
                              \/ Update("correction", m) \in ToSet(new)
                              \/ Update("fallback", m + 1) \in ToSet(new),
         \A m \in Messages' : \/ Update("correction", m) \in ToSet(new)
                              \/ Update("fallback", m + 1) \in ToSet(new)
                              => m \in Rejected',
         \A m \in Messages' : m \in Nat /\ m # 0
  PROVE  Stream(told)'
<1>1. ToSet(updates') = ToSet(updates) \cup ToSet(new) /\ InOrder(updates')
  BY Joined, OrderJoined DEF Stream
<1>2. \A m : Pending(m)' <=> \/ Pending(m) \/ Update("correction", m) \in ToSet(new)
                             \/ Update("fallback", m + 1) \in ToSet(new)
  BY <1>1 DEF Pending
<1>3. \A u \in ToSet(updates') : Tells(u) =>
         told < Place(u) \/ (u.kind = "message" /\ u.ref \in run.seen)
  BY <1>1 DEF Stream
<1>4. \A m \in Messages' : told < 2 * m =>
         Update("message", m) \in ToSet(updates') \/ Update("fallback", m) \in ToSet(updates')
  BY <1>1 DEF Stream
<1>5. \A m \in Messages' : Pending(m)' => m \in Rejected'
  <2>1. ASSUME NEW m \in Messages', Pending(m) PROVE m \in Messages
    <3>1. CASE Update("correction", m) \in ToSet(updates)
      BY <3>1, Places DEF Update, Tells
    <3>2. CASE Update("fallback", m + 1) \in ToSet(updates)
      <4>1. m + 1 \in Messages
        BY <3>2, Places DEF Update, Tells
      <4> QED
        BY <4>1, Places
    <3> QED
      BY <2>1, <3>1, <3>2 DEF Pending
  <2> QED
    BY <1>2, <2>1 DEF Stream
<1>6. \A m \in Rejected' : told < 2 * m + 1 => Pending(m)'
  BY <1>2 DEF Stream
<1> QED
  BY <1>1, <1>3, <1>4, <1>5, <1>6 DEF Stream, InOrder

\* The runner consumes the head of the stream, up to whose place the news is told.
LEMMA StreamGoesOn ==
  ASSUME TypeOK, NEW told \in Nat, NEW upto \in Nat, told <= upto, Stream(told),
         updates # <<>>, updates' = Tail(updates), messages' = messages,
         run.seen \subseteq run'.seen,
         \A m \in run'.seen : 2 * m <= upto,
         \A u \in ToSet(Tail(updates)) : Tells(u) =>
            upto < Place(u) \/ (u.kind = "message" /\ u.ref \in run'.seen),
         \A m \in Messages : upto < 2 * m =>
            Head(updates) # Update("message", m) /\ Head(updates) # Update("fallback", m),
         \A m \in Messages : upto < 2 * m + 1 =>
            Head(updates) # Update("correction", m) /\ Head(updates) # Update("fallback", m + 1)
  PROVE  Stream(upto)'
<1>1. /\ ToSet(updates) = {Head(updates)} \cup ToSet(updates')
      /\ InOrder(updates')
      /\ Rejected' = Rejected /\ Messages' = Messages /\ Rejected \subseteq Messages
      /\ \A m \in Messages : m \in Nat
  <2>1. updates \in Seq(UpdateType)
    BY Typed DEF QueuesTyped
  <2> QED
    BY <2>1, Taken, OrderOfRest, Places DEF Stream, Rejected, Messages
<1>2. \A m \in Messages : upto < 2 * m =>
         Update("message", m) \in ToSet(updates') \/ Update("fallback", m) \in ToSet(updates')
  BY <1>1 DEF Stream
<1>3. \A m \in Messages : Pending(m)' => Pending(m)
  BY <1>1 DEF Pending
<1>4. \A m \in Rejected : upto < 2 * m + 1 => Pending(m)'
  BY <1>1 DEF Stream, Pending
<1> QED
  BY <1>1, <1>2, <1>3, <1>4 DEF Stream, InOrder

\* Nothing is said, and nothing is told.
LEMMA NothingSaid ==
  ASSUME TypeOK, Phase, NEW told \in Nat, News(told), PageHas(told)',
         UNCHANGED <<messages, updates>>,
         run'.seen = run.seen \/ (run'.seen = {} /\ updates = <<>>),
         swarm'.at # "judge" \/ (swarm' = swarm /\ run'.seen = run.seen),
         run'.pc \in Streaming => run'.last = 0 \/ (run.pc \in Streaming /\ run'.last = run.last)
  PROVE  News(told)'
<1>1. Messages' = Messages /\ Rejected' = Rejected /\ Rejected \subseteq Messages /\ 0 \notin Messages
  BY Places DEF Messages, Rejected
<1>2. Stream(told)'
  <2>1. ToSet(<<>>) = {}
    BY Short
  <2>2. \A m : Pending(m)' <=> Pending(m)
    BY DEF Pending
  <2>3. \A u \in ToSet(updates) : Tells(u) =>
           told < Place(u) \/ (u.kind = "message" /\ u.ref \in run'.seen)
    BY <2>1 DEF News, Stream
  <2> QED
    BY <1>1, <2>2, <2>3 DEF News, Stream, InOrder
<1>3. UnderJudgement(told)'
  BY DEF News, UnderJudgement
<1>4. TakenBack(told)'
  BY <1>1 DEF News, TakenBack
<1> QED
  BY <1>2, <1>3, <1>4 DEF News

\* Nothing that was said, told or shown changes.
LEMMA NothingNew ==
  ASSUME TypeOK, Phase, NEW told \in Nat, News(told),
         UNCHANGED <<messages, updates, bus, polled>>, page'.panel = page.panel,
         run'.seen = run.seen \/ (run'.seen = {} /\ updates = <<>>),
         swarm'.at # "judge" \/ (swarm' = swarm /\ run'.seen = run.seen),
         run'.pc \in Streaming => run'.last = 0 \/ (run.pc \in Streaming /\ run'.last = run.last)
  PROVE  News(told)'
<1>1. Messages' = Messages /\ Rejected' = Rejected
  BY DEF Messages, Rejected
<1>2. PageHas(told)'
  BY <1>1, PageUntouched, Places DEF News
<1> QED
  BY <1>2, NothingSaid

\* The swarm adds something that is no news about messages.
LEMMA OtherUpdate ==
  ASSUME TypeOK, Phase, Next, NEW told \in Nat, News(told),
         NEW u \in UpdateType', Emit(<<u>>), ~Tells(u),
         UNCHANGED <<messages, run, bus, ui>>,
         swarm'.at # "judge"
  PROVE  News(told)'
<1>1. Messages' = Messages /\ Rejected' = Rejected
  BY DEF Messages, Rejected
<1>2. PageHas(told)'
  <2>1. polled' = polled /\ page'.panel = page.panel
    BY DEF ui
  <2> QED
    BY <1>1, <2>1, PageUntouched, Places DEF News
<1>3. /\ <<u>> \in Seq(UpdateType') /\ ToSet(<<u>>) = {u} /\ InOrder(<<u>>)
  BY Short
<1>4. PICK new : new = <<u>>
  OBVIOUS
<1>5. /\ new \in Seq(UpdateType') /\ ToSet(new) = {u} /\ InOrder(new) /\ updates' = updates \o new
      /\ updates \in Seq(UpdateType')
  BY <1>3, <1>4, Typed, TypesGrow, Wider DEF Emit, QueuesTyped
<1>6. Stream(told)'
  <2>1. \A e \in ToSet(new) : ~Tells(e)
    BY <1>5
  <2>2. \A m : Update("message", m) \notin ToSet(new) /\ Update("fallback", m) \notin ToSet(new)
               /\ Update("correction", m) \notin ToSet(new)
    BY <2>1 DEF Update, Tells
  <2>3. Stream(told)
    BY DEF News
  <2>4. \A m \in Messages' : m \in Nat /\ m # 0
    BY <1>1, Places
  <2> QED
    BY <1>1, <1>5, <2>1, <2>2, <2>3, <2>4, StreamGrows
<1>7. UnderJudgement(told)'
  BY DEF UnderJudgement
<1>8. TakenBack(told)'
  BY <1>1 DEF News, TakenBack
<1> QED
  BY <1>2, <1>6, <1>7, <1>8 DEF News

\* What is emitted comes after the stream.
LEMMA Emitted ==
  ASSUME TypeOK, Phase, Next, NEW new \in Seq(UpdateType'), Emit(new)
  PROVE  /\ updates' = updates \o new /\ updates \in Seq(UpdateType')
         /\ ToSet(updates') = ToSet(updates) \cup ToSet(new)
         /\ \A u \in ToSet(updates) : Tells(u) =>
               Place(u) \in Nat /\ Place(u) <= 2 * Len(messages) + 1
<1>1. updates \in Seq(UpdateType')
  BY Typed, TypesGrow, Wider DEF QueuesTyped
<1>2. ASSUME NEW u \in ToSet(updates), Tells(u)
      PROVE  Place(u) \in Nat /\ Place(u) <= 2 * Len(messages) + 1
  <2>1. PICK m \in 1..Len(messages) : m = u.ref
    BY <1>2, Places
  <2>2. Len(messages) \in Nat /\ Place(u) \in {2 * m, 2 * m - 1, 2 * m + 1}
    BY <2>1, Places DEF Place
  <2>3. m \in Nat /\ m <= Len(messages) /\ 1 <= m
    BY <2>1, <2>2
  <2> QED
    BY <2>2, <2>3
<1> QED
  BY <1>1, <1>2, EmittedTyped

LEMMA SaysNews ==
  ASSUME TypeOK, Phase, Next, NEW told \in 0..(2 * Len(messages) + 1), News(told),
         NEW text \in Texts, Says(text)
  PROVE  News(told)'
<1>1. PICK n : n = Len(messages) + 1
  OBVIOUS
<1>2. PICK new : new = <<Update("message", n)>>
  OBVIOUS
<1>3. /\ messages' = Append(messages, [text |-> text, verdict |-> "open"])
      /\ Len(messages') = n /\ n \in Messages'
      /\ new \in Seq(UpdateType') /\ Emit(new)
      /\ ToSet(new) = {Update("message", n)} /\ InOrder(new)
  BY <1>1, <1>2, SaysTells
<1>4. /\ Len(messages) \in Nat /\ n \in Nat /\ told \in Nat /\ told < 2 * n
      /\ 2 * Len(messages) + 1 < 2 * n
  BY <1>1, Places
<1>5. /\ UNCHANGED <<bus, run>> /\ polled' = polled /\ page' = page
      /\ swarm' = [swarm EXCEPT !.at = "judge"] /\ swarm'.at = "judge"
  BY Typed DEF Says, ui, SwarmType
<1>6. /\ messages \in Seq(MessageType)
      /\ \A m \in Messages : m \in Messages' /\ messages'[m] = messages[m]
      /\ \A m \in Messages' : m \in Nat /\ m # 0 /\ (m \in Messages \/ m = n)
      /\ messages'[n].verdict = "open"
  BY <1>1, <1>3, Typed DEF WorldTyped, Messages
<1>7. Rejected' = Rejected
  BY <1>6 DEF Rejected
<1>8. /\ Tells(Update("message", n)) /\ Place(Update("message", n)) = 2 * n
      /\ \A m : /\ Update("correction", m) # Update("message", n)
                /\ Update("fallback", m) # Update("message", n)
  BY DEF Tells, Place, Update
<1>9. PageHas(told)'
  BY <1>4, <1>5, <1>6, <1>7, PageUntouched DEF News
<1>10. /\ updates' = updates \o new /\ updates \in Seq(UpdateType')
       /\ ToSet(updates') = ToSet(updates) \cup ToSet(new)
       /\ \A u \in ToSet(updates) : Tells(u) => Place(u) \in Nat /\ Place(u) < 2 * n
  <2>1. /\ updates' = updates \o new /\ updates \in Seq(UpdateType')
        /\ ToSet(updates') = ToSet(updates) \cup ToSet(new)
        /\ \A u \in ToSet(updates) : Tells(u) =>
              Place(u) \in Nat /\ Place(u) <= 2 * Len(messages) + 1
    BY <1>3, Emitted
  <2> QED
    BY <1>4, <2>1
<1>11. Stream(told)'
  <2>1. Stream(told) /\ told \in Nat
    BY <1>4 DEF News
  <2> QED
    BY <1>3, <1>4, <1>5, <1>6, <1>7, <1>8, <1>10, <2>1, StreamGrows
<1>12. UnderJudgement(told)'
  <2>1. \A u \in ToSet(updates') : Tells(u) => Place(u) <= 2 * n
    BY <1>3, <1>4, <1>8, <1>10
  <2> QED
    BY <1>3, <1>4, <1>6, <2>1 DEF UnderJudgement
<1>13. TakenBack(told)'
  BY <1>5, <1>7 DEF News, TakenBack
<1> QED
  BY <1>9, <1>11, <1>12, <1>13 DEF News

\* A message under judgement is the last the stream has, and no rejected one.
LEMMA ApprovesNews ==
  ASSUME TypeOK, Phase, Next, NEW told \in 0..(2 * Len(messages) + 1), News(told), Approves
  PROVE  News(told)'
<1>1. PICK n : n = Len(messages)
  OBVIOUS
<1>2. PICK new \in Seq(UpdateType') :
         /\ Emit(new) /\ InOrder(new)
         /\ \A u \in ToSet(new) : u = Update("message", n) \/ u.kind = "handoff"
  BY <1>1, ApprovesTells
<1>3. /\ n \in Messages /\ messages' = Judged("approved") /\ Len(messages) \in Nat
      /\ Judged("approved")[n].verdict = "approved"
      /\ \A m \in Messages : m # n => Judged("approved")[m] = messages[m]
      /\ DOMAIN Judged("approved") = DOMAIN messages
      /\ \A m \in Messages : m \in Nat /\ m # 0
  BY <1>1, ApprovesTells, Verdicts, Places
<1>4. /\ messages[n].verdict = "open" /\ told \in Nat
      /\ told < 2 * n \/ (told = 2 * n /\ n \in run.seen)
      /\ \A u \in ToSet(updates) : Tells(u) => Place(u) <= 2 * n
  BY <1>1, <1>3 DEF Approves, SwarmAt, News, UnderJudgement
<1>5. Messages' = Messages /\ Rejected' = Rejected
  BY <1>3, <1>4 DEF Messages, Rejected
<1>6. /\ UNCHANGED <<bus, run>> /\ polled' = polled /\ page' = page /\ swarm'.at = "over"
  BY Typed DEF Approves, ui, SwarmType
<1>7. /\ Tells(Update("message", n)) /\ Place(Update("message", n)) = 2 * n
      /\ \A m : /\ Update("correction", m) # Update("message", n)
                /\ Update("fallback", m) # Update("message", n)
      /\ \A u : u.kind = "handoff" => ~Tells(u)
      /\ \A m : ~(Update("correction", m).kind = "handoff")
      /\ \A m : ~(Update("fallback", m).kind = "handoff")
      /\ Update("message", n).kind = "message" /\ Update("message", n).ref = n
  BY DEF Tells, Place, Update
<1>8. PageHas(told)'
  BY <1>3, <1>4, <1>5, <1>6, PageUntouched DEF News
<1>9. updates' = updates \o new /\ updates \in Seq(UpdateType')
  BY <1>2, Emitted
<1>10. ASSUME NEW d \in ToSet(updates), NEW e \in ToSet(new), Tells(d), Tells(e)
       PROVE  Place(d) < Place(e) \/ (d = e /\ d.kind = "message")
  <2>1. e = Update("message", n)
    BY <1>2, <1>7, <1>10
  <2>2. PICK m \in Nat : /\ d.ref = m /\ d = Update(d.kind, m)
                         /\ d.kind \in {"message", "correction", "fallback"}
    BY <1>3, <1>10, Places
  <2>3. n \in Nat /\ Place(d) <= 2 * n
    BY <1>3, <1>4, <1>10
  <2>4. CASE d.kind = "message"
    <3>1. 2 * m <= 2 * n
      BY <2>2, <2>3, <2>4 DEF Place
    <3>2. m < n \/ m = n
      BY <2>2, <2>3, <3>1
    <3> QED
      BY <1>7, <2>1, <2>2, <2>3, <2>4, <3>2 DEF Place
  <2>5. CASE d.kind \in {"correction", "fallback"}
    <3>1. Place(d) = 2 * m + 1 \/ Place(d) = 2 * m - 1
      BY <2>2, <2>5 DEF Place
    <3>2. Place(d) < 2 * n
      BY <2>2, <2>3, <3>1
    <3> QED
      BY <1>7, <2>1, <3>2
  <2> QED
    BY <2>2, <2>4, <2>5
<1>11. \A u \in ToSet(new) : Tells(u) => told < Place(u) \/ (u.kind = "message" /\ u.ref \in run.seen)
  BY <1>2, <1>4, <1>7
<1>12. \A m : Update("correction", m) \notin ToSet(new) /\ Update("fallback", m) \notin ToSet(new)
  BY <1>2, <1>7
<1>13. Stream(told)'
  <2>1. Stream(told)
    BY DEF News
  <2> QED
    BY <1>2, <1>3, <1>4, <1>5, <1>6, <1>9, <1>10, <1>11, <1>12, <2>1, StreamGrows
<1>14. UnderJudgement(told)'
  BY <1>6 DEF UnderJudgement
<1>15. TakenBack(told)'
  BY <1>5, <1>6 DEF News, TakenBack
<1> QED
  BY <1>8, <1>13, <1>14, <1>15 DEF News

LEMMA RejectsNews ==
  ASSUME TypeOK, Phase, Next, NEW told \in 0..(2 * Len(messages) + 1), News(told), Rejects
  PROVE  News(told)'
<1>1. PICK n : n = Len(messages)
  OBVIOUS
<1>2. PICK new : new = <<Update("correction", n)>>
  OBVIOUS
<1>3. /\ n \in Messages /\ messages' = Judged("rejected") /\ Len(messages) \in Nat
      /\ new \in Seq(UpdateType') /\ Emit(new) /\ InOrder(new)
      /\ ToSet(new) = {Update("correction", n)}
      /\ Judged("rejected")[n].verdict = "rejected"
      /\ \A m \in Messages : m # n => Judged("rejected")[m] = messages[m]
      /\ DOMAIN Judged("rejected") = DOMAIN messages
      /\ \A m \in Messages : m \in Nat /\ m # 0
  BY <1>1, <1>2, RejectsTells, Verdicts, Places
<1>4. /\ told \in Nat /\ n \in Nat /\ told <= 2 * n
      /\ \A u \in ToSet(updates) : Tells(u) => Place(u) <= 2 * n
  BY <1>1, <1>3 DEF Rejects, SwarmAt, News, UnderJudgement
<1>5. Messages' = Messages /\ Rejected' = Rejected \cup {n}
  BY <1>3 DEF Messages, Rejected
<1>6. /\ UNCHANGED <<bus, run>> /\ polled' = polled /\ page' = page /\ swarm'.at = "llm"
  BY Typed DEF Rejects, ui, SwarmType
<1>7. /\ Tells(Update("correction", n)) /\ Place(Update("correction", n)) = 2 * n + 1
      /\ \A m : /\ Update("correction", m) = Update("correction", n) => m = n
                /\ Update("fallback", m) # Update("correction", n)
  BY DEF Tells, Place, Update
<1>8. PageHas(told)'
  BY <1>3, <1>4, <1>5, <1>6, PageUntouched DEF News
<1>9. /\ updates' = updates \o new /\ updates \in Seq(UpdateType')
      /\ \A u \in ToSet(updates) : Tells(u) => Place(u) \in Nat /\ Place(u) < 2 * n + 1
  BY <1>3, <1>4, Emitted
<1>10. Stream(told)'
  <2>1. Stream(told)
    BY DEF News
  <2>2. told < 2 * n + 1
    BY <1>4
  <2> QED
    BY <1>3, <1>4, <1>5, <1>6, <1>7, <1>9, <2>1, <2>2, StreamGrows
<1>11. UnderJudgement(told)'
  BY <1>6 DEF UnderJudgement
<1>12. TakenBack(told)'
  <2>1. told < 2 * n + 1
    BY <1>4
  <2> QED
    BY <1>5, <1>6, <2>1 DEF News, TakenBack
<1> QED
  BY <1>8, <1>10, <1>11, <1>12 DEF News

LEMMA FallbackNews ==
  ASSUME TypeOK, Phase, Next, NEW told \in 0..(2 * Len(messages) + 1), News(told), RejectsAtCap
  PROVE  News(told)'
<1>1. PICK n : n = Len(messages) + 1
  OBVIOUS
<1>2. PICK new \in Seq(UpdateType') :
         /\ Emit(new) /\ InOrder(new) /\ Update("fallback", n) \in ToSet(new)
         /\ \A u \in ToSet(new) : \/ u \in {Update("fallback", n), Update("message", n)}
                                  \/ u.kind = "handoff"
  BY <1>1, FallbackTells
<1>3. /\ n - 1 \in Messages /\ n \in Messages' /\ Len(messages') = n
      /\ messages' = Append(Judged("rejected"), [text |-> "fallback", verdict |-> "approved"])
      /\ Len(messages) \in Nat /\ n - 1 = Len(messages) /\ n \in Nat
  BY <1>1, FallbackTells, Places
<1>4. /\ told \in Nat /\ told <= 2 * (n - 1) /\ messages[n - 1].verdict = "open"
      /\ \A u \in ToSet(updates) : Tells(u) => Place(u) <= 2 * (n - 1)
  BY <1>1, <1>3 DEF RejectsAtCap, SwarmAt, News, UnderJudgement
<1>5. /\ \A m \in Messages' : m \in Nat /\ m # 0 /\ (m \in Messages \/ m = n)
      /\ Rejected' = Rejected \cup {n - 1} /\ Messages \subseteq Messages'
  <2>1. /\ Judged("rejected") \in Seq(MessageType)
        /\ Len(Judged("rejected")) = Len(messages)
        /\ DOMAIN Judged("rejected") = DOMAIN messages
        /\ Judged("rejected")[n - 1].verdict = "rejected"
        /\ \A m \in Messages : m # n - 1 => Judged("rejected")[m] = messages[m]
    BY <1>3, Verdicts DEF Messages
  <2>2. /\ DOMAIN messages' = 1..n /\ Messages = 1..(n - 1)
        /\ \A m \in Messages : messages'[m] = Judged("rejected")[m]
        /\ messages'[n].verdict = "approved"
    BY <1>3, <2>1, Places
  <2>3. \A m \in 1..n : m \in Nat /\ m # 0 /\ (m \in 1..(n - 1) \/ m = n)
    BY <1>3
  <2>4. 1..(n - 1) \subseteq 1..n
    BY <1>3
  <2> QED
    BY <1>3, <2>1, <2>2, <2>3, <2>4 DEF Messages, Rejected
<1>6. /\ UNCHANGED <<bus, run>> /\ polled' = polled /\ page' = page /\ swarm'.at = "over"
  BY Typed DEF RejectsAtCap, ui, SwarmType
<1>7. /\ Tells(Update("fallback", n)) /\ Place(Update("fallback", n)) = 2 * n - 1
      /\ Tells(Update("message", n)) /\ Place(Update("message", n)) = 2 * n
      /\ \A m : /\ Update("correction", m) # Update("message", n)
                /\ Update("correction", m) # Update("fallback", n)
                /\ Update("fallback", m) # Update("message", n)
                /\ Update("fallback", m) = Update("fallback", n) => m = n
      /\ \A u : u.kind = "handoff" => ~Tells(u)
      /\ \A m : ~(Update("correction", m).kind = "handoff")
      /\ \A m : ~(Update("fallback", m).kind = "handoff")
  BY DEF Tells, Place, Update
<1>8. PageHas(told)'
  <2>1. told < 2 * n /\ told < 2 * (n - 1) + 1 /\ n - 1 \in Nat
    BY <1>3, <1>4
  <2> QED
    BY <1>4, <1>5, <1>6, <2>1, PageUntouched DEF News
<1>9. /\ updates' = updates \o new /\ updates \in Seq(UpdateType')
      /\ \A u \in ToSet(updates) : Tells(u) => Place(u) \in Nat
  BY <1>2, Emitted
<1>10. \A u \in ToSet(new) : Tells(u) =>
          2 * (n - 1) < Place(u) /\ told < Place(u)
  <2>1. 2 * (n - 1) < 2 * n /\ 2 * (n - 1) < 2 * n - 1 /\ told < 2 * n /\ told < 2 * n - 1
    BY <1>3, <1>4
  <2> QED
    BY <1>2, <1>7, <2>1
<1>11. \A d \in ToSet(updates), e \in ToSet(new) : Tells(d) /\ Tells(e) => Place(d) < Place(e)
  <2>1. \A e \in ToSet(new) : Tells(e) => Place(e) \in Nat
    BY <1>2, <1>3, <1>7
  <2> QED
    BY <1>3, <1>4, <1>9, <1>10, <2>1
<1>12. /\ \A m : Update("correction", m) \notin ToSet(new)
       /\ \A m : Update("fallback", m) \in ToSet(new) => m = n
  BY <1>2, <1>7
<1>13. Stream(told)'
  <2>1. Stream(told)
    BY DEF News
  <2>2. \A m \in Messages' : Update("fallback", m + 1) \in ToSet(new) => m = n - 1
    BY <1>3, <1>5, <1>12
  <2>3. Update("fallback", (n - 1) + 1) \in ToSet(new)
    BY <1>2, <1>3
  <2>4. \A m \in Messages' : m \in Messages \/ Update("fallback", m) \in ToSet(new)
    BY <1>2, <1>5
  <2>5. \A m \in Rejected' : m \in Rejected \/ Update("fallback", m + 1) \in ToSet(new)
    BY <1>5, <2>3
  <2> QED
    BY <1>2, <1>4, <1>5, <1>6, <1>9, <1>10, <1>11, <1>12, <2>1, <2>2, <2>4, <2>5, StreamGrows
<1>14. UnderJudgement(told)'
  BY <1>6 DEF UnderJudgement
<1>15. TakenBack(told)'
  <2>1. told < 2 * (n - 1) + 1
    BY <1>3, <1>4
  <2> QED
    BY <1>5, <1>6, <2>1 DEF News, TakenBack
<1> QED
  BY <1>8, <1>13, <1>14, <1>15 DEF News

\* The head of the stream is the first of its news.
LEMMA HeadFirst ==
  ASSUME TypeOK, NEW told \in Nat, Stream(told), updates # <<>>
  PROVE  /\ Head(updates) \in ToSet(updates)
         /\ ToSet(updates) = {Head(updates)} \cup ToSet(Tail(updates))
         /\ \A u \in ToSet(Tail(updates)) : Tells(Head(updates)) /\ Tells(u) =>
               \/ Place(Head(updates)) < Place(u)
               \/ u = Head(updates) /\ u.kind = "message"
<1>1. updates \in Seq(UpdateType) /\ InOrder(updates)
  BY Typed DEF QueuesTyped, Stream
<1> QED
  BY <1>1, Taken, OrderOfRest

\* The runner consumes what is no news about messages.
LEMMA OtherHead ==
  ASSUME TypeOK, Phase, NEW told \in Nat, News(told), updates # <<>>,
         ~Tells(Head(updates)), updates' = Tail(updates), UNCHANGED <<messages, swarm>>,
         run'.seen = run.seen, run'.last = run.last, run.pc \in Streaming,
         PageHas(told)'
  PROVE  News(told)'
<1>1. Stream(told)
  BY DEF News
<1>2. ToSet(updates) = {Head(updates)} \cup ToSet(updates')
  BY <1>1, HeadFirst
<1>3. Stream(told)'
  <2>1. \A m : /\ Head(updates) # Update("message", m) /\ Head(updates) # Update("correction", m)
               /\ Head(updates) # Update("fallback", m)
    BY DEF Update, Tells
  <2>2. \A m \in run.seen : 2 * m <= told
    BY <1>1 DEF Stream
  <2>3. \A u \in ToSet(Tail(updates)) : Tells(u) =>
           told < Place(u) \/ (u.kind = "message" /\ u.ref \in run'.seen)
    BY <1>1, <1>2 DEF Stream
  <2>4. told <= told
    OBVIOUS
  <2> QED
    BY <1>1, <2>1, <2>2, <2>3, <2>4, StreamGoesOn
<1>4. UnderJudgement(told)'
  BY <1>2 DEF News, UnderJudgement
<1>5. TakenBack(told)'
  BY DEF News, TakenBack, Rejected, Messages
<1> QED
  BY <1>3, <1>4, <1>5 DEF News

\* A repetition is passed over.
LEMMA RepeatedNews ==
  ASSUME TypeOK, Phase, Next, NEW told \in Nat, News(told), on_message,
         Head(updates).ref \in run.seen
  PROVE  News(told)'
<1>1. /\ updates # <<>> /\ Head(updates).kind = "message" /\ updates' = Tail(updates)
      /\ UNCHANGED <<messages, swarm, run, bus>> /\ polled' = polled /\ page' = page
  BY DEF on_message, Arrives, Consume, ui, world
<1>2. PICK m : m = Head(updates).ref
  OBVIOUS
<1>3. Stream(told) /\ m \in run.seen
  BY <1>2 DEF News
<1>4. /\ ToSet(updates) = {Head(updates)} \cup ToSet(updates')
  BY <1>1, <1>3, HeadFirst
<1>5. Stream(told)'
  <2>1. \A k : /\ Head(updates) = Update("message", k) => k = m
               /\ Head(updates) # Update("correction", k)
               /\ Head(updates) # Update("fallback", k)
    BY <1>1, <1>2 DEF Update
  <2>2. \A k \in run.seen : 2 * k <= told
    BY <1>3 DEF Stream
  <2>3. \A k \in Messages : told < 2 * k => k # m
    BY <1>3, <2>2, Places
  <2>4. \A u \in ToSet(Tail(updates)) : Tells(u) =>
           told < Place(u) \/ (u.kind = "message" /\ u.ref \in run'.seen)
    BY <1>1, <1>3, <1>4 DEF Stream
  <2>5. told <= told
    OBVIOUS
  <2> QED
    BY <1>1, <1>3, <2>1, <2>2, <2>3, <2>4, <2>5, StreamGoesOn
<1>6. PageHas(told)'
  <2>1. Messages' = Messages /\ Rejected' = Rejected
    BY <1>1 DEF Messages, Rejected
  <2> QED
    BY <1>1, <2>1, PageUntouched, Places DEF News
<1>7. UnderJudgement(told)'
  BY <1>1, <1>4 DEF News, UnderJudgement
<1>8. TakenBack(told)'
  BY <1>1 DEF News, TakenBack, Rejected, Messages
<1> QED
  BY <1>5, <1>6, <1>7, <1>8 DEF News

\* A message is shown for the first time.
LEMMA MessageNews ==
  ASSUME TypeOK, Phase, Next, NEW told \in Nat, News(told), on_message,
         Head(updates).ref \notin run.seen
  PROVE  \E upto \in 0..(2 * Len(messages) + 1) : News(upto)'
<1>1. /\ updates # <<>> /\ Head(updates).kind = "message" /\ updates' = Tail(updates)
      /\ UNCHANGED <<messages, swarm>> /\ polled' = polled /\ page' = page
      /\ run.pc = "stream"
  BY DEF on_message, Arrives, Consume, ui, world, At
<1>2. PICK m \in Messages : m = Head(updates).ref
  BY <1>1, HeadTyped
<1>3. /\ run' = [run EXCEPT !.seen = run.seen \cup {m}, !.last = m]
      /\ bus' = bus \o <<Event("message", m)>>
  BY <1>2 DEF on_message, Publish
<1>4. /\ run'.seen = run.seen \cup {m} /\ run'.last = m /\ run'.pc = "stream"
  BY <1>1, <1>3, Typed DEF RunType
<1>5. Stream(told)
  BY DEF News
<1>6. /\ Head(updates) \in ToSet(updates) /\ ToSet(updates) = {Head(updates)} \cup ToSet(updates')
      /\ Head(updates) = Update("message", m) /\ Tells(Head(updates))
      /\ Place(Head(updates)) = 2 * m
  <2>1. Head(updates) \in ToSet(updates) /\ ToSet(updates) = {Head(updates)} \cup ToSet(updates')
    BY <1>1, <1>5, HeadFirst
  <2>2. Tells(Head(updates))
    BY <1>1 DEF Tells
  <2> QED
    BY <1>1, <1>2, <2>1, <2>2, Places DEF Place
<1>7. told < 2 * m /\ m \in Nat /\ m # 0 /\ m <= Len(messages) /\ Len(messages) \in Nat
  BY <1>2, <1>5, <1>6, Places DEF Stream
<1>8. PICK upto \in Nat : upto = 2 * m
  BY <1>7
<1>9. told <= upto /\ upto \in 0..(2 * Len(messages) + 1)
  BY <1>7, <1>8
<1>10. \A u \in ToSet(updates') : Tells(u) =>
          upto < Place(u) \/ (u.kind = "message" /\ u.ref = m)
  BY <1>1, <1>2, <1>5, <1>6, <1>8, HeadFirst
<1>11. /\ Rejected' = Rejected /\ Rejected \subseteq Messages
       /\ \A k \in Messages : k \in Nat
  BY <1>1, Places DEF Rejected, Messages
<1>12. Stream(upto)'
  <2>1. \A k \in run'.seen : 2 * k <= upto
    <3>1. \A k \in run.seen : 2 * k <= told /\ k \in Nat
      BY <1>5, <1>11, Typed DEF Stream, RunType
    <3> QED
      BY <1>4, <1>7, <1>8, <3>1
  <2>2. \A k : /\ Head(updates) = Update("message", k) => k = m
               /\ Head(updates) # Update("correction", k)
               /\ Head(updates) # Update("fallback", k)
    BY <1>6 DEF Update
  <2>3. \A k \in Messages : upto < 2 * k => k # m
    BY <1>7, <1>8
  <2>4. \A u \in ToSet(Tail(updates)) : Tells(u) =>
           upto < Place(u) \/ (u.kind = "message" /\ u.ref \in run'.seen)
    BY <1>1, <1>4, <1>10
  <2> QED
    BY <1>1, <1>4, <1>5, <1>9, <2>1, <2>2, <2>3, <2>4, StreamGoesOn
<1>13. PageHas(upto)'
  <2>1. PICK new : new = <<Event("message", m)>>
    OBVIOUS
  <2>2. /\ Event("message", m) \in EventType /\ Tells(Event("message", m))
        /\ Place(Event("message", m)) = 2 * m /\ Event("message", m).kind # "rejected"
    BY DEF EventType, Event, Tells, Place
  <2>3. new \in Seq(EventType) /\ ToSet(new) = {Event("message", m)} /\ Rising(new)
    BY <2>1, <2>2, Short
  <2>4. \A e \in ToSet(new) : Tells(e) => Place(e) \in Nat /\ told < Place(e) /\ Place(e) <= upto
    BY <1>7, <1>8, <2>2, <2>3
  <2>5. \A k \in Messages : told < 2 * k /\ 2 * k <= upto => k = m
    <3> SUFFICES ASSUME NEW k \in Messages, told < 2 * k, 2 * k <= upto, k # m
                 PROVE  FALSE
      OBVIOUS
    <3>1. k \in Nat /\ 2 * k < 2 * m
      BY <1>7, <1>8, <1>11
    <3>2. PICK u \in ToSet(updates) : u = Update("message", k) \/ u = Update("fallback", k)
      BY <1>5 DEF Stream
    <3>3. Tells(u) /\ Place(u) <= 2 * k /\ u # Head(updates)
      BY <1>6, <3>1, <3>2 DEF Tells, Place, Update
    <3>4. Place(u) \in Nat /\ (upto < Place(u) \/ u = Update("message", m))
      BY <1>6, <1>10, <3>2, <3>3, Places
    <3>5. u # Update("message", m)
      BY <1>6, <3>3
    <3> QED
      BY <1>7, <1>8, <3>1, <3>3, <3>4, <3>5
  <2>6. \A k \in Rejected : ~(told < 2 * k + 1 /\ 2 * k + 1 <= upto)
    <3> SUFFICES ASSUME NEW k \in Rejected, told < 2 * k + 1, 2 * k + 1 <= upto
                 PROVE  FALSE
      OBVIOUS
    <3>1. k \in Nat /\ Pending(k)
      BY <1>5, <1>11 DEF Stream
    <3>2. PICK u \in ToSet(updates) : u = Update("correction", k) \/ u = Update("fallback", k + 1)
      BY <3>1 DEF Pending
    <3>3. Tells(u) /\ Place(u) = 2 * k + 1 /\ u.kind # "message" /\ u # Head(updates)
      BY <1>6, <3>1, <3>2 DEF Tells, Place, Update
    <3>4. upto < Place(u)
      BY <1>6, <1>10, <3>3
    <3> QED
      BY <1>8, <3>1, <3>3, <3>4
  <2> QED
    BY <1>1, <1>3, <1>9, <2>1, <2>2, <2>3, <2>4, <2>5, <2>6, Published DEF News
<1>14. UnderJudgement(upto)'
  <2>1. ASSUME swarm.at = "judge"
        PROVE  /\ messages[Len(messages)].verdict = "open"
               /\ upto < 2 * Len(messages)
                    \/ (upto = 2 * Len(messages) /\ Len(messages) \in run'.seen)
               /\ \A u \in ToSet(updates') : Tells(u) => Place(u) <= 2 * Len(messages)
    BY <1>4, <1>6, <1>7, <1>8, <2>1 DEF News, UnderJudgement
  <2> QED
    BY <1>1, <2>1 DEF UnderJudgement
<1>15. TakenBack(upto)'
  BY <1>4, <1>7, <1>8 DEF TakenBack
<1> QED
  BY <1>9, <1>12, <1>13, <1>14, <1>15 DEF News

\* A message is struck out.
LEMMA CorrectionNews ==
  ASSUME TypeOK, Phase, Next, NEW told \in Nat, News(told), on_correction
  PROVE  \E upto \in 0..(2 * Len(messages) + 1) : News(upto)'
<1>1. /\ updates # <<>> /\ Head(updates).kind = "correction" /\ updates' = Tail(updates)
      /\ UNCHANGED <<messages, swarm>> /\ polled' = polled /\ page' = page
      /\ run.pc = "stream"
  BY DEF on_correction, Arrives, Consume, ui, world, At
<1>2. PICK m \in Messages : m = Head(updates).ref
  BY <1>1, HeadTyped
<1>3. /\ run' = [run EXCEPT !.last = IF run.last = m THEN 0 ELSE run.last]
      /\ bus' = bus \o <<Event("rejected", m)>>
  BY <1>2 DEF on_correction, Publish
<1>4. /\ run'.seen = run.seen /\ run'.pc = "stream"
      /\ run'.last = IF run.last = m THEN 0 ELSE run.last
  BY <1>1, <1>3, Typed DEF RunType
<1>5. Stream(told)
  BY DEF News
<1>6. /\ Head(updates) \in ToSet(updates) /\ ToSet(updates) = {Head(updates)} \cup ToSet(updates')
      /\ Head(updates) = Update("correction", m) /\ Tells(Head(updates))
      /\ Place(Head(updates)) = 2 * m + 1
  <2>1. Head(updates) \in ToSet(updates) /\ ToSet(updates) = {Head(updates)} \cup ToSet(updates')
    BY <1>1, <1>5, HeadFirst
  <2>2. Tells(Head(updates))
    BY <1>1 DEF Tells
  <2> QED
    BY <1>1, <1>2, <2>1, <2>2, Places DEF Place
<1>7. told < 2 * m + 1 /\ m \in Nat /\ m # 0 /\ m <= Len(messages) /\ Len(messages) \in Nat
  BY <1>1, <1>2, <1>5, <1>6, Places DEF Stream
<1>8. PICK upto \in Nat : upto = 2 * m + 1
  BY <1>7
<1>9. told <= upto /\ upto \in 0..(2 * Len(messages) + 1)
  BY <1>7, <1>8
<1>10. \A u \in ToSet(updates') : Tells(u) => upto < Place(u)
  BY <1>1, <1>5, <1>6, <1>8, HeadFirst
<1>11. /\ Rejected' = Rejected /\ Rejected \subseteq Messages /\ m \in Rejected
       /\ \A k \in Messages : k \in Nat /\ k # 0
  <2>1. Pending(m)
    BY <1>6 DEF Pending
  <2> QED
    BY <1>1, <1>2, <1>5, <2>1, Places DEF Rejected, Messages, Stream
<1>12. Stream(upto)'
  <2>1. \A k \in run'.seen : 2 * k <= upto
    <3>1. \A k \in run.seen : 2 * k <= told /\ k \in Nat
      BY <1>5, <1>11, Typed DEF Stream, RunType
    <3> QED
      BY <1>4, <1>9, <3>1
  <2>2. \A k : /\ Head(updates) # Update("message", k)
               /\ Head(updates) = Update("correction", k) => k = m
               /\ Head(updates) # Update("fallback", k)
    BY <1>6 DEF Update
  <2>3. \A k \in Messages : upto < 2 * k + 1 => k # m
    BY <1>7, <1>8
  <2>4. \A u \in ToSet(Tail(updates)) : Tells(u) =>
           upto < Place(u) \/ (u.kind = "message" /\ u.ref \in run'.seen)
    BY <1>1, <1>10
  <2> QED
    BY <1>1, <1>4, <1>5, <1>9, <2>1, <2>2, <2>3, <2>4, StreamGoesOn
<1>13. \A k \in Rejected : told < 2 * k + 1 /\ k # m => upto < 2 * k + 1
  <2> SUFFICES ASSUME NEW k \in Rejected, told < 2 * k + 1, k # m
               PROVE  upto < 2 * k + 1
    OBVIOUS
  <2>1. k \in Nat /\ Pending(k)
    BY <1>5, <1>11 DEF Stream
  <2>2. PICK u \in ToSet(updates) : u = Update("correction", k) \/ u = Update("fallback", k + 1)
    BY <2>1 DEF Pending
  <2>3. Tells(u) /\ Place(u) = 2 * k + 1 /\ u # Head(updates)
    BY <1>6, <2>1, <2>2 DEF Tells, Place, Update
  <2> QED
    BY <1>6, <1>10, <2>2, <2>3
<1>14. PageHas(upto)'
  <2>1. PICK new : new = <<Event("rejected", m)>>
    OBVIOUS
  <2>2. /\ Event("rejected", m) \in EventType /\ Tells(Event("rejected", m))
        /\ Place(Event("rejected", m)) = 2 * m + 1 /\ Event("rejected", m).ref = m
    BY DEF EventType, Event, Tells, Place
  <2>3. new \in Seq(EventType) /\ ToSet(new) = {Event("rejected", m)} /\ Rising(new)
    BY <2>1, <2>2, Short
  <2>4. \A e \in ToSet(new) : Tells(e) => Place(e) \in Nat /\ told < Place(e) /\ Place(e) <= upto
    BY <1>7, <1>8, <2>2, <2>3
  <2>5. \A k \in Messages : ~(told < 2 * k /\ 2 * k <= upto)
    <3> SUFFICES ASSUME NEW k \in Messages, told < 2 * k, 2 * k <= upto
                 PROVE  FALSE
      OBVIOUS
    <3>1. k \in Nat
      BY <1>11
    <3>2. PICK u \in ToSet(updates) : u = Update("message", k) \/ u = Update("fallback", k)
      BY <1>5 DEF Stream
    <3>3. Tells(u) /\ Place(u) <= 2 * k /\ u # Head(updates)
      BY <1>6, <3>1, <3>2 DEF Tells, Place, Update
    <3>4. Place(u) \in Nat /\ upto < Place(u)
      BY <1>6, <1>10, <3>2, <3>3, Places
    <3> QED
      BY <3>1, <3>3, <3>4
  <2>6. \A k \in Rejected : told < 2 * k + 1 /\ 2 * k + 1 <= upto =>
           Event("rejected", k) \in ToSet(new)
    <3>1. \A k \in Rejected : told < 2 * k + 1 /\ 2 * k + 1 <= upto => k = m
      BY <1>11, <1>13
    <3> QED
      BY <2>3, <3>1
  <2>7. \A e \in ToSet(new) : e.kind = "rejected" => e.ref \in Rejected
    BY <1>11, <2>2, <2>3
  <2> QED
    BY <1>1, <1>3, <1>9, <2>1, <2>3, <2>4, <2>5, <2>6, <2>7, Published DEF News
<1>15. UnderJudgement(upto)'
  <2>1. ASSUME swarm.at = "judge"
        PROVE  /\ messages[Len(messages)].verdict = "open"
               /\ upto < 2 * Len(messages)
               /\ \A u \in ToSet(updates') : Tells(u) => Place(u) <= 2 * Len(messages)
    <3>1. /\ messages[Len(messages)].verdict = "open"
          /\ \A u \in ToSet(updates) : Tells(u) => Place(u) <= 2 * Len(messages)
      BY <2>1 DEF News, UnderJudgement
    <3>2. 2 * m + 1 <= 2 * Len(messages)
      BY <1>6, <3>1
    <3> QED
      BY <1>6, <1>7, <1>8, <3>1, <3>2
  <2> QED
    BY <1>1, <2>1 DEF UnderJudgement
<1>16. TakenBack(upto)'
  <2> SUFFICES ASSUME run'.last \in Rejected PROVE upto < 2 * run'.last + 1
    BY <1>11 DEF TakenBack
  <2>1. run.last # m /\ run'.last = run.last
    BY <1>4, <1>11
  <2>2. told < 2 * run.last + 1
    BY <1>1, <2>1 DEF News, TakenBack, Streaming
  <2> QED
    BY <1>13, <2>1, <2>2
<1> QED
  BY <1>9, <1>12, <1>14, <1>15, <1>16 DEF News

\* The fallback takes the place of a message.
LEMMA FallbackShown ==
  ASSUME TypeOK, Phase, Next, NEW told \in Nat, News(told), on_fallback
  PROVE  \E upto \in 0..(2 * Len(messages) + 1) : News(upto)'
<1>1. /\ updates # <<>> /\ Head(updates).kind = "fallback" /\ updates' = Tail(updates)
      /\ UNCHANGED <<messages, swarm>> /\ polled' = polled /\ page' = page
      /\ run.pc = "stream"
  BY DEF on_fallback, Arrives, Consume, ui, world, At
<1>2. PICK m \in Messages : m = Head(updates).ref /\ m # 1
  BY <1>1, HeadTyped DEF UpdateType, Update
<1>3. /\ run' = [run EXCEPT !.seen = run.seen \cup {m}, !.last = m]
      /\ bus' = bus \o <<Event("rejected", m - 1), Event("message", m)>>
  BY <1>2 DEF on_fallback, Publish
<1>4. /\ run'.seen = run.seen \cup {m} /\ run'.last = m /\ run'.pc = "stream"
  BY <1>1, <1>3, Typed DEF RunType
<1>5. Stream(told)
  BY DEF News
<1>6. /\ Head(updates) \in ToSet(updates) /\ ToSet(updates) = {Head(updates)} \cup ToSet(updates')
      /\ Head(updates) = Update("fallback", m) /\ Tells(Head(updates))
      /\ Place(Head(updates)) = 2 * m - 1
  <2>1. Head(updates) \in ToSet(updates) /\ ToSet(updates) = {Head(updates)} \cup ToSet(updates')
    BY <1>1, <1>5, HeadFirst
  <2>2. Tells(Head(updates))
    BY <1>1 DEF Tells
  <2> QED
    BY <1>1, <1>2, <2>1, <2>2, Places DEF Place
<1>7. /\ told < 2 * m - 1 /\ m \in Nat /\ m # 0 /\ m <= Len(messages) /\ Len(messages) \in Nat
      /\ m - 1 \in Messages /\ m - 1 \in Nat /\ (m - 1) + 1 = m
  <2>1. told < 2 * m - 1
    BY <1>1, <1>5, <1>6 DEF Stream
  <2>2. m \in Nat /\ m # 0 /\ m <= Len(messages) /\ Len(messages) \in Nat
        /\ Messages = 1..Len(messages)
    BY <1>2, Places
  <2> QED
    BY <1>2, <2>1, <2>2
<1>8. PICK upto \in Nat : upto = 2 * m
  BY <1>7
<1>9. told <= upto /\ upto \in 0..(2 * Len(messages) + 1)
  BY <1>7, <1>8
<1>10. \A u \in ToSet(updates') : Tells(u) => 2 * m - 1 < Place(u) /\ Place(u) \in Nat
  BY <1>1, <1>5, <1>6, HeadFirst, Places
<1>11. /\ Rejected' = Rejected /\ Rejected \subseteq Messages /\ m - 1 \in Rejected
       /\ \A k \in Messages : k \in Nat /\ k # 0
  <2>1. Pending(m - 1)
    BY <1>6, <1>7 DEF Pending
  <2> QED
    BY <1>1, <1>7, <1>5, <2>1, Places DEF Rejected, Messages, Stream
<1>12. \A u \in ToSet(updates') : Tells(u) =>
          upto < Place(u) \/ (u.kind = "message" /\ u.ref = m)
  <2> SUFFICES ASSUME NEW u \in ToSet(updates'), Tells(u), ~(upto < Place(u))
               PROVE  u.kind = "message" /\ u.ref = m
    OBVIOUS
  <2>1. Place(u) = 2 * m
    BY <1>7, <1>8, <1>10
  <2>2. u.kind \in {"message", "correction", "fallback"} /\ u.ref \in Nat
    BY <1>6, <1>11, Places
  <2>3. u.kind = "message" => Place(u) = 2 * u.ref
    BY DEF Place
  <2>4. u.kind = "fallback" => Place(u) = 2 * u.ref - 1
    BY DEF Place
  <2>5. u.kind = "correction" => Place(u) = 2 * u.ref + 1
    BY DEF Place
  <2> QED
    BY <1>7, <2>1, <2>2, <2>3, <2>4, <2>5
<1>13. Stream(upto)'
  <2>1. \A k \in run'.seen : 2 * k <= upto
    <3>1. \A k \in run.seen : 2 * k <= told /\ k \in Nat
      BY <1>5, <1>11, Typed DEF Stream, RunType
    <3> QED
      BY <1>4, <1>7, <1>8, <1>9, <3>1
  <2>2. \A k : /\ Head(updates) # Update("message", k)
               /\ Head(updates) # Update("correction", k)
               /\ Head(updates) = Update("fallback", k) => k = m
    BY <1>6 DEF Update
  <2>3. \A k \in Messages : /\ upto < 2 * k => k # m
                            /\ upto < 2 * k + 1 => k + 1 # m
    BY <1>7, <1>8, <1>11
  <2>4. \A u \in ToSet(Tail(updates)) : Tells(u) =>
           upto < Place(u) \/ (u.kind = "message" /\ u.ref \in run'.seen)
    BY <1>1, <1>4, <1>12
  <2> QED
    BY <1>1, <1>4, <1>5, <1>9, <2>1, <2>2, <2>3, <2>4, StreamGoesOn
<1>14. PageHas(upto)'
  <2> DEFINE r == Event("rejected", m - 1)
             s == Event("message", m)
  <2>1. PICK new : new = <<r, s>>
    OBVIOUS
  <2>2. /\ r \in EventType /\ Tells(r) /\ Place(r) = 2 * (m - 1) + 1 /\ r.ref = m - 1
        /\ s \in EventType /\ Tells(s) /\ Place(s) = 2 * m /\ s.kind # "rejected"
    BY <1>7 DEF EventType, Event, Tells, Place
  <2>3. /\ Place(r) = 2 * m - 1 /\ Place(r) < Place(s) /\ Place(r) \in Nat /\ Place(s) \in Nat
    BY <1>7, <2>2
  <2> HIDE DEF r, s
  <2>4. new \in Seq(EventType) /\ ToSet(new) = {r, s} /\ Rising(new)
    <3>1. PICK d \in EventType, e \in EventType : d = r /\ e = s
      BY <2>2
    <3>2. Place(d) < Place(e)
      BY <2>3, <3>1
    <3>3. <<d, e>> \in Seq(EventType) /\ ToSet(<<d, e>>) = {d, e}
      <4>1. <<d, e>> \in Seq(EventType) /\ DOMAIN <<d, e>> = {1, 2}
        OBVIOUS
      <4> QED
        BY ONLY <4>1 DEF ToSet
    <3>4. Rising(<<d, e>>)
      BY ONLY <3>2, d \in EventType, e \in EventType, Short
    <3> QED
      BY <2>1, <3>1, <3>3, <3>4
  <2>5. \A e \in ToSet(new) : Tells(e) => Place(e) \in Nat /\ told < Place(e) /\ Place(e) <= upto
    BY <1>7, <1>8, <2>2, <2>3, <2>4
  <2>6. \A k \in Messages : told < 2 * k /\ 2 * k <= upto => k = m
    <3> SUFFICES ASSUME NEW k \in Messages, told < 2 * k, 2 * k <= upto, k # m
                 PROVE  FALSE
      OBVIOUS
    <3>1. k \in Nat /\ 2 * k < 2 * m - 1
      BY <1>7, <1>8, <1>11
    <3>2. PICK u \in ToSet(updates) : u = Update("message", k) \/ u = Update("fallback", k)
      BY <1>5 DEF Stream
    <3>3. Tells(u) /\ Place(u) <= 2 * k /\ u # Head(updates)
      BY <1>6, <3>1, <3>2 DEF Tells, Place, Update
    <3>4. Place(u) \in Nat /\ 2 * m - 1 < Place(u)
      BY <1>6, <1>10, <3>2, <3>3
    <3> QED
      BY <1>7, <3>1, <3>3, <3>4
  <2>7. \A k \in Rejected : told < 2 * k + 1 /\ 2 * k + 1 <= upto => k = m - 1
    <3> SUFFICES ASSUME NEW k \in Rejected, told < 2 * k + 1, 2 * k + 1 <= upto, k # m - 1
                 PROVE  FALSE
      OBVIOUS
    <3>1. k \in Nat /\ Pending(k)
      BY <1>5, <1>11 DEF Stream
    <3>2. PICK u \in ToSet(updates) : u = Update("correction", k) \/ u = Update("fallback", k + 1)
      BY <3>1 DEF Pending
    <3>3. k + 1 # m /\ 2 * k + 1 < 2 * m - 1
      BY <1>7, <1>8, <3>1
    <3>4. Tells(u) /\ Place(u) = 2 * k + 1 /\ u # Head(updates)
      BY <1>6, <3>1, <3>2, <3>3 DEF Tells, Place, Update
    <3>5. 2 * m - 1 < Place(u)
      BY <1>6, <1>10, <3>2, <3>4
    <3> QED
      BY <1>7, <3>1, <3>3, <3>4, <3>5
  <2>8. \A e \in ToSet(new) : e.kind = "rejected" => e.ref \in Rejected
    BY <1>11, <2>2, <2>4
  <2>9. /\ \A k \in Messages : told < 2 * k /\ 2 * k <= upto => Event("message", k) \in ToSet(new)
        /\ \A k \in Rejected : told < 2 * k + 1 /\ 2 * k + 1 <= upto =>
              Event("rejected", k) \in ToSet(new)
    BY <2>4, <2>6, <2>7 DEF r, s
  <2>10. bus' = bus \o new
    BY <1>3, <2>1 DEF r, s
  <2> QED
    BY <1>1, <1>9, <2>4, <2>5, <2>8, <2>9, <2>10, Published DEF News
<1>15. UnderJudgement(upto)'
  <2>1. ASSUME swarm.at = "judge"
        PROVE  /\ messages[Len(messages)].verdict = "open"
               /\ upto < 2 * Len(messages)
                    \/ (upto = 2 * Len(messages) /\ Len(messages) \in run'.seen)
               /\ \A u \in ToSet(updates') : Tells(u) => Place(u) <= 2 * Len(messages)
    BY <1>4, <1>6, <1>7, <1>8, <2>1 DEF News, UnderJudgement
  <2> QED
    BY <1>1, <2>1 DEF UnderJudgement
<1>16. TakenBack(upto)'
  BY <1>4, <1>7, <1>8 DEF TakenBack
<1> QED
  BY <1>9, <1>13, <1>14, <1>15, <1>16 DEF News

\* What the tray's button is told of is no news about messages.
LEMMA TrayEvents ==
  ASSUME NEW new, NEW o \in Orders, NEW kind \in {"tray_ready", "tray_taken"},
         new = <<>> \/ new = <<Event(kind, o)>>
  PROVE  new \in Seq(EventType) /\ \A e \in ToSet(new) : ~Tells(e)
<1>1. PICK event : event = Event(kind, o)
  OBVIOUS
<1>2. event \in EventType /\ ~Tells(event)
  BY <1>1 DEF EventType, Event, Tells
<1>3. /\ <<>> \in Seq(EventType) /\ ToSet(<<>>) = {}
      /\ <<event>> \in Seq(EventType) /\ ToSet(<<event>>) = {event}
  BY <1>2, Short
<1> QED
  BY <1>1, <1>2, <1>3

LEMMA TrayPublished ==
  ASSUME TypeOK, NEW told \in Nat, PageHas(told),
         NEW new \in Seq(EventType), \A e \in ToSet(new) : ~Tells(e),
         bus' = bus \o new, polled' = polled, page'.panel = page.panel, messages' = messages
  PROVE  PageHas(told)'
<1>1. Rising(new)
  <2>1. \A i \in DOMAIN new : new[i] \in ToSet(new)
    BY DEF ToSet
  <2> QED
    BY <2>1 DEF Rising
<1>2. /\ told <= told
      /\ \A m \in Messages : m \in Nat
      /\ Rejected \subseteq Messages
  BY Places
<1>3. \A e \in ToSet(new) : e.kind # "rejected"
  BY DEF Tells
<1>4. /\ \A m \in Messages : ~(told < 2 * m /\ 2 * m <= told)
      /\ \A m \in Rejected : ~(told < 2 * m + 1 /\ 2 * m + 1 <= told)
  BY <1>2
<1> QED
  BY <1>1, <1>2, <1>3, <1>4, Published

\* The runner goes on with what is no news about messages.
LEMMA RunnerGoesOn ==
  ASSUME TypeOK, Phase, Next, NEW told \in Nat, News(told),
         on_handoff \/ on_tool_result \/ on_error
  PROVE  News(told)'
<1>1. /\ updates # <<>> /\ ~Tells(Head(updates)) /\ updates' = Tail(updates)
      /\ UNCHANGED <<messages, swarm, ui>> /\ run.pc = "stream"
  BY DEF on_handoff, on_tool_result, on_error, Arrives, At, Consume, world, Tells
<1>2. run'.seen = run.seen /\ run'.last = run.last
  <2>1. run \in RunType
    BY Typed
  <2>2. CASE on_handoff
    BY <2>1, <2>2 DEF on_handoff, RunType
  <2>3. CASE on_tool_result \/ on_error
    BY <2>3 DEF on_tool_result, on_error
  <2> QED
    BY <2>2, <2>3
<1>3. polled' = polled /\ page' = page
  BY <1>1 DEF ui
<1>4. PageHas(told)
  BY DEF News
<1>5. PageHas(told)'
  <2>1. CASE on_handoff \/ on_error
    <3>1. bus' = bus
      BY <2>1 DEF on_handoff, on_error
    <3>2. Messages' = Messages /\ Rejected' = Rejected
      BY <1>1 DEF Messages, Rejected
    <3> QED
      BY <1>3, <1>4, <3>1, <3>2, PageUntouched, Places
  <2>2. CASE on_tool_result
    <3>1. PICK o \in Orders : o = Head(updates).ref
      <4>1. updates # <<>> /\ Head(updates).kind \in {"order", "placed"}
        BY <2>2 DEF on_tool_result, Arrives
      <4> QED
        BY <4>1, HeadTyped
    <3>2. PICK new : /\ new = <<>> \/ new = <<Event("tray_ready", o)>>
                     /\ bus' = bus \o new
      BY <2>2, <3>1 DEF on_tool_result, Publish
    <3>3. new \in Seq(EventType) /\ \A e \in ToSet(new) : ~Tells(e)
      BY <3>2, TrayEvents
    <3> QED
      BY <1>1, <1>3, <1>4, <3>2, <3>3, TrayPublished
  <2> QED
    BY <2>1, <2>2
<1> QED
  BY <1>1, <1>2, <1>5, OtherHead DEF Streaming

\* The tray is announced, or taken.
LEMMA TrayNews ==
  ASSUME TypeOK, Phase, Next, NEW told \in Nat, News(told),
         FinishTurns \/ on_end_conversation \/ consume_tray
  PROVE  News(told)'
<1>1. PageHas(told) /\ current_order_id \in Orders \cup {0} /\ page \in PageType
      /\ click \in ClickType
  BY Typed DEF News, FieldsTyped
<1>2. PICK o, kind, new :
         /\ o \in Orders \/ new = <<>>
         /\ kind \in {"tray_ready", "tray_taken"}
         /\ new = <<>> \/ new = <<Event(kind, o)>>
         /\ bus' = bus \o new
  <2>1. CASE (FinishTurns \/ on_end_conversation) /\ current_order_id = 0
    BY <2>1 DEF FinishTurns, on_end_conversation, Publish
  <2>2. CASE (FinishTurns \/ on_end_conversation) /\ current_order_id # 0
    BY <1>1, <2>2 DEF FinishTurns, on_end_conversation, Publish
  <2>3. CASE consume_tray
    <3>1. click.taking \in Orders
      BY <1>1, <2>3 DEF consume_tray, ClickType
    <3> QED
      BY <2>3, <3>1 DEF consume_tray, Publish
  <2> QED
    BY <2>1, <2>2, <2>3
<1>3. new \in Seq(EventType) /\ \A e \in ToSet(new) : ~Tells(e)
  <2>1. CASE new = <<>>
    BY <2>1 DEF ToSet
  <2>2. CASE new # <<>>
    <3>1. o \in Orders
      BY <1>2, <2>2
    <3> QED
      BY <1>2, <3>1, TrayEvents
  <2> QED
    BY <2>1, <2>2
<1>4. /\ polled' = polled /\ page'.panel = page.panel /\ UNCHANGED <<messages, updates, swarm>>
      /\ run'.seen = run.seen /\ run'.last = run.last
      /\ run' = run \/ run'.pc \notin Streaming
  <2>1. CASE FinishTurns
    <3>1. run' = [run EXCEPT !.pc = "feedback"] /\ run \in RunType
      BY <2>1, Typed DEF FinishTurns, Goto
    <3> QED
      BY <2>1, <3>1 DEF FinishTurns, RunType, ui, world, Streaming
  <2>2. CASE on_end_conversation
    BY <2>2 DEF on_end_conversation, world
  <2>3. CASE consume_tray
    BY <1>1, <2>3 DEF consume_tray, PageType
  <2> QED
    BY <2>1, <2>2, <2>3
<1>5. PageHas(told)'
  BY <1>1, <1>2, <1>3, <1>4, TrayPublished
<1> QED
  BY <1>4, <1>5, NothingSaid

\* The panels are emptied, and perhaps what was on its way to them is gone.
LEMMA PageEmptied ==
  ASSUME TypeOK, NEW told \in Nat, PageHas(told), page'.panel = <<>>, messages' = messages,
         UNCHANGED <<bus, polled>> \/ (bus' = <<>> /\ polled' = <<>>)
  PROVE  PageHas(told)'
<1>1. Messages' = Messages /\ Rejected' = Rejected /\ DOMAIN page'.panel = {}
  BY DEF Messages, Rejected
<1>2. Way' = Way \/ Way' = {}
  <2>1. ToSet(<<>>) = {}
    BY Short
  <2> QED
    BY <2>1 DEF Way
<1>3. Way' \subseteq Way
  BY <1>2
<1>4. OnItsWay(told)'
  <2>1. Rising(polled)' /\ Rising(bus)' /\ Before(polled, bus)'
    BY Short DEF PageHas, OnItsWay, Rising, Before
  <2> QED
    BY <1>1, <1>3, <2>1 DEF PageHas, OnItsWay
<1>5. Panels(told)'
  BY <1>1 DEF Panels
<1>6. NoGap(told)'
  BY <1>1, <1>2 DEF PageHas, NoGap
<1>7. Owed(told)'
  BY <1>1, <1>2 DEF PageHas, Owed
<1> QED
  BY <1>4, <1>5, <1>6, <1>7 DEF PageHas

\* A conversation or a setup begins with empty panels.
LEMMA EmptiedNews ==
  ASSUME TypeOK, Phase, NEW told \in Nat, News(told), on_run \/ on_setup_change
  PROVE  News(told)'
<1>1. /\ page' = Blank(page.button) /\ UNCHANGED <<messages, updates, swarm>>
      /\ UNCHANGED <<bus, polled>> \/ (bus' = <<>> /\ polled' = <<>>)
  BY DEF on_run, on_setup_change, world, Clicked, ClickTakes, Free
<1>2. page'.panel = <<>>
  BY <1>1 DEF Blank
<1>3. PageHas(told)'
  BY <1>1, <1>2, PageEmptied DEF News
<1>4. CASE on_run
  <2>1. run' = [NoRun EXCEPT !.pc = "begin", !.auto = TRUE] /\ ~is_running
    BY <1>4 DEF on_run
  <2>2. run'.pc = "begin" /\ run'.seen = {}
    BY <2>1 DEF NoRun
  <2>3. swarm.at = "off" /\ updates = <<>>
    BY <2>1 DEF Phase, Streaming
  <2> QED
    BY <1>1, <1>3, <2>2, <2>3, NothingSaid DEF Streaming
<1>5. CASE on_setup_change
  <2>1. run' = run
    BY <1>5 DEF on_setup_change
  <2> QED
    BY <1>1, <1>3, <2>1, NothingSaid
<1> QED
  BY <1>4, <1>5

\* A poll takes what is on the bus.
LEMMA Polled ==
  ASSUME TypeOK, Phase, NEW told \in Nat, News(told), poll_events
  PROVE  News(told)'
<1>1. /\ polled = <<>> /\ polled' = bus /\ bus' = <<>>
      /\ UNCHANGED <<messages, updates, swarm, run, page>>
  BY DEF poll_events, Free, world
<1>2. ToSet(<<>>) = {} /\ Rising(<<>>)
  BY Short
<1>3. Way' = Way /\ Messages' = Messages /\ Rejected' = Rejected
  BY <1>1, <1>2 DEF Way, Messages, Rejected
<1>4. PageHas(told)
  BY DEF News
<1>5. OnItsWay(told)'
  <2>1. Rising(polled)' /\ Rising(bus)' /\ Before(polled, bus)'
    BY <1>1, <1>2, <1>4 DEF PageHas, OnItsWay, Rising, Before
  <2> QED
    BY <1>3, <1>4, <2>1 DEF PageHas, OnItsWay
<1>6. Panels(told)' /\ NoGap(told)' /\ Owed(told)'
  BY <1>1, <1>3, <1>4 DEF PageHas, Panels, NoGap, Owed
<1> QED
  BY <1>1, <1>5, <1>6, NothingSaid DEF PageHas

\* What is dispatched comes before the rest.
LEMMA Dispatched ==
  ASSUME TypeOK, NEW told \in Nat, PageHas(told), DispatchNext, NEW e, e = Head(polled)
  PROVE  /\ e \in Way /\ Way = {e} \cup Way' /\ e \in EventType
         /\ \A d \in Way' : Tells(e) /\ Tells(d) => Place(e) < Place(d)
         /\ OnItsWay(told)'
         /\ Messages' = Messages /\ Rejected' = Rejected
<1>1. /\ polled # <<>> /\ polled' = Tail(polled) /\ bus' = bus /\ messages' = messages
      /\ polled \in Seq(EventType)
  BY Typed DEF DispatchNext, world, QueuesTyped
<1>2. Messages' = Messages /\ Rejected' = Rejected
  BY <1>1 DEF Messages, Rejected
<1>3. /\ Rising(polled) /\ Rising(bus) /\ Before(polled, bus)
      /\ \A d \in Way : Tells(d) => Place(d) <= told
      /\ \A d \in Way : d.kind = "rejected" => d.ref \in Rejected
  BY DEF PageHas, OnItsWay
<1>4. /\ e \in EventType /\ ToSet(polled) = {e} \cup ToSet(polled')
      /\ Rising(polled')
      /\ \A d \in ToSet(polled') : Tells(e) /\ Tells(d) => Place(e) < Place(d)
  BY <1>1, <1>3, Taken, OrderOfRest
<1>5. e \in Way /\ Way = {e} \cup Way'
  BY <1>1, <1>4 DEF Way
<1>6. \A d \in Way' : Tells(e) /\ Tells(d) => Place(e) < Place(d)
  BY <1>1, <1>3, <1>4 DEF Way, Before
<1>7. OnItsWay(told)'
  <2>1. Rising(polled)' /\ Rising(bus)' /\ Before(polled, bus)'
    BY <1>1, <1>3, <1>4 DEF Rising, Before
  <2> QED
    BY <1>2, <1>3, <1>5, <2>1 DEF OnItsWay
<1> QED
  BY <1>2, <1>4, <1>5, <1>6, <1>7

\* A message is shown.
LEMMA MessageShown ==
  ASSUME TypeOK, NEW told \in Nat, PageHas(told), DispatchNext, Head(polled).kind = "message"
  PROVE  PageHas(told)'
<1>1. PICK e : e = Head(polled)
  OBVIOUS
<1>2. /\ e \in Way /\ Way = {e} \cup Way' /\ Messages' = Messages /\ Rejected' = Rejected
      /\ \A d \in Way' : Tells(e) /\ Tells(d) => Place(e) < Place(d)
      /\ OnItsWay(told)' /\ e \in EventType
  BY <1>1, Dispatched
<1>3. PICK m : m = e.ref
  OBVIOUS
<1>4. /\ m \in Messages /\ m \in Nat /\ e = Event("message", m) /\ Tells(e) /\ Place(e) = 2 * m
      /\ 2 * m <= told
  <2>1. Tells(e) /\ Place(e) = 2 * m
    BY <1>1, <1>3 DEF Tells, Place
  <2>2. m \in Messages /\ e = Event("message", m) /\ m \in Nat
    BY <1>1, <1>2, <1>3, <2>1, Places
  <2> QED
    BY <1>2, <2>1, <2>2 DEF PageHas, OnItsWay
<1>5. /\ page \in PageType /\ page.panel \in Seq(EntryType)
  BY Typed DEF PageType
<1>6. PICK entry : entry = [msg |-> m, role |-> "ai"]
  OBVIOUS
<1>7. /\ entry \in EntryType /\ entry.msg = m /\ entry.role = "ai" /\ PlaceShown(entry) = 2 * m
  BY <1>4, <1>6 DEF EntryType, PlaceShown
<1>8. page'.panel = Append(page.panel, entry)
  BY <1>1, <1>3, <1>5, <1>6 DEF DispatchNext, dispatch_event, PageType
<1>9. PICK n \in Nat : n = Len(page.panel)
  BY <1>5
<1>10. /\ DOMAIN page.panel = 1..n /\ DOMAIN page'.panel = 1..(n + 1)
       /\ \A i \in 1..n : page'.panel[i] = page.panel[i]
       /\ page'.panel[n + 1] = entry
       /\ \A i \in 1..(n + 1) : i \in 1..n \/ i = n + 1
       /\ 1..n \subseteq 1..(n + 1) /\ n + 1 \in 1..(n + 1)
  BY <1>5, <1>7, <1>8, <1>9
<1>11. \A i \in 1..n : /\ PlaceShown(page.panel[i]) < 2 * m
                       /\ page.panel[i].msg \in Nat /\ page.panel[i].msg < m
  <2> SUFFICES ASSUME NEW i \in 1..n
               PROVE  /\ PlaceShown(page.panel[i]) < 2 * m
                      /\ page.panel[i].msg \in Nat /\ page.panel[i].msg < m
    OBVIOUS
  <2>1. PlaceShown(page.panel[i]) < 2 * m
    BY <1>2, <1>4, <1>10 DEF PageHas, Panels
  <2>2. page.panel[i].msg \in Nat
    BY <1>10, Places DEF EntryType
  <2> QED
    BY <1>4, <2>1, <2>2 DEF PlaceShown
<1>12. \A i \in 1..n : \A j \in 1..n : i < j => page.panel[i].msg < page.panel[j].msg
  BY <1>10 DEF PageHas, Panels
<1>13. Panels(told)'
  <2>1. \A i, j \in 1..(n + 1) : i < j => page'.panel[i].msg < page'.panel[j].msg
    <3> SUFFICES ASSUME NEW i \in 1..(n + 1), NEW j \in 1..(n + 1), i < j
                 PROVE  page'.panel[i].msg < page'.panel[j].msg
      OBVIOUS
    <3>1. i \in 1..n
      OBVIOUS
    <3> QED
      BY <1>7, <1>10, <1>11, <1>12, <3>1
  <2>2. \A i \in 1..(n + 1) : PlaceShown(page'.panel[i]) <= told
    BY <1>4, <1>7, <1>10 DEF PageHas, Panels
  <2>3. \A i \in 1..(n + 1) : \A d \in Way' : Tells(d) => PlaceShown(page'.panel[i]) < Place(d)
    BY <1>2, <1>4, <1>7, <1>10 DEF PageHas, Panels
  <2>4. \A i \in 1..(n + 1) :
           page'.panel[i].role = "rejected_ai" => page'.panel[i].msg \in Rejected
    BY <1>7, <1>10 DEF PageHas, Panels
  <2> QED
    BY <1>2, <1>10, <2>1, <2>2, <2>3, <2>4 DEF Panels
<1>14. NoGap(told)'
  <2> SUFFICES ASSUME NEW k \in Messages, 2 * k <= told, Event("message", k) \notin Way'
               PROVE  /\ \A d \in Way' : Tells(d) => 2 * k < Place(d)
                      /\ \/ \E i \in 1..(n + 1) : page'.panel[i].msg = k
                         \/ \A i \in 1..(n + 1) : k < page'.panel[i].msg
    BY <1>2, <1>10 DEF NoGap
  <2>1. CASE Event("message", k) = e
    <3>1. k = m
      BY <1>4, <2>1 DEF Event
    <3> QED
      BY <1>2, <1>4, <1>7, <1>10, <3>1
  <2>2. CASE Event("message", k) # e
    <3>1. Event("message", k) \notin Way
      BY <1>2, <2>2
    <3>2. /\ \A d \in Way : Tells(d) => 2 * k < Place(d)
          /\ \/ \E i \in 1..n : page.panel[i].msg = k
             \/ \A i \in 1..n : k < page.panel[i].msg
      BY <1>10, <3>1 DEF PageHas, NoGap
    <3>3. k < m
      <4>1. 2 * k < 2 * m /\ k \in Nat
        BY <1>2, <1>4, <3>2, Places
      <4> QED
        BY <1>4, <4>1
    <3> QED
      BY <1>2, <1>7, <1>10, <3>2, <3>3
  <2> QED
    BY <2>1, <2>2
<1>15. Owed(told)'
  <2> SUFFICES ASSUME NEW k \in Rejected, 2 * k + 1 <= told,
                      \/ Event("message", k) \in Way'
                      \/ \E i \in 1..(n + 1) : page'.panel[i] = [msg |-> k, role |-> "ai"]
               PROVE  Event("rejected", k) \in Way'
    BY <1>2, <1>10 DEF Owed
  <2>1. \/ Event("message", k) \in Way
        \/ \E i \in 1..n : page.panel[i] = [msg |-> k, role |-> "ai"]
    <3>1. entry = [msg |-> k, role |-> "ai"] => k = m
      BY <1>7
    <3> QED
      BY <1>2, <1>4, <1>10, <3>1
  <2>2. Event("rejected", k) \in Way /\ Event("rejected", k) # e
    BY <1>4, <1>10, <2>1 DEF PageHas, Owed, Event
  <2> QED
    BY <1>2, <2>2
<1> QED
  BY <1>2, <1>13, <1>14, <1>15 DEF PageHas

\* A message is struck out: it is the last of the panel, unless that is empty.
LEMMA RejectedShown ==
  ASSUME TypeOK, NEW told \in Nat, PageHas(told), DispatchNext, Head(polled).kind = "rejected"
  PROVE  PageHas(told)'
<1>1. PICK e : e = Head(polled)
  OBVIOUS
<1>2. /\ e \in Way /\ Way = {e} \cup Way' /\ Messages' = Messages /\ Rejected' = Rejected
      /\ \A d \in Way' : Tells(e) /\ Tells(d) => Place(e) < Place(d)
      /\ OnItsWay(told)' /\ e \in EventType
  BY <1>1, Dispatched
<1>3. PICK m : m = e.ref
  OBVIOUS
<1>4. /\ m \in Messages /\ m \in Nat /\ e = Event("rejected", m) /\ Tells(e)
      /\ Place(e) = 2 * m + 1 /\ 2 * m + 1 <= told /\ m \in Rejected
  <2>1. Tells(e) /\ Place(e) = 2 * m + 1
    BY <1>1, <1>3 DEF Tells, Place
  <2>2. m \in Messages /\ e = Event("rejected", m) /\ m \in Nat
    BY <1>1, <1>2, <1>3, <2>1, Places
  <2> QED
    BY <1>1, <1>2, <1>3, <2>1, <2>2 DEF PageHas, OnItsWay
<1>5. PICK panel \in Seq(EntryType) : panel = page.panel
  BY Typed DEF PageType
<1>6. page'.panel = mark_last_ai_message_rejected(panel, m)
  BY <1>1, <1>3, <1>5, Typed DEF DispatchNext, dispatch_event, PageType
<1>7. PICK n \in Nat : n = Len(panel)
  BY <1>5
<1>8. /\ DOMAIN panel = 1..n
      /\ \A i \in 1..n : panel[i] \in EntryType /\ panel[i].msg \in Nat
  BY <1>5, <1>7, Places DEF EntryType
<1>9. \A i \in 1..n : \A j \in 1..n : i < j => panel[i].msg < panel[j].msg
  BY <1>5, <1>8 DEF PageHas, Panels
<1>10. \A i \in 1..n : /\ PlaceShown(panel[i]) < 2 * m + 1 /\ panel[i].msg <= m
                       /\ panel[i].msg = m => panel[i].role = "ai"
  <2> SUFFICES ASSUME NEW i \in 1..n
               PROVE  /\ PlaceShown(panel[i]) < 2 * m + 1 /\ panel[i].msg <= m
                      /\ panel[i].msg = m => panel[i].role = "ai"
    OBVIOUS
  <2>1. PlaceShown(panel[i]) < 2 * m + 1
    BY <1>2, <1>4, <1>5, <1>8 DEF PageHas, Panels
  <2>2. panel[i].msg \in Nat /\ panel[i].role \in {"ai", "rejected_ai"}
    BY <1>8 DEF EntryType
  <2> QED
    BY <1>4, <2>1, <2>2 DEF PlaceShown
<1>11. Event("message", m) \notin Way
  <2>1. Tells(Event("message", m)) /\ Place(Event("message", m)) = 2 * m
        /\ Event("message", m) # e
    BY <1>4 DEF Tells, Place, Event
  <2> QED
    BY <1>2, <1>4, <2>1
<1>12. (\E i \in 1..n : panel[i].msg = m) \/ (\A i \in 1..n : m < panel[i].msg)
  <2>1. 2 * m <= told
    BY <1>4
  <2> QED
    BY <1>4, <1>5, <1>8, <1>11, <2>1 DEF PageHas, NoGap
<1>13. n = 0 \/ (n \in 1..n /\ panel[n].msg = m /\ panel[n].role = "ai")
  <2>1. CASE \A i \in 1..n : m < panel[i].msg
    <3>1. 1..n = {}
      BY <1>4, <1>8, <1>10, <2>1
    <3> QED
      BY <1>7, <3>1
  <2>2. CASE \E i \in 1..n : panel[i].msg = m
    <3>1. PICK i \in 1..n : panel[i].msg = m
      BY <2>2
    <3>2. n \in 1..n /\ i <= n
      BY <3>1
    <3>3. ~(i < n)
      BY <1>4, <1>8, <1>9, <1>10, <3>1, <3>2
    <3>4. i = n
      BY <3>2, <3>3
    <3> QED
      BY <1>10, <3>1, <3>4
  <2> QED
    BY <1>12, <2>1, <2>2
<1>14. page'.panel = IF n = 0 THEN panel ELSE [panel EXCEPT ![n].role = "rejected_ai"]
  <2>1. CASE n = 0
    <3>1. Len(panel) = 0
      BY <1>7, <2>1
    <3>2. panel = <<>>
      BY ONLY panel \in Seq(EntryType), <3>1
    <3> QED
      BY <1>6, <2>1, <3>2, Marked
  <2>2. CASE n # 0
    <3>1. panel # <<>>
      BY <1>7, <2>2
    <3>2. panel[Len(panel)].role = "ai" /\ panel[Len(panel)].msg = m
      BY <1>7, <1>13, <2>2
    <3>3. mark_last_ai_message_rejected(panel, m) = [panel EXCEPT ![Len(panel)].role = "rejected_ai"]
      BY ONLY panel \in Seq(EntryType), <3>1, <3>2, Marked
    <3> QED
      BY <1>6, <1>7, <2>2, <3>3
  <2> QED
    BY <2>1, <2>2
<1>15. /\ DOMAIN page'.panel = 1..n
       /\ \A i \in 1..n : page'.panel[i].msg = panel[i].msg
       /\ \A i \in 1..n : i # n => page'.panel[i] = panel[i]
       /\ n # 0 => page'.panel[n].role = "rejected_ai" /\ page'.panel[n].msg = m
  <2>1. CASE n = 0
    BY <1>8, <1>14, <2>1
  <2>2. CASE n # 0
    <3>1. /\ page'.panel = [panel EXCEPT ![n] = [panel[n] EXCEPT !.role = "rejected_ai"]]
          /\ n \in 1..n /\ panel[n].msg = m
      BY <1>13, <1>14, <2>2
    <3>2. [panel[n] EXCEPT !.role = "rejected_ai"].role = "rejected_ai"
          /\ [panel[n] EXCEPT !.role = "rejected_ai"].msg = m
      BY <1>8, <3>1 DEF EntryType
    <3> QED
      BY <1>8, <3>1, <3>2
  <2> QED
    BY <2>1, <2>2
<1>16. n # 0 => PlaceShown(page'.panel[n]) = 2 * m + 1
  BY <1>15 DEF PlaceShown
<1>17. Panels(told)'
  <2>1. \A i, j \in 1..n : i < j => page'.panel[i].msg < page'.panel[j].msg
    BY <1>9, <1>15
  <2>2. \A i \in 1..n : PlaceShown(page'.panel[i]) <= told
    <3>1. \A i \in 1..n : PlaceShown(panel[i]) <= told
      BY <1>5, <1>8 DEF PageHas, Panels
    <3>2. \A i \in 1..n : i = n => n # 0
      OBVIOUS
    <3> QED
      BY <1>4, <1>15, <1>16, <3>1, <3>2
  <2>3. \A i \in 1..n : \A d \in Way' : Tells(d) => PlaceShown(page'.panel[i]) < Place(d)
    <3> SUFFICES ASSUME NEW i \in 1..n, NEW d \in Way', Tells(d)
                 PROVE  PlaceShown(page'.panel[i]) < Place(d)
      OBVIOUS
    <3>1. CASE i = n
      <4>1. n # 0
        BY <3>1
      <4> QED
        BY <1>2, <1>4, <1>16, <3>1, <4>1
    <3>2. CASE i # n
      <4>1. PlaceShown(panel[i]) < Place(d) /\ page'.panel[i] = panel[i]
        BY <1>2, <1>5, <1>8, <1>15, <3>2 DEF PageHas, Panels
      <4> QED
        BY <4>1
    <3> QED
      BY <3>1, <3>2
  <2>4. \A i \in 1..n : page'.panel[i].role = "rejected_ai" => page'.panel[i].msg \in Rejected
    <3>1. \A i \in 1..n : panel[i].role = "rejected_ai" => panel[i].msg \in Rejected
      BY <1>5, <1>8 DEF PageHas, Panels
    <3>2. \A i \in 1..n : i = n => n # 0
      OBVIOUS
    <3>3. \A i \in 1..n : i = n => page'.panel[i].msg \in Rejected
      BY <1>4, <1>15, <3>2
    <3> QED
      BY <1>15, <3>1, <3>3
  <2> QED
    BY <1>2, <1>15, <2>1, <2>2, <2>3, <2>4 DEF Panels
<1>18. NoGap(told)'
  <2> SUFFICES ASSUME NEW k \in Messages, 2 * k <= told, Event("message", k) \notin Way'
               PROVE  /\ \A d \in Way' : Tells(d) => 2 * k < Place(d)
                      /\ \/ \E i \in 1..n : page'.panel[i].msg = k
                         \/ \A i \in 1..n : k < page'.panel[i].msg
    BY <1>2, <1>15 DEF NoGap
  <2>1. Event("message", k) \notin Way
    BY <1>2, <1>4 DEF Event
  <2> QED
    BY <1>2, <1>5, <1>8, <1>15, <2>1 DEF PageHas, NoGap
<1>19. Owed(told)'
  <2> SUFFICES ASSUME NEW k \in Rejected, 2 * k + 1 <= told,
                      \/ Event("message", k) \in Way'
                      \/ \E i \in 1..n : page'.panel[i] = [msg |-> k, role |-> "ai"]
               PROVE  Event("rejected", k) \in Way'
    BY <1>2, <1>15 DEF Owed
  <2>1. k # m /\ (\/ Event("message", k) \in Way
                  \/ \E i \in 1..n : panel[i] = [msg |-> k, role |-> "ai"])
    <3>1. CASE Event("message", k) \in Way'
      BY <1>2, <1>11, <3>1
    <3>2. ASSUME NEW i \in 1..n, page'.panel[i] = [msg |-> k, role |-> "ai"]
          PROVE  k # m /\ panel[i] = [msg |-> k, role |-> "ai"]
      <4>1. i # n
        BY <1>15, <3>2
      <4>2. panel[i] = [msg |-> k, role |-> "ai"] /\ panel[i].msg = k
        BY <1>15, <3>2, <4>1
      <4>3. n \in 1..n /\ n # 0 /\ i < n
        BY <4>1
      <4>4. panel[n].msg = m
        BY <1>13, <4>3
      <4>5. panel[i].msg < panel[n].msg
        BY <1>9, <4>3
      <4> QED
        BY <1>4, <4>2, <4>4, <4>5
    <3> QED
      BY <3>1, <3>2
  <2>2. Event("rejected", k) \in Way /\ Event("rejected", k) # e
    BY <1>4, <1>5, <1>8, <2>1 DEF PageHas, Owed, Event
  <2> QED
    BY <1>2, <2>2
<1> QED
  BY <1>2, <1>17, <1>18, <1>19 DEF PageHas

\* An event is dispatched.
LEMMA DispatchNews ==
  ASSUME TypeOK, Phase, NEW told \in Nat, News(told), DispatchNext
  PROVE  News(told)'
<1>1. PICK e : e = Head(polled)
  OBVIOUS
<1>2. PageHas(told)
  BY DEF News
<1>3. /\ e \in Way /\ Way = {e} \cup Way' /\ Messages' = Messages /\ Rejected' = Rejected
      /\ OnItsWay(told)' /\ e \in EventType
  BY <1>1, <1>2, Dispatched
<1>4. ASSUME e.kind \in {"tray_ready", "tray_taken"}
      PROVE  PageHas(told)'
  <2>1. page'.panel = page.panel
    BY <1>1, <1>4, Typed DEF DispatchNext, dispatch_event, PageType
  <2>2. \A k : Event("message", k) # e /\ Event("rejected", k) # e
    BY <1>4 DEF Event
  <2>3. Panels(told)'
    BY <1>2, <1>3, <2>1 DEF PageHas, Panels
  <2>4. NoGap(told)'
    BY <1>2, <1>3, <2>1, <2>2 DEF PageHas, NoGap
  <2>5. Owed(told)'
    BY <1>2, <1>3, <2>1, <2>2 DEF PageHas, Owed
  <2> QED
    BY <1>3, <2>3, <2>4, <2>5 DEF PageHas
<1>5. PageHas(told)'
  <2>1. e.kind \in {"message", "rejected", "tray_ready", "tray_taken"}
    BY <1>3 DEF EventType
  <2>2. CASE e.kind = "message"
    BY <1>1, <1>2, <2>2, MessageShown
  <2>3. CASE e.kind = "rejected"
    BY <1>1, <1>2, <2>3, RejectedShown
  <2> QED
    BY <1>4, <2>1, <2>2, <2>3
<1>6. UNCHANGED <<run, swarm, updates, messages>>
  BY DEF DispatchNext, world
<1> QED
  BY <1>5, <1>6, NothingSaid

-----------------------------------------------------------------------------
(* The invariant *)

\* A step of the runner that says, tells and shows nothing.
LEMMA RunnerAlone ==
  ASSUME TypeOK, Phase, NEW told \in Nat, News(told),
         \/ run_conversation \/ get_initial_message \/ TooManyTurns \/ respond_to
         \/ capture_feedback \/ RunCloses \/ wait_for_resume \/ Resumed \/ PauseTimesOut
         \/ NextTurn \/ run_manual_turn \/ StreamEnds \/ RunFails
  PROVE  News(told)'
<1>1. run \in RunType
  BY Typed
<1>2. /\ UNCHANGED <<messages, updates, bus>> /\ polled' = polled /\ page' = page
  BY DEF run_conversation, get_initial_message, TooManyTurns, respond_to, capture_feedback,
     RunCloses, wait_for_resume, Resumed, PauseTimesOut, NextTurn, run_manual_turn,
     StreamEnds, RunFails, ui, world
<1>3. CASE run_conversation
  <2>1. /\ run' = [run EXCEPT !.pc = "open", !.thread = threads'] /\ swarm' = swarm
    BY <1>3 DEF run_conversation
  <2>2. run'.pc = "open" /\ run'.seen = run.seen
    BY <1>1, <2>1 DEF RunType
  <2> QED
    BY <1>2, <2>1, <2>2, NothingNew DEF Streaming
<1>4. CASE RunCloses
  <2>1. run' = NoRun /\ swarm' = swarm /\ run.pc = "closing"
    BY <1>4 DEF RunCloses, At
  <2>2. run'.pc = "off" /\ run'.seen = {} /\ updates = <<>> /\ swarm'.at = "off"
    BY <2>1 DEF NoRun, Phase, Streaming
  <2> QED
    BY <1>2, <2>1, <2>2, NothingNew DEF Streaming
<1>5. CASE NextTurn \/ run_manual_turn
  <2>1. /\ run' = [run EXCEPT !.pc = "stream", !.turns = run.turns + 1, !.last = 0,
                              !.seen = {}, !.handoff = <<>>]
        /\ run.pc \in {"turn", "manual"}
        /\ swarm' = [NoSwarm EXCEPT !.at = "llm"]
    BY <1>5 DEF NextTurn, run_manual_turn, BeginStream, At
  <2>2. /\ run'.seen = {} /\ run'.last = 0 /\ swarm'.at = "llm" /\ updates = <<>>
    BY <1>1, <2>1 DEF RunType, NoSwarm, Phase, Streaming
  <2> QED
    BY <1>2, <2>2, NothingNew
<1>6. ASSUME NEW pc, Goto(pc)
      PROVE  run'.pc = pc /\ run'.seen = run.seen /\ run'.last = run.last
  BY <1>1, <1>6 DEF Goto, RunType
<1>7. CASE wait_for_resume \/ Resumed \/ PauseTimesOut
  <2>1. /\ \E pc \in {"stream", "paused"} : Goto(pc)
        /\ run.pc \in Streaming /\ swarm' = swarm
    BY <1>7 DEF wait_for_resume, Resumed, PauseTimesOut, At, Streaming
  <2> QED
    BY <1>2, <1>6, <2>1, NothingNew
<1>8. CASE get_initial_message \/ TooManyTurns \/ respond_to \/ capture_feedback
  <2>1. /\ \E pc \in {"turn", "finish", "closing"} : Goto(pc)
        /\ swarm' = swarm
    BY <1>8 DEF get_initial_message, TooManyTurns, respond_to, capture_feedback
  <2> QED
    BY <1>2, <1>6, <2>1, NothingNew DEF Streaming
<1>9. CASE StreamEnds \/ RunFails
  <2>1. /\ \E pc \in {"finish", "respond", "closing"} : Goto(pc)
        /\ swarm' = NoSwarm
    BY <1>9 DEF StreamEnds, RunFails
  <2>2. swarm'.at = "off"
    BY <2>1 DEF NoSwarm
  <2> QED
    BY <1>2, <1>6, <2>1, <2>2, NothingNew DEF Streaming
<1> QED
  BY <1>3, <1>4, <1>5, <1>7, <1>8, <1>9

\* The news is told in order, and up to some place.
LEMMA NewsKept ==
  ASSUME TypeOK, Phase, Next, NEW told \in 0..(2 * Len(messages) + 1), News(told)
  PROVE  \E upto \in 0..(2 * Len(messages') + 1) : News(upto)'
<1>1. told \in Nat /\ Len(messages) \in Nat
  BY Places
<1>2. 0..(2 * Len(messages) + 1) \subseteq 0..(2 * Len(messages') + 1)
  <2>1. Len(messages') \in Nat /\ Len(messages) <= Len(messages')
    BY WorldGrows, Typed DEF WorldTyped
  <2> QED
    BY <1>1, <2>1
<1>3. CASE Swarm
  <2>1. ASSUME NEW text \in Texts, Says(text) PROVE News(told)'
    BY <2>1, SaysNews
  <2>2. ASSUME Approves PROVE News(told)'
    BY <2>2, ApprovesNews
  <2>3. ASSUME Rejects PROVE News(told)'
    BY <2>3, RejectsNews
  <2>4. ASSUME RejectsAtCap PROVE News(told)'
    BY <2>4, FallbackNews
  <2>5. ASSUME TakesOver PROVE News(told)'
    <3>1. /\ UNCHANGED <<messages, run, updates, bus>> /\ polled' = polled /\ page' = page
          /\ swarm' = [swarm EXCEPT !.at = "llm"]
      BY <2>5 DEF TakesOver, world, ui
    <3>2. swarm'.at = "llm"
      BY <3>1, Typed DEF SwarmType
    <3>3. run'.pc \in Streaming => run.pc \in Streaming /\ run'.last = run.last
      BY <3>1
    <3> QED
      BY <1>1, <3>1, <3>2, <3>3, NothingNew
  <2>6. ASSUME PlacesOrder \/ (\E o \in Orders : PlacesOnTray(o)) \/ HandsOver \/ Fails
        PROVE  News(told)'
    <3>1. /\ UNCHANGED <<messages, run, bus, ui>> /\ swarm'.at # "judge"
      BY <2>6, Typed DEF PlacesOrder, PlacesOnTray, HandsOver, Fails, world, SwarmAt, SwarmType
    <3>2. PICK kind \in {"order", "placed", "handoff", "error"} :
             \E ref : Emit(<<Update(kind, ref)>>)
      BY <2>6 DEF PlacesOrder, PlacesOnTray, HandsOver, Fails
    <3>3. PICK ref : Emit(<<Update(kind, ref)>>)
      BY <3>2
    <3>4. PICK u : u = Update(kind, ref)
      OBVIOUS
    <3>5. ~Tells(u) /\ Emit(<<u>>)
      BY <3>3, <3>4 DEF Tells, Update
    <3>6. u \in UpdateType'
      <4>1. PICK new : new = <<u>>
        OBVIOUS
      <4>2. updates' = updates \o new
        BY <3>5, <4>1 DEF Emit
      <4>3. updates' \in Seq(UpdateType') /\ updates \in Seq(UpdateType)
        BY UpdatesKept, Typed DEF QueuesTyped
      <4>4. Len(updates) + 1 \in DOMAIN updates' /\ updates'[Len(updates) + 1] = u
        BY <4>1, <4>2, <4>3
      <4> QED
        BY <4>3, <4>4
    <3> QED
      BY <1>1, <3>1, <3>5, <3>6, OtherUpdate
  <2> QED
    BY <1>2, <1>3, <2>1, <2>2, <2>3, <2>4, <2>5, <2>6 DEF Swarm, Orders
<1>4. CASE Runner
  <2>1. CASE on_message
    <3>1. messages' = messages
      BY <2>1 DEF on_message, world
    <3>2. CASE Head(updates).ref \in run.seen
      BY <1>1, <1>2, <2>1, <3>2, RepeatedNews
    <3>3. CASE Head(updates).ref \notin run.seen
      BY <1>1, <2>1, <3>1, <3>3, MessageNews
    <3> QED
      BY <3>2, <3>3
  <2>2. CASE on_correction
    <3>1. messages' = messages
      BY <2>2 DEF on_correction, world
    <3> QED
      BY <1>1, <2>2, <3>1, CorrectionNews
  <2>3. CASE on_fallback
    <3>1. messages' = messages
      BY <2>3 DEF on_fallback, world
    <3> QED
      BY <1>1, <2>3, <3>1, FallbackShown
  <2>4. CASE on_handoff \/ on_tool_result \/ on_error
    BY <1>1, <1>2, <2>4, RunnerGoesOn
  <2>5. CASE FinishTurns
    BY <1>1, <1>2, <2>5, TrayNews
  <2>6. CASE \/ run_conversation \/ get_initial_message \/ TooManyTurns \/ respond_to
             \/ capture_feedback \/ RunCloses \/ wait_for_resume \/ Resumed \/ PauseTimesOut
             \/ NextTurn \/ run_manual_turn \/ StreamEnds \/ RunFails
    BY <1>1, <1>2, <2>6, RunnerAlone
  <2> QED
    BY <1>4, <2>1, <2>2, <2>3, <2>4, <2>5, <2>6 DEF Runner
<1>5. CASE Page
  <2>1. ASSUME on_run \/ on_setup_change PROVE News(told)'
    BY <1>1, <2>1, EmptiedNews
  <2>2. ASSUME on_end_conversation \/ consume_tray PROVE News(told)'
    BY <1>1, <2>2, TrayNews
  <2>3. ASSUME poll_events PROVE News(told)'
    BY <1>1, <2>3, Polled
  <2>4. ASSUME DispatchNext PROVE News(told)'
    BY <1>1, <2>4, DispatchNews
  <2>5. ASSUME on_send PROVE News(told)'
    <3>1. /\ run' = [NoRun EXCEPT !.pc = "manual", !.thread = manual_thread_id]
          /\ UNCHANGED <<messages, swarm, updates, bus, polled, page>> /\ ~is_running
      BY <2>5 DEF on_send, world
    <3>2. run'.pc = "manual" /\ run'.seen = {}
      BY <3>1 DEF NoRun
    <3>3. updates = <<>> /\ swarm'.at = "off"
      BY <3>1 DEF Phase, Streaming
    <3> QED
      BY <1>1, <3>1, <3>2, <3>3, NothingNew DEF Streaming
  <2>6. ASSUME on_take_tray \/ on_pause_toggle PROVE News(told)'
    <3>1. /\ UNCHANGED <<messages, swarm, run, updates, bus, polled>>
          /\ page'.panel = page.panel
      BY <2>6, Typed DEF on_take_tray, on_pause_toggle, world, PageType
    <3> QED
      BY <1>1, <3>1, NothingNew
  <2> QED
    BY <1>2, <1>5, <2>1, <2>2, <2>3, <2>4, <2>5, <2>6 DEF Page
<1> QED
  BY <1>3, <1>4, <1>5 DEF Next

\* The customer's turn to answer comes with the end of a stream.
LEMMA AnswersAfterStream ==
  ASSUME TypeOK, Phase, Next, run'.pc = "respond"
  PROVE  \/ StreamEnds /\ run'.last = run.last
         \/ run' = run /\ messages' = messages
<1>1. run \in RunType
  BY Typed
<1>2. ASSUME NEW pc, Goto(pc) PROVE run'.pc = pc /\ run'.last = run.last
  BY <1>1, <1>2 DEF Goto, RunType
<1>3. CASE Swarm
  <2>1. run' = run /\ swarm.at # "off"
    BY <1>3 DEF Swarm, Says, Approves, Rejects, RejectsAtCap, TakesOver, Fails,
       PlacesOnTray, HandsOver, PlacesOrder, SwarmAt
  <2> QED
    BY <2>1 DEF Phase, Streaming
<1>4. CASE Runner
  <2>1. CASE StreamEnds
    <3>1. \E pc \in {"closing", "finish", "respond"} : Goto(pc)
      BY <2>1 DEF StreamEnds
    <3> QED
      BY <1>2, <2>1, <3>1
  <2>2. CASE \/ get_initial_message \/ TooManyTurns \/ respond_to \/ FinishTurns
             \/ capture_feedback \/ RunFails \/ wait_for_resume \/ Resumed \/ PauseTimesOut
    <3>1. \E pc \in {"turn", "finish", "feedback", "closing", "paused", "stream"} : Goto(pc)
      BY <2>2 DEF get_initial_message, TooManyTurns, respond_to, FinishTurns,
         capture_feedback, RunFails, wait_for_resume, Resumed, PauseTimesOut
    <3> QED
      BY <1>2, <3>1
  <2>3. CASE run_conversation \/ NextTurn \/ run_manual_turn
    <3>1. run'.pc \in {"open", "stream"}
      BY <1>1, <2>3 DEF run_conversation, NextTurn, run_manual_turn, BeginStream, RunType
    <3> QED
      BY <3>1
  <2>4. CASE on_message \/ on_correction \/ on_fallback \/ on_handoff \/ on_tool_result \/ on_error
    <3>1. run'.pc \in Streaming
      BY <1>1, <2>4 DEF on_message, on_correction, on_fallback, on_handoff, on_tool_result,
         on_error, Arrives, At, RunType, Streaming
    <3> QED
      BY <3>1 DEF Streaming
  <2>5. CASE RunCloses
    BY <2>5 DEF RunCloses, NoRun
  <2> QED
    BY <1>4, <2>1, <2>2, <2>3, <2>4, <2>5 DEF Runner
<1>5. CASE Page
  <2>1. CASE on_run \/ on_send
    BY <2>1 DEF on_run, on_send, NoRun
  <2>2. CASE ~on_run /\ ~on_send
    BY <1>5, <2>2 DEF Page, on_end_conversation, on_take_tray, consume_tray,
       on_pause_toggle, on_setup_change, poll_events, DispatchNext, world
  <2> QED
    BY <2>1, <2>2
<1> QED
  BY <1>3, <1>4, <1>5 DEF Next

LEMMA ReplyKept ==
  ASSUME TypeOK, Phase, ReplyStands, Next, NEW told \in Nat, News(told)
  PROVE  ReplyStands'
<1> SUFFICES ASSUME run'.pc = "respond" PROVE run'.last \notin Rejected'
  BY DEF ReplyStands, At
<1>1. CASE run' = run /\ messages' = messages
  BY <1>1 DEF ReplyStands, At, Rejected, Messages
<1>2. CASE StreamEnds /\ run'.last = run.last
  <2>1. updates = <<>> /\ messages' = messages /\ run.pc = "stream"
    BY <1>2 DEF StreamEnds, At, world
  <2>2. ToSet(updates) = {}
    BY <2>1, Short
  <2>3. \A m \in Rejected : ~(told < 2 * m + 1)
    BY <2>2 DEF News, Stream, Pending
  <2>4. run.last \notin Rejected
    BY <2>1, <2>3 DEF News, TakenBack, Streaming
  <2> QED
    BY <1>2, <2>1, <2>4 DEF Rejected, Messages
<1> QED
  BY <1>1, <1>2, AnswersAfterStream

LEMMA InitInv ==
  ASSUME Init
  PROVE  Inv
<1> USE SwarmAssumption
<1>1. /\ updates = <<>> /\ bus = <<>> /\ polled = <<>> /\ messages = <<>> /\ orders = <<>>
      /\ page = Blank(0) /\ run = NoRun /\ swarm = NoSwarm /\ threads = 1
      /\ manual_thread_id = 1 /\ is_running = FALSE /\ current_order_id = 0 /\ trays = {}
      /\ click = [count |-> 0, taking |-> 0] /\ resume_event = TRUE
      /\ pause_on_next_handover = FALSE
  BY DEF Init
<1>2. /\ ToSet(<<>>) = {} /\ InOrder(<<>>) /\ Rising(<<>>) /\ DOMAIN <<>> = {} /\ Len(<<>>) = 0
      /\ \A S : <<>> \in Seq(S)
  <2>1. ToSet(<<>>) = {} /\ InOrder(<<>>) /\ Rising(<<>>)
    BY Short
  <2>2. \A S : <<>> \in Seq(S)
    OBVIOUS
  <2> QED
    BY <2>1, <2>2
<1>3. Messages = {} /\ Orders = {} /\ Rejected = {}
  BY <1>1, <1>2 DEF Messages, Orders, Rejected
<1>4. /\ page.panel = <<>> /\ page.button = 0
      /\ run.pc = "off" /\ run.seen = {} /\ ~run.auto /\ swarm.at = "off"
  BY <1>1 DEF Blank, NoRun, NoSwarm
<1>5. TypeOK
  <2>1. run \in [pc : {"off", "begin", "open", "manual", "turn", "stream", "seam",
                      "paused", "respond", "finish", "feedback", "closing"},
                auto : BOOLEAN, thread : 0..threads, turns : 0..MaxTurns,
                last : Messages \cup {0}, seen : SUBSET Messages,
                handoff : (Agents \X Agents) \cup {<<>>}]
    BY <1>1, <1>3 DEF NoRun
  <2>2. swarm \in [at : {"off", "llm", "judge", "handing", "over"}, agent : Agents,
                  retries : 0..MaxRetries, transfers : 0..MaxTransfers]
    BY <1>1 DEF NoSwarm
  <2>3. page \in [panel : Seq([msg : Messages, role : {"ai", "rejected_ai"}]),
                 button : Orders \cup {0}]
    BY <1>1, <1>2 DEF Blank
  <2>4. click \in [count : 0..MaxClicks, taking : Orders \cup {0}]
    BY <1>1
  <2>5. threads \in Nat /\ manual_thread_id \in 1..threads /\ trays \subseteq Orders
    BY <1>1
  <2>6. updates \in Seq(UpdateType) /\ bus \in Seq(EventType) /\ polled \in Seq(EventType)
    BY <1>1, <1>2
  <2>7. /\ messages \in Seq([text : Texts \cup {"fallback"},
                             verdict : {"open", "approved", "rejected"}])
        /\ orders \in Seq(1..threads)
    BY <1>1, <1>2
  <2> QED
    BY <1>1, <2>1, <2>2, <2>3, <2>4, <2>5, <2>6, <2>7 DEF TypeOK
<1>6. Phase
  BY <1>1, <1>4 DEF Phase, Streaming
<1>7. OrdersOurs /\ ReplyStands
  BY <1>1, <1>2, <1>4 DEF OrdersOurs, ReplyStands, At
<1>8. News(0)
  <2>1. Way = {}
    BY <1>1, <1>2 DEF Way
  <2>2. Stream(0)
    BY <1>1, <1>2, <1>3, <1>4 DEF Stream
  <2>3. PageHas(0)
    BY <1>1, <1>2, <1>3, <1>4, <2>1 DEF PageHas, OnItsWay, Panels, NoGap, Owed, Before
  <2>4. UnderJudgement(0) /\ TakenBack(0)
    BY <1>4 DEF UnderJudgement, TakenBack, Streaming
  <2> QED
    BY <2>2, <2>3, <2>4 DEF News
<1>9. 0 \in 0..(2 * Len(messages) + 1)
  BY <1>1, <1>2
<1> QED
  BY <1>5, <1>6, <1>7, <1>8, <1>9 DEF Inv

LEMMA NextInv ==
  ASSUME Inv, [Next]_vars
  PROVE  Inv'
<1>1. PICK told \in 0..(2 * Len(messages) + 1) : News(told)
  BY DEF Inv
<1>2. TypeOK /\ Phase /\ OrdersOurs /\ ReplyStands
  BY DEF Inv
<1>3. TypeOK' /\ Phase'
  BY <1>2, TypeKept, PhaseKept
<1>4. CASE Next
  <2>1. told \in Nat
    BY <1>2, Places
  <2>2. ReplyStands' /\ OrdersOurs'
    BY <1>1, <1>2, <1>4, <2>1, ReplyKept, OrdersKept
  <2>3. \E upto \in 0..(2 * Len(messages') + 1) : News(upto)'
    BY <1>1, <1>2, <1>4, NewsKept
  <2> QED
    BY <1>3, <2>2, <2>3 DEF Inv
<1>5. CASE UNCHANGED vars
  <2>1. /\ run' = run /\ messages' = messages /\ updates' = updates /\ orders' = orders
        /\ current_order_id' = current_order_id /\ swarm' = swarm
        /\ bus' = bus /\ polled' = polled /\ page' = page
    BY <1>5 DEF vars, fields, world, ui
  <2>2. Messages' = Messages /\ Rejected' = Rejected
    BY <2>1 DEF Messages, Rejected
  <2>3. OrdersOurs' /\ ReplyStands'
    BY <1>2, <2>1, <2>2 DEF OrdersOurs, ReplyStands, At
  <2>4. News(told)'
    <3>1. told \in Nat
      BY <1>2, Places
    <3> QED
      BY <1>1, <1>2, <2>1, <3>1, NothingNew
  <2> QED
    BY <1>1, <1>3, <2>1, <2>3, <2>4 DEF Inv
<1> QED
  BY <1>4, <1>5

LEMMA Invariance == Spec => []Inv
BY InitInv, NextInv, PTL DEF Spec

-----------------------------------------------------------------------------
(* What holds of every state *)

\* Every variable has its type, and what threads refer to exists.
THEOREM TypeCorrect == Spec => []TypeOK
<1>1. Inv => TypeOK
  BY DEF Inv
<1> QED
  BY <1>1, Invariance, PTL

\* What the customer answers was not rejected, whatever came after it: a
\* rejection takes the reply of the turn back (conversation_runner.py:426-439).
THEOREM RejectedIsNoReply == Spec => []ReplyStands
<1>1. Inv => ReplyStands
  BY DEF Inv
<1> QED
  BY <1>1, Invariance, PTL

\* The panels show each message once and, when nothing is on its way to them,
\* strike out exactly those that were rejected: a rejection finds its message,
\* and no other with the same text, because the news comes in order
\* (agent_panel.py:192-211, interaction_page.py:340-384).
THEOREM PanelsStrikeOut == Spec => []StruckOut
<1>1. ASSUME Inv PROVE StruckOut
  <2> SUFFICES ASSUME CaughtUp, NEW i \in DOMAIN page.panel
               PROVE  /\ page.panel[i].role = "rejected_ai" <=> page.panel[i].msg \in Rejected
                      /\ \A k \in DOMAIN page.panel : page.panel[i].msg = page.panel[k].msg => i = k
    BY DEF StruckOut
  <2>1. PICK told \in 0..(2 * Len(messages) + 1) : News(told)
    BY <1>1 DEF Inv
  <2>2. ToSet(updates) = {} /\ Way = {}
    BY Short DEF CaughtUp, Way
  <2>3. /\ TypeOK /\ page.panel[i] \in EntryType /\ \A k \in DOMAIN page.panel : k \in Nat
        /\ \A k \in DOMAIN page.panel : page.panel[k].msg \in Nat
    BY <1>1, Places, Typed DEF Inv, EntryType, PageType
  <2>4. page.panel[i].role = "rejected_ai" => page.panel[i].msg \in Rejected
    BY <2>1 DEF News, PageHas, Panels
  <2>5. ASSUME page.panel[i].msg \in Rejected, page.panel[i].role # "rejected_ai" PROVE FALSE
    <3>1. PICK m \in Rejected : m = page.panel[i].msg
      BY <2>5
    <3>2. page.panel[i] = [msg |-> m, role |-> "ai"]
      BY <2>3, <2>5, <3>1 DEF EntryType
    <3>3. ~(told < 2 * m + 1)
      BY <2>1, <2>2 DEF News, Stream, Pending
    <3>4. 2 * m + 1 <= told
      BY <2>1, <2>3, <3>1, <3>3
    <3> QED
      BY <2>1, <2>2, <3>2, <3>4 DEF News, PageHas, Owed
  <2>6. ASSUME NEW k \in DOMAIN page.panel, page.panel[i].msg = page.panel[k].msg, i # k
        PROVE  FALSE
    <3>1. i < k \/ k < i
      BY <2>3, <2>6
    <3>2. page.panel[i].msg < page.panel[k].msg \/ page.panel[k].msg < page.panel[i].msg
      BY <2>1, <3>1 DEF News, PageHas, Panels
    <3> QED
      BY <2>3, <2>6, <3>2
  <2> QED
    BY <2>4, <2>5, <2>6
<1> QED
  BY <1>1, Invariance, PTL

\* The tray an automated conversation announces at its end is that of an order
\* placed in it, though manual turns, setups and ended conversations share the
\* field (conversation_runner.py:202-209).
THEOREM TrayIsOurs == Spec => []ReadyIsOurs
<1>1. ASSUME Inv PROVE ReadyIsOurs
  BY <1>1 DEF Inv, Phase, OrdersOurs, ReadyIsOurs, At
<1> QED
  BY <1>1, Invariance, PTL

=============================================================================
