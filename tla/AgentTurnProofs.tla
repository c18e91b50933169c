---------------------------- MODULE AgentTurnProofs ----------------------------
(***************************************************************************)
(* Proofs about AgentTurn, for every swarm, every relation of handovers,   *)
(* every limit, and whatever the model and the judges answer.              *)
(***************************************************************************)
EXTENDS AgentTurn, TLAPS, FiniteSetTheorems

\* The subgraph has answered and is being judged or carried out.
Judging == node \in {"response_gateway", "gateway", "tools", "end"}

\* The answer under judgement, by the agent that is active.
Answer == Last(state)

\* What the agent's turn is so far, as its model will be shown it.
Turn(msgs) == current_turn_messages(msgs, active_agent)

\* The answer is the last message; it is on its way to the tools only with
\* calls, to the end only without, and to execution only with handovers that
\* are allowed.
Answered ==
    Judging =>
        /\ state # <<>> /\ Answer.kind = "ai"
        /\ node \in {"gateway", "tools"} => Answer.calls # <<>>
        /\ node = "end" => Answer.calls = <<>>
        /\ node = "tools" => \A c \in ToSet(Answer.calls) :
                                IsHandoff(c) => c.to \in Handovers[active_agent]
        /\ \/ \A c \in ToSet(Answer.calls) : IsHandoff(c)
           \/ \A c \in ToSet(Answer.calls) : IsOrdinary(c)

\* What waits is a handoff, and nothing waits behind a response without calls
\* or with a handoff, nor where a response has one call at most.
Waiting ==
    /\ \A a \in Agents : pending[a] # NoCall => Parallel /\ IsHandoff(pending[a])
    /\ Judging /\ (Answer.calls = <<>> \/ \E c \in ToSet(Answer.calls) : IsHandoff(c))
          => pending[active_agent] = NoCall

\* The identities are given in turn, so that no other message has that of the
\* answer under judgement, and none that was rejected.
Identified ==
    /\ \A m \in ToSet(messages) \cup ToSet(state) : m.id <= ids
    /\ rejected \subseteq 1..ids
    /\ node = "response_gateway" =>
          /\ 0 < ids /\ Answer.id = ids
          /\ \A m \in ToSet(messages) \cup ToSet(Front(state)) : m.id < ids
          /\ \A r \in rejected : r < ids

\* Until the turn ends nothing is given to the customer, and what is held back
\* is the answer under judgement, if it is a reply.
HeldBack ==
    node # "idle" =>
        /\ messages # <<>> /\ ~IsReply(Last(messages))
        /\ last_agent_message = 0
        /\ held.reply => node \in {"response_gateway", "end"} /\ IsReply(Answer)
        /\ node \in {"response_gateway", "end"} /\ IsReply(Answer) =>
              held = [id |-> Answer.id, reply |-> TRUE]
        /\ node = "end" /\ IsReply(Answer) => Answer.id \in approved

\* Calls are answered by what follows them, and nothing else is.
Closed(msgs) ==
    /\ \A k \in DOMAIN msgs : \A c \in DOMAIN msgs[k].calls :
          /\ k + c \in DOMAIN msgs
          /\ msgs[k + c].kind = "tool" /\ msgs[k + c].answers = msgs[k].calls[c]
    /\ \A k \in DOMAIN msgs : msgs[k].kind = "tool" =>
          \E i \in 1..(k - 1) : msgs[k].answers \in ToSet(msgs[i].calls)

\* The agent's turn is closed in the conversation, when its model is called, and
\* up to the answer under judgement.
TurnsClosed ==
    /\ Closed(Turn(messages))
    /\ node = "llm" => Closed(Turn(state))
    /\ Judging => Closed(Turn(Front(state)))

\* The inductive invariant.
Inv == /\ TypeOK /\ Answered /\ Waiting /\ PendingIsCurrent /\ Identified /\ RejectedIsGone
       /\ HeldBack /\ ReplyIsApprovedLastWord /\ TurnsClosed

-----------------------------------------------------------------------------
(* Sequences *)

\* A sequence that ends in an element.
LEMMA Appended ==
  ASSUME NEW S, NEW s \in Seq(S), NEW e \in S
  PROVE  /\ Append(s, e) \in Seq(S) /\ Append(s, e) # <<>>
         /\ Len(Append(s, e)) = Len(s) + 1
         /\ Last(Append(s, e)) = e
         /\ Front(Append(s, e)) = s
         /\ ToSet(Append(s, e)) = ToSet(s) \cup {e}
<1>1. /\ Append(s, e) \in Seq(S) /\ Append(s, e) # <<>> /\ Len(Append(s, e)) = Len(s) + 1
      /\ Last(Append(s, e)) = e
  BY DEF Last
<1>2. Front(Append(s, e)) = s
  BY DEF Front
<1>3. /\ DOMAIN s = 1..Len(s) /\ DOMAIN Append(s, e) = 1..(Len(s) + 1)
      /\ \A i \in 1..Len(s) : Append(s, e)[i] = s[i]
      /\ Append(s, e)[Len(s) + 1] = e
  OBVIOUS
<1>4. \A i \in 1..(Len(s) + 1) : i \in 1..Len(s) \/ i = Len(s) + 1
  OBVIOUS
<1>5. ToSet(Append(s, e)) \subseteq ToSet(s) \cup {e}
  BY <1>3, <1>4 DEF ToSet
<1>6. ToSet(s) \cup {e} \subseteq ToSet(Append(s, e))
  <2>1. 1..Len(s) \subseteq 1..(Len(s) + 1) /\ Len(s) + 1 \in 1..(Len(s) + 1)
    OBVIOUS
  <2> QED
    BY <1>3, <2>1 DEF ToSet
<1> QED
  BY <1>1, <1>2, <1>5, <1>6

\* One that is not empty is its front and its last element.
LEMMA FrontAndLast ==
  ASSUME NEW S, NEW s \in Seq(S), s # <<>>
  PROVE  /\ Front(s) \in Seq(S) /\ Last(s) \in S
         /\ s = Append(Front(s), Last(s))
         /\ ToSet(s) = ToSet(Front(s)) \cup {Last(s)}
<1>1. Front(s) \in Seq(S) /\ Last(s) \in S
  BY DEF Front, Last
<1>2. s = Append(Front(s), Last(s))
  BY DEF Front, Last
<1>3. ASSUME NEW f \in Seq(S), NEW e \in S, s = Append(f, e) PROVE ToSet(s) = ToSet(f) \cup {e}
  BY <1>3, Appended
<1> QED
  BY <1>1, <1>2, <1>3

\* One sequence after another.
LEMMA Concatenated ==
  ASSUME NEW S, NEW p \in Seq(S), NEW q \in Seq(S)
  PROVE  /\ p \o q \in Seq(S) /\ Len(p \o q) = Len(p) + Len(q)
         /\ \A k \in 1..Len(p) : (p \o q)[k] = p[k]
         /\ \A k \in 1..Len(q) : (p \o q)[Len(p) + k] = q[k]
         /\ ToSet(p \o q) = ToSet(p) \cup ToSet(q)
         /\ q # <<>> => p \o q # <<>> /\ Last(p \o q) = Last(q)
<1>1. /\ p \o q \in Seq(S) /\ Len(p \o q) = Len(p) + Len(q)
      /\ \A k \in 1..Len(p) : (p \o q)[k] = p[k]
      /\ \A k \in 1..Len(q) : (p \o q)[Len(p) + k] = q[k]
      /\ Len(p) \in Nat /\ Len(q) \in Nat
      /\ DOMAIN p = 1..Len(p) /\ DOMAIN q = 1..Len(q) /\ DOMAIN (p \o q) = 1..(Len(p) + Len(q))
  OBVIOUS
<1>2. ToSet(p \o q) \subseteq ToSet(p) \cup ToSet(q)
  <2> SUFFICES ASSUME NEW k \in 1..(Len(p) + Len(q))
               PROVE  (p \o q)[k] \in ToSet(p) \cup ToSet(q)
    BY <1>1 DEF ToSet
  <2>1. k \in 1..Len(p) \/ (k - Len(p) \in 1..Len(q) /\ k = Len(p) + (k - Len(p)))
    BY <1>1
  <2> QED
    BY <1>1, <2>1 DEF ToSet
<1>3. ToSet(p) \cup ToSet(q) \subseteq ToSet(p \o q)
  <2>1. /\ \A k \in 1..Len(p) : k \in 1..(Len(p) + Len(q))
        /\ \A k \in 1..Len(q) : Len(p) + k \in 1..(Len(p) + Len(q))
    BY <1>1
  <2> QED
    BY <1>1, <2>1 DEF ToSet
<1>4. ASSUME q # <<>> PROVE p \o q # <<>> /\ Last(p \o q) = Last(q)
  <2>1. Len(q) \in 1..Len(q) /\ Len(p) + Len(q) # 0
    BY <1>1, <1>4
  <2> QED
    BY <1>1, <2>1 DEF Last
<1> QED
  BY <1>1, <1>2, <1>3, <1>4

\* One after an element after another.
LEMMA AppendedThen ==
  ASSUME NEW S, NEW s \in Seq(S), NEW e \in S, NEW q \in Seq(S)
  PROVE  /\ Len(s) \in Nat /\ Len(q) \in Nat
         /\ DOMAIN s = 1..Len(s)
         /\ DOMAIN (Append(s, e) \o q) = 1..(Len(s) + 1 + Len(q))
         /\ \A k \in 1..Len(s) : (Append(s, e) \o q)[k] = s[k]
         /\ (Append(s, e) \o q)[Len(s) + 1] = e
         /\ \A k \in 1..Len(q) : (Append(s, e) \o q)[Len(s) + 1 + k] = q[k]
<1>1. /\ Append(s, e) \in Seq(S) /\ Len(Append(s, e)) = Len(s) + 1
      /\ \A k \in 1..Len(s) : Append(s, e)[k] = s[k]
      /\ Append(s, e)[Len(s) + 1] = e /\ Len(s) \in Nat /\ Len(q) \in Nat
      /\ DOMAIN s = 1..Len(s)
  OBVIOUS
<1>2. PICK p \in Seq(S) : p = Append(s, e)
  BY <1>1
<1>3. /\ DOMAIN (p \o q) = 1..(Len(p) + Len(q))
      /\ \A k \in 1..Len(p) : (p \o q)[k] = p[k]
      /\ \A k \in 1..Len(q) : (p \o q)[Len(p) + k] = q[k]
  OBVIOUS
<1>4. /\ \A k \in 1..Len(s) : k \in 1..(Len(s) + 1)
      /\ Len(s) + 1 \in 1..(Len(s) + 1)
  BY <1>1
<1> QED
  BY <1>1, <1>2, <1>3, <1>4

\* The size of an interval.
LEMMA Counting == \A n \in Nat : IsFiniteSet(1..n) /\ Cardinality(1..n) = n
<1> SUFFICES ASSUME NEW n \in Nat PROVE IsFiniteSet(1..n) /\ Cardinality(1..n) = n
  OBVIOUS
<1>1. IsFiniteSet(1..n) /\ Cardinality(1..n) = IF 1 > n THEN 0 ELSE n - 1 + 1
  BY FS_Interval
<1> QED
  BY <1>1

\* What is at some places of a sequence.
LEMMA Placed ==
  ASSUME NEW S, NEW s \in Seq(S), NEW P \in SUBSET DOMAIN s
  PROVE  /\ AtPlaces(s, P) \in Seq(S)
         /\ \A n \in DOMAIN AtPlaces(s, P) : \E k \in P : AtPlaces(s, P)[n] = s[k]
         /\ AtPlaces(s, P) = <<>> <=> P = {}
         /\ P = DOMAIN s => AtPlaces(s, P) = s
<1> DEFINE upto(k) == {j \in P : j <= k}
           rank == [k \in P |-> Cardinality(upto(k))]
           size == Cardinality(P)
<1>1. IsFiniteSet(P) /\ size \in Nat /\ DOMAIN s = 1..Len(s) /\ Len(s) \in Nat
  <2>1. IsFiniteSet(DOMAIN s)
    BY FS_Interval
  <2> QED
    BY <2>1, FS_Subset, FS_CardinalityType
<1>2. \A k \in P : /\ IsFiniteSet(upto(k)) /\ k \in upto(k)
                   /\ rank[k] = Cardinality(upto(k)) /\ rank[k] \in 1..size
  <2> SUFFICES ASSUME NEW k \in P
               PROVE  /\ IsFiniteSet(upto(k)) /\ k \in upto(k)
                      /\ rank[k] = Cardinality(upto(k)) /\ rank[k] \in 1..size
    OBVIOUS
  <2>1. upto(k) \in SUBSET P /\ k \in upto(k)
    BY <1>1
  <2>2. /\ IsFiniteSet(upto(k)) /\ Cardinality(upto(k)) <= size
        /\ Cardinality(upto(k)) \in Nat /\ Cardinality(upto(k)) # 0
    BY <1>1, <2>1, FS_Subset, FS_CardinalityType, FS_EmptySet
  <2> QED
    BY <1>1, <2>1, <2>2
<1>3. \A k, l \in P : k < l => rank[k] < rank[l]
  <2> SUFFICES ASSUME NEW k \in P, NEW l \in P, k < l PROVE rank[k] < rank[l]
    OBVIOUS
  <2>1. upto(k) \in SUBSET (upto(l) \ {l})
    BY <1>1
  <2>2. IsFiniteSet(upto(l) \ {l}) /\ Cardinality(upto(l) \ {l}) = Cardinality(upto(l)) - 1
    BY <1>2, FS_RemoveElement
  <2>3. Cardinality(upto(k)) <= Cardinality(upto(l) \ {l})
    BY <2>1, <2>2, FS_Subset
  <2>4. Cardinality(upto(k)) \in Nat /\ Cardinality(upto(l)) \in Nat
    BY <1>2, FS_CardinalityType
  <2> QED
    BY <1>2, <2>2, <2>3, <2>4
<1>4. \A n \in 1..size : \E k \in P : Cardinality(upto(k)) = n
  <2>1. rank \in [P -> 1..size]
    BY <1>2
  <2>2. \A k, l \in P : rank[k] = rank[l] => k = l
    <3> SUFFICES ASSUME NEW k \in P, NEW l \in P, k # l PROVE rank[k] # rank[l]
      OBVIOUS
    <3>1. k < l \/ l < k
      BY <1>1
    <3>2. rank[k] \in Int /\ rank[l] \in Int
      <4>1. rank[k] \in 1..size /\ rank[l] \in 1..size
        BY <1>2
      <4> HIDE DEF rank, size
      <4> QED
        BY <4>1
    <3> HIDE DEF rank
    <3> QED
      BY <1>3, <3>1, <3>2
  <2> HIDE DEF rank
  <2>3. rank \in Injection(P, 1..size)
    BY <2>1, <2>2 DEF Injection, IsInjective
  <2>4. IsFiniteSet(1..size) /\ Cardinality(1..size) = size
    BY <1>1, FS_Interval
  <2>5. rank \in Surjection(P, 1..size)
    BY <2>3, <2>4, FS_Injection
  <2> QED
    BY <1>2, <2>5 DEF Surjection
<1>5. \A n \in 1..size : \E k \in P : AtPlaces(s, P)[n] = s[k] /\ Cardinality(upto(k)) = n
  BY <1>4 DEF AtPlaces
<1>6. DOMAIN AtPlaces(s, P) = 1..size
  BY DEF AtPlaces
<1>7. AtPlaces(s, P) \in Seq(S)
  <2>1. \A n \in 1..size : AtPlaces(s, P)[n] \in S
    <3>1. \A k \in P : s[k] \in S
      OBVIOUS
    <3> QED
      BY <1>5, <3>1
  <2>2. AtPlaces(s, P) = [n \in 1..size |-> AtPlaces(s, P)[n]]
    BY DEF AtPlaces
  <2> HIDE DEF size
  <2> QED
    BY <1>1, <2>1, <2>2
<1>8. AtPlaces(s, P) = <<>> <=> P = {}
  BY <1>1, <1>6, <1>7, FS_EmptySet
<1>9. ASSUME P = DOMAIN s PROVE AtPlaces(s, P) = s
  <2>1. size = Len(s)
    BY <1>1, <1>9, Counting
  <2>2. \A k \in P : Cardinality(upto(k)) = k
    <3> SUFFICES ASSUME NEW k \in P PROVE Cardinality(upto(k)) = k
      OBVIOUS
    <3>1. upto(k) = 1..k /\ k \in Nat /\ k > 0
      BY <1>1, <1>9
    <3> QED
      BY <3>1, Counting
  <2>3. \A n \in 1..Len(s) : AtPlaces(s, P)[n] = s[n]
    BY <1>5, <2>1, <2>2
  <2> QED
    BY <1>1, <1>6, <1>7, <2>1, <2>3
<1> QED
  BY <1>1, <1>5, <1>6, <1>7, <1>8, <1>9

\* A set of naturals that is bounded has a least bound, which is its maximum.
LEMMA HasMax ==
  ASSUME NEW n \in Nat, NEW S \in SUBSET (1..n), S # {}
  PROVE  Max(S) \in S /\ \A k \in S : k <= Max(S)
<1> DEFINE bounds == {b \in Nat : \A k \in S : k <= b}
           less == {ab \in Nat \X Nat : ab[1] < ab[2]}
<1>1. IsWellFoundedOn(less, Nat)
  BY NatLessThanWellFounded DEF OpToRel
<1>2. n \in bounds /\ bounds \subseteq Nat
  OBVIOUS
<1>3. PICK b \in bounds : \A a \in bounds : ~ (a < b)
  <2> HIDE DEF bounds
  <2>1. \E b \in bounds : \A a \in bounds : ~ (<<a, b>> \in less)
    BY <1>1, <1>2, WFMin
  <2> QED
    BY <1>2, <2>1
<1>4. b \in S
  <2> SUFFICES ASSUME b \notin S PROVE FALSE
    OBVIOUS
  <2>1. \A k \in S : k < b
    BY <1>3
  <2>2. b > 0
    <3>1. PICK k : k \in S
      OBVIOUS
    <3>2. k \in 1..n /\ k < b
      BY <2>1, <3>1
    <3> QED
      BY <1>3, <3>2
  <2>3. b - 1 \in bounds
    BY <1>3, <2>1, <2>2
  <2> QED
    BY <1>3, <2>3
<1> QED
  BY <1>3, <1>4 DEF Max

-----------------------------------------------------------------------------
(* Messages and what is shown of them *)

\* The fields of what the swarm adds to a conversation.
LEMMA MessageFields ==
  /\ \A kind : /\ Message(kind).kind = kind /\ Message(kind).id = 0
               /\ Message(kind).calls = <<>> /\ Message(kind).text = FALSE
  /\ \A id, text, calls :
       LET m == AIMessage(id, text, calls) IN
         m.kind = "ai" /\ m.id = id /\ m.text = text /\ m.calls = calls
  /\ \A call, ok :
       LET m == ToolMessage(call, ok) IN
         m.kind = "tool" /\ m.id = 0 /\ m.calls = <<>> /\ m.answers = call /\ m.ok = ok
  BY DEF Message, AIMessage, ToolMessage

\* And that they are messages.
LEMMA MessageTypes ==
  /\ Message("user") \in MessageType /\ Message("correction") \in MessageType
  /\ \A id \in 0..MaxIds, text \in BOOLEAN, calls \in Seq(CallType) :
       AIMessage(id, text, calls) \in MessageType
  /\ \A call \in CallType, ok \in BOOLEAN : ToolMessage(call, ok) \in MessageType
<1>1. 0 \in 0..MaxIds /\ <<>> \in Seq(CallType)
  BY LimitsAssumption
<1> QED
  BY <1>1 DEF Message, AIMessage, ToolMessage, MessageType

\* A message at the end of others.
LEMMA MessageAppended ==
  \A msgs \in Seq(MessageType), m \in MessageType :
    /\ Append(msgs, m) \in Seq(MessageType) /\ Append(msgs, m) # <<>>
    /\ Last(Append(msgs, m)) = m /\ Front(Append(msgs, m)) = msgs
    /\ ToSet(Append(msgs, m)) = ToSet(msgs) \cup {m}
  BY Appended

\* A handover to this agent that took place.
Boundary(m, agent) == m.kind = "tool" /\ m.ok /\ m.answers.to = agent

\* The place of the last one in a sequence, 0 if there is none.
LastBoundary(msgs, agent, b) ==
    /\ b \in 0..Len(msgs)
    /\ b = 0 \/ Boundary(msgs[b], agent)
    /\ \A k \in (b + 1)..Len(msgs) : ~Boundary(msgs[k], agent)

\* An agent is shown what follows the last handover to it.
LEMMA AfterBoundary ==
  ASSUME NEW S, NEW msgs \in Seq(S), NEW agent
  PROVE  /\ \E b : LastBoundary(msgs, agent, b)
         /\ \A b : LastBoundary(msgs, agent, b) =>
              current_turn_messages(msgs, agent) = SubSeq(msgs, b + 1, Len(msgs))
<1> DEFINE places == {k \in 1..Len(msgs) : Boundary(msgs[k], agent)}
           last == IF places # {} THEN Max(places) ELSE 0
<1>1. current_turn_messages(msgs, agent) = SubSeq(msgs, last + 1, Len(msgs))
  BY DEF current_turn_messages, SelectLastInSeq, Boundary
<1>2. Len(msgs) \in Nat
  OBVIOUS
<1>3. LastBoundary(msgs, agent, last)
  <2>1. CASE places = {}
    BY <1>2, <2>1 DEF LastBoundary
  <2>2. CASE places # {}
    <3>1. last \in places /\ \A k \in places : k <= last
      BY <1>2, <2>2, HasMax
    <3> HIDE DEF last
    <3> QED
      BY <1>2, <3>1 DEF LastBoundary
  <2> QED
    BY <2>1, <2>2
<1>4. ASSUME NEW b, LastBoundary(msgs, agent, b) PROVE b = last
  <2> HIDE DEF last
  <2>1. b \in Nat /\ last \in Nat /\ b <= Len(msgs) /\ last <= Len(msgs)
    BY <1>2, <1>3, <1>4 DEF LastBoundary
  <2>2. ~(b < last)
    <3> SUFFICES ASSUME b < last PROVE FALSE
      OBVIOUS
    <3>1. last \in (b + 1)..Len(msgs) /\ last # 0
      BY <1>2, <2>1
    <3> QED
      BY <1>3, <1>4, <3>1 DEF LastBoundary
  <2>3. ~(last < b)
    <3> SUFFICES ASSUME last < b PROVE FALSE
      OBVIOUS
    <3>1. b \in (last + 1)..Len(msgs) /\ b # 0
      BY <1>2, <2>1
    <3> QED
      BY <1>3, <1>4, <3>1 DEF LastBoundary
  <2> QED
    BY <2>1, <2>2, <2>3
<1> QED
  BY <1>1, <1>3, <1>4

\* Of nothing, nothing is shown.
LEMMA EmptyTurn == \A agent : current_turn_messages(<<>>, agent) = <<>>
<1> SUFFICES ASSUME NEW agent PROVE current_turn_messages(<<>>, agent) = <<>>
  OBVIOUS
<1>1. <<>> \in Seq({}) /\ Len(<<>>) = 0
  OBVIOUS
<1>2. LastBoundary(<<>>, agent, 0)
  BY <1>1 DEF LastBoundary
<1>3. current_turn_messages(<<>>, agent) = SubSeq(<<>>, 0 + 1, Len(<<>>))
  BY <1>1, <1>2, AfterBoundary
<1> QED
  BY <1>1, <1>3

\* What follows is shown too, if there is no handover to the agent in it.
LEMMA TurnGoesOn ==
  ASSUME NEW S, NEW msgs \in Seq(S), NEW more \in Seq(S), NEW agent,
         \A k \in DOMAIN more : ~Boundary(more[k], agent)
  PROVE  /\ current_turn_messages(msgs, agent) \in Seq(S)
         /\ current_turn_messages(msgs \o more, agent)
               = current_turn_messages(msgs, agent) \o more
<1>1. PICK b : LastBoundary(msgs, agent, b)
  BY AfterBoundary
<1>2. /\ msgs \o more \in Seq(S) /\ Len(msgs \o more) = Len(msgs) + Len(more)
      /\ Len(msgs) \in Nat /\ Len(more) \in Nat
      /\ \A k \in 1..Len(msgs) : (msgs \o more)[k] = msgs[k]
      /\ \A k \in 1..Len(more) : (msgs \o more)[Len(msgs) + k] = more[k]
      /\ DOMAIN more = 1..Len(more)
  OBVIOUS
<1>3. b \in Nat /\ b <= Len(msgs)
  BY <1>1, <1>2 DEF LastBoundary
<1>4. LastBoundary(msgs \o more, agent, b)
  <2>1. b = 0 \/ Boundary((msgs \o more)[b], agent)
    BY <1>1, <1>2, <1>3 DEF LastBoundary
  <2>2. ASSUME NEW k \in (b + 1)..Len(msgs \o more) PROVE ~Boundary((msgs \o more)[k], agent)
    <3>1. CASE k <= Len(msgs)
      BY <1>1, <1>2, <1>3, <2>2, <3>1 DEF LastBoundary
    <3>2. CASE k > Len(msgs)
      <4>1. k - Len(msgs) \in 1..Len(more) /\ k = Len(msgs) + (k - Len(msgs))
        BY <1>2, <1>3, <2>2, <3>2
      <4> QED
        BY <1>2, <4>1
    <3> QED
      BY <1>2, <1>3, <2>2, <3>1, <3>2
  <2> QED
    BY <1>2, <1>3, <2>1, <2>2 DEF LastBoundary
<1>5. /\ current_turn_messages(msgs, agent) = SubSeq(msgs, b + 1, Len(msgs))
      /\ current_turn_messages(msgs \o more, agent)
           = SubSeq(msgs \o more, b + 1, Len(msgs) + Len(more))
  BY <1>1, <1>2, <1>4, AfterBoundary
<1>6. SubSeq(msgs, b + 1, Len(msgs)) \in Seq(S)
  BY <1>2, <1>3
<1>7. SubSeq(msgs \o more, b + 1, Len(msgs) + Len(more))
        = SubSeq(msgs, b + 1, Len(msgs)) \o more
  <2> DEFINE n == Len(msgs) - b
             left == SubSeq(msgs \o more, b + 1, Len(msgs) + Len(more))
             right == SubSeq(msgs, b + 1, Len(msgs)) \o more
  <2>1. /\ left \in Seq(S) /\ Len(left) = n + Len(more) /\ n \in Nat
        /\ \A k \in 1..(n + Len(more)) : left[k] = (msgs \o more)[b + k]
    <3>1. PICK both \in Seq(S) : both = msgs \o more /\ Len(both) = Len(msgs) + Len(more)
      BY <1>2
    <3>2. n \in Nat /\ n + Len(more) = Len(both) - b /\ b <= Len(both)
      BY <1>2, <1>3, <3>1
    <3>3. /\ SubSeq(both, b + 1, Len(both)) \in Seq(S)
          /\ Len(SubSeq(both, b + 1, Len(both))) = Len(both) - b
          /\ \A k \in 1..(Len(both) - b) : SubSeq(both, b + 1, Len(both))[k] = both[b + k]
      BY <1>3, <3>2
    <3> HIDE DEF n
    <3> QED
      BY <3>1, <3>2, <3>3
  <2>2. /\ Len(SubSeq(msgs, b + 1, Len(msgs))) = n
        /\ \A k \in 1..n : SubSeq(msgs, b + 1, Len(msgs))[k] = msgs[b + k]
    BY <1>2, <1>3
  <2>3. /\ right \in Seq(S) /\ Len(right) = n + Len(more)
        /\ \A k \in 1..n : right[k] = msgs[b + k]
        /\ \A k \in 1..Len(more) : right[n + k] = more[k]
    <3> HIDE DEF n
    <3>1. /\ right \in Seq(S) /\ Len(right) = n + Len(more)
          /\ \A k \in 1..n : right[k] = SubSeq(msgs, b + 1, Len(msgs))[k]
          /\ \A k \in 1..Len(more) : right[n + k] = more[k]
      BY <1>6, <2>2, Concatenated
    <3> QED
      BY <2>2, <3>1
  <2>4. ASSUME NEW k \in 1..(n + Len(more)) PROVE left[k] = right[k]
    <3>1. CASE k <= n
      <4>1. k \in 1..n /\ b + k \in 1..Len(msgs)
        BY <1>2, <1>3, <2>1, <3>1
      <4> QED
        BY <1>2, <2>1, <2>3, <4>1
    <3>2. CASE k > n
      <4>1. k - n \in 1..Len(more) /\ b + k = Len(msgs) + (k - n) /\ k = n + (k - n)
        BY <1>2, <1>3, <2>1, <3>2
      <4>2. (msgs \o more)[b + k] = more[k - n]
        BY <1>2, <4>1
      <4>3. right[k] = more[k - n]
        BY <2>3, <4>1
      <4> QED
        BY <2>1, <4>2, <4>3
    <3>3. k <= n \/ k > n
      BY <1>2, <1>3, <2>4
    <3> QED
      BY <3>1, <3>2, <3>3
  <2> HIDE DEF left, right
  <2>5. left = right
    BY <2>1, <2>3, <2>4
  <2> QED
    BY <2>5 DEF left, right
<1> QED
  BY <1>5, <1>6, <1>7

\* The same of one message, and after a handover to the agent nothing is shown.
LEMMA TurnAppended ==
  ASSUME NEW S, NEW msgs \in Seq(S), NEW m \in S, NEW agent
  PROVE  /\ current_turn_messages(msgs, agent) \in Seq(S)
         /\ ~Boundary(m, agent) => current_turn_messages(Append(msgs, m), agent)
                                     = Append(current_turn_messages(msgs, agent), m)
         /\ Boundary(m, agent) => current_turn_messages(Append(msgs, m), agent) = <<>>
<1>1. current_turn_messages(msgs, agent) \in Seq(S)
  <2>1. <<>> \in Seq(S) /\ \A k \in DOMAIN <<>> : ~Boundary(<<>>[k], agent)
    OBVIOUS
  <2> QED
    BY <2>1, TurnGoesOn
<1>2. ASSUME ~Boundary(m, agent)
      PROVE  current_turn_messages(Append(msgs, m), agent)
               = Append(current_turn_messages(msgs, agent), m)
  <2>1. <<m>> \in Seq(S) /\ \A k \in DOMAIN <<m>> : <<m>>[k] = m
    OBVIOUS
  <2>2. current_turn_messages(msgs \o <<m>>, agent) = current_turn_messages(msgs, agent) \o <<m>>
    BY <1>2, <2>1, TurnGoesOn
  <2>3. \A s \in Seq(S) : s \o <<m>> = Append(s, m)
    OBVIOUS
  <2> QED
    BY <1>1, <2>2, <2>3
<1>3. ASSUME Boundary(m, agent) PROVE current_turn_messages(Append(msgs, m), agent) = <<>>
  <2>1. /\ Append(msgs, m) \in Seq(S) /\ Len(Append(msgs, m)) = Len(msgs) + 1
        /\ Append(msgs, m)[Len(msgs) + 1] = m /\ Len(msgs) \in Nat
    OBVIOUS
  <2>2. LastBoundary(Append(msgs, m), agent, Len(msgs) + 1)
    BY <1>3, <2>1 DEF LastBoundary
  <2>3. current_turn_messages(Append(msgs, m), agent)
          = SubSeq(Append(msgs, m), (Len(msgs) + 1) + 1, Len(Append(msgs, m)))
    BY <2>1, <2>2, AfterBoundary
  <2> QED
    BY <2>1, <2>3
<1> QED
  BY <1>1, <1>2, <1>3

-----------------------------------------------------------------------------
(* What a deferrer issues *)

\* Whatever waits and whatever the model answers: what is issued is one kind of
\* calls, what waits then is a handoff behind ordinary calls, and one that
\* waited gives way to a handoff only.
LEMMA Deferred ==
  ASSUME NEW waiting \in CallType \cup {NoCall}, NEW calls \in Seq(CallType),
         waiting # NoCall => Parallel /\ IsHandoff(waiting),
         ~Parallel => Len(calls) <= 1,
         NEW bound, bound = bind_tools_sequential(waiting, calls)
  PROVE  /\ bound.calls \in Seq(CallType) /\ bound.pending \in CallType \cup {NoCall}
         /\ bound.pending # NoCall => Parallel /\ IsHandoff(bound.pending)
         /\ \/ \A c \in ToSet(bound.calls) : IsHandoff(c)
            \/ \A c \in ToSet(bound.calls) : IsOrdinary(c)
         /\ bound.calls = <<>> \/ (\E c \in ToSet(bound.calls) : IsHandoff(c))
              => bound.pending = NoCall
         /\ waiting # NoCall /\ bound.pending = NoCall
              => \E c \in ToSet(bound.calls) : IsHandoff(c)
<1> DEFINE handoffs == Handoffs(calls)
           others == Ordinaries(calls)
<1>0. \A c : IsOrdinary(c) <=> ~IsHandoff(c)
  BY DEF IsOrdinary, IsHandoff
<1>1. /\ handoffs \in Seq(CallType)
      /\ \A n \in DOMAIN handoffs : IsHandoff(handoffs[n])
      /\ handoffs = <<>> <=> \A k \in DOMAIN calls : ~IsHandoff(calls[k])
  <2> DEFINE P == {k \in DOMAIN calls : IsHandoff(calls[k])}
  <2>1. P \in SUBSET DOMAIN calls /\ handoffs = AtPlaces(calls, P)
    BY DEF Handoffs
  <2>2. \A k \in P : IsHandoff(calls[k])
    OBVIOUS
  <2>3. P = {} <=> \A k \in DOMAIN calls : ~IsHandoff(calls[k])
    OBVIOUS
  <2> HIDE DEF P, handoffs
  <2>4. /\ AtPlaces(calls, P) \in Seq(CallType)
        /\ \A n \in DOMAIN AtPlaces(calls, P) : \E k \in P : AtPlaces(calls, P)[n] = calls[k]
        /\ AtPlaces(calls, P) = <<>> <=> P = {}
    BY <2>1, Placed
  <2> QED
    BY <2>1, <2>2, <2>3, <2>4
<1>2. /\ others \in Seq(CallType)
      /\ \A n \in DOMAIN others : ~IsHandoff(others[n])
      /\ others = <<>> <=> \A k \in DOMAIN calls : IsHandoff(calls[k])
  <2> DEFINE P == {k \in DOMAIN calls : IsOrdinary(calls[k])}
  <2>1. P \in SUBSET DOMAIN calls /\ others = AtPlaces(calls, P)
    BY DEF Ordinaries
  <2>2. \A k \in P : ~IsHandoff(calls[k])
    BY <1>0
  <2>3. P = {} <=> \A k \in DOMAIN calls : IsHandoff(calls[k])
    BY <1>0
  <2> HIDE DEF P, others
  <2>4. /\ AtPlaces(calls, P) \in Seq(CallType)
        /\ \A n \in DOMAIN AtPlaces(calls, P) : \E k \in P : AtPlaces(calls, P)[n] = calls[k]
        /\ AtPlaces(calls, P) = <<>> <=> P = {}
    BY <2>1, Placed
  <2> QED
    BY <2>1, <2>2, <2>3, <2>4
<1>3. /\ DOMAIN calls = 1..Len(calls) /\ Len(calls) \in Nat
      /\ calls = <<>> <=> DOMAIN calls = {}
      /\ \A c : c \in ToSet(calls) <=> \E k \in DOMAIN calls : c = calls[k]
      /\ \A c : c \in ToSet(others) <=> \E k \in DOMAIN others : c = others[k]
  BY DEF ToSet
<1> HIDE DEF handoffs, others
<1>4. CASE ~Parallel
  <2>1. bound = [calls |-> calls, pending |-> waiting] /\ waiting = NoCall
    BY <1>4 DEF bind_tools_sequential
  <2>2. \A k, l \in DOMAIN calls : k = l
    BY <1>3, <1>4
  <2>3. \/ \A c \in ToSet(calls) : IsHandoff(c)
        \/ \A c \in ToSet(calls) : IsOrdinary(c)
    BY <1>0, <1>3, <2>2
  <2> QED
    BY <1>4, <2>1, <2>3
<1>5. CASE Parallel /\ waiting # NoCall /\ calls = <<>>
  <2>1. bound = [calls |-> <<waiting>>, pending |-> NoCall]
    BY <1>5 DEF bind_tools_sequential, HandoffDeferrer
  <2>2. <<waiting>> \in Seq(CallType) /\ ToSet(<<waiting>>) = {waiting}
    BY <1>5 DEF ToSet
  <2>3. bound.calls = <<waiting>> /\ bound.pending = NoCall
    BY <2>1
  <2>4. \A c \in ToSet(bound.calls) : IsHandoff(c)
    BY <1>5, <2>2, <2>3
  <2>5. \E c \in ToSet(bound.calls) : IsHandoff(c)
    BY <1>5, <2>2, <2>3
  <2> QED
    BY <1>5, <2>2, <2>3, <2>4, <2>5
<1>6. CASE Parallel /\ ~(waiting # NoCall /\ calls = <<>>) /\ handoffs # <<>> /\ others # <<>>
  <2>1. bound = [calls |-> others, pending |-> Head(handoffs)]
    BY <1>6 DEF bind_tools_sequential, HandoffDeferrer, handoffs, others
  <2>2. Head(handoffs) \in CallType /\ IsHandoff(Head(handoffs))
    <3>1. 1 \in DOMAIN handoffs /\ Head(handoffs) = handoffs[1] /\ handoffs[1] \in CallType
      BY <1>1, <1>6
    <3> QED
      BY <1>1, <3>1
  <2>3. Head(handoffs) # NoCall
    BY <2>2 DEF IsHandoff, NoCall
  <2>4. \A c \in ToSet(others) : IsOrdinary(c)
    BY <1>0, <1>2, <1>3
  <2> QED
    BY <1>0, <1>2, <1>6, <2>1, <2>2, <2>3, <2>4
<1>7. CASE Parallel /\ ~(waiting # NoCall /\ calls = <<>>) /\ ~(handoffs # <<>> /\ others # <<>>)
  <2>1. bound = [calls |-> calls, pending |-> IF handoffs # <<>> THEN NoCall ELSE waiting]
    BY <1>7 DEF bind_tools_sequential, HandoffDeferrer, handoffs, others
  <2>2. CASE handoffs = <<>>
    <3>1. bound.calls = calls /\ bound.pending = waiting
      BY <2>1, <2>2
    <3>2. \A c \in ToSet(calls) : ~IsHandoff(c)
      BY <1>1, <1>3, <2>2
    <3> QED
      BY <1>0, <1>7, <3>1, <3>2
  <2>3. CASE handoffs # <<>>
    <3>1. bound.calls = calls /\ bound.pending = NoCall
      BY <2>1, <2>3
    <3>2. \A c \in ToSet(calls) : IsHandoff(c)
      BY <1>2, <1>3, <1>7, <2>3
    <3>3. \E c \in ToSet(calls) : IsHandoff(c)
      BY <1>1, <1>3, <2>3
    <3> QED
      BY <3>1, <3>2, <3>3
  <2> QED
    BY <2>2, <2>3
<1> QED
  BY <1>4, <1>5, <1>6, <1>7

-----------------------------------------------------------------------------
(* What keeps a turn closed *)

\* A message without calls that answers nothing.
LEMMA ClosedBySilence ==
  ASSUME NEW msgs \in Seq(MessageType), Closed(msgs), NEW m \in MessageType,
         m.calls = <<>>, m.kind # "tool"
  PROVE  Closed(Append(msgs, m))
<1> DEFINE more == Append(msgs, m)
<1>1. /\ DOMAIN msgs = 1..Len(msgs) /\ DOMAIN more = 1..(Len(msgs) + 1) /\ Len(msgs) \in Nat
      /\ \A k \in 1..Len(msgs) : more[k] = msgs[k]
      /\ more[Len(msgs) + 1] = m
  OBVIOUS
<1>2. \A k \in 1..(Len(msgs) + 1) : k \in 1..Len(msgs) \/ k = Len(msgs) + 1
  BY <1>1
<1>3. \A k \in 1..Len(msgs) : k \in 1..(Len(msgs) + 1)
  BY <1>1
<1>4. DOMAIN m.calls = {}
  OBVIOUS
<1> HIDE DEF more
<1>5. ASSUME NEW k \in DOMAIN more, NEW c \in DOMAIN more[k].calls
      PROVE  /\ k + c \in DOMAIN more
             /\ more[k + c].kind = "tool" /\ more[k + c].answers = more[k].calls[c]
  <2>1. k \in 1..Len(msgs) /\ more[k] = msgs[k]
    BY <1>1, <1>2, <1>4, <1>5
  <2>2. /\ k + c \in 1..Len(msgs)
        /\ msgs[k + c].kind = "tool" /\ msgs[k + c].answers = msgs[k].calls[c]
    BY <1>1, <1>5, <2>1 DEF Closed
  <2> QED
    BY <1>1, <1>3, <2>1, <2>2
<1>6. ASSUME NEW k \in DOMAIN more, more[k].kind = "tool"
      PROVE  \E i \in 1..(k - 1) : more[k].answers \in ToSet(more[i].calls)
  <2>1. k \in 1..Len(msgs) /\ more[k] = msgs[k]
    BY <1>1, <1>2, <1>6
  <2>2. PICK i \in 1..(k - 1) : msgs[k].answers \in ToSet(msgs[i].calls)
    BY <1>1, <1>6, <2>1 DEF Closed
  <2>3. i \in 1..Len(msgs)
    BY <1>1, <2>1
  <2> QED
    BY <1>1, <2>1, <2>2, <2>3
<1>7. Closed(more)
  BY <1>5, <1>6 DEF Closed
<1> QED
  BY <1>7 DEF more

\* An answer with the results of all its calls.
LEMMA ClosedByResults ==
  ASSUME NEW msgs \in Seq(MessageType), Closed(msgs),
         NEW m \in MessageType, m.kind # "tool",
         NEW results \in Seq(MessageType), Len(results) = Len(m.calls),
         \A c \in DOMAIN m.calls : /\ results[c].kind = "tool" /\ results[c].calls = <<>>
                                   /\ results[c].answers = m.calls[c]
  PROVE  Closed(Append(msgs, m) \o results)
<1> DEFINE n == Len(msgs)
           r == Len(results)
           more == Append(msgs, m) \o results
<1>0. m.calls \in Seq(CallType) /\ DOMAIN m.calls = 1..r
  BY DEF MessageType
<1>1. /\ n \in Nat /\ r \in Nat
      /\ DOMAIN msgs = 1..n /\ DOMAIN more = 1..(n + 1 + r)
      /\ \A k \in 1..n : more[k] = msgs[k]
      /\ more[n + 1] = m
      /\ \A c \in 1..r : more[n + 1 + c] = results[c]
  BY ONLY AppendedThen, msgs \in Seq(MessageType), m \in MessageType,
          results \in Seq(MessageType)
<1> HIDE DEF more, n, r
<1>2. ASSUME NEW k \in 1..(n + 1 + r)
      PROVE  \/ k \in 1..n
             \/ k = n + 1
             \/ k - (n + 1) \in 1..r /\ k = n + 1 + (k - (n + 1))
  BY <1>1
<1>3. \A k \in 1..n : k \in 1..(n + 1 + r)
  BY <1>1
<1>4. \A c \in 1..r : n + 1 + c \in 1..(n + 1 + r)
  BY <1>1
<1>5. ASSUME NEW k \in DOMAIN more, NEW c \in DOMAIN more[k].calls
      PROVE  /\ k + c \in DOMAIN more
             /\ more[k + c].kind = "tool" /\ more[k + c].answers = more[k].calls[c]
  <2>1. CASE k \in 1..n
    <3>1. /\ k + c \in 1..n
          /\ msgs[k + c].kind = "tool" /\ msgs[k + c].answers = msgs[k].calls[c]
      BY <1>1, <1>5, <2>1 DEF Closed
    <3> QED
      BY <1>1, <1>3, <2>1, <3>1
  <2>2. CASE k = n + 1
    <3>1. c \in 1..r /\ more[k].calls[c] = m.calls[c]
      BY <1>0, <1>1, <1>5, <2>2
    <3>2. k + c \in DOMAIN more /\ more[k + c] = results[c]
      BY <1>1, <1>4, <2>2, <3>1
    <3> QED
      BY <1>0, <3>1, <3>2
  <2>3. CASE k - (n + 1) \in 1..r /\ k = n + 1 + (k - (n + 1))
    <3>1. more[k] = results[k - (n + 1)]
      BY <1>1, <2>3
    <3>2. more[k].calls = <<>>
      BY <1>0, <2>3, <3>1
    <3>3. DOMAIN more[k].calls = {}
      BY <3>2
    <3> QED
      BY <1>5, <3>3
  <2> QED
    BY <1>1, <1>2, <1>5, <2>1, <2>2, <2>3
<1>6. ASSUME NEW k \in DOMAIN more, more[k].kind = "tool"
      PROVE  \E i \in 1..(k - 1) : more[k].answers \in ToSet(more[i].calls)
  <2>1. CASE k \in 1..n
    <3>1. PICK i \in 1..(k - 1) : msgs[k].answers \in ToSet(msgs[i].calls)
      BY <1>1, <1>6, <2>1 DEF Closed
    <3>2. i \in 1..n
      BY <1>1, <2>1
    <3> QED
      BY <1>1, <2>1, <3>1, <3>2
  <2>2. CASE k = n + 1
    BY <1>1, <1>6, <2>2
  <2>3. CASE k - (n + 1) \in 1..r /\ k = n + 1 + (k - (n + 1))
    <3>1. more[k] = results[k - (n + 1)]
      BY <1>1, <2>3
    <3>2. more[k].answers = m.calls[k - (n + 1)]
      BY <1>0, <2>3, <3>1
    <3>3. more[k].answers \in ToSet(more[n + 1].calls)
      BY <1>0, <1>1, <2>3, <3>2 DEF ToSet
    <3>4. n + 1 \in 1..(k - 1)
      BY <1>1, <2>3
    <3> QED
      BY <3>3, <3>4
  <2> QED
    BY <1>1, <1>2, <1>6, <2>1, <2>2, <2>3
<1>7. Closed(more)
  BY <1>5, <1>6 DEF Closed
<1> QED
  BY <1>7 DEF more

\* In a closed sequence no result is orphaned.
LEMMA NothingOrphaned ==
  ASSUME NEW msgs \in Seq(MessageType), Closed(msgs)
  PROVE  strip_orphaned_tool_messages(msgs) = msgs
<1> DEFINE known == {c.id : c \in UNION {ToSet(m.calls) : m \in ToSet(msgs)}}
           kept == {k \in DOMAIN msgs : msgs[k].kind # "tool" \/ msgs[k].answers.id \in known}
<1>1. strip_orphaned_tool_messages(msgs) = AtPlaces(msgs, kept)
  BY DEF strip_orphaned_tool_messages
<1>2. kept = DOMAIN msgs
  <2> SUFFICES ASSUME NEW k \in DOMAIN msgs, msgs[k].kind = "tool"
               PROVE  msgs[k].answers.id \in known
    OBVIOUS
  <2>1. PICK i \in 1..(k - 1) : msgs[k].answers \in ToSet(msgs[i].calls)
    BY DEF Closed
  <2>2. i \in DOMAIN msgs
    BY <2>1
  <2>3. msgs[i] \in ToSet(msgs)
    BY <2>2 DEF ToSet
  <2>4. msgs[k].answers \in UNION {ToSet(m.calls) : m \in ToSet(msgs)}
    BY <2>1, <2>3
  <2> QED
    BY <2>4
<1> HIDE DEF kept
<1>3. AtPlaces(msgs, kept) = msgs
  BY <1>2, Placed
<1> QED
  BY <1>1, <1>3

-----------------------------------------------------------------------------
(* What the steps of a turn do *)

\* The bounds are numbers, and what is yielded is an identity.
LEMMA Numbers ==
  /\ MaxIds \in Nat /\ MaxBatch \in Nat \ {0} /\ Parallel \in BOOLEAN
  /\ TypeOK => /\ ids \in Nat /\ Yielded \in 0..MaxIds
               /\ held.reply \in BOOLEAN /\ held.id \in 0..MaxIds
<1>1. MaxIds \in Nat /\ MaxBatch \in Nat \ {0} /\ Parallel \in BOOLEAN
  BY LimitsAssumption
<1> QED
  BY <1>1 DEF TypeOK, Yielded

\* The answer is apart from what the turn was before it.
LEMMA UnderJudgement ==
  ASSUME TypeOK, Answered, Judging
  PROVE  /\ Front(state) \in Seq(MessageType) /\ Answer \in MessageType
         /\ Answer.calls \in Seq(CallType) /\ Answer.kind = "ai"
         /\ state = Append(Front(state), Answer)
         /\ ToSet(state) = ToSet(Front(state)) \cup {Answer}
<1>1. state \in Seq(MessageType) /\ state # <<>> /\ Answer.kind = "ai"
  BY DEF TypeOK, Answered
<1>2. /\ Front(state) \in Seq(MessageType) /\ Answer \in MessageType
      /\ state = Append(Front(state), Answer)
      /\ ToSet(state) = ToSet(Front(state)) \cup {Answer}
  BY <1>1, FrontAndLast DEF Answer
<1> QED
  BY <1>1, <1>2 DEF MessageType

\* The model answers: its calls and what the deferrer made of them.
LEMMA ModelAnswers ==
  ASSUME TypeOK, Waiting, NEW targets \in Responses, NEW text \in BOOLEAN,
         llm_node(targets, text)
  PROVE  \E calls \in Seq(CallType), p \in CallType \cup {NoCall} :
           /\ AIMessage(ids + 1, text, calls) \in MessageType
           /\ state' = Append(state, AIMessage(ids + 1, text, calls))
           /\ Streamed(AIMessage(ids + 1, text, calls))
           /\ pending' = [pending EXCEPT ![active_agent] = p]
           /\ p # NoCall => Parallel /\ IsHandoff(p)
           /\ \/ \A c \in ToSet(calls) : IsHandoff(c)
              \/ \A c \in ToSet(calls) : IsOrdinary(c)
           /\ calls = <<>> \/ (\E c \in ToSet(calls) : IsHandoff(c)) => p = NoCall
           /\ pending[active_agent] # NoCall /\ p = NoCall
                => \E c \in ToSet(calls) : IsHandoff(c)
<1> DEFINE asked == [k \in DOMAIN targets |-> [id |-> <<ids + 1, k>>, to |-> targets[k]]]
           bound == bind_tools_sequential(pending[active_agent], asked)
           ai == AIMessage(ids + 1, text, bound.calls)
<1>1. ids + 1 \in 1..MaxIds /\ ids + 1 \in 0..MaxIds /\ MaxBatch \in Nat \ {0}
  BY Numbers DEF TypeOK, llm_node
<1>2. PICK n \in 0..(IF Parallel THEN MaxBatch ELSE 1) :
           targets \in [1..n -> Agents \cup {Nobody, Tool}]
  BY DEF Responses
<1>3. n \in Nat /\ n <= MaxBatch /\ (~Parallel => n <= 1)
  BY <1>1, Numbers
<1>4. asked \in Seq(CallType) /\ Len(asked) = n
  <2>1. \A k \in 1..n : [id |-> <<ids + 1, k>>, to |-> targets[k]] \in CallType
    <3> SUFFICES ASSUME NEW k \in 1..n
                 PROVE  [id |-> <<ids + 1, k>>, to |-> targets[k]] \in CallType
      OBVIOUS
    <3>1. k \in 1..MaxBatch
      BY <1>1, <1>3
    <3>2. <<ids + 1, k>> \in (1..MaxIds) \X (1..MaxBatch)
      BY <1>1, <3>1
    <3>3. targets[k] \in Agents \cup {Nobody, Tool}
      BY <1>2
    <3> QED
      BY <3>2, <3>3 DEF CallType
  <2>2. asked = [k \in 1..n |-> [id |-> <<ids + 1, k>>, to |-> targets[k]]]
    BY <1>2
  <2>3. asked \in [1..n -> CallType]
    BY <2>1, <2>2
  <2> HIDE DEF asked
  <2> QED
    BY <1>3, <2>3
<1>5. /\ pending[active_agent] \in CallType \cup {NoCall}
      /\ pending[active_agent] # NoCall => Parallel /\ IsHandoff(pending[active_agent])
  BY DEF TypeOK, Waiting
<1>6. ~Parallel => Len(asked) <= 1
  BY <1>3, <1>4
<1>7. /\ state' = Append(state, ai) /\ Streamed(ai)
      /\ pending' = [pending EXCEPT ![active_agent] = bound.pending]
  BY DEF llm_node
<1> HIDE DEF asked, bound
<1>8. bound = bind_tools_sequential(pending[active_agent], asked)
  BY DEF bound
<1>9. /\ bound.calls \in Seq(CallType) /\ bound.pending \in CallType \cup {NoCall}
      /\ bound.pending # NoCall => Parallel /\ IsHandoff(bound.pending)
      /\ \/ \A c \in ToSet(bound.calls) : IsHandoff(c)
         \/ \A c \in ToSet(bound.calls) : IsOrdinary(c)
      /\ bound.calls = <<>> \/ (\E c \in ToSet(bound.calls) : IsHandoff(c))
           => bound.pending = NoCall
      /\ pending[active_agent] # NoCall /\ bound.pending = NoCall
           => \E c \in ToSet(bound.calls) : IsHandoff(c)
  BY <1>4, <1>5, <1>6, <1>8, Deferred
<1>10. ai \in MessageType
  BY <1>1, <1>9, MessageTypes
<1> QED
  BY <1>7, <1>9, <1>10

\* A batch is answered, with errors or with results: no handover is among them.
LEMMA BatchIsAnswered ==
  ASSUME TypeOK, Answered, Deny \/ RunTools
  PROVE  /\ Judging /\ Answer.calls # <<>>
         /\ \E results \in Seq(MessageType) :
              /\ results # <<>> /\ Len(results) = Len(Answer.calls)
              /\ DOMAIN results = DOMAIN Answer.calls
              /\ \A c \in DOMAIN Answer.calls :
                   /\ results[c].kind = "tool" /\ results[c].calls = <<>>
                   /\ results[c].answers = Answer.calls[c] /\ results[c].id = 0
                   /\ ~Boundary(results[c], active_agent)
              /\ state' = state \o results
              /\ Last(state') \in ToSet(results)
              /\ Streamed(Last(state'))
<1>1. Judging /\ node \in {"gateway", "tools"} /\ Answer.calls # <<>>
  BY DEF Deny, RunTools, Judging, Answered
<1>2. Answer.calls \in Seq(CallType) /\ state \in Seq(MessageType)
  BY <1>1, UnderJudgement DEF TypeOK
<1>3. PICK ok \in BOOLEAN :
        /\ state' = state \o [k \in DOMAIN Answer.calls |-> ToolMessage(Answer.calls[k], ok)]
        /\ ok => Handoffs(Answer.calls) = <<>>
        /\ Streamed(Last(state'))
  <2>1. CASE Deny
    <3>1. state' = state \o [k \in DOMAIN Answer.calls |-> ToolMessage(Answer.calls[k], FALSE)]
      BY <2>1 DEF Deny, Answer
    <3> QED
      BY <2>1, <3>1 DEF Deny
  <2>2. CASE RunTools
    <3>1. state' = state \o [k \in DOMAIN Answer.calls |-> ToolMessage(Answer.calls[k], TRUE)]
      BY <2>2 DEF RunTools, Answer
    <3> QED
      BY <2>2, <3>1 DEF RunTools, Answer
  <2> QED
    BY <2>1, <2>2
<1> DEFINE results == [k \in DOMAIN Answer.calls |-> ToolMessage(Answer.calls[k], ok)]
<1>4. \A k \in DOMAIN Answer.calls :
        /\ ToolMessage(Answer.calls[k], ok) \in MessageType
        /\ results[k] = ToolMessage(Answer.calls[k], ok)
  <2>1. \A k \in DOMAIN Answer.calls : Answer.calls[k] \in CallType
    BY <1>2
  <2> QED
    BY <2>1, MessageTypes
<1>5. /\ results \in Seq(MessageType) /\ Len(results) = Len(Answer.calls)
      /\ DOMAIN results = DOMAIN Answer.calls /\ results # <<>>
  <2>1. /\ DOMAIN Answer.calls = 1..Len(Answer.calls)
        /\ Len(Answer.calls) \in Nat /\ Len(Answer.calls) # 0
    BY <1>1, <1>2
  <2>2. results \in [1..Len(Answer.calls) -> MessageType]
    BY <1>4, <2>1
  <2>3. DOMAIN results = DOMAIN Answer.calls
    OBVIOUS
  <2> HIDE DEF results
  <2> QED
    BY <2>1, <2>2, <2>3
<1>6. ASSUME NEW c \in DOMAIN Answer.calls
      PROVE  /\ results[c].kind = "tool" /\ results[c].calls = <<>>
             /\ results[c].answers = Answer.calls[c] /\ results[c].id = 0
             /\ ~Boundary(results[c], active_agent)
  <2>1. results[c] = ToolMessage(Answer.calls[c], ok)
    BY <1>4
  <2> HIDE DEF results
  <2>2. /\ results[c].kind = "tool" /\ results[c].calls = <<>> /\ results[c].id = 0
        /\ results[c].answers = Answer.calls[c] /\ results[c].ok = ok
    BY <2>1, MessageFields
  <2>3. ok => ~IsHandoff(Answer.calls[c])
    <3> DEFINE P == {k \in DOMAIN Answer.calls : IsHandoff(Answer.calls[k])}
    <3>1. P \in SUBSET DOMAIN Answer.calls /\ Handoffs(Answer.calls) = AtPlaces(Answer.calls, P)
      BY DEF Handoffs
    <3>2. c \in P <=> IsHandoff(Answer.calls[c])
      OBVIOUS
    <3> HIDE DEF P
    <3>3. AtPlaces(Answer.calls, P) = <<>> <=> P = {}
      BY <1>2, <3>1, Placed
    <3> QED
      BY <1>3, <3>1, <3>2, <3>3
  <2>4. active_agent # Tool
    BY AgentsAssumption DEF TypeOK
  <2> QED
    BY <2>2, <2>3, <2>4 DEF Boundary, IsHandoff
<1>7. state' = state \o results
  BY <1>3
<1> HIDE DEF results
<1>8. Last(state') = Last(results)
  BY <1>2, <1>5, <1>7, Concatenated
<1>9. Last(results) \in ToSet(results)
  <2>1. Len(results) \in DOMAIN results
    BY <1>5
  <2> QED
    BY <2>1 DEF Last, ToSet
<1> QED
  BY <1>1, <1>3, <1>5, <1>6, <1>7, <1>8, <1>9

\* A handover: the one message of the turn that the conversation keeps.
LEMMA HandsOver ==
  ASSUME TypeOK, Answered, transfer_to_agent
  PROVE  /\ Judging
         /\ \E h \in CallType :
              /\ h \in ToSet(Answer.calls) /\ IsHandoff(h) /\ h.to \in Agents
              /\ ToolMessage(h, TRUE) \in MessageType
              /\ messages' = Append(messages, ToolMessage(h, TRUE))
              /\ Last(messages') = ToolMessage(h, TRUE)
              /\ active_agent' = h.to
              /\ Streamed(ToolMessage(h, TRUE))
<1>1. Judging /\ node = "tools"
  BY DEF transfer_to_agent, Judging
<1>2. Answer.calls \in Seq(CallType) /\ messages \in Seq(MessageType)
  BY <1>1, UnderJudgement DEF TypeOK
<1> DEFINE handoffs == Handoffs(Answer.calls)
           P == {k \in DOMAIN Answer.calls : IsHandoff(Answer.calls[k])}
           h == Head(handoffs)
<1>3. /\ handoffs # <<>> /\ messages' = Append(messages, ToolMessage(h, TRUE))
      /\ active_agent' = h.to /\ Streamed(Last(messages'))
  BY DEF transfer_to_agent, Answer
<1>4. h \in CallType /\ h \in ToSet(Answer.calls) /\ IsHandoff(h)
  <2>1. P \in SUBSET DOMAIN Answer.calls /\ handoffs = AtPlaces(Answer.calls, P)
    BY DEF Handoffs
  <2>2. \A k \in P : k \in DOMAIN Answer.calls /\ IsHandoff(Answer.calls[k])
    OBVIOUS
  <2> HIDE DEF P, handoffs
  <2>3. /\ AtPlaces(Answer.calls, P) \in Seq(CallType)
        /\ \A n \in DOMAIN AtPlaces(Answer.calls, P) :
             \E k \in P : AtPlaces(Answer.calls, P)[n] = Answer.calls[k]
    BY <1>2, <2>1, Placed
  <2>4. handoffs[1] \in CallType /\ 1 \in DOMAIN handoffs /\ Head(handoffs) = handoffs[1]
    BY <1>3, <2>1, <2>3
  <2>5. PICK k \in P : handoffs[1] = Answer.calls[k]
    BY <2>1, <2>3, <2>4
  <2> QED
    BY <2>2, <2>4, <2>5 DEF ToSet
<1> HIDE DEF h
<1>5. h.to \in Agents
  <2>1. h.to \in Handovers[active_agent]
    BY <1>1, <1>4 DEF Answered
  <2> QED
    BY <2>1, AgentsAssumption DEF TypeOK
<1>6. ToolMessage(h, TRUE) \in MessageType
  BY <1>4, MessageTypes
<1>7. Last(messages') = ToolMessage(h, TRUE)
  BY <1>2, <1>3, <1>6, Appended
<1> QED
  BY <1>1, <1>3, <1>4, <1>5, <1>6, <1>7

-----------------------------------------------------------------------------
(* The invariant holds when the process starts *)

LEMMA InitInv == Init => Inv
<1> SUFFICES ASSUME Init PROVE Inv
  OBVIOUS
<1>1. node = "idle" /\ messages = <<>> /\ state = <<>> /\ ~Judging
  BY DEF Init, Judging
<1>2. TypeOK
  <2>1. 0 \in 0..MaxIds /\ <<>> \in Seq(MessageType) /\ Entry \in Agents
    BY Numbers, AgentsAssumption
  <2>2. pending \in [Agents -> CallType \cup {NoCall}]
    BY DEF Init
  <2>3. held \in [id: 0..MaxIds, reply: BOOLEAN]
    BY <2>1 DEF Init, NotHeld
  <2> QED
    BY <2>1, <2>2, <2>3 DEF Init, TypeOK
<1>3. Answered /\ Waiting /\ PendingIsCurrent
  BY <1>1 DEF Init, Answered, Waiting, PendingIsCurrent
<1>4. ToSet(messages) = {} /\ ToSet(state) = {}
  BY <1>1 DEF ToSet
<1>5. Identified /\ RejectedIsGone
  BY <1>1, <1>4 DEF Init, Identified, RejectedIsGone
<1>6. HeldBack /\ ReplyIsApprovedLastWord
  BY <1>1 DEF HeldBack, ReplyIsApprovedLastWord
<1>7. TurnsClosed
  <2>1. Turn(messages) = <<>> /\ Closed(<<>>)
    BY <1>1, EmptyTurn DEF Turn, Closed
  <2> QED
    BY <1>1, <2>1 DEF TurnsClosed
<1> QED
  BY <1>2, <1>3, <1>5, <1>6, <1>7 DEF Inv

-----------------------------------------------------------------------------
(* Every step keeps every part of it *)

LEMMA TypeKept == Inv /\ [Next]_vars => TypeOK'
<1> SUFFICES ASSUME Inv, [Next]_vars PROVE TypeOK'
  OBVIOUS
<1>0. TypeOK /\ Answered /\ Waiting /\ Identified
  BY DEF Inv
<1>1. /\ MaxIds \in Nat /\ ids \in Nat /\ 0 \in 0..MaxIds /\ ids <= MaxIds
      /\ ids < MaxIds => ids + 1 \in 1..MaxIds /\ ids + 1 \in 0..MaxIds
      /\ Yielded \in 0..MaxIds /\ NotHeld \in [id: 0..MaxIds, reply: BOOLEAN]
  BY <1>0, Numbers DEF TypeOK, NotHeld
<1>2. \A m \in MessageType : [id |-> m.id, reply |-> IsReply(m)] \in [id: 0..MaxIds, reply: BOOLEAN]
  BY DEF MessageType, IsReply
<1>3. \A s \in Seq(MessageType), m \in MessageType : Append(s, m) \in Seq(MessageType)
  OBVIOUS
<1>4. node = "response_gateway" => Last(state).id = ids /\ ids \in 1..MaxIds
  BY <1>0, <1>1 DEF Identified, Answer
<1>5. CASE NewConversation
  BY <1>0, <1>1, <1>5, AgentsAssumption DEF NewConversation, TypeOK
<1>6. CASE send_message
  <2>1. messages' \in Seq(MessageType)
    BY <1>0, <1>3, <1>6, MessageTypes DEF send_message, TypeOK
  <2> QED
    BY <1>0, <1>1, <1>6, <2>1 DEF send_message, TypeOK, history
<1>7. CASE EndTurn
  BY <1>0, <1>1, <1>7 DEF EndTurn, TypeOK, history
<1>8. CASE Abandon
  BY <1>0, <1>1, <1>8 DEF Abandon, TypeOK
<1>9. CASE \E targets \in Responses, text \in BOOLEAN : llm_node(targets, text)
  <2> PICK targets \in Responses, text \in BOOLEAN : llm_node(targets, text)
    BY <1>9
  <2>1. PICK calls \in Seq(CallType), p \in CallType \cup {NoCall} :
          /\ AIMessage(ids + 1, text, calls) \in MessageType
          /\ state' = Append(state, AIMessage(ids + 1, text, calls))
          /\ Streamed(AIMessage(ids + 1, text, calls))
          /\ pending' = [pending EXCEPT ![active_agent] = p]
    BY <1>0, ModelAnswers
  <2>2. state' \in Seq(MessageType)
    BY <1>0, <1>3, <2>1 DEF TypeOK
  <2>3. held' \in [id: 0..MaxIds, reply: BOOLEAN] /\ last_agent_message' \in 0..MaxIds
    BY <1>1, <1>2, <2>1 DEF Streamed
  <2>4. pending' \in [Agents -> CallType \cup {NoCall}]
    BY <1>0, <2>1 DEF TypeOK
  <2>5. /\ ids' = ids + 1 /\ ids < MaxIds /\ node' = "response_gateway"
        /\ UNCHANGED <<messages, active_agent, approved, rejected, aborted>>
    BY DEF llm_node, history
  <2> QED
    BY <1>0, <1>1, <2>2, <2>3, <2>4, <2>5 DEF TypeOK
<1>10. CASE PassUnjudged
  <2>1. /\ node' \in {"gateway", "end"}
        /\ UNCHANGED <<messages, active_agent, state, pending, held, last_agent_message,
                       ids, approved, rejected, aborted>>
    BY <1>10 DEF PassUnjudged, history
  <2> QED
    BY <1>0, <2>1 DEF TypeOK
<1>11. CASE Approve
  <2>1. approved' \subseteq 1..MaxIds
    BY <1>0, <1>4, <1>11 DEF Approve, TypeOK
  <2> QED
    BY <1>0, <1>11, <2>1 DEF Approve, TypeOK
<1>12. CASE Reject
  <2>1. Judging
    BY <1>12 DEF Reject, Judging
  <2>2. state' \in Seq(MessageType)
    BY <1>0, <1>3, <1>12, <2>1, UnderJudgement, MessageTypes DEF Reject
  <2>3. rejected' \subseteq 1..MaxIds
    BY <1>0, <1>4, <1>12 DEF Reject, TypeOK
  <2>4. last_agent_message' \in 0..MaxIds /\ held' \in [id: 0..MaxIds, reply: BOOLEAN]
    BY <1>0, <1>1, <1>12 DEF Reject, Rejection, TypeOK
  <2> QED
    BY <1>0, <1>12, <2>2, <2>3, <2>4 DEF Reject, TypeOK
<1>13. CASE FallBack
  <2>1. Judging /\ ids < MaxIds
    BY <1>13 DEF FallBack, Judging
  <2>2. state' \in Seq(MessageType)
    <3>1. AIMessage(ids + 1, TRUE, <<>>) \in MessageType
      <4>1. <<>> \in Seq(CallType)
        OBVIOUS
      <4> QED
        BY <1>1, <2>1, <4>1, MessageTypes
    <3> QED
      BY <1>0, <1>3, <1>13, <2>1, <3>1, UnderJudgement DEF FallBack
  <2>3. rejected' \subseteq 1..MaxIds /\ approved' \subseteq 1..MaxIds
    BY <1>0, <1>1, <1>4, <1>13, <2>1 DEF FallBack, TypeOK
  <2>4. last_agent_message' \in 0..MaxIds /\ held' \in [id: 0..MaxIds, reply: BOOLEAN]
    BY <1>0, <1>1, <1>13, <2>1 DEF FallBack, Rejection, TypeOK
  <2> QED
    BY <1>0, <1>1, <1>13, <2>1, <2>2, <2>3, <2>4 DEF FallBack, TypeOK
<1>14. CASE Allow
  BY <1>0, <1>14 DEF Allow, TypeOK, history
<1>15. CASE Deny \/ RunTools
  <2>1. PICK results \in Seq(MessageType) :
          /\ state' = state \o results
          /\ Last(state') \in ToSet(results)
          /\ Streamed(Last(state'))
    BY <1>0, <1>15, BatchIsAnswered
  <2>2. state' \in Seq(MessageType)
    BY <1>0, <2>1, Concatenated DEF TypeOK
  <2>3. Last(state') \in MessageType
    BY <2>1 DEF ToSet
  <2>4. held' \in [id: 0..MaxIds, reply: BOOLEAN] /\ last_agent_message' \in 0..MaxIds
    BY <1>1, <1>2, <2>1, <2>3 DEF Streamed
  <2>5. node' = "llm" /\ UNCHANGED <<messages, active_agent, pending, ids, history>>
    BY <1>15 DEF Deny, RunTools
  <2> QED
    BY <1>0, <2>2, <2>4, <2>5 DEF TypeOK, history
<1>16. CASE transfer_to_agent
  <2>1. PICK h \in CallType :
          /\ h.to \in Agents /\ ToolMessage(h, TRUE) \in MessageType
          /\ messages' = Append(messages, ToolMessage(h, TRUE))
          /\ active_agent' = h.to
          /\ Streamed(ToolMessage(h, TRUE))
    BY <1>0, <1>16, HandsOver
  <2>2. messages' \in Seq(MessageType)
    BY <1>0, <1>3, <2>1 DEF TypeOK
  <2>3. held' \in [id: 0..MaxIds, reply: BOOLEAN] /\ last_agent_message' \in 0..MaxIds
    BY <1>1, <1>2, <2>1 DEF Streamed
  <2>4. node' = "llm" /\ state' = messages' /\ UNCHANGED <<pending, ids, history>>
    BY <1>16 DEF transfer_to_agent
  <2> QED
    BY <1>0, <2>1, <2>2, <2>3, <2>4 DEF TypeOK, history
<1>17. CASE UNCHANGED vars
  BY <1>0, <1>17 DEF vars, history, TypeOK
<1> QED
  BY <1>5, <1>6, <1>7, <1>8, <1>9, <1>10, <1>11, <1>12, <1>13, <1>14, <1>15, <1>16, <1>17 DEF Next

\* An answer is judged as it was given, and only its own batch is carried out.
LEMMA AnsweredKept == Inv /\ [Next]_vars => Answered'
<1> SUFFICES ASSUME Inv, [Next]_vars PROVE Answered'
  OBVIOUS
<1>0. TypeOK /\ Answered /\ Waiting
  BY DEF Inv
<1>1. ASSUME node' \in {"idle", "llm"} PROVE Answered'
  BY <1>1 DEF Answered, Judging
<1>2. CASE NewConversation \/ send_message \/ EndTurn \/ Abandon \/ Reject \/ Deny \/ RunTools
           \/ transfer_to_agent
  BY <1>1, <1>2 DEF NewConversation, send_message, EndTurn, Abandon, Reject, Deny, RunTools,
                    transfer_to_agent
<1>3. CASE \E targets \in Responses, text \in BOOLEAN : llm_node(targets, text)
  <2> PICK targets \in Responses, text \in BOOLEAN : llm_node(targets, text)
    BY <1>3
  <2>1. PICK calls \in Seq(CallType), p \in CallType \cup {NoCall} :
          /\ AIMessage(ids + 1, text, calls) \in MessageType
          /\ state' = Append(state, AIMessage(ids + 1, text, calls))
          /\ \/ \A c \in ToSet(calls) : IsHandoff(c)
             \/ \A c \in ToSet(calls) : IsOrdinary(c)
    BY <1>0, ModelAnswers
  <2>2. state' # <<>> /\ Last(state') = AIMessage(ids + 1, text, calls)
    BY <1>0, <2>1, Appended DEF TypeOK
  <2>3. Last(state').kind = "ai" /\ Last(state').calls = calls
    BY <2>2, MessageFields
  <2>4. node' = "response_gateway"
    BY DEF llm_node
  <2> QED
    BY <2>1, <2>2, <2>3, <2>4 DEF Answered, Answer
<1>4. CASE PassUnjudged
  <2>1. /\ node = "response_gateway" /\ state' = state /\ active_agent' = active_agent
        /\ node' = IF Answer.calls # <<>> THEN "gateway" ELSE "end"
    BY <1>4 DEF PassUnjudged, Answer
  <2> QED
    BY <1>0, <2>1 DEF Answered, Answer, Judging
<1>5. CASE Approve
  <2>1. node = "response_gateway" /\ state' = state /\ node' = "end" /\ Answer.calls = <<>>
    BY <1>5 DEF Approve, Answer, IsReply
  <2> QED
    BY <1>0, <2>1 DEF Answered, Answer, Judging
<1>6. CASE FallBack
  <2>1. Judging /\ ids < MaxIds /\ node' = "end"
        /\ state' = Append(Front(state), AIMessage(ids + 1, TRUE, <<>>))
    BY <1>6 DEF FallBack, Judging
  <2>2. AIMessage(ids + 1, TRUE, <<>>) \in MessageType
    <3>1. <<>> \in Seq(CallType) /\ ids + 1 \in 0..MaxIds
      BY <1>0, <2>1, Numbers
    <3> QED
      BY <3>1, MessageTypes
  <2>3. state' # <<>> /\ Last(state') = AIMessage(ids + 1, TRUE, <<>>)
    <3>1. Front(state) \in Seq(MessageType)
      BY <1>0, <2>1, UnderJudgement
    <3> QED
      BY <2>1, <2>2, <3>1, MessageAppended
  <2>4. Last(state').kind = "ai" /\ Last(state').calls = <<>>
    BY <2>3 DEF AIMessage, Message
  <2>5. ToSet(<<>>) = {}
    BY DEF ToSet
  <2> QED
    BY <2>1, <2>3, <2>4, <2>5 DEF Answered, Answer
<1>7. CASE Allow
  <2>1. /\ node = "gateway" /\ node' = "tools" /\ state' = state /\ active_agent' = active_agent
        /\ \A c \in ToSet(Answer.calls) : IsHandoff(c) => c.to \in Handovers[active_agent]
    BY <1>7 DEF Allow, Answer, MayAllow, allowed_handover_targets
  <2> QED
    BY <1>0, <2>1 DEF Answered, Answer, Judging
<1>8. CASE UNCHANGED vars
  BY <1>0, <1>8 DEF vars, Answered, Answer, Judging
<1> QED
  BY <1>2, <1>3, <1>4, <1>5, <1>6, <1>7, <1>8 DEF Next

\* What waits gives way to a handoff, or is issued when the agent would stop.
LEMMA WaitingKept == Inv /\ [Next]_vars => Waiting'
<1> SUFFICES ASSUME Inv, [Next]_vars PROVE Waiting'
  OBVIOUS
<1>0. TypeOK /\ Answered /\ Waiting
  BY DEF Inv
<1>1. ASSUME node' \in {"idle", "llm"}, pending' = pending PROVE Waiting'
  BY <1>0, <1>1 DEF Waiting, Judging
<1>2. CASE NewConversation \/ send_message \/ EndTurn \/ Abandon \/ Reject \/ Deny \/ RunTools
           \/ transfer_to_agent
  BY <1>1, <1>2 DEF NewConversation, send_message, EndTurn, Abandon, Reject, Deny, RunTools,
                    transfer_to_agent
<1>3. CASE \E targets \in Responses, text \in BOOLEAN : llm_node(targets, text)
  <2> PICK targets \in Responses, text \in BOOLEAN : llm_node(targets, text)
    BY <1>3
  <2>1. PICK calls \in Seq(CallType), p \in CallType \cup {NoCall} :
          /\ AIMessage(ids + 1, text, calls) \in MessageType
          /\ state' = Append(state, AIMessage(ids + 1, text, calls))
          /\ pending' = [pending EXCEPT ![active_agent] = p]
          /\ p # NoCall => Parallel /\ IsHandoff(p)
          /\ calls = <<>> \/ (\E c \in ToSet(calls) : IsHandoff(c)) => p = NoCall
    BY <1>0, ModelAnswers
  <2>2. Last(state') = AIMessage(ids + 1, text, calls)
    BY <1>0, <2>1, Appended DEF TypeOK
  <2>3. Last(state').calls = calls
    BY <2>2, MessageFields
  <2>4. active_agent' = active_agent
    BY DEF llm_node
  <2>5. pending'[active_agent'] = p /\ \A a \in Agents : pending'[a] = p \/ pending'[a] = pending[a]
    BY <1>0, <2>1, <2>4 DEF TypeOK
  <2> QED
    BY <1>0, <2>1, <2>3, <2>5 DEF Waiting, Answer
<1>4. CASE PassUnjudged \/ Approve \/ Allow
  <2>1. /\ Judging /\ state' = state /\ active_agent' = active_agent /\ pending' = pending
    BY <1>4 DEF PassUnjudged, Approve, Allow, Judging
  <2> QED
    BY <1>0, <2>1 DEF Waiting, Answer
<1>5. CASE FallBack
  <2>1. Judging /\ active_agent' = active_agent /\ pending' = pending /\ Answer.calls = <<>>
    BY <1>5 DEF FallBack, Judging, IsReply, Answer
  <2> QED
    BY <1>0, <2>1 DEF Waiting
<1>6. CASE UNCHANGED vars
  BY <1>0, <1>6 DEF vars, Waiting, Answer, Judging
<1> QED
  BY <1>2, <1>3, <1>4, <1>5, <1>6 DEF Next

\* An agent that ends the turn or hands over has nothing that waits.
LEMMA PendingKept == Inv /\ [Next]_vars => PendingIsCurrent'
<1> SUFFICES ASSUME Inv, [Next]_vars, NEW a \in Agents, pending'[a] # NoCall
             PROVE  aborted' \/ (node' # "idle" /\ a = active_agent')
  BY DEF PendingIsCurrent
<1>0. TypeOK /\ Answered /\ Waiting /\ PendingIsCurrent
  BY DEF Inv
<1>1. pending[a] # NoCall => aborted \/ (node # "idle" /\ a = active_agent)
  BY <1>0 DEF PendingIsCurrent
<1>2. CASE NewConversation
  BY <1>1, <1>2 DEF NewConversation
<1>3. CASE send_message
  BY <1>1, <1>3 DEF send_message, history
<1>4. CASE EndTurn
  <2>1. Judging /\ Answer.calls = <<>>
    BY <1>0, <1>4 DEF EndTurn, Judging, Answered
  <2>2. pending[active_agent] = NoCall
    BY <1>0, <2>1 DEF Waiting
  <2> QED
    BY <1>1, <1>4, <2>2 DEF EndTurn, history
<1>5. CASE Abandon
  BY <1>5 DEF Abandon
<1>6. CASE \E targets \in Responses, text \in BOOLEAN : llm_node(targets, text)
  <2> PICK targets \in Responses, text \in BOOLEAN : llm_node(targets, text)
    BY <1>6
  <2>1. \E p : pending' = [pending EXCEPT ![active_agent] = p]
    BY DEF llm_node
  <2>2. a # active_agent => pending'[a] = pending[a]
    BY <1>0, <2>1 DEF TypeOK
  <2>3. node' # "idle" /\ active_agent' = active_agent /\ aborted' = aborted
    BY DEF llm_node, history
  <2> QED
    BY <1>1, <2>2, <2>3
<1>7. CASE PassUnjudged \/ Approve \/ Reject \/ FallBack \/ Allow \/ Deny \/ RunTools
  <2>1. /\ pending' = pending /\ active_agent' = active_agent /\ aborted' = aborted
        /\ node' # "idle"
    BY <1>7 DEF PassUnjudged, Approve, Reject, FallBack, Allow, Deny, RunTools, history
  <2> QED
    BY <1>1, <2>1
<1>8. CASE transfer_to_agent
  <2>1. Judging /\ \E h \in ToSet(Answer.calls) : IsHandoff(h)
    BY <1>0, <1>8, HandsOver
  <2>2. pending[active_agent] = NoCall
    BY <1>0, <2>1 DEF Waiting
  <2> QED
    BY <1>1, <1>8, <2>2 DEF transfer_to_agent, history
<1>9. CASE UNCHANGED vars
  BY <1>1, <1>9 DEF vars, history
<1> QED
  BY <1>2, <1>3, <1>4, <1>5, <1>6, <1>7, <1>8, <1>9 DEF Next

\* No text is judged twice: what is rejected is gone when its verdict is known.
LEMMA IdentifiedKept == Inv /\ [Next]_vars => Identified' /\ RejectedIsGone'
<1> SUFFICES ASSUME Inv, [Next]_vars PROVE Identified' /\ RejectedIsGone'
  OBVIOUS
<1>0. TypeOK /\ Answered /\ Waiting /\ Identified /\ RejectedIsGone /\ ids \in Nat
  BY Numbers DEF Inv
<1>1. /\ \A m \in ToSet(messages) \cup ToSet(state) : m.id <= ids /\ m.id \notin rejected
      /\ rejected \subseteq 1..ids
      /\ messages \in Seq(MessageType) /\ state \in Seq(MessageType)
  BY <1>0 DEF Identified, RejectedIsGone, TypeOK
<1>2. ToSet(<<>>) = {}
  BY DEF ToSet
<1>3. \A m \in MessageType : m.id \in Nat
  BY Numbers DEF MessageType
<1>4. \A s \in Seq(MessageType) : \A m \in ToSet(s) : m \in MessageType
  BY DEF ToSet
<1>5. ASSUME node' # "response_gateway", ids' = ids, rejected' = rejected,
             \A m \in ToSet(messages') \cup ToSet(state') :
                m \in ToSet(messages) \cup ToSet(state) \/ m.id = 0
      PROVE  Identified' /\ RejectedIsGone'
  <2>1. \A m \in ToSet(messages') \cup ToSet(state') : m.id <= ids' /\ m.id \notin rejected'
    BY <1>0, <1>1, <1>5
  <2> QED
    BY <1>1, <1>5, <2>1 DEF Identified, RejectedIsGone
<1>6. CASE NewConversation
  <2>1. /\ messages' = <<>> /\ state' = state /\ node' # "response_gateway"
        /\ ids' = ids /\ rejected' = rejected
    BY <1>6 DEF NewConversation
  <2> QED
    BY <1>2, <1>5, <2>1
<1>7. CASE send_message
  <2>1. /\ messages' = Append(messages, Message("user")) /\ state' = messages'
        /\ node' # "response_gateway" /\ ids' = ids /\ rejected' = rejected
    BY <1>7 DEF send_message, history
  <2>2. ToSet(messages') = ToSet(messages) \cup {Message("user")}
    BY <1>1, <2>1, MessageTypes, MessageAppended
  <2>3. Message("user").id = 0
    BY DEF Message
  <2> QED
    BY <1>5, <2>1, <2>2, <2>3
<1>8. CASE EndTurn \/ Abandon
  <2>1. /\ messages' = state \/ messages' = messages
        /\ state' = <<>> /\ node' # "response_gateway" /\ ids' = ids /\ rejected' = rejected
    BY <1>8 DEF EndTurn, Abandon, history
  <2> QED
    BY <1>2, <1>5, <2>1
<1>9. CASE \E targets \in Responses, text \in BOOLEAN : llm_node(targets, text)
  <2> PICK targets \in Responses, text \in BOOLEAN : llm_node(targets, text)
    BY <1>9
  <2>1. PICK calls \in Seq(CallType), p \in CallType \cup {NoCall} :
          /\ AIMessage(ids + 1, text, calls) \in MessageType
          /\ state' = Append(state, AIMessage(ids + 1, text, calls))
    BY <1>0, ModelAnswers
  <2>2. PICK ai \in MessageType : ai = AIMessage(ids + 1, text, calls)
    BY <2>1
  <2>3. ai.id = ids + 1
    BY <2>2, MessageFields
  <2>4. /\ Last(state') = ai /\ Front(state') = state /\ ToSet(state') = ToSet(state) \cup {ai}
    BY <1>1, <2>1, <2>2, MessageAppended
  <2>5. /\ messages' = messages /\ ids' = ids + 1 /\ rejected' = rejected
    BY DEF llm_node, history
  <2>6. \A m \in ToSet(messages') \cup ToSet(Front(state')) : m.id < ids'
    <3>1. \A m \in ToSet(messages) \cup ToSet(state) : m.id \in Nat
      BY <1>1, <1>3, <1>4
    <3> QED
      BY <1>0, <1>1, <2>4, <2>5, <3>1
  <2>7. \A r \in rejected' : r < ids' /\ r \in 1..ids'
    BY <1>0, <1>1, <2>5
  <2>8. \A m \in ToSet(messages') \cup ToSet(state') : m.id <= ids' /\ m.id \notin rejected'
    <3>1. ai.id <= ids' /\ ai.id \notin rejected'
      BY <1>0, <2>3, <2>5, <2>7
    <3>2. \A m \in ToSet(messages) \cup ToSet(state) : m.id <= ids' /\ m.id \notin rejected'
      <4>1. \A m \in ToSet(messages) \cup ToSet(state) : m.id \in Nat
        BY <1>1, <1>3, <1>4
      <4> QED
        BY <1>0, <1>1, <2>5, <4>1
    <3> QED
      BY <2>4, <2>5, <3>1, <3>2
  <2>9. 0 < ids' /\ Last(state').id = ids'
    BY <1>0, <2>3, <2>4, <2>5
  <2> QED
    BY <2>6, <2>7, <2>8, <2>9 DEF Identified, RejectedIsGone, Answer
<1>10. CASE PassUnjudged \/ Approve \/ Allow
  <2>1. /\ messages' = messages /\ state' = state /\ node' # "response_gateway"
        /\ ids' = ids /\ rejected' = rejected
    BY <1>10 DEF PassUnjudged, Approve, Allow, history
  <2> QED
    BY <1>5, <2>1
<1>11. ASSUME Reject \/ FallBack
       PROVE  /\ Judging /\ 0 < ids /\ Answer.id = ids /\ Front(state) \in Seq(MessageType)
              /\ \A m \in ToSet(messages) \cup ToSet(Front(state)) :
                   m.id \in Nat /\ m.id < ids /\ m.id \notin rejected
              /\ \A r \in rejected : r \in Nat /\ r < ids
              /\ messages' = messages /\ rejected' = rejected \cup {ids}
  <2>1. Judging /\ node = "response_gateway"
    BY <1>11 DEF Reject, FallBack, Judging
  <2>2. /\ 0 < ids /\ Answer.id = ids
        /\ \A m \in ToSet(messages) \cup ToSet(Front(state)) : m.id < ids
        /\ \A r \in rejected : r < ids
    BY <1>0, <2>1 DEF Identified
  <2>3. /\ Front(state) \in Seq(MessageType) /\ ToSet(Front(state)) \subseteq ToSet(state)
    BY <1>0, <2>1, UnderJudgement
  <2>4. messages' = messages /\ rejected' = rejected \cup {Answer.id}
    BY <1>11 DEF Reject, FallBack, Answer
  <2>5. \A m \in ToSet(messages) \cup ToSet(Front(state)) : m.id \in Nat /\ m.id \notin rejected
    BY <1>1, <1>3, <1>4, <2>3
  <2>6. \A r \in rejected : r \in Nat
    BY <1>0, <1>1
  <2> QED
    BY <2>1, <2>2, <2>3, <2>4, <2>5, <2>6
<1>12. CASE Reject
  <2>1. /\ state' = Append(Front(state), Message("correction"))
        /\ node' # "response_gateway" /\ ids' = ids
    BY <1>12 DEF Reject
  <2>2. ToSet(state') = ToSet(Front(state)) \cup {Message("correction")}
    BY <1>11, <1>12, <2>1, MessageTypes, MessageAppended
  <2>3. Message("correction").id = 0
    BY DEF Message
  <2>4. \A m \in ToSet(messages') \cup ToSet(state') : m.id <= ids' /\ m.id \notin rejected'
    <3>1. 0 <= ids' /\ 0 \notin rejected'
      BY <1>0, <1>1, <1>11, <1>12, <2>1
    <3>2. \A m \in ToSet(messages) \cup ToSet(Front(state)) :
            m.id <= ids' /\ m.id \notin rejected'
      BY <1>0, <1>11, <1>12, <2>1
    <3> QED
      BY <1>11, <1>12, <2>2, <2>3, <3>1, <3>2
  <2>5. rejected' \subseteq 1..ids'
    <3>1. rejected' = rejected \cup {ids} /\ ids \in 1..ids
      BY <1>0, <1>11, <1>12
    <3> QED
      BY <1>1, <2>1, <3>1
  <2> QED
    BY <2>1, <2>4, <2>5 DEF Identified, RejectedIsGone
<1>13. CASE FallBack
  <2>1. /\ state' = Append(Front(state), AIMessage(ids + 1, TRUE, <<>>))
        /\ node' # "response_gateway" /\ ids' = ids + 1 /\ ids < MaxIds
    BY <1>13 DEF FallBack
  <2>2. PICK ai \in MessageType : ai = AIMessage(ids + 1, TRUE, <<>>)
    <3>1. <<>> \in Seq(CallType) /\ ids + 1 \in 0..MaxIds
      BY <1>0, <2>1, Numbers
    <3> QED
      BY <3>1, MessageTypes
  <2>3. ai.id = ids + 1
    BY <2>2 DEF AIMessage, Message
  <2>4. ToSet(state') = ToSet(Front(state)) \cup {ai}
    BY <1>11, <1>13, <2>1, <2>2, MessageAppended
  <2>5. \A m \in ToSet(messages') \cup ToSet(state') : m.id <= ids' /\ m.id \notin rejected'
    <3>1. ai.id <= ids' /\ ai.id \notin rejected'
      BY <1>0, <1>11, <1>13, <2>1, <2>3
    <3>2. \A m \in ToSet(messages) \cup ToSet(Front(state)) :
            m.id <= ids' /\ m.id \notin rejected'
      BY <1>0, <1>11, <1>13, <2>1
    <3> QED
      BY <1>11, <1>13, <2>4, <3>1, <3>2
  <2>6. rejected' \subseteq 1..ids'
    <3>1. rejected' = rejected \cup {ids}
      BY <1>11, <1>13
    <3>2. ids \in 1..ids' /\ 1..ids \subseteq 1..ids'
      BY <1>0, <1>11, <1>13, <2>1
    <3> QED
      BY <1>1, <3>1, <3>2
  <2> QED
    BY <2>1, <2>5, <2>6 DEF Identified, RejectedIsGone
<1>14. CASE Deny \/ RunTools
  <2>1. PICK results \in Seq(MessageType) :
          /\ DOMAIN results = DOMAIN Answer.calls
          /\ \A c \in DOMAIN Answer.calls : results[c].id = 0
          /\ state' = state \o results
    BY <1>0, <1>14, BatchIsAnswered
  <2>2. \A m \in ToSet(results) : m.id = 0
    BY <2>1 DEF ToSet
  <2>3. ToSet(state') = ToSet(state) \cup ToSet(results)
    BY <1>1, <2>1, Concatenated
  <2>4. /\ messages' = messages /\ node' # "response_gateway"
        /\ ids' = ids /\ rejected' = rejected
    BY <1>14 DEF Deny, RunTools, history
  <2> QED
    BY <1>5, <2>2, <2>3, <2>4
<1>15. CASE transfer_to_agent
  <2>1. PICK h \in CallType :
          /\ ToolMessage(h, TRUE) \in MessageType
          /\ messages' = Append(messages, ToolMessage(h, TRUE))
    BY <1>0, <1>15, HandsOver
  <2>2. ToSet(messages') = ToSet(messages) \cup {ToolMessage(h, TRUE)}
    BY <1>1, <2>1, MessageAppended
  <2>3. ToolMessage(h, TRUE).id = 0
    BY DEF ToolMessage, Message
  <2>4. /\ state' = messages' /\ node' # "response_gateway"
        /\ ids' = ids /\ rejected' = rejected
    BY <1>15 DEF transfer_to_agent, history
  <2> QED
    BY <1>5, <2>2, <2>3, <2>4
<1>16. CASE UNCHANGED vars
  BY <1>0, <1>16 DEF vars, history, Identified, RejectedIsGone, Answer
<1> QED
  BY <1>6, <1>7, <1>8, <1>9, <1>10, <1>12, <1>13, <1>14, <1>15, <1>16 DEF Next

\* What the stream holds back is the answer under judgement, and it is given to
\* the customer when the turn ends, with its verdict.
LEMMA HeldKept == Inv /\ [Next]_vars => HeldBack' /\ ReplyIsApprovedLastWord'
<1> SUFFICES ASSUME Inv, [Next]_vars PROVE HeldBack' /\ ReplyIsApprovedLastWord'
  OBVIOUS
<1>0. /\ TypeOK /\ Answered /\ Waiting /\ HeldBack /\ ReplyIsApprovedLastWord
      /\ messages \in Seq(MessageType) /\ state \in Seq(MessageType)
  BY DEF Inv, TypeOK
<1>1. held.reply \in BOOLEAN /\ Yielded = IF held.reply THEN held.id ELSE last_agent_message
  BY <1>0, Numbers DEF Yielded
<1>2. node # "idle" =>
        /\ messages # <<>> /\ ~IsReply(Last(messages))
        /\ last_agent_message = 0
        /\ held.reply => node \in {"response_gateway", "end"} /\ IsReply(Answer)
        /\ node \in {"response_gateway", "end"} /\ IsReply(Answer) =>
              held = [id |-> Answer.id, reply |-> TRUE]
        /\ node = "end" /\ IsReply(Answer) => Answer.id \in approved
  BY <1>0 DEF HeldBack
<1>3. ASSUME node' = "idle", ReplyIsApprovedLastWord' PROVE HeldBack' /\ ReplyIsApprovedLastWord'
  BY <1>3 DEF HeldBack
<1>4. ASSUME node' # "idle", HeldBack' PROVE HeldBack' /\ ReplyIsApprovedLastWord'
  BY <1>4 DEF ReplyIsApprovedLastWord
<1>5. ASSUME node' \in {"llm", "gateway", "tools"}, messages' # <<>>, ~IsReply(Last(messages')),
             last_agent_message' = 0, ~held'.reply
      PROVE  HeldBack' /\ ReplyIsApprovedLastWord'
  BY <1>4, <1>5 DEF HeldBack
<1>6. \A m : m.kind # "ai" => ~IsReply(m)
  BY DEF IsReply
<1>7. CASE NewConversation
  <2>1. messages' = <<>> /\ node' = "idle"
    BY <1>7 DEF NewConversation
  <2> QED
    BY <1>3, <2>1 DEF ReplyIsApprovedLastWord
<1>8. CASE send_message
  <2>1. /\ messages' = Append(messages, Message("user")) /\ node' = "llm"
        /\ last_agent_message' = 0 /\ ~held'.reply
    BY <1>8 DEF send_message, NotHeld
  <2>2. messages' # <<>> /\ Last(messages') = Message("user")
    BY <1>0, <2>1, MessageTypes, MessageAppended
  <2>3. ~IsReply(Last(messages'))
    BY <2>2 DEF IsReply, Message
  <2> QED
    BY <1>5, <2>1, <2>2, <2>3
<1>9. CASE EndTurn
  <2>1. /\ node = "end" /\ messages' = state /\ node' = "idle"
        /\ last_agent_message' = Yielded /\ approved' = approved
    BY <1>9 DEF EndTurn, history
  <2>2. CASE IsReply(Answer)
    <3>1. held = [id |-> Answer.id, reply |-> TRUE] /\ Answer.id \in approved
      BY <1>2, <2>1, <2>2
    <3>2. last_agent_message' = Answer.id
      BY <1>1, <2>1, <3>1
    <3>3. ReplyIsApprovedLastWord'
      BY <2>1, <2>2, <3>1, <3>2 DEF ReplyIsApprovedLastWord, Answer
    <3> QED
      BY <1>3, <2>1, <3>3
  <2>3. CASE ~IsReply(Answer)
    <3>1. last_agent_message' = 0
      BY <1>1, <1>2, <2>1, <2>3
    <3>2. ReplyIsApprovedLastWord'
      BY <2>1, <2>3, <3>1 DEF ReplyIsApprovedLastWord, Answer
    <3> QED
      BY <1>3, <2>1, <3>2
  <2> QED
    BY <2>2, <2>3
<1>10. CASE Abandon
  <2>1. /\ node # "idle" /\ messages' = messages /\ node' = "idle" /\ last_agent_message' = 0
    BY <1>10 DEF Abandon
  <2>2. ReplyIsApprovedLastWord'
    BY <1>2, <2>1 DEF ReplyIsApprovedLastWord
  <2> QED
    BY <1>3, <2>1, <2>2
<1>11. CASE \E targets \in Responses, text \in BOOLEAN : llm_node(targets, text)
  <2> PICK targets \in Responses, text \in BOOLEAN : llm_node(targets, text)
    BY <1>11
  <2>1. PICK calls \in Seq(CallType), p \in CallType \cup {NoCall} :
          /\ AIMessage(ids + 1, text, calls) \in MessageType
          /\ state' = Append(state, AIMessage(ids + 1, text, calls))
          /\ Streamed(AIMessage(ids + 1, text, calls))
    BY <1>0, ModelAnswers
  <2>2. PICK ai \in MessageType : ai = AIMessage(ids + 1, text, calls)
    BY <2>1
  <2>3. Last(state') = ai
    BY <1>0, <2>1, <2>2, MessageAppended
  <2>4. /\ node = "llm" /\ node' = "response_gateway" /\ messages' = messages
    BY DEF llm_node
  <2>5. last_agent_message' = 0 /\ held' = [id |-> ai.id, reply |-> IsReply(ai)]
    BY <1>1, <1>2, <2>1, <2>2, <2>4 DEF Streamed
  <2>6. HeldBack'
    BY <1>2, <2>3, <2>4, <2>5 DEF HeldBack, Answer
  <2> QED
    BY <1>4, <2>4, <2>6
<1>12. CASE PassUnjudged
  <2>1. /\ node = "response_gateway" /\ ~IsReply(Answer) /\ state' = state /\ messages' = messages
        /\ held' = held /\ last_agent_message' = last_agent_message /\ node' \in {"gateway", "end"}
    BY <1>12 DEF PassUnjudged, Answer
  <2>2. HeldBack'
    BY <1>2, <2>1 DEF HeldBack, Answer
  <2> QED
    BY <1>4, <2>1, <2>2
<1>13. CASE Approve
  <2>1. /\ node = "response_gateway" /\ IsReply(Answer) /\ state' = state /\ messages' = messages
        /\ held' = held /\ last_agent_message' = last_agent_message /\ node' = "end"
        /\ approved' = approved \cup {Answer.id}
    BY <1>13 DEF Approve, Answer
  <2>2. HeldBack'
    BY <1>2, <2>1 DEF HeldBack, Answer
  <2> QED
    BY <1>4, <2>1, <2>2
<1>14. CASE Reject
  <2>1. /\ node = "response_gateway" /\ IsReply(Answer) /\ messages' = messages /\ node' = "llm"
        /\ held' = NotHeld
        /\ last_agent_message' = IF held.id = Answer.id THEN last_agent_message ELSE Yielded
    BY <1>14 DEF Reject, Rejection, Answer
  <2>2. last_agent_message' = 0 /\ ~held'.reply
    BY <1>2, <2>1 DEF NotHeld
  <2> QED
    BY <1>2, <1>5, <2>1, <2>2
<1>15. CASE FallBack
  <2>1. /\ node = "response_gateway" /\ IsReply(Answer) /\ messages' = messages /\ node' = "end"
        /\ held' = [id |-> ids + 1, reply |-> TRUE] /\ approved' = approved \cup {ids + 1}
        /\ last_agent_message' = IF held.id = Answer.id THEN last_agent_message ELSE Yielded
        /\ state' = Append(Front(state), AIMessage(ids + 1, TRUE, <<>>)) /\ ids < MaxIds
        /\ Judging
    BY <1>15 DEF FallBack, Rejection, Answer, Judging
  <2>2. last_agent_message' = 0
    BY <1>2, <2>1
  <2>3. PICK ai \in MessageType : ai = AIMessage(ids + 1, TRUE, <<>>)
    <3>1. <<>> \in Seq(CallType) /\ ids + 1 \in 0..MaxIds
      BY <1>0, <2>1, Numbers
    <3> QED
      BY <3>1, MessageTypes
  <2>4. Last(state') = ai
    <3>1. Front(state) \in Seq(MessageType)
      BY <1>0, <2>1, UnderJudgement
    <3> QED
      BY <2>1, <2>3, <3>1, MessageAppended
  <2>5. ai.id = ids + 1 /\ IsReply(ai)
    BY <2>3 DEF AIMessage, Message, IsReply
  <2>6. HeldBack'
    BY <1>2, <2>1, <2>2, <2>4, <2>5 DEF HeldBack, Answer
  <2> QED
    BY <1>4, <2>1, <2>6
<1>16. CASE Allow
  <2>1. /\ node = "gateway" /\ node' = "tools" /\ messages' = messages
        /\ held' = held /\ last_agent_message' = last_agent_message
    BY <1>16 DEF Allow
  <2> QED
    BY <1>2, <1>5, <2>1
<1>17. CASE Deny \/ RunTools
  <2>1. PICK results \in Seq(MessageType) :
          /\ DOMAIN results = DOMAIN Answer.calls
          /\ \A c \in DOMAIN Answer.calls : results[c].kind = "tool"
          /\ Last(state') \in ToSet(results)
          /\ Streamed(Last(state'))
    BY <1>0, <1>17, BatchIsAnswered
  <2>2. ~IsReply(Last(state'))
    <3>1. \A m \in ToSet(results) : m.kind = "tool"
      BY <2>1 DEF ToSet
    <3> QED
      BY <2>1, <3>1 DEF IsReply
  <2>3. node \in {"gateway", "tools"} /\ node' = "llm" /\ messages' = messages
    BY <1>17 DEF Deny, RunTools
  <2>4. last_agent_message' = 0 /\ ~held'.reply
    BY <1>1, <1>2, <2>1, <2>2, <2>3 DEF Streamed
  <2> QED
    BY <1>2, <1>5, <2>3, <2>4
<1>18. CASE transfer_to_agent
  <2>1. PICK h \in CallType :
          /\ ToolMessage(h, TRUE) \in MessageType
          /\ messages' = Append(messages, ToolMessage(h, TRUE))
          /\ Last(messages') = ToolMessage(h, TRUE)
          /\ Streamed(ToolMessage(h, TRUE))
    BY <1>0, <1>18, HandsOver
  <2>2. messages' # <<>>
    BY <1>0, <2>1, MessageAppended
  <2>3. ~IsReply(ToolMessage(h, TRUE))
    BY DEF IsReply, ToolMessage, Message
  <2>4. node = "tools" /\ node' = "llm"
    BY <1>18 DEF transfer_to_agent
  <2>5. last_agent_message' = 0 /\ ~held'.reply
    BY <1>1, <1>2, <2>1, <2>3, <2>4 DEF Streamed
  <2> QED
    BY <1>5, <2>1, <2>2, <2>3, <2>4, <2>5
<1>19. CASE UNCHANGED vars
  BY <1>0, <1>19 DEF vars, history, HeldBack, ReplyIsApprovedLastWord, Answer
<1> QED
  BY <1>7, <1>8, <1>9, <1>10, <1>11, <1>12, <1>13, <1>14, <1>15, <1>16, <1>17, <1>18, <1>19
     DEF Next

\* What an agent's turn holds stays closed.
LEMMA ClosedKept == Inv /\ [Next]_vars => TurnsClosed'
<1> SUFFICES ASSUME Inv, [Next]_vars PROVE TurnsClosed'
  OBVIOUS
<1> DEFINE turn(msgs) == current_turn_messages(msgs, active_agent)
<1>0. /\ TypeOK /\ Answered /\ Waiting
      /\ messages \in Seq(MessageType) /\ state \in Seq(MessageType)
  BY DEF Inv, TypeOK
<1>1. /\ Closed(turn(messages))
      /\ node = "llm" => Closed(turn(state))
      /\ Judging => Closed(turn(Front(state)))
  BY DEF Inv, TurnsClosed, Turn
<1>2. ASSUME /\ Closed(current_turn_messages(messages', active_agent'))
             /\ node' = "llm" => Closed(current_turn_messages(state', active_agent'))
             /\ Judging' => Closed(current_turn_messages(Front(state'), active_agent'))
      PROVE  TurnsClosed'
  BY <1>2 DEF TurnsClosed, Turn
<1>3. \A msgs \in Seq(MessageType), m \in MessageType :
        /\ turn(msgs) \in Seq(MessageType)
        /\ ~Boundary(m, active_agent) => turn(Append(msgs, m)) = Append(turn(msgs), m)
  BY TurnAppended
<1>4. ASSUME NEW msgs \in Seq(MessageType), NEW m \in MessageType,
             m.calls = <<>>, m.kind # "tool", Closed(turn(msgs))
      PROVE  Closed(turn(Append(msgs, m)))
  <2>1. turn(msgs) \in Seq(MessageType) /\ turn(Append(msgs, m)) = Append(turn(msgs), m)
    BY <1>3, <1>4 DEF Boundary
  <2> HIDE DEF turn
  <2> QED
    BY <1>4, <2>1, ClosedBySilence
<1>5. node' \in {"llm", "idle"} => ~Judging'
  BY DEF Judging
<1>6. CASE NewConversation
  <2>1. messages' = <<>> /\ node' = "idle"
    BY <1>6 DEF NewConversation
  <2>2. current_turn_messages(messages', active_agent') = <<>> /\ Closed(<<>>)
    BY <2>1, EmptyTurn DEF Closed
  <2> QED
    BY <1>2, <1>5, <2>1, <2>2
<1>7. CASE send_message
  <2>1. /\ messages' = Append(messages, Message("user")) /\ state' = messages' /\ node' = "llm"
        /\ active_agent' = active_agent
    BY <1>7 DEF send_message
  <2>2. Message("user").calls = <<>> /\ Message("user").kind # "tool"
    BY DEF Message
  <2>3. Closed(turn(messages'))
    BY <1>0, <1>1, <1>4, <2>1, <2>2, MessageTypes
  <2> QED
    BY <1>2, <1>5, <2>1, <2>3
<1>8. CASE EndTurn
  <2>1. /\ node = "end" /\ Judging /\ messages' = state /\ node' = "idle"
        /\ active_agent' = active_agent
    BY <1>8 DEF EndTurn, Judging
  <2>2. Answer.calls = <<>> /\ Answer.kind # "tool" /\ Closed(turn(Front(state)))
    BY <1>0, <1>1, <2>1 DEF Answered
  <2>3. PICK before \in Seq(MessageType), m \in MessageType :
          before = Front(state) /\ m = Answer /\ state = Append(before, m)
    BY <1>0, <2>1, UnderJudgement
  <2>4. Closed(turn(state))
    BY <1>4, <2>2, <2>3
  <2> QED
    BY <1>2, <1>5, <2>1, <2>4
<1>9. CASE Abandon
  <2>1. messages' = messages /\ node' = "idle" /\ active_agent' = active_agent
    BY <1>9 DEF Abandon
  <2> QED
    BY <1>1, <1>2, <1>5, <2>1
<1>10. CASE \E targets \in Responses, text \in BOOLEAN : llm_node(targets, text)
  <2> PICK targets \in Responses, text \in BOOLEAN : llm_node(targets, text)
    BY <1>10
  <2>1. PICK calls \in Seq(CallType), p \in CallType \cup {NoCall} :
          /\ AIMessage(ids + 1, text, calls) \in MessageType
          /\ state' = Append(state, AIMessage(ids + 1, text, calls))
    BY <1>0, ModelAnswers
  <2>2. Front(state') = state
    BY <1>0, <2>1, MessageAppended
  <2>3. /\ node = "llm" /\ node' = "response_gateway" /\ messages' = messages
        /\ active_agent' = active_agent
    BY DEF llm_node
  <2> QED
    BY <1>1, <1>2, <2>2, <2>3
<1>11. CASE PassUnjudged \/ Approve \/ Allow
  <2>1. /\ Judging /\ messages' = messages /\ state' = state /\ active_agent' = active_agent
        /\ node' # "llm"
    BY <1>11 DEF PassUnjudged, Approve, Allow, Judging
  <2> QED
    BY <1>1, <1>2, <2>1
<1>12. CASE Reject
  <2>1. /\ Judging /\ state' = Append(Front(state), Message("correction")) /\ node' = "llm"
        /\ messages' = messages /\ active_agent' = active_agent
    BY <1>12 DEF Reject, Judging
  <2>2. Message("correction").calls = <<>> /\ Message("correction").kind # "tool"
    BY DEF Message
  <2>3. PICK before \in Seq(MessageType) : before = Front(state) /\ Closed(turn(before))
    BY <1>0, <1>1, <2>1, UnderJudgement
  <2>4. Closed(turn(state'))
    BY <1>4, <2>1, <2>2, <2>3, MessageTypes
  <2> QED
    BY <1>1, <1>2, <1>5, <2>1, <2>4
<1>13. CASE FallBack
  <2>1. /\ Judging /\ state' = Append(Front(state), AIMessage(ids + 1, TRUE, <<>>))
        /\ node' = "end" /\ messages' = messages /\ active_agent' = active_agent /\ ids < MaxIds
    BY <1>13 DEF FallBack, Judging
  <2>2. AIMessage(ids + 1, TRUE, <<>>) \in MessageType
    <3>1. <<>> \in Seq(CallType) /\ ids + 1 \in 0..MaxIds
      BY <1>0, <2>1, Numbers
    <3> QED
      BY <3>1, MessageTypes
  <2>3. Front(state') = Front(state)
    <3>1. Front(state) \in Seq(MessageType)
      BY <1>0, <2>1, UnderJudgement
    <3> QED
      BY <2>1, <2>2, <3>1, MessageAppended
  <2> QED
    BY <1>1, <1>2, <2>1, <2>3
<1>14. CASE Deny \/ RunTools
  <2>1. PICK results \in Seq(MessageType) :
          /\ Judging /\ Len(results) = Len(Answer.calls)
          /\ DOMAIN results = DOMAIN Answer.calls
          /\ \A c \in DOMAIN Answer.calls :
               /\ results[c].kind = "tool" /\ results[c].calls = <<>>
               /\ results[c].answers = Answer.calls[c]
               /\ ~Boundary(results[c], active_agent)
          /\ state' = state \o results
    BY <1>0, <1>14, BatchIsAnswered
  <2>2. PICK before \in Seq(MessageType), m \in MessageType :
          /\ before = Front(state) /\ m = Answer /\ state = Append(before, m)
          /\ m.kind = "ai"
    BY <1>0, <2>1, UnderJudgement
  <2>3. Closed(turn(before))
    BY <1>1, <2>1, <2>2
  <2>4. turn(state) \in Seq(MessageType) /\ turn(before) \in Seq(MessageType)
    BY <1>0, <1>3, <2>2
  <2>5. turn(state) = Append(turn(before), m)
    BY <1>3, <2>2 DEF Boundary
  <2>6. turn(state \o results) = turn(state) \o results
    <3>1. \A c \in DOMAIN results : ~Boundary(results[c], active_agent)
      BY <2>1
    <3> QED
      BY <1>0, <3>1, TurnGoesOn
  <2>7. Closed(Append(turn(before), m) \o results)
    <3> HIDE DEF turn
    <3> QED
      BY <2>1, <2>2, <2>3, <2>4, ClosedByResults
  <2>8. Closed(current_turn_messages(state', active_agent))
    BY <2>1, <2>5, <2>6, <2>7
  <2>9. messages' = messages /\ active_agent' = active_agent /\ node' = "llm"
    BY <1>14 DEF Deny, RunTools
  <2> QED
    BY <1>1, <1>2, <1>5, <2>8, <2>9
<1>15. CASE transfer_to_agent
  <2>1. PICK h \in CallType :
          /\ ToolMessage(h, TRUE) \in MessageType
          /\ messages' = Append(messages, ToolMessage(h, TRUE))
          /\ active_agent' = h.to
    BY <1>0, <1>15, HandsOver
  <2>2. Boundary(ToolMessage(h, TRUE), h.to)
    BY DEF Boundary, ToolMessage, Message
  <2>3. current_turn_messages(messages', active_agent') = <<>>
    <3>1. PICK m \in MessageType : m = ToolMessage(h, TRUE)
      BY <2>1
    <3>2. \A msgs \in Seq(MessageType) : \A agent :
            Boundary(m, agent) => current_turn_messages(Append(msgs, m), agent) = <<>>
      BY TurnAppended
    <3> QED
      BY <1>0, <2>1, <2>2, <3>1, <3>2
  <2>4. state' = messages' /\ node' = "llm" /\ Closed(<<>>)
    BY <1>15 DEF transfer_to_agent, Closed
  <2> QED
    BY <1>2, <1>5, <2>3, <2>4
<1>16. CASE UNCHANGED vars
  <2>1. /\ messages' = messages /\ state' = state /\ active_agent' = active_agent /\ node' = node
    BY <1>16 DEF vars
  <2> QED
    BY <1>1, <1>2, <2>1 DEF Judging
<1> QED
  BY <1>6, <1>7, <1>8, <1>9, <1>10, <1>11, <1>12, <1>13, <1>14, <1>15, <1>16 DEF Next

-----------------------------------------------------------------------------
(* The theorems *)

\* The invariant is inductive: whatever the model and the judges answer, every
\* step of the swarm keeps it.
THEOREM Invariance == Spec => []Inv
<1>1. Init => Inv
  BY InitInv
<1>2. Inv /\ [Next]_vars => Inv'
  BY TypeKept, AnsweredKept, WaitingKept, PendingKept, IdentifiedKept, HeldKept, ClosedKept
     DEF Inv
<1> QED
  BY <1>1, <1>2, PTL DEF Spec

\* The variables keep their shape, and the swarm is never at an agent that the
\* model made up (shared_components.py, the targets of transfer_to_agent).
THEOREM TypeCorrect == Spec => []TypeOK
<1>1. Inv => TypeOK
  BY DEF Inv
<1> QED
  BY <1>1, Invariance, PTL

\* What the customer is given is the last word of the agent that ended the turn,
\* with the judges' approval or as the fallback (stream.py, conversation.py).
THEOREM CustomerGetsApprovedLastWord == Spec => []ReplyIsApprovedLastWord
<1>1. Inv => ReplyIsApprovedLastWord
  BY DEF Inv
<1> QED
  BY <1>1, Invariance, PTL

\* A rejected text is in no list of messages an agent may be shown later
\* (subgraph.py, response_gateway).
THEOREM RejectionIsFinal == Spec => []RejectedIsGone
<1>1. Inv => RejectedIsGone
  BY DEF Inv
<1> QED
  BY <1>1, Invariance, PTL

\* What a model is shown holds every call with its answer and no answer without
\* its call, after any denials, rejections, deferrals and handovers
\* (context_isolation.py, llm.py, subgraph.py).
THEOREM CallsStayAnswered == Spec => []CallsAnswered
<1>1. Inv => CallsAnswered
  <2> SUFFICES ASSUME Inv, node = "llm"
               PROVE  /\ \A k \in DOMAIN own_messages : \A c \in DOMAIN own_messages[k].calls :
                            /\ k + c \in DOMAIN own_messages
                            /\ own_messages[k + c].kind = "tool"
                            /\ own_messages[k + c].answers = own_messages[k].calls[c]
                      /\ \A k \in DOMAIN own_messages : own_messages[k].kind = "tool" =>
                            \E i \in 1..(k - 1) :
                               own_messages[k].answers \in ToSet(own_messages[i].calls)
    BY DEF CallsAnswered
  <2>1. Turn(state) \in Seq(MessageType) /\ Closed(Turn(state))
    <3>1. state \in Seq(MessageType) /\ Closed(Turn(state))
      BY DEF Inv, TypeOK, TurnsClosed
    <3>2. Message("user") \in MessageType
      BY MessageTypes
    <3> QED
      BY <3>1, <3>2, TurnAppended DEF Turn
  <2>2. own_messages = Turn(state)
    BY <2>1, NothingOrphaned DEF own_messages, Turn
  <2> QED
    BY <2>1, <2>2 DEF Closed
<1> QED
  BY <1>1, Invariance, PTL

\* A handoff that waits belongs to the visit under way, unless a turn was
\* abandoned (llm.py, _HandoffDeferrer).
THEOREM NoHandoffIsLeftBehind == Spec => []PendingIsCurrent
<1>1. Inv => PendingIsCurrent
  BY DEF Inv
<1> QED
  BY <1>1, Invariance, PTL

\* No tool runs in a batch that hands over, so that no result is lost with the
\* subgraph (llm.py, shared_components.py).  Several handoffs may share a batch.
THEOREM NoResultIsLost == Spec => []NoWorkBesideHandover
<1>1. Inv => NoWorkBesideHandover
  BY DEF Inv, Answered, Judging, NoWorkBesideHandover, Answer
<1> QED
  BY <1>1, Invariance, PTL

\* A handoff that waits ceases to wait only by a response that hands over, in
\* every step of every conversation (llm.py, _HandoffDeferrer).
THEOREM NoHandoffIsForgotten == Spec => DeferredIsIssued
<1>1. Inv /\ [Next]_vars =>
        [\A a \in Agents : (pending[a] # NoCall /\ pending'[a] = NoCall) =>
            \E c \in ToSet(Last(state').calls) : IsHandoff(c)]_vars
  <2> SUFFICES ASSUME Inv, Next, NEW a \in Agents, pending[a] # NoCall, pending'[a] = NoCall
               PROVE  \E c \in ToSet(Last(state').calls) : IsHandoff(c)
    OBVIOUS
  <2>0. TypeOK /\ Waiting
    BY DEF Inv
  <2>1. PICK targets \in Responses, text \in BOOLEAN : llm_node(targets, text)
    <3>1. pending' # pending
      OBVIOUS
    <3> QED
      BY <3>1 DEF Next, NewConversation, send_message, EndTurn, Abandon, PassUnjudged, Approve,
                  Reject, FallBack, Allow, Deny, RunTools, transfer_to_agent
  <2>2. PICK calls \in Seq(CallType), p \in CallType \cup {NoCall} :
          /\ AIMessage(ids + 1, text, calls) \in MessageType
          /\ state' = Append(state, AIMessage(ids + 1, text, calls))
          /\ pending' = [pending EXCEPT ![active_agent] = p]
          /\ pending[active_agent] # NoCall /\ p = NoCall => \E c \in ToSet(calls) : IsHandoff(c)
    BY <2>0, <2>1, ModelAnswers
  <2>3. a = active_agent /\ p = NoCall
    BY <2>0, <2>2 DEF TypeOK
  <2>4. Last(state') = AIMessage(ids + 1, text, calls)
    BY <2>0, <2>2, MessageAppended DEF TypeOK
  <2>5. Last(state').calls = calls
    BY <2>4, MessageFields
  <2> QED
    BY <2>2, <2>3, <2>5
<1> QED
  BY <1>1, Invariance, PTL DEF Spec, DeferredIsIssued
================================================================================
