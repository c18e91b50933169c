---------------------------- MODULE EventLogProofs ----------------------------
(***************************************************************************)
(* Proofs about EventLog, for any number of conversations, agents, turns,  *)
(* verdicts and rows.                                                      *)
(***************************************************************************)
EXTENDS EventLog, TLAPS, FiniteSetTheorems

Names == {"user_prompt", "call_llm", "execute_tool", "brew_completed", "gateway_decision"}

Resources == Agents \cup {"user", "coffee_machine"}

Tools == {Transfer, "start_preparation"}

Calls == [tool : Tools, to : Agents, id : Nat \X Nat]

\* Who writes a row of a name, and that only a span of tools names one of them
\* in the rows that are not the gateway's.
RowOK(r) ==
    /\ r \in [time : Nat, case : Cases, turn : Nat, name : Names, resource : Resources,
              message : BOOLEAN, tool : Tools \cup {"", "assistant_message"},
              to : Resources, call : Nat \X Nat, decision : Effects \cup {""}]
    /\ r.name = "user_prompt" => r.resource = "user" /\ r.tool = ""
    /\ r.name = "call_llm" => r.resource \in Agents /\ r.tool = ""
    /\ r.name = "execute_tool" => r.resource \in Agents /\ r.to \in Agents /\ r.tool \in Tools
    /\ r.name = "brew_completed" => r.resource = "coffee_machine" /\ r.tool = ""
    /\ r.name = "gateway_decision" => r.resource \in Agents /\ r.decision \in Effects

TypeOK ==
    /\ IsFiniteSet(log) /\ \A r \in log : RowOK(r)
    /\ clock \in Nat
    /\ conv \in [Cases -> [phase : {"waiting", "llm", "tools", "over"}, agent : Agents,
                           turn : Nat, batch : Seq(Calls)]]
    /\ \A c \in Cases : At(c, "tools") => conv[c].batch # << >>
    /\ brewing \subseteq Cases
    /\ overlapped \in BOOLEAN

\* A time stamp is one row's, and the next one after a row of a trace is free
\* for a feedback.
Stamped ==
    /\ \A r, q \in log : r.time = q.time => r = q
    /\ \A r \in log : r.time < clock
    /\ \A r \in log : OfTrace(r) => r.time + 1 < clock /\ \A q \in log : q.time # r.time + 1

\* The rows of traces are of turns that began.
Turned ==
    /\ \A c \in Cases : Running(c) => conv[c].turn >= 1
    /\ \A r \in log : OfTrace(r) => r.turn >= 1 /\ r.turn <= conv[r.case].turn

\* A conversation with a turn began with a prompt.
Prompted ==
    \A c \in Cases : conv[c].turn > 0 =>
        \E r \in log : r.name = "user_prompt" /\ r.case = c /\ r.turn = 1

\* The gateway judges what an agent's model said in the same turn.
Judged ==
    \A r \in log : Decision(r) =>
        \E q \in log : /\ q.name = "call_llm" /\ q.resource = r.resource
                       /\ q.case = r.case /\ q.turn = r.turn

\* A call that was denied neither ran nor will, and calls to come are others.
Unapproved ==
    /\ \A r \in log : r.name \in {"execute_tool", "gateway_decision"} => r.call[1] < clock
    /\ \A c \in Cases : \A k \in DOMAIN conv[c].batch : conv[c].batch[k].id[1] < clock
    /\ \A r \in log : Decision(r) /\ r.decision = "deny" =>
          /\ \A q \in log : q.name = "execute_tool" => q.call # r.call
          /\ \A c \in Cases : \A k \in DOMAIN conv[c].batch : conv[c].batch[k].id # r.call

\* r is a row of the turn under way.
Open(r) == OfTrace(r) /\ Running(r.case) /\ r.turn = conv[r.case].turn

\* The row of a trace that follows r, if all of them were in the table.
NextOfTrace(r, q) ==
    /\ OfTrace(q) /\ r.time < q.time
    /\ \A p \in log : OfTrace(p) => ~(r.time < p.time /\ p.time < q.time)

LastOfTrace(r) == \A q \in log : OfTrace(q) => q.time <= r.time

Moves(r) == r.name = "execute_tool" /\ r.tool = Transfer

\* One turn at a time.
OneTurn ==
    /\ \A c, d \in Cases : Running(c) /\ Running(d) => c = d
    /\ \A r, q \in log : Open(r) /\ OfTrace(q) /\ r.time < q.time =>
          q.case = r.case /\ q.turn = r.turn

\* After a transfer the agent it named has the word, or the turn ends.
Moved ==
    /\ \A r, q \in log : Moves(r) /\ NextOfTrace(r, q) =>
          \/ q.name = "user_prompt"
          \/ q.case = r.case /\ q.turn = r.turn /\ q.resource = r.to
    /\ \A r \in log : Moves(r) /\ LastOfTrace(r) =>
          \A c \in Cases : Running(c) =>
              c = r.case /\ conv[c].turn = r.turn /\ conv[c].agent = r.to

Alone == ~overlapped => OneTurn /\ Moved

IInv == TypeOK /\ Stamped /\ Turned /\ Prompted /\ Judged /\ Unapproved /\ Alone

-----------------------------------------------------------------------------
(* What a step writes *)

PromptRow(c) == [Row(c, "user_prompt", "user") EXCEPT !.turn = @ + 1]

ToolRow(c) ==
    [Row(c, "execute_tool", conv[c].agent) EXCEPT
        !.tool = conv[c].batch[1].tool, !.to = conv[c].batch[1].to, !.call = conv[c].batch[1].id]

BrewRow(c) == Row(c, "brew_completed", "coffee_machine")

\* The rows of a step have the time stamps that no row has yet.
Fresh(rows) ==
    /\ IsFiniteSet(rows)
    /\ \A r \in rows : RowOK(r) /\ r.time \in {clock, clock + 2, clock + 3}
    /\ \A r \in rows : OfTrace(r) => r.time = clock
    /\ \A r, q \in rows : r.time = q.time => r = q

\* The row of a prompt.
LEMMA PromptRowFacts ==
    ASSUME TypeOK, NEW c \in Cases
    PROVE  LET r == PromptRow(c)
           IN  /\ RowOK(r) /\ r.time = clock /\ r.case = c /\ r.turn = conv[c].turn + 1
               /\ r.name = "user_prompt"
<1>1. conv[c].turn \in Nat /\ clock \in Nat
  BY DEF TypeOK
<1>2. <<0, 0>> \in Nat \X Nat
  OBVIOUS
<1>3. PICK turn \in Nat : turn = conv[c].turn + 1
  BY <1>1
<1>4. Row(c, "user_prompt", "user").turn = conv[c].turn
  BY DEF Row
<1>5. PromptRow(c) = [Row(c, "user_prompt", "user") EXCEPT !.turn = turn]
  BY <1>3, <1>4 DEF PromptRow
<1>6. PICK r : r = PromptRow(c)
  OBVIOUS
<1>7. /\ r.time = clock /\ r.case = c /\ r.turn = turn /\ r.name = "user_prompt"
      /\ r.resource = "user" /\ r.tool = ""
  BY <1>5, <1>6 DEF Row
<1>8. RowOK(r)
  BY <1>1, <1>2, <1>5, <1>6, <1>7 DEF Row, RowOK, Names, Resources, Tools
<1> QED
  BY <1>3, <1>6, <1>7, <1>8

\* The row of what the model said.
LEMMA LlmRowFacts ==
    ASSUME TypeOK, NEW c \in Cases, NEW m \in BOOLEAN
    PROVE  LET r == LlmRow(c, m)
           IN  /\ RowOK(r) /\ r.time = clock /\ r.case = c /\ r.turn = conv[c].turn
               /\ r.name = "call_llm" /\ r.resource = conv[c].agent /\ r.decision = ""
<1>1. conv[c].turn \in Nat /\ clock \in Nat /\ conv[c].agent \in Agents
  BY DEF TypeOK
<1>2. <<0, 0>> \in Nat \X Nat
  OBVIOUS
<1> QED
  BY <1>1, <1>2 DEF LlmRow, Row, RowOK, Names, Resources, Tools

\* The row of a decision of the gateway.
LEMMA DecisionRowFacts ==
    ASSUME TypeOK, NEW c \in Cases, NEW call, NEW effect \in Effects,
           call.tool \in Tools \cup {"assistant_message"},
           NEW k \in {1, 2}, call.id = <<clock, k>>
    PROVE  LET r == DecisionRow(c, call, effect)
           IN  /\ RowOK(r) /\ r.time = clock + 1 + k /\ r.case = c /\ r.turn = conv[c].turn
               /\ r.name = "gateway_decision" /\ r.resource = conv[c].agent
               /\ r.decision = effect /\ r.call = call.id
<1>1. conv[c].turn \in Nat /\ clock \in Nat /\ conv[c].agent \in Agents
  BY DEF TypeOK
<1>2. call.id \in Nat \X Nat /\ call.id[2] = k
  BY <1>1
<1>3. <<0, 0>> \in Nat \X Nat
  OBVIOUS
<1>4. PICK time \in Nat : time = clock + 1 + k
  BY <1>1
<1>5. Row(c, "gateway_decision", conv[c].agent).time = clock
  BY DEF Row
<1>6. DecisionRow(c, call, effect) =
        [Row(c, "gateway_decision", conv[c].agent) EXCEPT
            !.time = time, !.tool = call.tool, !.call = call.id, !.decision = effect]
  BY <1>2, <1>4, <1>5 DEF DecisionRow
<1>7. PICK r : r = DecisionRow(c, call, effect)
  OBVIOUS
<1>8. /\ r.time = time /\ r.case = c /\ r.turn = conv[c].turn /\ r.name = "gateway_decision"
      /\ r.resource = conv[c].agent /\ r.decision = effect /\ r.call = call.id
  BY <1>6, <1>7 DEF Row
<1>9. RowOK(r)
  BY <1>1, <1>2, <1>3, <1>6, <1>7, <1>8 DEF Row, RowOK, Names, Resources, Tools
<1> QED
  BY <1>4, <1>7, <1>8, <1>9

\* The row of a batch that ran.
LEMMA ToolRowFacts ==
    ASSUME TypeOK, NEW c \in Cases, At(c, "tools")
    PROVE  LET r == ToolRow(c)
           IN  /\ RowOK(r) /\ r.time = clock /\ r.case = c /\ r.turn = conv[c].turn
               /\ r.name = "execute_tool" /\ r.resource = conv[c].agent
               /\ r.tool = conv[c].batch[1].tool /\ r.to = conv[c].batch[1].to
               /\ r.call = conv[c].batch[1].id
               /\ 1 \in DOMAIN conv[c].batch /\ conv[c].batch[1] \in Calls
<1>1. /\ conv[c].turn \in Nat /\ clock \in Nat /\ conv[c].agent \in Agents
      /\ conv[c].batch \in Seq(Calls) /\ conv[c].batch # << >>
  BY DEF TypeOK
<1>2. 1 \in DOMAIN conv[c].batch /\ conv[c].batch[1] \in Calls
  BY <1>1
<1>3. <<0, 0>> \in Nat \X Nat
  OBVIOUS
<1>4. PICK call \in Calls : call = conv[c].batch[1]
  BY <1>2
<1>5. call.tool \in Tools /\ call.to \in Agents /\ call.id \in Nat \X Nat
  BY DEF Calls
<1>6. ToolRow(c) = [Row(c, "execute_tool", conv[c].agent) EXCEPT
                       !.tool = call.tool, !.to = call.to, !.call = call.id]
  BY <1>4 DEF ToolRow
<1>7. /\ RowOK(ToolRow(c)) /\ ToolRow(c).time = clock /\ ToolRow(c).case = c
      /\ ToolRow(c).turn = conv[c].turn
      /\ ToolRow(c).name = "execute_tool" /\ ToolRow(c).resource = conv[c].agent
      /\ ToolRow(c).tool = call.tool /\ ToolRow(c).to = call.to /\ ToolRow(c).call = call.id
  BY <1>1, <1>3, <1>5, <1>6 DEF Row, RowOK, Names, Resources, Tools
<1> QED
  BY <1>2, <1>4, <1>7

\* The row of a brew.
LEMMA BrewRowFacts ==
    ASSUME TypeOK, NEW c \in Cases
    PROVE  LET r == BrewRow(c)
           IN  RowOK(r) /\ r.time = clock /\ r.case = c /\ r.name = "brew_completed"
<1>1. conv[c].turn \in Nat /\ clock \in Nat
  BY DEF TypeOK
<1>2. <<0, 0>> \in Nat \X Nat
  OBVIOUS
<1> QED
  BY <1>1, <1>2 DEF BrewRow, Row, RowOK, Names, Resources, Tools

\* A single row is fresh.
LEMMA SingleFresh ==
    ASSUME NEW r, RowOK(r), r.time = clock, clock \in Nat
    PROVE  Fresh({r})
BY FS_Singleton DEF Fresh

\* Fresh rows keep the table in shape.
LEMMA FreshWritten ==
    ASSUME TypeOK, Stamped, NEW rows, Fresh(rows), Write(rows)
    PROVE  /\ IsFiniteSet(log)' /\ (\A r \in log : RowOK(r))' /\ (clock \in Nat)'
           /\ Stamped'
<1>1. log' = log \cup rows /\ clock' = clock + 4 /\ clock \in Nat
  BY DEF Write, TypeOK
<1>2. IsFiniteSet(log')
  BY <1>1, FS_Union DEF TypeOK, Fresh
<1>3. \A r \in log' : RowOK(r)
  BY <1>1 DEF TypeOK, Fresh
<1>4. (\A r \in log : RowOK(r))'
  BY <1>3 DEF RowOK
<1>5. \A r \in log' : r.time \in Nat
  BY <1>3 DEF RowOK
<1>6. \A r \in log : r.time < clock
  BY DEF Stamped
<1>7. \A r \in rows : r.time \in {clock, clock + 2, clock + 3}
  BY DEF Fresh
<1>8. (\A r, q \in log : r.time = q.time => r = q)'
  <2> SUFFICES ASSUME NEW r \in log', NEW q \in log', r.time = q.time
               PROVE  r = q
    OBVIOUS
  <2>1. CASE r \in log /\ q \in log
    BY <2>1 DEF Stamped
  <2>2. CASE r \in rows /\ q \in rows
    BY <2>2 DEF Fresh
  <2>3. CASE r \in log /\ q \in rows
    BY <1>1, <1>5, <1>6, <1>7, <2>3
  <2>4. CASE r \in rows /\ q \in log
    BY <1>1, <1>5, <1>6, <1>7, <2>4
  <2> QED
    BY <1>1, <2>1, <2>2, <2>3, <2>4
<1>9. (\A r \in log : r.time < clock)'
  BY <1>1, <1>5, <1>6, <1>7
<1>10. (\A r \in log : OfTrace(r) => r.time + 1 < clock /\ \A q \in log : q.time # r.time + 1)'
  <2> SUFFICES ASSUME NEW r \in log', OfTrace(r)
               PROVE  r.time + 1 < clock' /\ \A q \in log' : q.time # r.time + 1
    BY DEF OfTrace
  <2>1. CASE r \in log
    <3>1. r.time + 1 < clock /\ \A q \in log : q.time # r.time + 1
      BY <2>1 DEF Stamped
    <3> QED
      BY <1>1, <1>5, <1>7, <3>1
  <2>2. CASE r \in rows
    <3>1. r.time = clock
      BY <2>2 DEF Fresh
    <3> QED
      BY <1>1, <1>5, <1>6, <1>7, <3>1
  <2> QED
    BY <1>1, <2>1, <2>2
<1> QED
  BY <1>1, <1>2, <1>4, <1>8, <1>9, <1>10 DEF Stamped
-----------------------------------------------------------------------------
(* The model speaks: an answer, an answer that is denied, or a batch *)

Convs == [Cases -> [phase : {"waiting", "llm", "tools", "over"}, agent : Agents,
                    turn : Nat, batch : Seq(Calls)]]

\* c's agent writes w, and with it come the decisions of the gateway.
Speaks(c, rows, w) ==
    /\ At(c, "llm") /\ Fresh(rows) /\ Write(rows)
    /\ w \in rows /\ w.name = "call_llm" /\ w.case = c /\ w.turn = conv[c].turn
    /\ w.resource = conv[c].agent
    /\ \A r \in rows : r # w =>
          /\ Decision(r) /\ r.case = c /\ r.turn = conv[c].turn /\ r.resource = conv[c].agent
          /\ r.call[1] = clock
    /\ conv' \in Convs
    /\ \A d \in Cases : conv'[d].agent = conv[d].agent /\ conv'[d].turn = conv[d].turn
    /\ \A d \in Cases : d # c => conv'[d] = conv[d]
    /\ conv'[c].phase = "tools" => conv'[c].batch # << >>
    /\ \/ conv'[c].batch = conv[c].batch
       \/ /\ \A k \in DOMAIN conv'[c].batch : conv'[c].batch[k].id[1] = clock
          /\ \A r \in rows : Decision(r) => r.decision # "deny"
    /\ brewing' = brewing /\ overlapped' = overlapped

LEMMA AnswerSpeaks ==
    ASSUME TypeOK, NEW c \in Cases, Answer(c)
    PROVE  \E rows, w : Speaks(c, rows, w)
<1>1. PICK w : w = LlmRow(c, TRUE)
  OBVIOUS
<1>2. PICK rows : rows = {w}
  OBVIOUS
<1>3. At(c, "llm") /\ Write(rows)
  BY <1>1, <1>2 DEF Answer
<1>4. /\ RowOK(w) /\ w.time = clock /\ w.case = c /\ w.turn = conv[c].turn
      /\ w.name = "call_llm" /\ w.resource = conv[c].agent
  BY <1>1, LlmRowFacts
<1>5. Fresh(rows)
  BY <1>2, <1>4, SingleFresh DEF TypeOK
<1>6. /\ conv' = [conv EXCEPT ![c].phase = "waiting"] /\ brewing' = brewing
      /\ overlapped' = overlapped /\ conv \in Convs
  BY DEF Answer, TypeOK, Convs
<1>7. conv' \in Convs
  BY <1>6 DEF Convs
<1>8. /\ \A d \in Cases : conv'[d].agent = conv[d].agent /\ conv'[d].turn = conv[d].turn
      /\ \A d \in Cases : d # c => conv'[d] = conv[d]
      /\ conv'[c].phase # "tools" /\ conv'[c].batch = conv[c].batch
  BY <1>6 DEF Convs
<1>9. Speaks(c, rows, w)
  BY <1>2, <1>3, <1>4, <1>5, <1>6, <1>7, <1>8 DEF Speaks
<1> QED
  BY <1>9

LEMMA AnswerDeniedSpeaks ==
    ASSUME TypeOK, NEW c \in Cases, AnswerDenied(c)
    PROVE  \E rows, w : Speaks(c, rows, w)
<1>1. PICK w : w = LlmRow(c, TRUE)
  OBVIOUS
<1>2. PICK call : call = [tool |-> "assistant_message", id |-> <<clock, 1>>]
  OBVIOUS
<1>3. PICK d : d = DecisionRow(c, call, "deny")
  OBVIOUS
<1>4. PICK rows : rows = {w, d}
  OBVIOUS
<1>5. At(c, "llm") /\ Write(rows)
  BY <1>1, <1>2, <1>3, <1>4 DEF AnswerDenied
<1>6. /\ RowOK(w) /\ w.time = clock /\ w.case = c /\ w.turn = conv[c].turn
      /\ w.name = "call_llm" /\ w.resource = conv[c].agent
  BY <1>1, LlmRowFacts
<1>7. call.tool = "assistant_message" /\ call.id = <<clock, 1>> /\ clock \in Nat
  BY <1>2 DEF TypeOK
<1>8. /\ RowOK(d) /\ d.time = clock + 2 /\ d.case = c /\ d.turn = conv[c].turn
      /\ d.name = "gateway_decision" /\ d.resource = conv[c].agent /\ d.call[1] = clock
  BY <1>3, <1>7, DecisionRowFacts DEF Effects
<1>9. IsFiniteSet(rows)
  <2>1. rows = {w} \cup {d}
    BY <1>4
  <2> QED
    BY <2>1, FS_Singleton, FS_Union
<1>10. Fresh(rows)
  BY <1>4, <1>6, <1>7, <1>8, <1>9 DEF Fresh, OfTrace
<1>11. conv' = conv /\ brewing' = brewing /\ overlapped' = overlapped /\ conv \in Convs
  BY DEF AnswerDenied, TypeOK, Convs
<1>12. conv[c].phase # "tools"
  BY <1>5 DEF At
<1>13. Speaks(c, rows, w)
  BY <1>4, <1>5, <1>6, <1>8, <1>10, <1>11, <1>12 DEF Speaks, Decision
<1> QED
  BY <1>13

\* A batch is a call or two, of tools there are.
LEMMA BatchFacts ==
    ASSUME NEW batch \in Batches
    PROVE  /\ \E n \in {1, 2} : DOMAIN batch = 1..n
           /\ \A k \in DOMAIN batch : batch[k].tool \in Tools /\ batch[k].to \in Agents
<1>1. ASSUME NEW a \in Agents, batch = <<[tool |-> Transfer, to |-> a]>>
      PROVE  DOMAIN batch = 1..1 /\ batch[1].tool = Transfer /\ batch[1].to = a
  BY <1>1
<1>2. ASSUME batch = [k \in 1..2 |-> [tool |-> "start_preparation", to |-> FirstAgent]]
      PROVE  /\ DOMAIN batch = 1..2
             /\ \A k \in 1..2 : batch[k].tool = "start_preparation" /\ batch[k].to = FirstAgent
  BY <1>2
<1> QED
  BY <1>1, <1>2, AgentsAssumption DEF Batches, Tools

LEMMA ProposeSpeaks ==
    ASSUME TypeOK, NEW c \in Cases, NEW batch \in Batches,
           NEW effects \in [DOMAIN batch -> Effects], Propose(c, batch, effects)
    PROVE  \E rows, w : Speaks(c, rows, w)
<1>2. PICK calls : calls = [k \in DOMAIN batch |-> [tool |-> batch[k].tool, to |-> batch[k].to,
                                                    id |-> <<clock, k>>]]
  OBVIOUS
<1>a. PICK text \in BOOLEAN :
         Write({LlmRow(c, text)} \cup {DecisionRow(c, calls[k], effects[k]) : k \in DOMAIN effects})
  BY <1>2 DEF Propose
<1>1. PICK w : w = LlmRow(c, text)
  OBVIOUS
<1>3. PICK judged : judged = {DecisionRow(c, calls[k], effects[k]) : k \in DOMAIN effects}
  OBVIOUS
<1>4. PICK rows : rows = {w} \cup judged
  OBVIOUS
<1>5. At(c, "llm") /\ Write(rows)
  BY <1>a, <1>1, <1>3, <1>4 DEF Propose
<1>6. /\ RowOK(w) /\ w.time = clock /\ w.case = c /\ w.turn = conv[c].turn
      /\ w.name = "call_llm" /\ w.resource = conv[c].agent
  BY <1>1, LlmRowFacts
<1>7. PICK n \in {1, 2} : DOMAIN batch = 1..n
  BY BatchFacts
<1>8. DOMAIN effects = 1..n /\ \A k \in 1..n : k \in {1, 2} /\ effects[k] \in Effects
  BY <1>7
<1>9. clock \in Nat
  BY DEF TypeOK
<1>10. \A k \in 1..n : /\ calls[k] \in Calls /\ calls[k].id = <<clock, k>>
                       /\ calls[k].id[1] = clock /\ calls[k].tool \in Tools
  <2> SUFFICES ASSUME NEW k \in 1..n
               PROVE  /\ calls[k] \in Calls /\ calls[k].id = <<clock, k>>
                      /\ calls[k].id[1] = clock /\ calls[k].tool \in Tools
    OBVIOUS
  <2>1. batch[k].tool \in Tools /\ batch[k].to \in Agents
    BY <1>7, BatchFacts
  <2>2. <<clock, k>> \in Nat \X Nat
    BY <1>8, <1>9
  <2>3. calls[k] = [tool |-> batch[k].tool, to |-> batch[k].to, id |-> <<clock, k>>]
    BY <1>2, <1>7
  <2> QED
    BY <2>1, <2>2, <2>3 DEF Calls
<1>11. \A k \in 1..n :
          LET r == DecisionRow(c, calls[k], effects[k])
          IN  /\ RowOK(r) /\ r.time = clock + 1 + k /\ r.case = c /\ r.turn = conv[c].turn
              /\ r.name = "gateway_decision" /\ r.resource = conv[c].agent
              /\ r.decision = effects[k] /\ r.call[1] = clock
  BY <1>8, <1>10, DecisionRowFacts
<1>12. \A r \in judged : \E k \in 1..n :
          /\ r = DecisionRow(c, calls[k], effects[k])
          /\ RowOK(r) /\ r.time = clock + 1 + k /\ r.case = c /\ r.turn = conv[c].turn
          /\ r.name = "gateway_decision" /\ r.resource = conv[c].agent
          /\ r.decision = effects[k] /\ r.call[1] = clock
  BY <1>3, <1>8, <1>11
<1>13. IsFiniteSet(rows)
  <2>1. PICK a, b : a = DecisionRow(c, calls[1], effects[1]) /\ b = DecisionRow(c, calls[2], effects[2])
    OBVIOUS
  <2>2. judged \in SUBSET ({a} \cup {b})
    BY <1>3, <1>8, <2>1
  <2>3. IsFiniteSet({a} \cup {b})
    BY FS_Singleton, FS_Union
  <2>4. IsFiniteSet(judged)
    BY <2>2, <2>3, FS_Subset
  <2> QED
    BY <1>4, <2>4, FS_Singleton, FS_Union
<1>14. Fresh(rows)
  <2>1. \A r \in judged : r.time \in {clock + 2, clock + 3} /\ RowOK(r) /\ ~OfTrace(r)
    BY <1>8, <1>9, <1>12 DEF OfTrace
  <2>2. ASSUME NEW r \in judged, NEW q \in judged, r.time = q.time
        PROVE  r = q
    <3>1. PICK k \in 1..n : r = DecisionRow(c, calls[k], effects[k]) /\ r.time = clock + 1 + k
      BY <1>12
    <3>2. PICK l \in 1..n : q = DecisionRow(c, calls[l], effects[l]) /\ q.time = clock + 1 + l
      BY <1>12
    <3>3. k = l
      BY <1>9, <1>8, <2>2, <3>1, <3>2
    <3> QED
      BY <3>1, <3>2, <3>3
  <2> QED
    BY <1>4, <1>6, <1>9, <1>13, <2>1, <2>2 DEF Fresh
<1>15. /\ brewing' = brewing /\ overlapped' = overlapped /\ conv \in Convs
       /\ conv' = IF Approved(effects)
                  THEN [conv EXCEPT ![c].phase = "tools", ![c].batch = calls]
                  ELSE conv
  BY <1>2 DEF Propose, TypeOK, Convs
<1>16. calls \in Seq(Calls) /\ calls # << >>
  <2>1. calls \in [1..n -> Calls] /\ n \in Nat
    BY <1>2, <1>7, <1>10
  <2>2. calls # << >>
    BY <1>7, <2>1
  <2> QED
    BY <2>1, <2>2
<1>17. CASE Approved(effects)
  <2>1. conv' = [conv EXCEPT ![c].phase = "tools", ![c].batch = calls]
    BY <1>15, <1>17
  <2>2. conv' \in Convs
    BY <1>15, <1>16, <2>1 DEF Convs
  <2>3. /\ \A d \in Cases : conv'[d].agent = conv[d].agent /\ conv'[d].turn = conv[d].turn
        /\ \A d \in Cases : d # c => conv'[d] = conv[d]
        /\ conv'[c].batch = calls
    BY <1>15, <2>1 DEF Convs
  <2>4. \A k \in DOMAIN calls : calls[k].id[1] = clock
    BY <1>2, <1>7, <1>10
  <2>5. \A r \in judged : r.decision # "deny"
    BY <1>8, <1>12, <1>17 DEF Approved
  <2>6. \A r \in rows : r # w => r \in judged
    BY <1>4
  <2>7. \A r \in rows : Decision(r) => r.decision # "deny"
    BY <1>6, <2>5, <2>6 DEF Decision
  <2>8. /\ conv'[c].batch # << >>
        /\ \A k \in DOMAIN conv'[c].batch : conv'[c].batch[k].id[1] = clock
    BY <1>16, <2>3, <2>4
  <2>9. \A r \in rows : r # w =>
          /\ Decision(r) /\ r.case = c /\ r.turn = conv[c].turn /\ r.resource = conv[c].agent
          /\ r.call[1] = clock
    BY <1>12, <2>6 DEF Decision
  <2>10. Speaks(c, rows, w)
    BY <1>4, <1>5, <1>6, <1>14, <1>15, <2>2, <2>3, <2>7, <2>8, <2>9 DEF Speaks
  <2> QED
    BY <2>10
<1>18. CASE ~Approved(effects)
  <2>1. conv' = conv
    BY <1>15, <1>18
  <2>2. conv[c].phase # "tools"
    BY <1>5 DEF At
  <2>3. \A r \in rows : r # w => r \in judged
    BY <1>4
  <2>4. Speaks(c, rows, w)
    BY <1>4, <1>5, <1>6, <1>12, <1>14, <1>15, <2>1, <2>2, <2>3 DEF Speaks, Decision
  <2> QED
    BY <2>4
<1> QED
  BY <1>17, <1>18
-----------------------------------------------------------------------------
(* The other steps *)

Prompts(c, w) ==
    /\ At(c, "waiting") /\ Fresh({w}) /\ Write({w})
    /\ w.name = "user_prompt" /\ w.case = c /\ w.turn = conv[c].turn + 1
    /\ conv' \in Convs /\ \A d \in Cases : d # c => conv'[d] = conv[d]
    /\ conv'[c].phase = "llm" /\ conv'[c].turn = conv[c].turn + 1
    /\ conv'[c].batch = conv[c].batch
    /\ brewing' = brewing /\ overlapped' = (overlapped \/ \E d \in Cases : Running(d))

RunsTools(c, w) ==
    /\ At(c, "tools") /\ Fresh({w}) /\ Write({w})
    /\ w.name = "execute_tool" /\ w.case = c /\ w.turn = conv[c].turn
    /\ w.resource = conv[c].agent /\ 1 \in DOMAIN conv[c].batch /\ w.call = conv[c].batch[1].id
    /\ conv' \in Convs /\ \A d \in Cases : d # c => conv'[d] = conv[d]
    /\ conv'[c].phase = "llm" /\ conv'[c].turn = conv[c].turn /\ conv'[c].batch = << >>
    /\ w.tool = Transfer => conv'[c].agent = w.to
    /\ brewing' \subseteq Cases /\ overlapped' = overlapped

Brews(c, w) ==
    /\ Fresh({w}) /\ Write({w}) /\ w.name = "brew_completed"
    /\ conv' = conv /\ brewing' \subseteq Cases /\ overlapped' = overlapped

Rests(c) ==
    /\ conv' \in Convs /\ \A d \in Cases : d # c => conv'[d] = conv[d]
    /\ conv'[c].phase \in {"waiting", "over"} /\ conv'[c].turn = conv[c].turn
    /\ conv'[c].batch = conv[c].batch
    /\ log' = log /\ clock' = clock /\ brewing' = brewing /\ overlapped' = overlapped

LEMMA PromptSteps ==
    ASSUME TypeOK, NEW c \in Cases, user_prompt(c)
    PROVE  \E w : Prompts(c, w)
<1>1. PICK w : w = PromptRow(c)
  OBVIOUS
<1>2. At(c, "waiting") /\ Write({w})
  BY <1>1 DEF user_prompt, PromptRow
<1>3. /\ RowOK(w) /\ w.time = clock /\ w.case = c /\ w.turn = conv[c].turn + 1
      /\ w.name = "user_prompt"
  BY <1>1, PromptRowFacts
<1>4. Fresh({w})
  BY <1>3, SingleFresh DEF TypeOK
<1>5. /\ conv' = [conv EXCEPT ![c].phase = "llm", ![c].turn = @ + 1] /\ conv \in Convs
      /\ brewing' = brewing /\ overlapped' = (overlapped \/ \E d \in Cases : Running(d))
  BY DEF user_prompt, TypeOK, Convs
<1>6. PICK turn \in Nat : turn = conv[c].turn + 1
  BY <1>5 DEF Convs
<1>7. conv' = [conv EXCEPT ![c].phase = "llm", ![c].turn = turn]
  BY <1>5, <1>6 DEF Convs
<1>8. conv' \in Convs
  BY <1>5, <1>7 DEF Convs
<1>9. /\ \A d \in Cases : d # c => conv'[d] = conv[d]
      /\ conv'[c].phase = "llm" /\ conv'[c].turn = turn /\ conv'[c].batch = conv[c].batch
  BY <1>5, <1>7 DEF Convs
<1>10. Prompts(c, w)
  BY <1>2, <1>3, <1>4, <1>5, <1>6, <1>8, <1>9 DEF Prompts
<1> QED
  BY <1>10

LEMMA ToolSteps ==
    ASSUME TypeOK, NEW c \in Cases, RunTools(c)
    PROVE  \E w : RunsTools(c, w)
<1>1. PICK w : w = ToolRow(c)
  OBVIOUS
<1>2. At(c, "tools") /\ Write({w})
  BY <1>1 DEF RunTools, ToolRow
<1>3. /\ RowOK(w) /\ w.time = clock /\ w.case = c /\ w.turn = conv[c].turn
      /\ w.name = "execute_tool" /\ w.resource = conv[c].agent
      /\ w.tool = conv[c].batch[1].tool /\ w.to = conv[c].batch[1].to
      /\ w.call = conv[c].batch[1].id /\ 1 \in DOMAIN conv[c].batch /\ conv[c].batch[1] \in Calls
  BY <1>1, <1>2, ToolRowFacts
<1>4. Fresh({w})
  BY <1>3, SingleFresh DEF TypeOK
<1>5. w.to \in Agents
  BY <1>3 DEF RowOK
<1>6. conv \in Convs /\ overlapped' = overlapped
  BY DEF RunTools, TypeOK, Convs
<1>7. brewing' \subseteq Cases
  BY DEF RunTools, TypeOK
<1>8. PICK agent \in Agents : agent = IF w.tool = Transfer THEN w.to ELSE conv[c].agent
  BY <1>5, <1>6 DEF Convs
<1>9. conv' = [conv EXCEPT ![c].phase = "llm", ![c].batch = << >>,
                           ![c].agent = IF w.tool = Transfer THEN w.to ELSE @]
  BY <1>3 DEF RunTools
<1>10. conv' = [conv EXCEPT ![c].phase = "llm", ![c].batch = << >>, ![c].agent = agent]
  BY <1>6, <1>8, <1>9 DEF Convs
<1>11. conv' \in Convs
  <2>1. << >> \in Seq(Calls)
    OBVIOUS
  <2> QED
    BY <1>6, <1>10, <2>1 DEF Convs
<1>12. /\ \A d \in Cases : d # c => conv'[d] = conv[d]
       /\ conv'[c].phase = "llm" /\ conv'[c].turn = conv[c].turn /\ conv'[c].batch = << >>
       /\ conv'[c].agent = agent
  BY <1>6, <1>10 DEF Convs
<1>13. RunsTools(c, w)
  BY <1>2, <1>3, <1>4, <1>6, <1>7, <1>8, <1>11, <1>12 DEF RunsTools
<1> QED
  BY <1>13

LEMMA BrewSteps ==
    ASSUME TypeOK, NEW c \in Cases, BrewEnds(c)
    PROVE  \E w : Brews(c, w)
<1>1. PICK w : w = BrewRow(c)
  OBVIOUS
<1>2. RowOK(w) /\ w.time = clock /\ w.name = "brew_completed"
  BY <1>1, BrewRowFacts
<1>3. Fresh({w})
  BY <1>2, SingleFresh DEF TypeOK
<1>4. Brews(c, w)
  BY <1>1, <1>2, <1>3 DEF BrewEnds, BrewRow, Brews, TypeOK
<1> QED
  BY <1>4

LEMMA RestSteps ==
    ASSUME TypeOK, NEW c \in Cases, Fail(c) \/ Finish(c)
    PROVE  Rests(c)
<1>1. PICK phase \in {"waiting", "over"} : conv' = [conv EXCEPT ![c].phase = phase]
  BY DEF Fail, Finish
<1>2. /\ log' = log /\ clock' = clock /\ brewing' = brewing /\ overlapped' = overlapped
      /\ conv \in Convs
  BY DEF Fail, Finish, TypeOK, Convs
<1>3. conv' \in Convs
  BY <1>1, <1>2 DEF Convs
<1>4. /\ \A d \in Cases : d # c => conv'[d] = conv[d]
      /\ conv'[c].phase = phase /\ conv'[c].turn = conv[c].turn
      /\ conv'[c].batch = conv[c].batch
  BY <1>1, <1>2 DEF Convs
<1> QED
  BY <1>1, <1>2, <1>3, <1>4 DEF Rests

\* What a step is.
LEMMA Steps ==
    ASSUME TypeOK, Next
    PROVE  \E c \in Cases : \/ \E rows, w : Speaks(c, rows, w)
                           \/ \E w : Prompts(c, w) \/ RunsTools(c, w) \/ Brews(c, w)
                           \/ Rests(c)
<1>1. PICK c \in Cases :
        \/ user_prompt(c) \/ Answer(c) \/ AnswerDenied(c) \/ Fail(c)
        \/ \E batch \in Batches : \E effects \in [DOMAIN batch -> Effects] :
               Propose(c, batch, effects)
        \/ RunTools(c) \/ BrewEnds(c) \/ Finish(c)
  BY DEF Next
<1>2. CASE Answer(c) \/ AnswerDenied(c)
  BY <1>2, AnswerSpeaks, AnswerDeniedSpeaks
<1>3. CASE \E batch \in Batches : \E effects \in [DOMAIN batch -> Effects] :
               Propose(c, batch, effects)
  BY <1>3, ProposeSpeaks
<1>4. CASE user_prompt(c)
  BY <1>4, PromptSteps
<1>5. CASE RunTools(c)
  BY <1>5, ToolSteps
<1>6. CASE BrewEnds(c)
  BY <1>6, BrewSteps
<1>7. CASE Fail(c) \/ Finish(c)
  BY <1>7, RestSteps
<1> QED
  BY <1>1, <1>2, <1>3, <1>4, <1>5, <1>6, <1>7

-----------------------------------------------------------------------------
(* The invariant is kept *)

LEMMA KeepsTypes ==
    ASSUME TypeOK, Stamped, Next
    PROVE  TypeOK' /\ Stamped'
<1>1. PICK c \in Cases : \/ \E rows, w : Speaks(c, rows, w)
                         \/ \E w : Prompts(c, w) \/ RunsTools(c, w) \/ Brews(c, w)
                         \/ Rests(c)
  BY Steps
<1>2. conv \in Convs /\ \A d \in Cases : conv[d].phase = "tools" => conv[d].batch # << >>
  BY DEF TypeOK, Convs, At
<1>3. /\ conv' \in Convs /\ brewing' \subseteq Cases /\ overlapped' \in BOOLEAN
      /\ \A d \in Cases : conv'[d].phase = "tools" => conv'[d].batch # << >>
  <2>1. ASSUME NEW rows, NEW w, Speaks(c, rows, w)
        PROVE  /\ conv' \in Convs /\ brewing' \subseteq Cases /\ overlapped' \in BOOLEAN
               /\ \A d \in Cases : conv'[d].phase = "tools" => conv'[d].batch # << >>
    BY <1>2, <2>1 DEF Speaks, TypeOK
  <2>2. ASSUME NEW w, Prompts(c, w)
        PROVE  /\ conv' \in Convs /\ brewing' \subseteq Cases /\ overlapped' \in BOOLEAN
               /\ \A d \in Cases : conv'[d].phase = "tools" => conv'[d].batch # << >>
    BY <1>2, <2>2 DEF Prompts, TypeOK
  <2>3. ASSUME NEW w, RunsTools(c, w)
        PROVE  /\ conv' \in Convs /\ brewing' \subseteq Cases /\ overlapped' \in BOOLEAN
               /\ \A d \in Cases : conv'[d].phase = "tools" => conv'[d].batch # << >>
    BY <1>2, <2>3 DEF RunsTools, TypeOK
  <2>4. ASSUME NEW w, Brews(c, w)
        PROVE  /\ conv' \in Convs /\ brewing' \subseteq Cases /\ overlapped' \in BOOLEAN
               /\ \A d \in Cases : conv'[d].phase = "tools" => conv'[d].batch # << >>
    BY <1>2, <2>4 DEF Brews, TypeOK
  <2>5. CASE Rests(c)
    BY <1>2, <2>5 DEF Rests, TypeOK
  <2> QED
    BY <1>1, <2>1, <2>2, <2>3, <2>4, <2>5
<1>4. /\ IsFiniteSet(log)' /\ (\A r \in log : RowOK(r))' /\ (clock \in Nat)'
      /\ Stamped'
  <2>1. ASSUME NEW rows, Fresh(rows), Write(rows)
        PROVE  /\ IsFiniteSet(log)' /\ (\A r \in log : RowOK(r))' /\ (clock \in Nat)'
               /\ Stamped'
    BY <2>1, FreshWritten
  <2>2. CASE log' = log /\ clock' = clock
    BY <2>2 DEF TypeOK, Stamped, RowOK
  <2> QED
    BY <1>1, <2>1, <2>2 DEF Speaks, Prompts, RunsTools, Brews, Rests
<1> QED
  BY <1>3, <1>4 DEF TypeOK, Convs, At
LEMMA KeepsTurned ==
    ASSUME TypeOK, Turned, Next
    PROVE  Turned'
<1>1. PICK c \in Cases : \/ \E rows, w : Speaks(c, rows, w)
                         \/ \E w : Prompts(c, w) \/ RunsTools(c, w) \/ Brews(c, w)
                         \/ Rests(c)
  BY Steps
<1>2. conv \in Convs /\ \A r \in log : RowOK(r)
  BY DEF TypeOK, Convs
<1>3. \A r \in log : r.case \in Cases /\ r.turn \in Nat
  BY <1>2 DEF RowOK
<1>4. \A d \in Cases : conv[d].turn \in Nat
  BY <1>2 DEF Convs
<1>5. /\ \A d \in Cases : Running(d) => conv[d].turn >= 1
      /\ \A r \in log : OfTrace(r) => r.turn >= 1 /\ r.turn <= conv[r.case].turn
  BY DEF Turned
<1> DEFINE Goal ==
        /\ \A d \in Cases : conv'[d].phase \in {"llm", "tools"} => conv'[d].turn >= 1
        /\ \A r \in log' : OfTrace(r) => r.turn >= 1 /\ r.turn <= conv'[r.case].turn
<1>6. SUFFICES Goal
  BY DEF Turned, Running, OfTrace
<1>7. ASSUME NEW rows, NEW w, Speaks(c, rows, w)
      PROVE  Goal
  <2>1. /\ log' = log \cup rows
        /\ \A d \in Cases : conv'[d].turn = conv[d].turn
        /\ \A d \in Cases : d # c => conv'[d] = conv[d]
        /\ Running(c) /\ w.case = c /\ w.turn = conv[c].turn
        /\ \A r \in rows : r # w => ~OfTrace(r)
    BY <1>7 DEF Speaks, Write, At, Running, Decision, OfTrace
  <2> QED
    BY <1>3, <1>4, <1>5, <2>1 DEF Running
<1>8. ASSUME NEW w, Prompts(c, w)
      PROVE  Goal
  <2>1. /\ log' = log \cup {w}
        /\ \A d \in Cases : d # c => conv'[d] = conv[d]
        /\ conv'[c].turn = conv[c].turn + 1 /\ w.case = c /\ w.turn = conv[c].turn + 1
    BY <1>8 DEF Prompts, Write
  <2> QED
    BY <1>3, <1>4, <1>5, <2>1 DEF Running
<1>9. ASSUME NEW w, RunsTools(c, w)
      PROVE  Goal
  <2>1. /\ log' = log \cup {w}
        /\ \A d \in Cases : d # c => conv'[d] = conv[d]
        /\ conv'[c].turn = conv[c].turn /\ w.case = c /\ w.turn = conv[c].turn
        /\ Running(c)
    BY <1>9 DEF RunsTools, Write, At, Running
  <2> QED
    BY <1>3, <1>4, <1>5, <2>1 DEF Running
<1>10. ASSUME NEW w, Brews(c, w)
       PROVE  Goal
  <2>1. log' = log \cup {w} /\ conv' = conv /\ ~OfTrace(w)
    BY <1>10 DEF Brews, Write, OfTrace
  <2> QED
    BY <1>5, <2>1 DEF Running
<1>11. CASE Rests(c)
  <2>1. /\ log' = log /\ \A d \in Cases : d # c => conv'[d] = conv[d]
        /\ conv'[c].phase \in {"waiting", "over"} /\ conv'[c].turn = conv[c].turn
    BY <1>11 DEF Rests
  <2> QED
    BY <1>3, <1>5, <2>1 DEF Running
<1> QED
  BY <1>1, <1>7, <1>8, <1>9, <1>10, <1>11

LEMMA KeepsPrompted ==
    ASSUME TypeOK, Prompted, Next
    PROVE  Prompted'
<1>1. PICK c \in Cases : \/ \E rows, w : Speaks(c, rows, w)
                         \/ \E w : Prompts(c, w) \/ RunsTools(c, w) \/ Brews(c, w)
                         \/ Rests(c)
  BY Steps
<1> DEFINE Goal ==
        \A d \in Cases : conv'[d].turn > 0 =>
           \E r \in log' : r.name = "user_prompt" /\ r.case = d /\ r.turn = 1
<1>2. SUFFICES Goal
  BY DEF Prompted
<1>3. ASSUME log \subseteq log', \A d \in Cases : conv'[d].turn = conv[d].turn
      PROVE  Goal
  BY <1>3 DEF Prompted
<1>4. ASSUME NEW w, Prompts(c, w)
      PROVE  Goal
  <2>1. /\ log' = log \cup {w} /\ \A d \in Cases : d # c => conv'[d] = conv[d]
        /\ w.name = "user_prompt" /\ w.case = c /\ w.turn = conv[c].turn + 1
    BY <1>4 DEF Prompts, Write
  <2>2. conv[c].turn \in Nat
    BY DEF TypeOK
  <2>3. \E r \in log' : r.name = "user_prompt" /\ r.case = c /\ r.turn = 1
    <3>1. CASE conv[c].turn = 0
      BY <2>1, <3>1
    <3>2. CASE conv[c].turn > 0
      BY <2>1, <3>2 DEF Prompted
    <3> QED
      BY <2>2, <3>1, <3>2
  <2> QED
    BY <2>1, <2>3 DEF Prompted
<1>5. ASSUME NEW rows, NEW w, Speaks(c, rows, w)
      PROVE  log \subseteq log' /\ \A d \in Cases : conv'[d].turn = conv[d].turn
  BY <1>5 DEF Speaks, Write
<1>6. ASSUME NEW w, RunsTools(c, w) \/ Brews(c, w)
      PROVE  log \subseteq log' /\ \A d \in Cases : conv'[d].turn = conv[d].turn
  BY <1>6 DEF RunsTools, Brews, Write
<1>7. CASE Rests(c)
  <2>1. log \subseteq log' /\ \A d \in Cases : conv'[d].turn = conv[d].turn
    BY <1>7 DEF Rests
  <2> QED
    BY <1>3, <2>1
<1> QED
  BY <1>1, <1>3, <1>4, <1>5, <1>6, <1>7

LEMMA KeepsJudged ==
    ASSUME TypeOK, Judged, Next
    PROVE  Judged'
<1>1. PICK c \in Cases : \/ \E rows, w : Speaks(c, rows, w)
                         \/ \E w : Prompts(c, w) \/ RunsTools(c, w) \/ Brews(c, w)
                         \/ Rests(c)
  BY Steps
<1> DEFINE Goal ==
        \A r \in log' : r.name = "gateway_decision" =>
           \E q \in log' : /\ q.name = "call_llm" /\ q.resource = r.resource
                          /\ q.case = r.case /\ q.turn = r.turn
<1>2. SUFFICES Goal
  BY DEF Judged, Decision
<1>3. ASSUME NEW rows, NEW w, Speaks(c, rows, w)
      PROVE  Goal
  <2>1. /\ log' = log \cup rows /\ w \in rows /\ w.name = "call_llm" /\ w.case = c
        /\ w.turn = conv[c].turn /\ w.resource = conv[c].agent
        /\ \A r \in rows : r # w =>
               r.case = c /\ r.turn = conv[c].turn /\ r.resource = conv[c].agent
    BY <1>3 DEF Speaks, Write
  <2> QED
    BY <2>1 DEF Judged, Decision
<1>4. ASSUME NEW w, log' = log \cup {w}, w.name # "gateway_decision"
      PROVE  Goal
  BY <1>4 DEF Judged, Decision
<1>5. ASSUME NEW w, Prompts(c, w) \/ RunsTools(c, w) \/ Brews(c, w)
      PROVE  log' = log \cup {w} /\ w.name # "gateway_decision"
  BY <1>5 DEF Prompts, RunsTools, Brews, Write
<1>6. CASE Rests(c)
  <2>1. log' = log
    BY <1>6 DEF Rests
  <2> QED
    BY <2>1 DEF Judged, Decision
<1> QED
  BY <1>1, <1>3, <1>4, <1>5, <1>6

LEMMA KeepsUnapproved ==
    ASSUME TypeOK, Unapproved, Next
    PROVE  Unapproved'
<1>1. PICK c \in Cases : \/ \E rows, w : Speaks(c, rows, w)
                         \/ \E w : Prompts(c, w) \/ RunsTools(c, w) \/ Brews(c, w)
                         \/ Rests(c)
  BY Steps
<1> DEFINE Goal ==
        /\ \A r \in log' : r.name \in {"execute_tool", "gateway_decision"} => r.call[1] < clock'
        /\ \A d \in Cases : \A k \in DOMAIN conv'[d].batch : conv'[d].batch[k].id[1] < clock'
        /\ \A r \in log' : r.name = "gateway_decision" /\ r.decision = "deny" =>
              /\ \A q \in log' : q.name = "execute_tool" => q.call # r.call
              /\ \A d \in Cases : \A k \in DOMAIN conv'[d].batch :
                     conv'[d].batch[k].id # r.call
<1>2. SUFFICES Goal
  BY DEF Unapproved, Decision
<1>3. /\ \A r \in log : r.name \in {"execute_tool", "gateway_decision"} => r.call[1] < clock
      /\ \A d \in Cases : \A k \in DOMAIN conv[d].batch : conv[d].batch[k].id[1] < clock
      /\ \A r \in log : r.name = "gateway_decision" /\ r.decision = "deny" =>
            /\ \A q \in log : q.name = "execute_tool" => q.call # r.call
            /\ \A d \in Cases : \A k \in DOMAIN conv[d].batch : conv[d].batch[k].id # r.call
  BY DEF Unapproved, Decision
<1>4. clock \in Nat /\ \A r \in log : r.call[1] \in Nat
  BY DEF TypeOK, RowOK
<1>5. \A d \in Cases : \A k \in DOMAIN conv[d].batch : conv[d].batch[k].id[1] \in Nat
  <2> TAKE d \in Cases
  <2> TAKE k \in DOMAIN conv[d].batch
  <2>1. conv[d].batch \in Seq(Calls)
    BY DEF TypeOK
  <2>2. conv[d].batch[k] \in Calls
    BY <2>1
  <2> QED
    BY <2>2 DEF Calls
<1>6. ASSUME NEW rows, NEW w, Speaks(c, rows, w)
      PROVE  Goal
  <2>1. /\ log' = log \cup rows /\ clock' = clock + 4 /\ w.name = "call_llm"
        /\ \A r \in rows : r # w => r.name = "gateway_decision" /\ r.call[1] = clock
        /\ \A d \in Cases : d # c => conv'[d] = conv[d]
    BY <1>6 DEF Speaks, Write, Decision
  <2>2. \/ conv'[c].batch = conv[c].batch
        \/ /\ \A k \in DOMAIN conv'[c].batch : conv'[c].batch[k].id[1] = clock
           /\ \A r \in rows : r.name = "gateway_decision" => r.decision # "deny"
    BY <1>6 DEF Speaks, Decision
  <2>3. \A r \in log' : r.name \in {"execute_tool", "gateway_decision"} => r.call[1] < clock'
    BY <1>3, <1>4, <2>1
  <2>4. \A d \in Cases : \A k \in DOMAIN conv'[d].batch :
            conv'[d].batch[k].id[1] \in Nat /\ conv'[d].batch[k].id[1] <= clock
    <3>1. \A d \in Cases : d # c => conv'[d].batch = conv[d].batch
      BY <2>1
    <3>2. \A d \in Cases : \A k \in DOMAIN conv[d].batch :
            conv[d].batch[k].id[1] \in Nat /\ conv[d].batch[k].id[1] <= clock
      BY <1>3, <1>4, <1>5
    <3>3. \A k \in DOMAIN conv'[c].batch :
            conv'[c].batch[k].id[1] \in Nat /\ conv'[c].batch[k].id[1] <= clock
      BY <1>4, <2>2, <3>2
    <3> QED
      BY <3>1, <3>2, <3>3
  <2>5. ASSUME NEW r \in log', r.name = "gateway_decision", r.decision = "deny"
        PROVE  /\ \A q \in log' : q.name = "execute_tool" => q.call # r.call
               /\ \A d \in Cases : \A k \in DOMAIN conv'[d].batch : conv'[d].batch[k].id # r.call
    <3>1. \A q \in log' : q.name = "execute_tool" => q \in log
      BY <2>1
    <3>2. CASE r \in log
      <4>1. r.call[1] < clock
        BY <1>3, <2>5, <3>2
      <4>2. \A d \in Cases : \A k \in DOMAIN conv[d].batch : conv[d].batch[k].id # r.call
        BY <1>3, <2>5, <3>2
      <4>3. \A k \in DOMAIN conv'[c].batch : conv'[c].batch[k].id # r.call
        BY <1>4, <2>2, <4>1, <4>2
      <4>4. \A d \in Cases : d # c => conv'[d].batch = conv[d].batch
        BY <2>1
      <4> QED
        BY <1>3, <2>5, <3>1, <3>2, <4>2, <4>3, <4>4
    <3>3. CASE r \in rows
      <4>1. r.call[1] = clock
        BY <2>1, <2>5, <3>3
      <4>2. conv'[c].batch = conv[c].batch
        BY <2>2, <2>5, <3>3
      <4>3. \A d \in Cases : conv'[d].batch = conv[d].batch
        BY <2>1, <4>2
      <4>4. \A d \in Cases : \A k \in DOMAIN conv'[d].batch : conv'[d].batch[k].id # r.call
        BY <1>3, <1>4, <4>1, <4>3
      <4> QED
        BY <1>3, <1>4, <3>1, <4>1, <4>4
    <3> QED
      BY <2>1, <3>2, <3>3
  <2> QED
    BY <1>4, <2>1, <2>3, <2>4, <2>5
<1>7. ASSUME NEW w, RunsTools(c, w)
      PROVE  Goal
  <2>1. /\ log' = log \cup {w} /\ clock' = clock + 4 /\ w.name = "execute_tool"
        /\ \A d \in Cases : d # c => conv'[d] = conv[d]
        /\ conv'[c].batch = << >> /\ 1 \in DOMAIN conv[c].batch /\ w.call = conv[c].batch[1].id
    BY <1>7 DEF RunsTools, Write
  <2>2. w.call[1] < clock /\ w.call[1] \in Nat
    BY <1>3, <1>5, <2>1
  <2>3. \A d \in Cases : \A k \in DOMAIN conv'[d].batch :
            k \in DOMAIN conv[d].batch /\ conv'[d].batch[k] = conv[d].batch[k]
    BY <2>1
  <2>4. \A r \in log' : r.name = "gateway_decision" => r \in log
    BY <2>1
  <2>5. \A r \in log : r.name = "gateway_decision" /\ r.decision = "deny" => w.call # r.call
    BY <1>3, <2>1
  <2>6. \A r \in log' : r.name \in {"execute_tool", "gateway_decision"} => r.call[1] < clock'
    BY <1>3, <1>4, <2>1, <2>2
  <2>7. \A d \in Cases : \A k \in DOMAIN conv'[d].batch : conv'[d].batch[k].id[1] < clock'
    BY <1>3, <1>4, <1>5, <2>1, <2>3
  <2>8. ASSUME NEW r \in log', r.name = "gateway_decision", r.decision = "deny"
        PROVE  /\ \A q \in log' : q.name = "execute_tool" => q.call # r.call
               /\ \A d \in Cases : \A k \in DOMAIN conv'[d].batch : conv'[d].batch[k].id # r.call
    BY <1>3, <2>1, <2>3, <2>4, <2>5, <2>8
  <2> QED
    BY <2>6, <2>7, <2>8
<1>8. ASSUME NEW w, log' = log \cup {w}, clock' = clock + 4,
             w.name \notin {"execute_tool", "gateway_decision"},
             \A d \in Cases : conv'[d].batch = conv[d].batch
      PROVE  Goal
  <2>1. \A r \in log' : r.name \in {"execute_tool", "gateway_decision"} => r \in log
    BY <1>8
  <2> QED
    BY <1>3, <1>4, <1>5, <1>8, <2>1
<1>9. ASSUME NEW w, Prompts(c, w) \/ Brews(c, w)
      PROVE  /\ log' = log \cup {w} /\ clock' = clock + 4
             /\ w.name \notin {"execute_tool", "gateway_decision"}
             /\ \A d \in Cases : conv'[d].batch = conv[d].batch
  BY <1>9 DEF Prompts, Brews, Write
<1>10. CASE Rests(c)
  <2>1. log' = log /\ clock' = clock /\ \A d \in Cases : conv'[d].batch = conv[d].batch
    BY <1>10 DEF Rests
  <2> QED
    BY <1>3, <2>1
<1> QED
  BY <1>1, <1>6, <1>7, <1>8, <1>9, <1>10
\* What OneTurn and Moved say after a step, without their defined names.
LEMMA AlonePrimed ==
    ASSUME \A d, e \in Cases : /\ conv'[d].phase \in {"llm", "tools"}
                              /\ conv'[e].phase \in {"llm", "tools"} => d = e,
           \A r, q \in log' :
               /\ OfTrace(r) /\ conv'[r.case].phase \in {"llm", "tools"}
               /\ r.turn = conv'[r.case].turn /\ OfTrace(q) /\ r.time < q.time
               => q.case = r.case /\ q.turn = r.turn,
           \A r, q \in log' :
               /\ Moves(r) /\ OfTrace(q) /\ r.time < q.time
               /\ \A p \in log' : OfTrace(p) => ~(r.time < p.time /\ p.time < q.time)
               => \/ q.name = "user_prompt"
                  \/ q.case = r.case /\ q.turn = r.turn /\ q.resource = r.to,
           \A r \in log' : Moves(r) /\ (\A q \in log' : OfTrace(q) => q.time <= r.time) =>
               \A d \in Cases : conv'[d].phase \in {"llm", "tools"} =>
                   d = r.case /\ conv'[d].turn = r.turn /\ conv'[d].agent = r.to
    PROVE  OneTurn' /\ Moved'
<1>1. OneTurn'
  BY DEF OneTurn, Open, Running, OfTrace
<1>2. Moved'
  BY DEF Moved, Moves, NextOfTrace, LastOfTrace, Running, OfTrace
<1> QED
  BY <1>1, <1>2

\* The conversation whose turn it is writes a row of its trace.
LEMMA TurnRow ==
    ASSUME TypeOK, Stamped, OneTurn, Moved,
           NEW c \in Cases, NEW rows, NEW w \in rows, Fresh(rows), log' = log \cup rows,
           OfTrace(w), \A r \in rows : r # w => ~OfTrace(r),
           Running(c), w.case = c, w.turn = conv[c].turn, w.resource = conv[c].agent,
           \A d \in Cases : d # c => conv'[d] = conv[d],
           conv'[c].turn = conv[c].turn, Moves(w) => conv'[c].agent = w.to
    PROVE  OneTurn' /\ Moved'
<1>1. clock \in Nat /\ w.time = clock
  BY DEF Fresh, TypeOK
<1>2. \A r \in log : r.time < clock /\ r.time \in Nat /\ r.case \in Cases
  BY DEF Stamped, TypeOK, RowOK
<1>3. \A r \in log' : OfTrace(r) => r = w \/ r \in log
  OBVIOUS
<1>4. \A r \in log' : Moves(r) => OfTrace(r)
  BY DEF Moves, OfTrace
<1>5. \A d \in Cases : conv'[d].phase \in {"llm", "tools"} => d = c
  BY DEF OneTurn, Running
<1>6. ASSUME NEW r \in log', NEW q \in log', OfTrace(r), conv'[r.case].phase \in {"llm", "tools"},
             r.turn = conv'[r.case].turn, OfTrace(q), r.time < q.time
      PROVE  q.case = r.case /\ q.turn = r.turn
  <2>1. r \in log /\ r.case = c
    BY <1>1, <1>2, <1>3, <1>5, <1>6
  <2>2. CASE q = w
    BY <1>6, <2>1, <2>2
  <2>3. CASE q \in log
    <3>1. Open(r)
      BY <1>6, <2>1 DEF Open
    <3> QED
      BY <1>6, <2>1, <2>3, <3>1 DEF OneTurn
  <2> QED
    BY <1>3, <1>6, <2>2, <2>3
<1>7. ASSUME NEW r \in log', NEW q \in log', Moves(r), OfTrace(q), r.time < q.time,
             \A p \in log' : OfTrace(p) => ~(r.time < p.time /\ p.time < q.time)
      PROVE  \/ q.name = "user_prompt"
             \/ q.case = r.case /\ q.turn = r.turn /\ q.resource = r.to
  <2>1. r \in log
    BY <1>1, <1>2, <1>3, <1>4, <1>7
  <2>2. CASE q = w
    <3>1. LastOfTrace(r)
      BY <1>1, <1>2, <1>7, <2>1, <2>2 DEF LastOfTrace
    <3>2. c = r.case /\ conv[c].turn = r.turn /\ conv[c].agent = r.to
      BY <1>7, <2>1, <3>1 DEF Moved
    <3> QED
      BY <2>2, <3>2
  <2>3. CASE q \in log
    <3>1. NextOfTrace(r, q)
      BY <1>7, <2>1, <2>3 DEF NextOfTrace
    <3> QED
      BY <1>7, <2>1, <2>3, <3>1 DEF Moved
  <2> QED
    BY <1>3, <1>7, <2>2, <2>3
<1>8. ASSUME NEW r \in log', Moves(r), \A q \in log' : OfTrace(q) => q.time <= r.time,
             NEW d \in Cases, conv'[d].phase \in {"llm", "tools"}
      PROVE  d = r.case /\ conv'[d].turn = r.turn /\ conv'[d].agent = r.to
  <2>1. r = w
    BY <1>1, <1>2, <1>3, <1>4, <1>8
  <2> QED
    BY <1>5, <1>8, <2>1
<1>9. \A d, e \in Cases : /\ conv'[d].phase \in {"llm", "tools"}
                         /\ conv'[e].phase \in {"llm", "tools"} => d = e
  BY <1>5
<1> QED
  BY <1>6, <1>7, <1>8, <1>9, AlonePrimed

\* A turn begins, and no other is under way.
LEMMA PromptRowAlone ==
    ASSUME TypeOK, Stamped, Turned, OneTurn, Moved, NEW c \in Cases, NEW w, Prompts(c, w),
           \A d \in Cases : ~Running(d)
    PROVE  OneTurn' /\ Moved'
<1>1. /\ log' = log \cup {w} /\ w.name = "user_prompt" /\ w.case = c
      /\ \A d \in Cases : d # c => conv'[d] = conv[d]
      /\ conv'[c].turn = conv[c].turn + 1
  BY DEF Prompts, Write
<1>2. clock \in Nat /\ w.time = clock /\ OfTrace(w)
  BY <1>1 DEF Prompts, Fresh, TypeOK, OfTrace
<1>3. /\ \A r \in log : r.time < clock /\ r.time \in Nat /\ r.case \in Cases /\ r.turn \in Nat
      /\ conv[c].turn \in Nat
  BY DEF Stamped, TypeOK, RowOK
<1>4. \A d \in Cases : conv'[d].phase \in {"llm", "tools"} => d = c
  BY <1>1 DEF Running
<1>5. \A r \in log : OfTrace(r) /\ r.case = c => r.turn # conv'[c].turn
  BY <1>1, <1>3 DEF Turned
<1>6. \A r, q \in log' :
         /\ OfTrace(r) /\ conv'[r.case].phase \in {"llm", "tools"}
         /\ r.turn = conv'[r.case].turn /\ OfTrace(q) /\ r.time < q.time
         => q.case = r.case /\ q.turn = r.turn
  BY <1>1, <1>2, <1>3, <1>4, <1>5
<1>7. ASSUME NEW r \in log', NEW q \in log', Moves(r), OfTrace(q), r.time < q.time,
             \A p \in log' : OfTrace(p) => ~(r.time < p.time /\ p.time < q.time)
      PROVE  \/ q.name = "user_prompt"
             \/ q.case = r.case /\ q.turn = r.turn /\ q.resource = r.to
  <2>1. CASE q \in log
    <3>1. r \in log
      BY <1>1, <1>2, <1>3, <1>7, <2>1 DEF Moves
    <3>2. NextOfTrace(r, q)
      BY <1>1, <1>7, <2>1, <3>1 DEF NextOfTrace
    <3> QED
      BY <1>7, <2>1, <3>1, <3>2 DEF Moved
  <2> QED
    BY <1>1, <2>1
<1>8. \A r \in log' : ~(Moves(r) /\ \A q \in log' : OfTrace(q) => q.time <= r.time)
  BY <1>1, <1>2, <1>3 DEF Moves
<1>9. \A d, e \in Cases : /\ conv'[d].phase \in {"llm", "tools"}
                         /\ conv'[e].phase \in {"llm", "tools"} => d = e
  BY <1>4
<1> QED
  BY <1>6, <1>7, <1>8, <1>9, AlonePrimed

\* No row of a trace is written, and no turn begins.
LEMMA NoTraceRow ==
    ASSUME TypeOK, OneTurn, Moved, log \subseteq log',
           \A r \in log' : OfTrace(r) => r \in log,
           \A d \in Cases : conv'[d].phase \in {"llm", "tools"} => conv'[d] = conv[d]
    PROVE  OneTurn' /\ Moved'
<1>1. \A r \in log : r.case \in Cases
  BY DEF TypeOK, RowOK
<1>2. \A d \in Cases : conv'[d].phase \in {"llm", "tools"} => Running(d) /\ conv'[d] = conv[d]
  BY DEF Running
<1>3. \A r \in log' : Moves(r) => OfTrace(r) /\ r \in log
  BY DEF Moves, OfTrace
<1>4. \A d, e \in Cases : /\ conv'[d].phase \in {"llm", "tools"}
                         /\ conv'[e].phase \in {"llm", "tools"} => d = e
  BY <1>2 DEF OneTurn
<1>5. ASSUME NEW r \in log', NEW q \in log', OfTrace(r), conv'[r.case].phase \in {"llm", "tools"},
             r.turn = conv'[r.case].turn, OfTrace(q), r.time < q.time
      PROVE  q.case = r.case /\ q.turn = r.turn
  <2>1. r \in log /\ q \in log
    BY <1>5
  <2>2. Open(r)
    BY <1>1, <1>2, <1>5, <2>1 DEF Open
  <2> QED
    BY <1>5, <2>1, <2>2 DEF OneTurn
<1>6. ASSUME NEW r \in log', NEW q \in log', Moves(r), OfTrace(q), r.time < q.time,
             \A p \in log' : OfTrace(p) => ~(r.time < p.time /\ p.time < q.time)
      PROVE  \/ q.name = "user_prompt"
             \/ q.case = r.case /\ q.turn = r.turn /\ q.resource = r.to
  <2>1. r \in log /\ q \in log
    BY <1>3, <1>6
  <2>2. NextOfTrace(r, q)
    BY <1>6, <2>1 DEF NextOfTrace
  <2> QED
    BY <1>6, <2>1, <2>2 DEF Moved
<1>7. ASSUME NEW r \in log', Moves(r), \A q \in log' : OfTrace(q) => q.time <= r.time,
             NEW d \in Cases, conv'[d].phase \in {"llm", "tools"}
      PROVE  d = r.case /\ conv'[d].turn = r.turn /\ conv'[d].agent = r.to
  <2>1. r \in log /\ LastOfTrace(r)
    BY <1>3, <1>7 DEF LastOfTrace
  <2> QED
    BY <1>2, <1>7, <2>1 DEF Moved
<1> QED
  BY <1>4, <1>5, <1>6, <1>7, AlonePrimed

LEMMA KeepsAlone ==
    ASSUME TypeOK, Stamped, Turned, Alone, Next
    PROVE  Alone'
<1>1. PICK c \in Cases : \/ \E rows, w : Speaks(c, rows, w)
                         \/ \E w : Prompts(c, w) \/ RunsTools(c, w) \/ Brews(c, w)
                         \/ Rests(c)
  BY Steps
<1>2. SUFFICES ASSUME ~overlapped'
               PROVE  OneTurn' /\ Moved'
  BY DEF Alone
<1>3. ~overlapped
  BY <1>1, <1>2 DEF Speaks, Prompts, RunsTools, Brews, Rests, TypeOK
<1>4. OneTurn /\ Moved
  BY <1>3 DEF Alone
<1>5. ASSUME NEW rows, NEW w, Speaks(c, rows, w)
      PROVE  OneTurn' /\ Moved'
  <2>1. /\ w \in rows /\ Fresh(rows) /\ log' = log \cup rows
        /\ OfTrace(w) /\ \A r \in rows : r # w => ~OfTrace(r)
        /\ Running(c) /\ w.case = c /\ w.turn = conv[c].turn /\ w.resource = conv[c].agent
        /\ \A d \in Cases : d # c => conv'[d] = conv[d]
        /\ conv'[c].turn = conv[c].turn /\ ~Moves(w)
    BY <1>5 DEF Speaks, Write, OfTrace, Decision, Running, At, Moves
  <2> QED
    BY <1>4, <2>1, TurnRow
<1>6. ASSUME NEW w, RunsTools(c, w)
      PROVE  OneTurn' /\ Moved'
  <2>1. PICK rows : rows = {w}
    OBVIOUS
  <2>2. /\ w \in rows /\ Fresh(rows) /\ log' = log \cup rows
        /\ OfTrace(w) /\ \A r \in rows : r # w => ~OfTrace(r)
        /\ Running(c) /\ w.case = c /\ w.turn = conv[c].turn /\ w.resource = conv[c].agent
        /\ \A d \in Cases : d # c => conv'[d] = conv[d]
        /\ conv'[c].turn = conv[c].turn /\ (Moves(w) => conv'[c].agent = w.to)
    BY <1>6, <2>1 DEF RunsTools, Write, OfTrace, Running, At, Moves
  <2> QED
    BY <1>4, <2>2, TurnRow
<1>7. ASSUME NEW w, Prompts(c, w)
      PROVE  OneTurn' /\ Moved'
  <2>1. \A d \in Cases : ~Running(d)
    BY <1>2, <1>7 DEF Prompts
  <2> QED
    BY <1>4, <1>7, <2>1, PromptRowAlone
<1>8. ASSUME NEW w, Brews(c, w)
      PROVE  OneTurn' /\ Moved'
  <2>1. /\ log \subseteq log' /\ conv' = conv
        /\ \A r \in log' : OfTrace(r) => r \in log
    BY <1>8 DEF Brews, Write, OfTrace
  <2> QED
    BY <1>4, <2>1, NoTraceRow
<1>9. CASE Rests(c)
  <2>1. /\ log' = log
        /\ \A d \in Cases : conv'[d].phase \in {"llm", "tools"} => conv'[d] = conv[d]
    BY <1>9 DEF Rests
  <2> QED
    BY <1>4, <2>1, NoTraceRow
<1> QED
  BY <1>1, <1>5, <1>6, <1>7, <1>8, <1>9
LEMMA InitIInv == Init => IInv
<1> SUFFICES ASSUME Init
             PROVE  IInv
  OBVIOUS
<1>1. log = {} /\ clock = 0 /\ brewing = {} /\ overlapped = FALSE
  BY DEF Init
<1>2. conv = [c \in Cases |-> [phase |-> "waiting", agent |-> FirstAgent, turn |-> 0,
                               batch |-> << >>]]
  BY DEF Init
<1>3. \A c \in Cases : conv[c].phase = "waiting" /\ conv[c].turn = 0 /\ conv[c].batch = << >>
  BY <1>2
<1>4. conv \in Convs
  <2>1. << >> \in Seq(Calls)
    OBVIOUS
  <2> QED
    BY <1>2, <2>1, AgentsAssumption DEF Convs
<1>5. TypeOK
  BY <1>1, <1>3, <1>4, FS_EmptySet DEF TypeOK, Convs, At
<1>6. Stamped /\ Judged
  BY <1>1 DEF Stamped, Judged
<1>7. Turned /\ Prompted
  BY <1>1, <1>3 DEF Turned, Prompted, Running
<1>8. Unapproved
  BY <1>1, <1>3 DEF Unapproved
<1>9. Alone
  BY <1>1, <1>3 DEF Alone, OneTurn, Moved, Running
<1> QED
  BY <1>5, <1>6, <1>7, <1>8, <1>9 DEF IInv

LEMMA NextIInv == IInv /\ [Next]_vars => IInv'
<1> SUFFICES ASSUME IInv, [Next]_vars
             PROVE  IInv'
  OBVIOUS
<1>1. CASE Next
  BY <1>1, KeepsTypes, KeepsTurned, KeepsPrompted, KeepsJudged, KeepsUnapproved, KeepsAlone
  DEF IInv
<1>2. CASE UNCHANGED vars
  <2> USE <1>2 DEF vars
  <2>1. TypeOK'
    BY DEF IInv, TypeOK, RowOK, At
  <2>2. Stamped' /\ Turned'
    BY DEF IInv, Stamped, Turned, OfTrace, Running
  <2>3. Prompted' /\ Judged' /\ Unapproved'
    BY DEF IInv, Prompted, Judged, Unapproved, Decision
  <2>4. Alone'
    BY DEF IInv, Alone, OneTurn, Moved, Open, NextOfTrace, LastOfTrace, Moves, Running, OfTrace
  <2> QED
    BY <2>1, <2>2, <2>3, <2>4 DEF IInv
<1> QED
  BY <1>1, <1>2

\* Rows are written by those who may, each with a time stamp of its own; no turn
\* is anybody's but the conversation's that began it.
THEOREM Invariant == Spec => []IInv
<1>1. Init => IInv
  BY InitIInv
<1>2. IInv /\ [Next]_vars => IInv'
  BY NextIInv
<1> QED
  BY <1>1, <1>2, PTL DEF Spec

-----------------------------------------------------------------------------
(* The table *)

\* What the conversion may count on in a row.
TableRow(r) ==
    /\ r.time \in Nat /\ r.case \in Cases
    /\ r.name \in Names \cup {"user_feedback"}
    /\ r.name \in {"user_prompt", "user_feedback"} => r.resource = "user" /\ r.tool = ""
    /\ r.name = "call_llm" => r.resource \in Agents /\ r.tool = ""
    /\ r.name = "execute_tool" => r.resource \in Agents /\ r.to \in Agents /\ r.tool \in Tools
    /\ r.name = "brew_completed" => r.resource = "coffee_machine" /\ r.tool = ""
    /\ r.name = "gateway_decision" => r.resource \in Agents /\ r.decision \in Effects

Table(rows) ==
    /\ IsFiniteSet(rows)
    /\ \A r \in rows : TableRow(r)
    /\ \A r, q \in rows : r.time = q.time => r = q

LEMMA FeedbackRowFacts ==
    ASSUME NEW r \in log, RowOK(r)
    PROVE  LET f == FeedbackRow(r)
           IN  /\ TableRow(f) /\ f.time = r.time + 1 /\ f.name = "user_feedback" /\ f.case = r.case
<1>1. r.time \in Nat /\ r.case \in Cases
  BY DEF RowOK
<1>2. PICK time \in Nat : time = r.time + 1
  BY <1>1
<1>3. FeedbackRow(r) = [r EXCEPT !.time = time, !.name = "user_feedback", !.resource = "user",
                                 !.tool = ""]
  BY <1>2 DEF FeedbackRow, RowOK
<1>4. PICK f : f = FeedbackRow(r)
  OBVIOUS
<1>5. /\ f.time = time /\ f.name = "user_feedback" /\ f.resource = "user" /\ f.tool = ""
      /\ f.case = r.case
  BY <1>3, <1>4 DEF RowOK
<1>6. TableRow(f)
  BY <1>5 DEF TableRow, RowOK
<1> QED
  BY <1>2, <1>4, <1>5, <1>6

\* Feedbacks apart, the rows of the table are exported ones.
LEMMA ExportedRows ==
    ASSUME IInv
    PROVE  /\ \A r \in EventLogRows : r.name # "user_feedback" => r \in Exported
           /\ \A r \in Exported : r \in EventLogRows /\ r.name # "user_feedback" /\ RowOK(r)
           /\ \A r \in EventLogRows : r.case \in ExportedCases
<1>1. \A r \in log : RowOK(r)
  BY DEF IInv, TypeOK
<1>2. \A r \in Exported : r \in log /\ RowOK(r) /\ r.name # "user_feedback" /\ r.case \in ExportedCases
  BY <1>1 DEF Exported, RowOK, Names
<1>3. \A r \in Exported : FeedbackRow(r).name = "user_feedback" /\ FeedbackRow(r).case = r.case
  BY <1>2, FeedbackRowFacts
<1> QED
  BY <1>2, <1>3 DEF EventLogRows

LEMMA ExportIsTable ==
    ASSUME IInv
    PROVE  Table(EventLogRows)
<1>1. /\ IsFiniteSet(log) /\ \A r \in log : RowOK(r) /\ r.time \in Nat
      /\ \A r, q \in log : r.time = q.time => r = q
      /\ \A r \in log : OfTrace(r) => \A q \in log : q.time # r.time + 1
  BY DEF IInv, TypeOK, Stamped, RowOK
<1>2. Exported \in SUBSET log
  BY DEF Exported
<1>3. PICK followed : followed = {q \in Exported : FeedbackFollows(q)}
  OBVIOUS
<1>4. PICK feedbacks : feedbacks = {FeedbackRow(r) : r \in followed}
  OBVIOUS
<1>5. EventLogRows = Exported \cup feedbacks
  BY <1>3, <1>4 DEF EventLogRows
<1>6. \A f \in feedbacks : \E r \in log :
          /\ f = FeedbackRow(r) /\ OfTrace(r) /\ TableRow(f) /\ f.time = r.time + 1
  <2>1. \A r \in followed : r \in log /\ OfTrace(r) /\ RowOK(r)
    BY <1>1, <1>2, <1>3 DEF FeedbackFollows
  <2> QED
    BY <1>4, <2>1, FeedbackRowFacts
<1>7. IsFiniteSet(feedbacks)
  <2>1. IsFiniteSet(followed)
    BY <1>1, <1>2, <1>3, FS_Subset
  <2>2. PICK f : f = [r \in followed |-> FeedbackRow(r)]
    OBVIOUS
  <2>3. f \in Surjection(followed, feedbacks)
    BY <1>4, <2>2 DEF Surjection
  <2> QED
    BY <2>1, <2>3, FS_Surjection
<1>8. IsFiniteSet(EventLogRows)
  BY <1>1, <1>2, <1>5, <1>7, FS_Subset, FS_Union
<1>9. \A r \in EventLogRows : TableRow(r)
  <2>1. ASSUME NEW r \in log
        PROVE  TableRow(r)
    <3>1. RowOK(r)
      BY <1>1
    <3>2. r.time \in Nat /\ r.case \in Cases /\ r.name \in Names
      BY <3>1 DEF RowOK
    <3> QED
      BY <3>1, <3>2 DEF RowOK, TableRow, Names
  <2> QED
    BY <1>2, <1>5, <1>6, <2>1
<1>10. \A r, q \in EventLogRows : r.time = q.time => r = q
  <2> SUFFICES ASSUME NEW r \in EventLogRows, NEW q \in EventLogRows, r.time = q.time
               PROVE  r = q
    OBVIOUS
  <2>1. CASE r \in Exported /\ q \in Exported
    BY <1>1, <1>2, <2>1
  <2>2. CASE r \in Exported /\ q \in feedbacks
    BY <1>1, <1>2, <1>6, <2>2
  <2>3. CASE r \in feedbacks /\ q \in Exported
    BY <1>1, <1>2, <1>6, <2>3
  <2>4. CASE r \in feedbacks /\ q \in feedbacks
    <3>1. PICK a \in log : r = FeedbackRow(a) /\ r.time = a.time + 1
      BY <1>6, <2>4
    <3>2. PICK b \in log : q = FeedbackRow(b) /\ q.time = b.time + 1
      BY <1>6, <2>4
    <3>3. a.time = b.time
      BY <1>1, <3>1, <3>2
    <3> QED
      BY <1>1, <3>1, <3>2, <3>3
  <2> QED
    BY <1>5, <2>1, <2>2, <2>3, <2>4
<1> QED
  BY <1>8, <1>9, <1>10 DEF Table
-----------------------------------------------------------------------------
(* The conversion of a table *)

Noted(shared) == {r \in Decisions(shared) : r.decision # "allow"}

\* The parts of the converted log.
LEMMA Converted ==
    ASSUME NEW shared
    PROVE  LET ocel == from_eventlog(shared)
               ext  == project_decisions(shared)
               rows == WithoutDecisions(shared)
           IN  /\ ocel.events = NativeEvents(rows) \cup GatewayEvents(Noted(shared))
               /\ ocel.objects = NativeObjects(rows) \cup CallObjects(Decisions(shared))
                                    \cup GatewayObjects(Decisions(shared), Noted(shared))
               /\ ocel.links = NativeLinks(rows, ext) \cup GatewayLinks(Noted(shared))
               /\ ext.setups = {r.case : r \in Decisions(shared)}
               /\ ext.snapshots = {<<r.case, r.resource>> : r \in Decisions(shared)}
               /\ ext.calls = {r.call : r \in Decisions(shared)}
<1>1. PICK ext : ext = project_decisions(shared)
  OBVIOUS
<1>2. /\ ext.events = GatewayEvents(Noted(shared))
      /\ ext.objects = CallObjects(Decisions(shared))
                         \cup GatewayObjects(Decisions(shared), Noted(shared))
      /\ ext.links = GatewayLinks(Noted(shared))
      /\ ext.setups = {r.case : r \in Decisions(shared)}
      /\ ext.snapshots = {<<r.case, r.resource>> : r \in Decisions(shared)}
      /\ ext.calls = {r.call : r \in Decisions(shared)}
  BY <1>1 DEF project_decisions, Noted
<1>3. from_eventlog(shared) =
        [events  |-> NativeEvents(WithoutDecisions(shared)) \cup ext.events,
         objects |-> NativeObjects(WithoutDecisions(shared)) \cup ext.objects,
         links   |-> NativeLinks(WithoutDecisions(shared), ext) \cup ext.links]
  BY <1>1 DEF from_eventlog
<1> QED
  BY <1>1, <1>2, <1>3

\* Identities tell rows and decisions, agents, cases and the gateway's objects apart.
LEMMA Identities ==
    /\ \A r, q : EventId(r) = EventId(q) => r.time = q.time
    /\ \A r, q : GatewayEvent(r) = GatewayEvent(q) => r.time = q.time
    /\ \A r, q : EventId(r) # GatewayEvent(q)
    /\ \A x, y : ToolCall(x) = ToolCall(y) => x = y
BY DEF EventId, GatewayEvent, ToolCall

\* The kinds of links.
LEMMA LinkKinds ==
    ASSUME NEW shared, NEW l \in from_eventlog(shared).links
    PROVE  LET ext  == project_decisions(shared)
               rows == WithoutDecisions(shared)
           IN  \/ \E r \in rows : /\ Kept(rows, r) /\ r.case \in ext.setups
                                  /\ l = <<EventId(r), Setup, "under_setup">>
               \/ \E r \in Plain(rows) : l \in RowLinks(rows, r, ext)
               \/ \E p \in Handovers(rows) : l \in HandoverLinks(p)
               \/ \E r \in Noted(shared) :
                     l \in {<<GatewayEvent(r), AgentObject(r.case, r.resource), "evaluated_for">>,
                            <<GatewayEvent(r), Setup, "under_setup">>,
                            <<GatewayEvent(r), Snapshot(r.resource), "using_snapshot">>,
                            <<GatewayEvent(r), ToolCall(r.call), "decided_on">>,
                            <<GatewayEvent(r), Guardrail, r.decision>>}
<1>1. PICK ext : ext = project_decisions(shared)
  OBVIOUS
<1>2. PICK rows : rows = WithoutDecisions(shared)
  OBVIOUS
<1>3. l \in NativeLinks(rows, ext) \/ l \in GatewayLinks(Noted(shared))
  BY <1>1, <1>2, Converted
<1>4. CASE l \in NativeLinks(rows, ext)
  <2>1. \/ l \in SetupLinks(rows, ext)
        \/ \E r \in Plain(rows) : l \in RowLinks(rows, r, ext)
        \/ \E p \in Handovers(rows) : l \in HandoverLinks(p)
    <3>1. ASSUME l \in (UNION {RowLinks(rows, r, ext) : r \in Plain(rows)})
          PROVE  \E r \in Plain(rows) : l \in RowLinks(rows, r, ext)
      BY ONLY <3>1
    <3>2. ASSUME l \in (UNION {HandoverLinks(p) : p \in Handovers(rows)})
          PROVE  \E p \in Handovers(rows) : l \in HandoverLinks(p)
      BY ONLY <3>2
    <3>3. \/ l \in SetupLinks(rows, ext)
          \/ l \in (UNION {RowLinks(rows, r, ext) : r \in Plain(rows)})
          \/ l \in (UNION {HandoverLinks(p) : p \in Handovers(rows)})
      BY <1>4 DEF NativeLinks
    <3> QED
      BY ONLY <3>1, <3>2, <3>3
  <2>2. ASSUME l \in SetupLinks(rows, ext)
        PROVE  \E r \in rows : /\ Kept(rows, r) /\ r.case \in ext.setups
                              /\ l = <<EventId(r), Setup, "under_setup">>
    BY <2>2 DEF SetupLinks
  <2> QED
    BY <1>1, <1>2, <2>1, <2>2
<1>5. CASE l \in GatewayLinks(Noted(shared))
  BY <1>5 DEF GatewayLinks
<1> QED
  BY <1>3, <1>4, <1>5

\* The links of a row that stays as it is.
LEMMA RowLinkKinds ==
    ASSUME NEW rows, NEW r, NEW ext, NEW l \in RowLinks(rows, r, ext)
    PROVE  \/ l = <<EventId(r), ObjectId(r), "by">>
           \/ HasMessage(r) /\ l = <<EventId(r), Message(r), "message">>
           \/ \E p \in RelatedPrompt(rows, r) : l = <<EventId(r), Message(p), "prompt">>
           \/ /\ r.name = "execute_tool" /\ r.call \in ext.calls
              /\ l = <<EventId(r), ToolCall(r.call), "executes">>
           \/ /\ <<r.case, r.resource>> \in ext.snapshots
              /\ l = <<EventId(r), Snapshot(r.resource), "using_snapshot">>
BY DEF RowLinks

LEMMA RowLinkShape ==
    ASSUME NEW rows, NEW r, NEW ext, NEW l \in RowLinks(rows, r, ext)
    PROVE  /\ l[1] = EventId(r)
           /\ l[3] = "by" => l[2] = ObjectId(r)
           /\ l[3] = "executes" => r.name = "execute_tool" /\ l[2] = ToolCall(r.call)
           /\ l[3] \in {"by", "executes"} \/ l[2][1] \in {"message", "snapshot"}
<1>1. \/ l = <<EventId(r), ObjectId(r), "by">>
      \/ l = <<EventId(r), Message(r), "message">>
      \/ \E p : l = <<EventId(r), Message(p), "prompt">>
      \/ r.name = "execute_tool" /\ l = <<EventId(r), ToolCall(r.call), "executes">>
      \/ l = <<EventId(r), Snapshot(r.resource), "using_snapshot">>
  BY RowLinkKinds
<1>2. \A x : Message(x)[1] = "message" /\ Snapshot(x)[1] = "snapshot"
  BY DEF Message, Snapshot
<1>3. CASE l = <<EventId(r), ObjectId(r), "by">>
  BY ONLY <1>3
<1>4. CASE l = <<EventId(r), Message(r), "message">>
  BY ONLY <1>2, <1>4
<1>5. ASSUME NEW p, l = <<EventId(r), Message(p), "prompt">>
      PROVE  l[1] = EventId(r) /\ l[3] = "prompt" /\ l[2][1] = "message"
  BY ONLY <1>2, <1>5
<1>6. CASE r.name = "execute_tool" /\ l = <<EventId(r), ToolCall(r.call), "executes">>
  BY ONLY <1>6
<1>7. CASE l = <<EventId(r), Snapshot(r.resource), "using_snapshot">>
  BY ONLY <1>2, <1>7
<1> QED
  BY <1>1, <1>3, <1>4, <1>5, <1>6, <1>7

LEMMA HandoverLinkKinds ==
    ASSUME NEW p, NEW l \in HandoverLinks(p)
    PROVE  \E r \in {p[1], p[2]} : l = <<EventId(p[1]), ObjectId(r), "by">>
BY DEF HandoverLinks

\* The rows without the gateway's are a table too.
LEMMA RowsFacts ==
    ASSUME NEW shared, Table(shared)
    PROVE  LET rows == WithoutDecisions(shared)
           IN  /\ Table(rows) /\ rows \subseteq shared
               /\ \A r \in rows : r.name # "gateway_decision"
               /\ \A r \in shared : r.name # "gateway_decision" => r \in rows
<1>1. PICK rows : rows = WithoutDecisions(shared)
  OBVIOUS
<1>2. rows \in SUBSET shared
  BY <1>1 DEF WithoutDecisions
<1>3. IsFiniteSet(rows)
  BY <1>2, FS_Subset DEF Table
<1>4. Table(rows)
  BY <1>2, <1>3 DEF Table
<1> QED
  BY <1>1, <1>2, <1>4 DEF WithoutDecisions, Decision

\* Only a transfer becomes something else, and only a handover.
LEMMA PlainFacts ==
    ASSUME NEW rows
    PROVE  /\ \A r \in rows : r.tool # Transfer => r \in Plain(rows)
           /\ \A r \in rows : Kept(rows, r) =>
                 r \in Plain(rows) \/ \E q \in rows : <<r, q>> \in Handovers(rows)
           /\ \A r \in Plain(rows) : r \in rows
           /\ \A p \in Handovers(rows) : /\ p[1] \in rows /\ p[2] \in rows
                                        /\ IsHandover(rows, p[1], p[2])
                                        /\ p[1] \notin Plain(rows)
BY DEF Plain, Handovers, Kept, IsHandover

-----------------------------------------------------------------------------
(* A denied call is not shown as executed *)

LEMMA DeniedStaysSo == IInv => DeniedNotExecuted
<1> SUFFICES ASSUME IInv
             PROVE  DeniedNotExecuted
  OBVIOUS
<1>1. PICK shared : shared = EventLogRows
  OBVIOUS
<1>2. Table(shared)
  BY <1>1, ExportIsTable
<1>3. PICK rows : rows = WithoutDecisions(shared)
  OBVIOUS
<1>4. PICK links : links = from_eventlog(shared).links
  OBVIOUS
<1>5. PICK ext : ext = project_decisions(shared)
  OBVIOUS
<1>6. SUFFICES ASSUME NEW r \in Decisions(shared), r.decision = "deny",
                      NEW l \in links, l[1] = GatewayEvent(r), l[3] = "decided_on",
                      NEW k \in links, k[3] = "executes", k[2] = l[2]
               PROVE  FALSE
  BY <1>1, <1>4 DEF DeniedNotExecuted
<1>7. r \in shared /\ r.name = "gateway_decision" /\ TableRow(r)
  BY <1>2 DEF Decisions, Decision, Table
<1>8. l[2] = ToolCall(r.call)
  <2>1. \E q \in Noted(shared) :
          l \in {<<GatewayEvent(q), AgentObject(q.case, q.resource), "evaluated_for">>,
                 <<GatewayEvent(q), Setup, "under_setup">>,
                 <<GatewayEvent(q), Snapshot(q.resource), "using_snapshot">>,
                 <<GatewayEvent(q), ToolCall(q.call), "decided_on">>,
                 <<GatewayEvent(q), Guardrail, q.decision>>}
    <3>1. ASSUME NEW q, l[1] = EventId(q)
          PROVE  FALSE
      BY <1>6, <3>1, Identities
    <3>2. ASSUME NEW q, l \in RowLinks(rows, q, ext)
          PROVE  l[1] = EventId(q)
      BY <3>2, RowLinkShape
    <3>3. \A p : l \in HandoverLinks(p) => l[1] = EventId(p[1])
      BY HandoverLinkKinds
    <3> QED
      BY <1>3, <1>4, <1>5, <3>1, <3>2, <3>3, LinkKinds
  <2>2. PICK q \in Noted(shared) :
          l \in {<<GatewayEvent(q), AgentObject(q.case, q.resource), "evaluated_for">>,
                 <<GatewayEvent(q), Setup, "under_setup">>,
                 <<GatewayEvent(q), Snapshot(q.resource), "using_snapshot">>,
                 <<GatewayEvent(q), ToolCall(q.call), "decided_on">>,
                 <<GatewayEvent(q), Guardrail, q.decision>>}
    BY <2>1
  <2>3. l[1] = GatewayEvent(q)
    BY <2>2
  <2>4. q \in shared /\ q.decision # "decided_on"
    BY <1>2 DEF Noted, Decisions, Decision, Table, TableRow, Effects
  <2>5. q = r
    <3>1. GatewayEvent(q) = GatewayEvent(r)
      BY <1>6, <2>3
    <3>2. q.time = r.time
      BY ONLY <3>1, Identities
    <3> QED
      BY <1>2, <1>7, <2>4, <3>2 DEF Table
  <2>6. l = <<GatewayEvent(q), ToolCall(q.call), "decided_on">>
    BY <1>6, <2>2, <2>4
  <2> QED
    BY <2>5, <2>6
<1>9. PICK e \in rows : e.name = "execute_tool" /\ k[2] = ToolCall(e.call)
  <2>1. ASSUME NEW q, k \in RowLinks(rows, q, ext)
        PROVE  q.name = "execute_tool" /\ k[2] = ToolCall(q.call)
    BY <1>6, <2>1, RowLinkShape
  <2>2. \A p : k \notin HandoverLinks(p)
    BY <1>6, HandoverLinkKinds
  <2>3. \A q \in Noted(shared) : q.decision # "executes"
    BY <1>2 DEF Noted, Decisions, Decision, Table, TableRow, Effects
  <2>4. \E q \in Plain(rows) : k \in RowLinks(rows, q, ext)
    BY <1>3, <1>4, <1>5, <1>6, <2>2, <2>3, LinkKinds
  <2> QED
    BY <2>1, <2>4, PlainFacts
<1>10. e.call = r.call
  BY <1>6, <1>8, <1>9, Identities
<1>11. e \in log /\ r \in log
  <2>1. e \in shared
    BY <1>2, <1>3, <1>9, RowsFacts
  <2> QED
    BY <1>1, <1>7, <1>9, <2>1, ExportedRows DEF Exported
<1> QED
  BY <1>6, <1>7, <1>9, <1>10, <1>11 DEF IInv, Unapproved, Decision

\* Whatever conversations do at the same time, the log never shows a call that
\* the gateway denied as executed.
THEOREM NoDeniedExecution == Spec => []DeniedNotExecuted
<1>1. IInv => DeniedNotExecuted
  BY DeniedStaysSo
<1> QED
  BY <1>1, Invariant, PTL
-----------------------------------------------------------------------------
(* Cases are found again *)

LEMMA ObjectIdFacts ==
    \A r : /\ ObjectId(r)[1] \in {"agent", "case"} /\ CaseOf(ObjectId(r)) = r.case
           /\ r.resource \notin Agents => ObjectId(r) = <<"case", r.case>>
           /\ r.resource \in Agents => ObjectId(r) = AgentObject(r.case, r.resource)
BY DEF ObjectId, AgentObject, CaseOf

\* The rows that become objects.
Shown(rows) == Plain(rows) \cup UNION {{p[1], p[2]} : p \in Handovers(rows)}

LEMMA ShownFacts ==
    ASSUME NEW rows
    PROVE  /\ \A r \in Plain(rows) : r \in Shown(rows)
           /\ \A p \in Handovers(rows) : p[1] \in Shown(rows) /\ p[2] \in Shown(rows)
           /\ \A r \in Shown(rows) : r \in rows
BY PlainFacts DEF Shown

\* What is written of the rows.
LEMMA Objects ==
    ASSUME NEW shared
    PROVE  LET ocel == from_eventlog(shared)
               rows == WithoutDecisions(shared)
           IN  /\ \A r \in Shown(rows) : [id |-> ObjectId(r), type |-> r.resource] \in ocel.objects
               /\ \A r \in Plain(rows) : HasMessage(r) =>
                     [id |-> Message(r), type |-> "message"] \in ocel.objects
               /\ \A r \in Decisions(shared) :
                     /\ [id |-> ToolCall(r.call), type |-> "tool_call"] \in ocel.objects
                     /\ [id |-> Setup, type |-> "setup"] \in ocel.objects
                     /\ [id |-> Snapshot(r.resource), type |-> "snapshot"] \in ocel.objects
               /\ \A r \in Noted(shared) : [id |-> Guardrail, type |-> "guardrail"] \in ocel.objects
<1>1. PICK rows : rows = WithoutDecisions(shared)
  OBVIOUS
<1>2. PICK objects : objects = from_eventlog(shared).objects
  OBVIOUS
<1>3. objects = NativeObjects(rows) \cup CallObjects(Decisions(shared))
                  \cup GatewayObjects(Decisions(shared), Noted(shared))
  BY <1>1, <1>2, Converted
<1>4. \A r \in Shown(rows) : [id |-> ObjectId(r), type |-> r.resource] \in NativeObjects(rows)
  BY DEF NativeObjects, Shown
<1>5. \A r \in Plain(rows) : HasMessage(r) =>
         [id |-> Message(r), type |-> "message"] \in NativeObjects(rows)
  BY DEF NativeObjects
<1>6. \A r \in Decisions(shared) :
         [id |-> ToolCall(r.call), type |-> "tool_call"] \in CallObjects(Decisions(shared))
  BY DEF CallObjects
<1>7. \A r \in Decisions(shared) :
         /\ [id |-> Setup, type |-> "setup"] \in GatewayObjects(Decisions(shared), Noted(shared))
         /\ [id |-> Snapshot(r.resource), type |-> "snapshot"]
              \in GatewayObjects(Decisions(shared), Noted(shared))
  BY DEF GatewayObjects
<1>8. \A r \in Noted(shared) :
         [id |-> Guardrail, type |-> "guardrail"] \in GatewayObjects(Decisions(shared), Noted(shared))
  BY DEF GatewayObjects
<1> QED
  BY <1>1, <1>2, <1>3, <1>4, <1>5, <1>6, <1>7, <1>8

\* An object of an agent or a customer is that of a row.
LEMMA CaseObjectsFacts ==
    ASSUME NEW shared, NEW o \in CaseObjects(from_eventlog(shared))
    PROVE  \E r \in Shown(WithoutDecisions(shared)) :
              /\ o = [id |-> ObjectId(r), type |-> r.resource]
              /\ r.resource \in Agents \cup {"user"}
<1>1. PICK rows : rows = WithoutDecisions(shared)
  OBVIOUS
<1>2. /\ o \in NativeObjects(rows) \cup CallObjects(Decisions(shared))
             \cup GatewayObjects(Decisions(shared), Noted(shared))
      /\ o.type \in Agents \cup {"user"}
  BY <1>1, Converted DEF CaseObjects
<1>3. o.type \notin {"message", "setup", "snapshot", "tool_call", "guardrail"}
  BY <1>2, AgentsAssumption
<1>4. o \notin CallObjects(Decisions(shared))
  BY <1>3 DEF CallObjects
<1>5. o \notin GatewayObjects(Decisions(shared), Noted(shared))
  BY <1>3 DEF GatewayObjects
<1>6. o \in NativeObjects(rows)
  BY <1>2, <1>4, <1>5
<1>7. \E r \in Shown(rows) : o = [id |-> ObjectId(r), type |-> r.resource]
  BY <1>3, <1>6 DEF NativeObjects, Shown
<1> QED
  BY <1>1, <1>2, <1>7

\* The links of an event to agents and cases.
LEMMA EventLinks ==
    ASSUME NEW shared, Table(shared), NEW r \in WithoutDecisions(shared),
           NEW l \in from_eventlog(shared).links, l[1] = EventId(r), l[2][1] \in {"agent", "case"}
    PROVE  LET rows == WithoutDecisions(shared)
           IN  \/ r \in Plain(rows) /\ l[2] = ObjectId(r)
               \/ \E q \in rows : /\ <<r, q>> \in Handovers(rows)
                                 /\ l[2] \in {ObjectId(r), ObjectId(q)}
<1>1. PICK rows : rows = WithoutDecisions(shared)
  OBVIOUS
<1>2. PICK ext : ext = project_decisions(shared)
  OBVIOUS
<1>3. Table(rows)
  BY <1>1, RowsFacts
<1>4. ASSUME NEW q \in rows, EventId(q) = l[1]
      PROVE  q = r
  <2>1. EventId(q) = EventId(r)
    BY <1>4
  <2>2. q.time = r.time
    BY ONLY <2>1, Identities
  <2> QED
    BY <1>1, <1>3, <2>2 DEF Table
<1>5. ASSUME NEW x, l = <<x, Setup, "under_setup">>
      PROVE  FALSE
  BY <1>5 DEF Setup
<1>6. ASSUME NEW q \in Plain(rows), l \in RowLinks(rows, q, ext)
      PROVE  r \in Plain(rows) /\ l[2] = ObjectId(r)
  <2>1. /\ l[1] = EventId(q)
        /\ l[3] = "by" => l[2] = ObjectId(q)
        /\ l[3] = "executes" => l[2] = ToolCall(q.call)
        /\ l[3] \in {"by", "executes"} \/ l[2][1] \in {"message", "snapshot"}
    BY <1>6, RowLinkShape
  <2>2. l[3] = "by"
    BY <2>1 DEF ToolCall
  <2>3. q = r
    BY <1>4, <2>1, PlainFacts
  <2> QED
    BY <1>6, <2>1, <2>2, <2>3
<1>7. ASSUME NEW p \in Handovers(rows), l \in HandoverLinks(p)
      PROVE  \E q \in rows : <<r, q>> \in Handovers(rows) /\ l[2] \in {ObjectId(r), ObjectId(q)}
  <2>1. PICK q \in {p[1], p[2]} : l = <<EventId(p[1]), ObjectId(q), "by">>
    BY <1>7, HandoverLinkKinds
  <2>2. p[1] \in rows /\ p[2] \in rows /\ p = <<p[1], p[2]>>
    BY DEF Handovers
  <2>3. l[1] = EventId(p[1]) /\ l[2] = ObjectId(q)
    BY <2>1
  <2>4. p[1] = r
    BY <1>4, <2>2, <2>3
  <2> QED
    BY <1>7, <2>2, <2>3, <2>4
<1>8. ASSUME NEW q, NEW x, NEW y, l = <<GatewayEvent(q), x, y>>
      PROVE  FALSE
  <2>1. EventId(r) = GatewayEvent(q)
    BY <1>8
  <2> QED
    BY ONLY <2>1, Identities
<1> QED
  BY <1>1, <1>2, <1>5, <1>6, <1>7, <1>8, LinkKinds

\* Rows and handovers are linked to those who wrote them.
LEMMA ByLinks ==
    ASSUME NEW shared
    PROVE  LET links == from_eventlog(shared).links
               rows  == WithoutDecisions(shared)
           IN  /\ \A r \in Plain(rows) : <<EventId(r), ObjectId(r), "by">> \in links
               /\ \A p \in Handovers(rows) : <<EventId(p[1]), ObjectId(p[1]), "by">> \in links
<1>1. PICK rows : rows = WithoutDecisions(shared)
  OBVIOUS
<1>2. PICK ext : ext = project_decisions(shared)
  OBVIOUS
<1>3. NativeLinks(rows, ext) \subseteq from_eventlog(shared).links
  BY <1>1, <1>2, Converted
<1>4. ASSUME NEW r \in Plain(rows)
      PROVE  <<EventId(r), ObjectId(r), "by">> \in NativeLinks(rows, ext)
  <2>1. <<EventId(r), ObjectId(r), "by">> \in RowLinks(rows, r, ext)
    BY DEF RowLinks
  <2> QED
    BY <2>1 DEF NativeLinks
<1>5. ASSUME NEW p \in Handovers(rows)
      PROVE  <<EventId(p[1]), ObjectId(p[1]), "by">> \in NativeLinks(rows, ext)
  <2>1. <<EventId(p[1]), ObjectId(p[1]), "by">> \in HandoverLinks(p)
    BY DEF HandoverLinks
  <2> QED
    BY <2>1 DEF NativeLinks
<1> QED
  BY <1>1, <1>3, <1>4, <1>5

\* Who is in the case map.
LEMMA CaseMapFacts ==
    ASSUME NEW ocel
    PROVE  /\ \A m \in event_case_map(ocel) : \E l \in ocel.links : \E o \in CaseObjects(ocel) :
                 l[2] = o.id /\ m = <<l[1], CaseOf(l[2])>>
           /\ \A l \in ocel.links : \A o \in CaseObjects(ocel) :
                 l[2] = o.id => <<l[1], CaseOf(l[2])>> \in event_case_map(ocel)
BY DEF event_case_map

\* An exported case has its customer's first prompt in the table.
LEMMA FirstPrompt ==
    ASSUME IInv, NEW c \in ExportedCases
    PROVE  \E r \in WithoutDecisions(EventLogRows) : r.name = "user_prompt" /\ r.case = c
<1>1. c \in Cases /\ Traces(c) > 0
  BY DEF ExportedCases
<1>2. conv[c].turn \in Nat
  BY <1>1 DEF IInv, TypeOK
<1>3. Traces(c) \in Nat /\ Traces(c) >= 1 /\ conv[c].turn > 0
  BY <1>1, <1>2 DEF Traces, IInv, Turned
<1>4. PICK r \in log : r.name = "user_prompt" /\ r.case = c /\ r.turn = 1
  BY <1>1, <1>3 DEF IInv, Prompted
<1>5. r \in Exported
  BY <1>3, <1>4 DEF Exported
<1> QED
  BY <1>4, <1>5, ExportedRows DEF WithoutDecisions, Decision

\* Whoever wrote a row has an object in its case, the machine the customer's.
LEMMA CaseObjectOfRow ==
    ASSUME IInv, NEW r \in Shown(WithoutDecisions(EventLogRows))
    PROVE  \E o \in CaseObjects(from_eventlog(EventLogRows)) : o.id = ObjectId(r)
<1>1. PICK shared : shared = EventLogRows
  OBVIOUS
<1>2. PICK rows : rows = WithoutDecisions(shared)
  OBVIOUS
<1>3. PICK ocel : ocel = from_eventlog(shared)
  OBVIOUS
<1>4. Table(rows)
  BY <1>1, <1>2, ExportIsTable, RowsFacts
<1>5. r \in rows /\ TableRow(r)
  BY <1>1, <1>2, <1>4, ShownFacts DEF Table
<1>6. [id |-> ObjectId(r), type |-> r.resource] \in ocel.objects
  BY <1>1, <1>2, <1>3, Objects
<1>7. CASE r.resource \in Agents \cup {"user"}
  BY <1>1, <1>3, <1>6, <1>7 DEF CaseObjects
<1>8. CASE r.resource \notin Agents \cup {"user"}
  <2>1. r.case \in ExportedCases
    BY <1>1, <1>2, <1>5, ExportedRows, ExportIsTable, RowsFacts
  <2>2. PICK u \in rows : u.name = "user_prompt" /\ u.case = r.case
    BY <1>1, <1>2, <2>1, FirstPrompt
  <2>3. u.resource = "user" /\ u.tool = ""
    BY <1>4, <2>2 DEF Table, TableRow
  <2>4. u \in Shown(rows)
    BY <2>3, PlainFacts, ShownFacts DEF Transfer
  <2>5. [id |-> ObjectId(u), type |-> "user"] \in ocel.objects
    BY <1>1, <1>2, <1>3, <2>3, <2>4, Objects
  <2>6. ObjectId(u) = ObjectId(r)
    BY <1>8, <2>2, <2>3, AgentsAssumption, ObjectIdFacts
  <2> QED
    BY <1>1, <1>3, <2>5, <2>6 DEF CaseObjects
<1> QED
  BY <1>7, <1>8
\* An event that is no handover is of a row that stayed as it was.
LEMMA PlainEvents ==
    ASSUME NEW shared, Table(shared), NEW r \in WithoutDecisions(shared),
           NEW e \in from_eventlog(shared).events, e.id = EventId(r), e.type[1] # "handover"
    PROVE  r \in Plain(WithoutDecisions(shared))
<1>1. PICK rows : rows = WithoutDecisions(shared)
  OBVIOUS
<1>2. Table(rows)
  BY <1>1, RowsFacts
<1>3. e \in NativeEvents(rows) \/ e \in GatewayEvents(Noted(shared))
  BY <1>1, Converted
<1>4. e \notin GatewayEvents(Noted(shared))
  <2>1. ASSUME NEW q, e.id = GatewayEvent(q)
        PROVE  FALSE
    <3>1. EventId(r) = GatewayEvent(q)
      BY <2>1
    <3> QED
      BY ONLY <3>1, Identities
  <2> QED
    BY <2>1 DEF GatewayEvents
<1>5. \A p \in Handovers(rows) :
         e # [id |-> EventId(p[1]), type |-> <<"handover", p[1].resource, p[2].resource>>]
  OBVIOUS
<1>6. PICK q \in Plain(rows) : e = [id |-> EventId(q), type |-> EventType(q)]
  BY <1>3, <1>4, <1>5 DEF NativeEvents
<1>7. q.time = r.time
  <2>1. EventId(q) = EventId(r)
    BY <1>6
  <2> QED
    BY ONLY <2>1, Identities
<1>8. q = r
  BY <1>1, <1>2, <1>6, <1>7, PlainFacts DEF Table
<1> QED
  BY <1>1, <1>6, <1>8

LEMMA CasesAreRecovered == IInv => CaseRecovered
<1> SUFFICES ASSUME IInv
             PROVE  CaseRecovered
  OBVIOUS
<1>1. PICK shared : shared = EventLogRows
  OBVIOUS
<1>2. PICK ocel : ocel = from_eventlog(shared)
  OBVIOUS
<1>3. Table(shared)
  BY <1>1, ExportIsTable
<1>4. SUFFICES ASSUME NEW r \in WithoutDecisions(shared),
                      NEW e \in ocel.events \ HandoverEvents(ocel), e.id = EventId(r)
               PROVE  {p \in event_case_map(ocel) : p[1] = EventId(r)} = {<<EventId(r), r.case>>}
  BY <1>1, <1>2 DEF CaseRecovered
<1>5. r \in Plain(WithoutDecisions(shared))
  BY <1>2, <1>3, <1>4, PlainEvents DEF HandoverEvents
<1>6. ASSUME NEW p \in event_case_map(ocel), p[1] = EventId(r)
      PROVE  p = <<EventId(r), r.case>>
  <2>1. PICK l \in ocel.links : \E o \in CaseObjects(ocel) :
            l[2] = o.id /\ p = <<l[1], CaseOf(l[2])>>
    BY CaseMapFacts
  <2>2. p = <<l[1], CaseOf(l[2])>> /\ l[1] = EventId(r)
    BY <1>6, <2>1
  <2>3. l[2][1] \in {"agent", "case"}
    BY <1>2, <2>1, CaseObjectsFacts, ObjectIdFacts
  <2>4. l[2] = ObjectId(r)
    <3>1. \/ l[2] = ObjectId(r)
          \/ \E q : <<r, q>> \in Handovers(WithoutDecisions(shared))
      BY <1>2, <1>3, <2>1, <2>2, <2>3, EventLinks
    <3>2. ASSUME NEW q, <<r, q>> \in Handovers(WithoutDecisions(shared))
          PROVE  FALSE
      <4>1. <<r, q>>[1] \notin Plain(WithoutDecisions(shared))
        BY <3>2, PlainFacts
      <4> QED
        BY <1>5, <4>1
    <3> QED
      BY <3>1, <3>2
  <2> QED
    BY <2>2, <2>4, ObjectIdFacts
<1>7. <<EventId(r), r.case>> \in event_case_map(ocel)
  <2>1. PICK l : l = <<EventId(r), ObjectId(r), "by">>
    OBVIOUS
  <2>2. l \in ocel.links
    BY <1>2, <1>5, <2>1, ByLinks
  <2>3. PICK o \in CaseObjects(ocel) : o.id = ObjectId(r)
    BY <1>1, <1>2, <1>5, ShownFacts, CaseObjectOfRow
  <2>4. l[1] = EventId(r) /\ l[2] = o.id
    BY <2>1, <2>3
  <2> QED
    <3>1. <<l[1], CaseOf(l[2])>> \in event_case_map(ocel)
      BY <2>2, <2>3, <2>4, CaseMapFacts
    <3>2. CaseOf(l[2]) = r.case
      BY <2>3, <2>4, ObjectIdFacts
    <3> QED
      BY <2>4, <3>1, <3>2
<1>8. <<EventId(r), r.case>>[1] = EventId(r)
  OBVIOUS
<1> QED
  BY <1>6, <1>7, <1>8

\* The case map finds the case of every event that is no handover, and no other.
THEOREM CasesRecovered == Spec => []CaseRecovered
<1>1. IInv => CaseRecovered
  BY CasesAreRecovered
<1> QED
  BY <1>1, Invariant, PTL

-----------------------------------------------------------------------------
(* No link dangles *)

\* The events.
LEMMA Events ==
    ASSUME NEW shared
    PROVE  LET events == {e.id : e \in from_eventlog(shared).events}
               rows   == WithoutDecisions(shared)
           IN  /\ \A r \in Plain(rows) : EventId(r) \in events
               /\ \A p \in Handovers(rows) : EventId(p[1]) \in events
               /\ \A r \in Noted(shared) : GatewayEvent(r) \in events
<1>1. PICK rows : rows = WithoutDecisions(shared)
  OBVIOUS
<1>2. PICK events : events = from_eventlog(shared).events
  OBVIOUS
<1>3. events = NativeEvents(rows) \cup GatewayEvents(Noted(shared))
  BY <1>1, <1>2, Converted
<1>4. \A r \in Plain(rows) : [id |-> EventId(r), type |-> EventType(r)] \in events
  BY <1>3 DEF NativeEvents
<1>5. \A p \in Handovers(rows) :
         [id |-> EventId(p[1]), type |-> <<"handover", p[1].resource, p[2].resource>>] \in events
  BY <1>3 DEF NativeEvents
<1>6. \A r \in Noted(shared) :
         [id |-> GatewayEvent(r), type |-> <<"gateway", r.decision>>] \in events
  BY <1>3 DEF GatewayEvents
<1>7. \A x, y : [id |-> x, type |-> y] \in events => x \in {e.id : e \in events}
  <2> SUFFICES ASSUME NEW x, NEW y, [id |-> x, type |-> y] \in events
               PROVE  x \in {e.id : e \in events}
    OBVIOUS
  <2>1. [id |-> x, type |-> y].id = x
    OBVIOUS
  <2> QED
    BY <2>1
<1> QED
  BY <1>1, <1>2, <1>4, <1>5, <1>6, <1>7

\* The agent a decision was about is in the log with the trace of its turn.
LEMMA JudgedAgentShown ==
    ASSUME IInv, NEW r \in Decisions(EventLogRows), Traced(EventLogRows, r)
    PROVE  \E w \in Plain(WithoutDecisions(EventLogRows)) :
               ObjectId(w) = AgentObject(r.case, r.resource)
<1>1. r \in Exported /\ r \in log /\ Decision(r) /\ r.case \in ExportedCases /\ r.resource \in Agents
  <2>1. r \in Exported /\ RowOK(r)
    BY ExportedRows DEF Decisions, Decision
  <2> QED
    BY <2>1 DEF Exported, Decisions, Decision, RowOK
<1>2. PICK q \in EventLogRows : OfTrace(q) /\ <<q.case, q.turn>> = <<r.case, r.turn>>
  BY DEF Traced
<1>3. r.turn <= Traces(r.case)
  BY <1>2, ExportedRows DEF OfTrace, Exported
<1>4. PICK w \in log : /\ w.name = "call_llm" /\ w.resource = r.resource
                       /\ w.case = r.case /\ w.turn = r.turn
  BY <1>1 DEF IInv, Judged
<1>5. w \in Exported
  BY <1>1, <1>3, <1>4 DEF Exported
<1>6. w \in WithoutDecisions(EventLogRows) /\ RowOK(w)
  BY <1>4, <1>5, ExportedRows DEF WithoutDecisions, Decision
<1>7. w \in Plain(WithoutDecisions(EventLogRows))
  BY <1>4, <1>6, PlainFacts DEF RowOK, Transfer
<1> QED
  BY <1>1, <1>4, <1>7, ObjectIdFacts

LEMMA LinksAreResolved == IInv => LinksResolve
<1> SUFFICES ASSUME IInv
             PROVE  LinksResolve
  OBVIOUS
<1>1. PICK shared : shared = EventLogRows
  OBVIOUS
<1>2. PICK ocel : ocel = from_eventlog(shared)
  OBVIOUS
<1>3. PICK rows : rows = WithoutDecisions(shared)
  OBVIOUS
<1>4. PICK ext : ext = project_decisions(shared)
  OBVIOUS
<1>5. PICK events : events = {e.id : e \in ocel.events}
  OBVIOUS
<1>6. PICK objects : objects = {o.id : o \in ocel.objects}
  OBVIOUS
<1>7. Table(shared) /\ Table(rows)
  BY <1>1, <1>3, ExportIsTable, RowsFacts
<1>8. \A x, y : [id |-> x, type |-> y] \in ocel.objects => x \in objects
  <2> SUFFICES ASSUME NEW x, NEW y, [id |-> x, type |-> y] \in ocel.objects
               PROVE  x \in objects
    OBVIOUS
  <2>1. [id |-> x, type |-> y].id = x
    OBVIOUS
  <2> QED
    BY <1>6, <2>1
<1>9. /\ \A r \in Shown(rows) : ObjectId(r) \in objects
      /\ \A r \in Plain(rows) : HasMessage(r) => Message(r) \in objects
      /\ \A r \in Decisions(shared) :
            ToolCall(r.call) \in objects /\ Setup \in objects /\ Snapshot(r.resource) \in objects
      /\ \A r \in Noted(shared) : Guardrail \in objects
  BY <1>2, <1>3, <1>8, Objects
<1>10. /\ \A r \in Plain(rows) : EventId(r) \in events
       /\ \A p \in Handovers(rows) : EventId(p[1]) \in events
       /\ \A r \in Noted(shared) : GatewayEvent(r) \in events
  BY <1>2, <1>3, <1>5, Events
<1>11. SUFFICES ASSUME NEW l \in ocel.links
                PROVE  /\ l[1] \in events
                       /\ \/ l[2] \in objects
                          \/ \E r \in Decisions(shared) :
                                l[1] = GatewayEvent(r) /\ ~Traced(shared, r)
  BY <1>1, <1>2, <1>5, <1>6 DEF LinksResolve
<1>12. ASSUME NEW r \in rows, Kept(rows, r), r.case \in ext.setups,
              l = <<EventId(r), Setup, "under_setup">>
       PROVE  l[1] \in events /\ l[2] \in objects
  <2>1. EventId(r) \in events
    <3>1. CASE r \in Plain(rows)
      BY <1>10, <3>1
    <3>2. ASSUME NEW q \in rows, <<r, q>> \in Handovers(rows)
          PROVE  EventId(r) \in events
      BY <1>10, <3>2
    <3> QED
      BY <1>12, <3>1, <3>2, PlainFacts
  <2>2. \E d \in Decisions(shared) : d.case = r.case
    BY <1>4, <1>12, Converted
  <2> QED
    BY <1>9, <1>12, <2>1, <2>2
<1>13. ASSUME NEW r \in Plain(rows), l \in RowLinks(rows, r, ext)
       PROVE  l[1] \in events /\ l[2] \in objects
  <2>1. EventId(r) \in events /\ l[1] = EventId(r)
    BY <1>10, <1>13, RowLinkShape
  <2>2. CASE l = <<EventId(r), ObjectId(r), "by">>
    BY <1>9, <2>1, <2>2, ShownFacts
  <2>3. CASE HasMessage(r) /\ l = <<EventId(r), Message(r), "message">>
    BY <1>9, <2>1, <2>3
  <2>4. ASSUME NEW p \in RelatedPrompt(rows, r), l = <<EventId(r), Message(p), "prompt">>
        PROVE  l[2] \in objects
    <3>1. p \in rows /\ p.name = "user_prompt"
      BY DEF RelatedPrompt
    <3>2. p.tool = ""
      BY <1>7, <3>1 DEF Table, TableRow
    <3>3. p \in Plain(rows)
      BY <3>1, <3>2, PlainFacts DEF Transfer
    <3>4. HasMessage(p)
      BY <3>1 DEF HasMessage
    <3> QED
      BY <1>9, <2>4, <3>3, <3>4
  <2>5. ASSUME r.call \in ext.calls, l = <<EventId(r), ToolCall(r.call), "executes">>
        PROVE  l[2] \in objects
    <3>1. PICK d \in Decisions(shared) : d.call = r.call
      BY <1>4, <2>5, Converted
    <3> QED
      BY <1>9, <2>5, <3>1
  <2>6. ASSUME <<r.case, r.resource>> \in ext.snapshots,
               l = <<EventId(r), Snapshot(r.resource), "using_snapshot">>
        PROVE  l[2] \in objects
    <3>1. PICK d \in Decisions(shared) : <<d.case, d.resource>> = <<r.case, r.resource>>
      BY <1>4, <2>6, Converted
    <3>2. d.resource = r.resource
      BY <3>1
    <3> QED
      BY <1>9, <2>6, <3>1, <3>2
  <2> QED
    BY <1>13, <2>1, <2>2, <2>3, <2>4, <2>5, <2>6, RowLinkKinds
<1>14. ASSUME NEW p \in Handovers(rows), l \in HandoverLinks(p)
       PROVE  l[1] \in events /\ l[2] \in objects
  <2>1. PICK r \in {p[1], p[2]} : l = <<EventId(p[1]), ObjectId(r), "by">>
    BY <1>14, HandoverLinkKinds
  <2>2. r \in Shown(rows)
    BY ShownFacts
  <2> QED
    BY <1>9, <1>10, <2>1, <2>2
<1>15. ASSUME NEW r \in Noted(shared),
              l \in {<<GatewayEvent(r), AgentObject(r.case, r.resource), "evaluated_for">>,
                     <<GatewayEvent(r), Setup, "under_setup">>,
                     <<GatewayEvent(r), Snapshot(r.resource), "using_snapshot">>,
                     <<GatewayEvent(r), ToolCall(r.call), "decided_on">>,
                     <<GatewayEvent(r), Guardrail, r.decision>>}
       PROVE  /\ l[1] \in events
              /\ \/ l[2] \in objects
                 \/ \E d \in Decisions(shared) : l[1] = GatewayEvent(d) /\ ~Traced(shared, d)
  <2>1. r \in Decisions(shared) /\ l[1] = GatewayEvent(r) /\ l[1] \in events
    BY <1>10, <1>15 DEF Noted
  <2>2. CASE l[2] # AgentObject(r.case, r.resource)
    <3>1. l[2] \in {Setup, Snapshot(r.resource), ToolCall(r.call), Guardrail}
      BY <1>15, <2>2
    <3> QED
      BY <1>9, <2>1, <3>1
  <2>3. CASE l[2] = AgentObject(r.case, r.resource) /\ Traced(shared, r)
    <3>1. PICK w \in Plain(rows) : ObjectId(w) = AgentObject(r.case, r.resource)
      BY <1>1, <1>3, <2>1, <2>3, JudgedAgentShown
    <3> QED
      BY <1>9, <2>1, <2>3, <3>1, ShownFacts
  <2>4. CASE ~Traced(shared, r)
    BY <2>1, <2>4
  <2> QED
    BY <2>2, <2>3, <2>4
<1> QED
  BY <1>2, <1>3, <1>4, <1>12, <1>13, <1>14, <1>15, LinkKinds

\* The events and objects of links are in the log, the agents of turns under way
\* excepted.
THEOREM LinksResolved == Spec => []LinksResolve
<1>1. IInv => LinksResolve
  BY LinksAreResolved
<1> QED
  BY <1>1, Invariant, PTL
-----------------------------------------------------------------------------
(* Handovers are counted as they happened *)

\* A row that is not exported is of a turn under way.
LEMMA NotExported ==
    ASSUME IInv, NEW r \in log, OfTrace(r), r \notin Exported
    PROVE  Open(r)
<1>1. RowOK(r) /\ r.turn >= 1 /\ r.turn <= conv[r.case].turn
  BY DEF IInv, TypeOK, Turned
<1>2. r.case \in Cases /\ r.turn \in Nat /\ conv[r.case].turn \in Nat
  BY <1>1 DEF IInv, TypeOK, RowOK
<1>3. Traces(r.case) < r.turn
  <2>1. Traces(r.case) \in Int
    BY <1>2 DEF Traces
  <2>2. CASE r.case \in ExportedCases
    BY <1>2, <2>1, <2>2 DEF Exported
  <2>3. CASE r.case \notin ExportedCases
    BY <1>1, <1>2, <2>1, <2>3 DEF ExportedCases
  <2> QED
    BY <2>2, <2>3
<1>4. Running(r.case) /\ r.turn = conv[r.case].turn
  BY <1>1, <1>2, <1>3 DEF Traces
<1> QED
  BY <1>4 DEF Open

\* With one turn at a time, the agent of the next row is whom the work went to.
LEMMA HandoversAreSeen ==
    ASSUME IInv, ~overlapped, NEW rows, rows = WithoutDecisions(EventLogRows),
           NEW r \in rows, NEW q \in rows
    PROVE  IsHandover(rows, r, q) <=> Seen(rows, r, q)
<1>1. Table(rows) /\ \A p \in Exported : p.name # "gateway_decision" => p \in rows
  BY ExportIsTable, ExportedRows, RowsFacts
<1>2. TableRow(r) /\ TableRow(q) /\ r \in EventLogRows /\ q \in EventLogRows
      /\ r.name # "gateway_decision" /\ q.name # "gateway_decision"
  BY <1>1, ExportIsTable, RowsFacts DEF Table
<1>3. ASSUME r.tool = Transfer
      PROVE  /\ r.name = "execute_tool" /\ r.resource \in Agents /\ r.to \in Agents
             /\ r \in log
  <2>1. r.name = "execute_tool"
    BY <1>2, <1>3 DEF TableRow, Names, Transfer
  <2> QED
    BY <1>2, <2>1, ExportedRows DEF TableRow, Exported
<1>4. ASSUME Seen(rows, r, q)
      PROVE  IsHandover(rows, r, q)
  BY <1>3, <1>4 DEF Seen, IsHandover
<1>5. ASSUME IsHandover(rows, r, q)
      PROVE  Seen(rows, r, q)
  <2>1. /\ r.tool = Transfer /\ Follows(rows, r, q) /\ q.resource # r.resource
        /\ q.resource \in Agents
    BY <1>5 DEF IsHandover
  <2>2. q.name \in {"call_llm", "execute_tool"}
    BY <1>2, <2>1, AgentsAssumption DEF TableRow, Names
  <2>3. OfTrace(q) /\ q \in Exported /\ q \in log
    BY <1>2, <2>2, ExportedRows DEF OfTrace, Exported
  <2>4. Moves(r) /\ r \in log
    BY <1>3, <2>1 DEF Moves
  <2>5. NextOfTrace(r, q)
    <3> SUFFICES ASSUME NEW p \in log, OfTrace(p), r.time < p.time, p.time < q.time
                 PROVE  FALSE
      BY <2>1, <2>3 DEF NextOfTrace, Follows
    <3>1. p \notin Exported
      BY <1>1, <2>1 DEF Follows, OfTrace
    <3>2. Open(p)
      BY <3>1, NotExported
    <3>3. q.case = p.case /\ q.turn = p.turn
      BY <2>3, <3>2 DEF IInv, Alone, OneTurn
    <3>4. p \in Exported
      BY <2>3, <3>3 DEF Exported
    <3> QED
      BY <3>1, <3>4
  <2>6. q.case = r.case /\ q.turn = r.turn /\ q.resource = r.to
    BY <2>2, <2>3, <2>4, <2>5 DEF IInv, Alone, Moved
  <2> QED
    BY <2>1, <2>3, <2>6 DEF Seen
<1> QED
  BY <1>4, <1>5

\* The event of a handover.
HandoverEvent(p) ==
    [id |-> EventId(p[1]), type |-> <<"handover", p[1].resource, p[2].resource>>]

\* The events of handovers, and no others, count as such.
LEMMA HandoverEventsFacts ==
    ASSUME NEW shared, Table(shared)
    PROVE  HandoverEvents(from_eventlog(shared)) =
               {HandoverEvent(p) : p \in Handovers(WithoutDecisions(shared))}
<1>1. PICK rows : rows = WithoutDecisions(shared)
  OBVIOUS
<1>2. PICK events : events = from_eventlog(shared).events
  OBVIOUS
<1>3. Table(rows) /\ \A r \in rows : r.name # "gateway_decision"
  BY <1>1, RowsFacts
<1>4. events = NativeEvents(rows) \cup GatewayEvents(Noted(shared))
  BY <1>1, <1>2, Converted
<1>5. ASSUME NEW r \in rows
      PROVE  EventType(r)[1] # "handover"
  <2>1. TableRow(r)
    BY <1>3 DEF Table
  <2>2. CASE r.name = "execute_tool"
    <3>1. r.tool # "handover" /\ EventType(r) = <<r.tool>>
      BY <2>1, <2>2 DEF TableRow, Tools, Transfer, EventType
    <3> QED
      BY <3>1
  <2>3. CASE r.name = "call_llm" /\ r.message
    <3>1. EventType(r) = <<"agent_response">>
      BY <2>3 DEF EventType
    <3> QED
      BY <3>1
  <2>4. CASE r.name # "execute_tool" /\ ~(r.name = "call_llm" /\ r.message)
    <3>1. EventType(r) = <<r.name>> /\ r.name # "handover"
      BY <2>1, <2>4 DEF TableRow, Names, EventType
    <3> QED
      BY <3>1
  <2> QED
    BY <2>2, <2>3, <2>4
<1>6. \A p : HandoverEvent(p).type[1] = "handover"
  BY DEF HandoverEvent
<1>7. \A e \in GatewayEvents(Noted(shared)) : e.type[1] = "gateway"
  BY DEF GatewayEvents
<1>8. ASSUME NEW e \in events, e.type[1] = "handover"
      PROVE  e \in {HandoverEvent(p) : p \in Handovers(rows)}
  <2>1. e \in NativeEvents(rows)
    BY <1>4, <1>7, <1>8
  <2>2. \A r \in Plain(rows) : e # [id |-> EventId(r), type |-> EventType(r)]
    BY <1>5, <1>8, PlainFacts
  <2> QED
    BY <2>1, <2>2 DEF NativeEvents, HandoverEvent
<1>9. {HandoverEvent(p) : p \in Handovers(rows)} \subseteq events
  BY <1>4 DEF NativeEvents, HandoverEvent
<1> QED
  BY <1>1, <1>2, <1>6, <1>8, <1>9 DEF HandoverEvents

\* A handover is told from others by its event.
LEMMA HandoverEventInjective ==
    ASSUME NEW rows, Table(rows), NEW p \in Handovers(rows), NEW h \in Handovers(rows),
           HandoverEvent(p) = HandoverEvent(h)
    PROVE  p = h
<1>1. /\ p[1] \in rows /\ p[2] \in rows /\ IsHandover(rows, p[1], p[2]) /\ p = <<p[1], p[2]>>
      /\ h[1] \in rows /\ h[2] \in rows /\ IsHandover(rows, h[1], h[2]) /\ h = <<h[1], h[2]>>
  BY DEF Handovers
<1>2. p[1] = h[1]
  <2>1. EventId(p[1]) = EventId(h[1])
    BY DEF HandoverEvent
  <2>2. p[1].time = h[1].time
    BY ONLY <2>1, Identities
  <2> QED
    BY <1>1, <2>2 DEF Table
<1>3. p[2] = h[2]
  <2>1. p[2].time \in Nat /\ h[2].time \in Nat
    BY <1>1 DEF Table, TableRow
  <2>2. p[2].time = h[2].time
    BY <1>1, <1>2, <2>1 DEF IsHandover, Follows
  <2> QED
    BY <1>1, <2>2 DEF Table
<1> QED
  BY <1>1, <1>2, <1>3

\* The case map has a handover that took place in its case alone.
LEMMA HandoverCase ==
    ASSUME IInv, NEW p \in Handovers(WithoutDecisions(EventLogRows)),
           Seen(WithoutDecisions(EventLogRows), p[1], p[2]), NEW c
    PROVE  <<EventId(p[1]), c>> \in event_case_map(from_eventlog(EventLogRows)) <=> c = p[1].case
<1>1. PICK shared : shared = EventLogRows
  OBVIOUS
<1>2. PICK rows : rows = WithoutDecisions(shared)
  OBVIOUS
<1>3. PICK ocel : ocel = from_eventlog(shared)
  OBVIOUS
<1>4. Table(shared) /\ Table(rows)
  BY <1>1, <1>2, ExportIsTable, RowsFacts
<1>5. p \in Handovers(rows) /\ p[1] \in rows /\ p[1] \notin Plain(rows) /\ p[1] \in Shown(rows)
  BY <1>1, <1>2, PlainFacts, ShownFacts
<1>6. p = <<p[1], p[2]>> /\ p[2] \in rows
  BY <1>5 DEF Handovers
<1>7. p[2].case = p[1].case
  BY DEF Seen
<1>8. ASSUME <<EventId(p[1]), c>> \in event_case_map(ocel)
      PROVE  c = p[1].case
  <2>1. PICK l \in ocel.links : \E o \in CaseObjects(ocel) :
            l[2] = o.id /\ <<EventId(p[1]), c>> = <<l[1], CaseOf(l[2])>>
    BY <1>8, CaseMapFacts
  <2>2. l[1] = EventId(p[1]) /\ c = CaseOf(l[2])
    BY <2>1
  <2>3. l[2][1] \in {"agent", "case"}
    BY <1>3, <2>1, CaseObjectsFacts, ObjectIdFacts
  <2>4. PICK q \in rows : <<p[1], q>> \in Handovers(rows) /\ l[2] \in {ObjectId(p[1]), ObjectId(q)}
    BY <1>2, <1>3, <1>4, <1>5, <2>1, <2>2, <2>3, EventLinks
  <2>5. IsHandover(rows, p[1], q) /\ IsHandover(rows, p[1], p[2])
    BY <1>5, <2>4 DEF Handovers
  <2>6. q = p[2]
    <3>1. q.time \in Nat /\ p[2].time \in Nat
      BY <1>4, <1>6 DEF Table, TableRow
    <3>2. q.time = p[2].time
      BY <1>6, <2>5, <3>1 DEF IsHandover, Follows
    <3> QED
      BY <1>4, <1>6, <3>2 DEF Table
  <2> QED
    BY <1>7, <2>2, <2>4, <2>6, ObjectIdFacts
<1>9. <<EventId(p[1]), p[1].case>> \in event_case_map(ocel)
  <2>1. PICK l : l = <<EventId(p[1]), ObjectId(p[1]), "by">>
    OBVIOUS
  <2>2. l \in ocel.links
    BY <1>2, <1>3, <1>5, <2>1, ByLinks
  <2>3. PICK o \in CaseObjects(ocel) : o.id = ObjectId(p[1])
    BY <1>1, <1>2, <1>3, <1>5, CaseObjectOfRow
  <2>4. l[1] = EventId(p[1]) /\ l[2] = o.id
    BY <2>1, <2>3
  <2>5. <<l[1], CaseOf(l[2])>> \in event_case_map(ocel)
    BY <2>2, <2>4, CaseMapFacts
  <2>6. CaseOf(l[2]) = p[1].case
    BY <2>3, <2>4, ObjectIdFacts
  <2> QED
    BY <2>4, <2>5, <2>6
<1> QED
  BY <1>1, <1>3, <1>8, <1>9

\* As many handovers as events of them.
LEMMA SameNumber ==
    ASSUME NEW rows, Table(rows), NEW some \in SUBSET Handovers(rows), NEW events,
           \A p \in some : HandoverEvent(p) \in events,
           \A e \in events : \E p \in some : e = HandoverEvent(p)
    PROVE  Cardinality(events) = Cardinality(some)
<1>1. IsFiniteSet(rows \X rows)
  BY FS_Product DEF Table
<1>2. some \in SUBSET (rows \X rows)
  BY DEF Handovers
<1>3. IsFiniteSet(some)
  BY <1>1, <1>2, FS_Subset
<1>4. PICK f : f = [p \in some |-> HandoverEvent(p)]
  OBVIOUS
<1>5. f \in [some -> events] /\ \A p \in some : f[p] = HandoverEvent(p)
  BY <1>4
<1>6. f \in Surjection(some, events)
  BY <1>5 DEF Surjection
<1>7. f \in Injection(some, events)
  <2>1. \A p, h \in some : f[p] = f[h] => p = h
    BY <1>5, HandoverEventInjective
  <2> QED
    BY <1>5, <2>1 DEF Injection, IsInjective
<1> QED
  BY <1>3, <1>6, <1>7, FS_Surjection

LEMMA HandoversAreTrue == IInv => HandoversTrue
<1> SUFFICES ASSUME IInv
             PROVE  HandoversTrue
  OBVIOUS
<1>1. PICK shared : shared = EventLogRows
  OBVIOUS
<1>2. PICK rows : rows = WithoutDecisions(shared)
  OBVIOUS
<1>3. PICK ocel : ocel = from_eventlog(shared)
  OBVIOUS
<1>4. PICK real : real = {p \in rows \X rows : Seen(rows, p[1], p[2])}
  OBVIOUS
<1>5. SUFFICES ASSUME ~overlapped
               PROVE  /\ \A c \in Cases : handover_counts_per_case(ocel)[c] =
                             Cardinality({p \in real : p[1].case = c})
                      /\ \A pair \in Agents \X Agents : handover_matrix(ocel)[pair] =
                             Cardinality({p \in real : <<p[1].resource, p[1].to>> = pair})
  BY <1>1, <1>2, <1>3, <1>4 DEF HandoversTrue
<1>6. Table(shared) /\ Table(rows)
  BY <1>1, <1>2, ExportIsTable, RowsFacts
<1>7. real = Handovers(rows)
  BY <1>1, <1>2, <1>4, <1>5, HandoversAreSeen DEF Handovers
<1>8. PICK events : events = HandoverEvents(ocel)
  OBVIOUS
<1>9. events = {HandoverEvent(p) : p \in real}
  BY <1>2, <1>3, <1>6, <1>7, <1>8, HandoverEventsFacts
<1>10. ASSUME NEW c \in Cases
       PROVE  handover_counts_per_case(ocel)[c] = Cardinality({p \in real : p[1].case = c})
  <2>1. PICK some : some = {p \in real : p[1].case = c}
    OBVIOUS
  <2>2. PICK counted : counted = {e \in events : <<e.id, c>> \in event_case_map(ocel)}
    OBVIOUS
  <2>3. handover_counts_per_case(ocel)[c] = Cardinality(counted)
    BY <1>8, <2>2 DEF handover_counts_per_case
  <2>4. ASSUME NEW p \in real
        PROVE  HandoverEvent(p) \in counted <=> p \in some
    <3>1. HandoverEvent(p) \in events /\ HandoverEvent(p).id = EventId(p[1])
      BY <1>9 DEF HandoverEvent
    <3>2. <<EventId(p[1]), c>> \in event_case_map(ocel) <=> c = p[1].case
      BY <1>1, <1>2, <1>3, <1>4, <1>7, HandoverCase
    <3> QED
      BY <2>1, <2>2, <3>1, <3>2
  <2>5. some \in SUBSET Handovers(rows)
    BY <1>7, <2>1
  <2>6. \A p \in some : HandoverEvent(p) \in counted
    BY <2>1, <2>4
  <2>7. \A e \in counted : \E p \in some : e = HandoverEvent(p)
    BY <1>9, <2>2, <2>4
  <2>8. Cardinality(counted) = Cardinality(some)
    BY ONLY <1>6, <2>5, <2>6, <2>7, SameNumber
  <2> QED
    BY <2>1, <2>3, <2>8
<1>11. ASSUME NEW pair \in Agents \X Agents
       PROVE  handover_matrix(ocel)[pair] =
                  Cardinality({p \in real : <<p[1].resource, p[1].to>> = pair})
  <2>1. PICK some : some = {p \in real : <<p[1].resource, p[1].to>> = pair}
    OBVIOUS
  <2>2. PICK counted : counted = {e \in events : e.type = <<"handover", pair[1], pair[2]>>}
    OBVIOUS
  <2>3. handover_matrix(ocel)[pair] = Cardinality(counted)
    BY <1>8, <2>2 DEF handover_matrix
  <2>4. ASSUME NEW p \in real
        PROVE  HandoverEvent(p) \in counted <=> p \in some
    <3>1. /\ HandoverEvent(p) \in events
          /\ HandoverEvent(p).type = <<"handover", p[1].resource, p[2].resource>>
      BY <1>9 DEF HandoverEvent
    <3>2. p[2].resource = p[1].to
      BY <1>4 DEF Seen
    <3>3. pair = <<pair[1], pair[2]>>
      OBVIOUS
    <3>4. <<"handover", p[1].resource, p[1].to>> = <<"handover", pair[1], pair[2]>>
            <=> <<p[1].resource, p[1].to>> = <<pair[1], pair[2]>>
      OBVIOUS
    <3> QED
      BY <2>1, <2>2, <3>1, <3>2, <3>3, <3>4
  <2>5. some \in SUBSET Handovers(rows)
    BY <1>7, <2>1
  <2>6. \A p \in some : HandoverEvent(p) \in counted
    BY <2>1, <2>4
  <2>7. \A e \in counted : \E p \in some : e = HandoverEvent(p)
    BY <1>9, <2>2, <2>4
  <2>8. Cardinality(counted) = Cardinality(some)
    BY ONLY <1>6, <2>5, <2>6, <2>7, SameNumber
  <2> QED
    BY <2>1, <2>3, <2>8
<1> QED
  BY <1>10, <1>11

\* Where turns never ran at the same time, the metrics count each handover that
\* took place, for its case and for its two agents, and no other.
THEOREM HandoversCounted == Spec => []HandoversTrue
<1>1. IInv => HandoversTrue
  BY HandoversAreTrue
<1> QED
  BY <1>1, Invariant, PTL
=============================================================================
