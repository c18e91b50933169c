------------------------------- MODULE AgentTurn -------------------------------
(***************************************************************************)
(* One conversation of the swarm: the guarded subgraph of each agent       *)
(* (control_plane/subgraph.py), the deferral of handoffs (llm.py), what an  *)
(* agent's model is shown (context_isolation.py), the handover between     *)
(* agents (shared_components.py) and the reply the customer gets           *)
(* (stream.py, conversation.py).                                           *)
(*                                                                         *)
(* The model and the judges may answer anything.  A subgraph works on a    *)
(* copy of the swarm's messages: it is merged back when the agent ends the *)
(* turn, and lost when it hands over, which adds the ToolMessage of the    *)
(* handover alone.                                                         *)
(***************************************************************************)
EXTENDS Naturals, FiniteSets, SequencesExt

CONSTANTS Agents,
          Entry,             \* the agent a conversation starts with
          Handovers,         \* the handovers allowed to each agent
          Nobody,            \* a name the model made up
          Parallel,          \* whether a response may hold several calls (Ollama)
          MaxAgentMessages,  \* MAX_AGENT_MESSAGES
          MaxRetries,        \* MAX_RESPONSE_GUARDRAIL_RETRIES
          MaxCalls,          \* max_calls of the guardrail on the ordinary tool
          MaxBatch,          \* bound on the calls of a response
          MaxTurns,          \* bound on the customer's messages in a conversation
          MaxIds             \* bound on the messages of the agents

\* The ordinary tool, as the target of a call.
Tool == "tool"

ASSUME AgentsAssumption ==
    /\ Entry \in Agents /\ Nobody \notin Agents /\ Tool \notin Agents \cup {Nobody}
    /\ Handovers \in [Agents -> SUBSET Agents]

ASSUME LimitsAssumption ==
    /\ Parallel \in BOOLEAN
    /\ {MaxAgentMessages, MaxRetries, MaxCalls, MaxTurns, MaxIds} \subseteq Nat
    /\ MaxBatch \in Nat \ {0}

VARIABLES
    messages,           \* the conversation, as the swarm checkpoints it
    active_agent,
    state,              \* the messages of the subgraph that runs
    node,               \* its next node
    pending,            \* _pending of each agent's _HandoffDeferrer
    held,               \* extract_messages: the message it holds back
    last_agent_message, \* the reply send_message returns
    ids,                \* ids given so far
    \* history, read by the properties only
    approved, rejected, \* replies by the verdict on them
    aborted             \* whether a turn was ever abandoned

history == <<approved, rejected, aborted>>
vars == <<messages, active_agent, state, node, pending, held, last_agent_message,
          ids, history>>

-----------------------------------------------------------------------------
(* Tool calls and messages.                                                *)

\* A call of the ordinary tool, or of transfer_to_agent.
CallType == [id: (1..MaxIds) \X (1..MaxBatch), to: Agents \cup {Nobody, Tool}]

NoCall == [id |-> <<0, 0>>, to |-> Tool]

IsHandoff(call) == call.to # Tool

IsOrdinary(call) == call.to = Tool

\* What a sequence has at these places, in its order.
AtPlaces(s, places) ==
    [n \in 1..Cardinality(places) |->
        s[CHOOSE k \in places : Cardinality({j \in places : j <= k}) = n]]

Handoffs(calls) == AtPlaces(calls, {k \in DOMAIN calls : IsHandoff(calls[k])})

Ordinaries(calls) == AtPlaces(calls, {k \in DOMAIN calls : IsOrdinary(calls[k])})

Message(kind) == [kind |-> kind, id |-> 0, text |-> FALSE, calls |-> <<>>,
                  answers |-> NoCall, ok |-> TRUE]

AIMessage(id, text, calls) ==
    [Message("ai") EXCEPT !.id = id, !.text = text, !.calls = calls]

ToolMessage(call, ok) == [Message("tool") EXCEPT !.answers = call, !.ok = ok]

IsUser(m) == m.kind = "user"

IsCorrection(m) == m.kind = "correction"

IsReply(m) == m.kind = "ai" /\ m.text /\ m.calls = <<>>

SinceLastUserTurn(msgs) ==
    SubSeq(msgs, SelectLastInSeq(msgs, IsUser) + 1, Len(msgs))

corrections_since_last_user_turn(msgs) ==
    Len(SelectSeq(SinceLastUserTurn(msgs), IsCorrection))

-----------------------------------------------------------------------------
(* context_isolation.py                                                    *)

\* The messages after the last handover to the agent, or all of them.
current_turn_messages(msgs, agent) ==
    LET Boundary(m) == m.kind = "tool" /\ m.ok /\ m.answers.to = agent
    IN  SubSeq(msgs, SelectLastInSeq(msgs, Boundary) + 1, Len(msgs))

strip_orphaned_tool_messages(msgs) ==
    LET known == {c.id : c \in UNION {ToSet(m.calls) : m \in ToSet(msgs)}}
        Kept(m) == m.kind # "tool" \/ m.answers.id \in known
    IN  AtPlaces(msgs, {k \in DOMAIN msgs : Kept(msgs[k])})

own_messages == strip_orphaned_tool_messages(current_turn_messages(state, active_agent))

-----------------------------------------------------------------------------
(* _HandoffDeferrer                                                        *)

\* Mutant of HandoffDeferrer: a handoff that is issued again does not discard
\* the one that waits.
HandoffDeferrer_Keeps(waiting, calls) ==
    LET handoffs == Handoffs(calls)
        others == Ordinaries(calls)
    IN  IF waiting # NoCall /\ calls = <<>>
        THEN [calls |-> <<waiting>>, pending |-> NoCall]
        ELSE IF handoffs # <<>> /\ others # <<>>
        THEN [calls |-> others, pending |-> Head(handoffs)]
        ELSE [calls |-> calls, pending |-> waiting]

\* Mutant of HandoffDeferrer: any new response discards the one that waits.
HandoffDeferrer_Forgets(waiting, calls) ==
    LET handoffs == Handoffs(calls)
        others == Ordinaries(calls)
    IN  IF waiting # NoCall /\ calls = <<>>
        THEN [calls |-> <<waiting>>, pending |-> NoCall]
        ELSE IF handoffs # <<>> /\ others # <<>>
        THEN [calls |-> others, pending |-> Head(handoffs)]
        ELSE [calls |-> calls, pending |-> NoCall]

\* Mutant of HandoffDeferrer: the handoff is injected into the next response,
\* whatever that holds.
HandoffDeferrer_InjectsNext(waiting, calls) ==
    LET handoffs == Handoffs(calls)
        others == Ordinaries(calls)
    IN  IF waiting # NoCall /\ handoffs = <<>>
        THEN [calls |-> Append(calls, waiting), pending |-> NoCall]
        ELSE IF handoffs # <<>> /\ others # <<>>
        THEN [calls |-> others, pending |-> Head(handoffs)]
        ELSE [calls |-> calls, pending |-> NoCall]

\* A handoff among other calls waits until a response has no call at all; one
\* that is issued meanwhile takes its place.
HandoffDeferrer(waiting, calls) ==
    LET handoffs == Handoffs(calls)
        others == Ordinaries(calls)
    IN  IF waiting # NoCall /\ calls = <<>>
        THEN [calls |-> <<waiting>>, pending |-> NoCall]
        ELSE IF handoffs # <<>> /\ others # <<>>
        THEN [calls |-> others, pending |-> Head(handoffs)]
        ELSE [calls |-> calls, pending |-> IF handoffs # <<>> THEN NoCall ELSE waiting]

bind_tools_sequential(waiting, calls) ==
    IF Parallel THEN HandoffDeferrer(waiting, calls)
    ELSE [calls |-> calls, pending |-> waiting]

-----------------------------------------------------------------------------
(* extract_messages holds back one message, until the next one shows       *)
(* whether it was rejected.                                                *)

NotHeld == [id |-> 0, reply |-> FALSE]

Yielded == IF held.reply THEN held.id ELSE last_agent_message

Streamed(m) ==
    /\ last_agent_message' = Yielded
    /\ held' = [id |-> m.id, reply |-> IsReply(m)]

\* Mutant of Rejection: what was held back is yielded as it is.
Rejection_Ignored(id, next) == last_agent_message' = Yielded /\ held' = next

\* The marker of a rejected message downgrades it, if it is the one held back.
Rejection(id, next) ==
    /\ last_agent_message' = IF held.id = id THEN last_agent_message ELSE Yielded
    /\ held' = next

-----------------------------------------------------------------------------
(* The customer.                                                           *)

Init ==
    /\ messages = <<>> /\ state = <<>>
    /\ active_agent = Entry /\ node = "idle"
    /\ pending = [a \in Agents |-> NoCall]
    /\ held = NotHeld /\ last_agent_message = 0 /\ ids = 0
    /\ approved = {} /\ rejected = {} /\ aborted = FALSE

\* Another conversation of the same process: the checkpoints are per thread_id,
\* the deferrers are not.
NewConversation ==
    /\ node = "idle" /\ messages # <<>>
    /\ messages' = <<>> /\ active_agent' = Entry
    /\ last_agent_message' = 0
    /\ UNCHANGED <<state, node, pending, held, ids, approved, rejected, aborted>>

\* The message goes to the agent that was active last.
send_message ==
    /\ node = "idle" /\ Len(SelectSeq(messages, IsUser)) < MaxTurns
    /\ messages' = Append(messages, Message("user"))
    /\ state' = messages'
    /\ node' = "llm"
    /\ held' = NotHeld /\ last_agent_message' = 0
    /\ UNCHANGED <<active_agent, pending, ids, history>>

\* The subgraph's messages are merged; the stream ends.
EndTurn ==
    /\ node = "end"
    /\ messages' = state /\ state' = <<>> /\ node' = "idle"
    /\ last_agent_message' = Yielded /\ held' = NotHeld
    /\ UNCHANGED <<active_agent, pending, ids, history>>

\* The model, a tool or the log raises, or ContextOverflowError is raised: the
\* stream breaks, and what the subgraph did is not merged.
Abandon ==
    /\ node # "idle"
    /\ state' = <<>> /\ node' = "idle"
    /\ held' = NotHeld /\ last_agent_message' = 0
    /\ aborted' = TRUE
    /\ UNCHANGED <<messages, active_agent, pending, ids, approved, rejected>>

-----------------------------------------------------------------------------
(* The nodes of an agent's subgraph.                                       *)

Responses ==
    UNION {[1..n -> Agents \cup {Nobody, Tool}] :
              n \in 0..(IF Parallel THEN MaxBatch ELSE 1)}

llm_node(targets, text) ==
    LET calls == [k \in DOMAIN targets |-> [id |-> <<ids + 1, k>>, to |-> targets[k]]]
        bound == bind_tools_sequential(pending[active_agent], calls)
        ai == AIMessage(ids + 1, text, bound.calls)
    IN
    /\ node = "llm" /\ Len(own_messages) <= MaxAgentMessages
    /\ ids < MaxIds
    /\ state' = Append(state, ai)
    /\ pending' = [pending EXCEPT ![active_agent] = bound.pending]
    /\ ids' = ids + 1
    /\ Streamed(ai)
    /\ node' = "response_gateway"
    /\ UNCHANGED <<messages, active_agent, history>>

\* A message with calls is not judged, nor is one without text.
PassUnjudged ==
    LET last == Last(state) IN
    /\ node = "response_gateway" /\ ~IsReply(last)
    /\ node' = IF last.calls # <<>> THEN "gateway" ELSE "end"
    /\ UNCHANGED <<messages, active_agent, state, pending, held, last_agent_message,
                   ids, history>>

Approve ==
    /\ node = "response_gateway" /\ IsReply(Last(state))
    /\ approved' = approved \cup {Last(state).id}
    /\ node' = "end"
    /\ UNCHANGED <<messages, active_agent, state, pending, held, last_agent_message,
                   ids, rejected, aborted>>

\* Mutant of Reject: the rejected message stays.
Reject_Keeps ==
    LET last == Last(state) IN
    /\ node = "response_gateway" /\ IsReply(last)
    /\ corrections_since_last_user_turn(state) < MaxRetries
    /\ rejected' = rejected \cup {last.id}
    /\ state' = Append(state, Message("correction"))
    /\ Rejection(last.id, NotHeld)
    /\ node' = "llm"
    /\ UNCHANGED <<messages, active_agent, pending, ids, approved, aborted>>

Reject ==
    LET last == Last(state) IN
    /\ node = "response_gateway" /\ IsReply(last)
    /\ corrections_since_last_user_turn(state) < MaxRetries
    /\ rejected' = rejected \cup {last.id}
    /\ state' = Append(Front(state), Message("correction"))
    /\ Rejection(last.id, NotHeld)
    /\ node' = "llm"
    /\ UNCHANGED <<messages, active_agent, pending, ids, approved, aborted>>

\* The retries are used up: the fallback takes the message's place.
FallBack ==
    LET last == Last(state) IN
    /\ node = "response_gateway" /\ IsReply(last)
    /\ corrections_since_last_user_turn(state) >= MaxRetries
    /\ rejected' = rejected \cup {last.id}
    /\ ids < MaxIds
    /\ ids' = ids + 1
    /\ state' = Append(Front(state), AIMessage(ids + 1, TRUE, <<>>))
    /\ Rejection(last.id, [id |-> ids + 1, reply |-> TRUE])
    /\ approved' = approved \cup {ids + 1}
    /\ node' = "end"
    /\ UNCHANGED <<messages, active_agent, pending, aborted>>

\* Mutant of allowed_handover_targets: any target will do.
allowed_handover_targets_Any(call) == TRUE

allowed_handover_targets(call) == IsHandoff(call) => call.to \in Handovers[active_agent]

\* Runs of the ordinary tool that the messages show.
Runs(msgs) ==
    LET Ran(m) == m.kind = "tool" /\ m.ok /\ IsOrdinary(m.answers)
    IN  Len(SelectSeq(msgs, Ran))

max_tool_calls(call) == IsOrdinary(call) => Runs(state) < MaxCalls

MayAllow(call) == allowed_handover_targets(call) /\ max_tool_calls(call)

Allow ==
    /\ node = "gateway"
    /\ \A call \in ToSet(Last(state).calls) : MayAllow(call)
    /\ node' = "tools"
    /\ UNCHANGED <<messages, active_agent, state, pending, held, last_agent_message,
                   ids, history>>

\* Mutant of Deny: only the calls that were denied are answered.
Deny_DeniedOnly ==
    LET calls == Last(state).calls
        Denied(call) == ~MayAllow(call)
    IN
    /\ node = "gateway"
    /\ \/ /\ SelectSeq(calls, Denied) # <<>>
          /\ state' = state \o [k \in DOMAIN SelectSeq(calls, Denied) |->
                                  ToolMessage(SelectSeq(calls, Denied)[k], FALSE)]
       \/ state' = state \o [k \in DOMAIN calls |-> ToolMessage(calls[k], FALSE)]
    /\ Streamed(Last(state'))
    /\ node' = "llm"
    /\ UNCHANGED <<messages, active_agent, pending, ids, history>>

\* One denied call (any call may be, by a guardrail that is not modelled) and
\* the whole batch is answered with errors.
Deny ==
    LET calls == Last(state).calls IN
    /\ node = "gateway"
    /\ state' = state \o [k \in DOMAIN calls |-> ToolMessage(calls[k], FALSE)]
    /\ Streamed(Last(state'))
    /\ node' = "llm"
    /\ UNCHANGED <<messages, active_agent, pending, ids, history>>

RunTools ==
    LET calls == Last(state).calls IN
    /\ node = "tools" /\ Handoffs(calls) = <<>>
    /\ state' = state \o [k \in DOMAIN calls |-> ToolMessage(calls[k], TRUE)]
    /\ Streamed(Last(state'))
    /\ node' = "llm"
    /\ UNCHANGED <<messages, active_agent, pending, ids, history>>

\* The first handoff's Command takes the swarm to the next agent.
transfer_to_agent ==
    LET calls == Last(state).calls
        handoffs == Handoffs(calls)
    IN
    /\ node = "tools" /\ handoffs # <<>>
    /\ messages' = Append(messages, ToolMessage(Head(handoffs), TRUE))
    /\ active_agent' = Head(handoffs).to
    /\ state' = messages'
    /\ Streamed(Last(messages'))
    /\ node' = "llm"
    /\ UNCHANGED <<pending, ids, history>>

Next ==
    \/ NewConversation \/ send_message \/ EndTurn \/ Abandon
    \/ \E targets \in Responses, text \in BOOLEAN : llm_node(targets, text)
    \/ PassUnjudged \/ Approve \/ Reject \/ FallBack
    \/ Allow \/ Deny \/ RunTools \/ transfer_to_agent

Spec == Init /\ [][Next]_vars

-----------------------------------------------------------------------------
(* Properties.                                                             *)

MessageType ==
    [kind: {"user", "ai", "tool", "correction"}, id: 0..MaxIds, text: BOOLEAN,
     calls: Seq(CallType), answers: CallType \cup {NoCall}, ok: BOOLEAN]

\* The variables keep their shape; the swarm is never at an agent that the
\* model made up.
TypeOK ==
    /\ messages \in Seq(MessageType) /\ state \in Seq(MessageType)
    /\ active_agent \in Agents
    /\ node \in {"idle", "llm", "response_gateway", "gateway", "tools", "end"}
    /\ pending \in [Agents -> CallType \cup {NoCall}]
    /\ held \in [id: 0..MaxIds, reply: BOOLEAN]
    /\ last_agent_message \in 0..MaxIds /\ ids \in 0..MaxIds
    /\ approved \subseteq 1..MaxIds /\ rejected \subseteq 1..MaxIds
    /\ aborted \in BOOLEAN

\* What the customer is given is the last word of the agent that ended the
\* turn, and the judges let it pass or it is the fallback: never a rejected
\* text, nor an older one.
ReplyIsApprovedLastWord ==
    (node = "idle" /\ messages # <<>>) =>
        LET last == Last(messages) IN
        IF IsReply(last)
        THEN last_agent_message = last.id /\ last.id \in approved
        ELSE last_agent_message = 0

\* A rejected text is in no message list an agent may be shown later, in this
\* turn or another.
RejectedIsGone ==
    \A m \in ToSet(messages) \cup ToSet(state) : m.id \notin rejected

\* "the Anthropic tool_use/tool_result invariant" (subgraph.py): in what a model
\* is shown, the calls of a message are answered, all and in order, by the
\* messages that follow it, and nothing answers a call that is not there.
CallsAnswered ==
    node = "llm" =>
        LET own == own_messages
            Answer(k) == own[k].kind = "tool"
        IN  /\ \A k \in DOMAIN own : \A c \in DOMAIN own[k].calls :
                  /\ k + c \in DOMAIN own
                  /\ Answer(k + c) /\ own[k + c].answers = own[k].calls[c]
            /\ \A k \in DOMAIN own : Answer(k) =>
                  \E i \in 1..(k - 1) : own[k].answers \in ToSet(own[i].calls)

\* A handoff that waits belongs to the visit under way: none is left behind
\* when an agent ends the turn or hands over.  (An abandoned turn leaves its own
\* behind, for the next conversation.)
PendingIsCurrent ==
    \A a \in Agents : pending[a] # NoCall =>
        aborted \/ (node # "idle" /\ a = active_agent)

\* A handoff that waits ceases to wait only by a response that hands over: it
\* is not forgotten, whatever the model does in between.
DeferredIsIssued ==
    [][\A a \in Agents : (pending[a] # NoCall /\ pending'[a] = NoCall) =>
          \E c \in ToSet(Last(state').calls) : IsHandoff(c)]_vars

\* No tool is executed in a batch that hands over, which would lose its result.
\* (A response of nothing but handoffs is one batch: see OnlyFirstHandoffKept.)
NoWorkBesideHandover ==
    node = "tools" => \/ \A c \in ToSet(Last(state).calls) : IsHandoff(c)
                      \/ \A c \in ToSet(Last(state).calls) : IsOrdinary(c)

\* "if the model emits multiple handoffs in a single response only the first is
\* kept" (llm.py, _HandoffDeferrer): no batch that is executed hands over twice.
OnlyFirstHandoffKept ==
    Parallel /\ node = "tools" => Len(Handoffs(Last(state).calls)) <= 1
=============================================================================
