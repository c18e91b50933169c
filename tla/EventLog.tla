------------------------------- MODULE EventLog -------------------------------
(***************************************************************************)
(* From what conversations do to what the metrics say of them: the traces  *)
(* and logs a conversation leaves (MLflow's spans, guardrail_log, the       *)
(* coffee machine's CSV), the flat event log made of them                  *)
(* (log_generator.py, trace_processor.py), its conversion to an            *)
(* object-centric one (eventlog_conversion.py, guardrail_log_loader.py)    *)
(* and the counts of eventlog_helpers.py.                                  *)
(*                                                                         *)
(* The conversion is a function of the flat log, and what it loses or      *)
(* mistakes depends on the order in which conversations that run at the    *)
(* same time wrote their rows: `log` has all rows with their time stamps,  *)
(* and the functions are applied to what a sync took of it.  A table that   *)
(* is sorted by time is a set of rows here, and the next row of the table   *)
(* the one with the next time stamp (Follows).                              *)
(***************************************************************************)
EXTENDS Naturals, FiniteSets, Sequences

CONSTANTS Cases,      \* conversations, the cases of the process
          Agents,     \* _HANDOVER_AGENTS
          FirstAgent, \* default_active_agent
          MaxTurns,   \* bound on the turns of all conversations
          MaxVerdicts,\* bound on the flags and denials of the gateway
          MaxRows     \* bound on the rows that are not the gateway's

ASSUME AgentsAssumption ==
    /\ FirstAgent \in Agents
    /\ Agents \cap {"user", "coffee_machine", "message", "setup", "snapshot", "tool_call",
                    "guardrail"} = {}

VARIABLES
    log,        \* the rows of all sources
    clock,      \* later than any of them
    conv,       \* where each conversation is
    brewing,    \* the conversations for whom the coffee machine has a job
    overlapped  \* history: whether two turns ever ran at the same time

vars == <<log, clock, conv, brewing, overlapped>>

Effects == {"allow", "flag", "deny"}

Transfer == "transfer_to_agent"

\* What a model may ask for: a transfer, which the deferral of handoffs leaves
\* alone, or other tools, two at a time.
Batches ==
    {<<[tool |-> Transfer, to |-> a]>> : a \in Agents}
      \cup {[k \in 1..2 |-> [tool |-> "start_preparation", to |-> FirstAgent]]}

\* A row: the columns the conversion reads, with the turn it was written in and
\* the agent a transfer goes to, which the flat log does not tell.
Row(c, name, who) ==
    [time |-> clock, case |-> c, turn |-> conv[c].turn, name |-> name, resource |-> who,
     message |-> FALSE, tool |-> "", to |-> who, call |-> <<0, 0>>, decision |-> ""]

Init ==
    /\ log = {}
    /\ clock = 0
    /\ conv = [c \in Cases |-> [phase |-> "waiting", agent |-> FirstAgent, turn |-> 0,
                                batch |-> << >>]]
    /\ brewing = {}
    /\ overlapped = FALSE

-----------------------------------------------------------------------------
(* What conversations write *)

At(c, phase) == conv[c].phase = phase

Running(c) == conv[c].phase \in {"llm", "tools"}

Decision(r) == r.name = "gateway_decision"

\* The rows of a step get time stamps of their own, and leave the millisecond of
\* a feedback.
Write(rows) ==
    /\ log' = log \cup rows
    /\ clock' = clock + 4
    /\ Cardinality({r \in log' : ~Decision(r)}) <= MaxRows
    /\ Cardinality({r \in log' : r.decision \in {"flag", "deny"}}) <= MaxVerdicts

\* The root span of a turn.
user_prompt(c) ==
    /\ At(c, "waiting")
    /\ Cardinality({r \in log : r.name = "user_prompt"}) < MaxTurns
    /\ conv' = [conv EXCEPT ![c].phase = "llm", ![c].turn = @ + 1]
    /\ Write({[Row(c, "user_prompt", "user") EXCEPT !.turn = @ + 1]})
    /\ overlapped' = (overlapped \/ \E d \in Cases : Running(d))
    /\ UNCHANGED brewing

LlmRow(c, message) == [Row(c, "call_llm", conv[c].agent) EXCEPT !.message = message]

\* The record the gateway appends for a call.
DecisionRow(c, call, effect) ==
    [Row(c, "gateway_decision", conv[c].agent) EXCEPT
        !.time = @ + 1 + call.id[2],
        !.tool = call.tool, !.call = call.id, !.decision = effect]

\* The model answers the customer, and no guardrail is about the answer.
Answer(c) ==
    /\ At(c, "llm")
    /\ Write({LlmRow(c, TRUE)})
    /\ conv' = [conv EXCEPT ![c].phase = "waiting"]
    /\ UNCHANGED <<brewing, overlapped>>

\* A response guardrail denies the answer, and the model is called again.
AnswerDenied(c) ==
    /\ At(c, "llm")
    /\ Write({LlmRow(c, TRUE),
              DecisionRow(c, [tool |-> "assistant_message", id |-> <<clock, 1>>], "deny")})
    /\ UNCHANGED <<conv, brewing, overlapped>>

\* Mutant of Approved: the calls that are not denied run.
Approved_Each(effects) == \E k \in DOMAIN effects : effects[k] # "deny"

\* A call that is denied takes its batch with it.
Approved(effects) == \A k \in DOMAIN effects : effects[k] # "deny"

\* The model asks for tools, with a text or without, and the gateway judges and
\* logs every call of the batch.
Propose(c, batch, effects) ==
    LET calls == [k \in DOMAIN batch |-> [tool |-> batch[k].tool, to |-> batch[k].to,
                                          id |-> <<clock, k>>]]
    IN  /\ At(c, "llm")
        /\ \E text \in BOOLEAN :
              Write({LlmRow(c, text)}
                      \cup {DecisionRow(c, calls[k], effects[k]) : k \in DOMAIN effects})
        /\ conv' = IF Approved(effects)
                   THEN [conv EXCEPT ![c].phase = "tools", ![c].batch = calls]
                   ELSE conv
        /\ UNCHANGED <<brewing, overlapped>>

\* The batch runs in one span, and _process_tool_span makes one row of it,
\* for the first call.
RunTools(c) ==
    LET first == conv[c].batch[1]
        moves == first.tool = Transfer
    IN  /\ At(c, "tools")
        /\ Write({[Row(c, "execute_tool", conv[c].agent) EXCEPT
                     !.tool = first.tool, !.to = first.to, !.call = first.id]})
        /\ brewing' = IF moves THEN brewing ELSE brewing \cup {c}
        /\ conv' = [conv EXCEPT ![c].phase = "llm", ![c].batch = << >>,
                                ![c].agent = IF moves THEN first.to ELSE @]
        /\ UNCHANGED overlapped

\* The call of the model fails or is cut: its span has no output and gives no
\* row, and the turn is over.
Fail(c) ==
    /\ At(c, "llm")
    /\ conv' = [conv EXCEPT ![c].phase = "waiting"]
    /\ UNCHANGED <<log, clock, brewing, overlapped>>

\* The coffee machine logs what becomes of a brew in its own time; one row
\* stands for those of a job.
BrewEnds(c) ==
    /\ c \in brewing
    /\ Write({Row(c, "brew_completed", "coffee_machine")})
    /\ brewing' = brewing \ {c}
    /\ UNCHANGED <<conv, overlapped>>

\* The conversation ends and the customer rates it.
Finish(c) ==
    /\ At(c, "waiting") /\ conv[c].turn > 0
    /\ conv' = [conv EXCEPT ![c].phase = "over"]
    /\ UNCHANGED <<log, clock, brewing, overlapped>>

Next ==
    \E c \in Cases :
        \/ user_prompt(c) \/ Answer(c) \/ AnswerDenied(c) \/ Fail(c)
        \/ \E batch \in Batches : \E effects \in [DOMAIN batch -> Effects] :
               Propose(c, batch, effects)
        \/ RunTools(c) \/ BrewEnds(c) \/ Finish(c)

Spec == Init /\ [][Next]_vars

-----------------------------------------------------------------------------
(* The flat event log *)

\* MLflow has the trace of a turn when the turn is over.
Traces(c) == IF Running(c) THEN conv[c].turn - 1 ELSE conv[c].turn

\* Rows of traces, as opposed to those of the machine and of the gateway.
OfTrace(r) == r.name \in {"user_prompt", "call_llm", "execute_tool"}

ExportedCases == {c \in Cases : Traces(c) > 0}

\* The rows of an export: those of the traces, with all that the machine and the
\* gateway logged of their cases up to now.
Exported ==
    {r \in log : r.case \in ExportedCases /\ (OfTrace(r) => r.turn <= Traces(r.case))}

\* A case's feedback gets the time stamp of its last row of a trace, and a
\* millisecond.
FeedbackFollows(r) ==
    /\ At(r.case, "over") /\ OfTrace(r)
    /\ \A q \in log : q.case = r.case /\ r.time < q.time => ~OfTrace(q)

FeedbackRow(r) ==
    [r EXCEPT !.time = @ + 1, !.name = "user_feedback", !.resource = "user", !.tool = ""]

\* The export; it is sorted by time.
EventLogRows == Exported \cup {FeedbackRow(r) : r \in {q \in Exported : FeedbackFollows(q)}}

\* The next row of the table.
Follows(rows, r, q) ==
    r.time < q.time /\ \A p \in rows : ~(r.time < p.time /\ p.time < q.time)

-----------------------------------------------------------------------------
(* project_decisions: the gateway's part of the object-centric log *)

Decisions(rows) == {r \in rows : Decision(r)}

\* A deny or a flag is an event of its own, an allowed call is none.
GatewayEvent(r) == <<r.time, "gateway">>

GatewayEvents(noted) ==
    {[id |-> GatewayEvent(r), type |-> <<"gateway", r.decision>>] : r \in noted}

AgentObject(c, a) == <<"agent", c, a>>

Setup == <<"setup">>

Snapshot(a) == <<"snapshot", a>>

ToolCall(id) == <<"tool_call", id>>

Guardrail == <<"guardrail">>

\* Every call has its object, whatever was decided of it.
CallObjects(decided) == {[id |-> ToolCall(r.call), type |-> "tool_call"] : r \in decided}

GatewayObjects(decided, noted) ==
    {[id |-> Setup, type |-> "setup"] : r \in decided}
      \cup {[id |-> Snapshot(r.resource), type |-> "snapshot"] : r \in decided}
      \cup {[id |-> Guardrail, type |-> "guardrail"] : r \in noted}

GatewayLinks(noted) ==
    UNION {{<<GatewayEvent(r), AgentObject(r.case, r.resource), "evaluated_for">>,
            <<GatewayEvent(r), Setup, "under_setup">>,
            <<GatewayEvent(r), Snapshot(r.resource), "using_snapshot">>,
            <<GatewayEvent(r), ToolCall(r.call), "decided_on">>,
            <<GatewayEvent(r), Guardrail, r.decision>>} : r \in noted}

\* Mutant of project_decisions: a call that was allowed is passed over.
project_decisions_OnlyNoted(rows) ==
    LET decided == Decisions(rows)
        noted   == {r \in decided : r.decision # "allow"}
    IN  [events  |-> GatewayEvents(noted),
         objects |-> CallObjects(noted) \cup GatewayObjects(decided, noted),
         links   |-> GatewayLinks(noted),
         setups  |-> {r.case : r \in decided},
         snapshots |-> {<<r.case, r.resource>> : r \in decided},
         calls   |-> {r.call : r \in decided}]

\* The extension, with case_setup_map, case_agent_snapshot_map and tool_call_ids.
project_decisions(rows) ==
    LET decided == Decisions(rows)
        noted   == {r \in decided : r.decision # "allow"}
    IN  [events  |-> GatewayEvents(noted),
         objects |-> CallObjects(decided) \cup GatewayObjects(decided, noted),
         links   |-> GatewayLinks(noted),
         setups  |-> {r.case : r \in decided},
         snapshots |-> {<<r.case, r.resource>> : r \in decided},
         calls   |-> {r.call : r \in decided}]

-----------------------------------------------------------------------------
(* _preprocess_eventlog *)

\* The raw decisions are stripped once the gateway's part is made of them.
WithoutDecisions(rows) == {r \in rows : ~Decision(r)}

EventType(r) ==
    CASE r.name = "execute_tool" -> <<r.tool>>
      [] r.name = "call_llm" /\ r.message -> <<"agent_response">>
      [] OTHER -> <<r.name>>

\* An agent is an object of its case, all others are the case itself.
ObjectId(r) == IF r.resource \in Agents THEN AgentObject(r.case, r.resource)
               ELSE <<"case", r.case>>

HasMessage(r) == r.name \in {"user_prompt", "user_feedback"} \/ (r.name = "call_llm" /\ r.message)

Message(r) == <<"message", r.time>>

\* A row has an identity of its own; a handover has that of the transfer it
\* stands for.
EventId(r) == <<r.time, "row">>

\* Mutant of IsHandover: whoever has the next row got the work.
IsHandover_Anybody(rows, r, q) ==
    /\ r.tool = Transfer /\ Follows(rows, r, q)
    /\ q.resource # r.resource

\* The next row of the whole log is another agent's.
IsHandover(rows, r, q) ==
    /\ r.tool = Transfer /\ Follows(rows, r, q)
    /\ q.resource # r.resource
    /\ {r.resource, q.resource} \subseteq Agents

Handovers(rows) == {p \in rows \X rows : IsHandover(rows, p[1], p[2])}

\* Without a next row the flag is null, which neither filter keeps.
Kept(rows, r) == r.tool = Transfer => \E q \in rows : r.time < q.time

\* The rows that stay as they are.
Plain(rows) == {r \in rows : Kept(rows, r) /\ \A q \in rows : ~IsHandover(rows, r, q)}

\* The row before a response, if it is a prompt.
RelatedPrompt(rows, r) ==
    {p \in rows : /\ Follows(rows, p, r)
                  /\ EventType(r) = <<"agent_response">>
                  /\ p.name = "user_prompt"}

-----------------------------------------------------------------------------
(* from_eventlog *)

NativeEvents(rows) ==
    {[id |-> EventId(r), type |-> EventType(r)] : r \in Plain(rows)}
      \cup {[id |-> EventId(p[1]), type |-> <<"handover", p[1].resource, p[2].resource>>] :
            p \in Handovers(rows)}

\* A handover is two rows, one for each agent.
NativeObjects(rows) ==
    {[id |-> ObjectId(r), type |-> r.resource] :
        r \in Plain(rows) \cup UNION {{p[1], p[2]} : p \in Handovers(rows)}}
      \cup {[id |-> Message(r), type |-> "message"] : r \in {q \in Plain(rows) : HasMessage(q)}}

\* What a row that stays as it is is linked to.
RowLinks(rows, r, ext) ==
    {<<EventId(r), ObjectId(r), "by">>}
      \cup (IF HasMessage(r) THEN {<<EventId(r), Message(r), "message">>} ELSE {})
      \cup {<<EventId(r), Message(p), "prompt">> : p \in RelatedPrompt(rows, r)}
      \cup (IF r.name = "execute_tool" /\ r.call \in ext.calls
            THEN {<<EventId(r), ToolCall(r.call), "executes">>} ELSE {})
      \cup (IF <<r.case, r.resource>> \in ext.snapshots
            THEN {<<EventId(r), Snapshot(r.resource), "using_snapshot">>} ELSE {})

\* The two rows of a handover: all columns that are not kept by name are
\* emptied, the call and the resource among them.
HandoverLinks(p) == {<<EventId(p[1]), ObjectId(r), "by">> : r \in {p[1], p[2]}}

SetupLinks(rows, ext) ==
    {<<EventId(r), Setup, "under_setup">> :
        r \in {q \in rows : Kept(rows, q) /\ q.case \in ext.setups}}

NativeLinks(rows, ext) ==
    SetupLinks(rows, ext)
      \cup (UNION {RowLinks(rows, r, ext) : r \in Plain(rows)})
      \cup (UNION {HandoverLinks(p) : p \in Handovers(rows)})

\* The object-centric log of a flat one.
from_eventlog(shared) ==
    LET ext  == project_decisions(shared)
        rows == WithoutDecisions(shared)
    IN  [events  |-> NativeEvents(rows) \cup ext.events,
         objects |-> NativeObjects(rows) \cup ext.objects,
         links   |-> NativeLinks(rows, ext) \cup ext.links]

-----------------------------------------------------------------------------
(* eventlog_helpers *)

\* Mutant of CaseObjects: the customer is forgotten.
CaseObjects_AgentsOnly(ocel) == {o \in ocel.objects : o.type \in Agents}

CaseObjects(ocel) == {o \in ocel.objects : o.type \in Agents \cup {"user"}}

\* The agent's suffix is stripped from the identity of the object.
CaseOf(object) == object[2]

event_case_map(ocel) ==
    LET objects == {o.id : o \in CaseObjects(ocel)}
    IN  {<<l[1], CaseOf(l[2])>> : l \in {k \in ocel.links : k[2] \in objects}}

HandoverEvents(ocel) == {e \in ocel.events : e.type[1] = "handover"}

handover_matrix(ocel) ==
    [p \in Agents \X Agents |->
        Cardinality({e \in HandoverEvents(ocel) : e.type = <<"handover", p[1], p[2]>>})]

handover_counts_per_case(ocel) ==
    LET cases == event_case_map(ocel)
    IN  [c \in Cases |-> Cardinality({e \in HandoverEvents(ocel) : <<e.id, c>> \in cases})]

-----------------------------------------------------------------------------
(* Properties *)

\* The export has the trace of the turn a row was written in.
Traced(shared, r) ==
    \E q \in shared : OfTrace(q) /\ <<q.case, q.turn>> = <<r.case, r.turn>>

\* No link dangles: its event and its object are in the log, unless the turn a
\* decision was made in is not, because it was under way at the sync.
LinksResolve ==
    LET shared == EventLogRows
        ocel   == from_eventlog(shared)
        events == {e.id : e \in ocel.events}
        objects == {o.id : o \in ocel.objects}
    IN  \A l \in ocel.links :
            /\ l[1] \in events
            /\ \/ l[2] \in objects
               \/ \E r \in Decisions(shared) : l[1] = GatewayEvent(r) /\ ~Traced(shared, r)

\* The case map finds the case of every event that is no handover, and no
\* other, whoever wrote it and whatever ran at the same time.
CaseRecovered ==
    LET shared == EventLogRows
        ocel   == from_eventlog(shared)
        map    == event_case_map(ocel)
        plain  == {e.id : e \in ocel.events \ HandoverEvents(ocel)}
    IN  \A r \in WithoutDecisions(shared) :
            EventId(r) \in plain => {p \in map : p[1] = EventId(r)} = {<<EventId(r), r.case>>}

\* The work really went from an agent to another: the next row of the turn is
\* that of the agent the transfer names, and no row of the machine lies between.
Seen(rows, r, q) ==
    /\ r.tool = Transfer /\ r.to # r.resource
    /\ Follows(rows, r, q)
    /\ OfTrace(q) /\ <<q.case, q.turn>> = <<r.case, r.turn>>
    /\ q.resource = r.to

\* Where turns never ran at the same time, the metrics count each handover
\* that took place, for its case and for its two agents, and no other; not
\* those a row of the coffee machine cut off from the agent they went to.
HandoversTrue ==
    LET shared == EventLogRows
        rows   == WithoutDecisions(shared)
        ocel   == from_eventlog(shared)
        counts == handover_counts_per_case(ocel)
        matrix == handover_matrix(ocel)
        real   == {p \in rows \X rows : Seen(rows, p[1], p[2])}
    IN  ~overlapped =>
            /\ \A c \in Cases : counts[c] = Cardinality({p \in real : p[1].case = c})
            /\ \A pair \in Agents \X Agents : matrix[pair] =
                    Cardinality({p \in real : <<p[1].resource, p[1].to>> = pair})

\* The log never shows a call that the gateway denied as executed, although
\* the row of a batch is made of its first call only.
DeniedNotExecuted ==
    LET shared   == EventLogRows
        links    == from_eventlog(shared).links
        executed == {l[2] : l \in {k \in links : k[3] = "executes"}}
    IN  \A r \in Decisions(shared) : r.decision = "deny" =>
            \A l \in links : l[1] = GatewayEvent(r) /\ l[3] = "decided_on" => l[2] \notin executed
=============================================================================
