----------------------------- MODULE Observatory ------------------------------
(***************************************************************************)
(* The interactive dashboard (dashboard/interaction): the page's callbacks *)
(* and its poll on the UI thread, the ConversationRunner on a thread of its *)
(* own, and the swarm on the threads of its stream, which meet in the      *)
(* runner's fields, the stream of updates and the event bus.               *)
(*                                                                         *)
(* AgentTurn models what the swarm does in a turn.  Here it says texts, has *)
(* them judged, places an order, puts it on the tray, hands over, gives up  *)
(* or fails, running ahead of the runner except at a handover.             *)
(***************************************************************************)
EXTENDS Naturals, SequencesExt

CONSTANTS Agents,       \* two agents that hand over to each other
          Entry,        \* the agent a turn starts with
          Texts,        \* what agents may say
          MaxTurns,     \* MAX_CONVERSATION_TURNS
          MaxRetries,   \* MAX_RESPONSE_GUARDRAIL_RETRIES
          MaxMessages,  \* bound on the messages of the agents
          MaxTransfers, \* bound on the handovers of a turn
          MaxOrders,    \* bound on the orders
          MaxAhead,     \* bound on the updates that wait when the swarm makes more
          MaxClicks     \* bound on the user's clicks

ASSUME SwarmAssumption ==
    /\ Entry \in Agents
    /\ \A a \in Agents : \E b \in Agents : b # a
    /\ MaxTurns \in Nat \ {0}
    /\ {MaxRetries, MaxMessages, MaxTransfers, MaxOrders, MaxAhead,
        MaxClicks} \subseteq Nat

VARIABLES
    is_running,
    pause_on_next_handover,
    resume_event,           \* whether _resume_event is set
    current_order_id,       \* 0: none
    manual_thread_id,
    threads,                \* thread ids given so far
    run,                    \* the runner's thread: where it is and its locals
    swarm,                  \* the swarm's turn
    updates,                \* the stream: what the runner has not consumed yet
    bus,                    \* the EventBus
    polled,                 \* the events a poll drained and has not dispatched yet
    page,                   \* what the page shows
    click,                  \* clicks so far, and the order being taken (0: none)
    \* what the agents did, by number
    messages,               \* messages: the text and the verdict on it
    orders,                 \* orders: the thread it was placed in
    trays                   \* orders with something on their tray

fields == <<is_running, pause_on_next_handover, resume_event, current_order_id,
            manual_thread_id, threads>>
world == <<messages, orders, trays>>
ui == <<polled, page, click>>
vars == <<fields, run, swarm, updates, bus, ui, world>>

NoRun == [pc |-> "off", auto |-> FALSE, thread |-> 0, turns |-> 0, last |-> 0,
          seen |-> {}, handoff |-> <<>>]

NoSwarm == [at |-> "off", agent |-> Entry, retries |-> 0, transfers |-> 0]

\* The agents' panels as one, and the order of the tray button.
Blank(button) == [panel |-> <<>>, button |-> button]

Init ==
    /\ is_running = FALSE
    /\ pause_on_next_handover = FALSE
    /\ resume_event = TRUE
    /\ current_order_id = 0
    /\ manual_thread_id = 1
    /\ threads = 1
    /\ run = NoRun
    /\ swarm = NoSwarm
    /\ updates = <<>>
    /\ bus = <<>>
    /\ polled = <<>>
    /\ page = Blank(0)
    /\ click = [count |-> 0, taking |-> 0]
    /\ messages = <<>>
    /\ orders = <<>>
    /\ trays = {}

-----------------------------------------------------------------------------
(* The event bus, and what the page does with an event.                    *)

Event(kind, ref) == [kind |-> kind, ref |-> ref]

\* Events that only add a line to the conversation log are left out.
Publish(events) == bus' = bus \o events

\* Mutant of mark_last_ai_message_rejected: the first message with that text.
mark_last_ai_message_rejected_First(panel, m) ==
    LET Said(e) == e.role = "ai" /\ messages[e.msg].text = messages[m].text
        i == SelectInSeq(panel, Said)
    IN  IF i = 0 THEN panel ELSE [panel EXCEPT ![i].role = "rejected_ai"]

mark_last_ai_message_rejected(panel, m) ==
    LET Said(e) == e.role = "ai" /\ messages[e.msg].text = messages[m].text
        i == SelectLastInSeq(panel, Said)
    IN  IF i = 0 THEN panel ELSE [panel EXCEPT ![i].role = "rejected_ai"]

dispatch_event(shown, e) ==
    CASE e.kind = "message" ->
            [shown EXCEPT !.panel = Append(@, [msg |-> e.ref, role |-> "ai"])]
      [] e.kind = "rejected" ->
            [shown EXCEPT !.panel = mark_last_ai_message_rejected(@, e.ref)]
      [] e.kind = "tray_ready" -> [shown EXCEPT !.button = e.ref]
      [] e.kind = "tray_taken" -> [shown EXCEPT !.button = 0]

-----------------------------------------------------------------------------
(* The swarm, on the threads of the stream.                                *)

Emit(new) == Len(updates) < MaxAhead /\ updates' = updates \o new

Update(kind, ref) == [kind |-> kind, ref |-> ref]

Other(agent) == CHOOSE a \in Agents : a # agent

\* The parent graph repeats what its node returned: the context of the last
\* handover, and the last message.
Echo(m) ==
    (IF swarm.transfers = 0 THEN <<>>
     ELSE <<Update("handoff", <<Other(swarm.agent), swarm.agent>>)>>)
    \o <<Update("message", m)>>

SwarmAt(at) == swarm.at = at

Says(text) ==
    /\ SwarmAt("llm") /\ Len(messages) + 1 < MaxMessages
    /\ messages' = Append(messages, [text |-> text, verdict |-> "open"])
    /\ Emit(<<Update("message", Len(messages'))>>)
    /\ swarm' = [swarm EXCEPT !.at = "judge"]
    /\ UNCHANGED <<fields, run, bus, ui, orders, trays>>

Judged(verdict) == [messages EXCEPT ![Len(messages)].verdict = verdict]

Approves ==
    /\ SwarmAt("judge")
    /\ messages' = Judged("approved")
    /\ Emit(Echo(Len(messages)))
    /\ swarm' = [swarm EXCEPT !.at = "over"]
    /\ UNCHANGED <<fields, run, bus, ui, orders, trays>>

Rejects ==
    /\ SwarmAt("judge") /\ swarm.retries < MaxRetries
    /\ messages' = Judged("rejected")
    /\ Emit(<<Update("correction", Len(messages))>>)
    /\ swarm' = [swarm EXCEPT !.at = "llm", !.retries = @ + 1]
    /\ UNCHANGED <<fields, run, bus, ui, orders, trays>>

\* At the cap the fallback takes the place of the message.
RejectsAtCap ==
    /\ SwarmAt("judge") /\ swarm.retries >= MaxRetries
    /\ messages' = Append(Judged("rejected"), [text |-> "fallback", verdict |-> "approved"])
    /\ Emit(<<Update("fallback", Len(messages'))>> \o Echo(Len(messages')))
    /\ swarm' = [swarm EXCEPT !.at = "over"]
    /\ UNCHANGED <<fields, run, bus, ui, orders, trays>>

PlacesOrder ==
    /\ SwarmAt("llm") /\ Len(orders) < MaxOrders
    /\ orders' = Append(orders, run.thread)
    /\ Emit(<<Update("order", Len(orders'))>>)
    /\ UNCHANGED <<fields, run, swarm, bus, ui, messages, trays>>

PlacesOnTray(o) ==
    /\ SwarmAt("llm") /\ orders[o] = run.thread /\ o \notin trays
    /\ trays' = trays \cup {o}
    /\ Emit(<<Update("placed", o)>>)
    /\ UNCHANGED <<fields, run, swarm, bus, ui, messages, orders>>

\* The parent graph goes on to the other agent when the stream is asked for more.
HandsOver ==
    /\ SwarmAt("llm") /\ swarm.transfers < MaxTransfers
    /\ Emit(<<Update("handoff", <<swarm.agent, Other(swarm.agent)>>)>>)
    /\ swarm' = [swarm EXCEPT !.at = "handing", !.agent = Other(@),
                              !.retries = 0, !.transfers = @ + 1]
    /\ UNCHANGED <<fields, run, bus, ui, world>>

TakesOver ==
    /\ SwarmAt("handing") /\ updates = <<>> /\ run.pc = "stream"
    /\ swarm' = [swarm EXCEPT !.at = "llm"]
    /\ UNCHANGED <<fields, run, updates, bus, ui, world>>

\* A model or a tool fails, or the recursion limit is reached.
Fails ==
    /\ swarm.at \in {"llm", "judge"}
    /\ Emit(<<Update("error", 0)>>)
    /\ swarm' = [swarm EXCEPT !.at = "over"]
    /\ UNCHANGED <<fields, run, bus, ui, world>>

Swarm ==
    \/ \E text \in Texts : Says(text)
    \/ Approves
    \/ Rejects
    \/ RejectsAtCap
    \/ PlacesOrder
    \/ \E o \in DOMAIN orders : PlacesOnTray(o)
    \/ HandsOver
    \/ TakesOver
    \/ Fails

-----------------------------------------------------------------------------
(* ConversationRunner, on its thread.                                      *)

At(pc) == run.pc = pc

Goto(pc) == run' = [run EXCEPT !.pc = pc]

\* Mutant of run_conversation: the order of the last conversation stays tracked.
run_conversation_KeepsOrder ==
    /\ At("begin")
    /\ threads' = threads + 1
    /\ run' = [run EXCEPT !.pc = "open", !.thread = threads']
    /\ UNCHANGED <<is_running, pause_on_next_handover, resume_event, current_order_id,
                   manual_thread_id, swarm, updates, bus, ui, world>>

run_conversation ==
    /\ At("begin")
    /\ current_order_id' = 0
    /\ threads' = threads + 1
    /\ run' = [run EXCEPT !.pc = "open", !.thread = threads']
    /\ UNCHANGED <<is_running, pause_on_next_handover, resume_event, manual_thread_id,
                   swarm, updates, bus, ui, world>>

get_initial_message ==
    /\ At("open")
    /\ \E pc \in {"turn", "finish"} : Goto(pc)   \* nothing said: no turn
    /\ UNCHANGED <<fields, swarm, updates, bus, ui, world>>

BeginStream ==
    /\ run' = [run EXCEPT !.pc = "stream", !.turns = @ + 1, !.last = 0, !.seen = {},
                          !.handoff = <<>>]
    /\ swarm' = [NoSwarm EXCEPT !.at = "llm"]

\* Mutant of NextTurn: one turn more than the limit.
NextTurn_OneMore ==
    /\ At("turn") /\ run.turns <= MaxTurns
    /\ BeginStream
    /\ UNCHANGED <<fields, updates, bus, ui, world>>

NextTurn ==
    /\ At("turn") /\ run.turns < MaxTurns
    /\ BeginStream
    /\ UNCHANGED <<fields, updates, bus, ui, world>>

TooManyTurns ==
    /\ At("turn") /\ run.turns >= MaxTurns
    /\ Goto("finish")
    /\ UNCHANGED <<fields, swarm, updates, bus, ui, world>>

run_manual_turn ==
    /\ At("manual")
    /\ BeginStream
    /\ UNCHANGED <<fields, updates, bus, ui, world>>

(* stream_with_events: one update of the stream.                           *)

Arrives(kind) == At("stream") /\ updates # <<>> /\ Head(updates).kind = kind

Consume == updates' = Tail(updates)

on_message ==
    /\ Arrives("message")
    /\ LET m == Head(updates).ref
       IN  IF m \in run.seen THEN UNCHANGED <<run, bus>>
           ELSE /\ run' = [run EXCEPT !.seen = @ \cup {m}, !.last = m]
                /\ Publish(<<Event("message", m)>>)
    /\ Consume
    /\ UNCHANGED <<fields, swarm, ui, world>>

\* Mutant of on_correction: the rejected message stays the reply of the turn.
on_correction_KeepsReply ==
    /\ Arrives("correction")
    /\ Publish(<<Event("rejected", Head(updates).ref)>>)
    /\ Consume
    /\ UNCHANGED <<fields, run, swarm, ui, world>>

on_correction ==
    /\ Arrives("correction")
    /\ LET m == Head(updates).ref
       IN  /\ run' = [run EXCEPT !.last = IF @ = m THEN 0 ELSE @]
           /\ Publish(<<Event("rejected", m)>>)
    /\ Consume
    /\ UNCHANGED <<fields, swarm, ui, world>>

\* The fallback follows the message it replaces.
on_fallback ==
    /\ Arrives("fallback")
    /\ LET m == Head(updates).ref
       IN  /\ run' = [run EXCEPT !.seen = @ \cup {m}, !.last = m]
           /\ Publish(<<Event("rejected", m - 1), Event("message", m)>>)
    /\ Consume
    /\ UNCHANGED <<fields, swarm, ui, world>>

on_handoff ==
    /\ Arrives("handoff")
    /\ run' = IF Head(updates).ref = run.handoff THEN run
              ELSE [run EXCEPT !.handoff = Head(updates).ref,
                               !.pc = IF pause_on_next_handover THEN "seam" ELSE "stream"]
    /\ Consume
    /\ UNCHANGED <<fields, swarm, bus, ui, world>>

track_order_id(o) ==
    current_order_id' = IF current_order_id = 0 THEN o ELSE current_order_id

on_tool_result ==
    /\ \E kind \in {"order", "placed"} :
         /\ Arrives(kind)
         /\ Publish(IF kind = "order" THEN <<>>
                    ELSE <<Event("tray_ready", Head(updates).ref)>>)
    /\ track_order_id(Head(updates).ref)
    /\ Consume
    /\ UNCHANGED <<is_running, pause_on_next_handover, resume_event, manual_thread_id,
                   threads, run, swarm, ui, world>>

on_error ==
    /\ Arrives("error")
    /\ Consume
    /\ UNCHANGED <<fields, run, swarm, bus, ui, world>>

\* The turn is over; an automated conversation goes on with the reply, if any.
StreamEnds ==
    /\ At("stream") /\ updates = <<>> /\ SwarmAt("over")
    /\ Goto(IF ~run.auto THEN "closing" ELSE IF run.last = 0 THEN "finish" ELSE "respond")
    /\ swarm' = NoSwarm
    /\ UNCHANGED <<fields, updates, bus, ui, world>>

(* wait_for_resume: the flag was read, the event is not yet cleared.       *)

wait_for_resume ==
    /\ At("seam")
    /\ resume_event' = FALSE
    /\ Goto("paused")
    /\ UNCHANGED <<is_running, pause_on_next_handover, current_order_id, manual_thread_id,
                   threads, swarm, updates, bus, ui, world>>

Resumed ==
    /\ At("paused") /\ resume_event
    /\ Goto("stream")
    /\ UNCHANGED <<fields, swarm, updates, bus, ui, world>>

PauseTimesOut ==
    /\ At("paused") /\ ~resume_event
    /\ resume_event' = TRUE
    /\ Goto("stream")
    /\ UNCHANGED <<is_running, pause_on_next_handover, current_order_id, manual_thread_id,
                   threads, swarm, updates, bus, ui, world>>

(* The customer, and the end of the conversation.                          *)

respond_to ==
    /\ At("respond")
    /\ \E pc \in {"turn", "finish"} : Goto(pc)
    /\ UNCHANGED <<fields, swarm, updates, bus, ui, world>>

FinishTurns ==
    /\ At("finish")
    /\ Goto("feedback")
    /\ Publish(IF current_order_id = 0 THEN <<>>
               ELSE <<Event("tray_ready", current_order_id)>>)
    /\ UNCHANGED <<fields, swarm, updates, ui, world>>

capture_feedback ==
    /\ At("feedback")
    /\ Goto("closing")
    /\ UNCHANGED <<fields, swarm, updates, bus, ui, world>>

\* A call of the customer's model, the tagging of the trace or the rating
\* raises: the run ends with an error.
RunFails ==
    /\ \/ At("open") \/ At("respond") \/ At("feedback")
       \/ At("stream") /\ updates = <<>> /\ SwarmAt("over")
    /\ Goto("closing")
    /\ swarm' = NoSwarm
    /\ UNCHANGED <<fields, updates, bus, ui, world>>

RunCloses ==
    /\ At("closing")
    /\ is_running' = FALSE
    /\ run' = NoRun
    /\ UNCHANGED <<pause_on_next_handover, resume_event, current_order_id,
                   manual_thread_id, threads, swarm, updates, bus, ui, world>>

Runner ==
    \/ run_conversation \/ get_initial_message \/ NextTurn \/ TooManyTurns
    \/ run_manual_turn
    \/ on_message \/ on_correction \/ on_fallback \/ on_handoff \/ on_tool_result
    \/ on_error \/ StreamEnds
    \/ wait_for_resume \/ Resumed \/ PauseTimesOut
    \/ respond_to \/ FinishTurns \/ capture_feedback \/ RunFails \/ RunCloses

-----------------------------------------------------------------------------
(* The page, on the UI thread: callbacks run one at a time.                *)

Free == click.taking = 0 /\ polled = <<>>

ClickTakes(o) ==
    /\ Free /\ click.count < MaxClicks
    /\ click' = [count |-> click.count + 1, taking |-> o]

Clicked == ClickTakes(0)

on_run ==
    /\ Clicked /\ ~is_running
    /\ page' = Blank(page.button)
    /\ is_running' = TRUE
    /\ resume_event' = TRUE
    /\ run' = [NoRun EXCEPT !.pc = "begin", !.auto = TRUE]
    /\ UNCHANGED <<pause_on_next_handover, current_order_id, manual_thread_id, threads,
                   swarm, updates, bus, polled, world>>

on_send ==
    /\ Clicked /\ ~is_running
    /\ is_running' = TRUE
    /\ run' = [NoRun EXCEPT !.pc = "manual", !.thread = manual_thread_id]
    /\ UNCHANGED <<pause_on_next_handover, resume_event, current_order_id,
                   manual_thread_id, threads, swarm, updates, bus, polled, page, world>>

\* Whether a conversation is running is not asked.
on_end_conversation ==
    /\ Clicked
    /\ Publish(IF current_order_id = 0 THEN <<>>
               ELSE <<Event("tray_ready", current_order_id)>>)
    /\ threads' = threads + 1
    /\ manual_thread_id' = threads'
    /\ current_order_id' = 0
    /\ UNCHANGED <<is_running, pause_on_next_handover, resume_event, run, swarm, updates,
                   polled, page, world>>

\* The tray that is taken is that of the runner's order, not of the button's.
on_take_tray ==
    /\ page.button # 0
    /\ \/ /\ current_order_id \in trays
          /\ ClickTakes(current_order_id)
          /\ UNCHANGED page
       \/ /\ current_order_id \notin trays
          /\ Clicked
          /\ page' = [page EXCEPT !.button = 0]
    /\ UNCHANGED <<fields, run, swarm, updates, bus, polled, world>>

consume_tray ==
    /\ click.taking # 0
    /\ trays' = trays \ {click.taking}
    /\ Publish(<<Event("tray_taken", click.taking)>>)
    /\ page' = [page EXCEPT !.button = 0]
    /\ click' = [click EXCEPT !.taking = 0]
    /\ UNCHANGED <<fields, run, swarm, updates, polled, messages, orders>>

on_pause_toggle ==
    /\ Clicked
    /\ pause_on_next_handover' = ~pause_on_next_handover
    /\ resume_event' = (resume_event \/ pause_on_next_handover)
    /\ UNCHANGED <<is_running, current_order_id, manual_thread_id, threads, run, swarm,
                   updates, bus, polled, page, world>>

\* A new shop, runner and event bus; the tray button is not reset.
on_setup_change ==
    /\ Clicked /\ ~is_running
    /\ pause_on_next_handover' = FALSE
    /\ resume_event' = TRUE
    /\ current_order_id' = 0
    /\ threads' = threads + 1
    /\ manual_thread_id' = threads'
    /\ bus' = <<>>
    /\ page' = Blank(page.button)
    /\ UNCHANGED <<is_running, run, swarm, updates, polled, world>>

\* A poll drains the bus, then dispatches what it got, event by event; other
\* callbacks wait for it, the runner does not.
poll_events ==
    /\ Free
    /\ polled' = bus
    /\ bus' = <<>>
    /\ UNCHANGED <<fields, run, swarm, updates, page, click, world>>

DispatchNext ==
    /\ polled # <<>>
    /\ page' = dispatch_event(page, Head(polled))
    /\ polled' = Tail(polled)
    /\ UNCHANGED <<fields, run, swarm, updates, bus, click, world>>

Page ==
    \/ on_run \/ on_send \/ on_end_conversation
    \/ on_take_tray \/ consume_tray
    \/ on_pause_toggle \/ on_setup_change
    \/ poll_events \/ DispatchNext

Next == Swarm \/ Runner \/ Page

Spec == Init /\ [][Next]_vars

-----------------------------------------------------------------------------
(* Properties.                                                             *)

Messages == DOMAIN messages
Orders == DOMAIN orders

EventType ==
    [kind : {"message", "rejected"}, ref : Messages]
    \cup [kind : {"tray_ready", "tray_taken"}, ref : Orders]

UpdateType ==
    [kind : {"message", "correction"}, ref : Messages]
    \cup [kind : {"fallback"}, ref : Messages \ {1}]
    \cup [kind : {"order", "placed"}, ref : Orders]
    \cup [kind : {"handoff"}, ref : Agents \X Agents]
    \cup {Update("error", 0)}

\* Every variable has its type, and what threads refer to exists.
TypeOK ==
    /\ is_running \in BOOLEAN
    /\ pause_on_next_handover \in BOOLEAN
    /\ resume_event \in BOOLEAN
    /\ current_order_id \in Orders \cup {0}
    /\ threads \in Nat /\ manual_thread_id \in 1..threads
    /\ run \in [pc : {"off", "begin", "open", "manual", "turn", "stream", "seam",
                      "paused", "respond", "finish", "feedback", "closing"},
                auto : BOOLEAN, thread : 0..threads, turns : 0..MaxTurns,
                last : Messages \cup {0}, seen : SUBSET Messages,
                handoff : (Agents \X Agents) \cup {<<>>}]
    /\ swarm \in [at : {"off", "llm", "judge", "handing", "over"}, agent : Agents,
                  retries : 0..MaxRetries, transfers : 0..MaxTransfers]
    /\ updates \in Seq(UpdateType)
    /\ bus \in Seq(EventType)
    /\ polled \in Seq(EventType)
    /\ page \in [panel : Seq([msg : Messages, role : {"ai", "rejected_ai"}]),
                 button : Orders \cup {0}]
    /\ click \in [count : 0..MaxClicks, taking : Orders \cup {0}]
    /\ messages \in Seq([text : Texts \cup {"fallback"},
                          verdict : {"open", "approved", "rejected"}])
    /\ orders \in Seq(1..threads)
    /\ trays \subseteq Orders

Rejected == {m \in Messages : messages[m].verdict = "rejected"}

\* Nothing is on its way from the swarm to the page.
CaughtUp == updates = <<>> /\ bus = <<>> /\ polled = <<>>

\* What the customer answers was not rejected, whatever came after it: a
\* rejection takes the reply of the turn back (conversation_runner.py:426-439).
ReplyStands == At("respond") => run.last \notin Rejected

\* When the page has caught up, the panels show each message once, however often
\* the stream repeated it, and strike out exactly those that were rejected, though
\* they are found by their text, another message may have the same one, and a run
\* may have emptied the panels in between (agent_panel.py:192-211).
StruckOut ==
    CaughtUp => \A i \in DOMAIN page.panel :
        /\ page.panel[i].role = "rejected_ai" <=> page.panel[i].msg \in Rejected
        /\ \A k \in DOMAIN page.panel : page.panel[i].msg = page.panel[k].msg => i = k

\* The tray an automated conversation announces at its end is that of an order
\* placed in it, though manual turns, setups and ended conversations share the
\* field (conversation_runner.py:202-209).
ReadyIsOurs ==
    At("finish") /\ current_order_id # 0 => orders[current_order_id] = run.thread
===============================================================================
