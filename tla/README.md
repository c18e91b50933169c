# Agentic Coffee Shop: specifications, model checking and proofs

TLA+ specifications of the coffee shop of this repository: the coffee machine
service, the orders and the tools that change them, the guarded turns of the
agents, the dashboard, the driver of experiments, and what the metrics make of
it all. Paths below are relative to the repository; `src/` is the
repository's own source directory.

## 1. The system

A customer (a model, or a person at the dashboard) talks to a swarm of four
agents. An agent is a LangGraph subgraph: its model answers with text or with
tool calls, a gateway judges both by guardrails, a ToolNode runs the calls. The
tools read and write orders in SQLite, trays and a status cache in memory, and
call the coffee machine, an HTTP service in a process of its own. What happens
is logged for process mining.

| Component | Code | State | Operations | Modelled in |
|---|---|---|---|---|
| Coffee machine service | `services/coffee_machine/state.py`, `worker.py`, `main.py` | `jobs`, `job_events`, `machine_dirty`, `rng`, `outcome_queue`; no lock | `/brew`, `/job/{id}`, `/clean`, `/reseed`, `/queue`, the worker's round | `CoffeeMachine`, `OutcomeQueue`; promise in `BrewMachine` |
| Order store | `src/agents/order_store.py` | orders, stock; `_write_lock` around each write | `save_order`, `load_order`, `load_recent_order`, `set_order_status`, `check_and_update_stock`, `reset_inventory` | `CoffeeShop` |
| Tools | `src/agents/*_agent.py`, `tray_tools.py`, `tray.py` | `ORDER_JOB_MAP`, `ORDER_STATUS_CACHE`, `_trays` | `process_order`, `calculate_total`, `check_inventory`, `update_stock`, `start_preparation`, `end_preparation`, `clean_machine`, `place_on_tray`, `offer_refund`, `offer_partial_refund` | `CoffeeShop` |
| Gateway, guardrails | `src/control_plane/gateway.py`, `guardrails.py`, `predicates.py`, `config/setups/*` | none (predicates read the store, the cache and the messages) | `evaluate_call` | gates in `CoffeeShop` and `AgentTurn` |
| Agent subgraph | `src/control_plane/subgraph.py` | the messages of the turn | `llm`, `response_gateway`, `gateway`, `tools` | `AgentTurn` |
| Handoffs | `src/llm.py`, `src/agents/shared_components.py`, `src/graph.py` | `_pending` of each agent, `active_agent`, the checkpointed messages | `_HandoffDeferrer`, `transfer_to_agent` | `AgentTurn` |
| Context isolation | `src/agents/context_isolation.py` | none | the hook before each model call | `AgentTurn` |
| Stream, conversation | `src/stream.py`, `src/conversation.py`, `src/coffee_shop.py` | the reply held back, `feedback_log`, trace ids | `extract_messages`, `send_message`, `run_automated`, `_consume_tray` | `AgentTurn`, `CoffeeShop` (tray) |
| Dashboard | `src/dashboard/interaction/conversation_runner.py`, `event_bus.py`, `interaction_page.py`, `agent_panel.py` | `is_running`, `_resume_event`, `pause_on_next_handover`, `_current_order_id`, `_manual_thread_id`; the bus; panels, tray button | the page's callbacks and poll, the automated conversation, manual turns, the stream, the pause | `Observatory` |
| Trace cache | `src/dashboard/metrics/trace_cache.py`, `src/trace_processing/trace_processor.py`, `mlflow_sqlite.py` | `_all_traces.csv`, its sidecar, fingerprint, ledger and backups | `ensure_trace_cache`: freshness, quarantine, listing, extraction, append | `TraceCache` |
| Event log and metrics | `src/trace_processing/log_generator.py`, `trace_processor.py`, `eventlog_conversion.py`, `guardrail_log_loader.py`, `src/dashboard/metrics/eventlog_helpers.py` | none (files in, tables out) | the flat log, `from_eventlog`, `project_decisions`, `event_case_map`, `handover_matrix`, `handover_counts_per_case` | `EventLog` |
| Experiment driver, simulation | `scripts/run_experiment.py`, `src/simulate.py`, `src/conversation.py` | `ledger.json`; the order store, machine and MLflow store it prepares and counts | `main`, `outstanding`, `run_cell`, `trace_stats`, `stop_machine`, `start_machine`; the simulation's loop | `Experiment` |
| Visualisation, layout, set-up | `src/visualization/`, page layout, YAML loaders | none | - | not modelled |

How they interact. The customer's message enters the swarm at the agent that
was active last. Its subgraph works on a copy of the messages; a handover
throws that copy away and keeps the handover's ToolMessage only. All calls of
one response are judged first and then run in parallel threads, each on a copy
of the order's row of its own, and each saves the whole copy. `start_preparation`
posts to the machine; `end_preparation` polls it and gives up after a while; the
machine's worker polls the same jobs. `place_on_tray` fills a tray; the
simulation takes it when the conversation is over, the dashboard when the
person clicks, from a thread of its own. Every turn leaves a trace in MLflow, the
gateway and the machine write logs of their own, and the feedback store has the
ratings; the trace cache gathers them into one flat log, which the metrics convert
to an object-centric one. The driver runs many conversations in processes of their
own and counts what they left in MLflow.

What is hard here: three kinds of thread share the machine's state without a
lock; tools overwrite each other's changes; judging and running are separate
steps; a brew may outlive the call that waits for it, or the answer that
announced it may be lost; the shop's process may restart, which loses trays and
cache but neither orders nor the machine's state; a verdict on a reply arrives
after the reply; a handoff is held back over several model calls; on the
dashboard the page, the runner and the swarm are threads that share fields and an
event bus, and the swarm runs ahead of the updates the runner has seen; a sync of
the cache reads files and a store that change meanwhile, and may be cut between
any two writes; a sweep is interrupted or killed and resumed from a ledger that is
written after the fact; conversations that run at the same time share one log.

What makes each part correct:

* machine: every accepted job is finished, its ending is announced before
  anyone is told, a failure soils the machine before it is reported, and a
  brew on a soiled machine is contaminated and no other;
* outcome queue: equal seeds give equal sequences, and the queue runs dry only when
  more handlers overlap than it has outcomes;
* orders: stock never negative, status moves along the lifecycle, nothing is
  served or refunded that was not brewed or received, an order is refunded in full once,
  the shop comes to owe nothing by its refunds, a tray tells the truth about contamination;
* turns: the customer gets the last word that passed the judges and never a
  rejected one, each call is answered, a deferred handoff is issued once, in its own
  conversation and beside no tool whose result it would lose;
* dashboard: what was rejected is struck out in the panels, what the stream
  repeats is shown there once, a conversation announces its own tray;
* trace cache: rows a colleague gave survive everything, rows of different shapes
  do not mix, nothing is extracted twice, "fresh" means covered;
* experiments: a cell called done has its quota, a resumed sweep does not run
  what it has, cells do not see each other's orders and machine;
* event log: links resolve, events find their case, handovers are those that took
  place, what was denied is not shown as executed and is counted.

## 2. Modules

| Module | What it is |
|---|---|
| `BrewMachine` | The promise of the machine: accept, expire, soil, report, clean as atomic steps on sets of jobs. |
| `CoffeeMachine` | The service, thread by thread: `create_job`, `get_job`, `clean_machine` and `run_worker` cut at each access to shared state. Refines `BrewMachine`. |
| `OutcomeQueue` | `outcome_queue` and `rng` under racing `create_job` and `reseed`. |
| `CoffeeShop` | Orders, stock, cache, trays, tool threads, gates, the tray-taking customer; EXTENDS `BrewMachine`, so the machine it uses is the one `CoffeeMachine` implements. |
| `AgentTurn` | The conversation of the swarm: subgraphs, gateway, response gateway, handoff deferral, context isolation, handover, stream. |
| `Observatory` | The dashboard: the page's callbacks and poll, `ConversationRunner`, the stream of the swarm, the event bus. |
| `TraceCache` | `ensure_trace_cache` step by step against a store that grows, with failing operations, deaths and upgrades. |
| `Experiment` | The driver's loop over cells and the simulations it starts, interrupts, deaths, orphans and resume. |
| `EventLog` | What conversations write, as a state machine; the flat log, its conversion and the metrics, as functions of what was written. |
| `CoffeeMachineProofs`, `CoffeeShopProofs`, `OutcomeQueueProofs`, `AgentTurnProofs`, `ObservatoryProofs`, `TraceCacheProofs`, `ExperimentProofs`, `EventLogProofs` | The theorems about the module of that name, with the lemmas they rest on. |
| `MC*` | Symmetry and the handover graph of the runs; the other modules are checked as they are. |

Actions carry the name of the function they model where one action is the whole
function; a function that other threads can observe half done is one action per
step, named for what it does (`PutJob`, `EmitFinish`, `CacheJob`). Names ending
in `_Something` (`EmitFinish_MarksFirst`) are deliberate mistakes: each is a plausible
bug that the property named in `PROJECT.json` detects.

### CoffeeMachine and the code

`jobs` is the dict of job records: `made` when `create_job` has built the record
(state.py:62), `known` once it is in the dict (79). `thread[t]` is where a
handler is. `get_job` samples the clock at its start (`compute_status`) and then
only acts on that sample, so `Elapse` may fall anywhere else. The test of
`logged_finished`, the emission of the ending, the setting of `machine_dirty`
and that of `logged_finished` are four actions, since a second poller and
`/clean` can come between any two of them. The worker visits a snapshot of the
keys and skips what is finished. `told` and `swept` are history variables.

### CoffeeShop and the code

`call[s]` is a tool thread: the tool, its order, where it is, the copy of the row
it loaded and the job it works on. `StartBatch` is the gateway: every call of the
batch is judged on the same stored state (subgraph.py:290-297), then all run.
`load_order` and `set_order_status`/`save_order` are shared by the tools; each tool's
work between them is an action. `start_preparation` may lose the machine's
answer after the machine accepted the job. `end_preparation` takes the job from
the cache, loads the order, and either learns of the ending or gives up, at
any time: the length of the wait is abstracted. `Restart` is the death of the
shop's process. `Dashboard` chooses between the two ways a tray is taken, and tells
whether the stock may be reset in the middle of a turn (a page of the dashboard opens
the shop, coffee_shop.py:100) or only between turns (conversation.py:83). Item
names, extras and prices are abstracted to one kind of item, a quantity and a
total. Quantities and percentages are whatever integers the model sends, negative ones
included: the gates have an upper limit only (predicates.py:62-63, 210-211) and the tools
have none. Amounts are whole (`Cut`); the limits are those of a setup that denies
what exceeds them, and the tools' own gates are those of `baseline`.

### OutcomeQueue and the code

An outcome is the number of the draw that decided it. `create_job` takes the
head (state.py:55), looks up the list it will append to before it rolls
(56: the global is read, then `_generate_outcome` is called), rolls, appends, and
draws the duration (58). `reseed` replaces the generator and then the list
(159-160), one draw at a time.

### AgentTurn and the code

`state` is the subgraph's copy of the messages and `node` its next node; `pending`
the deferrers' memory; `held` and `last_agent_message` the stream's. A model may
answer with text or without, and with any calls up to `MaxBatch`; a judge may
reject any reply and a guardrail deny any call. Two guardrails are modelled
by what they test, `allowed_handover_targets` and `max_tool_calls`. A setup without
response guardrails is the behaviour in which every reply is approved.

What LangGraph does is taken from how the code and `tests/test_handoff_mechanics.py`
use it and marked external: a `Command` to the parent discards the subgraph's
own updates but for what the command carries; of two handoffs in a batch the
first decides; a subgraph that ends merges its messages; an exception leaves
the checkpoint as it was when the turn began; ToolNode runs the calls of a message in
parallel and answers them in order. Message ids are unique.

### Observatory and the code

`run` is the runner's thread: where it is and the locals of `_run_conversation` and
`_stream_with_events`. One record is enough, since both ways to start a thread test
and set `is_running` and a thread clears it last. The `on_*` actions named for an
update (`on_message`, `on_correction`, `on_fallback`, `on_handoff`, `on_tool_result`,
`on_error`) are the iterations of the loop over the stream; those named for a
callback (`on_run`, `on_send`, `on_take_tray` ...) are the page's. A pause is cut
between the reading of the flag (`on_handoff`) and the clearing of the event
(`wait_for_resume`). `consume_tray` is the part of `_consume_tray` after its snapshot.

The swarm is AgentTurn seen from outside: `Says`, the verdict, an order, a tray, a
handover, a failure. It may be ahead of the runner by what `updates` holds, except at a
handover, where it goes on when the stream is read on (the seam of
conversation_runner.py:378-388). The parent
graph repeats the last message and the handover context (conversation_runner.py:297-301).

The page shows the agents' panels (one list; the agent is part of the message) and the
order of the tray button. Events that only add a line to the conversation log are left out.
Panel runs the callbacks one at a time on one thread, and what they touch of the other
threads' is single fields; so a callback is one action, but for taking a tray and for the poll:
that drains the bus (`poll_events`) and dispatches what it got event by event
(`DispatchNext`), while runner and swarm go on. Steps of the runner that publish several events in a row publish them at once.
A failing stream leaves a message nobody has judged as the reply; the code
takes it, and `ReplyStands` speaks of rejected ones only.

### TraceCache and the code

`pc` walks through `ensure_trace_cache` (trace_cache.py:394-469): `decide` is the
choice between sync and quarantine (434-460), `drop_ledger` the rest of
`_quarantine_and_resync`, `list`, `extract`, `note_loose`, `write` and `mark` are
`_sync_cache`, `refresh` the second reading of the fingerprint. A trace is a turn of a
conversation; a row stands for all rows of a trace or for the feedback of a case.
The three ways a case is known are kept apart: `Sessions` by the metadata the SQL
query reads, `Legacy` by the spans only, `Loose` not at all. The fingerprint (mtime,
size and count of the database, and the schema) is the set of traces with the schema:
the code assumes that the three change with every write. A store that
cannot be read when the page is entered ends the call without a change and is a
stutter. `covered`, `listed`, `fresh` and `no_session` are the locals. An interrupted
`write_csv` leaves a prefix of the sorted rows, a file of no bytes, or one that polars
refuses (`CrashInWrite`); an empty file counts as no cache in the test of 435 and as an
unreadable one in 293-312. The old CSVs that a sync deletes are left out, since it spares the
cache and its backups by name (273-285). `missed` collects the traces a sync could not
have: those that came after its listing, that MLflow refused, or that a failed
quarantine left out.

### Experiment and the code

`driver.pc` is the place in `main` (run_experiment.py:635-738): `top` is the arithmetic at the
head of the loop (639-654) and the wipe, then `stop`, `start`, `before` (671), `spawn` and
`run` (`run_cell`), `after` (684-690), `save` and `finish`. The loop begins anew on `Launch`;
the ledger is the file, which `save_ledger` replaces as a whole. A simulation is a
process with a cell and the conversations it has left; `talk` tells whether its
conversation has a tagged trace yet, since the first one makes it count
(`COUNT(DISTINCT session)`, 262-271). An orphan goes on when its driver dies, as
processes do. `SimulationFails` stands for `open_shop` raising and for a kill. What goes
wrong is a fault with a kind where a property has to name it: `blind_before` and
`blind_after` (an SQLite error reads as no conversations, 272-273), `stale_machine`
(nothing is seen on the port, 139-153 and 171-173, and `/healthz` is answered by the old one),
`orphan` and `uncounted` (the driver dies while a cell runs, or before its result is in the
ledger). Earlier experiments in the same store are `Earlier` sessions. A resume on another grid,
`--no-machine-restart` and a ledger edited by hand are left out.

### EventLog and the code

`log` has the rows of all sources with their time stamps, which `clock` gives. A table that is
sorted by time is the set of its rows, and its next row is found by `Follows`
(`shift(-1)` in eventlog_conversion.py:688-689). The rows of a step have stamps of their own, and
leave the millisecond after a row of a trace to a feedback (trace_processor.py:520-560).
Each action is what one source writes: the root span of a turn, a model's span, the span of a batch, of
which one row is made (log_generator.py:174-213), the gateway's records, the machine's rows. A
trace exists when its turn is over; logs exist at once. `EventLogRows` is the export at any
moment; `project_decisions`, `from_eventlog` and the metrics are operators on it, as they
are functions in the code. A handover is recognised from the next row of the whole
log (eventlog_conversion.py:688-697), and the row loses its call and its resource when it
becomes one (735-753). `Row.turn` and `Row.to` are what really happened; only the properties and
the choice of what is exported read them. Links between objects, attributes of events,
spelling of identities and the conversion of times are left out.

## 3. Runs

| Run | Instance | States | Shows |
|---|---|---|---|
| `machine` | 2 jobs, 1 client and the worker, fair | ~79 k | safety, the implementation of `BrewMachine`, and that every accepted job is finished |
| `shop_serial` | 1 order, 2 jobs, 1 tool thread, tray between turns | ~68 k | lifecycle, restarts; retry after failure, time-out or lost answer |
| `shop_batch` | 1 order, 2 tool threads, tray at any time, quantities from -1 to 1, percentages -100, 50 and 150 | ~1.6 M | what holds on stale copies: stock, brewing, refunds, debts |
| `shop_dashboard` | 1 order, 1 tool thread, tray at any time | counterexample | a stale copy undoes a completed order |
| `queue` | 3 threads, depth 2, 3 brews, 1 reseed | ~0.56 M | outcomes under races |
| `turn` | 2 agents, 2 turns, batches of 2, 4 messages of the agents | ~0.4 M | replies, rejections, calls, handoffs |
| `turn_handoffs` | as `turn`, 1 turn | counterexample | a response of two handoffs keeps both |
| `observatory` | 3 clicks, 2 turns, 3 messages, 1 retry, 1 order, 1 handover | ~2.9 M | rejections, repeats and trays on the page |
| `cache` | 1 session of 2 turns, 1 legacy, 1 loose, 1 foreign case, 2 schema versions, 1 fault | ~2.2 M | what survives in the cache and what "fresh" means |
| `experiment` | 2 cells of 2, 2 earlier sessions, 2 starts, 2 faults | ~1.7 M | quota, overrun and isolation across interrupts and resume |
| `experiment_whole` | 1 cell of 2, no fault | counterexample | a conversation that died fills the quota |
| `eventlog` | 2 conversations, 2 agents, 2 turns, 6 rows, 1 verdict | ~0.18 M | the object-centric log and the counts made of it |

Why the bounds suffice. Every race in the machine is between two threads on one
job, or between threads on two jobs through `machine_dirty`: a client, the worker
and two jobs show each of them, and the theorems hold for any number of clients
and jobs. In the
shop, a stale copy needs two writers of one row; retrying needs two jobs; the
two passing shop runs split these, since both at once is out of reach. Only the gate of
`clean_machine`, which looks at the most recent order, tells several orders apart:
`shop_serial` passes with `MaxOrders = 2` too (5.7 M states, a few minutes), and is kept
small here. The theorems cover stock, brewing, taint, refunds and debts for any number of
orders, jobs and tool threads on stale copies, with and without the dashboard. A
quantity of -1 gives back what 1 takes; a percentage of -100 doubles a total, 50 halves it
and 150 must be refused by both gates; `MaxTotal` and `MaxStock` leave room for one
doubling and for one unit more than at first. The queue needs a third thread to reseed while two brew, and
depth 2 so that a queue half empty differs from an empty one. `turn` needs two
agents for a handover and back, two calls for a batch with a handoff and a sibling,
one retry to reach the fallback and four messages for deferral, an interleaved
call and the injection; the second turn shows what the first left behind. `observatory`
needs three clicks to toggle, run and toggle back, or to send, end and run; three
messages for a retry and the fallback, or for two with the same text; one handover
for the pause and its repetition; two updates ahead, so that a verdict can wait behind
its message while the next is made. `cache` needs two turns, so that a case is covered
when its second turn comes; two schema versions, for the quarantine; one row of a
colleague; one fault, which is enough for each failing operation and for a death at each step,
the sync that follows it being free. `experiment` needs two cells to tell their
sessions and their machines apart, a quota of two for a cell that is half done, a second
start to resume, and two faults: one that ends an attempt and one that distorts the next.
`eventlog` needs two conversations that overlap or follow one another, two agents
for a handover, two calls in a batch, and six rows for a turn with a handover (prompt,
model, tool, the next agent's model) beside another turn (prompt, model).

Deadlock is checked in `machine` and in the runs of the shop and the dashboard. It is
not in `queue` (the bounds on brews and reseeds stop it), `turn` (a customer need not
speak again, and the bound on messages stops it), `cache` (a cache that is up to date is left
alone), `experiment` (a sweep ends) and `eventlog` (conversations end). Bounds in guards:
`MaxOrders`, `MaxTotal`, `MaxStock` of `CoffeeShop`; `MaxBrews`, `MaxReseeds`; `MaxTurns`, `MaxIds`, `MaxBatch`; `MaxMessages`,
`MaxTransfers`, `MaxOrders`, `MaxAhead`, `MaxClicks` of `Observatory`; `MaxTurns`, `MaxSchema`,
`MaxFaults` of `TraceCache`; `MaxLaunches`, `MaxFaults` of `Experiment`, whose process names
are reused once nothing of the process is left; `MaxTurns`, `MaxVerdicts`, `MaxRows` of `EventLog`.

Fairness. Only `machine` assumes any: the worker's loop runs in a daemon
thread that catches what `get_job` raises and never ends (worker.py:10-20), so it
keeps taking steps; and brewing time passes. Clients owe nothing. Nothing is assumed of
syncs, sweeps and conversations: each may be cut for good.

### What the counterexamples say

Each is a disagreement between the code and a sentence in it, listed with both in
`PROJECT.json` under `findings`. `LegalTransitions` with the dashboard: the gates
are said to enforce the lifecycle, yet know nothing of the tray's thread.
`OnlyFirstHandoffKept`: of several handoffs in a response only the first is said to be
kept, yet the deferrer replaces the calls only if there are others among them.
`DoneIsWhole`: the driver means not to call a cell done whose conversations died, and
counts sessions that a dying turn tags as well.

The properties that hold name what they except, and each exception is a behaviour of
the code worth knowing. In `FreshOrMissed`, a trace that arrives between the listing and the
second reading of the fingerprint is in the fingerprint and not in the cache, though the
comment says that a match "reliably means" the contrary (trace_cache.py:462-464); so is
everything after a quarantine that failed. A case that is covered is never extended
either, so turns after the first sync of a running conversation are lost; the code means
it so (223-225). In `ImportedKept`, the only way to lose a colleague's row is a death
while the whole file is written in place. In `OneShape`, a file put beside another's
sidecar is trusted. In `DoneHasQuota`, `NeverOverrun` and `Isolated`, the kinds of faults
listed above. In `HandoversTrue`, conversations that run at the same time, and rows of
the machine between a handover and the agent it went to.

Two more sentences of the code are not kept, and no run of the table checks them.
coffee_shop.yaml:80 says that "offer_refund may only run on a completed order", yet the
gateway judges a whole batch before any of it runs (subgraph.py:290): the second of two
refunds in a batch runs on an order the first has refunded, and reports the whole amount
as refunded again if it loaded its copy before. TLC finds it at once when
`RefundRunsOnCompleted` is checked with two tool threads; `RefundsOfCompleted` proves it for
one tool at a time, and `shop_batch` shows what two threads leave true
(`RefundedWasServed`). And eventlog_helpers.py:326 promises how many calls of a case
"were flagged/denied by the gateway", but looks for the case of a call at the event that
executes it (359): a denied call has none (`DeniedNotExecuted`), so `denied_count` is
always zero.

Behaviours of the other modules that no run singles out: a poller that noticed a
failure before a cleaning soils the machine after it; agents that hand work back and forth never reach the
limit on an agent's own messages (context_isolation.py:154); the rejection at the retry cap
is written over the last line of the log, which may be the warning logged in between
(interaction_page.py:872; the log is not modelled).

## 4. Proofs

`CoffeeMachineProofs` (for any `Jobs` and `Clients`; from `ThreadsAssumption` and
`NoJobAssumption`): `TypeCorrect`, `FailureDirties`, `EmissionFirst`, `UncleanRetry`
and `Implementation`. None of these is inductive: a thread about to set
`logged_finished` must already have emitted the ending and set the flag. The
invariant `Inv` adds `ThreadsKnow` (what a thread at each step knows of its job:
that it is known, over, that the ending is emitted, that the machine is
dirty unless swept) and `JobsOrdered` (a known or finished job was made, a logged one
is finished and its ending emitted, a client was told of logged ones only, and what
a cleaning swept had failed). There is one lemma per action that it
preserves `Inv`; `Implementation` then shows that each action is a step of
`BrewMachine` or none.

`CoffeeShopProofs` (for any number of orders, jobs, tool threads, prices and stock,
any quantities and percentages, with or without the dashboard; from `BoundsAssumption`,
`NoJobAssumption` and `ArgumentsAssumption`, that limits are percentages from 0 to 100 and
that what an order costs is within the bound on totals):
`TypeCorrect`, `StockSuffices`, `BrewFirst`, `NoFalseTaint`, `RefundAfterService`, `OwesNothing`.
The rows alone are not enough, since any of the copies in flight may be saved
later: `Truth` says the same of every row, every copy in a tool's hands, the
customer's copy, every cache entry and every tray. It is monotone: the sets it
speaks of (brews accepted, orders served, tainted and reported jobs) only grow,
so old copies stay true (`TruthKeeps`), which is why stale writes cannot break
these properties although they break others. That nothing is owed is part of it
(`NotOwed`): a total that is not negative stays so under a cut of at most 100 percent, a
negative one included (`CutSign`), so a total computed from any old copy owes nothing
either. How large totals get by negative percentages nobody limits; `TypeCorrect` claims
no more than the bound the model sets.
The others, `RefundRunsOnCompleted` and `LegalTransitions`, are false with two tool threads
or with the dashboard's customer (`shop_dashboard`), and proved under
`OneTool`, which excludes both: `RefundsOfCompleted` and `LifecycleKept`, for any number of
orders, prices, stock and restarts. Their invariant `Serial` says what two writers lose (`Agrees`): while a tool
works, its copy is the stored row and the status the gate saw is still the order's; when it
has decided, only the status of the copy differs, by a legal move. An order not yet placed
has its blank row.

`OutcomeQueueProofs` (for any depth of the list, number of threads, brews and reseeds; from
`DepthAssumption` and `PoolAssumption`): `TypeCorrect`, `SeedsReplay`, `NoneRefusedAlone`.
That a brew alone is never refused is a matter of counting: `Counted` says that each
generator's list is assigned once, by the thread that made it, and `Supplied` that what the
list lacks is promised by threads between their `popleft` and their `append`. That the
outcomes replay rests on the random sequence: `InStep` says, while no two handlers
overlapped, which draws the list holds and how often the generator drew, at every
step of a lone brew (`Brewing`) and of a lone reseed (`Refilling`).

`AgentTurnProofs` (for any swarm and handover relation, any limits, with sequential or
parallel calls, whatever models and judges answer; from `AgentsAssumption` and
`LimitsAssumption`): every property of `turn`; `NoResultIsLost` says that no tool runs in a batch
that hands over, not that one handoff does. What its invariant adds:
`Answered` (what the answer is at each node, and that its calls are all handoffs or all
ordinary, which is what the deferrer is for), `Waiting` (what a deferrer holds is a
handoff, and it holds nothing behind an answer that stops or hands over), `Identified`
(identities are given in order, so the one that is rejected is nobody else's), `HeldBack`
(what the stream holds back is the answer under judgement) and `TurnsClosed` (the agent's
turn is closed under calls and answers in the conversation, and up to the answer in the
subgraph). The last one needs lemmas on sequences: what `current_turn_messages` makes
of an appended message or batch (`TurnGoesOn`, `TurnAppended`), what keeps a
sequence closed (`ClosedBySilence`, `ClosedByResults`), and that nothing is stripped of a
closed one (`NothingOrphaned`). `Deferred` is the lemma about `_HandoffDeferrer`.

`TraceCacheProofs` (for any store, number of schema versions, of failures and of deaths;
from `BoundsAssumption` and `KindsAssumption`): every property of `cache`. The
invariant follows a row through a sync: `Shapes` says which schema the rows of the file and the
extracted ones have, `Distinct` that what is extracted is of cases the file does not have,
`Numbered` that the name of the next backup is new, `Behind` that the fingerprint never
names what is not there and does not match while a sync is under way, `Covered` where
the conversation of each trace is at each step: in the file, listed, extracted, or missed.

`ExperimentProofs` (for any number of cells, quota, earlier sessions, launches and faults;
from `BoundsAssumption`): every property of `experiment`. `Watch` says what the driver that
waits is waiting for; `Overruns` that a cell has at most what the ledger
says, and the one in flight that and what the store gained since it was asked, with
what its process still owes; `Promises` that it has at least that; `Alone` that nobody used
the order store and the machine between the wipe and the process. Each of the three is
stated under the absence of exactly the faults its property names.

`ObservatoryProofs` (for any agents, texts, limits and bounds, any number of clicks and any
lead of the swarm over the runner and of the runner over the page; from `SwarmAssumption`):
every property of `observatory`. Panels are corrected by text, so a rejection must meet the
panels when its message is the last of them. The argument gives every piece of news a place
(`Place`): a message, its rejection, the next message. `News(told)` says that the news up to some
place `told` has been passed on by the runner and what follows is in the stream: `Stream` of the
stream (in order, with repetitions only of what the runner has seen), `OnItsWay`
and `Panels` of poll, bus and panels (each in order, one before the other), `NoGap` that no
message is skipped but by emptying the panels, `Owed` that no rejection is,
`UnderJudgement` that nothing follows a message that waits for its verdict, and `TakenBack`
that a rejected reply is not yet told of. There is a lemma for each thing that can happen to the
news: it is made (`SaysNews`, `RejectsNews`...), passed on (`MessageNews`, `CorrectionNews`...), drained
(`Polled`), shown (`MessageShown`, `RejectedShown`), or lost with emptied panels (`PageEmptied`).

`EventLogProofs` (for any number of conversations, agents, turns, verdicts and rows; from
`AgentsAssumption`, that no agent is named like a customer, the machine or an object of the
log): every property of `eventlog`. The invariant is about what is written: `Stamped` (a
time stamp is one row's, and the one after a row of a trace is free), `Turned` and `Prompted`
(the rows of traces are of turns that began, and each conversation began with a prompt), `Judged`
(a decision follows what a model said in the same turn), `Unapproved` (a denied call neither
ran nor is about to, and calls to come are others) and, while turns did not overlap,
`OneTurn` (after a row of the turn under way there are only rows of that turn) and `Moved` (the
next row of a trace after a transfer is a prompt, or that of the agent the transfer named). The
conversion is then reasoned about for any `Table` with such rows: what the converted log has
(`Converted`, `Objects`, `Events`), where a link can come from (`LinkKinds`), to whom the links of
an event lead (`EventLinks`). `LinksResolved` rests on `JudgedAgentShown`, `CasesRecovered` on
`FirstPrompt` (the machine's rows are linked to the case, which is an object because
of its customer), and `HandoversCounted` on `HandoversAreSeen`: a row of a trace that lies
between a transfer and the next exported row would be of a turn under way, and all rows after
it too. The counts are equal because handovers and their events are in bijection
(`SameNumber`).

Only model-checked: `AcceptedJobFinishes` (liveness is out of the prover's reach). Every
safety and action property of the passing runs is a theorem, `LegalTransitions` under
`OneTool`; so is `RefundRunsOnCompleted`, which no run lists. The properties of the runs that expect a violation
are false as those runs instantiate them.

## 5. Not modelled

Wording, prompts, logging and layout; the read-only tools; the spelling of order
ids (cache and tray are keyed by the text the model gave, the store by the
number); the conversation log, status badges, thoughts and tool rows of the dashboard, its spinner and export
button; the effect of a tray on the order is in `CoffeeShop` alone; a crash of the machine
service, which loses jobs and dirt; soft judges beyond their verdict; setups
other than the baseline and the call limit of `strict_flow`: those that only flag (`*_flag`,
`*_soft`) have no gates at all, and nothing is claimed of them; the dashboard's buttons that
set the stock of an item. Of the trace cache, stores that are not
SQLite (no fingerprint, every call a full sync), two dashboards on one directory, and the
OSErrors that are swallowed when the sidecar, the ledger or the fingerprint is written
(the file then stays as it was). Of the
driver, preflight, provenance and the export at the end. Of the event log, attributes, links
between objects, time zones, and those metrics that only average what is in the tables. Parallel
simulations that share `feedback_store.json`, which each reads and writes as a whole. The
page of the metrics, the visualiser, the YAML loaders and the panels that only draw.

Hazards without a property carry their reason in `PROJECT.json`. Three of them are
behaviours of `Observatory` that break no sentence of the code: a pause may be
entered just after the user left the pause mode, and then lasts until its time-out; a
turn that outlives its manual conversation has its order tracked in the next; the
button that ending a manual conversation enables takes nothing.

## 6. Plan

1. Done: all modules above, their runs, and the proofs for `CoffeeMachine`, `CoffeeShop`,
   `OutcomeQueue`, `AgentTurn`, `Observatory`, `TraceCache`, `Experiment` and `EventLog`.
