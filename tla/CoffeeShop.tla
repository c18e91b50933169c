------------------------------ MODULE CoffeeShop ------------------------------
(***************************************************************************)
(* The orders of the coffee shop and the tools that change them            *)
(* (src/agents/*.py), as the control plane runs them.  An agent's turn may *)
(* hold several tool calls: the gateway checks each against the stored     *)
(* order, refuses the batch if one is denied, and the ToolNode then runs   *)
(* all of them in parallel threads.  A tool loads a copy of the order's    *)
(* row, works, and saves the WHOLE copy back.  In the dashboard the person *)
(* watching may take the tray at any moment, from a thread of its own.     *)
(*                                                                         *)
(* The coffee machine is the one CoffeeMachine is shown to implement.      *)
(***************************************************************************)
EXTENDS Integers, FiniteSets, BrewMachine

CONSTANTS MaxOrders,    \* bound on the orders created
          Slots,        \* tool threads: the calls one batch may hold
          Dashboard,    \* whether the tray is taken by a thread of its own
          Price,        \* what one unit costs
          Stock,        \* units in stock after a reset
          Quantities,   \* units the model may order, none and fewer included
          Percents,     \* discounts and refunds the model may ask for
          MaxDiscount,  \* max_pct of discount_within_limit
          MaxRefund,    \* max_pct of refund_within_limit
          MaxTotal,     \* bound on a total, on both sides of zero
          MaxStock,     \* bound on the stock, which negative orders raise
          NoJob         \* no job

Totals == -MaxTotal..MaxTotal

Cost(quantity) == Price * quantity

ASSUME BoundsAssumption ==
    /\ MaxOrders \in Nat /\ Price \in Nat /\ Stock \in Nat
    /\ MaxTotal \in Nat /\ MaxStock \in Nat
    /\ Dashboard \in BOOLEAN
ASSUME ArgumentsAssumption ==
    /\ Quantities \subseteq Int /\ \A q \in Quantities : Cost(q) \in Totals
    /\ Percents \subseteq Int
    /\ MaxDiscount \in 0..100 /\ MaxRefund \in 0..100
ASSUME NoJobAssumption == NoJob \notin Jobs

VARIABLES
    rows,       \* the orders table
    placed,     \* orders 1..placed exist
    stock,      \* units left
    cache,      \* ORDER_STATUS_CACHE of the barista's module
    tray,       \* what stands on each order's tray
    call,       \* what each tool thread is doing
    customer,   \* the thread that takes the tray in the dashboard
    \* history, read by the properties only
    brews,      \* the jobs the machine accepted for each order
    served      \* the orders that were COMPLETED at some time

shopVars == <<rows, placed, stock, cache, tray, call, customer, brews, served>>
vars == <<machineVars, shopVars>>

OrderIds == 1..MaxOrders

Orders == 1..placed

Statuses == {"none", "pending", "inventory_confirmed", "inventory_issues",
             "in_preparation", "preparation_error", "completed", "refunded"}

Row == [status: Statuses, total: Totals, quantity: Quantities \cup {0}]

BlankRow == [status |-> "none", total |-> 0, quantity |-> 0]

CacheEntry == [brew: {"none", "brewing", "ready"}, job: Jobs \cup {NoJob},
               contaminated: BOOLEAN]

BlankEntry == [brew |-> "none", job |-> NoJob, contaminated |-> FALSE]

Things == {"food", "coffee", "contaminated coffee"}

\* The tools each agent may call (config/setups/baseline/agents); a batch is
\* the turn of one agent.  place_on_tray is split by what is placed.
Toolset ==
    [order_agent     |-> {"process_order", "calculate_total"},
     inventory_agent |-> {"check_inventory", "update_stock", "place_food", "place_coffee"},
     barista_agent   |-> {"start_preparation", "end_preparation", "clean_machine",
                          "place_food", "place_coffee"},
     customer_service_agent |-> {"offer_refund", "offer_partial_refund"}]

Tools == UNION {Toolset[a] : a \in DOMAIN Toolset}

ProgramPoints == {"idle", "start", "load", "work", "save", "cache", "append"}

Call == [tool: Tools \cup {"none"}, order: 0..MaxOrders, pc: ProgramPoints,
         row: Row, job: Jobs \cup {NoJob}, contaminated: BOOLEAN]

NoCall == [tool |-> "none", order |-> 0, pc |-> "idle", row |-> BlankRow,
           job |-> NoJob, contaminated |-> FALSE]

NoVisit == [pc |-> "idle", order |-> 0, row |-> BlankRow]

Init ==
    /\ MachineInit
    /\ rows = [o \in OrderIds |-> BlankRow]
    /\ placed = 0
    /\ stock = Stock
    /\ cache = [o \in OrderIds |-> BlankEntry]
    /\ tray = [o \in OrderIds |-> {}]
    /\ call = [s \in Slots |-> NoCall]
    /\ customer = NoVisit
    /\ brews = [o \in OrderIds |-> {}]
    /\ served = {}

-----------------------------------------------------------------------------
(* The gateway.                                                            *)

\* Mutant of Sources: check_inventory has lost its guardrail.
Sources_CheckAnytime ==
    [update_stock      |-> {"inventory_confirmed"},
     start_preparation |-> {"inventory_confirmed", "in_preparation", "preparation_error"},
     end_preparation   |-> {"in_preparation"},
     offer_refund      |-> {"completed"}]

\* Mutant of Sources: an order may be refunded before it was handed over.
Sources_EarlyRefund ==
    [check_inventory   |-> {"pending"},
     update_stock      |-> {"inventory_confirmed"},
     start_preparation |-> {"inventory_confirmed", "in_preparation", "preparation_error"},
     end_preparation   |-> {"in_preparation"},
     offer_refund      |-> {"completed", "in_preparation"}]

\* The order statuses each tool may be called from.
Sources ==
    [check_inventory   |-> {"pending"},
     update_stock      |-> {"inventory_confirmed"},
     start_preparation |-> {"inventory_confirmed", "in_preparation", "preparation_error"},
     end_preparation   |-> {"in_preparation"},
     offer_refund      |-> {"completed"}]

require_order_status(tool, o) ==
    tool \in DOMAIN Sources => rows[o].status \in Sources[tool]

\* Percentages have an upper limit only: a negative one raises the total.
discount_within_limit(pct) == pct <= MaxDiscount

\* Mutant of refund_within_limit: the limit is not given.
refund_within_limit_None(pct) == TRUE

refund_within_limit(pct) == pct <= MaxRefund

\* clean_machine names no order: the gate looks at the most recent one.
clean_machine_only_after_error ==
    placed > 0 => \/ rows[placed].status = "preparation_error"
                  \/ cache[placed].contaminated

Allowed(tool, o) ==
    CASE tool = "process_order" -> o = 0
      [] tool = "clean_machine" -> o = 0 /\ clean_machine_only_after_error
      [] OTHER -> o \in Orders /\ require_order_status(tool, o)

\* Where a tool starts: those that change a row load it first.
Entry(tool) ==
    IF tool \in {"process_order", "clean_machine", "end_preparation", "place_coffee"}
    THEN "start" ELSE "load"

Fresh(tool, o) == [tool |-> tool, order |-> o, pc |-> Entry(tool), row |-> BlankRow,
                   job |-> NoJob, contaminated |-> FALSE]

TurnOver == \A s \in Slots : call[s] = NoCall

\* One agent's turn: every call of the batch was allowed by the gateway.
StartBatch(agent, busy) ==
    /\ TurnOver /\ busy # {}
    /\ \E tools \in [busy -> Toolset[agent]], orders \in [busy -> 0..placed] :
          /\ \A s \in busy : Allowed(tools[s], orders[s])
          /\ call' = [s \in Slots |-> IF s \in busy THEN Fresh(tools[s], orders[s])
                                                    ELSE NoCall]
    /\ UNCHANGED <<machineVars, rows, placed, stock, cache, tray, customer,
                   brews, served>>

-----------------------------------------------------------------------------
(* Steps the tools share.                                                  *)

At(s, tool, pc) == call[s].tool = tool /\ call[s].pc = pc

Finish(s) == call' = [call EXCEPT ![s] = NoCall]

Goto(s, pc) == call' = [call EXCEPT ![s].pc = pc]

\* The copy of the row is about to be saved with another status.
Decide(s, status) ==
    call' = [call EXCEPT ![s].row.status = status, ![s].pc = "save"]

\* load_order: a detached copy of the row.
load_order(s) ==
    /\ call[s].pc = "load"
    /\ call' = [call EXCEPT ![s].row = rows[call[s].order], ![s].pc = "work"]
    /\ UNCHANGED <<machineVars, rows, placed, stock, cache, tray, customer,
                   brews, served>>

\* save_order merges every column of the copy into the stored row.
save_order(o, row) == rows' = [rows EXCEPT ![o] = row]

set_order_status(s) ==
    /\ call[s].pc = "save"
    /\ save_order(call[s].order, call[s].row)
    /\ IF call[s].tool = "start_preparation" THEN Goto(s, "cache") ELSE Finish(s)
    /\ UNCHANGED <<machineVars, placed, stock, cache, tray, customer,
                   brews, served>>

-----------------------------------------------------------------------------
(* order_agent *)

\* An order with unknown items or extras is refused, and so is one that the
\* bound MaxOrders leaves no room for.  The quantity is any integer.
process_order(s) ==
    /\ At(s, "process_order", "start")
    /\ \/ /\ placed < MaxOrders
          /\ placed' = placed + 1
          /\ \E q \in Quantities :
                save_order(placed + 1, [status |-> "pending", total |-> Cost(q), quantity |-> q])
       \/ UNCHANGED <<rows, placed>>
    /\ Finish(s)
    /\ UNCHANGED <<machineVars, stock, cache, tray, customer, brews, served>>

\* The tool saves another total than the one it loaded.
Reduce(s, total, status) ==
    LET row == call[s].row IN
    /\ total \in Totals
    /\ save_order(call[s].order, [status   |-> status,
                                  total    |-> total,
                                  quantity |-> row.quantity])
    /\ Finish(s)
    /\ UNCHANGED <<machineVars, placed, stock, cache, tray, customer, brews, served>>

\* What is left of a total after a cut of so many percent, in whole amounts.
Cut(total, pct) == total - (total * pct) \div 100

calculate_total(s) ==
    /\ At(s, "calculate_total", "work")
    /\ \E pct \in Percents :
          /\ discount_within_limit(pct)
          /\ Reduce(s, Cut(call[s].row.total, pct), call[s].row.status)

-----------------------------------------------------------------------------
(* inventory_agent *)

check_inventory(s) ==
    /\ At(s, "check_inventory", "work")
    /\ Decide(s, IF stock >= call[s].row.quantity THEN "inventory_confirmed"
                                                  ELSE "inventory_issues")
    /\ UNCHANGED <<machineVars, rows, placed, stock, cache, tray, customer,
                   brews, served>>

\* Mutant of update_stock: it trusts the check made before.
update_stock_Trusting(s) ==
    /\ At(s, "update_stock", "work")
    /\ stock - call[s].row.quantity <= MaxStock
    /\ stock' = stock - call[s].row.quantity
    /\ Finish(s)
    /\ UNCHANGED <<machineVars, rows, placed, cache, tray, customer, brews, served>>

\* check_and_update_stock, atomic under _write_lock; the order keeps its status,
\* so the tool may be called again.  A negative quantity raises the stock.
update_stock(s) ==
    /\ At(s, "update_stock", "work")
    /\ \/ /\ stock >= call[s].row.quantity
          /\ stock - call[s].row.quantity <= MaxStock
          /\ stock' = stock - call[s].row.quantity
          /\ Finish(s)
       \/ /\ stock < call[s].row.quantity
          /\ Decide(s, "inventory_issues")
          /\ UNCHANGED stock
    /\ UNCHANGED <<machineVars, rows, placed, cache, tray, customer,
                   brews, served>>

-----------------------------------------------------------------------------
(* barista_agent *)

\* Mutant of start_preparation: the row is saved even if the machine fails.
start_preparation_SavesAnyway(s) ==
    /\ At(s, "start_preparation", "work")
    /\ \/ \E j \in Jobs, f \in BOOLEAN :
             /\ Accept(j, f)
             /\ brews' = [brews EXCEPT ![call[s].order] = @ \cup {j}]
       \/ UNCHANGED <<machineVars, brews>>
    /\ Decide(s, "in_preparation")
    /\ UNCHANGED <<rows, placed, stock, cache, tray, customer, served>>

\* The answer to the /brew request may be an error or get lost after the
\* machine accepted the job; the row is changed only by an answer.
start_preparation(s) ==
    /\ At(s, "start_preparation", "work")
    /\ \/ /\ \E j \in Jobs, f \in BOOLEAN :
                /\ Accept(j, f)
                /\ brews' = [brews EXCEPT ![call[s].order] = @ \cup {j}]
                /\ \/ call' = [call EXCEPT ![s].row.status = "in_preparation",
                                           ![s].job = j, ![s].pc = "save"]
                   \/ Finish(s)
       \/ /\ Finish(s)
          /\ UNCHANGED <<machineVars, brews>>
    /\ UNCHANGED <<rows, placed, stock, cache, tray, customer, served>>

\* Mutant of CacheJob: the order's status is written where the brew's belongs.
CacheJob_OrderStatus(s) ==
    /\ At(s, "start_preparation", "cache")
    /\ cache' = [cache EXCEPT ![call[s].order] =
                   [brew |-> call[s].row.status, job |-> call[s].job, contaminated |-> FALSE]]
    /\ Finish(s)
    /\ UNCHANGED <<machineVars, rows, placed, stock, tray, customer, brews, served>>

\* The row is saved before the cache names the new job.
CacheJob(s) ==
    /\ At(s, "start_preparation", "cache")
    /\ cache' = [cache EXCEPT ![call[s].order] =
                   [brew |-> "brewing", job |-> call[s].job, contaminated |-> FALSE]]
    /\ Finish(s)
    /\ UNCHANGED <<machineVars, rows, placed, stock, tray, customer, brews, served>>

\* end_preparation takes the job from the cache, then loads the order.
EndStarts(s) ==
    LET entry == cache[call[s].order] IN
    /\ At(s, "end_preparation", "start")
    /\ IF entry.brew = "brewing"
       THEN call' = [call EXCEPT ![s].job = entry.job, ![s].pc = "load"]
       ELSE Finish(s)
    /\ UNCHANGED <<machineVars, rows, placed, stock, cache, tray, customer,
                   brews, served>>

\* Mutant of end_preparation: the flag is the machine's, not the job's.
end_preparation_MachineFlag(s) ==
    LET o == call[s].order  j == call[s].job IN
    /\ At(s, "end_preparation", "work")
    /\ \/ /\ j \in reported \ fails
          /\ cache' = [cache EXCEPT ![o].brew = "ready", ![o].contaminated = dirty]
          /\ Finish(s)
       \/ /\ Decide(s, "preparation_error")
          /\ UNCHANGED cache
    /\ UNCHANGED <<machineVars, rows, placed, stock, tray, customer, brews, served>>

\* It polls until the machine reports the job's ending or the time is up.
\* The cache entry is amended, whichever job it names by then; a failure leaves
\* it as it is.
end_preparation(s) ==
    LET o == call[s].order  j == call[s].job IN
    /\ At(s, "end_preparation", "work")
    /\ \/ /\ j \in reported \ fails
          /\ cache' = [cache EXCEPT ![o].brew = "ready", ![o].contaminated = j \in tainted]
          /\ Finish(s)
       \/ /\ Decide(s, "preparation_error")  \* reported as failed, or timed out
          /\ UNCHANGED cache
    /\ UNCHANGED <<machineVars, rows, placed, stock, tray, customer, brews, served>>

clean_machine(s) ==
    /\ At(s, "clean_machine", "start")
    /\ Clean \/ UNCHANGED machineVars   \* unreachable
    /\ Finish(s)
    /\ UNCHANGED <<rows, placed, stock, cache, tray, customer, brews, served>>

-----------------------------------------------------------------------------
(* tray_tools *)

Append(s, thing) ==
    /\ tray' = [tray EXCEPT ![call[s].order] = @ \cup {thing}]
    /\ Finish(s)

\* Food is placed only while the order is confirmed or in preparation.
PlaceFood(s) ==
    /\ At(s, "place_food", "work")
    /\ IF call[s].row.status \in {"inventory_confirmed", "in_preparation"}
       THEN Append(s, "food")
       ELSE Finish(s) /\ UNCHANGED tray
    /\ UNCHANGED <<machineVars, rows, placed, stock, cache, customer, brews, served>>

\* Coffee is placed whatever the order's status, and is what the cache says.
LookUpBrew(s) ==
    /\ At(s, "place_coffee", "start")
    /\ call' = [call EXCEPT ![s].contaminated = cache[call[s].order].contaminated,
                            ![s].pc = "append"]
    /\ UNCHANGED <<machineVars, rows, placed, stock, cache, tray, customer,
                   brews, served>>

PlaceCoffee(s) ==
    /\ At(s, "place_coffee", "append")
    /\ Append(s, IF call[s].contaminated THEN "contaminated coffee" ELSE "coffee")
    /\ UNCHANGED <<machineVars, rows, placed, stock, cache, customer, brews, served>>

-----------------------------------------------------------------------------
(* customer_service_agent *)

\* A full refund gives back the total that was loaded.
offer_refund(s) ==
    /\ At(s, "offer_refund", "work")
    /\ Reduce(s, 0, "refunded")

\* A partial refund has no status gate and keeps the status that was loaded.
offer_partial_refund(s) ==
    /\ At(s, "offer_partial_refund", "work")
    /\ \E pct \in Percents :
          /\ refund_within_limit(pct)
          /\ Reduce(s, Cut(call[s].row.total, pct), call[s].row.status)

ToolStep(s) ==
    \/ load_order(s) \/ set_order_status(s)
    \/ process_order(s) \/ calculate_total(s)
    \/ check_inventory(s) \/ update_stock(s)
    \/ start_preparation(s) \/ CacheJob(s) \/ EndStarts(s) \/ end_preparation(s)
    \/ clean_machine(s)
    \/ PlaceFood(s) \/ LookUpBrew(s) \/ PlaceCoffee(s)
    \/ offer_refund(s) \/ offer_partial_refund(s)

-----------------------------------------------------------------------------
(* The customer takes the tray.                                            *)

Complete(o, row) ==
    /\ save_order(o, [row EXCEPT !.status = "completed"])
    /\ served' = served \cup {o}

\* Conversation._consume_tray: the most recent order, once no agent is at work.
ConsumeTray ==
    /\ ~Dashboard /\ TurnOver
    /\ placed > 0 /\ tray[placed] # {}
    /\ IF rows[placed].status = "in_preparation"
       THEN Complete(placed, rows[placed])
       ELSE UNCHANGED <<rows, served>>
    /\ tray' = [tray EXCEPT ![placed] = {}]
    /\ UNCHANGED <<machineVars, placed, stock, cache, call, customer, brews>>

\* ConversationRunner.take_tray: a click, at any time after something was put
\* on the tray of the order the runner tracks.
TakeTray(o) ==
    /\ Dashboard /\ customer.pc = "idle"
    /\ tray[o] # {}
    /\ customer' = [customer EXCEPT !.pc = "load", !.order = o]
    /\ UNCHANGED <<machineVars, rows, placed, stock, cache, tray, call, brews, served>>

CustomerLoads ==
    LET row == rows[customer.order] IN
    /\ customer.pc = "load"
    /\ customer' = [customer EXCEPT
                      !.row = row,
                      !.pc = IF row.status = "in_preparation" THEN "save" ELSE "clear"]
    /\ UNCHANGED <<machineVars, rows, placed, stock, cache, tray, call, brews, served>>

CustomerSaves ==
    /\ customer.pc = "save"
    /\ Complete(customer.order, customer.row)
    /\ customer' = [customer EXCEPT !.pc = "clear"]
    /\ UNCHANGED <<machineVars, placed, stock, cache, tray, call, brews>>

CustomerClears ==
    /\ customer.pc = "clear"
    /\ tray' = [tray EXCEPT ![customer.order] = {}]
    /\ customer' = NoVisit
    /\ UNCHANGED <<machineVars, rows, placed, stock, cache, call, brews, served>>

Customer ==
    \/ ConsumeTray
    \/ \E o \in Orders : TakeTray(o)
    \/ CustomerLoads \/ CustomerSaves \/ CustomerClears

-----------------------------------------------------------------------------

\* The shop's process dies and starts again: trays and cache are memory, the
\* orders are in the database, and the machine is a process of its own.
Restart ==
    /\ cache' = [o \in OrderIds |-> BlankEntry]
    /\ tray' = [o \in OrderIds |-> {}]
    /\ call' = [s \in Slots |-> NoCall]
    /\ customer' = NoVisit
    /\ UNCHANGED <<machineVars, rows, placed, stock, brews, served>>

\* The stock is reset before an automated conversation, and whenever a page of
\* the dashboard opens the shop, which may be in the middle of another's turn.
reset_inventory ==
    /\ Dashboard \/ TurnOver
    /\ stock' = Stock
    /\ UNCHANGED <<machineVars, rows, placed, cache, tray, call, customer,
                   brews, served>>

Machine == (MachineStep \/ Soil) /\ UNCHANGED shopVars

Next ==
    \/ \E agent \in DOMAIN Toolset, busy \in SUBSET Slots : StartBatch(agent, busy)
    \/ \E s \in Slots : ToolStep(s)
    \/ Customer
    \/ Restart
    \/ reset_inventory
    \/ Machine

Spec == Init /\ [][Next]_vars

-----------------------------------------------------------------------------
(* Properties.                                                             *)

\* Every variable keeps the shape the code gives it.
TypeOK ==
    /\ MachineTypeOK
    /\ rows \in [OrderIds -> Row]
    /\ placed \in 0..MaxOrders
    /\ stock \in Int
    /\ cache \in [OrderIds -> CacheEntry]
    /\ tray \in [OrderIds -> SUBSET Things]
    /\ call \in [Slots -> Call]
    /\ customer \in [pc: {"idle", "load", "save", "clear"}, order: 0..MaxOrders, row: Row]
    /\ brews \in [OrderIds -> SUBSET Jobs]
    /\ served \subseteq OrderIds

\* The shop never sells what it does not have, whatever order copies the
\* threads hold and whatever check_inventory told them before.
NeverOversold == stock >= 0

Brewed == {"in_preparation", "preparation_error", "completed", "refunded"}

\* An order is in preparation, failed, completed or refunded only if the machine
\* accepted a brew for it, although stale copies of its row are saved back.
BrewedBeforeServed == \A o \in OrderIds : rows[o].status \in Brewed => brews[o] # {}

\* Coffee is marked contaminated on a tray only if a brew of that very order
\* was made on a dirty machine: no blame is passed on through the cache.
TaintedTrayIsTrue ==
    \A o \in OrderIds : "contaminated coffee" \in tray[o] =>
        brews[o] \cap tainted \cap reported # {}

\* Money goes back in full only for an order the customer once received, even
\* if the refund's gate was answered before another tool of the batch, or the
\* customer at the tray, saved an older copy of the row.
RefundedWasServed == \A o \in OrderIds : rows[o].status = "refunded" => o \in served

\* No gate keeps out a negative quantity or percentage.  Still, however many
\* discounts and refunds are granted, and whatever old copies they are taken off,
\* the shop never comes to owe money on an order whose quantity is not negative.
NothingOwed == \A o \in OrderIds : rows[o].quantity >= 0 => rows[o].total >= 0

\* "offer_refund may only run on a completed order" (baseline/guardrails/coffee_shop.yaml).
\* It does so while one tool runs at a time and the tray is taken between turns.  A
\* batch is judged before it runs: the second of two refunds in it pays again.
RefundRunsOnCompleted ==
    \A s \in Slots :
        At(s, "offer_refund", "work") => rows[call[s].order].status = "completed"

\* The transitions that the tools and their source statuses make.
LegalSteps ==
    {<<"none", "pending">>,
     <<"pending", "inventory_confirmed">>, <<"pending", "inventory_issues">>,
     <<"inventory_confirmed", "inventory_issues">>,
     <<"inventory_confirmed", "in_preparation">>,
     <<"preparation_error", "in_preparation">>,
     <<"in_preparation", "preparation_error">>,
     <<"in_preparation", "completed">>,
     <<"completed", "refunded">>}

\* "Transition legality is enforced by gateway guardrails" (order_store.py): an
\* order's status moves along the lifecycle only.  It does so while one tool
\* runs at a time and the tray is taken between turns.
LegalTransitions ==
    [][\A o \in OrderIds : rows'[o].status # rows[o].status =>
          <<rows[o].status, rows'[o].status>> \in LegalSteps]_vars
=============================================================================
