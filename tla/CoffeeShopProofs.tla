--------------------------- MODULE CoffeeShopProofs ---------------------------
(***************************************************************************)
(* Proofs about CoffeeShop: what holds for any number of orders, jobs and  *)
(* parallel tool calls, with the tray taken at any moment.                 *)
(*                                                                         *)
(* The rows that threads hold are stale copies, and each is saved back.    *)
(* What makes the invariants inductive is that a copy, however old, speaks *)
(* the truth about things that never end: a brew that was accepted, an     *)
(* order that was served, a tainted brew that was reported.  And it owes   *)
(* nothing, so that a total computed from it does not either.              *)
(*                                                                         *)
(* The last part is about a shop with one tool at a time, where no copy is *)
(* stale: there the lifecycle is kept and a refund is paid once.           *)
(***************************************************************************)
EXTENDS CoffeeShop, TLAPS

\* On an order whose quantity is not negative the shop owes nothing.
NotOwed(row) == row.quantity >= 0 => row.total >= 0

\* What an order costs has the sign of its quantity.
LEMMA CostSign ==
  ASSUME NEW q \in Int, q >= 0
  PROVE  Cost(q) >= 0
  BY BoundsAssumption DEF Cost

\* A cut of at most 100 percent leaves nothing below zero, and one of a negative
\* percentage even less so.
LEMMA CutSign ==
  ASSUME NEW total \in Int, total >= 0, NEW pct \in Int, pct <= 100
  PROVE  Cut(total, pct) \in Int /\ Cut(total, pct) >= 0
<1>1. PICK x \in Int : x = total * pct
  OBVIOUS
<1>2. PICK y \in Int : y = total * (100 - pct)
  OBVIOUS
<1>3. y >= 0
  BY <1>2
<1>4. x = 100 * total - y
  BY <1>1, <1>2
<1>5. x \div 100 \in Int /\ x \div 100 <= total
  BY <1>3, <1>4
<1> QED
  BY <1>1, <1>5 DEF Cut

\* A blank row is one of those the table may hold, and owes nothing.
LEMMA Blank == BlankRow \in Row /\ NotOwed(BlankRow)
  BY BoundsAssumption DEF BlankRow, Row, Statuses, Totals, NotOwed

\* The tainted brews that a poll may have told of.
Bad == tainted \cap reported

\* The tools that work on an order.
OrderTools == Tools \ {"process_order", "clean_machine"}

\* What a copy of order o's row says of the past, given the brews accepted for
\* each order and the orders served.
RowTrue(o, row, accepts, done) ==
    /\ row.status \in Brewed => accepts[o] # {}
    /\ row.status \in {"completed", "refunded"} => o \in done
    /\ NotOwed(row)

\* What a thread's call carries: its copy of the row, the gate's answer, the
\* job it took from the cache and the contamination it read there.
CallTrue(c, accepts, done, bad) ==
    /\ c.tool \in OrderTools => c.order \in OrderIds
    /\ c.tool \in OrderTools =>
          /\ RowTrue(c.order, c.row, accepts, done)
          /\ c.tool = "end_preparation" => accepts[c.order] # {}
          /\ c.tool = "offer_refund" => c.order \in done /\ accepts[c.order] # {}
          /\ c.job # NoJob => c.job \in accepts[c.order]
          /\ c.contaminated => accepts[c.order] \cap bad # {}
    /\ c.pc = "save" => c.tool \in {"check_inventory", "update_stock",
                                    "start_preparation", "end_preparation"}
    /\ c.pc = "load" => c.tool \in OrderTools

VisitTrue(v, accepts, done) ==
    /\ v.pc # "idle" => v.order \in OrderIds
    /\ v.pc = "save" => /\ RowTrue(v.order, v.row, accepts, done)
                        /\ v.row.status = "in_preparation"

EntryTrue(o, e, accepts, bad) ==
    /\ e.job # NoJob => e.job \in accepts[o]
    /\ e.contaminated => accepts[o] \cap bad # {}

TrayTrue(o, things, accepts, bad) ==
    "contaminated coffee" \in things => accepts[o] \cap bad # {}

Truth ==
    /\ \A o \in OrderIds : RowTrue(o, rows[o], brews, served)
    /\ \A s \in Slots : CallTrue(call[s], brews, served, Bad)
    /\ VisitTrue(customer, brews, served)
    /\ \A o \in OrderIds : EntryTrue(o, cache[o], brews, Bad)
    /\ \A o \in OrderIds : TrayTrue(o, tray[o], brews, Bad)

Inv == TypeOK /\ Truth /\ NeverOversold

\* No step takes back what the copies rely on.
Grows ==
    /\ \A o \in OrderIds : brews[o] \subseteq brews'[o]
    /\ served \subseteq served'
    /\ Bad \subseteq Bad'

\* An idle thread runs no tool.
LEMMA NoneIsNoTool == "none" \notin OrderTools
  BY DEF OrderTools, Tools, Toolset

\* The orders that exist are within the bound.
LEMMA OrdersBounded ==
  ASSUME TypeOK
  PROVE  /\ Orders \subseteq OrderIds
         /\ 0..placed \subseteq 0..MaxOrders
         /\ placed > 0 => placed \in OrderIds
  BY BoundsAssumption DEF TypeOK, Orders, OrderIds

\* The shop opens with nothing to tell.
LEMMA InitInv == Init => Inv
<1> SUFFICES ASSUME Init PROVE Inv
  OBVIOUS
<1> USE BoundsAssumption DEF Init, MachineInit
<1>1. BlankRow \in Row
  BY Blank
<1>2. BlankEntry \in CacheEntry
  BY DEF BlankEntry, CacheEntry
<1>3. NoCall \in Call
  BY <1>1 DEF NoCall, Call, ProgramPoints
<1>4. TypeOK
  <2>1. MachineTypeOK
    BY DEF MachineTypeOK
  <2>2. rows \in [OrderIds -> Row] /\ cache \in [OrderIds -> CacheEntry]
    BY <1>1, <1>2
  <2>3. call \in [Slots -> Call]
    BY <1>3
  <2>4. customer \in [pc: {"idle", "load", "save", "clear"}, order: 0..MaxOrders, row: Row]
    BY <1>1 DEF NoVisit
  <2> QED
    BY <2>1, <2>2, <2>3, <2>4 DEF TypeOK
<1>5. Truth
  <2>1. \A o \in OrderIds : RowTrue(o, rows[o], brews, served)
    BY Blank DEF RowTrue, BlankRow, Brewed
  <2>2. \A s \in Slots : CallTrue(call[s], brews, served, Bad)
    BY NoneIsNoTool DEF CallTrue, NoCall
  <2>3. \A o \in OrderIds : EntryTrue(o, cache[o], brews, Bad)
    BY DEF EntryTrue, BlankEntry
  <2> QED
    BY <2>1, <2>2, <2>3 DEF Truth, VisitTrue, NoVisit, TrayTrue
<1>6. NeverOversold
  BY DEF NeverOversold
<1> QED
  BY <1>4, <1>5, <1>6 DEF Inv

-----------------------------------------------------------------------------
(* A step has only to show that what it writes is true.                    *)

\* What was true of the past stays true when the past only grows; a step has
\* to show it for what it writes.
LEMMA TruthKeeps ==
  ASSUME Truth, Grows,
         \A o \in OrderIds : rows'[o] = rows[o] \/ RowTrue(o, rows'[o], brews', served'),
         \A s \in Slots : call'[s] = call[s] \/ CallTrue(call'[s], brews', served', Bad'),
         customer' = customer \/ VisitTrue(customer', brews', served'),
         \A o \in OrderIds : cache'[o] = cache[o] \/ EntryTrue(o, cache'[o], brews', Bad'),
         \A o \in OrderIds : tray'[o] = tray[o] \/ TrayTrue(o, tray'[o], brews', Bad')
  PROVE  Truth'
<1>1. \A o \in OrderIds : RowTrue(o, rows'[o], brews', served')
  BY DEF Truth, Grows, RowTrue
<1>2. \A s \in Slots : CallTrue(call'[s], brews', served', Bad')
  <2> SUFFICES ASSUME NEW s \in Slots, call'[s] = call[s]
               PROVE  CallTrue(call'[s], brews', served', Bad')
    OBVIOUS
  <2> CallTrue(call[s], brews, served, Bad)
    BY DEF Truth
  <2> QED
    BY DEF Grows, CallTrue, RowTrue
<1>3. VisitTrue(customer', brews', served')
  BY DEF Truth, Grows, VisitTrue, RowTrue
<1>4. \A o \in OrderIds : EntryTrue(o, cache'[o], brews', Bad')
  BY DEF Truth, Grows, EntryTrue
<1>5. \A o \in OrderIds : TrayTrue(o, tray'[o], brews', Bad')
  BY DEF Truth, Grows, TrayTrue
<1> QED
  BY <1>1, <1>2, <1>3, <1>4, <1>5 DEF Truth

-----------------------------------------------------------------------------
(* The gateway. *)

\* A call the gateway allowed starts with nothing untrue.
LEMMA FreshCall ==
  ASSUME Inv, NEW tool \in Tools, NEW o \in 0..MaxOrders, Allowed(tool, o)
  PROVE  Fresh(tool, o) \in Call /\ CallTrue(Fresh(tool, o), brews, served, Bad)
<1> USE DEF Inv
<1>1. Fresh(tool, o) = [tool |-> tool, order |-> o, pc |-> Entry(tool), row |-> BlankRow,
                        job |-> NoJob, contaminated |-> FALSE]
  BY DEF Fresh
<1>2. Fresh(tool, o) \in Call
  BY <1>1, Blank, BoundsAssumption DEF Call, ProgramPoints, Entry
<1>3. tool \in OrderTools => o \in Orders /\ require_order_status(tool, o)
  <2>1. tool \in OrderTools => tool # "process_order" /\ tool # "clean_machine"
    BY DEF OrderTools
  <2> QED
    BY <2>1, Zenon DEF Allowed
<1>4. tool \in OrderTools => o \in OrderIds
  BY <1>3, OrdersBounded
<1>5. tool = "end_preparation" => brews[o] # {}
  <2> SUFFICES ASSUME tool = "end_preparation" PROVE brews[o] # {}
    OBVIOUS
  <2>1. tool \in OrderTools /\ tool \in DOMAIN Sources /\ Sources[tool] = {"in_preparation"}
    BY DEF OrderTools, Sources
  <2> QED
    BY <1>3, <1>4, <2>1 DEF require_order_status, Truth, RowTrue, Brewed
<1>6. tool = "offer_refund" => o \in served /\ brews[o] # {}
  <2> SUFFICES ASSUME tool = "offer_refund" PROVE o \in served /\ brews[o] # {}
    OBVIOUS
  <2>1. tool \in OrderTools /\ tool \in DOMAIN Sources /\ Sources[tool] = {"completed"}
    BY DEF OrderTools, Sources
  <2> QED
    BY <1>3, <1>4, <2>1 DEF require_order_status, Truth, RowTrue, Brewed
<1>7. RowTrue(o, BlankRow, brews, served)
  BY Blank DEF RowTrue, BlankRow, Brewed
<1>8. Entry(tool) # "save" /\ (Entry(tool) = "load" => tool \in OrderTools)
  BY DEF Entry, OrderTools
<1>9. CallTrue(Fresh(tool, o), brews, served, Bad)
  BY <1>1, <1>4, <1>5, <1>6, <1>7, <1>8 DEF CallTrue
<1> QED
  BY <1>2, <1>9

\* A batch changes the threads' calls only.
LEMMA BatchInv ==
  ASSUME Inv, NEW agent \in DOMAIN Toolset, NEW busy \in SUBSET Slots,
         StartBatch(agent, busy)
  PROVE  Inv'
<1> USE DEF Inv
<1>1. PICK tools \in [busy -> Toolset[agent]], orders \in [busy -> 0..placed] :
         /\ \A s \in busy : Allowed(tools[s], orders[s])
         /\ call' = [s \in Slots |-> IF s \in busy THEN Fresh(tools[s], orders[s])
                                                   ELSE NoCall]
  BY DEF StartBatch
<1>2. UNCHANGED <<machineVars, rows, placed, stock, cache, tray, customer,
                  brews, served>>
  BY DEF StartBatch
<1>3. \A s \in busy : tools[s] \in Tools /\ orders[s] \in 0..MaxOrders
  BY OrdersBounded DEF Tools
<1>4. NoCall \in Call /\ CallTrue(NoCall, brews, served, Bad)
  BY NoneIsNoTool, Blank, BoundsAssumption DEF NoCall, Call, ProgramPoints, CallTrue
<1>5. \A s \in busy : /\ Fresh(tools[s], orders[s]) \in Call
                      /\ CallTrue(Fresh(tools[s], orders[s]), brews, served, Bad)
  BY <1>1, <1>3, FreshCall
<1>6. call' \in [Slots -> Call]
  BY <1>1, <1>4, <1>5
<1>7. \A s \in Slots : CallTrue(call'[s], brews, served, Bad)
  BY <1>1, <1>4, <1>5
<1>8. TypeOK'
  BY <1>2, <1>6 DEF TypeOK, MachineTypeOK, machineVars
<1>9. Grows /\ Bad' = Bad
  BY <1>2 DEF Grows, Bad, machineVars
<1>10. Truth'
  BY <1>2, <1>7, <1>9, TruthKeeps
<1> QED
  BY <1>2, <1>8, <1>10 DEF NeverOversold

-----------------------------------------------------------------------------
(* Steps of the tools.                                                     *)

\* The facts every step starts from.
LEMMA CallFacts ==
  ASSUME Inv, NEW s \in Slots
  PROVE  /\ call \in [Slots -> Call] /\ call[s] \in Call
         /\ CallTrue(call[s], brews, served, Bad)
  BY DEF Inv, TypeOK, Truth

\* A fresh copy of a row is as true as the row.
LEMMA LoadInv ==
  ASSUME Inv, NEW s \in Slots, load_order(s)
  PROVE  Inv'
<1> DEFINE o == call[s].order
<1>1. call[s] \in Call /\ CallTrue(call[s], brews, served, Bad) /\ call[s].tool \in OrderTools
  BY CallFacts DEF load_order, CallTrue
<1>2. o \in OrderIds /\ rows[o] \in Row /\ RowTrue(o, rows[o], brews, served)
  BY <1>1 DEF CallTrue, Inv, TypeOK, Truth
<1>3. /\ \A u \in Slots \ {s} : call'[u] = call[u]
      /\ call'[s] = [tool |-> call[s].tool, order |-> o, pc |-> "work", row |-> rows[o],
                     job |-> call[s].job, contaminated |-> call[s].contaminated]
      /\ call' \in [Slots -> Call]
  BY <1>1, <1>2, CallFacts DEF load_order, Call, ProgramPoints
<1>4. UNCHANGED <<machineVars, rows, placed, stock, cache, tray, customer,
                  brews, served>>
  BY DEF load_order
<1>5. TypeOK'
  BY <1>3, <1>4 DEF Inv, TypeOK, MachineTypeOK, machineVars
<1>6. Grows /\ Bad' = Bad
  BY <1>4 DEF Grows, Bad, machineVars
<1>7. CallTrue(call'[s], brews, served, Bad)
  BY <1>1, <1>2, <1>3 DEF CallTrue
<1>8. Truth'
  BY <1>3, <1>4, <1>6, <1>7, TruthKeeps DEF Inv
<1> QED
  BY <1>4, <1>5, <1>8 DEF Inv, NeverOversold

\* A thread that is done carries nothing.
LEMMA FinishFacts ==
  ASSUME Inv, NEW s \in Slots, Finish(s)
  PROVE  /\ call' \in [Slots -> Call]
         /\ \A u \in Slots : call'[u] = call[u] \/ CallTrue(call'[u], brews', served', Bad')
<1>1. NoCall \in Call /\ CallTrue(NoCall, brews', served', Bad')
  BY NoneIsNoTool, Blank, BoundsAssumption DEF NoCall, Call, ProgramPoints, CallTrue
<1> QED
  BY <1>1, CallFacts DEF Finish, Inv, TypeOK

\* A step that writes nothing but the thread's own call.
LEMMA CallOnly ==
  ASSUME Inv, call' \in [Slots -> Call],
         \A u \in Slots : call'[u] = call[u] \/ CallTrue(call'[u], brews', served', Bad'),
         UNCHANGED <<machineVars, rows, placed, stock, cache, tray, customer,
                     brews, served>>
  PROVE  Inv'
<1>1. TypeOK'
  BY DEF Inv, TypeOK, MachineTypeOK, machineVars
<1>2. Grows
  BY DEF Grows, Bad, machineVars
<1>3. Truth'
  BY <1>2, TruthKeeps DEF Inv
<1> QED
  BY <1>1, <1>3 DEF Inv, NeverOversold

\* The copy with another status, about to be saved.
LEMMA DecideFacts ==
  ASSUME Inv, NEW s \in Slots, NEW st \in Statuses \ {"completed", "refunded"},
         Decide(s, st), UNCHANGED <<brews, served, Bad>>,
         call[s].tool \in {"check_inventory", "update_stock", "end_preparation"},
         st \in Brewed => brews[call[s].order] # {}
  PROVE  /\ call' \in [Slots -> Call]
         /\ \A u \in Slots : call'[u] = call[u] \/ CallTrue(call'[u], brews', served', Bad')
<1> DEFINE c == call[s]
<1>1. c \in Call /\ CallTrue(c, brews, served, Bad) /\ c.row \in Row
  BY CallFacts DEF Call
<1>2. /\ \A u \in Slots \ {s} : call'[u] = call[u]
      /\ call'[s] = [tool |-> c.tool, order |-> c.order, pc |-> "save",
                     row |-> [status |-> st, total |-> c.row.total,
                              quantity |-> c.row.quantity],
                     job |-> c.job, contaminated |-> c.contaminated]
  BY <1>1, CallFacts DEF Decide, Call, Row
<1>3. call' \in [Slots -> Call]
  BY <1>1, <1>2, CallFacts DEF Decide, Call, Row, ProgramPoints
<1>4. c.tool \in OrderTools
  BY <1>1 DEF OrderTools, Tools, Toolset
<1>5. CallTrue(call'[s], brews', served', Bad')
  BY <1>1, <1>2, <1>4 DEF CallTrue, RowTrue, NotOwed, Row
<1> QED
  BY <1>2, <1>3, <1>5

\* check_inventory decides a status and saves nothing yet.
LEMMA CheckInv ==
  ASSUME Inv, NEW s \in Slots, check_inventory(s)
  PROVE  Inv'
<1>1. UNCHANGED <<machineVars, rows, placed, stock, cache, tray, customer,
                  brews, served>>
  BY DEF check_inventory
<1>2. UNCHANGED Bad
  BY <1>1 DEF Bad, machineVars
<1>3. PICK st \in {"inventory_confirmed", "inventory_issues"} : Decide(s, st)
  BY DEF check_inventory
<1> QED
  BY <1>1, <1>2, <1>3, DecideFacts, CallOnly
  DEF check_inventory, At, Statuses, Brewed

\* A saved copy is a true row, however old it is.
LEMMA SaveInv ==
  ASSUME Inv, NEW s \in Slots, set_order_status(s)
  PROVE  Inv'
<1> DEFINE c == call[s]  o == call[s].order
<1>1. c \in Call /\ CallTrue(c, brews, served, Bad) /\ c.tool \in OrderTools
  BY CallFacts DEF set_order_status, CallTrue, OrderTools, Tools, Toolset
<1>2. o \in OrderIds /\ c.row \in Row /\ RowTrue(o, c.row, brews, served)
  BY <1>1 DEF CallTrue, Call
<1>3. UNCHANGED <<machineVars, placed, stock, cache, tray, customer, brews, served>>
  BY DEF set_order_status
<1>4. rows' = [rows EXCEPT ![o] = c.row]
  BY DEF set_order_status, save_order
<1>5. /\ call' \in [Slots -> Call]
      /\ \A u \in Slots : call'[u] = call[u] \/ CallTrue(call'[u], brews', served', Bad')
  <2>1. CASE c.tool = "start_preparation"
    <3>1. /\ \A u \in Slots \ {s} : call'[u] = call[u]
          /\ call'[s] = [tool |-> c.tool, order |-> o, pc |-> "cache", row |-> c.row,
                         job |-> c.job, contaminated |-> c.contaminated]
          /\ call' \in [Slots -> Call]
      BY <1>1, <2>1, CallFacts DEF set_order_status, Goto, Call, ProgramPoints
    <3>2. CallTrue(call'[s], brews, served, Bad)
      BY <1>1, <3>1 DEF CallTrue
    <3> QED
      BY <1>3, <3>1, <3>2 DEF Bad, machineVars
  <2>2. CASE c.tool # "start_preparation"
    BY <2>2, FinishFacts DEF set_order_status
  <2> QED
    BY <2>1, <2>2
<1>6. TypeOK'
  BY <1>2, <1>3, <1>4, <1>5 DEF Inv, TypeOK, MachineTypeOK, machineVars
<1>7. Grows
  BY <1>3 DEF Grows, Bad, machineVars
<1>8. Truth'
  BY <1>2, <1>3, <1>4, <1>5, <1>7, TruthKeeps DEF Inv, TypeOK
<1> QED
  BY <1>3, <1>6, <1>8 DEF Inv, NeverOversold

\* A new order claims nothing.
LEMMA ProcessInv ==
  ASSUME Inv, NEW s \in Slots, process_order(s)
  PROVE  Inv'
<1>1. UNCHANGED <<machineVars, stock, cache, tray, customer, brews, served>>
  BY DEF process_order
<1>2. Finish(s)
  BY DEF process_order
<1>3. /\ \A o \in OrderIds : rows'[o] = rows[o] \/ RowTrue(o, rows'[o], brews', served')
      /\ rows' \in [OrderIds -> Row] /\ placed' \in 0..MaxOrders
  <2>1. CASE UNCHANGED <<rows, placed>>
    BY <2>1 DEF Inv, TypeOK
  <2>2. ASSUME placed < MaxOrders, placed' = placed + 1, NEW q \in Quantities,
               save_order(placed + 1, [status |-> "pending", total |-> Cost(q), quantity |-> q])
        PROVE  <1>3
    <3> DEFINE new == [status |-> "pending", total |-> Cost(q), quantity |-> q]
    <3>1. new \in Row /\ NotOwed(new)
      BY ArgumentsAssumption, CostSign DEF Row, Statuses, NotOwed
    <3>2. placed + 1 \in OrderIds /\ placed + 1 \in 0..MaxOrders
      BY <2>2, BoundsAssumption DEF Inv, TypeOK, OrderIds
    <3> QED
      BY <2>2, <3>1, <3>2 DEF save_order, RowTrue, Brewed, Inv, TypeOK
  <2> QED
    BY <2>1, <2>2 DEF process_order
<1>4. TypeOK'
  BY <1>1, <1>2, <1>3, FinishFacts DEF Inv, TypeOK, MachineTypeOK, machineVars
<1>5. Grows
  BY <1>1 DEF Grows, Bad, machineVars
<1>6. Truth'
  BY <1>1, <1>2, <1>3, <1>5, FinishFacts, TruthKeeps DEF Inv
<1> QED
  BY <1>1, <1>4, <1>6 DEF Inv, NeverOversold

\* A tool saves a total that owes no more than the one it loaded.
LEMMA ReduceInv ==
  ASSUME Inv, NEW s \in Slots, NEW total \in Int, NEW st \in Statuses,
         Reduce(s, total, st), call[s].tool \in OrderTools,
         call[s].row.total >= 0 => total >= 0,
         RowTrue(call[s].order, [status   |-> st,
                                 total    |-> call[s].row.total,
                                 quantity |-> call[s].row.quantity], brews, served)
  PROVE  Inv'
<1> DEFINE c == call[s]  o == call[s].order  row == call[s].row
           new == [status |-> st, total |-> total, quantity |-> row.quantity]
<1>1. c \in Call /\ o \in OrderIds /\ row \in Row
  BY CallFacts DEF CallTrue, Call
<1>2. UNCHANGED <<machineVars, placed, stock, cache, tray, customer, brews, served>>
  BY DEF Reduce
<1>3. rows' = [rows EXCEPT ![o] = new] /\ total \in Totals
  BY DEF Reduce, save_order
<1>4. new \in Row /\ RowTrue(o, new, brews, served)
  BY <1>1, <1>3 DEF Row, RowTrue, NotOwed
<1>5. Finish(s)
  BY DEF Reduce
<1>6. TypeOK'
  BY <1>1, <1>2, <1>3, <1>4, <1>5, FinishFacts DEF Inv, TypeOK, MachineTypeOK, machineVars
<1>7. Grows
  BY <1>2 DEF Grows, Bad, machineVars
<1>8. Truth'
  BY <1>2, <1>3, <1>4, <1>5, <1>7, FinishFacts, TruthKeeps DEF Inv, TypeOK
<1> QED
  BY <1>2, <1>6, <1>8 DEF Inv, NeverOversold

\* Discounts and refunds, negative ones included.
LEMMA GrantsInv ==
  ASSUME Inv, NEW s \in Slots,
         calculate_total(s) \/ offer_refund(s) \/ offer_partial_refund(s)
  PROVE  Inv'
<1> DEFINE c == call[s]  row == call[s].row
           With(st) == [status |-> st, total |-> row.total, quantity |-> row.quantity]
<1>1. /\ c.tool \in OrderTools /\ row \in Row /\ c.order \in OrderIds
      /\ RowTrue(c.order, row, brews, served)
      /\ c.tool = "offer_refund" => c.order \in served /\ brews[c.order] # {}
  BY CallFacts DEF calculate_total, offer_refund, offer_partial_refund, At, CallTrue, Call,
     OrderTools, Tools, Toolset
<1>2. row.status \in Statuses /\ row.total \in Int
  BY <1>1, BoundsAssumption DEF Row, Totals
<1>3. RowTrue(c.order, With(row.status), brews, served)
  BY <1>1 DEF RowTrue, NotOwed
<1>4. CASE offer_refund(s)
  <2>1. c.order \in served /\ brews[c.order] # {}
    BY <1>1, <1>4 DEF offer_refund, At
  <2>2. "refunded" \in Statuses /\ 0 \in Int /\ Reduce(s, 0, "refunded")
    BY <1>4 DEF offer_refund, Statuses
  <2>3. RowTrue(c.order, With("refunded"), brews, served)
    BY <1>1, <2>1 DEF RowTrue, NotOwed
  <2> QED
    BY <1>1, <2>2, <2>3, ReduceInv
<1>5. CASE calculate_total(s) \/ offer_partial_refund(s)
  <2>1. PICK pct \in Percents : pct <= 100 /\ Reduce(s, Cut(row.total, pct), row.status)
    BY <1>5, ArgumentsAssumption
    DEF calculate_total, offer_partial_refund, discount_within_limit, refund_within_limit
  <2>2. PICK total \in Int : total = Cut(row.total, pct)
    BY <1>2, ArgumentsAssumption DEF Cut
  <2>3. row.total >= 0 => total >= 0
    BY <1>2, <2>1, <2>2, CutSign, ArgumentsAssumption
  <2> QED
    BY <1>1, <1>2, <1>3, <2>1, <2>2, <2>3, ReduceInv
<1> QED
  BY <1>4, <1>5

-----------------------------------------------------------------------------
(* Stock, brewing and the tray.                                            *)

\* update_stock takes what is there or nothing.
LEMMA StockInv ==
  ASSUME Inv, NEW s \in Slots, update_stock(s)
  PROVE  Inv'
<1>1. UNCHANGED <<machineVars, rows, placed, cache, tray, customer, brews, served>>
  BY DEF update_stock
<1>2. UNCHANGED Bad
  BY <1>1 DEF Bad, machineVars
<1>3. call[s] \in Call /\ call[s].row.quantity \in Int
  <2>1. call[s].row \in Row
    BY CallFacts DEF Call
  <2>2. Quantities \cup {0} \subseteq Int
    BY ArgumentsAssumption
  <2>3. call[s].row.quantity \in Quantities \cup {0}
    BY <2>1 DEF Row
  <2> QED
    BY <2>2, <2>3, CallFacts
<1>4. /\ call' \in [Slots -> Call]
      /\ \A u \in Slots : call'[u] = call[u] \/ CallTrue(call'[u], brews', served', Bad')
  <2>1. CASE Finish(s)
    BY <2>1, FinishFacts
  <2>2. CASE Decide(s, "inventory_issues")
    <3>1. /\ "inventory_issues" \in Statuses \ {"completed", "refunded"}
          /\ "inventory_issues" \notin Brewed
      BY DEF Statuses, Brewed
    <3>2. call[s].tool = "update_stock" /\ UNCHANGED <<brews, served, Bad>>
      BY <1>1, <1>2 DEF update_stock, At
    <3> QED
      BY <2>2, <3>1, <3>2, DecideFacts
  <2> QED
    BY <2>1, <2>2 DEF update_stock
<1>5. stock' \in Int /\ stock' >= 0
  BY <1>3 DEF update_stock, Inv, TypeOK, NeverOversold
<1>6. TypeOK'
  BY <1>1, <1>4, <1>5 DEF Inv, TypeOK, MachineTypeOK, machineVars
<1>7. Grows
  BY <1>1, <1>2 DEF Grows
<1>8. Truth'
  BY <1>1, <1>4, <1>7, TruthKeeps DEF Inv
<1> QED
  BY <1>5, <1>6, <1>8 DEF Inv, NeverOversold

\* The cache names a job accepted for the order.
LEMMA CacheJobInv ==
  ASSUME Inv, NEW s \in Slots, CacheJob(s)
  PROVE  Inv'
<1> DEFINE o == call[s].order
           entry == [brew |-> "brewing", job |-> call[s].job, contaminated |-> FALSE]
<1>1. UNCHANGED <<machineVars, rows, placed, stock, tray, customer, brews, served>>
  BY DEF CacheJob
<1>2. Finish(s) /\ cache' = [cache EXCEPT ![o] = entry]
  BY DEF CacheJob
<1>3. call[s] \in Call /\ o \in OrderIds /\ (call[s].job # NoJob => call[s].job \in brews[o])
  BY CallFacts DEF CacheJob, At, CallTrue, OrderTools, Tools, Toolset
<1>4. entry \in CacheEntry /\ EntryTrue(o, entry, brews, Bad)
  BY <1>3 DEF CacheEntry, EntryTrue, Call
<1>5. Grows /\ UNCHANGED Bad
  BY <1>1 DEF Grows, Bad, machineVars
<1>6. TypeOK'
  BY <1>1, <1>2, <1>4, FinishFacts DEF Inv, TypeOK, MachineTypeOK, machineVars
<1>7. Truth'
  BY <1>1, <1>2, <1>4, <1>5, FinishFacts, TruthKeeps DEF Inv, TypeOK
<1> QED
  BY <1>1, <1>6, <1>7 DEF Inv, NeverOversold

\* end_preparation polls a job accepted for the order.
LEMMA EndStartsInv ==
  ASSUME Inv, NEW s \in Slots, EndStarts(s)
  PROVE  Inv'
<1> DEFINE c == call[s]  o == call[s].order
<1>1. UNCHANGED <<machineVars, rows, placed, stock, cache, tray, customer,
                  brews, served>>
  BY DEF EndStarts
<1>2. UNCHANGED Bad
  BY <1>1 DEF Bad, machineVars
<1>3. CASE Finish(s)
  BY <1>1, <1>3, FinishFacts, CallOnly
<1>4. CASE call' = [call EXCEPT ![s].job = cache[o].job, ![s].pc = "load"]
  <2>1. c \in Call /\ CallTrue(c, brews, served, Bad) /\ c.tool \in OrderTools
    BY CallFacts DEF EndStarts, At, OrderTools, Tools, Toolset
  <2>2. o \in OrderIds /\ cache[o] \in CacheEntry /\ EntryTrue(o, cache[o], brews, Bad)
    BY <2>1 DEF CallTrue, Inv, TypeOK, Truth
  <2>3. /\ \A u \in Slots \ {s} : call'[u] = call[u]
        /\ call'[s] = [tool |-> c.tool, order |-> o, pc |-> "load", row |-> c.row,
                       job |-> cache[o].job, contaminated |-> c.contaminated]
        /\ call' \in [Slots -> Call]
    BY <1>4, <2>1, <2>2, CallFacts DEF Call, CacheEntry, ProgramPoints
  <2>4. CallTrue(call'[s], brews, served, Bad)
    BY <2>1, <2>2, <2>3 DEF CallTrue, EntryTrue
  <2> QED
    BY <1>1, <1>2, <2>3, <2>4, CallOnly
<1> QED
  BY <1>3, <1>4 DEF EndStarts

\* What a thread reads in the cache is true of the order.
LEMMA LookUpInv ==
  ASSUME Inv, NEW s \in Slots, LookUpBrew(s)
  PROVE  Inv'
<1> DEFINE c == call[s]  o == call[s].order
<1>1. UNCHANGED <<machineVars, rows, placed, stock, cache, tray, customer,
                  brews, served>>
  BY DEF LookUpBrew
<1>2. UNCHANGED Bad
  BY <1>1 DEF Bad, machineVars
<1>3. c \in Call /\ CallTrue(c, brews, served, Bad) /\ c.tool \in OrderTools
  BY CallFacts DEF LookUpBrew, At, OrderTools, Tools, Toolset
<1>4. o \in OrderIds /\ cache[o] \in CacheEntry /\ EntryTrue(o, cache[o], brews, Bad)
  BY <1>3 DEF CallTrue, Inv, TypeOK, Truth
<1>5. /\ \A u \in Slots \ {s} : call'[u] = call[u]
      /\ call'[s] = [tool |-> c.tool, order |-> o, pc |-> "append", row |-> c.row,
                     job |-> c.job, contaminated |-> cache[o].contaminated]
      /\ call' \in [Slots -> Call]
  BY <1>3, <1>4, CallFacts DEF LookUpBrew, Call, CacheEntry, ProgramPoints
<1>6. CallTrue(call'[s], brews, served, Bad)
  BY <1>3, <1>4, <1>5 DEF CallTrue, EntryTrue
<1> QED
  BY <1>1, <1>2, <1>5, <1>6, CallOnly

\* A poll tells the contamination of the very job it asked about.
LEMMA EndInv ==
  ASSUME Inv, NEW s \in Slots, end_preparation(s)
  PROVE  Inv'
<1> DEFINE c == call[s]  o == call[s].order  j == call[s].job
<1>1. UNCHANGED <<machineVars, rows, placed, stock, tray, customer, brews, served>>
  BY DEF end_preparation
<1>2. UNCHANGED Bad
  BY <1>1 DEF Bad, machineVars
<1>3. /\ c \in Call /\ CallTrue(c, brews, served, Bad)
      /\ c.tool = "end_preparation" /\ c.tool \in OrderTools
  BY CallFacts DEF end_preparation, At, OrderTools, Tools, Toolset
<1>4. o \in OrderIds /\ brews[o] # {} /\ (j # NoJob => j \in brews[o])
  BY <1>3 DEF CallTrue
<1>5. CASE /\ j \in reported \ fails
           /\ cache' = [cache EXCEPT ![o].brew = "ready",
                                     ![o].contaminated = j \in tainted]
           /\ Finish(s)
  <2>1. j \in brews[o]
    BY <1>4, <1>5, NoJobAssumption DEF Inv, TypeOK, MachineTypeOK
  <2>2. cache[o] \in CacheEntry /\ EntryTrue(o, cache[o], brews, Bad)
    BY <1>4 DEF Inv, TypeOK, Truth
  <2>3. PICK flag \in BOOLEAN :
          /\ cache' = [cache EXCEPT ![o].brew = "ready", ![o].contaminated = flag]
          /\ flag => j \in tainted
    <3>1. (j \in tainted) \in BOOLEAN
      BY SMT
    <3> WITNESS (j \in tainted) \in BOOLEAN
    <3> QED
      BY <1>5, Zenon
  <2>4. /\ cache'[o] = [brew |-> "ready", job |-> cache[o].job, contaminated |-> flag]
        /\ \A p \in OrderIds \ {o} : cache'[p] = cache[p]
        /\ cache' \in [OrderIds -> CacheEntry]
    BY <1>4, <2>2, <2>3 DEF CacheEntry, Inv, TypeOK
  <2>5. EntryTrue(o, cache'[o], brews, Bad)
    BY <1>5, <2>1, <2>2, <2>3, <2>4 DEF EntryTrue, Bad
  <2>6. TypeOK'
    BY <1>1, <1>5, <2>4, FinishFacts DEF Inv, TypeOK, MachineTypeOK, machineVars
  <2>7. Grows
    BY <1>1, <1>2 DEF Grows
  <2>8. Truth'
    BY <1>1, <1>2, <1>5, <2>4, <2>5, <2>7, FinishFacts, TruthKeeps DEF Inv
  <2> QED
    BY <1>1, <2>6, <2>8 DEF Inv, NeverOversold
<1>6. CASE Decide(s, "preparation_error") /\ UNCHANGED cache
  <2>1. "preparation_error" \in Statuses \ {"completed", "refunded"}
    BY DEF Statuses
  <2>2. /\ call' \in [Slots -> Call]
        /\ \A u \in Slots : call'[u] = call[u] \/ CallTrue(call'[u], brews', served', Bad')
    BY <1>1, <1>2, <1>3, <1>4, <1>6, <2>1, DecideFacts
  <2> QED
    BY <1>1, <1>6, <2>2, CallOnly
<1> QED
  BY <1>5, <1>6 DEF end_preparation

-----------------------------------------------------------------------------
(* The machine.                                                            *)

\* No step of the machine takes back a tainted brew that was reported.
LEMMA MachineFacts ==
  ASSUME MachineTypeOK,
         \/ \E j \in Jobs, f \in BOOLEAN : Accept(j, f)
         \/ MachineStep \/ Soil \/ Clean \/ UNCHANGED machineVars
  PROVE  MachineTypeOK' /\ Bad \subseteq Bad'
<1> USE DEF MachineTypeOK, Bad
<1>1. ASSUME NEW j \in Jobs, NEW f \in BOOLEAN, Accept(j, f)
      PROVE  MachineTypeOK' /\ Bad \subseteq Bad'
  <2>1. CASE f
    BY <1>1, <2>1 DEF Accept
  <2>2. CASE ~f
    BY <1>1, <2>2 DEF Accept
  <2> QED
    BY <2>1, <2>2
<1>2. CASE MachineStep
  BY <1>2 DEF MachineStep, Expire, Report
<1>3. CASE Soil
  BY <1>3 DEF Soil
<1>4. CASE Clean
  BY <1>4 DEF Clean, Spoilers
<1>5. CASE UNCHANGED machineVars
  BY <1>5 DEF machineVars
<1> QED
  BY <1>1, <1>2, <1>3, <1>4, <1>5

\* Cleaning changes the machine, and no brew that was reported.
LEMMA CleanInv ==
  ASSUME Inv, NEW s \in Slots, clean_machine(s)
  PROVE  Inv'
<1>1. UNCHANGED <<rows, placed, stock, cache, tray, customer, brews, served>>
  BY DEF clean_machine
<1>2. Finish(s)
  BY DEF clean_machine
<1>3. MachineTypeOK' /\ Bad \subseteq Bad'
  BY MachineFacts DEF clean_machine, Inv, TypeOK
<1>4. TypeOK'
  BY <1>1, <1>2, <1>3, FinishFacts DEF Inv, TypeOK
<1>5. Grows
  BY <1>1, <1>3 DEF Grows
<1>6. Truth'
  BY <1>1, <1>2, <1>5, FinishFacts, TruthKeeps DEF Inv
<1> QED
  BY <1>1, <1>4, <1>6 DEF Inv, NeverOversold

\* The machine's own steps leave the shop alone.
LEMMA MachineInv ==
  ASSUME Inv, Machine
  PROVE  Inv'
<1>1. UNCHANGED shopVars /\ MachineTypeOK' /\ Bad \subseteq Bad'
  BY MachineFacts DEF Machine, Inv, TypeOK
<1>2. TypeOK'
  BY <1>1 DEF Inv, TypeOK, shopVars
<1>3. Grows
  BY <1>1 DEF Grows, shopVars
<1>4. Truth'
  BY <1>1, <1>3, TruthKeeps DEF Inv, shopVars
<1> QED
  BY <1>1, <1>2, <1>4 DEF Inv, NeverOversold, shopVars

\* The machine accepts the brew before the thread may say so anywhere.
LEMMA StartInv ==
  ASSUME Inv, NEW s \in Slots, start_preparation(s)
  PROVE  Inv'
<1> DEFINE c == call[s]  o == call[s].order
<1>1. UNCHANGED <<rows, placed, stock, cache, tray, customer, served>>
  BY DEF start_preparation
<1>2. /\ c \in Call /\ CallTrue(c, brews, served, Bad) /\ c.row \in Row
      /\ c.tool = "start_preparation" /\ c.tool \in OrderTools /\ o \in OrderIds
  BY CallFacts DEF start_preparation, At, Call, CallTrue, OrderTools, Tools, Toolset
<1>3. ASSUME MachineTypeOK' /\ Bad \subseteq Bad', brews' \in [OrderIds -> SUBSET Jobs],
             \A p \in OrderIds : brews[p] \subseteq brews'[p],
             call' \in [Slots -> Call],
             \A u \in Slots : call'[u] = call[u] \/ CallTrue(call'[u], brews', served', Bad')
      PROVE  Inv'
  <2>1. TypeOK'
    BY <1>1, <1>3 DEF Inv, TypeOK
  <2>2. Grows
    BY <1>1, <1>3 DEF Grows
  <2>3. Truth'
    BY <1>1, <1>3, <2>2, TruthKeeps DEF Inv
  <2> QED
    BY <1>1, <2>1, <2>3 DEF Inv, NeverOversold
<1>4. ASSUME NEW j \in Jobs, NEW f \in BOOLEAN, Accept(j, f),
             brews' = [brews EXCEPT ![o] = @ \cup {j}],
             \/ call' = [call EXCEPT ![s].row.status = "in_preparation",
                                     ![s].job = j, ![s].pc = "save"]
             \/ Finish(s)
      PROVE  Inv'
  <2>1. MachineTypeOK' /\ Bad \subseteq Bad'
    BY <1>4, MachineFacts DEF Inv, TypeOK
  <2>2. /\ brews' \in [OrderIds -> SUBSET Jobs] /\ j \in brews'[o]
        /\ \A p \in OrderIds : brews[p] \subseteq brews'[p]
    BY <1>2, <1>4 DEF Inv, TypeOK
  <2>3. /\ call' \in [Slots -> Call]
        /\ \A u \in Slots : call'[u] = call[u] \/ CallTrue(call'[u], brews', served', Bad')
    <3>1. CASE Finish(s)
      BY <3>1, FinishFacts
    <3>2. CASE call' = [call EXCEPT ![s].row.status = "in_preparation",
                                    ![s].job = j, ![s].pc = "save"]
      <4> DEFINE row == [status |-> "in_preparation", total |-> c.row.total,
                         quantity |-> c.row.quantity]
                 new == [tool |-> c.tool, order |-> o, pc |-> "save", row |-> row,
                         job |-> j, contaminated |-> c.contaminated]
      <4>1. row \in Row /\ new \in Call
        BY <1>2 DEF Row, Statuses, Call, ProgramPoints
      <4>2. (\A u \in Slots \ {s} : call'[u] = call[u]) /\ call'[s] = new
        BY <1>2, <3>2, CallFacts DEF Call, Row
      <4>3. call' \in [Slots -> Call]
        BY <1>2, <3>2, <4>1, CallFacts DEF Call, Row, Statuses, ProgramPoints
      <4>4. RowTrue(o, row, brews', served')
        BY <1>2, <2>2 DEF RowTrue, NotOwed, CallTrue
      <4>5. new.contaminated => brews'[o] \cap Bad' # {}
        BY <1>2, <2>1, <2>2 DEF CallTrue
      <4>6. CallTrue(new, brews', served', Bad')
        BY <1>2, <2>2, <4>4, <4>5 DEF CallTrue
      <4> QED
        BY <4>2, <4>3, <4>6
    <3> QED
      BY <1>4, <3>1, <3>2
  <2> QED
    BY <1>3, <2>1, <2>2, <2>3
<1>5. CASE Finish(s) /\ UNCHANGED <<machineVars, brews>>
  BY <1>3, <1>5, FinishFacts, MachineFacts DEF Inv, TypeOK
<1> QED
  BY <1>4, <1>5 DEF start_preparation

-----------------------------------------------------------------------------
(* Trays, the customer and a restart.                                      *)

\* What a thread appends to a tray is typed and true.
LEMMA AppendInv ==
  ASSUME Inv, NEW s \in Slots, NEW thing \in Things, Append(s, thing),
         UNCHANGED <<machineVars, rows, placed, stock, cache, customer, brews, served>>,
         thing = "contaminated coffee" => brews[call[s].order] \cap Bad # {}
  PROVE  Inv'
<1> DEFINE o == call[s].order
<1>1. tray' = [tray EXCEPT ![o] = @ \cup {thing}] /\ Finish(s)
  BY DEF Append
<1>2. Grows /\ UNCHANGED Bad
  BY DEF Grows, Bad, machineVars
<1>3. \A p \in OrderIds : tray'[p] = tray[p] \/ TrayTrue(p, tray'[p], brews', Bad')
  BY <1>1, <1>2 DEF TrayTrue, Inv, TypeOK, Truth
<1>4. TypeOK'
  BY <1>1, FinishFacts DEF Inv, TypeOK, MachineTypeOK, machineVars
<1>5. Truth'
  BY <1>1, <1>2, <1>3, FinishFacts, TruthKeeps DEF Inv
<1> QED
  BY <1>4, <1>5 DEF Inv, NeverOversold

\* What is placed is food, or the coffee the cache spoke of.
LEMMA PlaceInv ==
  ASSUME Inv, NEW s \in Slots, PlaceFood(s) \/ PlaceCoffee(s)
  PROVE  Inv'
<1>1. CASE PlaceFood(s)
  <2>1. UNCHANGED <<machineVars, rows, placed, stock, cache, customer, brews, served>>
    BY <1>1 DEF PlaceFood
  <2>2. CASE Append(s, "food")
    BY <2>1, <2>2, AppendInv DEF Things
  <2>3. CASE Finish(s) /\ UNCHANGED tray
    BY <2>1, <2>3, FinishFacts, CallOnly
  <2> QED
    BY <1>1, <2>2, <2>3 DEF PlaceFood
<1>2. CASE PlaceCoffee(s)
  <2>1. UNCHANGED <<machineVars, rows, placed, stock, cache, customer, brews, served>>
    BY <1>2 DEF PlaceCoffee
  <2>2. CASE call[s].contaminated
    <3>1. call[s].tool \in OrderTools
      <4>1. call[s].tool = "place_coffee"
        BY <1>2, Zenon DEF PlaceCoffee, At
      <4> QED
        BY <4>1 DEF OrderTools, Tools, Toolset
    <3>2. CallTrue(call[s], brews, served, Bad)
      BY CallFacts
    <3>3. brews[call[s].order] \cap Bad # {}
      BY <2>2, <3>1, <3>2, Zenon DEF CallTrue
    <3>4. Append(s, "contaminated coffee")
      BY <1>2, <2>2 DEF PlaceCoffee
    <3> QED
      BY <2>1, <3>3, <3>4, AppendInv DEF Things
  <2>3. CASE ~call[s].contaminated
    <3>1. Append(s, "coffee")
      BY <1>2, <2>3 DEF PlaceCoffee
    <3> QED
      BY <2>1, <3>1, AppendInv DEF Things
  <2> QED
    BY <2>2, <2>3
<1> QED
  BY <1>1, <1>2

\* An order is completed by a copy that says it was in preparation.
LEMMA CompleteFacts ==
  ASSUME Inv, NEW o \in OrderIds, NEW row \in Row, Complete(o, row), UNCHANGED brews,
         row.status = "in_preparation", RowTrue(o, row, brews, served)
  PROVE  /\ rows' \in [OrderIds -> Row] /\ served \subseteq served' /\ served' \subseteq OrderIds
         /\ \A p \in OrderIds : rows'[p] = rows[p] \/ RowTrue(p, rows'[p], brews', served')
<1> DEFINE new == [status |-> "completed", total |-> row.total, quantity |-> row.quantity]
<1>1. [row EXCEPT !.status = "completed"] = new /\ new \in Row
  BY DEF Row, Statuses
<1>2. rows' = [rows EXCEPT ![o] = new] /\ served' = served \cup {o}
  BY <1>1 DEF Complete, save_order
<1>3. RowTrue(o, new, brews', served')
  BY <1>2 DEF RowTrue, Brewed, NotOwed
<1> QED
  BY <1>1, <1>2, <1>3 DEF Inv, TypeOK

\* The tray of the most recent order is taken between turns.
LEMMA ConsumeInv ==
  ASSUME Inv, ConsumeTray
  PROVE  Inv'
<1>1. UNCHANGED <<machineVars, placed, stock, cache, call, customer, brews>>
  BY DEF ConsumeTray
<1>2. placed \in OrderIds /\ rows[placed] \in Row
      /\ RowTrue(placed, rows[placed], brews, served)
  BY OrdersBounded DEF ConsumeTray, Inv, TypeOK, Truth
<1>3. /\ rows' \in [OrderIds -> Row] /\ served \subseteq served' /\ served' \subseteq OrderIds
      /\ \A p \in OrderIds : rows'[p] = rows[p] \/ RowTrue(p, rows'[p], brews', served')
  <2>1. CASE rows[placed].status = "in_preparation"
    BY <1>1, <1>2, <2>1, CompleteFacts DEF ConsumeTray
  <2>2. CASE rows[placed].status # "in_preparation"
    BY <2>2 DEF ConsumeTray, Inv, TypeOK
  <2> QED
    BY <2>1, <2>2
<1>4. tray' = [tray EXCEPT ![placed] = {}]
  BY DEF ConsumeTray
<1>5. \A p \in OrderIds : tray'[p] = tray[p] \/ TrayTrue(p, tray'[p], brews', Bad')
  BY <1>4 DEF TrayTrue, Inv, TypeOK
<1>6. TypeOK'
  BY <1>1, <1>3, <1>4 DEF Inv, TypeOK, MachineTypeOK, machineVars
<1>7. Grows
  BY <1>1, <1>3 DEF Grows, Bad, machineVars
<1>8. Truth'
  BY <1>1, <1>3, <1>5, <1>7, TruthKeeps DEF Inv
<1> QED
  BY <1>1, <1>6, <1>8 DEF Inv, NeverOversold

\* A customer who walks up to the tray and reads the order.
LEMMA VisitInv ==
  ASSUME Inv, (\E o \in Orders : TakeTray(o)) \/ CustomerLoads
  PROVE  Inv'
<1> DEFINE v == customer
<1>1. UNCHANGED <<machineVars, rows, placed, stock, cache, tray, call, brews, served>>
  BY DEF TakeTray, CustomerLoads
<1>2. v \in [pc: {"idle", "load", "save", "clear"}, order: 0..MaxOrders, row: Row]
  BY DEF Inv, TypeOK
<1>3. /\ customer' \in [pc: {"idle", "load", "save", "clear"}, order: 0..MaxOrders, row: Row]
      /\ VisitTrue(customer', brews, served)
  <2>1. ASSUME NEW o \in Orders, TakeTray(o)
        PROVE  <1>3
    <3>1. o \in OrderIds /\ o \in 0..MaxOrders
      BY OrdersBounded, BoundsAssumption DEF Inv, OrderIds
    <3>2. customer' = [customer EXCEPT !.pc = "load", !.order = o] /\ customer.pc = "idle"
      BY <2>1 DEF TakeTray
    <3>3. customer' = [pc |-> "load", order |-> o, row |-> v.row]
      BY <1>2, <3>2
    <3> QED
      BY <1>2, <3>1, <3>3 DEF VisitTrue
  <2>2. CASE CustomerLoads
    <3> DEFINE r == rows[v.order]
               pc == IF r.status = "in_preparation" THEN "save" ELSE "clear"
    <3>1. v.order \in OrderIds /\ r \in Row /\ RowTrue(v.order, r, brews, served)
      BY <2>2 DEF CustomerLoads, Inv, TypeOK, Truth, VisitTrue
    <3>2. customer' = [pc |-> pc, order |-> v.order, row |-> r]
      BY <1>2, <2>2 DEF CustomerLoads
    <3> QED
      BY <1>2, <3>1, <3>2 DEF VisitTrue
  <2> QED
    BY <2>1, <2>2
<1>4. TypeOK'
  BY <1>1, <1>3 DEF Inv, TypeOK, MachineTypeOK, machineVars
<1>5. Grows
  BY <1>1 DEF Grows, Bad, machineVars
<1>6. Truth'
  BY <1>1, <1>3, <1>5, TruthKeeps DEF Inv
<1> QED
  BY <1>1, <1>4, <1>6 DEF Inv, NeverOversold

\* The customer completes an order that was in preparation, then clears the tray.
LEMMA VisitEndsInv ==
  ASSUME Inv, CustomerSaves \/ CustomerClears
  PROVE  Inv'
<1> DEFINE v == customer  o == customer.order
<1>1. /\ v \in [pc: {"idle", "load", "save", "clear"}, order: 0..MaxOrders, row: Row]
      /\ VisitTrue(v, brews, served) /\ o \in OrderIds
  BY DEF Inv, TypeOK, Truth, VisitTrue, CustomerSaves, CustomerClears
<1>2. UNCHANGED <<machineVars, placed, stock, cache, call, brews>>
  BY DEF CustomerSaves, CustomerClears
<1>3. UNCHANGED Bad
  BY <1>2 DEF Bad, machineVars
<1>4. CASE CustomerSaves
  <2>1. /\ v.row \in Row /\ v.row.status = "in_preparation"
        /\ RowTrue(o, v.row, brews, served) /\ Complete(o, v.row) /\ UNCHANGED tray
    BY <1>1, <1>4 DEF CustomerSaves, VisitTrue
  <2>2. customer' = [pc |-> "clear", order |-> o, row |-> v.row]
    BY <1>1, <1>4 DEF CustomerSaves
  <2>3. /\ rows' \in [OrderIds -> Row] /\ served \subseteq served' /\ served' \subseteq OrderIds
        /\ \A p \in OrderIds : rows'[p] = rows[p] \/ RowTrue(p, rows'[p], brews', served')
    BY <1>1, <1>2, <2>1, CompleteFacts
  <2>4. TypeOK'
    BY <1>1, <1>2, <2>1, <2>2, <2>3 DEF Inv, TypeOK, MachineTypeOK, machineVars
  <2>5. VisitTrue(customer', brews', served')
    BY <1>1, <2>2 DEF VisitTrue
  <2>6. Grows
    BY <1>2, <1>3, <2>3 DEF Grows
  <2>7. Truth'
    BY <1>2, <1>3, <2>1, <2>3, <2>5, <2>6, TruthKeeps DEF Inv
  <2> QED
    BY <1>2, <2>4, <2>7 DEF Inv, NeverOversold
<1>5. CASE CustomerClears
  <2>1. tray' = [tray EXCEPT ![o] = {}] /\ customer' = NoVisit /\ UNCHANGED <<rows, served>>
    BY <1>5 DEF CustomerClears
  <2>2. \A p \in OrderIds : tray'[p] = tray[p] \/ TrayTrue(p, tray'[p], brews', Bad')
    BY <2>1 DEF TrayTrue, Inv, TypeOK
  <2>3. /\ NoVisit \in [pc: {"idle", "load", "save", "clear"}, order: 0..MaxOrders, row: Row]
        /\ VisitTrue(NoVisit, brews', served')
    BY Blank, BoundsAssumption DEF NoVisit, VisitTrue
  <2>4. TypeOK'
    BY <1>2, <2>1, <2>3 DEF Inv, TypeOK, MachineTypeOK, machineVars
  <2>5. Grows
    BY <1>2, <1>3, <2>1 DEF Grows
  <2>6. Truth'
    BY <1>2, <1>3, <2>1, <2>2, <2>3, <2>5, TruthKeeps DEF Inv
  <2> QED
    BY <1>2, <2>4, <2>6 DEF Inv, NeverOversold
<1> QED
  BY <1>4, <1>5

\* Memory is lost and the orders stay.
LEMMA RestartInv ==
  ASSUME Inv, Restart
  PROVE  Inv'
<1>1. /\ cache' = [o \in OrderIds |-> BlankEntry] /\ tray' = [o \in OrderIds |-> {}]
      /\ call' = [s \in Slots |-> NoCall] /\ customer' = NoVisit
      /\ UNCHANGED <<machineVars, rows, placed, stock, brews, served>>
  BY DEF Restart
<1>2. Grows
  BY <1>1 DEF Grows, Bad, machineVars
<1>3. BlankEntry \in CacheEntry /\ \A o \in OrderIds : EntryTrue(o, BlankEntry, brews', Bad')
  BY DEF BlankEntry, CacheEntry, EntryTrue
<1>4. NoCall \in Call /\ CallTrue(NoCall, brews', served', Bad')
  BY NoneIsNoTool, Blank, BoundsAssumption DEF NoCall, Call, ProgramPoints, CallTrue
<1>5. /\ NoVisit \in [pc: {"idle", "load", "save", "clear"}, order: 0..MaxOrders, row: Row]
      /\ VisitTrue(NoVisit, brews', served')
  BY Blank, BoundsAssumption DEF NoVisit, VisitTrue
<1>6. TypeOK'
  BY <1>1, <1>3, <1>4, <1>5 DEF Inv, TypeOK, MachineTypeOK, machineVars
<1>7. \A o \in OrderIds : TrayTrue(o, tray'[o], brews', Bad')
  BY <1>1 DEF TrayTrue
<1>8. Truth'
  BY <1>1, <1>2, <1>3, <1>4, <1>5, <1>7, TruthKeeps DEF Inv
<1> QED
  BY <1>1, <1>6, <1>8 DEF Inv, NeverOversold

\* A reset writes the stock alone.
LEMMA ResetInv ==
  ASSUME Inv, reset_inventory
  PROVE  Inv'
<1>1. /\ stock' = Stock
      /\ UNCHANGED <<machineVars, rows, placed, cache, tray, call, customer, brews, served>>
  BY DEF reset_inventory
<1>2. TypeOK'
  BY <1>1, BoundsAssumption DEF Inv, TypeOK, MachineTypeOK, machineVars
<1>3. Grows
  BY <1>1 DEF Grows, Bad, machineVars
<1>4. Truth'
  BY <1>1, <1>3, TruthKeeps DEF Inv
<1> QED
  BY <1>1, <1>2, <1>4, BoundsAssumption DEF Inv, NeverOversold

-----------------------------------------------------------------------------
(* The theorems.                                                           *)

\* Every step of the shop keeps the invariant.
LEMMA StepInv == Inv /\ [Next]_vars => Inv'
<1> SUFFICES ASSUME Inv, [Next]_vars PROVE Inv'
  OBVIOUS
<1>1. ASSUME NEW agent \in DOMAIN Toolset, NEW busy \in SUBSET Slots,
             StartBatch(agent, busy)
      PROVE  Inv'
  BY <1>1, BatchInv
<1>2. ASSUME NEW s \in Slots, ToolStep(s)
      PROVE  Inv'
  BY <1>2, LoadInv, SaveInv, ProcessInv, GrantsInv, CheckInv, StockInv, StartInv,
     CacheJobInv, EndStartsInv, EndInv, CleanInv, PlaceInv, LookUpInv
  DEF ToolStep
<1>3. CASE Customer
  BY <1>3, ConsumeInv, VisitInv, VisitEndsInv DEF Customer
<1>4. CASE Restart
  BY <1>4, RestartInv
<1>5. CASE Machine
  BY <1>5, MachineInv
<1>6. CASE reset_inventory
  BY <1>6, ResetInv
<1>7. CASE UNCHANGED vars
  <2>1. UNCHANGED <<machineVars, rows, placed, stock, cache, tray, call, customer,
                    brews, served>>
    BY <1>7 DEF vars, shopVars
  <2>2. UNCHANGED Bad
    BY <2>1 DEF Bad, machineVars
  <2> QED
    BY <2>1, CallOnly DEF Inv, TypeOK
<1> QED
  BY <1>1, <1>2, <1>3, <1>4, <1>5, <1>6, <1>7 DEF Next

\* The inductive invariant holds in every state of the shop.
THEOREM Invariance == Spec => []Inv
<1>1. Init => Inv
  BY InitInv
<1>2. Inv /\ [Next]_vars => Inv'
  BY StepInv
<1> QED
  BY <1>1, <1>2, PTL DEF Spec

\* Every variable keeps its shape, whatever quantities and percentages the model asks
\* for: cache, trays and the copies in the threads' hands are those the tools write.
THEOREM TypeCorrect == Spec => []TypeOK
<1>1. Inv => TypeOK
  BY DEF Inv
<1> QED
  BY <1>1, Invariance, PTL

\* check_and_update_stock never sells what is not there, with any number of
\* tool threads and orders.
THEOREM StockSuffices == Spec => []NeverOversold
<1>1. Inv => NeverOversold
  BY DEF Inv
<1> QED
  BY <1>1, Invariance, PTL

\* No stale copy of a row makes an order look brewed that never was.
THEOREM BrewFirst == Spec => []BrewedBeforeServed
<1>1. Inv => BrewedBeforeServed
  BY DEF Inv, Truth, RowTrue, BrewedBeforeServed
<1> QED
  BY <1>1, Invariance, PTL

\* Contamination on a tray was caused by a brew of that order.
THEOREM NoFalseTaint == Spec => []TaintedTrayIsTrue
<1>1. Inv => TaintedTrayIsTrue
  <2> SUFFICES ASSUME Inv, NEW o \in OrderIds, "contaminated coffee" \in tray[o]
               PROVE  brews[o] \cap tainted \cap reported # {}
    BY DEF TaintedTrayIsTrue
  <2>1. brews[o] \cap Bad # {}
    BY DEF Inv, Truth, TrayTrue
  <2> QED
    BY <2>1 DEF Bad
<1> QED
  BY <1>1, Invariance, PTL

\* A refunded order was once handed over, whatever the batches and restarts.
THEOREM RefundAfterService == Spec => []RefundedWasServed
<1>1. Inv => RefundedWasServed
  BY DEF Inv, Truth, RowTrue, RefundedWasServed
<1> QED
  BY <1>1, Invariance, PTL

\* No gate keeps out negative quantities and percentages, and any copy may be
\* saved over any row; but no chain of discounts and refunds makes the shop owe
\* money on an order whose quantity is not negative, in a setup whose limits are
\* at most 100 percent.
THEOREM OwesNothing == Spec => []NothingOwed
<1>1. Inv => NothingOwed
  BY DEF Inv, Truth, RowTrue, NotOwed, NothingOwed
<1> QED
  BY <1>1, Invariance, PTL

-----------------------------------------------------------------------------
(* One tool at a time, and the tray taken between turns: then no copy of a *)
(* row is ever stale when it is saved.  It is this that the thread of the  *)
(* dashboard takes away (the run shop_dashboard).                          *)

OneTool == ~Dashboard /\ \A s, t \in Slots : s = t

\* A status is kept or moves along the lifecycle.
Moves(from, to) == from = to \/ <<from, to>> \in LegalSteps

\* A thread's call agrees with the table: the gate's answer still holds while
\* the tool works, and the copy is the row until the tool has decided.
Agrees(c, table, count) ==
    /\ c.tool \in OrderTools => c.order \in 1..count
    /\ c.pc \in {"start", "load", "work"} /\ c.tool \in DOMAIN Sources =>
          table[c.order].status \in Sources[c.tool]
    /\ c.pc = "work" => c.tool \in OrderTools /\ c.row = table[c.order]
    /\ c.pc = "save" => /\ c.tool \in OrderTools
                        /\ Moves(table[c.order].status, c.row.status)

Serial ==
    /\ \A o \in OrderIds \ Orders : rows[o] = BlankRow
    /\ customer.pc = "idle"
    /\ \A s \in Slots : Agrees(call[s], rows, placed)

SerialInv == Inv /\ Serial

\* What a step may do to the statuses.
Legal == \A o \in OrderIds : Moves(rows[o].status, rows'[o].status)

\* A thread without a tool agrees with every table.
LEMMA IdleAgrees ==
  ASSUME NEW table, NEW count
  PROVE  Agrees(NoCall, table, count)
  BY NoneIsNoTool DEF Agrees, NoCall, Sources

\* The tools with a gate all work on an order.
LEMMA GatedAreOrderTools == DOMAIN Sources \subseteq OrderTools
  BY DEF Sources, OrderTools, Tools, Toolset

\* The shop opens with every order unplaced and every thread idle.
LEMMA InitSerial == Init => Serial
<1> SUFFICES ASSUME Init PROVE Serial
  OBVIOUS
<1>1. \A s \in Slots : Agrees(call[s], rows, placed)
  BY IdleAgrees DEF Init
<1> QED
  BY <1>1 DEF Init, Serial, NoVisit

\* A step that leaves the orders alone.
LEMMA SameRows ==
  ASSUME Serial, UNCHANGED <<rows, placed, customer>>,
         \A s \in Slots : call'[s] = call[s] \/ Agrees(call'[s], rows, placed)
  PROVE  Serial' /\ Legal
<1>1. \A s \in Slots : Agrees(call'[s], rows', placed')
  BY DEF Serial
<1>2. \A o \in OrderIds \ Orders' : rows'[o] = BlankRow
  BY DEF Serial, Orders
<1>3. Legal
  BY DEF Legal, Moves
<1> QED
  BY <1>1, <1>2, <1>3 DEF Serial

\* A step that writes one row, of an order that exists, while every other
\* thread is idle.
LEMMA OneRow ==
  ASSUME SerialInv, UNCHANGED <<placed, customer>>,
         NEW o \in Orders, NEW row \in Row, rows' = [rows EXCEPT ![o] = row],
         Moves(rows[o].status, row.status),
         \A s \in Slots : Agrees(call'[s], rows', placed')
  PROVE  Serial' /\ Legal
<1>1. o \in OrderIds /\ rows \in [OrderIds -> Row] /\ Orders' = Orders
  BY OrdersBounded DEF SerialInv, Inv, TypeOK, Orders
<1>2. rows'[o] = row /\ \A p \in OrderIds \ {o} : rows'[p] = rows[p]
  BY <1>1
<1>3. \A p \in OrderIds \ Orders' : rows'[p] = BlankRow
  BY <1>1, <1>2 DEF SerialInv, Serial
<1>4. Legal
  BY <1>2 DEF Legal, Moves
<1> QED
  BY <1>3, <1>4 DEF SerialInv, Serial

\* The thread's call, when it is the only one.
LEMMA Alone ==
  ASSUME SerialInv, OneTool, NEW s \in Slots
  PROVE  /\ call[s] \in Call /\ CallTrue(call[s], brews, served, Bad)
         /\ Agrees(call[s], rows, placed)
         /\ \A t \in Slots : t = s
         /\ Finish(s) => \A t \in Slots : call'[t] = NoCall
<1>1. call \in [Slots -> Call] /\ call[s] \in Call /\ CallTrue(call[s], brews, served, Bad)
  BY CallFacts DEF SerialInv
<1>2. \A t \in Slots : t = s
  BY DEF OneTool
<1>3. Finish(s) => \A t \in Slots : call'[t] = NoCall
  BY <1>1, <1>2 DEF Finish
<1> QED
  BY <1>1, <1>2, <1>3 DEF SerialInv, Serial

\* A thread that ends its call without touching an order.
LEMMA FinishSerial ==
  ASSUME SerialInv, OneTool, NEW s \in Slots, Finish(s),
         UNCHANGED <<rows, placed, customer>>
  PROVE  Serial' /\ Legal
<1>1. \A t \in Slots : Agrees(call'[t], rows, placed)
  BY Alone, IdleAgrees
<1> QED
  BY <1>1, SameRows DEF SerialInv

\* What the gateway allowed agrees with the table.
LEMMA BatchSerial ==
  ASSUME SerialInv, NEW agent \in DOMAIN Toolset, NEW busy \in SUBSET Slots,
         StartBatch(agent, busy)
  PROVE  Serial' /\ Legal
<1>1. PICK tools \in [busy -> Toolset[agent]], orders \in [busy -> 0..placed] :
         /\ \A s \in busy : Allowed(tools[s], orders[s])
         /\ call' = [s \in Slots |-> IF s \in busy THEN Fresh(tools[s], orders[s])
                                                   ELSE NoCall]
  BY DEF StartBatch
<1>2. ASSUME NEW s \in busy
      PROVE  Agrees(Fresh(tools[s], orders[s]), rows, placed)
  <2> DEFINE tool == tools[s]  o == orders[s]
  <2>1. Allowed(tool, o)
    BY <1>1
  <2>2. tool \in OrderTools => o \in Orders /\ require_order_status(tool, o)
    <3>1. tool \in OrderTools => tool # "process_order" /\ tool # "clean_machine"
      BY DEF OrderTools
    <3> QED
      BY <2>1, <3>1, Zenon DEF Allowed
  <2>3. tool \in DOMAIN Sources => rows[o].status \in Sources[tool]
    BY <2>2, GatedAreOrderTools DEF require_order_status
  <2>4. Entry(tool) \in {"start", "load"}
    BY DEF Entry
  <2>5. /\ Fresh(tool, o).tool = tool /\ Fresh(tool, o).order = o
        /\ Fresh(tool, o).pc = Entry(tool)
    BY DEF Fresh
  <2> QED
    BY <2>2, <2>3, <2>4, <2>5 DEF Agrees, Orders
<1>3. \A s \in Slots : Agrees(call'[s], rows, placed)
  BY <1>1, <1>2, IdleAgrees
<1>4. UNCHANGED <<rows, placed, customer>>
  BY DEF StartBatch
<1> QED
  BY <1>3, <1>4, SameRows DEF SerialInv

\* The copy that is loaded is the row.
LEMMA LoadSerial ==
  ASSUME SerialInv, OneTool, NEW s \in Slots, load_order(s)
  PROVE  Serial' /\ Legal
<1> DEFINE c == call[s]
<1>1. /\ c \in Call /\ CallTrue(c, brews, served, Bad) /\ Agrees(c, rows, placed)
      /\ \A t \in Slots : t = s
  BY Alone
<1>2. c.pc = "load" /\ c.tool \in OrderTools
  BY <1>1 DEF load_order, CallTrue
<1>3. call'[s] = [tool |-> c.tool, order |-> c.order, pc |-> "work",
                  row |-> rows[c.order], job |-> c.job, contaminated |-> c.contaminated]
  BY <1>1, CallFacts DEF load_order, Call, SerialInv
<1>4. Agrees(call'[s], rows, placed)
  BY <1>1, <1>2, <1>3 DEF Agrees
<1>5. UNCHANGED <<rows, placed, customer>>
  BY DEF load_order
<1> QED
  BY <1>1, <1>4, <1>5, SameRows DEF SerialInv

\* A tool that decides a status it may move to.
LEMMA DecideSerial ==
  ASSUME SerialInv, OneTool, NEW s \in Slots, NEW st, Decide(s, st),
         call[s].pc = "work", Moves(call[s].row.status, st),
         UNCHANGED <<rows, placed, customer>>
  PROVE  Serial' /\ Legal
<1> DEFINE c == call[s]
<1>1. /\ c \in Call /\ Agrees(c, rows, placed) /\ \A t \in Slots : t = s
  BY Alone
<1>2. call'[s] = [tool |-> c.tool, order |-> c.order, pc |-> "save",
                  row |-> [status |-> st, total |-> c.row.total,
                           quantity |-> c.row.quantity],
                  job |-> c.job, contaminated |-> c.contaminated]
  BY <1>1, CallFacts DEF Decide, Call, Row, SerialInv
<1>3. Agrees(call'[s], rows, placed)
  BY <1>1, <1>2 DEF Agrees
<1> QED
  BY <1>1, <1>3, SameRows DEF SerialInv

\* The gate's answer holds while the tool works on its copy.
LEMMA GateHolds ==
  ASSUME SerialInv, OneTool, NEW s \in Slots, call[s].pc = "work",
         call[s].tool \in DOMAIN Sources
  PROVE  call[s].row.status \in Sources[call[s].tool]
  BY Alone DEF Agrees

\* The inventory's verdicts.
LEMMA InventorySerial ==
  ASSUME SerialInv, OneTool, NEW s \in Slots, check_inventory(s) \/ update_stock(s)
  PROVE  Serial' /\ Legal
<1>1. UNCHANGED <<rows, placed, customer>> /\ call[s].pc = "work"
  BY DEF check_inventory, update_stock, At
<1>2. CASE check_inventory(s)
  <2>1. PICK st \in {"inventory_confirmed", "inventory_issues"} : Decide(s, st)
    BY <1>2 DEF check_inventory
  <2>2. call[s].tool = "check_inventory" /\ "check_inventory" \in DOMAIN Sources
        /\ Sources["check_inventory"] = {"pending"}
    BY <1>2 DEF check_inventory, At, Sources
  <2>3. call[s].row.status = "pending"
    BY <1>1, <2>2, GateHolds
  <2>4. Moves(call[s].row.status, st)
    BY <2>3 DEF Moves, LegalSteps
  <2> QED
    BY <1>1, <2>1, <2>4, DecideSerial
<1>3. CASE update_stock(s)
  <2>1. call[s].tool = "update_stock" /\ "update_stock" \in DOMAIN Sources
        /\ Sources["update_stock"] = {"inventory_confirmed"}
    BY <1>3 DEF update_stock, At, Sources
  <2>2. call[s].row.status = "inventory_confirmed"
    BY <1>1, <2>1, GateHolds
  <2>3. Moves(call[s].row.status, "inventory_issues")
    BY <2>2 DEF Moves, LegalSteps
  <2>4. CASE Finish(s)
    BY <1>1, <2>4, FinishSerial
  <2>5. CASE Decide(s, "inventory_issues")
    BY <1>1, <2>3, <2>5, DecideSerial
  <2> QED
    BY <1>3, <2>4, <2>5 DEF update_stock
<1> QED
  BY <1>2, <1>3

\* A decided row is saved while it is still the thread's to decide.
LEMMA SaveSerial ==
  ASSUME SerialInv, OneTool, NEW s \in Slots, set_order_status(s)
  PROVE  Serial' /\ Legal
<1> DEFINE c == call[s]  o == call[s].order
<1>1. /\ c \in Call /\ Agrees(c, rows, placed) /\ \A t \in Slots : t = s
  BY Alone
<1>2. /\ o \in Orders /\ o \in OrderIds /\ c.row \in Row /\ c.tool \in OrderTools
      /\ Moves(rows[o].status, c.row.status)
  BY <1>1, OrdersBounded DEF set_order_status, Agrees, Orders, Call, SerialInv, Inv
<1>3. UNCHANGED <<placed, customer>> /\ rows' = [rows EXCEPT ![o] = c.row]
  BY DEF set_order_status, save_order
<1>4. \A t \in Slots : Agrees(call'[t], rows', placed')
  <2>1. CASE c.tool = "start_preparation"
    <3>1. call'[s] = [tool |-> c.tool, order |-> o, pc |-> "cache", row |-> c.row,
                      job |-> c.job, contaminated |-> c.contaminated]
      BY <1>1, <2>1, CallFacts DEF set_order_status, Goto, Call, SerialInv
    <3> QED
      BY <1>1, <1>2, <1>3, <3>1 DEF Agrees, Orders
  <2>2. CASE c.tool # "start_preparation"
    BY <2>2, Alone, IdleAgrees DEF set_order_status
  <2> QED
    BY <2>1, <2>2
<1> QED
  BY <1>2, <1>3, <1>4, OneRow

\* A new order takes the next row.
LEMMA ProcessSerial ==
  ASSUME SerialInv, OneTool, NEW s \in Slots, process_order(s)
  PROVE  Serial' /\ Legal
<1>1. Finish(s) /\ UNCHANGED customer
  BY DEF process_order
<1>2. CASE UNCHANGED <<rows, placed>>
  BY <1>1, <1>2, FinishSerial
<1>3. ASSUME placed < MaxOrders, placed' = placed + 1, NEW q \in Quantities,
             save_order(placed + 1, [status |-> "pending", total |-> Cost(q), quantity |-> q])
      PROVE  Serial' /\ Legal
  <2> DEFINE new == [status |-> "pending", total |-> Cost(q), quantity |-> q]
  <2>1. placed \in Nat /\ rows \in [OrderIds -> Row]
    BY BoundsAssumption DEF SerialInv, Inv, TypeOK
  <2>2. placed + 1 \in OrderIds \ Orders /\ Orders \subseteq Orders'
        /\ placed + 1 \in Orders'
    BY <1>3, <2>1, BoundsAssumption DEF Orders, OrderIds
  <2>3. /\ rows'[placed + 1] = new
        /\ \A p \in OrderIds \ {placed + 1} : rows'[p] = rows[p]
    BY <1>3, <2>1, <2>2 DEF save_order
  <2>4. rows[placed + 1] = BlankRow
    BY <2>2 DEF SerialInv, Serial
  <2>5. \A o \in OrderIds \ Orders' : rows'[o] = BlankRow
    BY <2>2, <2>3 DEF SerialInv, Serial
  <2>6. \A t \in Slots : Agrees(call'[t], rows', placed')
    BY <1>1, Alone, IdleAgrees
  <2>7. Legal
    BY <2>3, <2>4 DEF Legal, Moves, LegalSteps, BlankRow
  <2> QED
    BY <1>1, <2>5, <2>6, <2>7 DEF SerialInv, Serial
<1> QED
  BY <1>2, <1>3 DEF process_order

\* A tool that saves another total, and a status it may move to.
LEMMA ReduceSerial ==
  ASSUME SerialInv, OneTool, NEW s \in Slots, NEW total, NEW st \in Statuses,
         call[s].pc = "work", Reduce(s, total, st), Moves(call[s].row.status, st)
  PROVE  Serial' /\ Legal
<1> DEFINE o == call[s].order  row == call[s].row
           new == [status |-> st, total |-> total, quantity |-> row.quantity]
<1>1. o \in Orders /\ row = rows[o] /\ row \in Row
  BY Alone, OrdersBounded DEF Agrees, Orders, SerialInv, Inv, TypeOK
<1>2. UNCHANGED <<placed, customer>> /\ rows' = [rows EXCEPT ![o] = new] /\ Finish(s)
  BY DEF Reduce, save_order
<1>3. new \in Row
  BY <1>1 DEF Reduce, Row
<1>4. \A t \in Slots : Agrees(call'[t], rows', placed')
  BY <1>2, Alone, IdleAgrees
<1> QED
  BY <1>1, <1>2, <1>3, <1>4, OneRow

\* Discounts and refunds.
LEMMA GrantsSerial ==
  ASSUME SerialInv, OneTool, NEW s \in Slots,
         calculate_total(s) \/ offer_refund(s) \/ offer_partial_refund(s)
  PROVE  Serial' /\ Legal
<1> DEFINE row == call[s].row
<1>1. call[s].pc = "work" /\ row.status \in Statuses
  BY Alone DEF calculate_total, offer_refund, offer_partial_refund, At, Call, Row
<1>2. CASE calculate_total(s) \/ offer_partial_refund(s)
  <2>1. PICK total : Reduce(s, total, row.status)
    BY <1>2 DEF calculate_total, offer_partial_refund
  <2>2. Moves(row.status, row.status)
    BY DEF Moves
  <2> QED
    BY <1>1, <2>1, <2>2, ReduceSerial
<1>3. CASE offer_refund(s)
  <2>1. call[s].tool = "offer_refund" /\ "offer_refund" \in DOMAIN Sources
        /\ Sources["offer_refund"] = {"completed"}
    BY <1>3 DEF offer_refund, At, Sources
  <2>2. row.status = "completed"
    BY <1>1, <2>1, GateHolds
  <2>3. Moves(row.status, "refunded") /\ "refunded" \in Statuses
    BY <2>2 DEF Moves, LegalSteps, Statuses
  <2> QED
    BY <1>1, <1>3, <2>3, ReduceSerial DEF offer_refund
<1> QED
  BY <1>2, <1>3

\* The barista's tools.
LEMMA StartSerial ==
  ASSUME SerialInv, OneTool, NEW s \in Slots, start_preparation(s)
  PROVE  Serial' /\ Legal
<1> DEFINE c == call[s]
<1>1. UNCHANGED <<rows, placed, customer>> /\ c.pc = "work"
      /\ c.tool = "start_preparation"
  BY DEF start_preparation, At
<1>2. CASE Finish(s)
  BY <1>1, <1>2, FinishSerial
<1>3. ASSUME NEW j \in Jobs,
             call' = [call EXCEPT ![s].row.status = "in_preparation",
                                  ![s].job = j, ![s].pc = "save"]
      PROVE  Serial' /\ Legal
  <2>1. /\ c \in Call /\ Agrees(c, rows, placed) /\ \A t \in Slots : t = s
    BY Alone
  <2>2. call'[s] = [tool |-> c.tool, order |-> c.order, pc |-> "save",
                    row |-> [status |-> "in_preparation", total |-> c.row.total,
                             quantity |-> c.row.quantity],
                    job |-> j, contaminated |-> c.contaminated]
    BY <1>3, <2>1, CallFacts DEF Call, Row, SerialInv
  <2>3. /\ "start_preparation" \in DOMAIN Sources
        /\ Sources["start_preparation"] =
             {"inventory_confirmed", "in_preparation", "preparation_error"}
    BY DEF Sources
  <2>4. c.row.status \in {"inventory_confirmed", "in_preparation", "preparation_error"}
    BY <1>1, <2>3, GateHolds
  <2>5. Moves(c.row.status, "in_preparation")
    BY <2>4 DEF Moves, LegalSteps
  <2>6. Agrees(call'[s], rows, placed)
    BY <1>1, <2>1, <2>2, <2>5 DEF Agrees
  <2> QED
    BY <1>1, <2>1, <2>6, SameRows DEF SerialInv
<1> QED
  BY <1>2, <1>3 DEF start_preparation

\* end_preparation fails an order that the gate saw in preparation.
LEMMA EndSerial ==
  ASSUME SerialInv, OneTool, NEW s \in Slots, EndStarts(s) \/ end_preparation(s)
  PROVE  Serial' /\ Legal
<1> DEFINE c == call[s]  entry == cache[call[s].order]
<1>1. UNCHANGED <<rows, placed, customer>> /\ c.tool = "end_preparation"
  BY DEF EndStarts, end_preparation, At
<1>2. CASE Finish(s)
  BY <1>1, <1>2, FinishSerial
<1>3. CASE end_preparation(s) /\ Decide(s, "preparation_error")
  <2>1. "end_preparation" \in DOMAIN Sources
        /\ Sources["end_preparation"] = {"in_preparation"}
    BY DEF Sources
  <2>2. c.pc = "work"
    BY <1>3 DEF end_preparation, At
  <2>3. c.row.status = "in_preparation"
    BY <1>1, <2>1, <2>2, GateHolds
  <2>4. Moves(c.row.status, "preparation_error")
    BY <2>3 DEF Moves, LegalSteps
  <2> QED
    BY <1>1, <1>3, <2>2, <2>4, DecideSerial
<1>4. CASE EndStarts(s) /\ call' = [call EXCEPT ![s].job = entry.job, ![s].pc = "load"]
  <2>1. /\ c \in Call /\ Agrees(c, rows, placed) /\ \A t \in Slots : t = s
    BY Alone
  <2>2. call'[s] = [tool |-> c.tool, order |-> c.order, pc |-> "load", row |-> c.row,
                    job |-> entry.job, contaminated |-> c.contaminated]
    BY <1>4, <2>1, CallFacts DEF Call, SerialInv
  <2>3. c.pc = "start"
    BY <1>4 DEF EndStarts, At
  <2>4. Agrees(call'[s], rows, placed)
    BY <2>1, <2>2, <2>3 DEF Agrees
  <2> QED
    BY <1>1, <2>1, <2>4, SameRows DEF SerialInv
<1> QED
  BY <1>2, <1>3, <1>4 DEF EndStarts, end_preparation

\* The tools that touch no order.
LEMMA OtherSerial ==
  ASSUME SerialInv, OneTool, NEW s \in Slots,
         CacheJob(s) \/ clean_machine(s) \/ PlaceFood(s) \/ LookUpBrew(s) \/ PlaceCoffee(s)
  PROVE  Serial' /\ Legal
<1> DEFINE c == call[s]
<1>1. UNCHANGED <<rows, placed, customer>>
  BY DEF CacheJob, clean_machine, PlaceFood, LookUpBrew, PlaceCoffee
<1>2. CASE Finish(s)
  BY <1>1, <1>2, FinishSerial
<1>3. CASE LookUpBrew(s)
  <2>1. /\ c \in Call /\ Agrees(c, rows, placed) /\ \A t \in Slots : t = s
    BY Alone
  <2>2. PICK flag : flag = cache[c.order].contaminated
    OBVIOUS
  <2>3. call'[s] = [tool |-> c.tool, order |-> c.order, pc |-> "append", row |-> c.row,
                    job |-> c.job, contaminated |-> flag]
    BY <1>3, <2>1, <2>2, CallFacts DEF LookUpBrew, Call, SerialInv
  <2>4. Agrees(call'[s], rows, placed)
    BY <2>1, <2>3 DEF Agrees
  <2> QED
    BY <1>1, <2>1, <2>4, SameRows DEF SerialInv
<1> QED
  BY <1>2, <1>3 DEF CacheJob, clean_machine, PlaceFood, PlaceCoffee, Append

\* The tray of an order in preparation completes it, between turns.
LEMMA CustomerSerial ==
  ASSUME SerialInv, OneTool, Customer
  PROVE  Serial' /\ Legal
<1>1. ConsumeTray
  <2>1. ~Dashboard /\ customer.pc = "idle"
    BY DEF OneTool, SerialInv, Serial
  <2> QED
    BY <2>1 DEF Customer, TakeTray, CustomerLoads, CustomerSaves, CustomerClears
<1>2. UNCHANGED <<placed, call, customer>>
  BY <1>1 DEF ConsumeTray
<1>3. /\ placed \in Orders /\ placed \in OrderIds /\ rows[placed] \in Row
      /\ \A s \in Slots : call[s] = NoCall
  BY <1>1, OrdersBounded, BoundsAssumption
  DEF ConsumeTray, TurnOver, Orders, OrderIds, SerialInv, Inv, TypeOK
<1>4. \A s \in Slots : Agrees(call'[s], rows', placed')
  BY <1>2, <1>3, IdleAgrees
<1>5. CASE UNCHANGED rows
  BY <1>2, <1>5, SameRows DEF SerialInv
<1>6. CASE rows[placed].status = "in_preparation" /\ Complete(placed, rows[placed])
  <2> DEFINE row == rows[placed]
             new == [status |-> "completed", total |-> row.total, quantity |-> row.quantity]
  <2>1. rows' = [rows EXCEPT ![placed] = new] /\ new \in Row
    <3>1. [row EXCEPT !.status = "completed"] = new /\ new \in Row
      BY <1>3 DEF Row, Statuses
    <3> QED
      BY <1>6, <3>1 DEF Complete, save_order
  <2>2. Moves(rows[placed].status, new.status)
    BY <1>6 DEF Moves, LegalSteps
  <2> QED
    BY <1>2, <1>3, <1>4, <2>1, <2>2, OneRow
<1> QED
  BY <1>1, <1>5, <1>6 DEF ConsumeTray

\* Steps of the machine, a restart and stutters.
LEMMA AroundSerial ==
  ASSUME SerialInv, Restart \/ reset_inventory \/ Machine \/ UNCHANGED vars
  PROVE  Serial' /\ Legal
<1>1. UNCHANGED <<rows, placed>>
  BY DEF Restart, reset_inventory, Machine, shopVars, vars
<1>2. \A s \in Slots : call'[s] = call[s] \/ Agrees(call'[s], rows, placed)
  BY IdleAgrees DEF Restart, reset_inventory, Machine, shopVars, vars
<1>3. CASE UNCHANGED customer
  BY <1>1, <1>2, <1>3, SameRows DEF SerialInv
<1>4. CASE Restart
  <2>1. customer'.pc = "idle" /\ \A s \in Slots : Agrees(call'[s], rows', placed')
    BY <1>4, IdleAgrees DEF Restart, NoVisit
  <2>2. \A o \in OrderIds \ Orders' : rows'[o] = BlankRow
    BY <1>1 DEF SerialInv, Serial, Orders
  <2>3. Legal
    BY <1>1 DEF Legal, Moves
  <2> QED
    BY <2>1, <2>2, <2>3 DEF Serial
<1> QED
  BY <1>3, <1>4 DEF reset_inventory, Machine, shopVars, vars

\* Every step of a shop with one tool at a time.
LEMMA StepSerial ==
  ASSUME OneTool
  PROVE  SerialInv /\ [Next]_vars => SerialInv' /\ Legal
<1> SUFFICES ASSUME SerialInv, [Next]_vars PROVE SerialInv' /\ Legal
  OBVIOUS
<1>1. ASSUME NEW agent \in DOMAIN Toolset, NEW busy \in SUBSET Slots,
             StartBatch(agent, busy)
      PROVE  Serial' /\ Legal
  BY <1>1, BatchSerial
<1>2. ASSUME NEW s \in Slots, ToolStep(s)
      PROVE  Serial' /\ Legal
  BY <1>2, LoadSerial, SaveSerial, ProcessSerial, GrantsSerial, InventorySerial,
     StartSerial, EndSerial, OtherSerial
  DEF ToolStep
<1>3. Customer => Serial' /\ Legal
  BY CustomerSerial
<1>4. Restart \/ reset_inventory \/ Machine \/ UNCHANGED vars => Serial' /\ Legal
  BY AroundSerial
<1>5. Serial' /\ Legal
  BY <1>1, <1>2, <1>3, <1>4 DEF Next
<1> QED
  BY <1>5, StepInv DEF SerialInv

\* With one tool at a time no copy is stale: the copy a tool decides on is the
\* stored row, and the gate's answer holds until the row is saved.
THEOREM SerialInvariance ==
  ASSUME OneTool
  PROVE  Spec => []SerialInv
<1>1. Init => SerialInv
  BY InitInv, InitSerial DEF SerialInv
<1>2. SerialInv /\ [Next]_vars => SerialInv'
  BY StepSerial
<1> QED
  BY <1>1, <1>2, PTL DEF Spec

\* "offer_refund may only run on a completed order" (baseline/guardrails/coffee_shop.yaml)
\* holds with one tool at a time: the order is still completed when the refund is
\* saved, so it is paid back once.
THEOREM RefundsOfCompleted ==
  ASSUME OneTool
  PROVE  Spec => []RefundRunsOnCompleted
<1>1. SerialInv => RefundRunsOnCompleted
  <2> SUFFICES ASSUME SerialInv, NEW s \in Slots, At(s, "offer_refund", "work")
               PROVE  rows[call[s].order].status = "completed"
    BY DEF RefundRunsOnCompleted
  <2>1. "offer_refund" \in DOMAIN Sources /\ Sources["offer_refund"] = {"completed"}
    BY DEF Sources
  <2>2. Agrees(call[s], rows, placed)
    BY DEF SerialInv, Serial
  <2> QED
    BY <2>1, <2>2 DEF At, Agrees
<1> QED
  BY <1>1, SerialInvariance, PTL

\* "Transition legality is enforced by gateway guardrails" (order_store.py)
\* holds with one tool at a time: the status a tool was allowed from is the
\* status it moves the order from.
THEOREM LifecycleKept ==
  ASSUME OneTool
  PROVE  Spec => LegalTransitions
<1> DEFINE LegalMoves ==
             \A o \in OrderIds : rows'[o].status # rows[o].status =>
                <<rows[o].status, rows'[o].status>> \in LegalSteps
<1>1. SerialInv /\ [Next]_vars => [LegalMoves]_vars
  <2>1. Legal => LegalMoves
    BY DEF Legal, Moves
  <2> QED
    BY <2>1, StepSerial
<1> QED
  BY <1>1, SerialInvariance, PTL DEF Spec, LegalTransitions
=============================================================================
