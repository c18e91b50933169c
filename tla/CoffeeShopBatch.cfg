CONSTANTS
  Jobs = {j1}
  NoJob = nojob
  MaxOrders = 1
  Slots = {s1, s2}
  Dashboard = TRUE
  Price = 1
  Stock = 1
  Quantities <- MCQuantities
  Percents <- MCPercents
  MaxDiscount = 50
  MaxRefund = 100
  MaxTotal = 2
  MaxStock = 2
SPECIFICATION Spec
SYMMETRY Symmetry
INVARIANTS TypeOK NeverOversold RefundedWasServed NothingOwed BrewedBeforeServed
