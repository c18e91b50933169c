CONSTANTS
  Jobs = {j1, j2}
  NoJob = nojob
  MaxOrders = 1
  Slots = {s1}
  Dashboard = TRUE
  Price = 1
  Stock = 1
  Quantities = {1}
  Percents = {50}
  MaxDiscount = 30
  MaxRefund = 100
  MaxTotal = 1
  MaxStock = 1
SPECIFICATION Spec
PROPERTIES LegalTransitions
