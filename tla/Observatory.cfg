CONSTANTS
  Agents = {a, b}
  Entry = a
  Texts = {"hello"}
  MaxTurns = 2
  MaxRetries = 1
  MaxMessages = 3
  MaxTransfers = 1
  MaxOrders = 1
  MaxAhead = 2
  MaxClicks = 3
SPECIFICATION Spec
INVARIANTS TypeOK ReplyStands StruckOut 
