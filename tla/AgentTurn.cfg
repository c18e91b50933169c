CONSTANTS
  Agents = {order_agent, inventory_agent}
  Entry = order_agent
  Handovers <- MCHandovers
  Nobody = nobody
  Parallel = TRUE
  MaxAgentMessages = 3
  MaxRetries = 1
  MaxCalls = 1
  MaxBatch = 2
  MaxTurns = 2
  MaxIds = 4
SPECIFICATION Spec
INVARIANTS TypeOK ReplyIsApprovedLastWord RejectedIsGone CallsAnswered PendingIsCurrent NoWorkBesideHandover
PROPERTY DeferredIsIssued
CHECK_DEADLOCK FALSE
