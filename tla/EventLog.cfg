CONSTANTS
  Cases = {c1, c2}
  Agents = {order_agent, barista_agent}
  FirstAgent = order_agent
  MaxTurns = 2
  MaxVerdicts = 1
  MaxRows = 6
SPECIFICATION Spec
SYMMETRY Symmetry
INVARIANTS LinksResolve CaseRecovered HandoversTrue DeniedNotExecuted
CHECK_DEADLOCK FALSE
