\* The turn deadline against the second call.
SPECIFICATION Spec
CONSTANTS
  None = None
  Requests <- AllRequests
  Deadline = 2
  TurnCeiling = 2
  MaxCallCost = 2
  MaxTime = 3
INVARIANTS EveryCallInDeadline
\* a turn ends
CHECK_DEADLOCK FALSE
