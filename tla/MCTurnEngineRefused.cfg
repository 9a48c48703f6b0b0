\* Every block a refusal, a scope block included.
SPECIFICATION Spec
CONSTANTS
  None = None
  Requests <- AllRequests
  Deadline = 2
  TurnCeiling = 2
  MaxCallCost = 2
  MaxTime = 3
INVARIANTS BlockIsARefusal
\* a turn ends
CHECK_DEADLOCK FALSE
