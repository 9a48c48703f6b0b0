\* Every request, event by event: options below and above their ceilings,
\* a clock that passes the deadline between any two events.
SPECIFICATION FairSpec
CONSTANTS
  None = None
  Requests <- AllRequests
  Deadline = 2
  TurnCeiling = 2
  MaxCallCost = 2
  MaxTime = 3
INVARIANTS ChargedIsBilled OvershootBound FirstCallInDeadline StoppedTurnIsInert RecordedIsTold JsonTellsTheTurn
PROPERTIES ImplementsContract LivesTurn EndsOrIsCut
\* a turn ends
CHECK_DEADLOCK FALSE
