\* Two requests one after the other: every key on every route, every body.
SPECIFICATION Spec
CONSTANTS
  None = None
  Requests <- AllRequests
  Config <- Keys
  MaxBody = 2
  MaxRequests = 2
INVARIANTS LogTellsTheClient ContextIsItsOwn BodyIsWhole CallerMayAct
PROPERTIES LineNamesTheCaller
\* the last request was served
CHECK_DEADLOCK FALSE
