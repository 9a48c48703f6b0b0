\* The outcome of a streamed turn against its access-log line.
SPECIFICATION Spec
CONSTANTS
  None = None
  Requests <- AllRequests
  Config <- Keys
  MaxBody = 2
  MaxRequests = 1
PROPERTIES OutcomeIsLogged
\* the last request was served
CHECK_DEADLOCK FALSE
