\* A turn of six events under heartbeats and a client that may leave anywhere.
SPECIFICATION FairSpec
CONSTANT Length = 6
INVARIANTS Delivered OneAtATime
PROPERTIES EndsWithTurn StopsWithClient
\* a stream ends
CHECK_DEADLOCK FALSE
