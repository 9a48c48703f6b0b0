\* Calls that race for the first pool, beside shutdowns with and without a
\* rest, of an application that is served twice.
SPECIFICATION FairSpec
CONSTANTS
  t1 = t1
  t2 = t2
  t3 = t3
  Tasks = {t1, t2, t3}
  Kind <- KindOf
  MaxServes = 2
INVARIANTS NoOrphan RefusedOnlyLate ShutdownReleases
PROPERTIES CallsAndShutdownsEnd
\* the server may stop for good
CHECK_DEADLOCK FALSE
