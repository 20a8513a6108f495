\* One service, its owner, and two thread names (one more than the service
\* ever uses at a time).
SPECIFICATION FairSpec
CONSTANT Threads = {t1, t2}
INVARIANTS
  TypeOK
  AtMostOneRun
  RunOwnsItsState
  OwnerActsOnFreshState
  BusyStateHasARun
PROPERTIES
  ImplementsContract
  StartSettles
  AcceptedStopEndsTheRun
