SPECIFICATION FairSpec
CONSTANTS
  Ids <- MCIds
  InitialTbl <- MCInitialTbl
  SchedTbl <- MCSchedTbl
  WakeupId <- Wakeup
  WakeupDepth = 1
  StatsDepth = 2
  CounterLimit = 6
  MaxCopies = 2
INVARIANTS
  TypeOK
  RemovedIsUnsubscribed
  TableIsSubscribed
  NoIdTwice
PROPERTY EveryStatsMessageIsHandled
