\* An active application, and a passive one with a child.
SPECIFICATION FairSpec
CONSTANTS
  act = act
  pas = pas
  c1 = c1
  Apps = {act, pas}
  PassiveApps = {pas}
  Children = {c1}
  ParentOf <- MCParentOf
  MaxChildren = 1
  ContainerSize = 2
INVARIANTS
  TypeOK
  NobodyIsForgotten
  CleanupComesAfterTheStops
  StartedIsInitialised
PROPERTIES
  ServicesKeepTheContract
  StopReachesActiveChildren
