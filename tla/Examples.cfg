\* Depths, iterations and registry as in the programs, the registry but for its
\* capacity of 16.
SPECIFICATION FairSpec
CONSTANTS
  act = act
  pas = pas
  a1 = a1
  a2 = a2
  p1 = p1
  p2 = p2
  Apps = {act, pas}
  PassiveApps = {pas}
  Children = {a1, a2, p1, p2}
  ParentOf <- Parents
  MaxChildren = 2
  Child1 <- First
  Child2 <- Second
  CmdDepth = 5
  LocalDepth = 2
  Iterations = 5
INVARIANT TypeOK
PROPERTIES
  CommandsAreHandled
  OneShotEnds
CHECK_DEADLOCK FALSE
