SPECIFICATION Spec
CONSTANTS
  Files = {f1, f2}
  Socks = {s1}
  NumFds = 2
  MAX_SELECTABLE_OBJS = 2
INVARIANTS
  TypeOK
  NoSharedDescriptor
  HandleKnowsItsDescriptor
  DescriptorsAreHeldOrLost
  
  WaitTellsTheTruth
