\* Two threads that send to the same router.
SPECIFICATION FairSpec
CONSTANTS
  Producers = {p1, p2}
  Messages = {a, b}
  NoMessage = none
  Depth = 2
INVARIANT TokenMeansMessage
