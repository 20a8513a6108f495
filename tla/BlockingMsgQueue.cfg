\* One sender; three messages fit, so the indices wrap with the ring full,
\* empty and in between.
SPECIFICATION FairSpec
CONSTANTS
  Producers = {p1}
  Messages = {a, b}
  NoMessage = none
  Depth = 3
INVARIANTS
  TypeOK
  TokenMeansMessage
  TokensMatchMessages
PROPERTIES
  ImplementsFifo
  EveryMessageIsTaken
