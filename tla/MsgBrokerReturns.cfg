SPECIFICATION FairSpec
CONSTANTS
  Bufs = {b1, b2}
  NumItems = 2
  CounterLimit = 3
  Senders = {s1, s2}
  QueuedPipes = {q1}
  DirectPipes = {}
  MsgIds = {m1, m2}
  Depth = 1
  NoBuf = NoBuf
  NoThread = NoThread
PROPERTIES
  SentBuffersComeBack
  BuffersAreShared
