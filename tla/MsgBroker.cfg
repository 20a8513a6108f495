SPECIFICATION Spec
CONSTANTS
  Bufs = {b1, b2, b3}
  NumItems = 2
  CounterLimit = 3
  Senders = {s1, s2}
  QueuedPipes = {q1, q2}
  DirectPipes = {d1}
  MsgIds = {m1}
  Depth = 2
  NoBuf = NoBuf
  NoThread = NoThread
SYMMETRY Symmetry
INVARIANTS
  TypeOK
  HoldersKeepTheBuffer
  NothingIsLost
  PoolAccounts
  OneOrderForAll
