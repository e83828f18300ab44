\* An outbox of one answer and a backlog of two frames, four frames in all.
SPECIFICATION FairSpec
CONSTANTS
  Session = c1
  NoConn = NoConn
  Depth = 1
  MaxBacklog = 2
  MaxFrames = 4
INVARIANT
  WireExclusive
PROPERTIES
  ImplementsContract
  WorkersStop
CHECK_DEADLOCK FALSE
