\* A channel of one answer, so that the flush task waits for room, and enough frames
\* to have one answer on the wire, one in hand, one in the channel and one to push.
SPECIFICATION FairSpec
CONSTANTS
  Session = c1
  NoConn = NoConn
  Depth = 1
  MaxFrames = 5
PROPERTIES
  ImplementsContract
  FramesReported
  FlusherStops
CHECK_DEADLOCK FALSE
