\* Intervals, jitter and timeout of one frame each: a longest wait of two frames, a cap of
\* four, and an outbox of two answers, so that one is queued behind a socket that is full.
SPECIFICATION FairSpec
CONSTANTS
  Session = c1
  NoConn = NoConn
  FlushInterval = 1
  PhaseJitter = 1
  InferenceTimeout = 1
  Depth = 2
  MaxFrames = 6
  MaxLag = 2
INVARIANT
  CapSparesHealthy
PROPERTIES
  ImplementsContract
  CaughtUp
CHECK_DEADLOCK FALSE
