\* Liveness of the handoff without the timeout's help, and of the pool although
\* the server never answers, with edge-triggered readiness.
SPECIFICATION FairSpec
CONSTANTS
  Conn = {c1}
  NoConn = NoConn
  Slot = {s1}
  MaxFrames = 2
INVARIANT
  NoMissedEdge
PROPERTIES
  PendingResolved
  SlotsReclaimed
