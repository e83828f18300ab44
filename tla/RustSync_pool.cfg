\* Two connections that share one slot: exhaustion, and a keep-alive socket that
\* passes from one connection to the other.
SPECIFICATION Spec
CONSTANTS
  Conn = {c1, c2}
  NoConn = NoConn
  Slot = {s1}
  MaxFrames = 1
SYMMETRY ConnSymmetry
INVARIANTS
  FreeListExact
  SocketClean
  NoLostWake
PROPERTIES
  ImplementsContract
