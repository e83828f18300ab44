\* Two connections, two frames each, conformance stream or load generator session.
SPECIFICATION JudgeSpec
CONSTANTS
  Conn = {c1, c2}
  NoConn = NoConn
  MaxVerify = 3
  Tolerance = 1
  MaxFrames = 2
  MinPartials = 1
INVARIANTS
  NeverAccused
  InStep
SYMMETRY ConnSymmetry
CHECK_DEADLOCK FALSE
