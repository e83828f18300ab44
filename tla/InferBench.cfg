\* Two requests of the benchmark and one of somebody else, for a server with one stream.
SPECIFICATION FairSpec
CONSTANTS
  Request = {r1, r2, r3}
  Foreign = {r3}
  MaxConcurrent = 1
  Concurrency = 2
INVARIANTS
  PermitsExact
  ReportComplete
PROPERTIES
  QueueMoves
  BenchEnds
