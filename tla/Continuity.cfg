\* Every stream of up to four responses over the frames 1 to 4.
SPECIFICATION TrackerSpec
CONSTANTS
  MaxVerify = 4
  Tolerance = 1
  MaxSeq = 4
  MaxLength = 4
INVARIANTS
  SilentIffTiling
  StaleReportedOnce
  LossReportedOnce
CHECK_DEADLOCK FALSE
