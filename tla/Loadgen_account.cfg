\* Two sessions that share a sample channel and a verifier queue of one place each.
SPECIFICATION FairSpec
CONSTANTS
  Session = {s1, s2}
  NoJob = NoJob
  MaxVerify = 2
  Tolerance = 0
  SampleCapacity = 1
  QueueCapacity = 1
  VerifyEvery = {0, 1}
  ErrorBudget = 0
  MaxFrames = 1
  MaxAnswers = 1
INVARIANTS
  TypeOK
  FailuresCounted
  PartialsAccounted
  RecordedOnce
  PassMeansCorrect
PROPERTIES
  RunEnds
