\* As Loadgen_account, where the error-rate gate lets one failed session through.
SPECIFICATION Spec
CONSTANTS
  Session = {s1, s2}
  NoJob = NoJob
  MaxVerify = 2
  Tolerance = 0
  SampleCapacity = 1
  QueueCapacity = 1
  VerifyEvery = {1}
  ErrorBudget = 1
  MaxFrames = 1
  MaxAnswers = 1
INVARIANT PassMeansCorrect
