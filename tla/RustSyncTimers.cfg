\* The timeout is twice the flush interval, as in config.rs; an iteration of the
\* loop may last a third of an interval.
SPECIFICATION ClockSpec
CONSTANTS
  FlushInterval = 3
  InferenceTimeout = 6
  Jitter = 1
  MaxStall = 1
INVARIANTS
  HeapCoversDeadline
  FlushNeverLate
  AnswerBounded
  TailBound
