\* One provider.  A caller may lose three ticks between the read and the write
\* lock of is_open, in which a whole trial fails.
CONSTANTS
  Providers = {p1}
  Callers = {c1, c2, c3}
  FailureThreshold = 2
  ResetTimeout = 3
  CallTimeout = 2
  MinRoundTrip = 2
  LockDelay = 3
SPECIFICATION FairSpec
PROPERTY HoldOff
CHECK_DEADLOCK FALSE
