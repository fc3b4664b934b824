\* One provider.  The trial of a half-open circuit may end without a report:
\* by an answer that is neither recorded nor retried, or by a dropped future.
CONSTANTS
  Providers = {p1}
  Callers = {c1, c2, c3}
  FailureThreshold = 2
  ResetTimeout = 3
  CallTimeout = 2
  MinRoundTrip = 2
  LockDelay = 1
SPECIFICATION FairSpec
PROPERTY TrialIsResolved
CHECK_DEADLOCK FALSE
