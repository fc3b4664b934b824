\* Two providers, three callers.  An answer takes two or three ticks, the lock of
\* is_open at most one.
CONSTANTS
  Providers = {p1, p2}
  Callers = {c1, c2, c3}
  FailureThreshold = 2
  ResetTimeout = 3
  CallTimeout = 3
  MinRoundTrip = 2
  LockDelay = 1
SPECIFICATION FairSpec
INVARIANTS TypeOK BreakerConsistent SingleTrial
PROPERTIES OnlyTrialResolves HoldOff OpenIsTried
CHECK_DEADLOCK FALSE
