\* Two callers, a history of three entries in a burst of five, and calls that
\* may be recorded one tick after their timestamp.
CONSTANTS
  Prompts = {p1, p2}
  Callers = {c1, c2}
  Threshold = 3
  Window = 2
  MaxHistory = 3
  LockDelay = 1
  MaxBurst = 5
SPECIFICATION Spec
INVARIANT TypeOK
PROPERTIES NoFalseAlarm LoopCaught
SYMMETRY Symmetry
