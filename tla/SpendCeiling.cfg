\* The instance of SpendLedger.cfg.  A reservation may be settled in a later
\* window than the one it was made in.
CONSTANTS
  Clients = {alice}
  Requests = {r1, r2, r3}
  MaxCents = 3
  Window = 1
  Costs = {1, 2}
SPECIFICATION LedgerSpec
INVARIANT HardCeiling
SYMMETRY Symmetry
