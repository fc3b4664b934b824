\* One client with two requests at a time, costs of one and two cents and a
\* cap that two requests can reach.
CONSTANTS
  Clients = {alice}
  Requests = {r1, r2, r3}
  MaxCents = 3
  Window = 1
  Costs = {1, 2}
SPECIFICATION LedgerSpec
INVARIANTS LedgerTypeOK NeverUndercounts NeverOvercounts CeilingBound
SYMMETRY Symmetry
