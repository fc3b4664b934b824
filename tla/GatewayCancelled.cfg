\* The instance of Gateway.cfg.  A plain request may be cancelled while it waits
\* for its permit.
CONSTANTS
  plain1 = plain1
  plain2 = plain2
  shadow1 = shadow1
  stream1 = stream1
  alice = alice
  Plain = {plain1, plain2}
  Shadows = {shadow1}
  Streams = {stream1}
  Clients = {alice}
  ShadowsOf <- MCShadowsOf
  ClientOf <- MCClientOf
  EstimateOf <- MCEstimateOf
  Costs = {1, 2}
  MaxCents = 3
  Window = 0
  MaxConcurrent = 1
SPECIFICATION FairSpec
INVARIANT LostOnlyIfCalled
CHECK_DEADLOCK FALSE
