\* One permit for four requests; the client's cap is two cents short of what
\* they all reserve, and the window can roll over while they are under way.
CONSTANTS
  plain1 = plain1
  plain2 = plain2
  shadow1 = shadow1
  stream1 = stream1
  alice = alice
  Plain = {plain1, plain2}
  Shadows = {shadow1}
  Streams = {stream1}
  Clients = {alice}
  ShadowsOf <- MCShadowsOf
  ClientOf <- MCClientOf
  EstimateOf <- MCEstimateOf
  Costs = {1, 2}
  MaxCents = 3
  Window = 0
  MaxConcurrent = 1
SPECIFICATION FairSpec
INVARIANTS TypeOK PermitsSound
PROPERTIES SettledOnce StreamSettles ServedUnlessStreamsHoldAll
CHECK_DEADLOCK FALSE
