\* The instance of Gateway.cfg.  A client may leave a stream while the provider
\* is answering.
CONSTANTS
  plain1 = plain1
  plain2 = plain2
  shadow1 = shadow1
  stream1 = stream1
  alice = alice
  Plain = {plain1, plain2}
  Shadows = {shadow1}
  Streams = {stream1}
  Clients = {alice}
  ShadowsOf <- MCShadowsOf
  ClientOf <- MCClientOf
  EstimateOf <- MCEstimateOf
  Costs = {1, 2}
  MaxCents = 3
  Window = 0
  MaxConcurrent = 1
SPECIFICATION FairSpec
INVARIANT NoFreeStream
CHECK_DEADLOCK FALSE
