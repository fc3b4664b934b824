\* Three concurrent requests, which race to register bob when the table could
\* not be read.
CONSTANTS
  alice = alice
  bob = bob
  free = free
  pro = pro
  Clients = {alice, bob}
  Callers = {r1, r2, r3}
  Tiers = {free, pro}
  NoTier = NoTier
  Capacity <- MCCapacity
  DefaultTier = pro
  EnvTiers <- MCEnvTiers
  DbTiers <- MCDbTiers
SPECIFICATION Spec
INVARIANTS TypeOK MapsAgree BurstBounded TierAsConfigured
PROPERTY RefusedOnlyOverRate
