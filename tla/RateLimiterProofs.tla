-------------------------- MODULE RateLimiterProofs -------------------------
(***************************************************************************)
(* Theorems about RateLimiter, for any clients, tiers and number of        *)
(* concurrent requests.                                                    *)
(***************************************************************************)
EXTENDS RateLimiter, FiniteSetTheorems, TLAPS

USE TierAssumption DEF TierAssumption, Serving

(* What a caller in the middle of check() can rely on: somebody serves, its
   client was not configured, the limiter it has inserted is a default one,
   and when it asks the limiter the client is registered. *)
CallersSound ==
  \A r \in Callers :
    /\ pc[r] # "idle" => Serving
    /\ pc[r] \in {"unknown", "recording"} =>
         /\ TierSet(client[r]) = NoTier
         /\ tiers[client[r]] \in {NoTier, DefaultTier}
    /\ pc[r] = "recording" => size[client[r]] = Capacity[DefaultTier]
    /\ pc[r] = "checking"  => tiers[client[r]] # NoTier

(* Every cell that is gone is in the level. *)
CellsCounted == \A c \in Clients : size[c] - cells[c] <= level[c]

(* After the environment is loaded its tiers are in force until the table's
   replace them. *)
LoadedInOrder ==
  /\ phase = "env" => \A c \in Clients : tiers[c] = NoTier
  /\ phase = "db"  => \A c \in Clients : tiers[c] = EnvTiers[c]

IInv ==
  /\ TypeOK
  /\ MapsAgree
  /\ TierAsConfigured
  /\ CallersSound
  /\ CellsCounted
  /\ LoadedInOrder

LEMMA InitInvariant == Init => IInv
  BY SMT DEF Init, IInv, TypeOK, MapsAgree, TierAsConfigured, CallersSound, CellsCounted,
             LoadedInOrder

LEMMA LoadInvariant ==
  ASSUME IInv, LoadEnv \/ LoadDb \/ DbFails PROVE IInv'
<1> USE DEF IInv, RegisterAll, LastEntry, limiters
<1>1. CASE LoadEnv
  <2>1. TypeOK'
    BY <1>1 DEF TypeOK, LoadEnv
  <2>2. QED
    BY <1>1, <2>1 DEF TypeOK, MapsAgree, TierAsConfigured, TierSet, CallersSound, CellsCounted,
                      LoadedInOrder, LoadEnv
<1>2. CASE LoadDb
  <2>1. TypeOK'
    BY <1>2 DEF TypeOK, LoadDb
  <2>2. QED
    BY <1>2, <2>1 DEF TypeOK, MapsAgree, TierAsConfigured, TierSet, CallersSound, CellsCounted,
                      LoadedInOrder, LoadDb
<1>3. CASE DbFails
  BY <1>3 DEF TypeOK, MapsAgree, TierAsConfigured, TierSet, CallersSound, CellsCounted,
              LoadedInOrder, DbFails
<1>4. QED BY <1>1, <1>2, <1>3

LEMMA CheckInvariant ==
  ASSUME IInv, NEW r \in Callers,
         (\E c \in Clients : Look(r, c)) \/ InsertLimiter(r) \/ InsertTier(r)
           \/ Admit(r) \/ Refuse(r)
  PROVE  IInv'
<1> USE DEF IInv, Goes, registry, limiters
<1>1. CASE \E c \in Clients : Look(r, c)
  BY <1>1 DEF TypeOK, MapsAgree, TierAsConfigured, TierSet, CallersSound, CellsCounted,
              LoadedInOrder, Look
<1>2. CASE InsertLimiter(r)
  <2>1. TypeOK'
    BY <1>2 DEF TypeOK, InsertLimiter
  <2>2. MapsAgree' /\ CellsCounted'
    BY <1>2 DEF TypeOK, MapsAgree, CellsCounted, CallersSound, InsertLimiter
  <2>3. QED
    BY <1>2, <2>1, <2>2 DEF TypeOK, TierAsConfigured, TierSet, CallersSound, LoadedInOrder,
                            InsertLimiter
<1>3. CASE InsertTier(r)
  BY <1>3 DEF TypeOK, MapsAgree, TierAsConfigured, TierSet, CallersSound, CellsCounted,
              LoadedInOrder, InsertTier
<1>4. CASE Admit(r)
  BY <1>4 DEF TypeOK, MapsAgree, TierAsConfigured, TierSet, CallersSound, CellsCounted,
              LoadedInOrder, Admit
<1>5. CASE Refuse(r)
  BY <1>5 DEF TypeOK, MapsAgree, TierAsConfigured, TierSet, CallersSound, CellsCounted,
              LoadedInOrder, Refuse
<1>6. QED BY <1>1, <1>2, <1>3, <1>4, <1>5

LEMMA RefillInvariant ==
  ASSUME IInv, NEW c \in Clients, Refill(c) PROVE IInv'
  BY DEF IInv, TypeOK, MapsAgree, TierAsConfigured, TierSet, CallersSound, CellsCounted,
         LoadedInOrder, Refill, Refilled, registry

LEMMA StutterInvariant == IInv /\ UNCHANGED vars => IInv'
  BY DEF IInv, TypeOK, MapsAgree, TierAsConfigured, TierSet, CallersSound, CellsCounted,
         LoadedInOrder, vars

LEMMA Invariant == Spec => []IInv
<1>1. IInv /\ [Next]_vars => IInv'
  BY LoadInvariant, CheckInvariant, RefillInvariant, StutterInvariant DEF Next
<1>2. QED
  BY <1>1, InitInvariant, PTL DEF Spec

(* The types, for any clients, tiers and callers: a bucket never holds more
   cells than the capacity of its limiter. *)
THEOREM TypeCorrect == Spec => []TypeOK
  BY Invariant, PTL DEF IInv

(* The registry and the limiters, written under different locks, agree. *)
THEOREM MapsStayTogether == Spec => []MapsAgree
  BY Invariant, PTL DEF IInv

(* A configured client keeps its tier, whoever races to register others. *)
THEOREM ConfiguredTiersHold == Spec => []TierAsConfigured
  BY Invariant, PTL DEF IInv

(* Nobody is refused within its rate. *)
THEOREM NoFalseRefusal == Spec => RefusedOnlyOverRate
<1>1. IInv /\ [Next]_vars =>
        [\A r \in Callers :
           r \in refused' /\ pc[r] = "checking" /\ pc'[r] = "idle" =>
             level[client[r]] >= Capacity[tiers[client[r]]]]_vars
  <2> SUFFICES ASSUME IInv, Next, NEW r \in Callers,
                      r \in refused', pc[r] = "checking", pc'[r] = "idle"
               PROVE  level[client[r]] >= Capacity[tiers[client[r]]]
    BY DEF vars
  <2>1. Refuse(r)
    BY DEF Next, IInv, TypeOK, CallersSound, LoadEnv, LoadDb, DbFails, RegisterAll, Look,
           InsertLimiter, InsertTier, Admit, Refuse, Refill, Goes
  <2>2. QED
    BY <2>1 DEF IInv, TypeOK, MapsAgree, CallersSound, CellsCounted, Refuse
<1>2. QED
  BY <1>1, Invariant, PTL DEF Spec, RefusedOnlyOverRate

---------------------------------------------------------------------------
(* The burst: every bucket a client ever gets is paid for by the caller that
   installs it, and a caller that is still to install one has not spent its
   own. *)

Racing(c) == {r \in Callers : pc[r] = "unknown" /\ client[r] = c}

(* How many buckets client c can have had. *)
Buckets(c) ==
  IF TierSet(c) # NoTier THEN 1 ELSE Cardinality(Callers) - Cardinality(Racing(c))

BurstInv ==
  /\ \A c \in Clients : ~Serving \/ tiers[c] = NoTier => level[c] = 0
  /\ \A c \in Clients : tiers[c] # NoTier =>
       Buckets(c) >= 1 /\ level[c] + cells[c] <= size[c] * Buckets(c)

LEMMA RacingCounts ==
  ASSUME NEW c \in Clients
  PROVE  /\ IsFiniteSet(Racing(c))
         /\ Cardinality(Callers) \in Nat /\ Cardinality(Racing(c)) \in Nat
         /\ Cardinality(Racing(c)) <= Cardinality(Callers)
         /\ Buckets(c) \in Int
<1>1. Racing(c) \in SUBSET Callers
  BY DEF Racing
<1>2. QED
  BY <1>1, CallerAssumption, FS_Subset, FS_CardinalityType DEF Buckets

(* A caller that is not racing leaves room for its own bucket. *)
LEMMA RoomForOne ==
  ASSUME NEW c \in Clients, NEW r \in Callers, r \notin Racing(c)
  PROVE  Buckets(c) >= 1
<1>1. Racing(c) \in SUBSET (Callers \ {r})
  BY DEF Racing
<1>2. IsFiniteSet(Callers \ {r}) /\ Cardinality(Callers \ {r}) = Cardinality(Callers) - 1
  BY CallerAssumption, FS_RemoveElement
<1>3. Cardinality(Racing(c)) <= Cardinality(Callers) - 1
  BY <1>1, <1>2, FS_Subset
<1>4. QED
  BY <1>3, RacingCounts DEF Buckets

LEMMA Products ==
  /\ \A n \in Nat, m \in Int : m >= 1 => n <= n * m
  /\ \A n \in Nat, m \in Int : n * (m + 1) = n * m + n
  /\ \A n \in Nat, m, k \in Int : m <= k => n * m <= n * k
  BY SMT

(* As long as nobody starts or ends racing for it, a client's buckets stay
   as they are. *)
LEMMA BucketsKept ==
  ASSUME NEW c \in Clients, UNCHANGED phase, Racing(c)' = Racing(c)
  PROVE  Buckets(c)' = Buckets(c)
  BY DEF Buckets, TierSet

LEMMA LoadBurst ==
  ASSUME IInv, IInv', BurstInv, LoadEnv \/ LoadDb \/ DbFails PROVE BurstInv'
<1> SUFFICES ASSUME NEW c \in Clients
             PROVE  /\ level'[c] = 0
                    /\ tiers'[c] # NoTier => Buckets(c)' >= 1
                    /\ tiers'[c] # NoTier => cells'[c] <= size'[c] * Buckets(c)'
  BY DEF BurstInv, IInv, TypeOK
<1>1. level'[c] = 0
  BY DEF BurstInv, LoadEnv, LoadDb, DbFails, RegisterAll
<1>2. tiers'[c] # NoTier => TierSet(c)' # NoTier
  BY DEF IInv, TypeOK, LoadedInOrder, TierAsConfigured, TierSet, LoadEnv, LoadDb, DbFails,
         RegisterAll, LastEntry
<1>3. tiers'[c] # NoTier => Buckets(c)' = 1
  BY <1>2 DEF Buckets
<1>4. QED
  BY <1>1, <1>3 DEF IInv, TypeOK

LEMMA CheckBurst ==
  ASSUME IInv, BurstInv, NEW r \in Callers, TypeOK',
         (\E c \in Clients : Look(r, c)) \/ InsertTier(r) \/ Admit(r) \/ Refuse(r)
  PROVE  BurstInv'
<1> SUFFICES ASSUME NEW c \in Clients
             PROVE  /\ ~Serving' \/ tiers'[c] = NoTier => level'[c] = 0
                    /\ tiers'[c] # NoTier =>
                         Buckets(c)' >= 1 /\ level'[c] + cells'[c] <= size'[c] * Buckets(c)'
  BY DEF BurstInv
<1>0. Buckets(c) \in Int
  BY RacingCounts
<1>1. CASE \E d \in Clients : Look(r, d)
  <2>1. tiers[c] # NoTier => Racing(c)' = Racing(c)
    BY <1>1 DEF Look, Goes, Racing, IInv, TypeOK
  <2>2. tiers[c] # NoTier => Buckets(c)' = Buckets(c)
    BY <1>1, <2>1, BucketsKept DEF Look, registry
  <2>3. QED
    BY <1>1, <2>2 DEF Look, registry, limiters, BurstInv
<1>2. CASE InsertTier(r)
  <2>1. Racing(c)' = Racing(c) /\ r \notin Racing(c)
    BY <1>2 DEF InsertTier, Goes, Racing, IInv, TypeOK
  <2>2. Buckets(c)' = Buckets(c) /\ Buckets(c) >= 1
    BY <1>2, <2>1, BucketsKept, RoomForOne DEF InsertTier
  <2>3. size[c] \in Nat /\ cells[c] \in Nat /\ cells[c] <= size[c]
    BY DEF IInv, TypeOK
  <2>4. cells[c] <= size[c] * Buckets(c)
    <3> DEFINE most == size[c] * Buckets(c)
    <3>1. most \in Int /\ size[c] <= most
      BY <1>0, <2>2, <2>3, Products
    <3> HIDE DEF most
    <3>2. cells[c] <= most
      BY <2>3, <3>1
    <3>3. QED BY <3>2 DEF most
  <2>5. QED
    BY <1>2, <2>2, <2>3, <2>4 DEF InsertTier, limiters, BurstInv, IInv, TypeOK, CallersSound
<1>3. CASE Admit(r)
  <2>1. Racing(c)' = Racing(c)
    BY <1>3 DEF Admit, Goes, Racing, IInv, TypeOK
  <2>2. Buckets(c)' = Buckets(c)
    BY <1>3, <2>1, BucketsKept DEF Admit, registry
  <2>3. level'[c] + cells'[c] = level[c] + cells[c]
    BY <1>3 DEF Admit, IInv, TypeOK
  <2>4. tiers[c] = NoTier => level'[c] = level[c]
    BY <1>3 DEF Admit, IInv, TypeOK, CallersSound
  <2>5. QED
    BY <1>3, <2>2, <2>3, <2>4 DEF Admit, registry, BurstInv, IInv, CallersSound
<1>4. CASE Refuse(r)
  <2>1. Racing(c)' = Racing(c)
    BY <1>4 DEF Refuse, Goes, Racing, IInv, TypeOK
  <2>2. Buckets(c)' = Buckets(c)
    BY <1>4, <2>1, BucketsKept DEF Refuse, registry
  <2>3. QED
    BY <1>4, <2>2 DEF Refuse, registry, limiters, BurstInv
<1>5. QED BY <1>1, <1>2, <1>3, <1>4

(* A new bucket for a client that has not been configured comes with a caller
   that stops racing. *)
LEMMA InsertLimiterBurst ==
  ASSUME IInv, BurstInv, NEW r \in Callers, InsertLimiter(r) PROVE BurstInv'
<1> SUFFICES ASSUME NEW c \in Clients
             PROVE  /\ ~Serving' \/ tiers'[c] = NoTier => level'[c] = 0
                    /\ tiers'[c] # NoTier =>
                         Buckets(c)' >= 1 /\ level'[c] + cells'[c] <= size'[c] * Buckets(c)'
  BY DEF BurstInv
<1>0. Buckets(c) \in Int
  BY RacingCounts
<1>1. CASE c # client[r]
  <2>1. Racing(c)' = Racing(c)
    BY <1>1 DEF InsertLimiter, Goes, Racing, IInv, TypeOK
  <2>2. Buckets(c)' = Buckets(c)
    BY <2>1, BucketsKept DEF InsertLimiter, registry
  <2>3. QED
    BY <1>1, <2>2 DEF InsertLimiter, registry, BurstInv, IInv, TypeOK
<1>2. CASE c = client[r] /\ tiers[c] # NoTier
  <2>1. Racing(c)' = Racing(c) \ {r} /\ r \in Racing(c)
    BY <1>2 DEF InsertLimiter, Goes, Racing, IInv, TypeOK
  <2>2. Cardinality(Racing(c)') = Cardinality(Racing(c)) - 1
    BY <2>1, RacingCounts, FS_RemoveElement
  <2>3. TierSet(c) = NoTier /\ TierSet(c)' = NoTier
    BY <1>2 DEF InsertLimiter, registry, IInv, CallersSound, TierSet
  <2>4. Buckets(c)' = Buckets(c) + 1
    BY <2>2, <2>3, RacingCounts DEF Buckets
  <2>5. size'[c] = size[c] /\ cells'[c] = size[c] /\ size[c] \in Nat
    BY <1>2 DEF InsertLimiter, IInv, TypeOK, MapsAgree, CallersSound
  <2>6. size[c] * (Buckets(c) + 1) = size[c] * Buckets(c) + size[c]
    BY <1>0, <2>5, Products
  <2>7. level[c] <= size[c] * Buckets(c) /\ Buckets(c) >= 1
    BY <1>0, <1>2, <2>5 DEF BurstInv, IInv, TypeOK
  <2>8. level'[c] + cells'[c] <= size'[c] * Buckets(c)'
    BY <1>0, <2>4, <2>5, <2>6, <2>7 DEF InsertLimiter, IInv, TypeOK
  <2>9. QED
    BY <1>0, <1>2, <2>4, <2>7, <2>8 DEF InsertLimiter, registry, BurstInv, IInv, CallersSound
<1>3. CASE c = client[r] /\ tiers[c] = NoTier
  BY <1>3 DEF InsertLimiter, registry, BurstInv
<1>4. QED BY <1>1, <1>2, <1>3

LEMMA RefillBurst ==
  ASSUME IInv, BurstInv, NEW d \in Clients, Refill(d) PROVE BurstInv'
<1> SUFFICES ASSUME NEW c \in Clients
             PROVE  /\ ~Serving' \/ tiers'[c] = NoTier => level'[c] = 0
                    /\ tiers'[c] # NoTier =>
                         Buckets(c)' >= 1 /\ level'[c] + cells'[c] <= size'[c] * Buckets(c)'
  BY DEF BurstInv
<1>0. Buckets(c) \in Int
  BY RacingCounts
<1>1. Racing(c)' = Racing(c)
  BY DEF Refill, Racing
<1>2. Buckets(c)' = Buckets(c)
  BY <1>1, BucketsKept DEF Refill, registry
<1>3. level[c] = 0 => level'[c] = 0
  BY DEF Refill, IInv, TypeOK
<1>4. \/ level'[c] + cells'[c] <= level[c] + cells[c]
      \/ level'[c] + cells'[c] <= size[c]
  BY DEF Refill, Refilled, IInv, TypeOK
<1>5. Buckets(c) >= 1 => size[c] <= size[c] * Buckets(c)
  BY <1>0, Products DEF IInv, TypeOK
<1>6. /\ size'[c] = size[c] /\ tiers'[c] = tiers[c] /\ phase' = phase
      /\ size[c] \in Int /\ level[c] \in Int /\ cells[c] \in Int
      /\ level'[c] \in Int /\ cells'[c] \in Int
  BY DEF Refill, Refilled, registry, IInv, TypeOK
<1>7. tiers[c] # NoTier =>
        Buckets(c) >= 1 /\ level'[c] + cells'[c] <= size[c] * Buckets(c)
  <2> DEFINE most == size[c] * Buckets(c)
  <2>1. most \in Int
    BY <1>0, <1>6
  <2>2. tiers[c] # NoTier => Buckets(c) >= 1 /\ level[c] + cells[c] <= most
    BY DEF BurstInv
  <2>3. Buckets(c) >= 1 => size[c] <= most
    BY <1>5
  <2> HIDE DEF most
  <2>4. tiers[c] # NoTier => Buckets(c) >= 1 /\ level'[c] + cells'[c] <= most
    BY <1>4, <1>6, <2>1, <2>2, <2>3
  <2>5. QED BY <2>4 DEF most
<1>8. QED
  BY <1>2, <1>3, <1>6, <1>7 DEF BurstInv

(* What one client has been let through at once: one bucket if it is
   configured, one bucket per concurrent first request if it is not. *)
THEOREM Bursts == Spec => []BurstBounded
<1>1. Init => BurstInv
  BY DEF Init, BurstInv
<1>2. IInv /\ IInv' /\ BurstInv /\ [Next]_vars => BurstInv'
  <2> SUFFICES ASSUME IInv, IInv', BurstInv, [Next]_vars PROVE BurstInv'
    OBVIOUS
  <2>1. CASE UNCHANGED vars
    BY <2>1 DEF vars, BurstInv, Buckets, Racing, TierSet
  <2>2. CASE Next
    BY <2>2, LoadBurst, CheckBurst, InsertLimiterBurst, RefillBurst DEF Next, IInv
  <2>3. QED BY <2>1, <2>2
<1>3. IInv /\ BurstInv => BurstBounded
  <2> SUFFICES ASSUME IInv, BurstInv, NEW c \in Clients
               PROVE  level[c] <= size[c] * (IF TierSet(c) # NoTier THEN 1
                                                              ELSE Cardinality(Callers))
    BY DEF BurstBounded
  <2> DEFINE most == IF TierSet(c) # NoTier THEN 1 ELSE Cardinality(Callers)
  <2>1. Buckets(c) <= most /\ Buckets(c) \in Int /\ most \in Nat
    BY RacingCounts DEF Buckets
  <2>2. size[c] * Buckets(c) <= size[c] * most /\ 0 <= size[c] * most
    BY <2>1, Products DEF IInv, TypeOK
  <2>3. CASE tiers[c] = NoTier
    BY <2>1, <2>2, <2>3 DEF BurstInv
  <2>4. CASE tiers[c] # NoTier
    <3>1. level[c] + cells[c] <= size[c] * Buckets(c) /\ level[c] \in Nat /\ cells[c] \in Nat
      BY <2>4 DEF BurstInv, IInv, TypeOK
    <3>2. size[c] * Buckets(c) \in Int /\ size[c] * most \in Int
      BY <2>1 DEF IInv, TypeOK
    <3>3. level[c] <= size[c] * most
      BY <2>2, <3>1, <3>2
    <3>4. QED BY <3>3
  <2>5. QED BY <2>3, <2>4
<1>4. QED
  BY <1>1, <1>2, <1>3, Invariant, PTL DEF Spec
=============================================================================
