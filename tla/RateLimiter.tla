---------------------------- MODULE RateLimiter -----------------------------
(***************************************************************************)
(* RateLimiter (src/rate_limiter.rs) and the loading of tiers at startup   *)
(* (src/client_registry.rs).                                               *)
(*                                                                         *)
(* check() reads the registry, registers an unknown client at the default  *)
(* tier, and asks the client's limiter: four steps under three locks, each *)
(* taken and dropped on its own.                                           *)
(*                                                                         *)
(* A governor limiter is a bucket of cells, size of them when it is new;   *)
(* a request takes one, and time brings them back one by one.              *)
(***************************************************************************)
EXTENDS Integers, FiniteSets

CONSTANTS
  Clients,
  Callers,      \* concurrent requests
  Tiers,        \* the tiers of TierConfig
  NoTier,       \* stands for a client that is not registered
  Capacity,     \* TierConfig.capacity
  DefaultTier,  \* default_tier
  EnvTiers,     \* the tiers ROUTERFUEL_CLIENT_TIERS gives; NoTier for the others
  DbTiers       \* the tiers of the client_tiers table

ASSUME TierAssumption ==
  /\ NoTier \notin Tiers /\ DefaultTier \in Tiers
  /\ Capacity \in [Tiers -> Nat \ {0}]
  /\ EnvTiers \in [Clients -> Tiers \cup {NoTier}]
  /\ DbTiers  \in [Clients -> Tiers \cup {NoTier}]

ASSUME CallerAssumption == IsFiniteSet(Callers)

VARIABLES
  phase,    \* of the startup: env, db; then loaded, or envOnly without the table
  tiers,    \* the registry
  size,     \* capacity of each client's limiter; 0: there is none
  cells,    \* cells left in it
  pc,       \* where each caller is in check()
  client,   \* whom it asks for
  level,    \* history: requests admitted and not yet paid for by time
  refused   \* history: callers whose last request was refused

registry   == <<phase, tiers>>
limiters   == <<size, cells>>
vars       == <<phase, tiers, size, cells, pc, client, level, refused>>

TypeOK ==
  /\ phase   \in {"env", "db", "loaded", "envOnly"}
  /\ tiers   \in [Clients -> Tiers \cup {NoTier}]
  /\ size    \in [Clients -> {0} \cup {Capacity[t] : t \in Tiers}]
  /\ cells   \in [Clients -> Nat] /\ \A c \in Clients : cells[c] <= size[c]
  /\ pc      \in [Callers -> {"idle", "unknown", "recording", "checking"}]
  /\ client  \in [Callers -> Clients]
  /\ level   \in [Clients -> Nat]
  /\ refused \subseteq Callers

Init ==
  /\ phase   = "env"
  /\ tiers   = [c \in Clients |-> NoTier]
  /\ size    = [c \in Clients |-> 0]
  /\ cells   = [c \in Clients |-> 0]
  /\ pc      = [r \in Callers |-> "idle"]
  /\ client  \in [Callers -> Clients]
  /\ level   = [c \in Clients |-> 0]
  /\ refused = {}

---------------------------------------------------------------------------
(* Startup: register() for every entry of the environment, then of the
   table.  Nobody is served before. *)

(* Mutant: an entry does not replace what is registered already. *)
FirstEntry(given, registered) == IF registered = NoTier THEN given ELSE registered

LastEntry(given, registered) == IF given = NoTier THEN registered ELSE given

(* Mutant: a limiter that is there stays. *)
RegisterAllKeepingLimiters(given) ==
  /\ tiers' = [c \in Clients |-> LastEntry(given[c], tiers[c])]
  /\ size'  = [c \in Clients |-> IF given[c] = NoTier \/ size[c] > 0
                                 THEN size[c] ELSE Capacity[tiers'[c]]]
  /\ cells' = size'
  /\ UNCHANGED <<pc, client, level, refused>>

RegisterAll(given) ==
  /\ tiers' = [c \in Clients |-> LastEntry(given[c], tiers[c])]
  /\ size'  = [c \in Clients |-> IF given[c] = NoTier THEN size[c] ELSE Capacity[tiers'[c]]]
  /\ cells' = size'
  /\ UNCHANGED <<pc, client, level, refused>>

LoadEnv == phase = "env" /\ phase' = "db" /\ RegisterAll(EnvTiers)
LoadDb  == phase = "db"  /\ phase' = "loaded" /\ RegisterAll(DbTiers)

(* The table is missing or cannot be read. *)
DbFails ==
  /\ phase = "db" /\ phase' = "envOnly"
  /\ UNCHANGED <<tiers, limiters, pc, client, level, refused>>

---------------------------------------------------------------------------
(* check() *)

Serving == phase \in {"loaded", "envOnly"}

Goes(r, where) == pc' = [pc EXCEPT ![r] = where]

Look(r, c) ==
  /\ Serving /\ pc[r] = "idle"
  /\ Goes(r, IF tiers[c] = NoTier THEN "unknown" ELSE "checking")
  /\ client' = [client EXCEPT ![r] = c]
  /\ UNCHANGED <<registry, limiters, level, refused>>

(* register(), first lock: a new limiter replaces the one there is. *)
InsertLimiter(r) ==
  /\ pc[r] = "unknown"
  /\ size'  = [size  EXCEPT ![client[r]] = Capacity[DefaultTier]]
  /\ cells' = [cells EXCEPT ![client[r]] = Capacity[DefaultTier]]
  /\ Goes(r, "recording")
  /\ UNCHANGED <<registry, client, level, refused>>

(* Mutant: the client is not entered in the registry. *)
InsertNoTier(r) ==
  /\ pc[r] = "recording"
  /\ Goes(r, "checking")
  /\ UNCHANGED <<registry, limiters, client, level, refused>>

(* register(), second lock. *)
InsertTier(r) ==
  /\ pc[r] = "recording"
  /\ tiers' = [tiers EXCEPT ![client[r]] = DefaultTier]
  /\ Goes(r, "checking")
  /\ UNCHANGED <<phase, limiters, client, level, refused>>

(* check_limit(): the limiter is there, which MapsAgree says, so its
   or_insert_with never inserts. *)
Admit(r) ==
  /\ pc[r] = "checking" /\ cells[client[r]] > 0
  /\ cells'   = [cells EXCEPT ![client[r]] = @ - 1]
  /\ level'   = [level EXCEPT ![client[r]] = @ + 1]
  /\ refused' = refused \ {r}
  /\ Goes(r, "idle")
  /\ UNCHANGED <<registry, size, client>>

(* Mutant: a bucket that is asked to refuse its last cell. *)
RefuseLast(r) ==
  /\ pc[r] = "checking" /\ cells[client[r]] <= 1
  /\ refused' = refused \cup {r}
  /\ Goes(r, "idle")
  /\ UNCHANGED <<registry, limiters, client, level>>

Refuse(r) ==
  /\ pc[r] = "checking" /\ cells[client[r]] = 0
  /\ refused' = refused \cup {r}
  /\ Goes(r, "idle")
  /\ UNCHANGED <<registry, limiters, client, level>>

(* Mutant: time fills the bucket without limit. *)
Overfilled(n, most) == n + 1

Refilled(n, most) == IF n < most THEN n + 1 ELSE n

(* As much time goes by as brings back one cell of c's limiter. *)
Refill(c) ==
  /\ size[c] > 0
  /\ cells' = [cells EXCEPT ![c] = Refilled(@, size[c])]
  /\ level' = [level EXCEPT ![c] = IF @ > 0 THEN @ - 1 ELSE 0]
  /\ UNCHANGED <<registry, size, pc, client, refused>>

Next ==
  \/ LoadEnv \/ LoadDb \/ DbFails
  \/ \E r \in Callers, c \in Clients : Look(r, c)
  \/ \E r \in Callers : InsertLimiter(r) \/ InsertTier(r) \/ Admit(r) \/ Refuse(r)
  \/ \E c \in Clients : Refill(c)

Spec == Init /\ [][Next]_vars

---------------------------------------------------------------------------
(* What the limiter must guarantee. *)

(* The tier that was set for c, where it could be read: the table's rather
   than the environment's. *)
TierSet(c) ==
  IF phase = "loaded" /\ DbTiers[c] # NoTier THEN DbTiers[c] ELSE EnvTiers[c]

(* The two maps agree although they are written under different locks: a
   registered client has a limiter, of its tier's capacity. *)
MapsAgree == \A c \in Clients : tiers[c] # NoTier => size[c] = Capacity[tiers[c]]

(* A request is refused only if its client has used up its rate. *)
RefusedOnlyOverRate ==
  [][\A r \in Callers :
       r \in refused' /\ pc[r] = "checking" /\ pc'[r] = "idle" =>
         level[client[r]] >= Capacity[tiers[client[r]]]]_vars

(* A configured client gets no more at once than the capacity of its tier;
   any other at most that much for each of the requests that were the first
   to come and raced to register it, each with a bucket of its own. *)
BurstBounded ==
  \A c \in Clients :
    level[c] <= size[c] * (IF TierSet(c) # NoTier THEN 1 ELSE Cardinality(Callers))

(* A configured client is served at the tier that was set for it, and a race
   to register clients at the default tier never changes that. *)
TierAsConfigured ==
  Serving => \A c \in Clients : TierSet(c) # NoTier => tiers[c] = TierSet(c)
=============================================================================
