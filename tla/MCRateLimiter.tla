--------------------------- MODULE MCRateLimiter ----------------------------
(***************************************************************************)
(* RateLimiter for TLC: a client that is configured twice, and one that is *)
(* configured in the table only.                                           *)
(***************************************************************************)
EXTENDS RateLimiter

CONSTANTS alice, bob, free, pro

MCCapacity == [t \in Tiers |-> IF t = free THEN 1 ELSE 2]
MCEnvTiers == [c \in Clients |-> IF c = alice THEN pro ELSE NoTier]
MCDbTiers  == [c \in Clients |-> free]
=============================================================================
