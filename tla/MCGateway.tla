------------------------------ MODULE MCGateway -----------------------------
(***************************************************************************)
(* Gateway for TLC: a plain request with a shadow call, a second plain     *)
(* request and a stream, all of one client.                                *)
(***************************************************************************)
EXTENDS Gateway

CONSTANTS plain1, plain2, shadow1, stream1, alice

MCShadowsOf  == [p \in Plain |-> IF p = plain1 THEN {shadow1} ELSE {}]
MCClientOf   == [r \in Requests |-> alice]
MCEstimateOf == [r \in Requests |-> IF r \in Streams THEN 2 ELSE 1]
=============================================================================
