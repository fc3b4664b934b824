------------------------------ MODULE MCRecords ------------------------------
(***************************************************************************)
(* Records for TLC: a cached answer, to the same client or to another one, *)
(* and two requests whose prompts continue it in a chain, each near the    *)
(* next, or are the same; one of them with a shadow model; and a stream.   *)
(* Every cost is another power of two, so that no two sets of rows cost    *)
(* the same.                                                               *)
(***************************************************************************)
EXTENDS Records, TLC

CONSTANTS p0, p1, p2, s1

Asked(client, text) == [client |-> client, model |-> "auto", text |-> text]

MCPast     == {p0}
MCEvents   == {p1, p2}
MCStreams  == {s1}
MCShadowed == {p1}
MCAsks == p0 :> {Asked("alice", 1), Asked("bob", 2)}
          @@ p1 :> {Asked("alice", 2)}
          @@ p2 :> {Asked("alice", 2), Asked("alice", 3)}
MCCostOfCall == p1 :> 1 @@ p2 :> 2 @@ s1 :> 4
MCShadowCost == p1 :> 8
=============================================================================
