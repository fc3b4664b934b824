------------------------- MODULE ConcurrencyLimiter -------------------------
(***************************************************************************)
(* ConcurrencyLimiter (src/concurrency.rs): a fair semaphore that bounds   *)
(* the provider calls in flight.  A returned permit goes straight to the   *)
(* first waiter, so a permit is free only while nobody waits.              *)
(***************************************************************************)
EXTENDS Integers, Sequences, FiniteSets

CONSTANTS
  Waiters,        \* requests that may ask for a permit
  MaxConcurrent   \* ConcurrencyLimiter.max: new() makes it at least 1

VARIABLES
  available,  \* free permits
  queue,      \* waiters, first come first
  permits     \* the waiters that own a permit, polled or not

vars == <<available, queue, permits>>

Queued == {queue[i] : i \in 1 .. Len(queue)}

TypeOK ==
  /\ available \in 0 .. MaxConcurrent
  /\ queue     \in Seq(Waiters)
  /\ permits   \subseteq Waiters

Init ==
  /\ available = MaxConcurrent
  /\ queue     = << >>
  /\ permits   = {}

Acquire(r) ==
  /\ r \notin permits \cup Queued
  /\ IF available > 0
     THEN /\ available' = available - 1
          /\ permits'   = permits \cup {r}
          /\ UNCHANGED queue
     ELSE /\ queue' = Append(queue, r)
          /\ UNCHANGED <<available, permits>>

(* The permit is dropped. *)
Release(r) ==
  /\ r \in permits
  /\ IF queue = << >>
     THEN /\ available' = available + 1
          /\ permits'   = permits \ {r}
          /\ UNCHANGED queue
     ELSE /\ permits' = (permits \ {r}) \cup {Head(queue)}
          /\ queue'   = Tail(queue)
          /\ UNCHANGED available

(* The future that waits for a permit is dropped: it is taken out of the list. *)
GiveUp(r) ==
  /\ \E i \in 1 .. Len(queue) :
       /\ queue[i] = r
       /\ queue' = SubSeq(queue, 1, i - 1) \o SubSeq(queue, i + 1, Len(queue))
  /\ UNCHANGED <<available, permits>>

Next == \E r \in Waiters : Acquire(r) \/ Release(r) \/ GiveUp(r)

Spec == Init /\ [][Next]_vars

(* No permit is lost or made up, and none is free while somebody waits. *)
PermitsConserved ==
  /\ available + Cardinality(permits) = MaxConcurrent
  /\ queue # << >> => available = 0
=============================================================================
