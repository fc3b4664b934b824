------------------------------ MODULE Gateway -------------------------------
(***************************************************************************)
(* The life of a request between its budget reservation and its            *)
(* settlement: src/main.rs for a plain (non-streaming) request and for the *)
(* shadow call it may spawn, src/streaming.rs for a stream and its audit   *)
(* task.  It composes SpendGuard, whose operations it performs on spent    *)
(* and elapsed, and ConcurrencyLimiter, whose operations it performs on    *)
(* available, queue and permits.                                           *)
(*                                                                         *)
(* Every request is executed once.  What precedes the reservation (rate    *)
(* limiter, loop guard, cache, routing) shows as TurnAway.  The circuit    *)
(* breaker shows as one more way for a call to fail.                       *)
(***************************************************************************)
EXTENDS Integers, Sequences, FiniteSets

CONSTANTS
  Plain,          \* requests of handle_non_streaming
  Shadows,        \* tasks of maybe_fire_shadow_request
  Streams,        \* requests of handle_streaming
  ShadowsOf,      \* the shadow call a plain request asks for, as a set
  Clients,
  ClientOf,       \* the rl_key of each request
  EstimateOf,     \* the estimated cost of each request, in cents
  Costs, MaxCents, Window, MaxConcurrent

Requests == Plain \cup Shadows \cup Streams

ASSUME KindAssumption ==
  /\ Plain \cap Shadows = {} /\ Plain \cap Streams = {} /\ Shadows \cap Streams = {}
  /\ ShadowsOf  \in [Plain -> SUBSET Shadows]
  /\ \A p, q \in Plain : p # q => ShadowsOf[p] \cap ShadowsOf[q] = {}
  /\ ClientOf   \in [Requests -> Clients]
  /\ EstimateOf \in [Requests -> Costs]
ASSUME PermitAssumption == MaxConcurrent \in Nat \ {0}
ASSUME MoneyAssumption == Costs \subseteq Nat /\ MaxCents \in Nat /\ Window \in Nat

VARIABLES
  spent, elapsed,              \* SpendGuard
  available, queue, permits,   \* ConcurrencyLimiter
  pc,       \* where each request is
  audit,    \* the audit channel of each stream: none, open, sent, dropped or closed
  fate,     \* history: what became of each reservation
  reach     \* history: how far the provider got with each request

guardVars == <<spent, elapsed>>
poolVars  == <<available, queue, permits>>
vars      == <<spent, elapsed, available, queue, permits, pc, audit, fate, reach>>

Held == {r \in Requests : fate[r] = "held"}

Guard == INSTANCE SpendGuard WITH held <- Held, owner <- ClientOf, estimate <- EstimateOf
Pool  == INSTANCE ConcurrencyLimiter WITH Waiters <- Requests

TypeOK ==
  /\ Guard!TypeOK
  /\ Pool!TypeOK
  /\ pc \in [Requests -> {"absent", "new", "reserved", "opened", "waiting", "calling",
                          "streaming", "ending", "over"}]
  /\ audit \in [Streams -> {"none", "open", "sent", "dropped", "closed"}]
  /\ fate  \in [Requests -> {"none", "held", "reconciled", "released", "lost"}]
  /\ reach \in [Requests -> {"nothing", "called", "answered"}]

Init ==
  /\ spent   = [c \in Clients |-> 0]
  /\ elapsed = [c \in Clients |-> Guard!NoWindow]
  /\ Pool!Init
  /\ pc    = [r \in Requests |-> IF r \in Shadows THEN "absent" ELSE "new"]
  /\ audit = [t \in Streams |-> "none"]
  /\ fate  = [r \in Requests |-> "none"]
  /\ reach = [r \in Requests |-> "nothing"]

Go(r, where)       == pc' = [pc EXCEPT ![r] = where]
Reaches(r, far)    == reach' = [reach EXCEPT ![r] = far]
AuditBecomes(t, s) == audit' = [audit EXCEPT ![t] = s]

(* reconcile and release: nothing in them asks whether the reservation is
   still held. *)
Reconcile(r, actual, becomes) ==
  LET c == ClientOf[r] IN
  /\ spent' = [spent EXCEPT ![c] = Guard!Adjusted(c, EstimateOf[r], actual)]
  /\ fate'  = [fate EXCEPT ![r] = becomes]
  /\ UNCHANGED elapsed

Charge(r, actual) == Reconcile(r, actual, "reconciled")
Refund(r)         == Reconcile(r, 0, "released")

(* A dropped future gives back its permit or its place in the queue. *)
DropPlace(r) ==
  IF r \in permits THEN Pool!Release(r)
  ELSE IF r \in Pool!Queued THEN Pool!GiveUp(r)
  ELSE UNCHANGED poolVars

---------------------------------------------------------------------------
(* Steps that all kinds of request have. *)

(* Turned away before any budget is touched; for a shadow call, an unknown
   model or a missing key. *)
TurnAway(r) ==
  /\ pc[r] = "new"
  /\ Go(r, "over")
  /\ UNCHANGED <<guardVars, poolVars, audit, fate, reach>>

(* try_reserve, granted or refused. *)
Reserve(r) ==
  LET c == ClientOf[r]
      e == EstimateOf[r]
  IN  /\ pc[r] = "new"
      /\ Guard!EnterWindow(c)
      /\ \/ /\ Guard!Fits(c, e)
            /\ spent' = [spent EXCEPT ![c] = Guard!TotalReserved(c, e)]
            /\ fate'  = [fate EXCEPT ![r] = "held"]
            /\ Go(r, "reserved")
         \/ /\ ~Guard!Fits(c, e)
            /\ spent' = [spent EXCEPT ![c] = Guard!Total(c)]
            /\ Go(r, "over")
            /\ UNCHANGED fate
      /\ UNCHANGED <<poolVars, audit, reach>>

(* resolve_byok_route finds no key.  A shadow call asks before it reserves. *)
NoRoute(r) ==
  /\ pc[r] = "reserved" /\ r \notin Shadows
  /\ Refund(r)
  /\ Go(r, "over")
  /\ UNCHANGED <<poolVars, audit, reach>>

StartCall(r) ==
  /\ pc[r] = "waiting" /\ r \in permits
  /\ Go(r, "calling")
  /\ Reaches(r, "called")
  /\ UNCHANGED <<guardVars, poolVars, audit, fate>>

---------------------------------------------------------------------------
(* Plain requests and shadow calls. *)

AskPermit(r) ==
  /\ pc[r] = "reserved" /\ r \notin Streams
  /\ Pool!Acquire(r)
  /\ Go(r, "waiting")
  /\ UNCHANGED <<guardVars, audit, fate, reach>>

SpawnedBy(r) == IF r \in Plain THEN ShadowsOf[r] ELSE {}

(* The answer is charged and, for a plain request, the shadow task spawned;
   there is no await from here to the return, which drops the permit. *)
CallSucceeds(r, actual) ==
  /\ pc[r] = "calling" /\ r \notin Streams
  /\ Charge(r, actual)
  /\ pc' = [q \in Requests |-> IF q = r THEN "ending"
                              ELSE IF q \in SpawnedBy(r) THEN "new" ELSE pc[q]]
  /\ Reaches(r, "answered")
  /\ UNCHANGED <<poolVars, audit>>

(* Any ConnectorError, CircuitOpen among them. *)
CallFails(r) ==
  /\ pc[r] = "calling" /\ r \notin Streams
  /\ Refund(r)
  /\ Go(r, "ending")
  /\ UNCHANGED <<poolVars, audit, reach>>

(* Mutant: the error path releases once more on its way out. *)
ReturnReleasingAgain(r) ==
  /\ pc[r] = "ending" /\ r \notin Streams
  /\ IF fate[r] = "released" THEN Refund(r) ELSE UNCHANGED <<guardVars, fate>>
  /\ Pool!Release(r)
  /\ Go(r, "over")
  /\ UNCHANGED <<audit, reach>>

(* Mutant: the handler awaits the shadow call it spawned, permit in hand. *)
ReturnAfterShadow(r) ==
  /\ pc[r] = "ending" /\ r \notin Streams
  /\ \A s \in SpawnedBy(r) : pc[s] \in {"absent", "over"}
  /\ Pool!Release(r)
  /\ Go(r, "over")
  /\ UNCHANGED <<guardVars, audit, fate, reach>>

Return(r) ==
  /\ pc[r] = "ending" /\ r \notin Streams
  /\ Pool!Release(r)
  /\ Go(r, "over")
  /\ UNCHANGED <<guardVars, audit, fate, reach>>

(* Mutant: a cancelled call does not give its permit back. *)
CancelKeepingPermit(r) ==
  /\ pc[r] \in {"waiting", "calling"}
  /\ Go(r, "over")
  /\ fate' = [fate EXCEPT ![r] = "lost"]
  /\ UNCHANGED <<guardVars, poolVars, audit, reach>>

(* The client goes away, or the TimeoutLayer gives up, while the handler
   awaits its permit or the provider: the future is dropped, and nothing on
   the way settles the reservation.  Shadow tasks are spawned and go on. *)
Cancel(r) ==
  /\ pc[r] \in {"waiting", "calling"}
  /\ DropPlace(r)
  /\ Go(r, "over")
  /\ fate' = [fate EXCEPT ![r] = "lost"]
  /\ UNCHANGED <<guardVars, audit, reach>>

---------------------------------------------------------------------------
(* Streams: the generator that serves the client, and the audit task. *)

OpenStream(t) ==
  /\ pc[t] = "reserved"
  /\ Go(t, "opened")
  /\ AuditBecomes(t, "open")
  /\ UNCHANGED <<guardVars, poolVars, fate, reach>>

PollStream(t) ==
  /\ pc[t] = "opened"
  /\ Pool!Acquire(t)
  /\ Go(t, "waiting")
  /\ UNCHANGED <<guardVars, audit, fate, reach>>

(* The send fails or the status is not 2xx: an error event, then the end. *)
StreamFails(t) ==
  /\ pc[t] = "calling"
  /\ Go(t, "ending")
  /\ UNCHANGED <<guardVars, poolVars, audit, fate, reach>>

StreamAnswers(t) ==
  /\ pc[t] = "calling"
  /\ Go(t, "streaming")
  /\ Reaches(t, "answered")
  /\ UNCHANGED <<guardVars, poolVars, audit, fate>>

(* [DONE], message_stop, the end of the body or a read error. *)
StreamSends(t) ==
  /\ pc[t] = "streaming"
  /\ Go(t, "ending")
  /\ AuditBecomes(t, "sent")
  /\ UNCHANGED <<guardVars, poolVars, fate, reach>>

(* The generator is over or dropped, and its audit_tx and permit with it. *)
DropGenerator(t) ==
  /\ DropPlace(t)
  /\ AuditBecomes(t, IF audit[t] = "open" THEN "dropped" ELSE audit[t])
  /\ Go(t, "over")
  /\ UNCHANGED <<guardVars, fate, reach>>

StreamReturns(t) == pc[t] = "ending" /\ DropGenerator(t)

Disconnect(t) ==
  /\ pc[t] \in {"opened", "waiting", "calling", "streaming"}
  /\ DropGenerator(t)

AuditCharges(t, actual) ==
  /\ audit[t] = "sent"
  /\ Charge(t, actual)
  /\ AuditBecomes(t, "closed")
  /\ UNCHANGED <<poolVars, pc, reach>>

(* Mutant: the audit task without its else branch. *)
AuditForgets(t) ==
  /\ audit[t] = "dropped"
  /\ AuditBecomes(t, "closed")
  /\ UNCHANGED <<guardVars, fate, poolVars, pc, reach>>

AuditReleases(t) ==
  /\ audit[t] = "dropped"
  /\ Refund(t)
  /\ AuditBecomes(t, "closed")
  /\ UNCHANGED <<poolVars, pc, reach>>

---------------------------------------------------------------------------

Tick == UNCHANGED <<poolVars, pc, audit, fate, reach>> /\ Guard!Tick

Call(r) ==
  \/ \E a \in Costs : CallSucceeds(r, a)
  \/ CallFails(r)

Stream(t) ==
  \/ OpenStream(t) \/ PollStream(t)
  \/ StreamFails(t) \/ StreamAnswers(t) \/ StreamSends(t) \/ StreamReturns(t)
  \/ Disconnect(t)

Audit(t) ==
  \/ \E a \in Costs \cup {0} : AuditCharges(t, a)
  \/ AuditReleases(t)

Next ==
  \/ \E r \in Requests :
       TurnAway(r) \/ Reserve(r) \/ NoRoute(r) \/ AskPermit(r) \/ StartCall(r)
         \/ Call(r) \/ Return(r)
  \/ \E p \in Plain : Cancel(p)
  \/ \E t \in Streams : Stream(t) \/ Audit(t)
  \/ Tick

Spec == Init /\ [][Next]_vars

(* The runtime polls every task that can run, and the connectors' HTTP client
   times out, so a call ends.  Nothing ends a stream: its client has no timeout
   and its upstream may stay silent. *)
Fairness ==
  /\ \A r \in Requests :
       /\ WF_vars(NoRoute(r) \/ AskPermit(r))
       /\ WF_vars(StartCall(r))
       /\ WF_vars(Call(r))
       /\ WF_vars(Return(r))
  /\ \A t \in Streams : WF_vars(OpenStream(t)) /\ WF_vars(Audit(t))

FairSpec == Spec /\ Fairness

---------------------------------------------------------------------------
(* What the gateway must guarantee. *)

(* No reservation is settled twice, or settled without being held, whatever
   the order in which handlers, shadow tasks, generators and audit tasks run:
   to the guard they are holders as SpendGuard assumes them. *)
SettledOnce == Guard!Spec

(* A permit is held by a live request that was admitted and by nobody else,
   no call is in flight without one, and none is lost when a call fails, is
   cancelled or disconnects; so at most MaxConcurrent calls are in flight. *)
PermitsSound ==
  /\ Pool!PermitsConserved
  /\ \A r \in permits : pc[r] \in {"waiting", "calling", "streaming", "ending"}
  /\ \A r \in Requests : pc[r] \in {"calling", "streaming", "ending"} => r \in permits
  /\ \A r \in Requests : pc[r] = "waiting" => r \in permits \cup Pool!Queued

(* Once the generator of a stream is gone, however it went, the audit task
   settles the reservation. *)
StreamSettles ==
  \A t \in Streams :
    fate[t] = "held" /\ pc[t] = "over" ~> fate[t] \in {"reconciled", "released"}

(* Whoever waits for a permit gets one, unless streams that never end hold
   every permit for ever.  In particular a plain request and the shadow call
   it spawns never wait for each other. *)
ServedUnlessStreamsHoldAll ==
  \/ <>[](Cardinality(permits \cap Streams) = MaxConcurrent)
  \/ \A r \in Requests : pc[r] = "waiting" ~> pc[r] # "waiting"

(* A reservation is given up unsettled only by a request whose provider may
   have been called: "released once the fact that no call happened is known". *)
LostOnlyIfCalled == \A r \in Requests : fate[r] = "lost" => reach[r] # "nothing"

(* A stream the provider has begun to answer is not released as if nothing
   had happened. *)
NoFreeStream ==
  \A t \in Streams : reach[t] = "answered" => fate[t] # "released"
=============================================================================
