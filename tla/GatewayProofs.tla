--------------------------- MODULE GatewayProofs ----------------------------
(***************************************************************************)
(* Proofs about Gateway for any requests of the three kinds, any number of *)
(* permits and any costs: its types, that permits are sound and bound the  *)
(* calls, that reservations are settled once and that none is left behind. *)
(* A permit is taken, queued for and given back by three operations of the *)
(* pool; what they do to who holds and who waits is proved first.          *)
(***************************************************************************)
EXTENDS Gateway, FiniteSetTheorems, SequenceTheorems, TLAPS

USE PermitAssumption DEF PermitAssumption

Queued == {queue[i] : i \in 1..Len(queue)}

PoolInv ==
  /\ Pool!TypeOK /\ Pool!PermitsConserved
  /\ IsFiniteSet(permits)
  /\ \A i, j \in 1..Len(queue) : queue[i] = queue[j] => i = j
  /\ permits \cap Queued = {}

(* The pool counts as the gateway does. *)
LEMMA SameCard == \A S : Pool!Cardinality(S) = Cardinality(S)
BY DEF Pool!Cardinality, Cardinality

LEMMA PoolType ==
  ASSUME PoolInv
  PROVE  /\ available \in Nat /\ queue \in Seq(Requests) /\ Len(queue) \in Nat
         /\ permits \subseteq Requests /\ Queued \subseteq Requests
         /\ Cardinality(permits) \in Nat /\ available + Cardinality(permits) = MaxConcurrent
         /\ Pool!Queued = Queued
<1>1. /\ available \in 0..MaxConcurrent /\ queue \in Seq(Requests) /\ permits \subseteq Requests
      /\ available + Cardinality(permits) = MaxConcurrent
  BY SameCard DEF PoolInv, Pool!TypeOK, Pool!PermitsConserved
<1>2. Cardinality(permits) \in Nat
  BY FS_CardinalityType DEF PoolInv
<1>3. Len(queue) \in Nat /\ Queued \subseteq Requests
  BY <1>1 DEF Queued
<1>4. QED
  BY <1>1, <1>2, <1>3 DEF Queued, Pool!Queued

(* Conservation is all the arithmetic the pool needs. *)
LEMMA PoolStep ==
  ASSUME PoolInv, available' \in Int, queue' \in Seq(Requests), permits' \subseteq Requests,
         IsFiniteSet(permits'),
         available' + Cardinality(permits') = MaxConcurrent, available' >= 0,
         queue' # <<>> => available' = 0
  PROVE  Pool!TypeOK' /\ Pool!PermitsConserved'
<1>1. Cardinality(permits') \in Nat
  BY FS_CardinalityType
<1>2. available' \in 0..MaxConcurrent
  BY <1>1
<1>3. QED
  <2>1. Pool!Cardinality(permits') = Cardinality(permits')
    BY SameCard
  <2>2. QED
    BY <1>2, <2>1 DEF Pool!TypeOK, Pool!PermitsConserved

LEMMA AcquirePool ==
  ASSUME PoolInv, NEW r \in Requests, Pool!Acquire(r)
  PROVE  /\ PoolInv'
         /\ permits \subseteq permits' /\ Queued \subseteq Queued'
         /\ Queued' \subseteq Queued \cup {r}
         /\ permits' \cup Queued' = (permits \cup Queued) \cup {r}
<1>1. r \notin permits /\ r \notin Queued
  BY PoolType DEF Pool!Acquire
<1>2. CASE available > 0
  <2>1. available' = available - 1 /\ permits' = permits \cup {r} /\ queue' = queue
    BY <1>2 DEF Pool!Acquire
  <2>2. IsFiniteSet(permits') /\ Cardinality(permits') = Cardinality(permits) + 1
    BY <1>1, <2>1, FS_AddElement DEF PoolInv
  <2>3. Queued' = Queued
    BY <2>1 DEF Queued
  <2>4. queue = <<>>
    BY <1>2 DEF PoolInv, Pool!PermitsConserved
  <2>5. Pool!TypeOK' /\ Pool!PermitsConserved'
    BY <1>2, <2>1, <2>2, <2>4, PoolType, PoolStep
  <2>6. QED
    BY <1>1, <2>1, <2>2, <2>3, <2>5 DEF PoolInv
<1>3. CASE ~(available > 0)
  <2>1. available' = available /\ permits' = permits /\ queue' = Append(queue, r)
    BY <1>3 DEF Pool!Acquire
  <2>2. /\ queue' \in Seq(Requests) /\ Len(queue') = Len(queue) + 1
        /\ queue'[Len(queue) + 1] = r
        /\ \A i \in 1..Len(queue) : queue'[i] = queue[i]
    BY <2>1, PoolType
  <2>3. Queued' = Queued \cup {r}
    <3>1. 1..Len(queue') = (1..Len(queue)) \cup {Len(queue) + 1}
      BY <2>2, PoolType
    <3>2. QED
      BY <2>2, <3>1 DEF Queued
  <2>4. \A i, j \in 1..Len(queue') : queue'[i] = queue'[j] => i = j
    <3>1. \A i \in 1..Len(queue) : queue[i] # r
      BY <1>1 DEF Queued
    <3>2. \A i \in 1..Len(queue') : i \in 1..Len(queue) \/ i = Len(queue) + 1
      BY <2>2, PoolType
    <3>3. QED
      BY <2>2, <3>1, <3>2 DEF PoolInv
  <2>5. Pool!TypeOK' /\ Pool!PermitsConserved'
    BY <1>3, <2>1, <2>2, PoolType, PoolStep DEF PoolInv
  <2>6. QED
    BY <1>1, <2>1, <2>3, <2>4, <2>5 DEF PoolInv
<1>4. QED
  BY <1>2, <1>3

(* A permit that is given back goes to the first who waits. *)
LEMMA ReleasePool ==
  ASSUME PoolInv, NEW r \in Requests, Pool!Release(r)
  PROVE  /\ PoolInv'
         /\ permits \ {r} \subseteq permits' /\ Queued' \subseteq Queued
         /\ permits' \cup Queued' = (permits \cup Queued) \ {r}
<1>1. r \in permits /\ r \notin Queued
  BY DEF Pool!Release, PoolInv
<1>2. /\ IsFiniteSet(permits \ {r})
      /\ Cardinality(permits \ {r}) = Cardinality(permits) - 1
  BY <1>1, FS_RemoveElement DEF PoolInv
<1>3. CASE queue = <<>>
  <2>1. available' = available + 1 /\ permits' = permits \ {r} /\ queue' = queue
    BY <1>3 DEF Pool!Release
  <2>2. Queued' = Queued
    BY <2>1 DEF Queued
  <2>3. Cardinality(permits') \in Nat
    BY <1>2, <2>1, FS_CardinalityType
  <2>4. Pool!TypeOK' /\ Pool!PermitsConserved'
    BY <1>2, <1>3, <2>1, <2>3, PoolType, PoolStep
  <2>5. QED
    BY <1>1, <1>2, <2>1, <2>2, <2>4 DEF PoolInv
<1>4. CASE queue # <<>>
  <2> DEFINE h == Head(queue)
  <2>1. available' = available /\ permits' = (permits \ {r}) \cup {h} /\ queue' = Tail(queue)
    BY <1>4 DEF Pool!Release
  <2>2. /\ Len(queue) > 0 /\ h = queue[1] /\ h \in Queued /\ h \in Requests
        /\ queue' \in Seq(Requests) /\ Len(queue') = Len(queue) - 1
        /\ \A i \in 1..Len(queue') : queue'[i] = queue[i + 1]
    BY <1>4, <2>1, PoolType DEF Queued
  <2> HIDE DEF h
  <2>3. Queued' = Queued \ {h}
    <3>1. \A q \in Queued' : q \in Queued /\ q # h
      BY <2>2, PoolType, SMTT(30) DEF Queued, PoolInv
    <3>2. \A q \in Queued \ {h} : q \in Queued'
      <4>1. TAKE q \in Queued \ {h}
      <4>2. PICK i \in 1..Len(queue) : queue[i] = q
        BY DEF Queued
      <4>3. i - 1 \in 1..Len(queue') /\ queue'[i - 1] = q
        BY <2>2, <4>2, PoolType
      <4>4. QED
        BY <4>3 DEF Queued
    <3>3. QED
      BY <3>1, <3>2
  <2>4. \A i, j \in 1..Len(queue') : queue'[i] = queue'[j] => i = j
    BY <2>2, PoolType DEF PoolInv
  <2>5. h \notin permits
    BY <2>2 DEF PoolInv
  <2>6. IsFiniteSet(permits') /\ Cardinality(permits') = Cardinality(permits)
    <3>1. IsFiniteSet(permits') /\ Cardinality(permits') = Cardinality(permits \ {r}) + 1
      BY <1>2, <2>1, <2>5, FS_AddElement
    <3>2. QED
      BY <1>2, <3>1, PoolType
  <2>7. Pool!TypeOK' /\ Pool!PermitsConserved'
    <3>1. available = 0
      BY <1>4 DEF PoolInv, Pool!PermitsConserved
    <3>2. QED
      BY <1>1, <2>1, <2>2, <2>6, <3>1, PoolType, PoolStep
  <2>8. QED
    BY <1>1, <2>1, <2>2, <2>3, <2>4, <2>5, <2>6, <2>7 DEF PoolInv
<1>5. QED
  BY <1>3, <1>4

LEMMA GiveUpPool ==
  ASSUME PoolInv, NEW r \in Requests, Pool!GiveUp(r)
  PROVE  PoolInv' /\ permits' = permits /\ Queued' = Queued \ {r}
<1>1. PICK i \in 1..Len(queue) :
        queue[i] = r /\ queue' = SubSeq(queue, 1, i - 1) \o SubSeq(queue, i + 1, Len(queue))
  BY DEF Pool!GiveUp
<1>2. available' = available /\ permits' = permits
  BY DEF Pool!GiveUp
<1>3. /\ queue' \in Seq(Requests) /\ Len(queue') = Len(queue) - 1
      /\ \A k \in 1..Len(queue') : queue'[k] = IF k < i THEN queue[k] ELSE queue[k + 1]
  <2> DEFINE a == SubSeq(queue, 1, i - 1)
             b == SubSeq(queue, i + 1, Len(queue))
  <2>1. /\ a \in Seq(Requests) /\ Len(a) = i - 1
        /\ \A k \in 1..(i - 1) : a[k] = queue[k]
    BY PoolType
  <2>2. /\ b \in Seq(Requests) /\ Len(b) = Len(queue) - i
        /\ \A k \in 1..(Len(queue) - i) : b[k] = queue[k + i]
    BY PoolType
  <2> HIDE DEF a, b
  <2>3. queue' = a \o b
    BY <1>1 DEF a, b
  <2>4. /\ queue' \in Seq(Requests) /\ Len(queue') = Len(a) + Len(b)
        /\ \A k \in 1..(Len(a) + Len(b)) :
              queue'[k] = IF k <= Len(a) THEN a[k] ELSE b[k - Len(a)]
    <3>1. a \in Seq(Requests) /\ b \in Seq(Requests)
      BY <2>1, <2>2
    <3>2. /\ a \o b \in Seq(Requests) /\ Len(a \o b) = Len(a) + Len(b)
          /\ \A k \in 1..(Len(a) + Len(b)) :
                (a \o b)[k] = IF k <= Len(a) THEN a[k] ELSE b[k - Len(a)]
      BY ONLY <3>1, ConcatProperties
    <3>3. QED
      BY <2>3, <3>2, Zenon
  <2>5. Len(queue') = Len(queue) - 1
    BY <2>1, <2>2, <2>4, PoolType
  <2>6. ASSUME NEW k \in 1..Len(queue')
        PROVE  queue'[k] = IF k < i THEN queue[k] ELSE queue[k + 1]
    <3>1. CASE k < i
      <4>1. k \in 1..(i - 1) /\ k <= Len(a) /\ k \in 1..(Len(a) + Len(b))
        BY <2>1, <2>2, <2>5, <3>1, PoolType
      <4>2. QED
        BY <2>1, <2>4, <3>1, <4>1
    <3>2. CASE ~(k < i)
      <4>1. /\ k - Len(a) \in 1..(Len(queue) - i) /\ ~(k <= Len(a))
            /\ k \in 1..(Len(a) + Len(b)) /\ (k - Len(a)) + i = k + 1
        BY <2>1, <2>2, <2>5, <3>2, PoolType
      <4>2. queue'[k] = b[k - Len(a)]
        BY <2>4, <4>1
      <4>3. b[k - Len(a)] = queue[(k - Len(a)) + i]
        BY <2>2, <4>1
      <4>4. QED
        BY <3>2, <4>1, <4>2, <4>3
    <3>3. QED
      BY <3>1, <3>2
  <2>7. QED
    BY <2>4, <2>5, <2>6
<1>4. ASSUME NEW k \in 1..Len(queue'), NEW l \in 1..Len(queue'), queue'[k] = queue'[l]
      PROVE  k = l
  <2> DEFINE At(n) == IF n < i THEN n ELSE n + 1
  <2>1. At(k) \in 1..Len(queue) /\ At(l) \in 1..Len(queue)
    BY <1>3, PoolType
  <2>2. queue'[k] = queue[At(k)] /\ queue'[l] = queue[At(l)]
    BY <1>3
  <2>3. At(k) = At(l)
    <3> HIDE DEF At
    <3>1. QED
      BY <1>4, <2>1, <2>2 DEF PoolInv
  <2>4. QED
    BY <1>3, <2>3, PoolType
<1>5. Queued' = Queued \ {r}
  <2>1. ASSUME NEW k \in 1..Len(queue')
        PROVE  queue'[k] \in Queued /\ queue'[k] # r
    <3>1. PICK j \in 1..Len(queue) : j # i /\ queue'[k] = queue[j]
      <4>1. CASE k < i
        BY <1>3, <4>1, PoolType
      <4>2. CASE ~(k < i)
        <5>1. k + 1 \in 1..Len(queue) /\ k + 1 # i /\ queue'[k] = queue[k + 1]
          BY <1>3, <4>2, PoolType
        <5>2. QED
          BY <5>1
      <4>3. QED
        BY <4>1, <4>2
    <3>2. QED
      BY <1>1, <3>1 DEF Queued, PoolInv
  <2>2. \A q \in Queued \ {r} : q \in Queued'
    <3>1. TAKE q \in Queued \ {r}
    <3>2. PICK k \in 1..Len(queue) : queue[k] = q
      BY DEF Queued
    <3>3. k # i
      BY <1>1, <3>2
    <3>4. \/ k \in 1..Len(queue') /\ queue'[k] = q
          \/ k - 1 \in 1..Len(queue') /\ queue'[k - 1] = q
      BY <1>3, <3>2, <3>3, PoolType
    <3>5. QED
      BY <3>4 DEF Queued
  <2>3. QED
    BY <2>1, <2>2 DEF Queued
<1>6. Pool!TypeOK' /\ Pool!PermitsConserved'
  <2>1. queue # <<>>
    BY <1>1, PoolType
  <2>2. QED
    BY <1>2, <1>3, <2>1, PoolType, PoolStep DEF PoolInv, Pool!PermitsConserved
<1>7. QED
  BY <1>2, <1>4, <1>5, <1>6 DEF PoolInv

LEMMA IdlePool ==
  ASSUME PoolInv, UNCHANGED poolVars
  PROVE  PoolInv' /\ permits' = permits /\ Queued' = Queued
BY DEF PoolInv, poolVars, Queued, Pool!TypeOK, Pool!PermitsConserved

LEMMA DropPlacePool ==
  ASSUME PoolInv, NEW r \in Requests, DropPlace(r)
  PROVE  /\ PoolInv' /\ Queued' \subseteq Queued
         /\ permits' \cup Queued' = (permits \cup Queued) \ {r}
<1>1. CASE r \in permits
  BY <1>1, ReleasePool DEF DropPlace
<1>2. CASE r \notin permits /\ r \in Queued
  BY <1>2, GiveUpPool, PoolType DEF DropPlace
<1>3. CASE r \notin permits /\ r \notin Queued
  BY <1>3, IdlePool, PoolType DEF DropPlace
<1>4. QED
  BY <1>1, <1>2, <1>3

---------------------------------------------------------------------------
(* Where a request is, and its place in the pool. *)

HasPlace == {"waiting", "calling", "streaming", "ending"}

Places ==
  /\ \A r \in Requests : r \in permits \cup Queued <=> pc[r] \in HasPlace
  /\ \A r \in Queued : pc[r] = "waiting"

LocalTypeOK ==
  /\ pc    \in [Requests -> {"absent", "new", "reserved", "opened", "waiting", "calling",
                             "streaming", "ending", "over"}]
  /\ audit \in [Streams -> {"none", "open", "sent", "dropped", "closed"}]
  /\ fate  \in [Requests -> {"none", "held", "reconciled", "released", "lost"}]
  /\ reach \in [Requests -> {"nothing", "called", "answered"}]

(* A reservation is held exactly as long as somebody is there to settle it:
   the handler or shadow task up to its call, the audit task from the opening
   of a stream on.  The last part keeps a shadow task from being spawned
   twice. *)
Settlers ==
  /\ \A r \in Requests : pc[r] \in {"absent", "new"} => fate[r] = "none"
  /\ \A r \in Requests \ Streams : pc[r] \in {"reserved", "waiting", "calling"} => fate[r] = "held"
  /\ \A t \in Streams :
       /\ pc[t] \in {"absent", "new", "reserved"} => audit[t] = "none"
       /\ pc[t] \in {"opened", "waiting", "calling", "streaming"} => audit[t] = "open"
       /\ pc[t] = "reserved" => fate[t] = "held"
       /\ audit[t] \in {"open", "sent", "dropped"} => fate[t] = "held"
  /\ \A p \in Plain : \A s \in ShadowsOf[p] :
       pc[p] \notin {"ending", "over"} => pc[s] = "absent"

GatewayInv == LocalTypeOK /\ Guard!TypeOK /\ PoolInv /\ Places /\ Settlers

LEMMA KindFacts ==
  /\ Plain \subseteq Requests /\ Shadows \subseteq Requests /\ Streams \subseteq Requests
  /\ \A p \in Plain : ShadowsOf[p] \subseteq Shadows
  /\ ClientOf \in [Requests -> Clients] /\ EstimateOf \in [Requests -> Costs]
  /\ \A r \in Requests : ClientOf[r] \in Clients /\ EstimateOf[r] \in Nat
  /\ MaxCents \in Nat /\ Window \in Nat /\ Costs \subseteq Nat
BY KindAssumption, MoneyAssumption DEF Requests, KindAssumption, MoneyAssumption

LEMMA GatewayInitInv == Init => GatewayInv
<1> SUFFICES ASSUME Init PROVE GatewayInv
  OBVIOUS
<1>1. LocalTypeOK /\ Guard!TypeOK /\ Settlers
  <2>1. LocalTypeOK
    BY DEF Init, LocalTypeOK
  <2>2. Guard!TypeOK
    BY KindFacts DEF Init, Guard!TypeOK, Guard!NoWindow, Held
  <2>3. Settlers
    BY KindFacts, KindAssumption DEF Init, Settlers, KindAssumption
  <2>4. QED
    BY <2>1, <2>2, <2>3
<1>2. available = MaxConcurrent /\ queue = <<>> /\ permits = {}
  BY DEF Init, Pool!Init
<1>3. IsFiniteSet(permits) /\ Cardinality(permits) = 0 /\ Queued = {}
  BY <1>2, FS_EmptySet DEF Queued
<1>4. PoolInv
  BY <1>2, <1>3, SameCard DEF PoolInv, Pool!TypeOK, Pool!PermitsConserved
<1>5. Places
  BY <1>2, <1>3 DEF Init, Places, HasPlace
<1>6. QED
  BY <1>1, <1>4, <1>5 DEF GatewayInv

---------------------------------------------------------------------------
(* A step is one request moving on, or the clock. *)

Moves(r) ==
  \/ TurnAway(r) \/ Reserve(r) \/ NoRoute(r) \/ AskPermit(r) \/ StartCall(r)
  \/ Call(r) \/ Return(r)

LEMMA NextSplit ==
  ASSUME Next
  PROVE  \/ \E r \in Requests : Moves(r)
         \/ \E p \in Plain : Cancel(p)
         \/ \E t \in Streams : Stream(t) \/ Audit(t)
         \/ Tick
BY DEF Next, Moves

LEMMA LocalTypeStep ==
  ASSUME LocalTypeOK, [Next]_vars
  PROVE  LocalTypeOK'
<1> USE DEF LocalTypeOK, Go, Reaches, AuditBecomes, Reconcile, Charge, Refund
<1>1. ASSUME NEW r \in Requests, Moves(r)
      PROVE  LocalTypeOK'
  <2>1. CASE TurnAway(r) \/ NoRoute(r) \/ AskPermit(r) \/ StartCall(r) \/ Return(r)
    BY <2>1 DEF TurnAway, NoRoute, AskPermit, StartCall, Return
  <2>2. CASE Reserve(r)
    BY <2>2 DEF Reserve
  <2>3. CASE Call(r)
    BY <2>3 DEF Call, CallSucceeds, CallFails
  <2>4. QED
    BY <1>1, <2>1, <2>2, <2>3 DEF Moves
<1>2. ASSUME NEW p \in Plain, Cancel(p)
      PROVE  LocalTypeOK'
  BY <1>2, KindFacts DEF Cancel
<1>3. ASSUME NEW t \in Streams, Stream(t) \/ Audit(t)
      PROVE  LocalTypeOK'
  <2>1. CASE OpenStream(t) \/ PollStream(t) \/ StreamFails(t) \/ StreamAnswers(t) \/ StreamSends(t)
    BY <2>1, KindFacts DEF OpenStream, PollStream, StreamFails, StreamAnswers, StreamSends
  <2>2. CASE StreamReturns(t) \/ Disconnect(t)
    BY <2>2, KindFacts DEF StreamReturns, Disconnect, DropGenerator
  <2>3. CASE Audit(t)
    BY <2>3, KindFacts DEF Audit, AuditCharges, AuditReleases
  <2>4. QED
    BY <1>3, <2>1, <2>2, <2>3 DEF Stream
<1>4. CASE Tick \/ UNCHANGED vars
  BY <1>4 DEF Tick, vars
<1>5. QED
  BY <1>1, <1>2, <1>3, <1>4, NextSplit

LEMMA PlacesStep ==
  ASSUME LocalTypeOK, PoolInv, Places, Settlers, [Next]_vars
  PROVE  PoolInv' /\ Places'
<1> USE DEF LocalTypeOK, Places, HasPlace, Go, Reaches, AuditBecomes
<1>1. ASSUME UNCHANGED poolVars,
             pc' = pc
       PROVE PoolInv' /\ Places'
  BY <1>1, IdlePool
<1>2. ASSUME UNCHANGED poolVars, NEW r \in Requests, NEW where,
             pc' = [pc EXCEPT ![r] = where], pc[r] # "waiting" \/ r \in permits,
             pc[r] \in HasPlace <=> where \in HasPlace
       PROVE PoolInv' /\ Places'
  <2>1. r \notin Queued
    BY <1>2 DEF PoolInv
  <2>2. QED
    BY <1>2, <2>1, IdlePool
<1>3. ASSUME NEW r \in Requests, Pool!Acquire(r), pc[r] \notin HasPlace,
             pc' = [pc EXCEPT ![r] = "waiting"]
      PROVE  PoolInv' /\ Places'
  <2>1. /\ PoolInv' /\ Queued' \subseteq Queued \cup {r}
        /\ permits' \cup Queued' = (permits \cup Queued) \cup {r}
    BY <1>3, AcquirePool, PoolType
  <2>2. pc'[r] = "waiting" /\ \A q \in Requests \ {r} : pc'[q] = pc[q]
    BY <1>3
  <2>3. \A q \in Requests : q \in permits' \cup Queued' <=> pc'[q] \in HasPlace
    BY <2>1, <2>2
  <2>4. \A q \in Queued' : pc'[q] = "waiting"
    BY <2>1, <2>2, PoolType
  <2>5. QED
    BY <2>1, <2>3, <2>4
<1>4. ASSUME NEW r \in Requests, DropPlace(r), pc' = [pc EXCEPT ![r] = "over"]
      PROVE  PoolInv' /\ Places'
  <2>1. /\ PoolInv' /\ Queued' \subseteq Queued
        /\ permits' \cup Queued' = (permits \cup Queued) \ {r}
    BY <1>4, DropPlacePool
  <2>2. pc'[r] = "over" /\ \A q \in Requests \ {r} : pc'[q] = pc[q]
    BY <1>4
  <2>3. \A q \in Requests : q \in permits' \cup Queued' <=> pc'[q] \in HasPlace
    BY <2>1, <2>2
  <2>4. \A q \in Queued' : pc'[q] = "waiting"
    BY <2>1, <2>2, PoolType
  <2>5. QED
    BY <2>1, <2>3, <2>4
<1>5. ASSUME NEW r \in Requests, Moves(r)
      PROVE  PoolInv' /\ Places'
  <2>1. CASE TurnAway(r) \/ Reserve(r) \/ NoRoute(r)
    BY <1>1, <1>2, <2>1 DEF TurnAway, Reserve, NoRoute
  <2>2. CASE AskPermit(r)
    BY <1>3, <2>2 DEF AskPermit
  <2>3. CASE StartCall(r) \/ CallFails(r)
    BY <1>2, <2>3 DEF StartCall, CallFails
  <2>4. ASSUME NEW a \in Costs, CallSucceeds(r, a)
        PROVE  PoolInv' /\ Places'
    <3>1. r \notin Queued
      BY <2>4 DEF CallSucceeds
    <3>2. \A q \in SpawnedBy(r) : pc[q] = "absent"
      BY <2>4 DEF CallSucceeds, Settlers, SpawnedBy
    <3>3. pc' = [q \in Requests |-> IF q = r THEN "ending"
                                   ELSE IF q \in SpawnedBy(r) THEN "new" ELSE pc[q]]
          /\ pc[r] = "calling" /\ UNCHANGED poolVars
      BY <2>4 DEF CallSucceeds
    <3>4. QED
      BY <3>1, <3>2, <3>3, IdlePool, PoolType
  <2>5. CASE Return(r)
    <3>1. DropPlace(r)
      BY <2>5 DEF Return, DropPlace, Pool!Release
    <3>2. QED
      BY <1>4, <2>5, <3>1 DEF Return
  <2>6. QED
    BY <1>5, <2>1, <2>2, <2>3, <2>4, <2>5 DEF Moves, Call
<1>6. ASSUME NEW p \in Plain, Cancel(p)
      PROVE  PoolInv' /\ Places'
  BY <1>4, <1>6, KindFacts DEF Cancel
<1>7. ASSUME NEW t \in Streams, Stream(t) \/ Audit(t)
      PROVE  PoolInv' /\ Places'
  <2>1. CASE OpenStream(t) \/ StreamFails(t) \/ StreamAnswers(t) \/ StreamSends(t)
    BY <1>2, <2>1, KindFacts DEF OpenStream, StreamFails, StreamAnswers, StreamSends
  <2>2. CASE PollStream(t)
    BY <1>3, <2>2, KindFacts DEF PollStream
  <2>3. CASE StreamReturns(t) \/ Disconnect(t)
    BY <1>4, <2>3, KindFacts DEF StreamReturns, Disconnect, DropGenerator
  <2>4. CASE Audit(t)
    BY <1>1, <2>4 DEF Audit, AuditCharges, AuditReleases
  <2>5. QED
    BY <1>7, <2>1, <2>2, <2>3, <2>4 DEF Stream
<1>8. CASE Tick \/ UNCHANGED vars
  BY <1>1, <1>8 DEF Tick, vars, poolVars
<1>9. QED
  BY <1>5, <1>6, <1>7, <1>8, NextSplit

LEMMA Kinds ==
  /\ Plain \cap Streams = {} /\ Shadows \cap Streams = {} /\ Plain \cap Shadows = {}
  /\ \A p, q \in Plain : p # q => ShadowsOf[p] \cap ShadowsOf[q] = {}
BY KindAssumption DEF KindAssumption

LEMMA SettlersStep ==
  ASSUME LocalTypeOK, Settlers, [Next]_vars
  PROVE  Settlers'
<1> USE KindFacts, Kinds
    DEF LocalTypeOK, Settlers, Go, Reaches, AuditBecomes, Reconcile, Charge, Refund
<1>1. ASSUME NEW r \in Requests, Moves(r)
      PROVE  Settlers'
  <2>1. CASE TurnAway(r) \/ AskPermit(r) \/ StartCall(r) \/ Return(r)
    BY <2>1 DEF TurnAway, AskPermit, StartCall, Return
  <2>2. CASE Reserve(r)
    BY <2>2 DEF Reserve
  <2>3. CASE NoRoute(r)
    BY <2>3 DEF NoRoute
  <2>4. CASE CallFails(r)
    BY <2>4 DEF CallFails
  <2>5. ASSUME NEW a \in Costs, CallSucceeds(r, a)
        PROVE  Settlers'
    BY <2>5 DEF CallSucceeds, SpawnedBy
  <2>6. QED
    BY <1>1, <2>1, <2>2, <2>3, <2>4, <2>5 DEF Moves, Call
<1>2. ASSUME NEW p \in Plain, Cancel(p)
      PROVE  Settlers'
  BY <1>2 DEF Cancel
<1>3. ASSUME NEW t \in Streams, Stream(t) \/ Audit(t)
      PROVE  Settlers'
  <2>1. CASE OpenStream(t)
    BY <2>1 DEF OpenStream
  <2>2. CASE PollStream(t) \/ StreamFails(t) \/ StreamAnswers(t)
    BY <2>2 DEF PollStream, StreamFails, StreamAnswers
  <2>3. CASE StreamSends(t)
    BY <2>3 DEF StreamSends
  <2>4. CASE StreamReturns(t) \/ Disconnect(t)
    BY <2>4 DEF StreamReturns, Disconnect, DropGenerator
  <2>5. CASE Audit(t)
    BY <2>5 DEF Audit, AuditCharges, AuditReleases
  <2>6. QED
    BY <1>3, <2>1, <2>2, <2>3, <2>4, <2>5 DEF Stream
<1>4. CASE Tick \/ UNCHANGED vars
  BY <1>4 DEF Tick, vars
<1>5. QED
  BY <1>1, <1>2, <1>3, <1>4, NextSplit

(* Each step is one of SpendGuard or touches nothing of it. *)
GuardStep == [Guard!Next]_(Guard!vars)

LEMMA GuardStepHolds ==
  ASSUME LocalTypeOK, Guard!TypeOK, Settlers, [Next]_vars
  PROVE  GuardStep
<1> USE KindFacts, Kinds DEF LocalTypeOK
<1>1. ASSUME UNCHANGED <<spent, elapsed, fate>>
      PROVE  GuardStep
  BY <1>1 DEF GuardStep, Guard!vars, Held
<1>2. ASSUME NEW r \in Requests, fate[r] = "held", NEW a \in Costs \cup {0},
             NEW becomes, becomes # "held", Reconcile(r, a, becomes)
      PROVE  GuardStep
  <2>1. r \in Held /\ Held' = Held \ {r}
    BY <1>2 DEF Reconcile, Held
  <2>2. Guard!Settle(r, a)
    BY <1>2, <2>1 DEF Reconcile, Guard!Settle
  <2>3. QED
    BY <2>2 DEF GuardStep, Guard!Next
<1>3. ASSUME NEW r \in Requests, fate[r] = "held", UNCHANGED guardVars,
             fate' = [fate EXCEPT ![r] = "lost"]
      PROVE  GuardStep
  <2>1. r \in Held /\ Held' = Held \ {r}
    BY <1>3 DEF Held
  <2>2. Guard!Leak(r)
    BY <1>3, <2>1 DEF guardVars, Guard!Leak
  <2>3. QED
    BY <2>2 DEF GuardStep, Guard!Next
<1>4. ASSUME NEW r \in Requests, Moves(r)
      PROVE  GuardStep
  <2>1. CASE TurnAway(r) \/ AskPermit(r) \/ StartCall(r) \/ Return(r)
    BY <1>1, <2>1 DEF TurnAway, AskPermit, StartCall, Return, guardVars
  <2>2. CASE Reserve(r)
    <3>1. r \notin Held
      BY <2>2 DEF Reserve, Held, Settlers
    <3>2. \/ Guard!Grant(r, ClientOf[r], EstimateOf[r])
          \/ Guard!Refuse(r, ClientOf[r], EstimateOf[r])
      <4>1. CASE Guard!Fits(ClientOf[r], EstimateOf[r])
        <5>1. fate' = [fate EXCEPT ![r] = "held"]
          BY <2>2, <4>1 DEF Reserve
        <5>2. Held' = Held \cup {r}
          BY <5>1 DEF Held
        <5>3. ClientOf = [ClientOf EXCEPT ![r] = ClientOf[r]]
              /\ EstimateOf = [EstimateOf EXCEPT ![r] = EstimateOf[r]]
          OBVIOUS
        <5>4. QED
          BY <2>2, <3>1, <4>1, <5>2, <5>3 DEF Reserve, Guard!Grant
      <4>2. CASE ~Guard!Fits(ClientOf[r], EstimateOf[r])
        BY <2>2, <3>1, <4>2 DEF Reserve, Guard!Refuse, Guard!holderVars, Held
      <4>3. QED
        BY <4>1, <4>2
    <3>3. QED
      BY <3>2 DEF GuardStep, Guard!Next
  <2>3. CASE NoRoute(r)
    BY <1>2, <2>3 DEF NoRoute, Settlers, Refund
  <2>4. CASE Call(r)
    BY <1>2, <2>4 DEF Call, CallSucceeds, CallFails, Settlers, Charge, Refund
  <2>5. QED
    BY <1>4, <2>1, <2>2, <2>3, <2>4 DEF Moves
<1>5. ASSUME NEW p \in Plain, Cancel(p)
      PROVE  GuardStep
  BY <1>3, <1>5 DEF Cancel, Settlers
<1>6. ASSUME NEW t \in Streams, Stream(t) \/ Audit(t)
      PROVE  GuardStep
  <2>1. CASE Stream(t)
    BY <1>1, <2>1 DEF Stream, OpenStream, PollStream, StreamFails, StreamAnswers, StreamSends,
       StreamReturns, Disconnect, DropGenerator, guardVars
  <2>2. CASE Audit(t)
    BY <1>2, <2>2 DEF Audit, AuditCharges, AuditReleases, Settlers, Charge, Refund
  <2>3. QED
    BY <1>6, <2>1, <2>2
<1>7. CASE Tick
  <2>1. Guard!Tick
    BY <1>7 DEF Tick
  <2>2. QED
    BY <2>1 DEF GuardStep, Guard!Next
<1>8. CASE UNCHANGED vars
  BY <1>1, <1>8 DEF vars
<1>9. QED
  BY <1>4, <1>5, <1>6, <1>7, <1>8, NextSplit

LEMMA GuardTypeStep ==
  ASSUME Guard!TypeOK, GuardStep
  PROVE  Guard!TypeOK'
<1> USE KindFacts DEF Guard!TypeOK
<1>1. ASSUME NEW r \in Requests, NEW c \in Clients, NEW e \in Costs,
             Guard!Grant(r, c, e) \/ Guard!Refuse(r, c, e)
      PROVE  Guard!TypeOK'
  BY <1>1 DEF Guard!Grant, Guard!Refuse, Guard!holderVars, Guard!EnterWindow, Guard!WindowOver,
     Guard!TotalReserved, Guard!Total, Guard!NoWindow
<1>2. ASSUME NEW r \in Requests, NEW a \in Costs \cup {0}, Guard!Settle(r, a)
      PROVE  Guard!TypeOK'
  <2>1. Guard!Adjusted(ClientOf[r], EstimateOf[r], a) \in Nat
    <3>1. spent[ClientOf[r]] \in Nat /\ EstimateOf[r] \in Nat /\ a \in Nat
      OBVIOUS
    <3>2. QED
      BY <3>1 DEF Guard!Adjusted
  <2>2. QED
    BY <1>2, <2>1 DEF Guard!Settle
<1>3. ASSUME NEW r \in Requests, Guard!Leak(r)
      PROVE  Guard!TypeOK'
  BY <1>3 DEF Guard!Leak
<1>4. CASE Guard!Tick
  BY <1>4 DEF Guard!Tick, Guard!NoWindow
<1>5. CASE UNCHANGED Guard!vars
  BY <1>5 DEF Guard!vars
<1>6. QED
  BY <1>1, <1>2, <1>3, <1>4, <1>5 DEF GuardStep, Guard!Next

---------------------------------------------------------------------------
(* The theorems. *)

LEMMA GatewayInvHolds == Spec => [](GatewayInv /\ Held \subseteq Requests) /\ [][GuardStep]_vars
<1>1. GatewayInv /\ [Next]_vars => GatewayInv' /\ GuardStep
  BY LocalTypeStep, PlacesStep, SettlersStep, GuardStepHolds, GuardTypeStep DEF GatewayInv
<1>2. GatewayInv => Held \subseteq Requests
  BY DEF Held
<1>3. QED
  BY <1>1, <1>2, GatewayInitInv, PTL DEF Spec

(* Every variable of the gateway keeps its range; in particular the total of a
   client never goes below zero and no permit count is out of range. *)
THEOREM GatewayTypeCorrect == Spec => []TypeOK
<1>1. GatewayInv => TypeOK
  BY DEF GatewayInv, LocalTypeOK, PoolInv, TypeOK
<1>2. QED
  BY <1>1, GatewayInvHolds, PTL

(* Permits are neither lost nor doubled, whatever calls fail, are cancelled or
   disconnect: who holds one is live and was admitted, and no call is in
   flight without one. *)
THEOREM PermitsAreSound == Spec => []PermitsSound
<1>1. GatewayInv => PermitsSound
  BY PoolType DEF GatewayInv, PoolInv, Places, HasPlace, PermitsSound
<1>2. QED
  BY <1>1, GatewayInvHolds, PTL

(* Handlers, shadow tasks, generators and audit tasks settle each reservation
   at most once and only while it is held: the gateway implements SpendGuard
   with its own requests as the holders. *)
THEOREM GatewaySettlesOnce == Spec => SettledOnce
<1>1. Init => Guard!Init
  BY KindFacts DEF Init, Guard!Init, Held, Guard!NoWindow
<1>2. [GuardStep]_vars => [Guard!Next]_(Guard!vars)
  BY DEF GuardStep, vars, Guard!vars, Held
<1>3. QED
  BY <1>1, <1>2, GatewayInvHolds, PTL DEF Spec, SettledOnce, Guard!Spec

---------------------------------------------------------------------------
(* The reservations that are still held when their request is over. *)

(* Who is over and still holds a reservation is a stream whose audit task has the
   counts or knows that it will get none. *)
SomebodySettles ==
  \A r \in Held : pc[r] = "over" => r \in Streams /\ audit[r] \in {"sent", "dropped"}

Owners ==
  /\ \A r \in Requests \ Streams : fate[r] = "held" => pc[r] \in {"reserved", "waiting", "calling"}
  /\ \A t \in Streams :
       /\ audit[t] = "open" => pc[t] # "over"
       /\ audit[t] = "none" /\ fate[t] = "held" => pc[t] = "reserved"
       /\ audit[t] = "closed" => fate[t] # "held"

LEMMA OwnersStep ==
  ASSUME LocalTypeOK, Settlers, Owners, [Next]_vars
  PROVE  Owners'
<1> USE KindFacts, Kinds
    DEF LocalTypeOK, Owners, Go, Reaches, AuditBecomes, Reconcile, Charge, Refund
<1>1. ASSUME NEW r \in Requests, Moves(r)
      PROVE  Owners'
  <2>1. CASE TurnAway(r) \/ AskPermit(r) \/ StartCall(r) \/ Return(r)
    BY <2>1 DEF TurnAway, AskPermit, StartCall, Return, Settlers
  <2>2. CASE Reserve(r)
    BY <2>2 DEF Reserve, Settlers
  <2>3. CASE NoRoute(r)
    BY <2>3 DEF NoRoute, Settlers
  <2>4. CASE CallFails(r)
    BY <2>4 DEF CallFails
  <2>5. ASSUME NEW a \in Costs, CallSucceeds(r, a)
        PROVE  Owners'
    <3>1. \A q \in SpawnedBy(r) : q \notin Streams /\ fate[q] = "none"
      BY <2>5 DEF CallSucceeds, SpawnedBy, Settlers
    <3>2. QED
      BY <2>5, <3>1 DEF CallSucceeds
  <2>6. QED
    BY <1>1, <2>1, <2>2, <2>3, <2>4, <2>5 DEF Moves, Call
<1>2. ASSUME NEW p \in Plain, Cancel(p)
      PROVE  Owners'
  BY <1>2 DEF Cancel
<1>3. ASSUME NEW t \in Streams, Stream(t) \/ Audit(t)
      PROVE  Owners'
  <2>1. CASE OpenStream(t)
    BY <2>1 DEF OpenStream
  <2>2. CASE PollStream(t) \/ StreamFails(t) \/ StreamAnswers(t) \/ StreamSends(t)
    BY <2>2 DEF PollStream, StreamFails, StreamAnswers, StreamSends, Settlers
  <2>3. CASE StreamReturns(t) \/ Disconnect(t)
    BY <2>3 DEF StreamReturns, Disconnect, DropGenerator, Settlers
  <2>4. CASE Audit(t)
    BY <2>4 DEF Audit, AuditCharges, AuditReleases
  <2>5. QED
    BY <1>3, <2>1, <2>2, <2>3, <2>4 DEF Stream
<1>4. CASE Tick \/ UNCHANGED vars
  BY <1>4 DEF Tick, vars
<1>5. QED
  BY <1>1, <1>2, <1>3, <1>4, NextSplit

(* No reservation is left behind that nobody will settle: while one is held, its
   handler or shadow task is still on its way to settle it, or its stream's audit
   task has what it waits for.  This is the part of StreamSettles that is not about
   scheduling (main.rs handle_non_streaming, streaming.rs the audit task). *)
THEOREM NoneLeftBehind == Spec => []SomebodySettles
<1>1. Init => Owners
  BY KindFacts, Kinds DEF Init, Owners
<1>2. GatewayInv /\ Owners /\ [Next]_vars => Owners'
  BY OwnersStep DEF GatewayInv
<1>3. GatewayInv /\ Owners => SomebodySettles
  BY KindFacts DEF GatewayInv, LocalTypeOK, Owners, SomebodySettles, Held
<1>4. QED
  BY <1>1, <1>2, <1>3, GatewayInvHolds, PTL DEF Spec

(* The limiter's promise: no more than MaxConcurrent calls are in flight, and nobody
   is kept waiting while fewer requests than that hold a permit. *)
LimiterKept ==
  /\ Cardinality({r \in Requests : pc[r] \in {"calling", "streaming"}}) <= MaxConcurrent
  /\ \A r \in Requests :
       pc[r] = "waiting" /\ r \notin permits => Cardinality(permits) = MaxConcurrent

(* However calls fail, are cancelled or disconnect, the provider calls in flight
   never exceed the limit, and the limit is the only thing a request waits for
   (concurrency.rs acquire). *)
THEOREM CallsAreBounded == Spec => []LimiterKept
<1>1. ASSUME GatewayInv
      PROVE  LimiterKept
  <2> DEFINE inFlight == {r \in Requests : pc[r] \in {"calling", "streaming"}}
  <2>1. /\ IsFiniteSet(permits) /\ Cardinality(permits) \in Nat /\ available \in Nat
        /\ available + Cardinality(permits) = MaxConcurrent
    BY <1>1, PoolType DEF GatewayInv, PoolInv
  <2>2. inFlight \in SUBSET permits
    BY <1>1 DEF GatewayInv, Places, HasPlace
  <2>3. Cardinality(inFlight) <= Cardinality(permits) /\ Cardinality(inFlight) \in Nat
    <3> HIDE DEF inFlight
    <3>1. QED
      BY <2>1, <2>2, FS_Subset, FS_CardinalityType
  <2>4. ASSUME NEW r \in Requests, pc[r] = "waiting", r \notin permits
        PROVE  Cardinality(permits) = MaxConcurrent
    <3>1. r \in Queued
      BY <1>1, <2>4 DEF GatewayInv, Places, HasPlace
    <3>2. queue # <<>>
      BY <3>1 DEF Queued
    <3>3. available = 0
      BY <1>1, <3>2 DEF GatewayInv, PoolInv, Pool!PermitsConserved
    <3>4. QED
      BY <2>1, <3>3
  <2>5. Cardinality(inFlight) <= MaxConcurrent
    BY <2>1, <2>3
  <2>6. QED
    BY <2>4, <2>5 DEF LimiterKept
<1>2. QED
  BY <1>1, GatewayInvHolds, PTL
=============================================================================
