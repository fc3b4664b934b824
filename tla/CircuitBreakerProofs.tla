------------------------ MODULE CircuitBreakerProofs ------------------------
(***************************************************************************)
(* Proofs about CircuitBreaker for any providers, callers and timers.      *)
(*                                                                         *)
(* Without any timing assumption: the types and BreakerConsistent.  Under  *)
(* Prompt: SingleTrial, OnlyTrialResolves and HoldOff, by an invariant     *)
(* that ties the ages of the calls to the age of the open circuit.  And    *)
(* what becomes of a provider whose trial nobody reports.                  *)
(***************************************************************************)
EXTENDS CircuitBreaker, TLAPS

USE ThresholdAssumption, TimerAssumption

(* No caller works longer than its deadline: this is what DeadlinesMet buys. *)
WithinDeadline ==
  \A c \in Callers :
    /\ pc[c] = "claiming" => age[c] <= LockDelay
    /\ pc[c] = "calling"  => age[c] <= CallTimeout

Typed == TypeOK /\ WithinDeadline

(* The parts of a step that concern one caller keep it typed. *)
LEMMA EnterTyped ==
  ASSUME Typed, NEW c \in Callers, NEW p \in Providers,
         NEW where \in {"claiming", "calling"}, Enter(c, p, where)
  PROVE  /\ pc' \in [Callers -> {"idle", "claiming", "calling"}]
         /\ target' \in [Callers -> Providers]
         /\ age' \in [Callers -> 0 .. AgeLimit]
         /\ WithinDeadline'
BY DEF Typed, TypeOK, WithinDeadline, Enter, AgeLimit

LEMMA LeaveTyped ==
  ASSUME Typed, NEW c \in Callers, Leave(c)
  PROVE  /\ pc' \in [Callers -> {"idle", "claiming", "calling"}]
         /\ target' \in [Callers -> Providers]
         /\ age' \in [Callers -> 0 .. AgeLimit]
         /\ trials' \subseteq Callers
         /\ WithinDeadline'
BY DEF Typed, TypeOK, WithinDeadline, Leave, AgeLimit

CircuitTyped ==
  /\ state         \in [Providers -> {"Closed", "Open", "HalfOpen"}]
  /\ failures      \in [Providers -> 0 .. FailureThreshold]
  /\ openFor       \in [Providers -> {NotOpened} \cup 0 .. Expired]
  /\ probeInFlight \subseteq Providers

LEMMA RecordSuccessKeeps ==
  ASSUME Typed, BreakerConsistent, NEW p \in Providers, RecordSuccess(p)
  PROVE  CircuitTyped' /\ BreakerConsistent'
BY DEF Typed, TypeOK, CircuitTyped, BreakerConsistent, RecordSuccess, NotOpened, Expired

LEMMA RecordFailureKeeps ==
  ASSUME Typed, BreakerConsistent, NEW p \in Providers, RecordFailure(p)
  PROVE  CircuitTyped' /\ BreakerConsistent'
BY DEF Typed, TypeOK, CircuitTyped, BreakerConsistent, RecordFailure, FailureRecorded,
       SlotsAfterFailure, Opens, FailuresAfter, NotOpened, Expired

LEMMA BeginTrialKeeps ==
  ASSUME Typed, BreakerConsistent, NEW p \in Providers, state[p] = "Open", BeginTrial(p)
  PROVE  CircuitTyped' /\ BreakerConsistent'
BY DEF Typed, TypeOK, CircuitTyped, BreakerConsistent, BeginTrial, NotOpened, Expired

LEMMA TickKeeps ==
  ASSUME Typed, BreakerConsistent, Tick
  PROVE  Typed' /\ BreakerConsistent'
BY DEF Typed, TypeOK, WithinDeadline, BreakerConsistent, Tick, DeadlinesMet, NotOpened,
       Expired, AgeLimit

LEMMA CircuitUnchangedKeeps ==
  ASSUME Typed, BreakerConsistent, UNCHANGED circuitVars
  PROVE  CircuitTyped' /\ BreakerConsistent'
BY DEF Typed, TypeOK, CircuitTyped, BreakerConsistent, circuitVars

LEMMA InitConsistent == Init => Typed /\ BreakerConsistent
BY DEF Init, Typed, TypeOK, WithinDeadline, BreakerConsistent, NotOpened, Expired, AgeLimit

LEMMA StepConsistent ==
  ASSUME Typed, BreakerConsistent, [Next]_vars
  PROVE  Typed' /\ BreakerConsistent'
<1> USE DEF Typed, TypeOK, CircuitTyped
<1>1. ASSUME NEW c \in Callers, NEW p \in Providers, Check(c, p)
      PROVE  Typed' /\ BreakerConsistent'
  BY <1>1, EnterTyped, CircuitUnchangedKeeps DEF Check
<1>2. ASSUME NEW c \in Callers, ClaimTrial(c)
      PROVE  Typed' /\ BreakerConsistent'
  BY <1>2, EnterTyped, BeginTrialKeeps DEF ClaimTrial
<1>3. ASSUME NEW c \in Callers, ClaimLate(c)
      PROVE  Typed' /\ BreakerConsistent'
  BY <1>3, EnterTyped, LeaveTyped, CircuitUnchangedKeeps DEF ClaimLate
<1>4. ASSUME NEW c \in Callers, Succeed(c)
      PROVE  Typed' /\ BreakerConsistent'
  BY <1>4, LeaveTyped, RecordSuccessKeeps DEF Succeed
<1>5. ASSUME NEW c \in Callers, Fail(c)
      PROVE  Typed' /\ BreakerConsistent'
  BY <1>5, LeaveTyped, RecordFailureKeeps DEF Fail
<1>6. ASSUME NEW c \in Callers, EndUnrecorded(c) \/ Abandon(c)
      PROVE  Typed' /\ BreakerConsistent'
  BY <1>6, LeaveTyped, CircuitUnchangedKeeps DEF EndUnrecorded, Abandon
<1>7. CASE Tick
  BY <1>7, TickKeeps
<1>8. CASE UNCHANGED vars
  BY <1>8 DEF vars, WithinDeadline, BreakerConsistent
<1>9. QED
  BY <1>1, <1>2, <1>3, <1>4, <1>5, <1>6, <1>7, <1>8 DEF Next

(* The variables keep their types, whatever the timing. *)
THEOREM TypeCorrect == Spec => []TypeOK
<1>1. Typed /\ BreakerConsistent /\ [Next]_vars => (Typed /\ BreakerConsistent)'
  BY StepConsistent
<1>2. Typed => TypeOK
  BY DEF Typed
<1>3. QED
  BY <1>1, <1>2, InitConsistent, PTL DEF Spec

(* State, probe slot, timestamp and failure count of every circuit agree,
   whatever the timing and however calls end. *)
THEOREM Consistent == Spec => []BreakerConsistent
<1>1. Typed /\ BreakerConsistent /\ [Next]_vars => (Typed /\ BreakerConsistent)'
  BY StepConsistent
<1>2. QED
  BY <1>1, InitConsistent, PTL DEF Spec

---------------------------------------------------------------------------
(* Under Prompt, what is in flight to a provider that is not closed. *)

(* A call let through by a closed circuit began before the circuit opened. *)
StragglersAreOld ==
  \A c \in Callers :
    pc[c] = "calling" /\ c \notin trials /\ state[target[c]] # "Closed" =>
      age[c] >= openFor[target[c]]

(* A half-open circuit has been open for the whole reset timeout; so, by
   StragglersAreOld, no straggler is left. *)
HalfOpenIsExpired ==
  \A p \in Providers : state[p] = "HalfOpen" => openFor[p] > ResetTimeout

(* A trial in flight is the only one, and its circuit waits for it. *)
TrialsAreCurrent ==
  /\ \A c \in trials : pc[c] = "calling" /\ state[target[c]] = "HalfOpen"
  /\ \A c, d \in trials : target[c] = target[d] => c = d

(* What a caller read under the read lock still holds when it takes the write
   lock, or a trial began in between that cannot have been answered yet. *)
ClaimsAreFresh ==
  \A c \in Callers : pc[c] = "claiming" =>
    /\ state[target[c]] \in {"Open", "HalfOpen"}
    /\ openFor[target[c]] > ResetTimeout
    /\ \A d \in trials : target[d] = target[c] => age[d] <= age[c]

PromptInv ==
  /\ Typed
  /\ BreakerConsistent
  /\ StragglersAreOld
  /\ HalfOpenIsExpired
  /\ TrialsAreCurrent
  /\ ClaimsAreFresh

(* A straggler can only be in flight while the circuit has been open for less
   than a call lasts: no trial has begun and nobody is claiming one. *)
LEMMA NoStragglerAtTrial ==
  ASSUME Prompt, PromptInv, NEW c \in Callers, pc[c] = "calling", c \notin trials
  PROVE  /\ state[target[c]] # "HalfOpen"
         /\ \A d \in Callers : pc[d] = "claiming" => target[d] # target[c]
<1>1. ASSUME state[target[c]] # "Closed", openFor[target[c]] > ResetTimeout
      PROVE  FALSE
  BY <1>1 DEF Prompt, PromptInv, Typed, TypeOK, WithinDeadline, StragglersAreOld, Expired,
              NotOpened
<1>2. state[target[c]] # "HalfOpen"
  BY <1>1 DEF PromptInv, Typed, TypeOK, HalfOpenIsExpired
<1>3. ASSUME NEW d \in Callers, pc[d] = "claiming", target[d] = target[c]
      PROVE  FALSE
  BY <1>1, <1>3 DEF PromptInv, ClaimsAreFresh
<1>4. QED
  BY <1>2, <1>3

(* The answer to a trial does not arrive while somebody still waits for the
   write lock: the wait is shorter than any round trip. *)
LEMMA NoClaimAtAnswer ==
  ASSUME Prompt, PromptInv, NEW c \in Callers, Answered(c), NEW d \in Callers,
         pc[d] = "claiming"
  PROVE  target[d] # target[c]
<1>1. CASE c \in trials
  BY <1>1 DEF Prompt, PromptInv, Typed, TypeOK, WithinDeadline, ClaimsAreFresh, Answered
<1>2. CASE c \notin trials
  BY <1>2, NoStragglerAtTrial DEF Answered
<1>3. QED
  BY <1>1, <1>2

LEMMA InitPrompt == Init => PromptInv
BY InitConsistent DEF Init, PromptInv, StragglersAreOld, HalfOpenIsExpired,
   TrialsAreCurrent, ClaimsAreFresh

LEMMA CheckPrompt ==
  ASSUME Prompt, PromptInv, NEW c \in Callers, NEW p \in Providers, Check(c, p),
         Typed', BreakerConsistent'
  PROVE  PromptInv'
<1> USE DEF PromptInv, Typed, TypeOK, Check, Enter, circuitVars
<1>1. c \notin trials
  BY DEF TrialsAreCurrent
<1>2. CASE Admits(p) /\ Enter(c, p, "calling")
  <2>1. state[p] = "Closed"
    BY <1>2 DEF Admits, BreakerConsistent
  <2>2. StragglersAreOld'
    BY <1>2, <2>1 DEF StragglersAreOld
  <2>3. HalfOpenIsExpired'
    BY <1>2 DEF HalfOpenIsExpired
  <2>4. TrialsAreCurrent'
    BY <1>1, <1>2 DEF TrialsAreCurrent
  <2>5. ClaimsAreFresh'
    BY <1>1, <1>2 DEF ClaimsAreFresh
  <2>6. QED
    BY <2>2, <2>3, <2>4, <2>5
<1>3. CASE ResetDue(p) /\ Enter(c, p, "claiming")
  <2>1. StragglersAreOld'
    BY <1>3 DEF StragglersAreOld
  <2>2. HalfOpenIsExpired'
    BY <1>3 DEF HalfOpenIsExpired
  <2>3. TrialsAreCurrent'
    BY <1>1, <1>3 DEF TrialsAreCurrent
  <2>4. ClaimsAreFresh'
    BY <1>1, <1>3 DEF ClaimsAreFresh, TrialsAreCurrent, ResetDue
  <2>5. QED
    BY <2>1, <2>2, <2>3, <2>4
<1>4. QED
  BY <1>2, <1>3

LEMMA ClaimTrialPrompt ==
  ASSUME Prompt, PromptInv, NEW c \in Callers, ClaimTrial(c), Typed', BreakerConsistent'
  PROVE  PromptInv'
<1> USE DEF PromptInv, Typed, TypeOK, ClaimTrial, Enter, BeginTrial
<1>1. \A d \in trials : target[d] # target[c]
  BY DEF TrialsAreCurrent
<1>2. openFor[target[c]] > ResetTimeout
  BY DEF ClaimsAreFresh
<1>3. StragglersAreOld'
  BY DEF StragglersAreOld
<1>4. HalfOpenIsExpired'
  BY <1>2 DEF HalfOpenIsExpired
<1>5. TrialsAreCurrent'
  BY <1>1 DEF TrialsAreCurrent
<1>6. ClaimsAreFresh'
  BY <1>1 DEF ClaimsAreFresh
<1>7. QED
  BY <1>3, <1>4, <1>5, <1>6

LEMMA ClaimLatePrompt ==
  ASSUME Prompt, PromptInv, NEW c \in Callers, ClaimLate(c), Typed', BreakerConsistent'
  PROVE  PromptInv'
<1> USE DEF PromptInv, Typed, TypeOK, ClaimLate, Leave, circuitVars
<1>1. ~ Admits(target[c])
  BY DEF Admits, ClaimsAreFresh, BreakerConsistent
<1>2. Leave(c) /\ c \notin trials
  BY <1>1 DEF TrialsAreCurrent
<1>3. StragglersAreOld' /\ HalfOpenIsExpired'
  BY <1>2 DEF StragglersAreOld, HalfOpenIsExpired
<1>4. TrialsAreCurrent' /\ ClaimsAreFresh'
  BY <1>2 DEF TrialsAreCurrent, ClaimsAreFresh
<1>5. QED
  BY <1>3, <1>4

LEMMA SucceedPrompt ==
  ASSUME Prompt, PromptInv, NEW c \in Callers, Succeed(c), Typed', BreakerConsistent'
  PROVE  PromptInv'
<1> USE DEF PromptInv, Typed, TypeOK, Succeed, Leave
<1>1. \A d \in Callers : pc[d] = "claiming" => target[d] # target[c]
  BY NoClaimAtAnswer
<1>2. \A d \in trials : target[d] = target[c] => d = c
  <2>1. CASE c \in trials
    BY <2>1 DEF TrialsAreCurrent
  <2>2. CASE c \notin trials
    BY <2>2, NoStragglerAtTrial DEF TrialsAreCurrent, Answered
  <2>3. QED
    BY <2>1, <2>2
<1>3. StragglersAreOld' /\ HalfOpenIsExpired'
  BY DEF StragglersAreOld, HalfOpenIsExpired, RecordSuccess
<1>4. TrialsAreCurrent'
  BY <1>2 DEF TrialsAreCurrent, RecordSuccess
<1>5. ClaimsAreFresh'
  BY <1>1 DEF ClaimsAreFresh, RecordSuccess
<1>6. QED
  BY <1>3, <1>4, <1>5

LEMMA FailPrompt ==
  ASSUME Prompt, PromptInv, NEW c \in Callers, Fail(c), Typed', BreakerConsistent'
  PROVE  PromptInv'
<1> USE DEF PromptInv, Typed, TypeOK, Fail, Leave
<1>1. \A d \in Callers : pc[d] = "claiming" => target[d] # target[c]
  BY NoClaimAtAnswer
<1>2. \A d \in trials : target[d] = target[c] => d = c
  <2>1. CASE c \in trials
    BY <2>1 DEF TrialsAreCurrent
  <2>2. CASE c \notin trials
    BY <2>2, NoStragglerAtTrial DEF TrialsAreCurrent, Answered
  <2>3. QED
    BY <2>1, <2>2
<1>3. StragglersAreOld'
  BY DEF StragglersAreOld, RecordFailure, FailureRecorded, Opens
<1>4. HalfOpenIsExpired'
  BY DEF HalfOpenIsExpired, RecordFailure, FailureRecorded, Opens
<1>5. TrialsAreCurrent'
  BY <1>2 DEF TrialsAreCurrent, RecordFailure, FailureRecorded, Opens
<1>6. ClaimsAreFresh'
  BY <1>1 DEF ClaimsAreFresh, RecordFailure, FailureRecorded, Opens
<1>7. QED
  BY <1>3, <1>4, <1>5, <1>6

LEMMA EndSilentPrompt ==
  ASSUME Prompt, PromptInv, NEW c \in Callers, EndUnrecorded(c) \/ Abandon(c),
         Typed', BreakerConsistent'
  PROVE  PromptInv'
<1> USE DEF PromptInv, Typed, TypeOK, EndUnrecorded, Abandon, Leave, circuitVars
<1>1. StragglersAreOld' /\ HalfOpenIsExpired'
  BY DEF StragglersAreOld, HalfOpenIsExpired
<1>2. TrialsAreCurrent' /\ ClaimsAreFresh'
  BY DEF TrialsAreCurrent, ClaimsAreFresh
<1>3. QED
  BY <1>1, <1>2

LEMMA TickPrompt ==
  ASSUME Prompt, PromptInv, Tick, Typed', BreakerConsistent'
  PROVE  PromptInv'
<1> USE DEF PromptInv, Typed, TypeOK, Tick, Expired, NotOpened
<1>1. StragglersAreOld'
  BY DEF StragglersAreOld
<1>2. HalfOpenIsExpired'
  BY DEF HalfOpenIsExpired
<1>3. TrialsAreCurrent'
  BY DEF TrialsAreCurrent
<1>4. ClaimsAreFresh'
  BY DEF ClaimsAreFresh, TrialsAreCurrent
<1>5. QED
  BY <1>1, <1>2, <1>3, <1>4

LEMMA StepPrompt ==
  ASSUME Prompt, PromptInv, [Next]_vars
  PROVE  PromptInv'
<1>1. Typed' /\ BreakerConsistent'
  BY StepConsistent DEF PromptInv
<1>2. CASE Next
  BY <1>1, <1>2, CheckPrompt, ClaimTrialPrompt, ClaimLatePrompt, SucceedPrompt, FailPrompt,
     EndSilentPrompt, TickPrompt DEF Next
<1>3. CASE UNCHANGED vars
  BY <1>1, <1>3 DEF vars, PromptInv, StragglersAreOld, HalfOpenIsExpired,
     TrialsAreCurrent, ClaimsAreFresh
<1>4. QED
  BY <1>2, <1>3

(* Under Prompt a half-open provider has at most one call in flight. *)
THEOREM OneTrial == Prompt => (Spec => []SingleTrial)
<1> SUFFICES ASSUME Prompt PROVE Spec => []SingleTrial
  OBVIOUS
<1>1. PromptInv => SingleTrial
  <2> SUFFICES ASSUME PromptInv, NEW c \in Callers, NEW d \in Callers, NEW p \in Providers,
                      state[p] = "HalfOpen", InFlight(c, p), InFlight(d, p)
               PROVE  c = d
    BY DEF SingleTrial
  <2>1. c \in trials /\ d \in trials
    BY NoStragglerAtTrial DEF InFlight
  <2>2. QED
    BY <2>1 DEF PromptInv, TrialsAreCurrent, InFlight
<1>2. PromptInv /\ [Next]_vars => PromptInv'
  BY StepPrompt
<1>3. QED
  BY <1>1, <1>2, InitPrompt, PTL DEF Spec

(* Under Prompt a trial is never let through before the reset timeout. *)
THEOREM HoldsOff == Prompt => (Spec => HoldOff)
<1> SUFFICES ASSUME Prompt PROVE Spec => HoldOff
  OBVIOUS
<1>1. PromptInv /\ [Next]_vars => PromptInv'
  BY StepPrompt
<1>2. ASSUME PromptInv, PromptInv', [Next]_vars
      PROVE  [\A p \in Providers : state[p] = "Open" /\ state'[p] = "HalfOpen"
                                    => openFor[p] > ResetTimeout]_vars
  <2> SUFFICES ASSUME NEW p \in Providers, state[p] = "Open", state'[p] = "HalfOpen"
               PROVE  openFor[p] > ResetTimeout
    OBVIOUS
  <2>1. CASE Next
    <3>1. PICK c \in Callers : ClaimTrial(c)
      BY <1>2, <2>1 DEF Next, PromptInv, Typed, TypeOK, Check, ClaimLate, Succeed, Fail,
         EndUnrecorded, Abandon, Tick, circuitVars, RecordSuccess, RecordFailure,
         FailureRecorded
    <3>2. target[c] = p
      BY <1>2, <3>1 DEF ClaimTrial, BeginTrial, PromptInv, Typed, TypeOK
    <3>3. QED
      BY <1>2, <3>1, <3>2 DEF ClaimTrial, PromptInv, ClaimsAreFresh
  <2>2. CASE UNCHANGED vars
    BY <2>2 DEF vars
  <2>3. QED
    BY <1>2, <2>1, <2>2
<1>3. QED
  BY <1>1, <1>2, InitPrompt, PTL DEF Spec, HoldOff

(* Under Prompt a half-open circuit is left only by the report of its trial. *)
THEOREM TrialDecides == Prompt => (Spec => OnlyTrialResolves)
<1> SUFFICES ASSUME Prompt PROVE Spec => OnlyTrialResolves
  OBVIOUS
<1>1. PromptInv /\ [Next]_vars => PromptInv'
  BY StepPrompt
<1>2. ASSUME PromptInv, PromptInv', [Next]_vars
      PROVE  [\A p \in Providers : state[p] = "HalfOpen" /\ state'[p] # "HalfOpen" =>
                \E c \in trials : InFlight(c, p) /\ pc'[c] = "idle"]_vars
  <2> SUFFICES ASSUME NEW p \in Providers, state[p] = "HalfOpen", state'[p] # "HalfOpen"
               PROVE  \E c \in trials : InFlight(c, p) /\ pc'[c] = "idle"
    OBVIOUS
  <2>1. CASE Next
    <3>1. PICK c \in Callers : Succeed(c) \/ Fail(c)
      BY <1>2, <2>1 DEF Next, PromptInv, Typed, TypeOK, Check, ClaimTrial, BeginTrial,
         ClaimLate, EndUnrecorded, Abandon, Tick, circuitVars
    <3>2. target[c] = p /\ pc[c] = "calling" /\ pc'[c] = "idle"
      BY <1>2, <3>1 DEF Succeed, Fail, Answered, Leave, RecordSuccess, RecordFailure,
         FailureRecorded, PromptInv, Typed, TypeOK
    <3>3. c \in trials
      BY <1>2, <3>2, NoStragglerAtTrial
    <3>4. QED
      BY <3>2, <3>3 DEF InFlight
  <2>2. CASE UNCHANGED vars
    BY <2>2 DEF vars
  <2>3. QED
    BY <1>2, <2>1, <2>2
<1>3. QED
  BY <1>1, <1>2, InitPrompt, PTL DEF Spec, OnlyTrialResolves

---------------------------------------------------------------------------
(* A trial that is lost: nobody is calling a half-open provider any more. *)
TrialIsLost(p) == state[p] = "HalfOpen" /\ \A c \in Callers : ~InFlight(c, p)

LEMMA LostStep ==
  ASSUME Typed, BreakerConsistent, NEW p \in Providers, TrialIsLost(p), [Next]_vars
  PROVE  TrialIsLost(p)'
<1> USE DEF TrialIsLost, InFlight, Typed, TypeOK
<1>1. ~Admits(p) /\ ~ResetDue(p) /\ state[p] # "Open"
  BY DEF Admits, ResetDue, BreakerConsistent
<1>2. ASSUME NEW c \in Callers, NEW q \in Providers, Check(c, q)
      PROVE  TrialIsLost(p)'
  BY <1>1, <1>2 DEF Check, Enter, circuitVars
<1>3. ASSUME NEW c \in Callers, ClaimTrial(c)
      PROVE  TrialIsLost(p)'
  BY <1>1, <1>3 DEF ClaimTrial, Enter, BeginTrial
<1>4. ASSUME NEW c \in Callers, ClaimLate(c)
      PROVE  TrialIsLost(p)'
  BY <1>1, <1>4 DEF ClaimLate, Enter, Leave, circuitVars
<1>5. ASSUME NEW c \in Callers, Succeed(c) \/ Fail(c)
      PROVE  TrialIsLost(p)'
  <2>1. target[c] # p /\ Leave(c)
    BY <1>5 DEF Succeed, Fail, Answered
  <2>2. state'[p] = state[p]
    BY <1>5, <2>1 DEF Succeed, Fail, RecordSuccess, RecordFailure, FailureRecorded
  <2>3. QED
    BY <2>1, <2>2 DEF Leave
<1>6. ASSUME NEW c \in Callers, EndUnrecorded(c) \/ Abandon(c)
      PROVE  TrialIsLost(p)'
  BY <1>6 DEF EndUnrecorded, Abandon, Leave, circuitVars
<1>7. CASE Tick \/ UNCHANGED vars
  BY <1>7 DEF Tick, vars
<1>8. QED
  BY <1>2, <1>3, <1>4, <1>5, <1>6, <1>7 DEF Next

(* A provider whose trial ends without a report - a 401, 403 or 429, a body that
   does not parse, a failed connection, a dropped future - is never called again:
   the circuit stays half-open and lets nobody through for as long as the process
   runs, whatever the timing (circuit_breaker.rs is_open; connectors.rs complete,
   the arms that report nothing). *)
THEOREM LostTrialBlocks ==
  ASSUME NEW p \in Providers
  PROVE  Spec => [](TrialIsLost(p) => []TrialIsLost(p))
<1>1. Typed /\ BreakerConsistent /\ [Next]_vars => (Typed /\ BreakerConsistent)'
  BY StepConsistent
<1>2. Typed /\ BreakerConsistent /\ TrialIsLost(p) /\ [Next]_vars => TrialIsLost(p)'
  BY LostStep
<1>3. QED
  BY <1>1, <1>2, InitConsistent, PTL DEF Spec
=============================================================================
