--------------------------- MODULE CircuitBreaker ---------------------------
(***************************************************************************)
(* The per-provider circuit breaker (src/circuit_breaker.rs) together with *)
(* the provider calls that consult it (src/connectors.rs): a call asks     *)
(* is_open, and if it is let through it reports success or failure when    *)
(* the provider answers, or reports nothing at all.                        *)
(*                                                                         *)
(* is_open takes two locks one after the other, so it is two steps here:   *)
(* Check under the read lock, Claim under the write lock.                  *)
(*                                                                         *)
(* Time is a Tick that ages everything a timer runs on.  An age that the   *)
(* code only compares with a limit stops one past the limit, so no bound   *)
(* on the length of a behaviour is needed.                                 *)
(***************************************************************************)
EXTENDS Integers, FiniteSets

CONSTANTS
  Providers,         \* the keys of CircuitBreaker.providers
  Callers,           \* concurrent executions of a connector's complete()
  FailureThreshold,  \* FAILURE_THRESHOLD: failures that open a closed circuit
  ResetTimeout,      \* RESET_TIMEOUT, in ticks
  CallTimeout,       \* timeout of the connectors' HTTP client, in ticks
  MinRoundTrip,      \* shortest time in which a provider answers, in ticks
  LockDelay          \* longest time between the read and the write lock of is_open

ASSUME ThresholdAssumption == FailureThreshold \in Nat \ {0}
ASSUME TimerAssumption ==
  /\ ResetTimeout \in Nat
  /\ CallTimeout  \in Nat
  /\ MinRoundTrip \in Nat
  /\ LockDelay    \in Nat

VARIABLES
  state,          \* ProviderState.state; a missing entry is a default entry
  failures,       \* ProviderState.failures, saturated at FailureThreshold
  openFor,        \* opened_at.elapsed(), saturated past ResetTimeout; or NotOpened
  probeInFlight,  \* the providers whose probe_in_flight is set
  pc,             \* what each caller is doing
  target,         \* the provider the caller calls
  age,            \* how long it has been doing it
  trials          \* the callers let through as a half-open trial (history)

circuitVars == <<state, failures, openFor, probeInFlight>>
vars        == <<state, failures, openFor, probeInFlight, pc, target, age, trials>>

NotOpened == -1
Expired   == ResetTimeout + 1
AgeLimit  == CallTimeout + LockDelay

TypeOK ==
  /\ state         \in [Providers -> {"Closed", "Open", "HalfOpen"}]
  /\ failures      \in [Providers -> 0 .. FailureThreshold]
  /\ openFor       \in [Providers -> {NotOpened} \cup 0 .. Expired]
  /\ probeInFlight \subseteq Providers
  /\ pc            \in [Callers -> {"idle", "claiming", "calling"}]
  /\ target        \in [Callers -> Providers]
  /\ age           \in [Callers -> 0 .. AgeLimit]
  /\ trials        \subseteq Callers

Init ==
  /\ state         = [p \in Providers |-> "Closed"]
  /\ failures      = [p \in Providers |-> 0]
  /\ openFor       = [p \in Providers |-> NotOpened]
  /\ probeInFlight = {}
  /\ pc            = [c \in Callers |-> "idle"]
  /\ target        \in [Callers -> Providers]
  /\ age           = [c \in Callers |-> 0]
  /\ trials        = {}

---------------------------------------------------------------------------
(* What the circuit does: the bodies of is_open, record_success and        *)
(* record_failure, under their locks.                                      *)

(* Mutant: expiry is not looked at. *)
ResetDueAlways(p) == state[p] = "Open"

(* An open circuit whose reset timeout has run out. *)
ResetDue(p) == state[p] = "Open" /\ openFor[p] > ResetTimeout

(* The circuit lets a call through without a claim. *)
Admits(p) == \/ state[p] = "Closed"
             \/ state[p] = "HalfOpen" /\ p \notin probeInFlight

(* Mutant: the half-open fast path as it was before probe_in_flight existed:
   nobody marks the trial, so the half-open circuit admits everyone. *)
BeginTrialUnmarked(p) ==
  /\ state' = [state EXCEPT ![p] = "HalfOpen"]
  /\ UNCHANGED <<failures, openFor, probeInFlight>>

BeginTrial(p) ==
  /\ state'         = [state EXCEPT ![p] = "HalfOpen"]
  /\ probeInFlight' = probeInFlight \cup {p}
  /\ UNCHANGED <<failures, openFor>>

RecordSuccess(p) ==
  /\ failures' = [failures EXCEPT ![p] = 0]
  /\ IF state[p] # "Closed"
     THEN /\ state'         = [state EXCEPT ![p] = "Closed"]
          /\ openFor'       = [openFor EXCEPT ![p] = NotOpened]
          /\ probeInFlight' = probeInFlight \ {p}
     ELSE UNCHANGED <<state, openFor, probeInFlight>>

FailuresAfter(p) ==
  IF failures[p] < FailureThreshold THEN failures[p] + 1 ELSE FailureThreshold

(* A failure opens a circuit that has reached the threshold and re-opens a
   half-open one, whoever reports it; it does not restart the timer of a
   circuit that is open already. *)
Opens(p) == \/ state[p] = "HalfOpen"
            \/ state[p] = "Closed" /\ FailuresAfter(p) >= FailureThreshold

FailureRecorded(p, openedFor, slots) ==
  /\ failures' = [failures EXCEPT ![p] = FailuresAfter(p)]
  /\ IF Opens(p)
     THEN /\ state'   = [state EXCEPT ![p] = "Open"]
          /\ openFor' = [openFor EXCEPT ![p] = openedFor]
     ELSE UNCHANGED <<state, openFor>>
  /\ probeInFlight' = slots

(* Only the half-open branch clears the probe slot. *)
SlotsAfterFailure(p) ==
  IF state[p] = "HalfOpen" THEN probeInFlight \ {p} ELSE probeInFlight

(* Mutant: the probe slot is not given back when the trial fails. *)
RecordFailureKeepingProbe(p) == FailureRecorded(p, 0, probeInFlight)

(* Mutant: opened_at is not set. *)
RecordFailureUnstamped(p) == FailureRecorded(p, NotOpened, SlotsAfterFailure(p))

RecordFailure(p) == FailureRecorded(p, 0, SlotsAfterFailure(p))

---------------------------------------------------------------------------
(* What a caller does. *)

Enter(c, p, where) ==
  /\ pc'     = [pc EXCEPT ![c] = where]
  /\ target' = [target EXCEPT ![c] = p]
  /\ age'    = [age EXCEPT ![c] = 0]

Leave(c) ==
  /\ pc'    = [pc EXCEPT ![c] = "idle"]
  /\ age'   = [age EXCEPT ![c] = 0]
  /\ trials' = trials \ {c}
  /\ UNCHANGED target

(* is_open under the read lock.  A caller that is told "open" changes nothing
   and fails with CircuitOpen, so that branch needs no step. *)
Check(c, p) ==
  /\ pc[c] = "idle"
  /\ \/ Admits(p)   /\ Enter(c, p, "calling")
     \/ ResetDue(p) /\ Enter(c, p, "claiming")
  /\ UNCHANGED <<circuitVars, trials>>

(* is_open under the write lock: the trial is claimed because the circuit is
   (still, or again) open.  How long it has been open is not looked at. *)
ClaimTrial(c) ==
  /\ pc[c] = "claiming"
  /\ state[target[c]] = "Open"
  /\ BeginTrial(target[c])
  /\ Enter(c, target[c], "calling")
  /\ trials' = trials \cup {c}

(* The write lock came too late: somebody else moved the circuit on. *)
ClaimLate(c) ==
  /\ pc[c] = "claiming"
  /\ state[target[c]] # "Open"
  /\ IF Admits(target[c])
     THEN Enter(c, target[c], "calling") /\ UNCHANGED trials
     ELSE Leave(c)
  /\ UNCHANGED circuitVars

Answered(c) == pc[c] = "calling" /\ age[c] >= MinRoundTrip

(* A 2xx answer that parses. *)
Succeed(c) ==
  /\ Answered(c)
  /\ RecordSuccess(target[c])
  /\ Leave(c)

(* A 5xx answer or a timeout. *)
Fail(c) ==
  /\ Answered(c)
  /\ RecordFailure(target[c])
  /\ Leave(c)

(* 401, 403, 429, any other status, a 2xx body that does not parse, or a
   transport error that is no timeout: neither record_success nor
   record_failure is called. *)
EndUnrecorded(c) ==
  /\ pc[c] = "calling"
  /\ Leave(c)
  /\ UNCHANGED circuitVars

(* The request's future is dropped while it awaits the provider: the client
   went away, or the server's TimeoutLayer gave up. *)
Abandon(c) ==
  /\ pc[c] = "calling"
  /\ Leave(c)
  /\ UNCHANGED circuitVars

End(c) == Succeed(c) \/ Fail(c) \/ EndUnrecorded(c) \/ Abandon(c)

(* Mutant: the HTTP client is built without a timeout. *)
DeadlinesMetByLocks == \A c \in Callers : pc[c] = "claiming" => age[c] < LockDelay

(* No call outlives its timeout, and no lock is awaited longer than LockDelay. *)
DeadlinesMet ==
  \A c \in Callers :
    /\ pc[c] = "claiming" => age[c] < LockDelay
    /\ pc[c] = "calling"  => age[c] < CallTimeout

Tick ==
  /\ DeadlinesMet
  /\ openFor' = [p \in Providers |->
                   IF openFor[p] \in 0 .. ResetTimeout THEN openFor[p] + 1 ELSE openFor[p]]
  /\ age' = [c \in Callers |-> IF pc[c] = "idle" THEN age[c] ELSE age[c] + 1]
  /\ UNCHANGED <<state, failures, probeInFlight, pc, target, trials>>

Next ==
  \/ \E c \in Callers, p \in Providers : Check(c, p)
  \/ \E c \in Callers :
       \/ ClaimTrial(c) \/ ClaimLate(c)
       \/ Succeed(c) \/ Fail(c) \/ EndUnrecorded(c) \/ Abandon(c)
  \/ Tick

Spec == Init /\ [][Next]_vars

(* Time passes (strongly fair: a lock that is about to be taken holds the tick
   back for a moment), a thread that waits for a lock gets it, every call
   ends, and requests for every provider keep arriving. *)
Fairness ==
  /\ SF_vars(Tick)
  /\ \A c \in Callers : WF_vars(ClaimTrial(c) \/ ClaimLate(c)) /\ WF_vars(End(c))
  /\ \A p \in Providers : SF_vars(\E c \in Callers : Check(c, p))

FairSpec == Spec /\ Fairness

---------------------------------------------------------------------------
(* What the breaker must guarantee. *)

(* The four fields of a ProviderState tell one story: the probe slot is taken
   exactly while the circuit is half-open, a timestamp is kept exactly while
   it is not closed, and it is closed exactly below the failure threshold. *)
BreakerConsistent ==
  \A p \in Providers :
    /\ state[p] = "HalfOpen" <=> p \in probeInFlight
    /\ state[p] = "Closed"   <=> openFor[p] = NotOpened
    /\ state[p] = "Closed"   <=> failures[p] < FailureThreshold

InFlight(c, p) == pc[c] = "calling" /\ target[c] = p

(* A recovering provider sees one request at a time: "only the caller that
   actually performs the Open -> HalfOpen transition gets through; everyone
   else is blocked".  No straggler of an earlier period and no second claimant
   is in flight with the trial. *)
SingleTrial ==
  \A c, d \in Callers, p \in Providers :
    state[p] = "HalfOpen" /\ InFlight(c, p) /\ InFlight(d, p) => c = d

(* A half-open circuit is left only by the report of the trial it is waiting
   for, never by that of a call that was let through before it opened. *)
OnlyTrialResolves ==
  [][\A p \in Providers :
       state[p] = "HalfOpen" /\ state'[p] # "HalfOpen" =>
         \E c \in trials : InFlight(c, p) /\ pc'[c] = "idle"]_vars

(* A circuit that opens stays shut for the whole reset timeout: a trial is
   never let through earlier. *)
HoldOff ==
  [][\A p \in Providers :
       state[p] = "Open" /\ state'[p] = "HalfOpen" => openFor[p] > ResetTimeout]_vars

(* An open circuit does not stay open for ever: somebody tries the provider
   again (or a straggler's success closes the circuit). *)
OpenIsTried == \A p \in Providers : state[p] = "Open" ~> state[p] # "Open"

(* The trial is resolved: the circuit is "probed back into rotation", or opens
   again, and does not stay half-open for ever. *)
TrialIsResolved == \A p \in Providers : state[p] = "HalfOpen" ~> state[p] # "HalfOpen"

(* The timing under which one trial at a time and the hold-off hold: taking
   the write lock is faster than any provider's answer, and no call lasts as
   long as the circuit stays open. *)
Prompt == LockDelay < MinRoundTrip /\ CallTimeout <= ResetTimeout
=============================================================================
