----------------------------- MODULE SpendGuard -----------------------------
(***************************************************************************)
(* SpendGuard (src/guardrails.rs): a running total of cents per client and *)
(* window.  A request reserves its estimated cost before it calls a        *)
(* provider and later reconciles the reservation with the real cost, or    *)
(* releases it; it may also disappear without doing either.                *)
(*                                                                         *)
(* Every operation runs under the DashMap entry lock of its client and is  *)
(* one step.  Money is in whole cents: the f64 arithmetic of the code is   *)
(* not modelled.  The elapsed time of a window is kept up to the first     *)
(* value past the window, which is all the code tells apart.               *)
(***************************************************************************)
EXTENDS Integers

CONSTANTS
  Clients,    \* the keys of SpendGuard.spent
  Requests,   \* holders of reservations: requests and shadow calls
  MaxCents,   \* max_cents_per_window
  Window,     \* window, in ticks
  Costs       \* the costs, estimated or real, that a call can have

ASSUME CapAssumption == MaxCents \in Nat /\ Window \in Nat
ASSUME CostAssumption == Costs \subseteq Nat

VARIABLES
  spent,      \* the total of each client's entry; 0 for a missing entry
  elapsed,    \* time since the entry's window_start; NoWindow for a missing entry
  held,       \* the requests that hold a reservation
  owner,      \* the client a request was reserved for
  estimate    \* the estimated cost it reserved

guardVars  == <<spent, elapsed>>
holderVars == <<held, owner, estimate>>
vars       == <<spent, elapsed, held, owner, estimate>>

NoWindow == -1

TypeOK ==
  /\ spent    \in [Clients -> Nat]
  /\ elapsed  \in [Clients -> {NoWindow} \cup 0 .. Window + 1]
  /\ held     \subseteq Requests
  /\ owner    \in [Requests -> Clients]
  /\ estimate \in [Requests -> Costs]

Init ==
  /\ spent    = [c \in Clients |-> 0]
  /\ elapsed  = [c \in Clients |-> NoWindow]
  /\ held     = {}
  /\ owner    \in [Requests -> Clients]
  /\ estimate \in [Requests -> Costs]

---------------------------------------------------------------------------
(* The guard's arithmetic. *)

WindowOver(c) == elapsed[c] > Window

(* Mutant: the window starts again and the old total stays. *)
TotalNeverCleared(c) == spent[c]

(* The total a reservation is checked against: an expired window counts 0. *)
Total(c) == IF WindowOver(c) THEN 0 ELSE spent[c]

(* Mutant: the plain check() that try_reserve replaced. *)
UnderCap(c, e) == Total(c) < MaxCents

Fits(c, e) == Total(c) + e <= MaxCents

(* Mutant: the check without the reservation. *)
TotalUnreserved(c, e) == Total(c)

TotalReserved(c, e) == Total(c) + e

(* Mutant: no clamp. *)
AdjustedUnclamped(c, est, actual) == spent[c] + (actual - est)

(* What reconcile leaves: it looks neither at the window nor at whether the
   reservation belongs to it, and stops at zero. *)
Adjusted(c, est, actual) ==
  LET total == spent[c] + (actual - est) IN IF total < 0 THEN 0 ELSE total

(* try_reserve creates the entry or restarts an expired window, also when it
   then refuses. *)
EnterWindow(c) ==
  elapsed' = [elapsed EXCEPT ![c] = IF @ = NoWindow \/ WindowOver(c) THEN 0 ELSE @]

---------------------------------------------------------------------------
(* The operations. *)

Grant(r, c, e) ==
  /\ r \notin held
  /\ Fits(c, e)
  /\ EnterWindow(c)
  /\ spent'    = [spent EXCEPT ![c] = TotalReserved(c, e)]
  /\ held'     = held \cup {r}
  /\ owner'    = [owner EXCEPT ![r] = c]
  /\ estimate' = [estimate EXCEPT ![r] = e]

Refuse(r, c, e) ==
  /\ r \notin held
  /\ ~Fits(c, e)
  /\ EnterWindow(c)
  /\ spent' = [spent EXCEPT ![c] = Total(c)]
  /\ UNCHANGED holderVars

(* reconcile with the real cost; release is reconcile with 0. *)
Settle(r, actual) ==
  /\ r \in held
  /\ spent' = [spent EXCEPT ![owner[r]] = Adjusted(owner[r], estimate[r], actual)]
  /\ held'  = held \ {r}
  /\ UNCHANGED <<elapsed, owner, estimate>>

(* The holder's future is dropped before it settles: the reservation stays in
   the total until the window is over. *)
Leak(r) ==
  /\ r \in held
  /\ held' = held \ {r}
  /\ UNCHANGED <<spent, elapsed, owner, estimate>>

Tick ==
  /\ elapsed' = [c \in Clients |->
                   IF elapsed[c] \in 0 .. Window THEN elapsed[c] + 1 ELSE elapsed[c]]
  /\ UNCHANGED <<spent, held, owner, estimate>>

Next ==
  \/ \E r \in Requests, c \in Clients, e \in Costs : Grant(r, c, e) \/ Refuse(r, c, e)
  \/ \E r \in Requests, a \in Costs \cup {0} : Settle(r, a)
  \/ \E r \in Requests : Leak(r)
  \/ Tick

Spec == Init /\ [][Next]_vars
=============================================================================
