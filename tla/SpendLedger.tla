---------------------------- MODULE SpendLedger -----------------------------
(***************************************************************************)
(* SpendGuard with the books an auditor would keep beside it, as history   *)
(* variables: what the requests admitted in a client's current window have *)
(* cost or may still cost, and how that can differ from the guard's total. *)
(***************************************************************************)
EXTENDS SpendGuard

VARIABLES
  current,    \* reservations made in their client's current window
  committed,  \* per client: cost, real or still estimated, admitted in this window
  overrun,    \* per client: by how much real costs of this window passed their estimates
  eroded,     \* per client: refunds of earlier windows' reservations to this window
  carried     \* per client: late charges of earlier windows' reservations to this window

ledgerVars == <<current, committed, overrun, eroded, carried>>
allVars    == <<vars, ledgerVars>>

Books == [Clients -> Nat]

LedgerTypeOK ==
  /\ TypeOK
  /\ current   \subseteq Requests
  /\ committed \in [Clients -> Int]
  /\ overrun \in Books /\ eroded \in Books /\ carried \in Books

LedgerInit ==
  /\ Init
  /\ current = {}
  /\ committed = [c \in Clients |-> 0]
  /\ overrun   = [c \in Clients |-> 0]
  /\ eroded    = [c \in Clients |-> 0]
  /\ carried   = [c \in Clients |-> 0]

(* The books of client c at a reservation: closed and begun again when the
   guard's window is over. *)
Reopened(book, c) == IF WindowOver(c) THEN [book EXCEPT ![c] = 0] ELSE book

OfWindow(c) == IF WindowOver(c) THEN {r \in current : owner[r] # c} ELSE current

Positive(n) == IF n > 0 THEN n ELSE 0

LedgerGrant(r, c, e) ==
  /\ Grant(r, c, e)
  /\ current'   = OfWindow(c) \cup {r}
  /\ committed' = [Reopened(committed, c) EXCEPT ![c] = @ + e]
  /\ overrun'   = Reopened(overrun, c)
  /\ eroded'    = Reopened(eroded, c)
  /\ carried'   = Reopened(carried, c)

LedgerRefuse(r, c, e) ==
  /\ Refuse(r, c, e)
  /\ current'   = OfWindow(c)
  /\ committed' = Reopened(committed, c)
  /\ overrun'   = Reopened(overrun, c)
  /\ eroded'    = Reopened(eroded, c)
  /\ carried'   = Reopened(carried, c)

LedgerSettle(r, actual) ==
  LET c == owner[r]
      e == estimate[r]
  IN  /\ Settle(r, actual)
      /\ current' = current \ {r}
      /\ IF r \in current
         THEN /\ committed' = [committed EXCEPT ![c] = @ + (actual - e)]
              /\ overrun'   = [overrun EXCEPT ![c] = @ + Positive(actual - e)]
              /\ UNCHANGED <<eroded, carried>>
         ELSE /\ eroded'  = [eroded EXCEPT ![c] = @ + Positive(e - actual)]
              /\ carried' = [carried EXCEPT ![c] = @ + Positive(actual - e)]
              /\ UNCHANGED <<committed, overrun>>

(* A leaked reservation may have been billed: its estimate stays committed. *)
LedgerLeak(r) ==
  /\ Leak(r)
  /\ current' = current \ {r}
  /\ UNCHANGED <<committed, overrun, eroded, carried>>

LedgerTick == Tick /\ UNCHANGED ledgerVars

LedgerNext ==
  \/ \E r \in Requests, c \in Clients, e \in Costs :
       LedgerGrant(r, c, e) \/ LedgerRefuse(r, c, e)
  \/ \E r \in Requests, a \in Costs \cup {0} : LedgerSettle(r, a)
  \/ \E r \in Requests : LedgerLeak(r)
  \/ LedgerTick

LedgerSpec == LedgerInit /\ [][LedgerNext]_allVars

---------------------------------------------------------------------------
(* What the books say of the guard. *)

(* The guard never counts less than the client has committed in the window,
   except for the refunds it gave the window on behalf of earlier ones. *)
NeverUndercounts == \A c \in Clients : committed[c] <= spent[c] + eroded[c]

(* It never charges the window for more than was committed in it, except for
   what reservations of earlier windows cost beyond their estimate. *)
NeverOvercounts == \A c \in Clients : spent[c] <= committed[c] + carried[c]

(* How hard the ceiling is: the requests admitted in one window can exceed the
   cap by no more than what they cost beyond their estimates plus the refunds
   of earlier windows' reservations. *)
CeilingBound == \A c \in Clients : committed[c] <= MaxCents + overrun[c] + eroded[c]

(* The "hard per-client ceiling": only an underestimated cost, which nobody
   can know beforehand, takes a window past its cap. *)
HardCeiling == \A c \in Clients : committed[c] <= MaxCents + overrun[c]
=============================================================================
