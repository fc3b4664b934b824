----------------------------- MODULE LoopGuard ------------------------------
(***************************************************************************)
(* LoopGuard (src/guardrails.rs), for one client: the history of its       *)
(* recent prompts, and the calls of check_and_record under way.  Clients   *)
(* share nothing, each having an entry of the DashMap of its own.          *)
(*                                                                         *)
(* check_and_record reads the clock before it locks the entry, so it is    *)
(* two steps: Stamp, and Record under the lock.  Calls can therefore enter *)
(* the history in another order than that of their timestamps.             *)
(*                                                                         *)
(* A timestamp is kept as its age.  Ages grow with Tick and stop where no  *)
(* call under way could tell them apart any more.                          *)
(***************************************************************************)
EXTENDS Integers, Sequences, FiniteSets

CONSTANTS
  Prompts,      \* hashes of prompts
  Callers,      \* concurrent requests of the client
  Threshold,    \* threshold
  Window,       \* window, in ticks
  MaxHistory,   \* MAX_HISTORY_PER_CLIENT
  LockDelay,    \* longest time between the clock and the lock
  MaxBurst      \* bound: calls in the log or under way

ASSUME SizeAssumption ==
  /\ Threshold \in Nat \ {0} /\ MaxHistory \in Nat \ {0}
  /\ Window \in Nat /\ LockDelay \in Nat /\ MaxBurst \in Nat

VARIABLES
  recent,    \* the client's deque
  stamp,     \* age of the timestamp of each call under way; or Idle
  prompt,    \* the prompt of each call
  flagged,   \* the callers whose last call returned true
  log        \* history: the calls in order, evicted or not, the first too old to matter left out

vars == <<recent, stamp, prompt, flagged, log>>

Idle    == -1
Oldest  == Window + 2 * LockDelay + 1
Entries == [prompt : Prompts, age : 0 .. Oldest]

Init ==
  /\ recent  = << >>
  /\ stamp   = [c \in Callers |-> Idle]
  /\ prompt  \in [Callers -> Prompts]
  /\ flagged = {}
  /\ log     = << >>

TypeOK ==
  /\ recent  \in Seq(Entries) /\ Len(recent) <= MaxHistory
  /\ stamp   \in [Callers -> {Idle} \cup 0 .. LockDelay]
  /\ prompt  \in [Callers -> Prompts]
  /\ flagged \subseteq Callers
  /\ log     \in Seq(Entries)

---------------------------------------------------------------------------

(* now.duration_since(t), which is zero when t is later than now. *)
Since(now, entry) == IF entry.age > now THEN entry.age - now ELSE 0

(* Mutant: nothing is dropped before counting. *)
NothingExpired(now) == 0

(* The length of the expired prefix: expiry stops at the first fresh entry. *)
ExpiredPrefix(now) ==
  CHOOSE n \in 0 .. Len(recent) :
    /\ \A i \in 1 .. n : Since(now, recent[i]) > Window
    /\ n < Len(recent) => Since(now, recent[n + 1]) <= Window

Fresh(now) == SubSeq(recent, ExpiredPrefix(now) + 1, Len(recent))

(* Mutants: no cap; and a cap that drops the entry just added. *)
Uncapped(entries) == entries
CappedAtBack(entries) ==
  IF Len(entries) > MaxHistory THEN SubSeq(entries, 1, MaxHistory) ELSE entries

Capped(entries) == IF Len(entries) > MaxHistory THEN Tail(entries) ELSE entries

Repeats(entries, p) == Cardinality({i \in 1 .. Len(entries) : entries[i].prompt = p})

Stamp(c, p) ==
  /\ stamp[c] = Idle
  /\ Len(log) + Cardinality({d \in Callers : stamp[d] # Idle}) < MaxBurst
  /\ stamp'   = [stamp EXCEPT ![c] = 0]
  /\ prompt'  = [prompt EXCEPT ![c] = p]
  /\ UNCHANGED <<recent, flagged, log>>

Record(c) ==
  LET entry == [prompt |-> prompt[c], age |-> stamp[c]]
      fresh == Fresh(stamp[c])
  IN  /\ stamp[c] # Idle
      /\ recent'  = Capped(Append(fresh, entry))
      /\ flagged' = IF Repeats(fresh, prompt[c]) + 1 >= Threshold
                    THEN flagged \cup {c} ELSE flagged \ {c}
      /\ stamp'   = [stamp EXCEPT ![c] = Idle]
      /\ log'     = Append(log, entry)
      /\ UNCHANGED prompt

Older(entry) == [entry EXCEPT !.age = IF @ < Oldest THEN @ + 1 ELSE Oldest]
Aged(entries) == [i \in 1 .. Len(entries) |-> Older(entries[i])]

(* The entries the log can do without: the first ones that are Oldest. *)
Forgotten(entries) ==
  CHOOSE n \in 0 .. Len(entries) :
    /\ \A i \in 1 .. n : entries[i].age = Oldest
    /\ n < Len(entries) => entries[n + 1].age < Oldest

Tick ==
  /\ \A c \in Callers : stamp[c] < LockDelay
  /\ recent' = Aged(recent)
  /\ log'    = SubSeq(Aged(log), Forgotten(Aged(log)) + 1, Len(log))
  /\ stamp'  = [c \in Callers |-> IF stamp[c] = Idle THEN Idle ELSE stamp[c] + 1]
  /\ UNCHANGED <<prompt, flagged>>

Next ==
  \/ \E c \in Callers, p \in Prompts : Stamp(c, p)
  \/ \E c \in Callers : Record(c)
  \/ Tick

Spec == Init /\ [][Next]_vars

---------------------------------------------------------------------------
(* What the guard must guarantee, against the true list of calls. *)

(* The calls of c's prompt among entries of the log from position first on
   that are at most w older than c's own, this call included. *)
Calls(c, first, w) ==
  1 + Cardinality({i \in first .. Len(log) :
                     log[i].prompt = prompt[c] /\ Since(stamp[c], log[i]) <= w})

Returns(c) == stamp[c] # Idle /\ stamp'[c] = Idle

(* Nobody is blocked for repetitions of long ago: a flagged call is the
   Threshold-th of its prompt in the window, up to the delay that a call may
   have between its timestamp and its place in the history. *)
NoFalseAlarm ==
  [][\A c \in Callers :
       Returns(c) /\ c \in flagged' => Calls(c, 1, Window + LockDelay) >= Threshold]_vars

(* A loop is caught: Threshold calls of one prompt within the window, less the
   longest delay a call may have between its timestamp and its place, are flagged
   whatever order they were recorded in and whatever came between them, so
   long as they are among the client's last MaxHistory calls. *)
LoopCaught ==
  [][\A c \in Callers :
       LET first == IF Len(log) > MaxHistory THEN Len(log) - MaxHistory + 1 ELSE 1
       IN  Returns(c) /\ Calls(c, first, Window - LockDelay) >= Threshold => c \in flagged']_vars
=============================================================================
