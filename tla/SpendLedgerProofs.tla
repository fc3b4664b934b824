------------------------- MODULE SpendLedgerProofs --------------------------
(***************************************************************************)
(* Proofs about SpendLedger for any clients, requests, cap, window and     *)
(* costs: the types, that the guard neither undercounts nor overcounts,    *)
(* and how far a window can pass its cap.                                  *)
(***************************************************************************)
EXTENDS SpendLedger, SumTheorems

USE CapAssumption, CostAssumption DEF CapAssumption, CostAssumption

(* The two bounds together are inductive: a reservation is checked against the
   guard's total, and NeverUndercounts says what that total stands for. *)
LedgerInv == LedgerTypeOK /\ NeverUndercounts /\ CeilingBound

LEMMA AdjustedIsNat ==
  ASSUME LedgerTypeOK, NEW c \in Clients, NEW e \in Costs, NEW a \in Nat
  PROVE  /\ Adjusted(c, e, a) \in Nat
         /\ Adjusted(c, e, a) >= spent[c] + (a - e)
BY DEF LedgerTypeOK, TypeOK, Adjusted

LEMMA ReopenedIsBook ==
  ASSUME NEW book \in Books, NEW c \in Clients
  PROVE  Reopened(book, c) \in Books
BY DEF Reopened, Books

LEMMA PositiveIsNat ==
  ASSUME NEW n \in Int
  PROVE  Positive(n) \in Nat /\ Positive(n) >= n
BY DEF Positive

LEMMA InitInv == LedgerInit => LedgerInv
BY DEF LedgerInit, Init, LedgerInv, LedgerTypeOK, TypeOK, Books, NoWindow,
   NeverUndercounts, CeilingBound

LEMMA GrantInv ==
  ASSUME LedgerInv, NEW r \in Requests, NEW c \in Clients, NEW e \in Costs,
         LedgerGrant(r, c, e)
  PROVE  LedgerInv'
<1> USE DEF LedgerInv, LedgerGrant
<1>1. LedgerTypeOK'
  <2>1. TypeOK'
    BY DEF LedgerTypeOK, TypeOK, Grant, EnterWindow, WindowOver, TotalReserved, Total, NoWindow
  <2>2. /\ current' \subseteq Requests
        /\ committed' \in [Clients -> Int]
    BY DEF LedgerTypeOK, OfWindow, Reopened
  <2>3. overrun' \in Books /\ eroded' \in Books /\ carried' \in Books
    BY ReopenedIsBook DEF LedgerTypeOK
  <2>4. QED
    BY <2>1, <2>2, <2>3 DEF LedgerTypeOK
<1>2. NeverUndercounts' /\ CeilingBound'
  BY DEF LedgerTypeOK, TypeOK, Books, Grant, Fits, TotalReserved, Total, Reopened,
     NeverUndercounts, CeilingBound
<1>3. QED
  BY <1>1, <1>2

LEMMA RefuseInv ==
  ASSUME LedgerInv, NEW r \in Requests, NEW c \in Clients, NEW e \in Costs,
         LedgerRefuse(r, c, e)
  PROVE  LedgerInv'
<1> USE DEF LedgerInv, LedgerRefuse
<1>1. LedgerTypeOK'
  <2>1. TypeOK'
    BY DEF LedgerTypeOK, TypeOK, Refuse, holderVars, EnterWindow, WindowOver, Total, NoWindow
  <2>2. /\ current' \subseteq Requests
        /\ committed' \in [Clients -> Int]
    BY DEF LedgerTypeOK, OfWindow, Reopened
  <2>3. overrun' \in Books /\ eroded' \in Books /\ carried' \in Books
    BY ReopenedIsBook DEF LedgerTypeOK
  <2>4. QED
    BY <2>1, <2>2, <2>3 DEF LedgerTypeOK
<1>2. CASE WindowOver(c)
  <2>1. /\ spent' = [spent EXCEPT ![c] = 0]
        /\ committed' = [committed EXCEPT ![c] = 0]
        /\ overrun' = [overrun EXCEPT ![c] = 0]
        /\ eroded' = [eroded EXCEPT ![c] = 0]
    BY <1>2 DEF Refuse, Total, Reopened
  <2>2. NeverUndercounts' /\ CeilingBound'
    BY <2>1 DEF LedgerTypeOK, TypeOK, Books, NeverUndercounts, CeilingBound
  <2>3. QED
    BY <1>1, <2>2
<1>3. CASE ~WindowOver(c)
  <2>1. spent' = spent /\ UNCHANGED <<committed, overrun, eroded>>
    BY <1>3 DEF LedgerTypeOK, TypeOK, Refuse, Total, Reopened
  <2>2. NeverUndercounts' /\ CeilingBound'
    BY <2>1 DEF NeverUndercounts, CeilingBound
  <2>3. QED
    BY <1>1, <2>2
<1>4. QED
  BY <1>2, <1>3

LEMMA SettleInv ==
  ASSUME LedgerInv, NEW r \in Requests, NEW a \in Costs \cup {0}, LedgerSettle(r, a)
  PROVE  LedgerInv'
<1> DEFINE c == owner[r]
           e == estimate[r]
<1>1. /\ c \in Clients /\ e \in Costs
      /\ e \in Nat /\ a \in Nat /\ a - e \in Int /\ e - a \in Int
  <2>1. r \in Requests /\ owner \in [Requests -> Clients] /\ estimate \in [Requests -> Costs]
    BY DEF LedgerInv, LedgerTypeOK, TypeOK
  <2>2. c \in Clients /\ e \in Costs
    BY <2>1
  <2>3. e \in Nat
    BY <2>2
  <2>4. a \in Nat
    OBVIOUS
  <2>5. QED
    BY <2>2, <2>3, <2>4
<1>2. /\ spent' = [spent EXCEPT ![c] = Adjusted(c, e, a)]
      /\ held' = held \ {r}
      /\ current' = current \ {r}
      /\ UNCHANGED <<elapsed, owner, estimate>>
  BY DEF LedgerSettle, Settle
<1>3. /\ Adjusted(c, e, a) \in Nat
      /\ Adjusted(c, e, a) >= spent[c] + (a - e)
  BY <1>1, AdjustedIsNat DEF LedgerInv
<1>4. /\ Positive(a - e) \in Nat /\ Positive(a - e) >= a - e
      /\ Positive(e - a) \in Nat /\ Positive(e - a) >= e - a
  BY <1>1, PositiveIsNat
<1> HIDE DEF c, e
<1>5. CASE r \in current
  <2>1. /\ committed' = [committed EXCEPT ![c] = @ + (a - e)]
        /\ overrun' = [overrun EXCEPT ![c] = @ + Positive(a - e)]
        /\ UNCHANGED <<eroded, carried>>
    BY <1>5 DEF LedgerSettle, c, e
  <2>2. LedgerTypeOK'
    BY <1>1, <1>2, <1>3, <1>4, <2>1 DEF LedgerInv, LedgerTypeOK, TypeOK, Books
  <2>3. NeverUndercounts' /\ CeilingBound'
    BY <1>1, <1>2, <1>3, <1>4, <2>1
       DEF LedgerInv, LedgerTypeOK, TypeOK, Books, NeverUndercounts, CeilingBound
  <2>4. QED
    BY <2>2, <2>3 DEF LedgerInv
<1>6. CASE r \notin current
  <2>1. /\ eroded' = [eroded EXCEPT ![c] = @ + Positive(e - a)]
        /\ carried' = [carried EXCEPT ![c] = @ + Positive(a - e)]
        /\ UNCHANGED <<committed, overrun>>
    BY <1>6 DEF LedgerSettle, c, e
  <2>2. LedgerTypeOK'
    BY <1>1, <1>2, <1>3, <1>4, <2>1 DEF LedgerInv, LedgerTypeOK, TypeOK, Books
  <2>3. NeverUndercounts' /\ CeilingBound'
    BY <1>1, <1>2, <1>3, <1>4, <2>1
       DEF LedgerInv, LedgerTypeOK, TypeOK, Books, NeverUndercounts, CeilingBound
  <2>4. QED
    BY <2>2, <2>3 DEF LedgerInv
<1>7. QED
  BY <1>5, <1>6

LEMMA LeakInv ==
  ASSUME LedgerInv, NEW r \in Requests, LedgerLeak(r)
  PROVE  LedgerInv'
BY DEF LedgerInv, LedgerTypeOK, TypeOK, NeverUndercounts, CeilingBound, LedgerLeak, Leak

LEMMA TickInv == LedgerInv /\ LedgerTick => LedgerInv'
BY DEF LedgerInv, LedgerTypeOK, TypeOK, NeverUndercounts, CeilingBound, LedgerTick, Tick,
   ledgerVars, NoWindow

LEMMA StepInv == LedgerInv /\ [LedgerNext]_allVars => LedgerInv'
<1> SUFFICES ASSUME LedgerInv, [LedgerNext]_allVars PROVE LedgerInv'
  OBVIOUS
<1>1. CASE LedgerNext
  BY <1>1, GrantInv, RefuseInv, SettleInv, LeakInv, TickInv DEF LedgerNext
<1>2. CASE UNCHANGED allVars
  BY <1>2 DEF allVars, vars, ledgerVars, LedgerInv, LedgerTypeOK, TypeOK,
              NeverUndercounts, CeilingBound
<1>3. QED
  BY <1>1, <1>2

(* Totals stay natural numbers, windows and reservations keep their types. *)
THEOREM LedgerTypeCorrect == LedgerSpec => []LedgerTypeOK
<1>1. LedgerInv => LedgerTypeOK
  BY DEF LedgerInv
<1>2. QED
  BY <1>1, InitInv, StepInv, PTL DEF LedgerSpec

(* The guard's total never misses what a client committed in its window, up to
   the refunds it gave on behalf of earlier windows. *)
THEOREM GuardNeverUndercounts == LedgerSpec => []NeverUndercounts
<1>1. LedgerInv => NeverUndercounts
  BY DEF LedgerInv
<1>2. QED
  BY <1>1, InitInv, StepInv, PTL DEF LedgerSpec

(* One window admits at most the cap, plus underestimates, plus refunds of
   earlier windows: the exact strength of the ceiling. *)
THEOREM CeilingHolds == LedgerSpec => []CeilingBound
<1>1. LedgerInv => CeilingBound
  BY DEF LedgerInv
<1>2. QED
  BY <1>1, InitInv, StepInv, PTL DEF LedgerSpec

---------------------------------------------------------------------------
(* NeverOvercounts.  reconcile stops at zero, which charges the window more
   than the refund allows, unless what is committed is at least zero then.  It
   is because the estimates of the window's open reservations are part of it. *)
OpenOf(c)      == {r \in current : owner[r] = c}
OpenEstimates(c) == SumFunctionOnSet(estimate, OpenOf(c))

OpenInv ==
  /\ LedgerTypeOK
  /\ current \subseteq held /\ IsFiniteSet(current)
  /\ NeverOvercounts
  /\ \A c \in Clients : OpenEstimates(c) <= committed[c]

LEMMA OpenSumIsNat ==
  ASSUME LedgerTypeOK, IsFiniteSet(current), NEW c \in Clients
  PROVE  /\ IsFiniteSet(OpenOf(c)) /\ \A r \in OpenOf(c) : estimate[r] \in Nat
         /\ OpenEstimates(c) \in Nat
<1>1. IsFiniteSet(OpenOf(c))
  BY FS_Subset DEF OpenOf
<1>2. \A r \in OpenOf(c) : estimate[r] \in Nat
  BY DEF OpenOf, LedgerTypeOK, TypeOK
<1>3. QED
  BY <1>1, <1>2, SumIsNat DEF OpenEstimates

(* The open reservations of a client that a step leaves alone. *)
LEMMA OpenSumStays ==
  ASSUME LedgerTypeOK, IsFiniteSet(current), NEW c \in Clients,
         OpenOf(c)' = OpenOf(c), \A r \in OpenOf(c) : estimate'[r] = estimate[r]
  PROVE  OpenEstimates(c)' = OpenEstimates(c)
<1>1. SumFunctionOnSet(estimate, OpenOf(c)) = SumFunctionOnSet(estimate', OpenOf(c))
  BY OpenSumIsNat, SumsAgree
<1>2. QED
  BY <1>1 DEF OpenEstimates

LEMMA InitOpen == LedgerInit => OpenInv
<1> SUFFICES ASSUME LedgerInit PROVE OpenInv
  OBVIOUS
<1>1. LedgerTypeOK
  BY InitInv DEF LedgerInv
<1>2. \A c \in Clients : OpenOf(c) = {}
  BY DEF LedgerInit, OpenOf
<1>3. \A c \in Clients : OpenEstimates(c) = 0
  BY <1>2, SumEmpty DEF OpenEstimates
<1>4. QED
  BY <1>1, <1>3, FS_EmptySet DEF OpenInv, LedgerInit, Init, NeverOvercounts

(* A window that is over is closed, with its reservations. *)
LEMMA WindowCloses ==
  ASSUME OpenInv, NEW c \in Clients, NEW d \in Clients, NEW r
  PROVE  /\ OfWindow(c) \subseteq held /\ IsFiniteSet(OfWindow(c) \cup {r})
         /\ IsFiniteSet(OfWindow(c))
         /\ {q \in OfWindow(c) : owner[q] = d}
              = IF d = c /\ WindowOver(c) THEN {} ELSE OpenOf(d)
<1>1. OfWindow(c) \subseteq current
  BY DEF OfWindow
<1>2. IsFiniteSet(OfWindow(c)) /\ IsFiniteSet(OfWindow(c) \cup {r})
  BY <1>1, FS_Subset, FS_AddElement DEF OpenInv
<1>3. QED
  BY <1>1, <1>2 DEF OfWindow, OpenOf, OpenInv

LEMMA GrantOpen ==
  ASSUME OpenInv, LedgerTypeOK', NEW r \in Requests, NEW c \in Clients, NEW e \in Costs,
         LedgerGrant(r, c, e)
  PROVE  OpenInv'
<1> USE DEF LedgerGrant, Grant
<1>1. /\ LedgerTypeOK /\ IsFiniteSet(current) /\ r \notin held /\ r \notin current
      /\ owner' = [owner EXCEPT ![r] = c] /\ estimate' = [estimate EXCEPT ![r] = e]
      /\ owner'[r] = c /\ estimate'[r] = e /\ e \in Nat
      /\ \A q \in current : owner'[q] = owner[q] /\ estimate'[q] = estimate[q]
  BY DEF OpenInv, LedgerTypeOK, TypeOK
<1>2. current' \subseteq held' /\ IsFiniteSet(current')
  BY WindowCloses
<1>3. \A q \in OfWindow(c) : q \in current
  BY DEF OfWindow
<1>4. NeverOvercounts'
  BY DEF OpenInv, LedgerTypeOK, TypeOK, Books, NeverOvercounts, TotalReserved, Total, Reopened
<1>5. ASSUME NEW d \in Clients
      PROVE  (OpenEstimates(d) <= committed[d])'
  <2> DEFINE Before == {q \in OfWindow(c) : owner[q] = d}
  <2>1. Before = IF d = c /\ WindowOver(c) THEN {} ELSE OpenOf(d)
    BY WindowCloses
  <2>2. OpenOf(d)' = IF d = c THEN Before \cup {r} ELSE Before
    BY <1>1, <1>3 DEF OpenOf
  <2> HIDE DEF Before
  <2>3. CASE d # c
    <3>1. OpenOf(d)' = OpenOf(d) /\ committed'[d] = committed[d]
      BY <2>1, <2>2, <2>3 DEF Reopened, OpenInv, LedgerTypeOK
    <3>2. OpenEstimates(d)' = OpenEstimates(d)
      BY <1>1, <3>1, OpenSumStays DEF OpenOf
    <3>3. QED
      BY <3>1, <3>2 DEF OpenInv
  <2>4. CASE d = c
    <3>1. r \notin Before /\ IsFiniteSet(Before) /\ \A q \in Before : estimate'[q] = estimate[q] /\ estimate[q] \in Nat
      BY <1>1, <2>1, FS_EmptySet, OpenSumIsNat DEF OpenOf
    <3>2. \A q \in Before \cup {r} : estimate'[q] \in Int
      BY <1>1, <3>1
    <3>3. SumFunctionOnSet(estimate', Before \cup {r}) = e + SumFunctionOnSet(estimate', Before)
      BY <1>1, <3>1, <3>2, SumAdd
    <3>4. SumFunctionOnSet(estimate', Before) = SumFunctionOnSet(estimate, Before)
      <4>1. \A q \in Before : estimate'[q] \in Int /\ estimate'[q] = estimate[q]
        BY <3>1
      <4>2. QED
        BY <3>1, <4>1, SumsAgree
    <3>5. OpenEstimates(d)' = e + SumFunctionOnSet(estimate, Before)
      BY <2>2, <2>4, <3>3, <3>4 DEF OpenEstimates
    <3>6. SumFunctionOnSet(estimate, Before) \in Nat
      BY <3>1, SumIsNat
    <3>7. CASE WindowOver(c)
      <4>1. SumFunctionOnSet(estimate, Before) = 0
        BY <2>1, <2>4, <3>7, SumEmpty
      <4>2. committed'[d] = e
        BY <1>1, <2>4, <3>7 DEF Reopened, LedgerTypeOK
      <4>3. QED
        BY <1>1, <3>5, <4>1, <4>2
    <3>8. CASE ~WindowOver(c)
      <4>1. SumFunctionOnSet(estimate, Before) <= committed[d]
        BY <2>1, <2>4, <3>8 DEF OpenInv, OpenEstimates
      <4>2. committed'[d] = committed[d] + e /\ committed[d] \in Int
        BY <1>1, <2>4, <3>8 DEF Reopened, LedgerTypeOK
      <4>3. QED
        BY <1>1, <3>5, <3>6, <4>1, <4>2
    <3>9. QED
      BY <3>7, <3>8
  <2>5. QED
    BY <2>3, <2>4
<1>6. QED
  BY <1>2, <1>4, <1>5 DEF OpenInv

LEMMA RefuseOpen ==
  ASSUME OpenInv, LedgerTypeOK', NEW r \in Requests, NEW c \in Clients, NEW e \in Costs,
         LedgerRefuse(r, c, e)
  PROVE  OpenInv'
<1> USE DEF LedgerRefuse, Refuse, holderVars
<1>1. LedgerTypeOK /\ IsFiniteSet(current)
  BY DEF OpenInv
<1>2. current' \subseteq held' /\ IsFiniteSet(current')
  BY WindowCloses
<1>3. NeverOvercounts'
  BY DEF OpenInv, LedgerTypeOK, TypeOK, Books, NeverOvercounts, Total, Reopened
<1>4. ASSUME NEW d \in Clients
      PROVE  (OpenEstimates(d) <= committed[d])'
  <2>1. OpenOf(d)' = IF d = c /\ WindowOver(c) THEN {} ELSE OpenOf(d)
    BY WindowCloses, ZenonT(60) DEF OpenOf
  <2>2. CASE d = c /\ WindowOver(c)
    <3>1. OpenEstimates(d)' = 0
      BY <2>1, <2>2, SumEmpty DEF OpenEstimates
    <3>2. committed'[d] = 0
      BY <1>1, <2>2 DEF Reopened, LedgerTypeOK
    <3>3. QED
      BY <3>1, <3>2
  <2>3. CASE ~(d = c /\ WindowOver(c))
    <3>1. OpenEstimates(d)' = OpenEstimates(d)
      BY <1>1, <2>1, <2>3, OpenSumStays
    <3>2. committed'[d] = committed[d]
      BY <1>1, <2>3 DEF Reopened, LedgerTypeOK
    <3>3. QED
      BY <3>1, <3>2 DEF OpenInv
  <2>4. QED
    BY <2>2, <2>3
<1>5. QED
  BY <1>2, <1>3, <1>4 DEF OpenInv

(* A reservation leaves the open ones with its estimate. *)
LEMMA OneCloses ==
  ASSUME OpenInv, NEW r \in Requests, current' = current \ {r}, UNCHANGED <<owner, estimate>>,
         NEW d \in Clients
  PROVE  OpenEstimates(d)' = OpenEstimates(d)
           - (IF r \in current /\ owner[r] = d THEN estimate[r] ELSE 0)
<1>1. LedgerTypeOK /\ IsFiniteSet(current)
  BY DEF OpenInv
<1>2. OpenOf(d)' = IF r \in current /\ owner[r] = d THEN OpenOf(d) \ {r} ELSE OpenOf(d)
  BY DEF OpenOf
<1>3. OpenEstimates(d)' = SumFunctionOnSet(estimate, OpenOf(d)')
  BY DEF OpenEstimates
<1>4. OpenEstimates(d) \in Nat
  BY <1>1, OpenSumIsNat
<1>5. CASE r \in current /\ owner[r] = d
  <2>1. r \in OpenOf(d) /\ estimate[r] \in Nat
    BY <1>1, <1>5 DEF OpenOf, LedgerTypeOK, TypeOK
  <2>2. OpenEstimates(d) = estimate[r] + SumFunctionOnSet(estimate, OpenOf(d) \ {r})
    BY <1>1, <2>1, OpenSumIsNat, SumRemove DEF OpenEstimates
  <2>3. SumFunctionOnSet(estimate, OpenOf(d) \ {r}) \in Int
    BY <1>1, OpenSumIsNat, FS_RemoveElement, SumIsInt
  <2>4. QED
    BY <1>2, <1>3, <1>4, <1>5, <2>1, <2>2, <2>3
<1>6. CASE ~(r \in current /\ owner[r] = d)
  BY <1>2, <1>3, <1>4, <1>6 DEF OpenEstimates
<1>7. QED
  BY <1>5, <1>6

LEMMA SettleOpen ==
  ASSUME OpenInv, LedgerTypeOK', NEW r \in Requests, NEW a \in Costs \cup {0}, LedgerSettle(r, a)
  PROVE  OpenInv'
<1> DEFINE c == owner[r]
           e == estimate[r]
<1>1. /\ LedgerTypeOK /\ IsFiniteSet(current)
      /\ c \in Clients /\ e \in Nat /\ a \in Nat
  <2>1. LedgerTypeOK /\ IsFiniteSet(current) /\ c \in Clients /\ e \in Costs
    BY DEF OpenInv, LedgerTypeOK, TypeOK
  <2> HIDE DEF c, e
  <2>2. QED
    BY <2>1
<1>2. /\ spent' = [spent EXCEPT ![c] = Adjusted(c, e, a)]
      /\ held' = held \ {r}
      /\ current' = current \ {r}
      /\ UNCHANGED <<elapsed, owner, estimate>>
  BY DEF LedgerSettle, Settle
<1>3. current' \subseteq held' /\ IsFiniteSet(current')
  BY <1>2, FS_RemoveElement DEF OpenInv
<1>4. \A d \in Clients : OpenEstimates(d)' = OpenEstimates(d)
           - (IF r \in current /\ c = d THEN e ELSE 0)
  BY <1>2, OneCloses
<1>5. \A d \in Clients : OpenEstimates(d)' \in Nat /\ OpenEstimates(d) \in Nat
  <2>1. TAKE d \in Clients
  <2>2. OpenEstimates(d) \in Nat
    BY <1>1, OpenSumIsNat
  <2>3. OpenOf(d)' \subseteq OpenOf(d)
    BY <1>2 DEF OpenOf
  <2>4. IsFiniteSet(OpenOf(d)') /\ \A q \in OpenOf(d)' : estimate[q] \in Nat
    BY <1>1, <2>3, OpenSumIsNat, FS_Subset
  <2>5. SumFunctionOnSet(estimate, OpenOf(d)') \in Nat
    BY <2>4, SumIsNat
  <2>6. QED
    BY <1>2, <2>2, <2>5 DEF OpenEstimates
<1>6. \A d \in Clients : OpenEstimates(d) <= committed[d]
  BY DEF OpenInv
<1>7. \A d \in Clients : spent[d] \in Nat /\ committed[d] \in Int /\ carried[d] \in Nat
                         /\ spent[d] <= committed[d] + carried[d]
  BY DEF OpenInv, LedgerTypeOK, TypeOK, Books, NeverOvercounts
<1>8. \A d \in Clients : spent'[d] = IF d = c THEN Adjusted(c, e, a) ELSE spent[d]
  BY <1>1, <1>2 DEF LedgerTypeOK, TypeOK
<1>9. Adjusted(c, e, a) = 0 \/ Adjusted(c, e, a) = spent[c] + (a - e)
  BY DEF Adjusted
<1> HIDE DEF c, e
<1>10. CASE r \in current
  <2>1. \A d \in Clients : committed'[d] = (IF d = c THEN committed[d] + (a - e) ELSE committed[d])
                           /\ carried'[d] = carried[d]
    BY <1>1, <1>10 DEF LedgerSettle, c, e, LedgerTypeOK
  <2>2. \A d \in Clients : OpenEstimates(d)' <= committed'[d]
    BY <1>1, <1>4, <1>5, <1>6, <1>7, <1>10, <2>1
  <2>3. NeverOvercounts'
    BY <1>1, <1>5, <1>7, <1>8, <1>9, <2>1, <2>2 DEF NeverOvercounts
  <2>4. QED
    BY <1>3, <2>2, <2>3 DEF OpenInv
<1>11. CASE r \notin current
  <2>1. \A d \in Clients :
          /\ committed'[d] = committed[d]
          /\ carried'[d] = IF d = c THEN carried[d] + Positive(a - e) ELSE carried[d]
    BY <1>1, <1>11 DEF LedgerSettle, c, e, LedgerTypeOK, Books
  <2>2. \A d \in Clients : OpenEstimates(d)' <= committed'[d]
    BY <1>4, <1>5, <1>6, <1>11, <2>1
  <2>3. Positive(a - e) \in Nat /\ Positive(a - e) >= a - e
    BY <1>1, PositiveIsNat
  <2>4. NeverOvercounts'
    BY <1>1, <1>5, <1>6, <1>7, <1>8, <1>9, <2>1, <2>3 DEF NeverOvercounts
  <2>5. QED
    BY <1>3, <2>2, <2>4 DEF OpenInv
<1>12. QED
  BY <1>10, <1>11

LEMMA LeakOpen ==
  ASSUME OpenInv, LedgerTypeOK', NEW r \in Requests, LedgerLeak(r)
  PROVE  OpenInv'
<1>1. /\ current' = current \ {r} /\ held' = held \ {r}
      /\ UNCHANGED <<spent, owner, estimate, committed, carried>>
  BY DEF LedgerLeak, Leak
<1>2. current' \subseteq held' /\ IsFiniteSet(current')
  BY <1>1, FS_RemoveElement DEF OpenInv
<1>3. ASSUME NEW d \in Clients
      PROVE  OpenEstimates(d)' <= committed'[d]
  <2>1. OpenEstimates(d)' = OpenEstimates(d)
           - (IF r \in current /\ owner[r] = d THEN estimate[r] ELSE 0)
    BY <1>1, OneCloses
  <2>2. OpenEstimates(d) \in Nat /\ OpenEstimates(d) <= committed[d] /\ committed[d] \in Int
    BY OpenSumIsNat DEF OpenInv, LedgerTypeOK
  <2>3. estimate[r] \in Nat
    BY DEF OpenInv, LedgerTypeOK, TypeOK
  <2>4. QED
    BY <1>1, <2>1, <2>2, <2>3
<1>4. NeverOvercounts'
  BY <1>1 DEF OpenInv, NeverOvercounts
<1>5. QED
  BY <1>2, <1>3, <1>4 DEF OpenInv

LEMMA OpenStep == OpenInv /\ LedgerTypeOK' /\ [LedgerNext]_allVars => OpenInv'
<1> SUFFICES ASSUME OpenInv, LedgerTypeOK', [LedgerNext]_allVars PROVE OpenInv'
  OBVIOUS
<1>1. ASSUME UNCHANGED <<spent, held, owner, estimate, current, committed, carried>>
      PROVE  OpenInv'
  BY <1>1 DEF OpenInv, OpenEstimates, OpenOf, NeverOvercounts
<1>2. CASE LedgerTick
  BY <1>1, <1>2 DEF LedgerTick, Tick, ledgerVars
<1>3. CASE UNCHANGED allVars
  BY <1>1, <1>3 DEF allVars, vars, ledgerVars
<1>4. QED
  BY <1>2, <1>3, GrantOpen, RefuseOpen, SettleOpen, LeakOpen DEF LedgerNext

(* The guard never charges a window for more than was committed in it, up to the
   late charges of earlier windows' reservations (guardrails.rs try_reserve,
   reconcile, release). *)
THEOREM GuardNeverOvercounts == LedgerSpec => []NeverOvercounts
<1>1. OpenInv => NeverOvercounts
  BY DEF OpenInv
<1>2. QED
  BY <1>1, InitOpen, OpenStep, LedgerTypeCorrect, PTL DEF LedgerSpec
=============================================================================
