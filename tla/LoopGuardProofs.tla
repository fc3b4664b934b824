-------------------------- MODULE LoopGuardProofs --------------------------
(***************************************************************************)
(* Proofs about LoopGuard for any prompts, callers, threshold, window,     *)
(* history and delay.  The deque and the log, read from their ends, agree  *)
(* as far as both go: what the deque has beyond the log is too old to      *)
(* matter, and what the log has beyond the deque was evicted by the cap or *)
(* had expired.  Counting in the one is then counting in the other.        *)
(***************************************************************************)
EXTENDS LoopGuard, FiniteSetTheorems, TLAPS

USE SizeAssumption DEF SizeAssumption

---------------------------------------------------------------------------
(* Where a prefix ends: what the CHOOSEs of the module rest on. *)

(* A set of naturals has a least element, because its initial segments have a
   smallest one. *)
LEMMA LeastNatural ==
  ASSUME NEW S, S \subseteq Nat, S # {}
  PROVE  \E m \in S : \A k \in S : m <= k
<1> DEFINE Segments == {0 .. k : k \in S}
           Order    == StrictSubsetOrdering(Nat)
<1>1. Segments \subseteq FiniteSubsetsOf(Nat) /\ Segments # {}
  <2>1. \A k \in Nat : 0 .. k \in SUBSET Nat /\ IsFiniteSet(0 .. k)
    BY FS_Interval
  <2>2. QED
    BY <2>1 DEF FiniteSubsetsOf
<1>2. PICK X \in Segments : \A Y \in Segments : <<Y, X>> \notin Order
  <2> HIDE DEF Segments
  <2>1. QED
    BY <1>1, WFMin, FS_StrictSubsetOrderingWellFounded
<1>3. PICK m \in S : X = 0 .. m
  OBVIOUS
<1>4. ASSUME NEW k \in S, k < m
      PROVE  FALSE
  <2>1. 0 .. k \subseteq 0 .. m /\ m \in 0 .. m /\ m \notin 0 .. k
    BY <1>4
  <2>2. <<0 .. k, X>> \in Order
    BY <2>1, <1>3 DEF StrictSubsetOrdering
  <2>3. QED
    BY <2>2, <1>2
<1>5. QED
  BY <1>4

(* The positions 1 .. n are the longest prefix outside G. *)
LEMMA PrefixEnds ==
  ASSUME NEW l \in Nat, NEW G, G \subseteq 1 .. l
  PROVE  \E n \in 0 .. l : (\A i \in 1 .. n : i \notin G) /\ (n < l => n + 1 \in G)
<1>1. CASE G = {}
  BY <1>1
<1>2. CASE G # {}
  <2>0. G \subseteq Nat
    OBVIOUS
  <2>1. PICK m \in G : \A k \in G : m <= k
    BY <2>0, <1>2, LeastNatural
  <2> DEFINE n == m - 1
  <2>2. n \in 0 .. l
    BY <2>1
  <2>3. \A i \in 1 .. n : i \notin G
    BY <2>1
  <2>4. n + 1 \in G
    BY <2>1
  <2> HIDE DEF n
  <2>5. QED
    BY <2>2, <2>3, <2>4
<1>3. QED
  BY <1>1, <1>2

LEMMA EntryTypes ==
  ASSUME NEW s \in Seq(Entries)
  PROVE  /\ Len(s) \in Nat
         /\ \A i \in 1 .. Len(s) : /\ s[i] \in Entries
                                   /\ s[i].age \in Nat /\ s[i].age <= Oldest
         /\ Oldest \in Nat
<1>1. Oldest \in Nat
  BY DEF Oldest
<1>2. Len(s) \in Nat /\ \A i \in 1 .. Len(s) : s[i] \in Entries
  OBVIOUS
<1>3. \A e \in Entries : e.age \in Nat /\ e.age <= Oldest
  BY <1>1 DEF Entries
<1>4. QED
  BY <1>1, <1>2, <1>3

LEMMA ExpiredPrefixIs ==
  ASSUME TypeOK, NEW now \in 0 .. LockDelay
  PROVE  LET n == ExpiredPrefix(now)
         IN  /\ n \in 0 .. Len(recent)
             /\ \A i \in 1 .. n : Since(now, recent[i]) > Window
             /\ n < Len(recent) => Since(now, recent[n + 1]) <= Window
<1> DEFINE Ends(n) == /\ \A i \in 1 .. n : Since(now, recent[i]) > Window
                      /\ n < Len(recent) => Since(now, recent[n + 1]) <= Window
           G == {i \in 1 .. Len(recent) : Since(now, recent[i]) <= Window}
<1>1. Len(recent) \in Nat /\ \A i \in 1 .. Len(recent) : Since(now, recent[i]) \in Nat
  BY EntryTypes DEF TypeOK, Since
<1>2. PICK n \in 0 .. Len(recent) :
        (\A i \in 1 .. n : i \notin G) /\ (n < Len(recent) => n + 1 \in G)
  <2> DEFINE l == Len(recent)
  <2>1. l \in Nat /\ G \subseteq 1 .. l
    BY <1>1
  <2> HIDE DEF G, l
  <2>2. \E n \in 0 .. l : (\A i \in 1 .. n : i \notin G) /\ (n < l => n + 1 \in G)
    BY <2>1, PrefixEnds
  <2>3. QED
    BY <2>2 DEF l
<1>3. Ends(n)
  BY <1>1, <1>2
<1>4. ExpiredPrefix(now) = CHOOSE k \in 0 .. Len(recent) : Ends(k)
  BY DEF ExpiredPrefix
<1> HIDE DEF Ends
<1>5. ExpiredPrefix(now) \in 0 .. Len(recent) /\ Ends(ExpiredPrefix(now))
  BY <1>2, <1>3, <1>4
<1>6. QED
  BY <1>5 DEF Ends

LEMMA ForgottenIs ==
  ASSUME NEW entries \in Seq(Entries)
  PROVE  /\ Forgotten(entries) \in 0 .. Len(entries)
         /\ \A i \in 1 .. Forgotten(entries) : entries[i].age = Oldest
<1> DEFINE Ends(n) == /\ \A i \in 1 .. n : entries[i].age = Oldest
                      /\ n < Len(entries) => entries[n + 1].age < Oldest
           G == {i \in 1 .. Len(entries) : entries[i].age < Oldest}
<1>1. /\ Len(entries) \in Nat /\ Oldest \in Nat
      /\ \A i \in 1 .. Len(entries) : entries[i].age \in Nat /\ entries[i].age <= Oldest
  BY EntryTypes
<1>2. PICK n \in 0 .. Len(entries) :
        (\A i \in 1 .. n : i \notin G) /\ (n < Len(entries) => n + 1 \in G)
  <2> DEFINE l == Len(entries)
  <2>1. l \in Nat /\ G \subseteq 1 .. l
    BY <1>1
  <2> HIDE DEF G, l
  <2>2. \E n \in 0 .. l : (\A i \in 1 .. n : i \notin G) /\ (n < l => n + 1 \in G)
    BY <2>1, PrefixEnds
  <2>3. QED
    BY <2>2 DEF l
<1>3. Ends(n)
  BY <1>1, <1>2
<1>4. Forgotten(entries) = CHOOSE k \in 0 .. Len(entries) : Ends(k)
  BY DEF Forgotten
<1> HIDE DEF Ends
<1>5. Forgotten(entries) \in 0 .. Len(entries) /\ Ends(Forgotten(entries))
  BY <1>2, <1>3, <1>4
<1>6. QED
  BY <1>5 DEF Ends

---------------------------------------------------------------------------
(* The invariant. *)

(* The position in the log of the i-th entry of the deque. *)
InLog(i) == i + Len(log) - Len(recent)

Aligned ==
  \A i \in 1 .. Len(recent) :
    /\ InLog(i) >= 1 => recent[i] = log[InLog(i)]
    /\ InLog(i) < 1  => recent[i].age = Oldest

Evicted ==
  \A j \in 1 .. Len(log) :
    j <= Len(log) - Len(recent) => j <= Len(log) - MaxHistory \/ log[j].age > Window

InOrder ==
  \A i, j \in 1 .. Len(recent) : i < j => recent[j].age <= recent[i].age + LockDelay

GuardInv == TypeOK /\ Aligned /\ Evicted /\ InOrder

LEMMA LensAreNat == ASSUME TypeOK PROVE Len(recent) \in Nat /\ Len(log) \in Nat
BY EntryTypes DEF TypeOK

LEMMA InitGuard == Init => GuardInv
BY DEF Init, GuardInv, TypeOK, Aligned, Evicted, InOrder, InLog, Idle

(* A record drops the first entries of the deque, which had expired but for
   one that goes when the deque is full, and appends the call. *)
LEMMA RecordShape ==
  ASSUME GuardInv, NEW c \in Callers, Record(c)
  PROVE  \E d \in 0 .. Len(recent) :
           /\ Len(recent') = Len(recent) - d + 1
           /\ recent' \in Seq(Entries) /\ Len(recent') <= MaxHistory
           /\ \A i \in 1 .. (Len(recent) - d) : recent'[i] = recent[i + d]
           /\ recent'[Len(recent) - d + 1] = [prompt |-> prompt[c], age |-> stamp[c]]
           /\ \A i \in 1 .. d :
                \/ Since(stamp[c], recent[i]) > Window
                \/ i = d /\ Len(recent) - d + 1 = MaxHistory
<1> DEFINE entry == [prompt |-> prompt[c], age |-> stamp[c]]
           n == ExpiredPrefix(stamp[c])
           l == Len(recent)
           whole == Append(Fresh(stamp[c]), entry)
           Drops(d) ==
             /\ Len(recent') = Len(recent) - d + 1
             /\ recent' \in Seq(Entries) /\ Len(recent') <= MaxHistory
             /\ \A i \in 1 .. (Len(recent) - d) : recent'[i] = recent[i + d]
             /\ recent'[Len(recent) - d + 1] = [prompt |-> prompt[c], age |-> stamp[c]]
             /\ \A i \in 1 .. d :
                  \/ Since(stamp[c], recent[i]) > Window
                  \/ i = d /\ Len(recent) - d + 1 = MaxHistory
<1>1. stamp[c] \in 0 .. LockDelay /\ l \in Nat /\ recent \in Seq(Entries) /\ l <= MaxHistory
  BY LensAreNat DEF GuardInv, TypeOK, Record, Idle
<1>2. n \in 0 .. l /\ \A i \in 1 .. n : Since(stamp[c], recent[i]) > Window
  BY <1>1, ExpiredPrefixIs DEF GuardInv
<1>3. entry \in Entries
  BY <1>1 DEF GuardInv, TypeOK, Entries, Oldest
<1> HIDE DEF n
<1>4. /\ Fresh(stamp[c]) \in Seq(Entries)
      /\ Len(Fresh(stamp[c])) = l - n
      /\ \A i \in 1 .. (l - n) : Fresh(stamp[c])[i] = recent[i + n]
  BY <1>1, <1>2 DEF Fresh, n
<1> HIDE DEF entry
<1>5. /\ whole \in Seq(Entries) /\ Len(whole) = l - n + 1
      /\ \A i \in 1 .. (l - n) : whole[i] = recent[i + n]
      /\ whole[l - n + 1] = entry
  BY <1>1, <1>2, <1>3, <1>4
<1>6. recent' = Capped(whole)
  BY DEF Record, entry
<1> HIDE DEF whole
<1>7. CASE Len(whole) <= MaxHistory
  <2>1. recent' = whole
    BY <1>1, <1>2, <1>5, <1>6, <1>7 DEF Capped
  <2>2. Drops(n)
    BY <2>1, <1>1, <1>2, <1>5, <1>7 DEF entry
  <2> HIDE DEF Drops
  <2>3. \E d \in 0 .. Len(recent) : Drops(d)
    BY <2>2, <1>2
  <2>4. QED
    BY <2>3 DEF Drops
<1>8. CASE Len(whole) > MaxHistory
  <2>1. l = MaxHistory /\ n = 0
    BY <1>1, <1>2, <1>5, <1>8
  <2>2. recent' = Tail(whole)
    BY <1>6, <1>8 DEF Capped
  <2>3. /\ recent' \in Seq(Entries) /\ Len(recent') = l
        /\ \A i \in 1 .. l : recent'[i] = whole[i + 1]
    BY <2>1, <2>2, <1>1, <1>5
  <2>4. /\ \A i \in 1 .. (l - 1) : recent'[i] = recent[i + 1]
        /\ recent'[l] = entry
    BY <2>1, <2>3, <1>1, <1>5
  <2>5. 1 \in 0 .. l /\ l - 1 + 1 = l
    BY <2>1, <1>1
  <2>6. Drops(1)
    <3>1. \A i \in 1 .. 1 : i = 1 /\ Len(recent) - 1 + 1 = MaxHistory
      BY <2>1, <2>5
    <3>2. QED
      BY <3>1, <2>1, <2>3, <2>4, <2>5, <1>1 DEF entry
  <2> HIDE DEF Drops
  <2>7. \E d \in 0 .. Len(recent) : Drops(d)
    BY <2>6, <2>5
  <2>8. QED
    BY <2>7 DEF Drops
<1>9. Len(whole) <= MaxHistory \/ Len(whole) > MaxHistory
  BY <1>1, <1>2, <1>5
<1> HIDE DEF Drops
<1>10. QED
  BY <1>7, <1>8, <1>9, Zenon

LEMMA RecordGuard ==
  ASSUME GuardInv, NEW c \in Callers, Record(c)
  PROVE  GuardInv'
<1> DEFINE entry == [prompt |-> prompt[c], age |-> stamp[c]]
           k == Len(recent)
           l == Len(log)
<1>1. PICK d \in 0 .. k :
        /\ Len(recent') = k - d + 1
        /\ recent' \in Seq(Entries) /\ Len(recent') <= MaxHistory
        /\ \A i \in 1 .. (k - d) : recent'[i] = recent[i + d]
        /\ recent'[k - d + 1] = entry
        /\ \A i \in 1 .. d :
             \/ Since(stamp[c], recent[i]) > Window
             \/ i = d /\ k - d + 1 = MaxHistory
  BY RecordShape
<1>2. k \in Nat /\ l \in Nat /\ stamp[c] \in 0 .. LockDelay
  BY LensAreNat DEF GuardInv, TypeOK, Record, Idle
<1>3. /\ \A i \in 1 .. k : recent[i].age \in Nat
      /\ \A j \in 1 .. l : log[j].age \in Nat
  BY EntryTypes DEF GuardInv, TypeOK
<1>4. entry \in Entries
  BY <1>2 DEF GuardInv, TypeOK, Entries, Oldest
<1>5. log' \in Seq(Entries) /\ Len(log') = l + 1 /\ log'[l + 1] = entry
      /\ \A j \in 1 .. l : log'[j] = log[j]
  BY <1>4, <1>2 DEF GuardInv, TypeOK, Record
<1>6. TypeOK'
  <2>1. stamp' \in [Callers -> {Idle} \cup 0 .. LockDelay]
    BY DEF GuardInv, TypeOK, Record
  <2>2. flagged' \subseteq Callers /\ prompt' \in [Callers -> Prompts]
    BY DEF GuardInv, TypeOK, Record
  <2>3. QED
    BY <1>1, <1>5, <2>1, <2>2 DEF TypeOK
<1> DEFINE q == Len(recent')
<1>7. ASSUME NEW i \in 1 .. q
      PROVE  /\ InLog(i)' = i + d + l - k
             /\ \/ i \in 1 .. (k - d) /\ i + d \in 1 .. k /\ recent'[i] = recent[i + d]
                \/ i = k - d + 1 /\ recent'[i] = entry
  <2>1. q = k - d + 1 /\ i \in Int
    BY <1>1
  <2>2. InLog(i)' = i + (l + 1) - (k - d + 1)
    BY <1>1, <1>5 DEF InLog
  <2>3. InLog(i)' = i + d + l - k
    BY <2>1, <2>2, <1>1, <1>2
  <2>4. CASE i \in 1 .. (k - d)
    <3>1. i + d \in 1 .. k
      BY <2>4, <1>1, <1>2
    <3>2. QED
      BY <2>3, <2>4, <3>1, <1>1
  <2>5. CASE i = k - d + 1
    BY <2>3, <2>5, <1>1
  <2>6. i \in 1 .. (k - d) \/ i = k - d + 1
    BY <2>1, <1>1, <1>2
  <2>7. QED
    BY <2>4, <2>5, <2>6
<1>8. Aligned'
  <2> SUFFICES ASSUME NEW i \in 1 .. q
               PROVE  /\ InLog(i)' >= 1 => recent'[i] = log'[InLog(i)']
                      /\ InLog(i)' < 1  => recent'[i].age = Oldest
    BY DEF Aligned
  <2>1. CASE i = k - d + 1 /\ recent'[i] = entry
    BY <2>1, <1>7, <1>2, <1>5, SMTT(30)
  <2>2. CASE i \in 1 .. (k - d) /\ i + d \in 1 .. k /\ recent'[i] = recent[i + d]
    <3>1. InLog(i)' = InLog(i + d) /\ InLog(i + d) \in Int /\ InLog(i + d) <= l
      BY <1>7, <1>2, <2>2, SMTT(30) DEF InLog
    <3>2. /\ InLog(i + d) >= 1 => recent[i + d] = log[InLog(i + d)]
          /\ InLog(i + d) < 1  => recent[i + d].age = Oldest
      BY <2>2 DEF GuardInv, Aligned
    <3> HIDE DEF InLog
    <3>3. InLog(i + d) >= 1 => log'[InLog(i + d)] = log[InLog(i + d)]
      BY <3>1, <1>5, <1>2
    <3>4. QED
      BY <3>1, <3>2, <3>3, <2>2
  <2>3. QED
    BY <2>1, <2>2, <1>7
<1>9. Evicted'
  <2> SUFFICES ASSUME NEW j \in 1 .. (l + 1), j <= l + 1 - q
               PROVE  j <= l + 1 - MaxHistory \/ log'[j].age > Window
    BY <1>5 DEF Evicted
  <2>1. j <= l - k + d /\ j \in 1 .. l /\ log'[j] = log[j]
    BY <1>1, <1>2, <1>5, SMTT(30)
  <2>2. CASE j <= l - k
    BY <2>1, <2>2, <1>2 DEF GuardInv, Evicted
  <2>3. CASE j > l - k
    <3> DEFINE i == j - l + k
    <3>1. i \in 1 .. d /\ i \in 1 .. k /\ InLog(i) = j
      BY <2>1, <2>3, <1>2 DEF InLog
    <3>2. log[j] = recent[i]
      BY <3>1, <2>1 DEF GuardInv, Aligned
    <3>3. CASE Since(stamp[c], recent[i]) > Window
      BY <3>3, <3>2, <2>1, <1>2, <1>3, SMTT(30) DEF Since
    <3>4. CASE i = d /\ k - d + 1 = MaxHistory
      BY <3>4, <1>2, <2>1
    <3> HIDE DEF i
    <3>5. QED
      BY <3>1, <3>3, <3>4, <1>1
  <2>4. QED
    BY <2>2, <2>3, <2>1, <1>2
<1>10. InOrder'
  <2> SUFFICES ASSUME NEW i \in 1 .. q, NEW j \in 1 .. q, i < j
               PROVE  recent'[j].age <= recent'[i].age + LockDelay
    BY DEF InOrder
  <2>1. i \in 1 .. (k - d) /\ i + d \in 1 .. k /\ recent'[i] = recent[i + d]
    BY <1>7, <1>1, <1>2
  <2>2. CASE j = k - d + 1 /\ recent'[j] = entry
    BY <2>1, <2>2, <1>2, <1>3, SMTT(30)
  <2>3. CASE j \in 1 .. (k - d) /\ j + d \in 1 .. k /\ recent'[j] = recent[j + d]
    <3>1. i + d < j + d
      BY <1>2
    <3>2. QED
      BY <2>1, <2>3, <3>1 DEF GuardInv, InOrder
  <2>4. QED
    BY <2>2, <2>3, <1>7
<1>11. QED
  BY <1>6, <1>8, <1>9, <1>10 DEF GuardInv

LEMMA StampGuard ==
  ASSUME GuardInv, NEW c \in Callers, NEW p \in Prompts, Stamp(c, p)
  PROVE  GuardInv'
<1>1. TypeOK'
  BY DEF GuardInv, TypeOK, Stamp
<1>2. QED
  BY <1>1 DEF GuardInv, Stamp, Aligned, Evicted, InOrder, InLog

LEMMA OlderIs ==
  ASSUME NEW e \in Entries
  PROVE  /\ Older(e) \in Entries
         /\ Older(e).age = IF e.age < Oldest THEN e.age + 1 ELSE Oldest
BY DEF Older, Entries, Oldest

LEMMA TickGuard ==
  ASSUME GuardInv, Tick
  PROVE  GuardInv'
<1> DEFINE k == Len(recent)
           l == Len(log)
           m == Forgotten(Aged(log))
<1>1. k \in Nat /\ l \in Nat /\ Oldest \in Nat /\ Oldest > Window
  BY LensAreNat DEF GuardInv, Oldest
<1>2. /\ recent' \in Seq(Entries) /\ Len(recent') = k
      /\ \A i \in 1 .. k : recent[i] \in Entries /\ recent'[i] = Older(recent[i])
  BY <1>1, OlderIs, EntryTypes DEF GuardInv, TypeOK, Tick, Aged
<1>3. /\ Aged(log) \in Seq(Entries) /\ Len(Aged(log)) = l
      /\ \A j \in 1 .. l : log[j] \in Entries /\ Aged(log)[j] = Older(log[j])
  BY <1>1, OlderIs, EntryTypes DEF GuardInv, TypeOK, Aged
<1>4. m \in 0 .. l /\ \A j \in 1 .. m : Aged(log)[j].age = Oldest
  BY <1>3, ForgottenIs
<1> HIDE DEF m
<1>5. /\ log' \in Seq(Entries) /\ Len(log') = l - m
      /\ \A j \in 1 .. (l - m) : log'[j] = Aged(log)[j + m]
  BY <1>1, <1>3, <1>4 DEF Tick, m
<1>6. TypeOK'
  <2>1. stamp' \in [Callers -> {Idle} \cup 0 .. LockDelay]
    BY DEF GuardInv, TypeOK, Tick, Idle
  <2>2. QED
    BY <2>1, <1>2, <1>5 DEF GuardInv, TypeOK, Tick
<1>7. /\ \A i \in 1 .. k : recent[i].age \in Nat /\ recent[i].age <= Oldest
      /\ \A j \in 1 .. l : log[j].age \in Nat
  BY EntryTypes DEF GuardInv, TypeOK
<1>8. Aligned'
  <2> SUFFICES ASSUME NEW i \in 1 .. k
               PROVE  /\ InLog(i)' >= 1 => recent'[i] = log'[InLog(i)']
                      /\ InLog(i)' < 1  => recent'[i].age = Oldest
    BY <1>2 DEF Aligned
  <2> DEFINE n == InLog(i)
  <2>1. InLog(i)' = n - m /\ n \in Int /\ n <= l
    BY <1>1, <1>2, <1>4, <1>5 DEF InLog
  <2>2. n >= 1 => recent[i] = log[n]
    BY DEF GuardInv, Aligned
  <2>3. n < 1 => recent[i].age = Oldest
    BY DEF GuardInv, Aligned
  <2> HIDE DEF n
  <2>4. CASE n < 1
    <3>1. recent'[i].age = Oldest
      BY <1>1, <1>2, <2>3, <2>4, OlderIs
    <3>2. n - m < 1
      BY <2>1, <2>4, <1>1, <1>4
    <3>3. ~ (InLog(i)' >= 1)
      BY <3>2, <2>1, <1>1, <1>4
    <3>4. QED
      BY <3>1, <3>3
  <2>5. CASE n >= 1
    <3>1. n \in 1 .. l /\ recent'[i] = Aged(log)[n]
      BY <2>1, <2>2, <2>5, <1>1, <1>2, <1>3
    <3>2. CASE n <= m
      BY <3>1, <3>2, <2>1, <1>1, <1>4
    <3>3. CASE n > m
      <4>1. n - m \in 1 .. (l - m) /\ n - m + m = n
        BY <3>1, <3>3, <1>1, <1>4
      <4>2. log'[n - m] = Aged(log)[n]
        BY <4>1, <1>5
      <4>3. QED
        BY <4>1, <4>2, <3>1, <2>1
    <3>4. QED
      BY <3>2, <3>3, <2>1, <1>4
  <2>6. QED
    BY <2>4, <2>5, <2>1
<1>9. Evicted'
  <2> SUFFICES ASSUME NEW j \in 1 .. (l - m), j <= l - m - k
               PROVE  j <= l - m - MaxHistory \/ log'[j].age > Window
    BY <1>2, <1>5 DEF Evicted
  <2>1. j + m \in 1 .. l /\ j + m <= l - k /\ log'[j] = Older(log[j + m])
    BY <1>1, <1>3, <1>4, <1>5
  <2>2. CASE j + m <= l - MaxHistory
    BY <2>2, <1>1, <1>4
  <2>3. CASE log[j + m].age > Window
    <3>1. log[j + m] \in Entries /\ log[j + m].age \in Nat
      BY <2>1, <1>3, <1>7
    <3>2. Older(log[j + m]).age > Window
      BY <3>1, <2>3, <1>1, OlderIs
    <3>3. QED
      BY <3>2, <2>1
  <2>4. QED
    BY <2>1, <2>2, <2>3 DEF GuardInv, Evicted
<1>10. InOrder'
  <2> SUFFICES ASSUME NEW i \in 1 .. k, NEW j \in 1 .. k, i < j
               PROVE  recent'[j].age <= recent'[i].age + LockDelay
    BY <1>2 DEF InOrder
  <2>1. recent[j].age <= recent[i].age + LockDelay
    BY DEF GuardInv, InOrder
  <2>2. /\ recent'[i].age = IF recent[i].age < Oldest THEN recent[i].age + 1 ELSE Oldest
        /\ recent'[j].age = IF recent[j].age < Oldest THEN recent[j].age + 1 ELSE Oldest
    BY <1>2, OlderIs
  <2>3. /\ recent[i].age \in Nat /\ recent[i].age <= Oldest
        /\ recent[j].age \in Nat /\ recent[j].age <= Oldest
    BY <1>7
  <2>4. QED
    BY <2>1, <2>2, <2>3, <1>1
<1>11. QED
  BY <1>6, <1>8, <1>9, <1>10 DEF GuardInv

LEMMA GuardStep == GuardInv /\ [Next]_vars => GuardInv'
<1> SUFFICES ASSUME GuardInv, [Next]_vars PROVE GuardInv'
  OBVIOUS
<1>1. CASE UNCHANGED vars
  BY <1>1 DEF vars, GuardInv, TypeOK, Aligned, Evicted, InOrder, InLog
<1>2. QED
  BY <1>1, StampGuard, RecordGuard, TickGuard DEF Next

LEMMA GuardHolds == Spec => []GuardInv
BY InitGuard, GuardStep, PTL DEF Spec

(* TypeOK: the deque is never longer than MAX_HISTORY_PER_CLIENT, and no call
   waits for the lock longer than LockDelay. *)
THEOREM LoopTypeCorrect == Spec => []TypeOK
<1>1. GuardInv => TypeOK
  BY DEF GuardInv
<1>2. QED
  BY <1>1, GuardHolds, PTL

---------------------------------------------------------------------------
(* Counting. *)

LEMMA ShiftedCount ==
  ASSUME NEW S, NEW T, IsFiniteSet(T), S \subseteq Int, NEW s \in Int,
         \A i \in S : i + s \in T
  PROVE  /\ IsFiniteSet(S) /\ Cardinality(S) <= Cardinality(T)
         /\ Cardinality(S) \in Nat /\ Cardinality(T) \in Nat
<1> DEFINE f == [i \in S |-> i + s]
<1>1. f \in Injection(S, T)
  BY DEF Injection, IsInjective
<1> HIDE DEF f
<1>2. QED
  BY <1>1, FS_Injection, FS_CardinalityType

(* The calls of p that Repeats counts, and those that Calls counts but for the
   one that is being recorded. *)
Counted(now, p) == {i \in 1 .. Len(Fresh(now)) : Fresh(now)[i].prompt = p}
Logged(now, p, first, w) ==
  {i \in first .. Len(log) : log[i].prompt = p /\ Since(now, log[i]) <= w}

LEMMA CountsAre ==
  ASSUME NEW c \in Callers, NEW first, NEW w
  PROVE  /\ Repeats(Fresh(stamp[c]), prompt[c]) = Cardinality(Counted(stamp[c], prompt[c]))
         /\ Calls(c, first, w) = 1 + Cardinality(Logged(stamp[c], prompt[c], first, w))
BY DEF Repeats, Counted, Calls, Logged

(* A call that was recorded after a fresh one is fresh but for the delay. *)
LEMMA LagIsBounded ==
  ASSUME NEW now \in 0 .. LockDelay, NEW e, NEW f, e.age \in Nat, f.age \in Nat,
         e.age <= f.age + LockDelay, Since(now, f) <= Window
  PROVE  Since(now, e) <= Window + LockDelay /\ e.age < Oldest
<1>1. f.age <= Window + now
  BY DEF Since
<1>2. e.age <= Window + now + LockDelay
  BY <1>1
<1>3. Since(now, e) <= Window + LockDelay
  BY <1>2 DEF Since
<1>4. e.age < Oldest
  BY <1>2 DEF Oldest
<1>5. QED
  BY <1>3, <1>4

(* What the deque counts after the expired prefix is in the log and fresh, but
   for the delay by which a call may have been overtaken. *)
LEMMA CountedIsLogged ==
  ASSUME GuardInv, NEW now \in 0 .. LockDelay, NEW p
  PROVE  LET counted == Counted(now, p)
             logged  == Logged(now, p, 1, Window + LockDelay)
         IN  /\ Cardinality(counted) <= Cardinality(logged)
             /\ Cardinality(counted) \in Nat /\ Cardinality(logged) \in Nat
<1> USE DEF Counted, Logged
<1> DEFINE counted == Counted(now, p)
           logged  == Logged(now, p, 1, Window + LockDelay)
           n == ExpiredPrefix(now)
           k == Len(recent)
           l == Len(log)
<1>1. k \in Nat /\ l \in Nat /\ recent \in Seq(Entries)
      /\ \A i \in 1 .. k : recent[i].age \in Nat
  BY LensAreNat, EntryTypes DEF GuardInv, TypeOK
<1>2. n \in 0 .. k /\ (n < k => Since(now, recent[n + 1]) <= Window)
  BY ExpiredPrefixIs DEF GuardInv
<1> HIDE DEF n
<1>3. /\ Len(Fresh(now)) = k - n
      /\ \A i \in 1 .. (k - n) : Fresh(now)[i] = recent[i + n]
  BY <1>1, <1>2 DEF Fresh, n
<1>4. ASSUME NEW i \in counted
      PROVE  i + (n + l - k) \in logged
  <2> DEFINE j == i + n
  <2>1. i \in 1 .. (k - n) /\ j \in 1 .. k /\ n < k /\ n + 1 \in 1 .. k /\ recent[j].prompt = p
    BY <1>1, <1>2, <1>3
  <2>2. recent[j].age <= recent[n + 1].age + LockDelay
    <3>1. CASE i = 1
      <4>1. j = n + 1
        BY <3>1, <1>2
      <4>2. recent[n + 1].age \in Nat
        BY <2>1, <1>1
      <4>3. QED
        BY <4>1, <4>2
    <3>2. CASE i > 1
      <4>1. n + 1 < j
        BY <3>2, <2>1, <1>2
      <4>2. QED
        BY <4>1, <2>1 DEF GuardInv, InOrder
    <3>3. QED
      BY <3>1, <3>2, <2>1
  <2>3. recent[j].age \in Nat /\ recent[n + 1].age \in Nat
    BY <2>1, <1>1
  <2>4. Since(now, recent[j]) <= Window + LockDelay /\ recent[j].age < Oldest
    <3>1. Since(now, recent[n + 1]) <= Window
      BY <2>1, <1>2
    <3> HIDE DEF j
    <3>2. QED
      BY <3>1, <2>2, <2>3, LagIsBounded
  <2>5. InLog(j) = i + (n + l - k) /\ InLog(j) \in Int /\ InLog(j) <= l
    <3>1. i \in Int /\ n \in Int /\ i + n <= k
      BY <2>1, <1>2
    <3>2. InLog(j) = (i + n) + l - k
      BY DEF InLog
    <3>3. QED
      BY <3>1, <3>2, <1>1
  <2>6. InLog(j) >= 1 /\ recent[j] = log[InLog(j)]
    BY <2>1, <2>3, <2>4, <2>5, SMTT(30) DEF GuardInv, Aligned, Oldest
  <2> HIDE DEF j
  <2>7. QED
    BY <2>1, <2>4, <2>5, <2>6, <1>1
<1>5. IsFiniteSet(logged) /\ counted \subseteq Int /\ n + l - k \in Int
  <2>1. IsFiniteSet(1 .. l)
    BY <1>1, FS_Interval
  <2>2. IsFiniteSet(logged)
    BY <2>1, FS_Subset
  <2>3. QED
    BY <2>2, <1>1, <1>2
<1> HIDE DEF Counted, Logged
<1>6. Cardinality(counted) <= Cardinality(logged)
      /\ Cardinality(counted) \in Nat /\ Cardinality(logged) \in Nat
  BY <1>4, <1>5, ShiftedCount
<1>7. QED
  BY <1>6

(* And what is fresh in the log, but for that delay, is counted. *)
LEMMA LoggedIsCounted ==
  ASSUME GuardInv, NEW now \in 0 .. LockDelay, NEW p,
         NEW first \in Nat \ {0}, first > Len(log) - MaxHistory
  PROVE  LET counted == Counted(now, p)
             logged  == Logged(now, p, first, Window - LockDelay)
         IN  /\ Cardinality(logged) <= Cardinality(counted)
             /\ Cardinality(counted) \in Nat /\ Cardinality(logged) \in Nat
<1> USE DEF Counted, Logged
<1> DEFINE counted == Counted(now, p)
           logged  == Logged(now, p, first, Window - LockDelay)
           n == ExpiredPrefix(now)
           k == Len(recent)
           l == Len(log)
<1>1. k \in Nat /\ l \in Nat /\ recent \in Seq(Entries)
      /\ \A i \in 1 .. l : log[i].age \in Nat
  BY LensAreNat, EntryTypes DEF GuardInv, TypeOK
<1>2. n \in 0 .. k /\ \A i \in 1 .. n : Since(now, recent[i]) > Window
  BY ExpiredPrefixIs DEF GuardInv
<1> HIDE DEF n
<1>3. /\ Len(Fresh(now)) = k - n
      /\ \A i \in 1 .. (k - n) : Fresh(now)[i] = recent[i + n]
  BY <1>1, <1>2, SMTT(30) DEF Fresh, n
<1>4. ASSUME NEW j \in logged
      PROVE  j + (k - l - n) \in counted
  <2> DEFINE i == j + k - l
  <2>1. j \in 1 .. l /\ j > l - MaxHistory /\ log[j].prompt = p
        /\ Since(now, log[j]) <= Window - LockDelay /\ log[j].age \in Nat
    BY <1>1
  <2>2. log[j].age <= Window
    BY <2>1 DEF Since
  <2>3. j > l - k
    <3>1. j <= l - k => j <= l - MaxHistory \/ log[j].age > Window
      BY <2>1 DEF GuardInv, Evicted
    <3>2. QED
      BY <3>1, <2>1, <2>2, <1>1
  <2>4. i \in 1 .. k /\ InLog(i) = j
    BY <2>1, <2>3, <1>1 DEF InLog
  <2>5. recent[i] = log[j]
    BY <2>1, <2>4 DEF GuardInv, Aligned
  <2>6. Since(now, recent[i]) <= Window
    BY <2>1, <2>2, <2>5 DEF Since
  <2>7. ~ (i \in 1 .. n)
    BY <2>1, <2>5, <2>6, <1>2 DEF Since
  <2>8. i - n \in 1 .. (k - n) /\ i - n + n = i /\ i - n = j + (k - l - n)
    BY <2>1, <2>4, <2>7, <1>1, <1>2
  <2> HIDE DEF i
  <2>9. Fresh(now)[i - n] = recent[i]
    BY <2>8, <1>3
  <2>10. QED
    BY <2>1, <2>5, <2>8, <2>9, <1>3
<1>5. IsFiniteSet(counted) /\ logged \subseteq Int /\ k - l - n \in Int
  <2>1. IsFiniteSet(1 .. Len(Fresh(now)))
    BY <1>1, <1>2, <1>3, FS_Interval
  <2>2. IsFiniteSet(counted)
    BY <2>1, FS_Subset
  <2>3. QED
    BY <2>2, <1>1, <1>2
<1> HIDE DEF Counted, Logged
<1>6. Cardinality(logged) <= Cardinality(counted)
      /\ Cardinality(counted) \in Nat /\ Cardinality(logged) \in Nat
  BY <1>4, <1>5, ShiftedCount
<1>7. QED
  BY <1>6

---------------------------------------------------------------------------
(* The two promises. *)

LEMMA OnlyRecordReturns ==
  ASSUME GuardInv, [Next]_vars, NEW c \in Callers, Returns(c)
  PROVE  Record(c) /\ stamp[c] \in 0 .. LockDelay
<1>1. stamp \in [Callers -> {Idle} \cup 0 .. LockDelay] /\ stamp[c] # Idle /\ stamp'[c] = Idle
  BY DEF GuardInv, TypeOK, Returns
<1>2. ASSUME NEW d \in Callers, NEW p \in Prompts, Stamp(d, p)
      PROVE  FALSE
  BY <1>1, <1>2 DEF Stamp, Idle
<1>3. ASSUME NEW d \in Callers, Record(d)
      PROVE  d = c
  BY <1>1, <1>3 DEF Record
<1>4. ~ Tick
  BY <1>1 DEF Tick, Idle
<1>5. ~ UNCHANGED vars
  BY <1>1 DEF vars
<1>6. QED
  BY <1>1, <1>2, <1>3, <1>4, <1>5 DEF Next

(* NoFalseAlarm: whom check_and_record flags has made Threshold calls of the
   prompt within the window and the delay. *)
THEOREM NobodyFlaggedFalsely == Spec => NoFalseAlarm
<1> DEFINE Honest(c) == Returns(c) /\ c \in flagged' => Calls(c, 1, Window + LockDelay) >= Threshold
<1>1. ASSUME GuardInv, [Next]_vars, NEW c \in Callers
      PROVE  Honest(c)
  <2> SUFFICES ASSUME Returns(c), c \in flagged'
               PROVE  Calls(c, 1, Window + LockDelay) >= Threshold
    OBVIOUS
  <2>1. Record(c) /\ stamp[c] \in 0 .. LockDelay
    BY <1>1, OnlyRecordReturns
  <2>2. Repeats(Fresh(stamp[c]), prompt[c]) + 1 >= Threshold
    BY <2>1 DEF Record
  <2>3. QED
    BY <1>1, <2>1, <2>2, CountsAre, CountedIsLogged
<1>2. GuardInv /\ [Next]_vars => [\A c \in Callers : Honest(c)]_vars
  BY <1>1
<1>3. QED
  BY <1>2, GuardHolds, PTL DEF Spec, NoFalseAlarm

(* LoopCaught: Threshold calls of one prompt in the window, less the delay, and
   among the last MaxHistory calls are flagged. *)
THEOREM LoopsAreCaught == Spec => LoopCaught
<1> DEFINE first == IF Len(log) > MaxHistory THEN Len(log) - MaxHistory + 1 ELSE 1
           Caught(c) == Returns(c) /\ Calls(c, first, Window - LockDelay) >= Threshold => c \in flagged'
<1>1. ASSUME GuardInv, [Next]_vars, NEW c \in Callers
      PROVE  Caught(c)
  <2> SUFFICES ASSUME Returns(c), Calls(c, first, Window - LockDelay) >= Threshold
               PROVE  c \in flagged'
    OBVIOUS
  <2>1. Record(c) /\ stamp[c] \in 0 .. LockDelay
    BY <1>1, OnlyRecordReturns
  <2>2. first \in Nat \ {0} /\ first > Len(log) - MaxHistory
    BY <1>1, LensAreNat DEF GuardInv
  <2> HIDE DEF first
  <2>3. Repeats(Fresh(stamp[c]), prompt[c]) + 1 >= Threshold
    BY <1>1, <2>1, <2>2, CountsAre, LoggedIsCounted
  <2>4. QED
    BY <2>1, <2>3 DEF Record
<1>2. GuardInv /\ [Next]_vars => [\A c \in Callers : Caught(c)]_vars
  BY <1>1
<1>3. QED
  BY <1>2, GuardHolds, PTL DEF Spec, LoopCaught
=============================================================================
