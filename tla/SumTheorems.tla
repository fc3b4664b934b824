----------------------------- MODULE SumTheorems ----------------------------
(***************************************************************************)
(* What SumFunctionOnSet of the module Functions gives for a finite set of *)
(* indices: its recursion equation in any order, and the facts about sums  *)
(* that the books of the spend guard and of the audit log rest on.         *)
(* Induction is over sets of numbers or of sets, never over an operator.   *)
(***************************************************************************)
EXTENDS Functions, FiniteSetTheorems, TLAPS

LEMMA NatSetInduction ==
  ASSUME NEW G, 0 \in G, \A n \in Nat : n \in G => n + 1 \in G
  PROVE  Nat \subseteq G
<1> SUFFICES ASSUME NEW m \in Nat, m \notin G PROVE FALSE
  OBVIOUS
<1> DEFINE Bad == {n \in Nat : n \notin G}
<1>1. PICK k \in Bad : \A l \in Bad : ~ (<<l, k>> \in OpToRel(<, Nat))
  <2>1. Bad \subseteq Nat /\ Bad # {}
    OBVIOUS
  <2> HIDE DEF Bad
  <2>2. QED
    BY <2>1, NatLessThanWellFounded, WFMin, Zenon
<1>2. k # 0 /\ k - 1 \in Nat /\ (k - 1) + 1 = k
  OBVIOUS
<1>3. k - 1 \notin G
  BY <1>2
<1>4. <<k - 1, k>> \in Nat \X Nat /\ k - 1 \in Bad
  BY <1>2, <1>3
<1>5. ~ (<<k - 1, k>>[1] < <<k - 1, k>>[2])
  BY <1>1, <1>4 DEF OpToRel
<1>6. QED
  BY <1>5

(* Every subset of a finite S is in G when it is there as soon as all sets with
   one element less are. *)
LEMMA SubsetInduction ==
  ASSUME NEW S, IsFiniteSet(S), NEW G,
         \A T \in SUBSET S : (\A x \in T : T \ {x} \in G) => T \in G
  PROVE  SUBSET S \subseteq G
<1> DEFINE Done == {n \in Nat : \A T \in SUBSET S : Cardinality(T) = n => T \in G}
<1>1. \A T \in SUBSET S : IsFiniteSet(T) /\ Cardinality(T) \in Nat
  BY FS_Subset, FS_CardinalityType
<1>2. 0 \in Done
  BY <1>1, FS_EmptySet
<1>3. ASSUME NEW n \in Nat, n \in Done
      PROVE  n + 1 \in Done
  <2>1. SUFFICES ASSUME NEW T \in SUBSET S, Cardinality(T) = n + 1 PROVE T \in G
    OBVIOUS
  <2>2. ASSUME NEW x \in T
        PROVE  T \ {x} \in G
    <3>1. Cardinality(T \ {x}) = Cardinality(T) - 1
      BY <1>1, <2>2, FS_RemoveElement
    <3>2. Cardinality(T \ {x}) = n /\ T \ {x} \in SUBSET S
      BY <2>1, <3>1
    <3>3. QED
      BY <1>3, <3>2
  <2>3. QED
    BY <2>2
<1>4. Nat \subseteq Done
  <2> HIDE DEF Done
  <2>1. QED
    BY <1>2, <1>3, NatSetInduction
<1>5. QED
  BY <1>1, <1>4

---------------------------------------------------------------------------
(* The recursive function that defines a sum exists.  It is built from
   functions that satisfy its equation on the sets of at most n indices. *)
AnyOf(T) == CHOOSE x \in T : TRUE
SumStep(w, g, T) == IF T = {} THEN 0 ELSE w[AnyOf(T)] + g[T \ {AnyOf(T)}]
IsSumTable(w, g, S) == g = [T \in SUBSET S |-> SumStep(w, g, T)]

LEMMA SumIs ==
  ASSUME NEW w, NEW S
  PROVE  SumFunctionOnSet(w, S) = (CHOOSE g : IsSumTable(w, g, S))[S]
BY DEF SumFunctionOnSet, FoldFunctionOnSet, MapThenFoldSet, IsSumTable, SumStep, AnyOf

LEMMA SumExists ==
  ASSUME NEW w, NEW S, IsFiniteSet(S)
  PROVE  \E g : IsSumTable(w, g, S)
<1> DEFINE UpTo(g, n) == \A T \in SUBSET S : Cardinality(T) <= n => g[T] = SumStep(w, g, T)
           Done == {n \in Nat : \E g : UpTo(g, n)}
<1>1. \A T \in SUBSET S : IsFiniteSet(T) /\ Cardinality(T) \in Nat
  BY FS_Subset, FS_CardinalityType
<1>2. 0 \in Done
  <2> DEFINE g == [T \in SUBSET S |-> 0]
  <2>1. \A T \in SUBSET S : Cardinality(T) <= 0 => T = {}
    BY <1>1, FS_EmptySet
  <2>2. UpTo(g, 0)
    BY <2>1 DEF SumStep
  <2> HIDE DEF g, UpTo
  <2>3. QED
    BY <2>2
<1>3. ASSUME NEW n \in Nat, n \in Done
      PROVE  n + 1 \in Done
  <2>1. PICK g : UpTo(g, n)
    BY <1>3
  <2> DEFINE h == [T \in SUBSET S |-> SumStep(w, g, T)]
  <2>2. ASSUME NEW T \in SUBSET S, Cardinality(T) <= n + 1
        PROVE  h[T] = SumStep(w, h, T)
    <3>1. CASE T = {}
      BY <3>1 DEF SumStep
    <3>2. CASE T # {}
      <4>1. AnyOf(T) \in T
        BY <3>2 DEF AnyOf
      <4>2. Cardinality(T \ {AnyOf(T)}) <= n /\ T \ {AnyOf(T)} \in SUBSET S
        BY <1>1, <2>2, <4>1, FS_RemoveElement
      <4>3. g[T \ {AnyOf(T)}] = SumStep(w, g, T \ {AnyOf(T)})
        BY <2>1, <4>2
      <4>4. h[T \ {AnyOf(T)}] = g[T \ {AnyOf(T)}]
        BY <4>2, <4>3
      <4>5. h[T] = w[AnyOf(T)] + g[T \ {AnyOf(T)}]
        BY <3>2 DEF SumStep
      <4>6. QED
        BY <3>2, <4>4, <4>5 DEF SumStep
    <3>3. QED
      BY <3>1, <3>2
  <2>3. UpTo(h, n + 1)
    BY <2>2
  <2> HIDE DEF h, UpTo
  <2>4. QED
    BY <2>3
<1>4. Cardinality(S) \in Done
  <2> HIDE DEF Done
  <2>1. Nat \subseteq Done
    BY <1>2, <1>3, NatSetInduction
  <2>2. QED
    BY <1>1, <2>1
<1>5. PICK g : UpTo(g, Cardinality(S))
  BY <1>4
<1> DEFINE h == [T \in SUBSET S |-> g[T]]
<1>6. ASSUME NEW T \in SUBSET S
      PROVE  h[T] = SumStep(w, h, T)
  <2>1. Cardinality(T) <= Cardinality(S)
    BY FS_Subset
  <2>2. g[T] = SumStep(w, g, T)
    BY <1>5, <2>1
  <2>3. CASE T = {}
    BY <2>2, <2>3 DEF SumStep
  <2>4. CASE T # {}
    <3>1. T \ {AnyOf(T)} \in SUBSET S
      OBVIOUS
    <3>2. QED
      BY <2>2, <2>4, <3>1 DEF SumStep
  <2>5. QED
    BY <2>3, <2>4
<1>7. IsSumTable(w, h, S)
  BY <1>6 DEF IsSumTable
<1>8. QED
  BY <1>7

(* A table of the sums over the subsets of S. *)
SumTable(w, S) == CHOOSE g : IsSumTable(w, g, S)

LEMMA TableIs ==
  ASSUME NEW w, NEW S, IsFiniteSet(S), NEW T \in SUBSET S
  PROVE  SumTable(w, S)[T] = SumStep(w, SumTable(w, S), T)
<1>1. IsSumTable(w, SumTable(w, S), S)
  BY SumExists DEF SumTable
<1> HIDE DEF SumTable
<1>2. QED
  BY <1>1 DEF IsSumTable

LEMMA TableHasType ==
  ASSUME NEW w, NEW S, IsFiniteSet(S), \A x \in S : w[x] \in Int
  PROVE  \A T \in SUBSET S : SumTable(w, S)[T] \in Int
<1> DEFINE G == {T \in SUBSET S : SumTable(w, S)[T] \in Int}
<1>1. ASSUME NEW T \in SUBSET S, \A x \in T : T \ {x} \in G
      PROVE  T \in G
  <2>1. SumTable(w, S)[T] = SumStep(w, SumTable(w, S), T)
    BY TableIs
  <2>2. CASE T = {}
    BY <2>1, <2>2 DEF SumStep
  <2>3. CASE T # {}
    <3>1. AnyOf(T) \in T
      BY <2>3 DEF AnyOf
    <3>2. SumTable(w, S)[T \ {AnyOf(T)}] \in Int /\ w[AnyOf(T)] \in Int
      BY <1>1, <3>1
    <3>3. QED
      BY <2>1, <2>3, <3>2 DEF SumStep
  <2>4. QED
    BY <2>2, <2>3
<1>2. SUBSET S \subseteq G
  <2> HIDE DEF G
  <2>1. QED
    BY <1>1, SubsetInduction
<1>3. QED
  BY <1>2

(* The order in which the indices are taken does not matter. *)
LEMMA TableStep ==
  ASSUME NEW w, NEW S, IsFiniteSet(S), \A x \in S : w[x] \in Int
  PROVE  \A T \in SUBSET S : \A x \in T :
           SumTable(w, S)[T] = w[x] + SumTable(w, S)[T \ {x}]
<1> DEFINE s == SumTable(w, S)
           G == {T \in SUBSET S : \A x \in T : s[T] = w[x] + s[T \ {x}]}
<1>1. \A T \in SUBSET S : s[T] \in Int
  BY TableHasType
<1>2. \A T \in SUBSET S : T # {} => s[T] = w[AnyOf(T)] + s[T \ {AnyOf(T)}]
  <2>1. \A T \in SUBSET S : s[T] = SumStep(w, s, T)
    BY TableIs
  <2> HIDE DEF s
  <2>2. QED
    BY <2>1 DEF SumStep
<1> HIDE DEF s
<1>3. ASSUME NEW T \in SUBSET S, \A x \in T : T \ {x} \in G
      PROVE  T \in G
  <2>1. SUFFICES ASSUME NEW x \in T PROVE s[T] = w[x] + s[T \ {x}]
    OBVIOUS
  <2> DEFINE c == AnyOf(T)
  <2>2. c \in T
    BY DEF AnyOf
  <2>3. s[T] = w[c] + s[T \ {c}]
    BY <1>2
  <2> HIDE DEF c
  <2>4. CASE x = c
    BY <2>3, <2>4
  <2>5. CASE x # c
    <3>1. s[T \ {c}] = w[x] + s[(T \ {c}) \ {x}]
      BY <1>3, <2>2, <2>5
    <3>2. s[T \ {x}] = w[c] + s[(T \ {x}) \ {c}]
      BY <1>3, <2>2, <2>5
    <3>3. (T \ {c}) \ {x} = (T \ {x}) \ {c}
      OBVIOUS
    <3>4. PICK rest \in Int : rest = s[(T \ {x}) \ {c}]
      BY <1>1
    <3>5. s[T \ {c}] = w[x] + rest /\ s[T \ {x}] = w[c] + rest
      BY <3>1, <3>2, <3>3, <3>4
    <3>6. w[x] \in Int /\ w[c] \in Int
      BY <2>2
    <3>7. w[c] + (w[x] + rest) = w[x] + (w[c] + rest)
      BY <3>6
    <3>8. QED
      BY <2>3, <3>5, <3>7
  <2>6. QED
    BY <2>4, <2>5
<1>4. SUBSET S \subseteq G
  <2> HIDE DEF G
  <2>1. QED
    BY <1>3, SubsetInduction
<1>5. QED
  BY <1>4 DEF s

(* A sum depends on the values at its indices only. *)
LEMMA TablesAgree ==
  ASSUME NEW w, NEW S, IsFiniteSet(S), NEW v, NEW R, IsFiniteSet(R),
         \A x \in S : w[x] \in Int, \A x \in R : v[x] \in Int,
         NEW P, P \subseteq S, P \subseteq R, \A x \in P : w[x] = v[x]
  PROVE  SumTable(w, S)[P] = SumTable(v, R)[P]
<1> DEFINE G == {T \in SUBSET P : SumTable(w, S)[T] = SumTable(v, R)[T]}
<1>1. ASSUME NEW T \in SUBSET P, \A x \in T : T \ {x} \in G
      PROVE  T \in G
  <2>1. CASE T = {}
    <3>1. SumTable(w, S)[T] = SumStep(w, SumTable(w, S), T)
      BY TableIs
    <3>2. SumTable(v, R)[T] = SumStep(v, SumTable(v, R), T)
      BY TableIs
    <3>3. QED
      BY <2>1, <3>1, <3>2 DEF SumStep
  <2>2. CASE T # {}
    <3>1. PICK x : x \in T
      BY <2>2
    <3>2. SumTable(w, S)[T] = w[x] + SumTable(w, S)[T \ {x}]
      BY <3>1, TableStep
    <3>3. SumTable(v, R)[T] = v[x] + SumTable(v, R)[T \ {x}]
      BY <3>1, TableStep
    <3>4. QED
      BY <1>1, <3>1, <3>2, <3>3
  <2>3. QED
    BY <2>1, <2>2
<1>2. SUBSET P \subseteq G
  <2>1. IsFiniteSet(P)
    BY FS_Subset
  <2> HIDE DEF G
  <2>2. QED
    BY <1>1, <2>1, SubsetInduction
<1>3. QED
  BY <1>2

---------------------------------------------------------------------------
(* Sums. *)
LEMMA SumEmpty ==
  ASSUME NEW w
  PROVE  SumFunctionOnSet(w, {}) = 0
<1>1. SumTable(w, {})[{}] = SumStep(w, SumTable(w, {}), {})
  BY TableIs, FS_EmptySet
<1>2. QED
  BY <1>1, SumIs DEF SumTable, SumStep

LEMMA SumIsInt ==
  ASSUME NEW w, NEW S, IsFiniteSet(S), \A x \in S : w[x] \in Int
  PROVE  SumFunctionOnSet(w, S) \in Int
BY SumIs, TableHasType DEF SumTable

LEMMA SumsAgree ==
  ASSUME NEW S, IsFiniteSet(S), NEW w, NEW v, \A x \in S : w[x] \in Int /\ w[x] = v[x]
  PROVE  SumFunctionOnSet(w, S) = SumFunctionOnSet(v, S)
<1>1. SumTable(w, S)[S] = SumTable(v, S)[S]
  BY TablesAgree
<1>2. QED
  BY <1>1, SumIs DEF SumTable

LEMMA SumRemove ==
  ASSUME NEW w, NEW S, IsFiniteSet(S), \A y \in S : w[y] \in Int, NEW x \in S
  PROVE  SumFunctionOnSet(w, S) = w[x] + SumFunctionOnSet(w, S \ {x})
<1>1. SumTable(w, S)[S] = w[x] + SumTable(w, S)[S \ {x}]
  BY TableStep
<1>2. SumTable(w, S)[S \ {x}] = SumTable(w, S \ {x})[S \ {x}]
  BY TablesAgree, FS_RemoveElement
<1>3. QED
  BY <1>1, <1>2, SumIs DEF SumTable

LEMMA SumAdd ==
  ASSUME NEW w, NEW S, IsFiniteSet(S), NEW x, x \notin S, \A y \in S \cup {x} : w[y] \in Int
  PROVE  SumFunctionOnSet(w, S \cup {x}) = w[x] + SumFunctionOnSet(w, S)
<1>1. IsFiniteSet(S \cup {x}) /\ (S \cup {x}) \ {x} = S
  BY FS_AddElement
<1>2. QED
  BY <1>1, SumRemove

(* One value changes. *)
LEMMA SumUpdate ==
  ASSUME NEW S, IsFiniteSet(S), NEW w, NEW v, \A y \in S : w[y] \in Int /\ v[y] \in Int,
         NEW x \in S, \A y \in S \ {x} : v[y] = w[y]
  PROVE  SumFunctionOnSet(v, S) = SumFunctionOnSet(w, S) + (v[x] - w[x])
<1>1. IsFiniteSet(S \ {x})
  BY FS_RemoveElement
<1>2. SumFunctionOnSet(v, S \ {x}) = SumFunctionOnSet(w, S \ {x})
  BY <1>1, SumsAgree
<1>3. SumFunctionOnSet(w, S \ {x}) \in Int
  BY <1>1, SumIsInt
<1>4. /\ SumFunctionOnSet(v, S) = v[x] + SumFunctionOnSet(v, S \ {x})
      /\ SumFunctionOnSet(w, S) = w[x] + SumFunctionOnSet(w, S \ {x})
  BY SumRemove
<1>5. QED
  BY <1>2, <1>3, <1>4

LEMMA SumsOrdered ==
  ASSUME NEW S, IsFiniteSet(S), NEW w, NEW v,
         \A x \in S : w[x] \in Int /\ v[x] \in Int /\ w[x] <= v[x]
  PROVE  SumFunctionOnSet(w, S) <= SumFunctionOnSet(v, S)
<1> DEFINE G == {T \in SUBSET S : SumFunctionOnSet(w, T) <= SumFunctionOnSet(v, T)}
<1>1. ASSUME NEW T \in SUBSET S, \A x \in T : T \ {x} \in G
      PROVE  T \in G
  <2>1. CASE T = {}
    BY <2>1, SumEmpty
  <2>2. CASE T # {}
    <3>1. PICK x : x \in T
      BY <2>2
    <3>2. IsFiniteSet(T) /\ IsFiniteSet(T \ {x})
      BY FS_Subset, FS_RemoveElement
    <3>3. /\ SumFunctionOnSet(w, T) = w[x] + SumFunctionOnSet(w, T \ {x})
          /\ SumFunctionOnSet(v, T) = v[x] + SumFunctionOnSet(v, T \ {x})
      BY <3>1, <3>2, SumRemove
    <3>4. SumFunctionOnSet(w, T \ {x}) \in Int /\ SumFunctionOnSet(v, T \ {x}) \in Int
      BY <3>2, SumIsInt
    <3>5. SumFunctionOnSet(w, T \ {x}) <= SumFunctionOnSet(v, T \ {x})
      BY <1>1, <3>1
    <3>6. w[x] \in Int /\ v[x] \in Int /\ w[x] <= v[x]
      BY <3>1
    <3>7. SumFunctionOnSet(w, T) <= SumFunctionOnSet(v, T)
      BY <3>3, <3>4, <3>5, <3>6
    <3>8. QED
      BY <3>7
  <2>3. QED
    BY <2>1, <2>2
<1>2. SUBSET S \subseteq G
  <2> HIDE DEF G
  <2>1. QED
    BY <1>1, SubsetInduction
<1>3. QED
  BY <1>2

LEMMA SumOfSums ==
  ASSUME NEW S, IsFiniteSet(S), NEW w, NEW v, NEW u,
         \A x \in S : w[x] \in Int /\ v[x] \in Int /\ u[x] = w[x] + v[x]
  PROVE  SumFunctionOnSet(u, S) = SumFunctionOnSet(w, S) + SumFunctionOnSet(v, S)
<1> DEFINE G == {T \in SUBSET S :
                   SumFunctionOnSet(u, T) = SumFunctionOnSet(w, T) + SumFunctionOnSet(v, T)}
<1>1. ASSUME NEW T \in SUBSET S, \A x \in T : T \ {x} \in G
      PROVE  T \in G
  <2>1. CASE T = {}
    BY <2>1, SumEmpty
  <2>2. CASE T # {}
    <3>1. PICK x : x \in T
      BY <2>2
    <3>2. IsFiniteSet(T) /\ IsFiniteSet(T \ {x})
      BY FS_Subset, FS_RemoveElement
    <3>3. \A y \in T : w[y] \in Int /\ v[y] \in Int /\ u[y] \in Int
      OBVIOUS
    <3>4. /\ SumFunctionOnSet(w, T) = w[x] + SumFunctionOnSet(w, T \ {x})
          /\ SumFunctionOnSet(v, T) = v[x] + SumFunctionOnSet(v, T \ {x})
          /\ SumFunctionOnSet(u, T) = u[x] + SumFunctionOnSet(u, T \ {x})
      BY <3>1, <3>2, <3>3, SumRemove
    <3>5. SumFunctionOnSet(w, T \ {x}) \in Int /\ SumFunctionOnSet(v, T \ {x}) \in Int
      BY <3>2, SumIsInt
    <3>6. SumFunctionOnSet(u, T \ {x})
            = SumFunctionOnSet(w, T \ {x}) + SumFunctionOnSet(v, T \ {x})
      BY <1>1, <3>1
    <3>7. w[x] \in Int /\ v[x] \in Int /\ u[x] = w[x] + v[x]
      BY <3>1
    <3>8. SumFunctionOnSet(u, T) = SumFunctionOnSet(w, T) + SumFunctionOnSet(v, T)
      BY <3>4, <3>5, <3>6, <3>7
    <3>9. QED
      BY <3>8
  <2>3. QED
    BY <2>1, <2>2
<1>2. SUBSET S \subseteq G
  <2> HIDE DEF G
  <2>1. QED
    BY <1>1, SubsetInduction
<1>3. QED
  BY <1>2

LEMMA SumOfUnion ==
  ASSUME NEW w, NEW R, NEW S, IsFiniteSet(R), IsFiniteSet(S), R \cap S = {},
         \A x \in R \cup S : w[x] \in Int
  PROVE  SumFunctionOnSet(w, R \cup S) = SumFunctionOnSet(w, R) + SumFunctionOnSet(w, S)
<1> DEFINE G == {T \in SUBSET S :
                   SumFunctionOnSet(w, R \cup T) = SumFunctionOnSet(w, R) + SumFunctionOnSet(w, T)}
<1>1. ASSUME NEW T \in SUBSET S, \A x \in T : T \ {x} \in G
      PROVE  T \in G
  <2>1. CASE T = {}
    <3>1. R \cup T = R
      BY <2>1
    <3>2. SumFunctionOnSet(w, R) \in Int
      BY SumIsInt
    <3>3. QED
      BY <2>1, <3>1, <3>2, SumEmpty
  <2>2. CASE T # {}
    <3>1. PICK x : x \in T
      BY <2>2
    <3>2. IsFiniteSet(T) /\ IsFiniteSet(T \ {x}) /\ IsFiniteSet(R \cup T)
      BY FS_Subset, FS_RemoveElement, FS_Union
    <3>3. (R \cup T) \ {x} = R \cup (T \ {x})
      BY <3>1
    <3>4. /\ SumFunctionOnSet(w, T) = w[x] + SumFunctionOnSet(w, T \ {x})
          /\ SumFunctionOnSet(w, R \cup T) = w[x] + SumFunctionOnSet(w, R \cup (T \ {x}))
      BY <3>1, <3>2, <3>3, SumRemove
    <3>5. SumFunctionOnSet(w, T \ {x}) \in Int /\ SumFunctionOnSet(w, R) \in Int
      BY <3>2, SumIsInt
    <3>6. SumFunctionOnSet(w, R \cup (T \ {x}))
            = SumFunctionOnSet(w, R) + SumFunctionOnSet(w, T \ {x})
      BY <1>1, <3>1
    <3>7. w[x] \in Int
      BY <3>1
    <3>8. SumFunctionOnSet(w, R \cup T) = SumFunctionOnSet(w, R) + SumFunctionOnSet(w, T)
      BY <3>4, <3>5, <3>6, <3>7
    <3>9. QED
      BY <3>8
  <2>3. QED
    BY <2>1, <2>2
<1>2. SUBSET S \subseteq G
  <2> HIDE DEF G
  <2>1. QED
    BY <1>1, SubsetInduction
<1>3. QED
  BY <1>2

(* Sums of natural numbers. *)
LEMMA SumIsNat ==
  ASSUME NEW w, NEW S, IsFiniteSet(S), \A x \in S : w[x] \in Nat
  PROVE  SumFunctionOnSet(w, S) \in Nat
<1> DEFINE G == {T \in SUBSET S : SumFunctionOnSet(w, T) \in Nat}
<1>1. ASSUME NEW T \in SUBSET S, \A x \in T : T \ {x} \in G
      PROVE  T \in G
  <2>1. CASE T = {}
    BY <2>1, SumEmpty
  <2>2. CASE T # {}
    <3>1. PICK x : x \in T
      BY <2>2
    <3>2. SumFunctionOnSet(w, T) = w[x] + SumFunctionOnSet(w, T \ {x})
      <4>1. IsFiniteSet(T) /\ \A y \in T : w[y] \in Int
        BY FS_Subset
      <4>2. QED
        BY <3>1, <4>1, SumRemove
    <3>3. SumFunctionOnSet(w, T \ {x}) \in Nat /\ w[x] \in Nat
      BY <1>1, <3>1
    <3>4. SumFunctionOnSet(w, T) \in Nat
      BY <3>2, <3>3
    <3>5. QED
      BY <3>4
  <2>3. QED
    BY <2>1, <2>2
<1>2. SUBSET S \subseteq G
  <2> HIDE DEF G
  <2>1. QED
    BY <1>1, SubsetInduction
<1>3. QED
  BY <1>2

LEMMA SumOfPart ==
  ASSUME NEW w, NEW S, IsFiniteSet(S), \A x \in S : w[x] \in Nat, NEW T, T \subseteq S
  PROVE  SumFunctionOnSet(w, T) <= SumFunctionOnSet(w, S)
<1>1. IsFiniteSet(T) /\ IsFiniteSet(S \ T)
  BY FS_Subset
<1>2. T \cup (S \ T) = S /\ T \cap (S \ T) = {}
  OBVIOUS
<1>3. SumFunctionOnSet(w, S) = SumFunctionOnSet(w, T) + SumFunctionOnSet(w, S \ T)
  BY <1>1, <1>2, SumOfUnion
<1>4. SumFunctionOnSet(w, T) \in Nat /\ SumFunctionOnSet(w, S \ T) \in Nat
  BY <1>1, SumIsNat
<1>5. QED
  BY <1>3, <1>4

LEMMA SumOfOverlap ==
  ASSUME NEW w, NEW R, NEW S, IsFiniteSet(R), IsFiniteSet(S), \A x \in R \cup S : w[x] \in Nat
  PROVE  SumFunctionOnSet(w, R \cup S) <= SumFunctionOnSet(w, R) + SumFunctionOnSet(w, S)
<1>1. R \cup (S \ R) = R \cup S /\ R \cap (S \ R) = {} /\ IsFiniteSet(S \ R)
  BY FS_Subset
<1>2. SumFunctionOnSet(w, R \cup S) = SumFunctionOnSet(w, R) + SumFunctionOnSet(w, S \ R)
  BY <1>1, SumOfUnion
<1>3. SumFunctionOnSet(w, S \ R) <= SumFunctionOnSet(w, S)
  BY SumOfPart
<1>4. /\ SumFunctionOnSet(w, S \ R) \in Nat /\ SumFunctionOnSet(w, S) \in Nat
      /\ SumFunctionOnSet(w, R) \in Nat
  BY <1>1, SumIsNat
<1>5. QED
  BY <1>2, <1>3, <1>4
=============================================================================
