---------------------------- MODULE AmountProofs ----------------------------
(***************************************************************************)
(* What the other proofs need to know of amounts.                          *)
(*                                                                         *)
(* Sums: every total of the contract is a SumFunctionOnSet, a fold that    *)
(* takes the elements of a finite set in the order that CHOOSE gives.  Its *)
(* laws say that the order does not matter, that a sum changes by what one *)
(* element changes by, and that sums add up.  They rest on induction over  *)
(* the subsets of a finite set, which follows from the library's           *)
(* well-founded induction on sets: the property to be shown is given as    *)
(* the set of the subsets that have it.                                    *)
(*                                                                         *)
(* Shares: basis points and integer division lose nothing that is not      *)
(* accounted for, and never exceed what they divide.                       *)
(***************************************************************************)
EXTENDS Settlement, FiniteSets, FiniteSetTheorems, WellFoundedInduction, TLAPS

-----------------------------------------------------------------------------
(* Induction.                                                              *)

\* A property of subsets that passes from the strict subsets of a set to the
\* set itself holds of every finite set.
LEMMA StrongSubsetInduction ==
  ASSUME NEW U, IsFiniteSet(U), NEW F,
         \A s \in SUBSET U : (\A r \in SUBSET s : r # s => r \in F) => s \in F
  PROVE  \A s \in SUBSET U : s \in F
<1> DEFINE T == (SUBSET U) \ F
<1>1. SUFFICES ASSUME T # {} PROVE FALSE
  OBVIOUS
<1>2. IsWellFoundedOn(StrictSubsetOrdering(U), SUBSET U)
  BY FS_StrictSubsetOrderingWellFounded, FS_FiniteSubsetsOfFinite
<1>3. PICK s \in T : \A r \in T : <<r, s>> \notin StrictSubsetOrdering(U)
  <2> HIDE DEF T
  <2>1. T \subseteq SUBSET U
    BY DEF T
  <2>2. QED  BY <1>1, <1>2, <2>1, WFMin
<1>4. \A r \in SUBSET s : r # s => r \in F
  BY <1>3 DEF StrictSubsetOrdering
<1>5. QED  BY <1>3, <1>4

\* A property that holds of the empty set and survives one more element holds
\* of every finite set.
LEMMA FiniteSubsetInduction ==
  ASSUME NEW U, IsFiniteSet(U), NEW F, {} \in F,
         \A s \in SUBSET U : \A x \in U \ s : s \in F => s \cup {x} \in F
  PROVE  U \in F
<1>1. ASSUME NEW s \in SUBSET U, \A r \in SUBSET s : r # s => r \in F
      PROVE  s \in F
  <2>1. CASE s = {}
    BY <2>1
  <2>2. CASE s # {}
    <3>1. PICK x \in s : TRUE
      BY <2>2
    <3>2. s \ {x} \in F /\ s = (s \ {x}) \cup {x}
      BY <1>1, <3>1
    <3>3. QED  BY <3>1, <3>2
  <2>3. QED  BY <2>1, <2>2
<1>2. \A s \in SUBSET U : s \in F
  BY <1>1, StrongSubsetInduction
<1>3. QED  BY <1>2

\* The same for the natural numbers.
LEMMA NatSetInduction ==
  ASSUME NEW S, S \subseteq Nat, 0 \in S, \A n \in S : n + 1 \in S
  PROVE  S = Nat
<1> DEFINE T == Nat \ S
           R == OpToRel(<, Nat)
<1>1. SUFFICES ASSUME T # {} PROVE FALSE
  OBVIOUS
<1>2. IsWellFoundedOn(R, Nat)
  BY NatLessThanWellFounded, Zenon
<1>3. \A x, y \in Nat : <<y, x>> \in R <=> y < x
  BY DEF OpToRel
<1>4. T \subseteq Nat
  OBVIOUS
<1> HIDE DEF R
<1>5. PICK x \in T : \A y \in T : <<y, x>> \notin R
  <2> HIDE DEF T
  <2>1. QED  BY <1>1, <1>2, <1>4, WFMin
<1>6. x # 0 /\ x \in Nat
  BY <1>5
<1>7. x - 1 \in Nat /\ x - 1 < x /\ (x - 1) + 1 = x
  BY <1>6
<1>8. x - 1 \notin T
  BY <1>3, <1>5, <1>6, <1>7
<1>9. QED  BY <1>5, <1>7, <1>8

-----------------------------------------------------------------------------
(* The fold as a recursive function over the subsets of its set.           *)

PickOne(s) == CHOOSE x \in s : TRUE

IsSumTable(g, f, S) ==
  g = [s \in SUBSET S |-> IF s = {} THEN 0 ELSE f[PickOne(s)] + g[s \ {PickOne(s)}]]

SumTable(f, S) == CHOOSE g : IsSumTable(g, f, S)

\* The community module's fold over a set is the last entry of that table.
LEMMA SumIsTable ==
  ASSUME NEW f, NEW S
  PROVE  SumFunctionOnSet(f, S) = SumTable(f, S)[S]
BY DEF SumFunctionOnSet, FoldFunctionOnSet, MapThenFoldSet, SumTable, IsSumTable, PickOne

\* Tables for the same function agree where both are defined.
LEMMA SumTableUnique ==
  ASSUME NEW f, NEW S, NEW R \in SUBSET S, IsFiniteSet(R), NEW g, NEW h,
         IsSumTable(g, f, S), IsSumTable(h, f, R)
  PROVE  g[R] = h[R]
<1> DEFINE F == {s \in SUBSET R : g[s] = h[s]}
<1>1. ASSUME NEW s \in SUBSET R, \A r \in SUBSET s : r # s => r \in F
      PROVE  s \in F
  <2>1. CASE s = {}
    <3>1. g[s] = 0 /\ h[s] = 0
      BY <2>1 DEF IsSumTable
    <3>2. QED  BY <3>1
  <2>2. CASE s # {}
    <3>1. PickOne(s) \in s
      BY <2>2 DEF PickOne
    <3>2. g[s \ {PickOne(s)}] = h[s \ {PickOne(s)}]
      BY <1>1, <3>1
    <3>3. g[s] = f[PickOne(s)] + g[s \ {PickOne(s)}]
      BY <2>2 DEF IsSumTable
    <3>4. h[s] = f[PickOne(s)] + h[s \ {PickOne(s)}]
      BY <2>2 DEF IsSumTable
    <3>5. QED  BY <3>2, <3>3, <3>4
  <2>3. QED  BY <2>1, <2>2
<1>2. \A s \in SUBSET R : s \in F
  <2> HIDE DEF F
  <2>1. QED  BY <1>1, StrongSubsetInduction
<1>3. QED  BY <1>2

\* Every finite set has a table.
LEMMA SumTableExists ==
  ASSUME NEW f, NEW S, IsFiniteSet(S)
  PROVE  IsSumTable(SumTable(f, S), f, S)
<1> DEFINE F == {s \in SUBSET S : IsSumTable(SumTable(f, s), f, s)}
<1>1. ASSUME NEW s \in SUBSET S, \A r \in SUBSET s : r # s => r \in F
      PROVE  s \in F
  <2> DEFINE g == [r \in SUBSET s |->
                     IF r = {} THEN 0
                     ELSE f[PickOne(r)] + SumTable(f, r \ {PickOne(r)})[r \ {PickOne(r)}]]
  <2>1. ASSUME NEW r \in SUBSET s, r # s
        PROVE  g[r] = SumTable(f, r)[r]
    <3>1. IsSumTable(SumTable(f, r), f, r)
      BY <1>1, <2>1
    <3>2. CASE r = {}
      BY <3>1, <3>2 DEF IsSumTable
    <3>3. CASE r # {}
      <4> DEFINE c == PickOne(r)
      <4>1. c \in r
        BY <3>3 DEF PickOne
      <4>2. r \ {c} \in SUBSET s /\ r \ {c} # s
        BY <2>1, <4>1
      <4>3. IsSumTable(SumTable(f, r \ {c}), f, r \ {c})
        BY <1>1, <4>2
      <4>4. IsFiniteSet(r \ {c})
        BY FS_Subset
      <4>5. SumTable(f, r)[r \ {c}] = SumTable(f, r \ {c})[r \ {c}]
        BY <3>1, <4>3, <4>4, SumTableUnique
      <4>6. SumTable(f, r)[r] = f[c] + SumTable(f, r)[r \ {c}]
        BY <3>1, <3>3 DEF IsSumTable
      <4>7. g[r] = f[c] + SumTable(f, r \ {c})[r \ {c}]
        BY <3>3
      <4>8. QED  BY <4>5, <4>6, <4>7
    <3>4. QED  BY <3>2, <3>3
  <2>2. ASSUME NEW r \in SUBSET s
        PROVE  g[r] = IF r = {} THEN 0 ELSE f[PickOne(r)] + g[r \ {PickOne(r)}]
    <3>1. CASE r = {}
      BY <3>1
    <3>2. CASE r # {}
      <4> DEFINE c == PickOne(r)
      <4>1. c \in r
        BY <3>2 DEF PickOne
      <4>2. r \ {c} \in SUBSET s /\ r \ {c} # s
        BY <4>1
      <4>3. g[r \ {c}] = SumTable(f, r \ {c})[r \ {c}]
        BY <2>1, <4>2
      <4>4. g[r] = f[c] + SumTable(f, r \ {c})[r \ {c}]
        BY <3>2
      <4>5. QED  BY <3>2, <4>3, <4>4
    <3>3. QED  BY <3>1, <3>2
  <2>3. IsSumTable(g, f, s)
    <3>1. g = [r \in SUBSET s |-> g[r]]
      OBVIOUS
    <3> HIDE DEF g
    <3>2. QED  BY <2>2, <3>1 DEF IsSumTable
  <2>4. IsSumTable(SumTable(f, s), f, s)
    <3> HIDE DEF g
    <3>1. QED  BY <2>3 DEF SumTable
  <2>5. QED  BY <2>4
<1>2. \A s \in SUBSET S : s \in F
  <2> HIDE DEF F
  <2>1. QED  BY <1>1, StrongSubsetInduction
<1>3. QED  BY <1>2

\* Nothing sums to zero.
LEMMA SumEmpty ==
  ASSUME NEW f
  PROVE  SumFunctionOnSet(f, {}) = 0
<1>1. IsSumTable(SumTable(f, {}), f, {})
  BY SumTableExists, FS_EmptySet
<1>2. SumTable(f, {})[{}] = 0
  BY <1>1 DEF IsSumTable
<1>3. QED  BY <1>2, SumIsTable

\* The fold takes one element out first.
LEMMA SumFirst ==
  ASSUME NEW f, NEW S, IsFiniteSet(S), S # {}
  PROVE  /\ PickOne(S) \in S
         /\ SumFunctionOnSet(f, S)
              = f[PickOne(S)] + SumFunctionOnSet(f, S \ {PickOne(S)})
<1> DEFINE c == PickOne(S)
<1>1. IsSumTable(SumTable(f, S), f, S)
  BY SumTableExists
<1>2. IsFiniteSet(S \ {c}) /\ IsSumTable(SumTable(f, S \ {c}), f, S \ {c})
  BY SumTableExists, FS_Subset
<1>3. SumTable(f, S)[S \ {c}] = SumTable(f, S \ {c})[S \ {c}]
  BY <1>1, <1>2, SumTableUnique
<1>4. SumTable(f, S)[S] = f[c] + SumTable(f, S)[S \ {c}]
  BY <1>1 DEF IsSumTable
<1>5. c \in S
  BY DEF PickOne
<1>6. QED  BY <1>3, <1>4, <1>5, SumIsTable

-----------------------------------------------------------------------------
(* The laws.                                                               *)

\* A sum of integers is an integer, and of naturals a natural number.
LEMMA SumInt ==
  ASSUME NEW f, NEW S, IsFiniteSet(S), \A x \in S : f[x] \in Int
  PROVE  SumFunctionOnSet(f, S) \in Int
<1> DEFINE F == {s \in SUBSET S : SumFunctionOnSet(f, s) \in Int}
<1>1. ASSUME NEW s \in SUBSET S, \A r \in SUBSET s : r # s => r \in F
      PROVE  s \in F
  <2>1. CASE s = {}
    BY <2>1, SumEmpty
  <2>2. CASE s # {}
    <3>1. IsFiniteSet(s)
      BY FS_Subset
    <3>2. /\ PickOne(s) \in s
          /\ SumFunctionOnSet(f, s) = f[PickOne(s)] + SumFunctionOnSet(f, s \ {PickOne(s)})
      BY <2>2, <3>1, SumFirst
    <3>3. SumFunctionOnSet(f, s \ {PickOne(s)}) \in Int
      BY <1>1, <3>2
    <3>4. QED  BY <3>2, <3>3
  <2>3. QED  BY <2>1, <2>2
<1>2. \A s \in SUBSET S : s \in F
  <2> HIDE DEF F
  <2>1. QED  BY <1>1, StrongSubsetInduction
<1>3. QED  BY <1>2

\* Any element may be taken out first: the order of the fold does not matter.
LEMMA SumRemove ==
  ASSUME NEW f, NEW S, IsFiniteSet(S), \A y \in S : f[y] \in Int, NEW x \in S
  PROVE  SumFunctionOnSet(f, S) = f[x] + SumFunctionOnSet(f, S \ {x})
<1> DEFINE Sum(s) == SumFunctionOnSet(f, s)
           F == {s \in SUBSET S : \A y \in s : Sum(s) = f[y] + Sum(s \ {y})}
<1>1. ASSUME NEW s \in SUBSET S, \A r \in SUBSET s : r # s => r \in F
      PROVE  s \in F
  <2>1. ASSUME NEW y \in s
        PROVE  Sum(s) = f[y] + Sum(s \ {y})
    <3> DEFINE c == PickOne(s)
    <3>1. IsFiniteSet(s)
      BY FS_Subset
    <3>2. c \in s /\ Sum(s) = f[c] + Sum(s \ {c})
      BY <2>1, <3>1, SumFirst
    <3>3. CASE y = c
      BY <3>2, <3>3
    <3>4. CASE y # c
      <4>1. s \ {c} \in F /\ s \ {y} \in F
        BY <1>1, <2>1, <3>2
      <4>2. Sum(s \ {c}) = f[y] + Sum((s \ {c}) \ {y})
        BY <2>1, <3>4, <4>1
      <4>3. Sum(s \ {y}) = f[c] + Sum((s \ {y}) \ {c})
        BY <3>2, <3>4, <4>1
      <4>4. (s \ {c}) \ {y} = (s \ {y}) \ {c}
        OBVIOUS
      <4>5. Sum((s \ {y}) \ {c}) \in Int
        <5>1. IsFiniteSet((s \ {y}) \ {c})
          BY FS_Subset
        <5>2. QED  BY <5>1, SumInt
      <4>6. f[c] \in Int /\ f[y] \in Int
        BY <2>1, <3>2
      <4>7. Sum(s) = f[c] + (f[y] + Sum((s \ {y}) \ {c}))
        BY <3>2, <4>2, <4>4
      <4>8. f[y] + Sum(s \ {y}) = f[y] + (f[c] + Sum((s \ {y}) \ {c}))
        BY <4>3
      <4>9. \A i, j, k \in Int : i + (j + k) = j + (i + k)
        OBVIOUS
      <4>10. QED  BY <4>5, <4>6, <4>7, <4>8, <4>9
    <3>5. QED  BY <3>3, <3>4
  <2>2. QED  BY <2>1
<1>2. \A s \in SUBSET S : s \in F
  <2> HIDE DEF F
  <2>1. QED  BY <1>1, StrongSubsetInduction
<1>3. QED  BY <1>2

\* A new element adds its value.
LEMMA SumAdd ==
  ASSUME NEW f, NEW S, IsFiniteSet(S), NEW x, x \notin S, \A y \in S \cup {x} : f[y] \in Int
  PROVE  SumFunctionOnSet(f, S \cup {x}) = f[x] + SumFunctionOnSet(f, S)
<1>1. IsFiniteSet(S \cup {x})
  BY FS_AddElement
<1>2. (S \cup {x}) \ {x} = S
  OBVIOUS
<1>3. QED  BY <1>1, <1>2, SumRemove

\* A sum of natural numbers is one.
LEMMA SumNat ==
  ASSUME NEW f, NEW S, IsFiniteSet(S), \A x \in S : f[x] \in Nat
  PROVE  SumFunctionOnSet(f, S) \in Nat
<1> DEFINE F == {s \in SUBSET S : SumFunctionOnSet(f, s) \in Nat}
<1>1. {} \in F
  BY SumEmpty
<1>2. ASSUME NEW s \in SUBSET S, NEW x \in S \ s, s \in F
      PROVE  s \cup {x} \in F
  <2>1. IsFiniteSet(s)
    BY FS_Subset
  <2>2. SumFunctionOnSet(f, s \cup {x}) = f[x] + SumFunctionOnSet(f, s)
    BY <2>1, SumAdd
  <2>3. QED  BY <1>2, <2>2
<1>3. S \in F
  <2> HIDE DEF F
  <2>1. QED  BY <1>1, <1>2, FiniteSubsetInduction
<1>4. QED  BY <1>3

\* Functions that agree on the set have the same sum.
LEMMA SumEqual ==
  ASSUME NEW f, NEW g, NEW S, IsFiniteSet(S),
         \A x \in S : f[x] \in Int /\ g[x] = f[x]
  PROVE  SumFunctionOnSet(g, S) = SumFunctionOnSet(f, S)
<1> DEFINE F == {s \in SUBSET S : SumFunctionOnSet(g, s) = SumFunctionOnSet(f, s)}
<1>1. {} \in F
  BY SumEmpty
<1>2. ASSUME NEW s \in SUBSET S, NEW x \in S \ s, s \in F
      PROVE  s \cup {x} \in F
  <2>1. IsFiniteSet(s)
    BY FS_Subset
  <2>2. SumFunctionOnSet(f, s \cup {x}) = f[x] + SumFunctionOnSet(f, s)
    BY <2>1, SumAdd
  <2>3. SumFunctionOnSet(g, s \cup {x}) = g[x] + SumFunctionOnSet(g, s)
    BY <2>1, SumAdd
  <2>4. QED  BY <1>2, <2>2, <2>3
<1>3. S \in F
  <2> HIDE DEF F
  <2>1. QED  BY <1>1, <1>2, FiniteSubsetInduction
<1>4. QED  BY <1>3

\* Where one element changes, the sum changes by as much.
LEMMA SumUpdate ==
  ASSUME NEW f, NEW g, NEW S, IsFiniteSet(S), NEW x \in S, g[x] \in Int,
         \A y \in S : f[y] \in Int /\ (y # x => g[y] = f[y])
  PROVE  SumFunctionOnSet(g, S) = SumFunctionOnSet(f, S) + (g[x] - f[x])
<1>1. IsFiniteSet(S \ {x})
  BY FS_Subset
<1>2. SumFunctionOnSet(g, S \ {x}) = SumFunctionOnSet(f, S \ {x})
  BY <1>1, SumEqual
<1>3. SumFunctionOnSet(f, S) = f[x] + SumFunctionOnSet(f, S \ {x})
  BY SumRemove
<1>4. SumFunctionOnSet(g, S) = g[x] + SumFunctionOnSet(g, S \ {x})
  BY SumRemove
<1>5. SumFunctionOnSet(f, S \ {x}) \in Int
  BY <1>1, SumInt
<1>6. QED  BY <1>2, <1>3, <1>4, <1>5

\* Sums over the same set add up.
LEMMA SumPlus ==
  ASSUME NEW f, NEW g, NEW h, NEW S, IsFiniteSet(S),
         \A x \in S : f[x] \in Int /\ g[x] \in Int /\ h[x] = f[x] + g[x]
  PROVE  SumFunctionOnSet(h, S) = SumFunctionOnSet(f, S) + SumFunctionOnSet(g, S)
<1> DEFINE Sum(k, s) == SumFunctionOnSet(k, s)
           F == {s \in SUBSET S : Sum(h, s) = Sum(f, s) + Sum(g, s)}
<1>1. {} \in F
  BY SumEmpty
<1>2. ASSUME NEW s \in SUBSET S, NEW x \in S \ s, s \in F
      PROVE  s \cup {x} \in F
  <2>1. IsFiniteSet(s)
    BY FS_Subset
  <2>2. Sum(f, s \cup {x}) = f[x] + Sum(f, s)
    BY <2>1, SumAdd
  <2>3. Sum(g, s \cup {x}) = g[x] + Sum(g, s)
    BY <2>1, SumAdd
  <2>4. Sum(h, s \cup {x}) = h[x] + Sum(h, s)
    BY <2>1, SumAdd
  <2>5. Sum(f, s) \in Int /\ Sum(g, s) \in Int
    BY <2>1, SumInt
  <2> HIDE DEF Sum
  <2>6. QED  BY <1>2, <2>2, <2>3, <2>4, <2>5
<1>3. S \in F
  <2> HIDE DEF F
  <2>1. QED  BY <1>1, <1>2, FiniteSubsetInduction
<1>4. QED  BY <1>3

\* A smaller function has a smaller sum.
LEMMA SumMonotone ==
  ASSUME NEW f, NEW g, NEW S, IsFiniteSet(S),
         \A x \in S : f[x] \in Int /\ g[x] \in Int /\ f[x] <= g[x]
  PROVE  SumFunctionOnSet(f, S) <= SumFunctionOnSet(g, S)
<1> DEFINE d == [x \in S |-> g[x] - f[x]]
<1>1. SumFunctionOnSet(g, S) = SumFunctionOnSet(f, S) + SumFunctionOnSet(d, S)
  BY SumPlus
<1>2. SumFunctionOnSet(d, S) \in Nat
  <2>1. \A x \in S : d[x] \in Nat
    OBVIOUS
  <2> HIDE DEF d
  <2>2. QED  BY <2>1, SumNat
<1>3. SumFunctionOnSet(f, S) \in Int
  BY SumInt
<1> HIDE DEF d
<1>4. QED  BY <1>1, <1>2, <1>3

\* The same number for every element: the sum is a multiple of the size.
LEMMA SumConstant ==
  ASSUME NEW f, NEW k \in Int, NEW S, IsFiniteSet(S), \A x \in S : f[x] = k
  PROVE  SumFunctionOnSet(f, S) = Cardinality(S) * k
<1> DEFINE F == {s \in SUBSET S : SumFunctionOnSet(f, s) = Cardinality(s) * k}
<1>1. {} \in F
  BY SumEmpty, FS_EmptySet
<1>2. ASSUME NEW s \in SUBSET S, NEW x \in S \ s, s \in F
      PROVE  s \cup {x} \in F
  <2>1. IsFiniteSet(s)
    BY FS_Subset
  <2>2. SumFunctionOnSet(f, s \cup {x}) = k + SumFunctionOnSet(f, s)
    BY <2>1, SumAdd
  <2>3. Cardinality(s \cup {x}) = Cardinality(s) + 1 /\ Cardinality(s) \in Nat
    BY <2>1, FS_AddElement, FS_CardinalityType
  <2>4. \A c \in Nat : k + c * k = (c + 1) * k
    OBVIOUS
  <2>5. QED  BY <1>2, <2>2, <2>3, <2>4
<1>3. S \in F
  <2> HIDE DEF F
  <2>1. QED  BY <1>1, <1>2, FiniteSubsetInduction
<1>4. QED  BY <1>3

\* A common factor leaves the sum.
LEMMA SumScaled ==
  ASSUME NEW k \in Nat, NEW f, NEW g, NEW S, IsFiniteSet(S),
         \A x \in S : f[x] \in Nat /\ g[x] = k * f[x]
  PROVE  SumFunctionOnSet(g, S) = k * SumFunctionOnSet(f, S)
<1> DEFINE F == {s \in SUBSET S : SumFunctionOnSet(g, s) = k * SumFunctionOnSet(f, s)}
<1>1. {} \in F
  BY SumEmpty
<1>2. ASSUME NEW s \in SUBSET S, NEW x \in S \ s, s \in F
      PROVE  s \cup {x} \in F
  <2>1. IsFiniteSet(s)
    BY FS_Subset
  <2>2. f[x] \in Nat /\ g[x] = k * f[x] /\ k * f[x] \in Nat
        /\ \A y \in s \cup {x} : f[y] \in Int /\ g[y] \in Int
    <3>1. \A y \in S : f[y] \in Nat /\ g[y] = k * f[y] /\ k * f[y] \in Nat
      OBVIOUS
    <3>2. QED  BY <3>1
  <2>3. SumFunctionOnSet(f, s \cup {x}) = f[x] + SumFunctionOnSet(f, s)
    BY <2>1, <2>2, SumAdd
  <2>4. SumFunctionOnSet(g, s \cup {x}) = g[x] + SumFunctionOnSet(g, s)
    BY <2>1, <2>2, SumAdd
  <2>5. SumFunctionOnSet(f, s) \in Nat
    BY <2>1, SumNat
  <2>6. k * (f[x] + SumFunctionOnSet(f, s)) = k * f[x] + k * SumFunctionOnSet(f, s)
    BY <2>2, <2>5
  <2>7. SumFunctionOnSet(g, s) = k * SumFunctionOnSet(f, s)
    BY <1>2
  <2>8. SumFunctionOnSet(g, s \cup {x}) = k * SumFunctionOnSet(f, s \cup {x})
    BY <2>2, <2>3, <2>4, <2>6, <2>7
  <2>9. QED  BY <1>2, <2>8
<1> HIDE DEF F
<1>3. S \in F
  BY <1>1, <1>2, FiniteSubsetInduction
<1>4. QED  BY <1>3 DEF F

\* A sum over a part and a sum over the rest are the sum over the whole.
LEMMA SumSplit ==
  ASSUME NEW f, NEW S, IsFiniteSet(S), NEW A \in SUBSET S, \A x \in S : f[x] \in Int
  PROVE  SumFunctionOnSet(f, S) = SumFunctionOnSet(f, A) + SumFunctionOnSet(f, S \ A)
<1> DEFINE Sum(s) == SumFunctionOnSet(f, s)
           F == {s \in SUBSET A : Sum(S) = Sum(s) + Sum(S \ s)}
<1>0. IsFiniteSet(A)
  BY FS_Subset
<1>1. {} \in F
  <2>1. Sum(S) \in Int /\ S \ {} = S
    BY SumInt
  <2>2. QED  BY <2>1, SumEmpty
<1>2. ASSUME NEW s \in SUBSET A, NEW x \in A \ s, s \in F
      PROVE  s \cup {x} \in F
  <2>1. IsFiniteSet(s) /\ IsFiniteSet(S \ s)
    BY <1>0, FS_Subset
  <2>2. Sum(s \cup {x}) = f[x] + Sum(s)
    BY <2>1, SumAdd
  <2>3. Sum(S \ s) = f[x] + Sum((S \ s) \ {x})
    BY <2>1, SumRemove
  <2>4. (S \ s) \ {x} = S \ (s \cup {x}) /\ s \subseteq S
    OBVIOUS
  <2>5. IsFiniteSet(S \ (s \cup {x}))
    BY FS_Subset
  <2>6. Sum(s) \in Int /\ Sum(S \ (s \cup {x})) \in Int /\ f[x] \in Int
    BY <2>1, <2>4, <2>5, SumInt
  <2>7. Sum(S) = Sum(s) + (f[x] + Sum(S \ (s \cup {x})))
    BY <1>2, <2>3, <2>4
  <2>8. Sum(s \cup {x}) + Sum(S \ (s \cup {x})) = (f[x] + Sum(s)) + Sum(S \ (s \cup {x}))
    BY <2>2
  <2>9. \A i, j, k \in Int : i + (j + k) = (j + i) + k
    OBVIOUS
  <2>10. s \cup {x} \in SUBSET A
    OBVIOUS
  <2>11. QED  BY <2>6, <2>7, <2>8, <2>9, <2>10
<1>3. A \in F
  <2> HIDE DEF F
  <2>1. QED  BY <1>0, <1>1, <1>2, FiniteSubsetInduction
<1>4. QED  BY <1>3

\* The same, for two sets that make up a third.
LEMMA SumParts ==
  ASSUME NEW f, NEW S, IsFiniteSet(S), NEW A, NEW B, A \subseteq S, B = S \ A,
         \A x \in S : f[x] \in Int
  PROVE  SumFunctionOnSet(f, S) = SumFunctionOnSet(f, A) + SumFunctionOnSet(f, B)
BY SumSplit

\* What adds nothing need not be summed.
LEMMA SumSupport ==
  ASSUME NEW f, NEW g, NEW S, IsFiniteSet(S), NEW T,
         \A x \in S : f[x] \in Int /\ g[x] = f[x] /\ (x \notin T => f[x] = 0)
  PROVE  SumFunctionOnSet(g, T \cap S) = SumFunctionOnSet(f, S)
<1> DEFINE K == T \cap S
           U == S \ K
<1>1. /\ K \in SUBSET S /\ \A x \in S : f[x] \in Int
      /\ \A x \in K : f[x] \in Int /\ g[x] = f[x]
      /\ \A x \in U : f[x] = 0
  OBVIOUS
<1>2. IsFiniteSet(K) /\ IsFiniteSet(U)
  BY FS_Subset
<1> HIDE DEF K
<1>3. SumFunctionOnSet(f, S) = SumFunctionOnSet(f, K) + SumFunctionOnSet(f, U)
  BY <1>1, SumSplit
<1> HIDE DEF U
<1>4. SumFunctionOnSet(f, U) = 0
  <2>1. SumFunctionOnSet(f, U) = Cardinality(U) * 0
    BY <1>1, <1>2, SumConstant
  <2>2. QED  BY <1>2, <2>1, FS_CardinalityType
<1>5. SumFunctionOnSet(g, K) = SumFunctionOnSet(f, K) /\ SumFunctionOnSet(f, K) \in Int
  BY <1>1, <1>2, SumEqual, SumInt
<1>6. QED  BY <1>3, <1>4, <1>5 DEF K

\* What is cleared leaves the sum.
LEMMA SumCleared ==
  ASSUME NEW f, NEW g, NEW S, IsFiniteSet(S), NEW A,
         \A x \in S : f[x] \in Int /\ g[x] = (IF x \in A THEN 0 ELSE f[x])
  PROVE  SumFunctionOnSet(g, S) = SumFunctionOnSet(f, S) - SumFunctionOnSet(f, A \cap S)
<1> DEFINE K == A \cap S
           U == S \ K
<1>1. /\ K \subseteq S /\ K = S \ U /\ U \subseteq S
      /\ \A x \in S : f[x] \in Int /\ g[x] \in Int
      /\ \A x \in K : f[x] \in Int /\ g[x] = 0
      /\ \A x \in U : f[x] \in Int /\ g[x] = f[x]
  OBVIOUS
<1>2. IsFiniteSet(K) /\ IsFiniteSet(U)
  BY FS_Subset
<1> HIDE DEF K
<1>3. SumFunctionOnSet(g, S) = SumFunctionOnSet(g, K) + SumFunctionOnSet(g, U)
      /\ SumFunctionOnSet(f, S) = SumFunctionOnSet(f, K) + SumFunctionOnSet(f, U)
  <2>1. U = S \ K
    OBVIOUS
  <2> HIDE DEF U
  <2>2. QED  BY <1>1, <2>1, SumParts
<1> HIDE DEF U
<1>4. SumFunctionOnSet(g, K) = 0
  <2>1. SumFunctionOnSet(g, K) = Cardinality(K) * 0
    BY <1>1, <1>2, SumConstant
  <2>2. QED  BY <1>2, <2>1, FS_CardinalityType
<1>5. SumFunctionOnSet(g, U) = SumFunctionOnSet(f, U)
  BY <1>1, <1>2, SumEqual
<1>6. SumFunctionOnSet(f, K) \in Int /\ SumFunctionOnSet(f, U) \in Int
  BY <1>1, <1>2, SumInt
<1>7. QED  BY <1>3, <1>4, <1>5, <1>6 DEF K

\* A credit to one account, which may be none of those summed if it is zero.
LEMMA SumCredited ==
  ASSUME NEW f, NEW g, NEW S, IsFiniteSet(S), NEW x, NEW a \in Int, x \in S \/ a = 0,
         \A y \in S : f[y] \in Int /\ g[y] = f[y] + (IF y = x THEN a ELSE 0)
  PROVE  SumFunctionOnSet(g, S) = SumFunctionOnSet(f, S) + a
<1>1. CASE x \in S
  <2>1. g[x] \in Int /\ g[x] - f[x] = a /\ \A y \in S : f[y] \in Int /\ (y # x => g[y] = f[y])
    BY <1>1
  <2>2. SumFunctionOnSet(g, S) = SumFunctionOnSet(f, S) + (g[x] - f[x])
    BY <1>1, <2>1, SumUpdate
  <2>3. QED  BY <2>1, <2>2
<1>2. CASE a = 0
  <2>1. \A y \in S : f[y] \in Int /\ g[y] = f[y]
    BY <1>2
  <2>2. SumFunctionOnSet(g, S) = SumFunctionOnSet(f, S) /\ SumFunctionOnSet(f, S) \in Int
    BY <2>1, SumEqual, SumInt
  <2>3. QED  BY <1>2, <2>2
<1>3. QED  BY <1>1, <1>2

\* The same credit to each of some accounts.
LEMMA SumCreditedEach ==
  ASSUME NEW f, NEW g, NEW S, IsFiniteSet(S), NEW R, R \subseteq S, NEW c \in Int,
         \A x \in S : f[x] \in Int /\ g[x] = f[x] + (IF x \in R THEN c ELSE 0)
  PROVE  SumFunctionOnSet(g, S) = SumFunctionOnSet(f, S) + Cardinality(R) * c
<1> DEFINE d == [x \in S |-> IF x \in R THEN c ELSE 0]
<1>1. /\ \A x \in S : f[x] \in Int /\ d[x] \in Int /\ g[x] = f[x] + d[x]
      /\ \A x \in S \ R : d[x] = 0
      /\ \A x \in R : d[x] = c /\ d[x] \in Int
  OBVIOUS
<1>2. IsFiniteSet(R) /\ R \cap S = R
  BY FS_Subset
<1> HIDE DEF d
<1>3. SumFunctionOnSet(g, S) = SumFunctionOnSet(f, S) + SumFunctionOnSet(d, S)
  BY <1>1, SumPlus
<1>4. SumFunctionOnSet(d, R) = Cardinality(R) * c
  BY <1>1, <1>2, SumConstant
<1>5. SumFunctionOnSet(d, S) = Cardinality(R) * c
  <2> DEFINE U == S \ R
  <2>1. IsFiniteSet(U) /\ U = S \ R /\ \A x \in U : d[x] = 0
    BY <1>1, FS_Subset
  <2> HIDE DEF U
  <2>2. SumFunctionOnSet(d, S) = SumFunctionOnSet(d, R) + SumFunctionOnSet(d, U)
    BY <1>1, <2>1, SumParts
  <2>3. SumFunctionOnSet(d, U) = Cardinality(U) * 0 /\ Cardinality(U) \in Nat
    BY <2>1, SumConstant, FS_CardinalityType
  <2>4. SumFunctionOnSet(d, R) \in Int
    BY <1>1, <1>2, SumInt
  <2>5. QED  BY <1>4, <2>2, <2>3, <2>4
<1>6. QED  BY <1>3, <1>5

\* One entry of a table is written: its row's total moves by the difference,
\* the other rows' totals stay.
LEMMA TableWritten ==
  ASSUME NEW T, NEW S, IsFiniteSet(S), NEW table \in [T -> [S -> Nat]],
         NEW t \in T, NEW x \in S, NEW value \in Int, NEW u \in T
  PROVE  SumFunction([table EXCEPT ![t][x] = value][u])
           = SumFunction(table[u]) + (IF u = t THEN value - table[t][x] ELSE 0)
<1> DEFINE new == [table EXCEPT ![t][x] = value]
           f == table[u]
           g == new[u]
<1>1. /\ DOMAIN f = S /\ DOMAIN g = S /\ \A y \in S : f[y] \in Int
      /\ u # t => g = f
      /\ u = t => g[x] = value /\ f = table[t] /\ \A y \in S : y # x => g[y] = f[y]
  OBVIOUS
<1> HIDE DEF f, g
<1>2. SumFunctionOnSet(f, S) \in Int
  BY <1>1, SumInt
<1>3. CASE u = t
  <2>1. g[x] \in Int /\ \A y \in S : f[y] \in Int /\ (y # x => g[y] = f[y])
    BY <1>1, <1>3
  <2>2. SumFunctionOnSet(g, S) = SumFunctionOnSet(f, S) + (g[x] - f[x])
    BY <2>1, SumUpdate
  <2>3. QED  BY <1>1, <1>3, <2>2 DEF SumFunction, f, g
<1>4. CASE u # t
  BY <1>1, <1>2, <1>4 DEF SumFunction, f, g
<1>5. QED  BY <1>3, <1>4

\* A family of amounts gains an entry, or loses one.
LEMMA EntryAdded ==
  ASSUME NEW f, NEW g, IsFiniteSet(DOMAIN f), NEW x, x \notin DOMAIN f,
         DOMAIN g = DOMAIN f \cup {x}, g[x] \in Int,
         \A y \in DOMAIN f : f[y] \in Int /\ g[y] = f[y]
  PROVE  SumFunction(g) = SumFunction(f) + g[x]
<1> DEFINE D == DOMAIN f
<1>1. /\ IsFiniteSet(D) /\ x \notin D /\ DOMAIN g = D \cup {x} /\ DOMAIN f = D
      /\ \A y \in D : f[y] \in Int /\ g[y] = f[y]
      /\ \A y \in D \cup {x} : g[y] \in Int
  OBVIOUS
<1> HIDE DEF D
<1>2. SumFunctionOnSet(g, D \cup {x}) = g[x] + SumFunctionOnSet(g, D)
  BY <1>1, SumAdd
<1>3. SumFunctionOnSet(g, D) = SumFunctionOnSet(f, D) /\ SumFunctionOnSet(f, D) \in Int
  BY <1>1, SumEqual, SumInt
<1>4. QED  BY <1>1, <1>2, <1>3 DEF SumFunction

\* An entry that leaves a table takes its value from the sum.
LEMMA EntryRemoved ==
  ASSUME NEW f, NEW g, IsFiniteSet(DOMAIN f), NEW x, x \in DOMAIN f,
         DOMAIN g = DOMAIN f \ {x},
         \A y \in DOMAIN f : f[y] \in Int /\ (y # x => g[y] = f[y])
  PROVE  SumFunction(g) = SumFunction(f) - f[x]
<1> DEFINE D == DOMAIN f
           R == D \ {x}
<1>1. IsFiniteSet(D) /\ x \in D /\ DOMAIN g = R /\ DOMAIN f = D
      /\ (\A y \in D : f[y] \in Int) /\ (\A y \in R : f[y] \in Int /\ g[y] = f[y])
  OBVIOUS
<1>2. IsFiniteSet(R)
  BY <1>1, FS_Subset
<1> HIDE DEF D
<1>3. SumFunctionOnSet(f, D) = f[x] + SumFunctionOnSet(f, R)
  BY <1>1, SumRemove
<1> HIDE DEF R
<1>4. SumFunctionOnSet(g, R) = SumFunctionOnSet(f, R) /\ SumFunctionOnSet(f, R) \in Int
  BY <1>1, <1>2, SumEqual, SumInt
<1>5. f[x] \in Int
  BY <1>1
<1>6. QED  BY <1>1, <1>3, <1>4, <1>5 DEF SumFunction

\* Renaming the elements does not change the sum.
LEMMA SumReindex ==
  ASSUME NEW f, NEW g, NEW S, IsFiniteSet(S), NEW T, NEW h \in Bijection(S, T),
         \A x \in S : f[x] \in Int /\ g[h[x]] = f[x]
  PROVE  SumFunctionOnSet(g, T) = SumFunctionOnSet(f, S)
<1> DEFINE Image(s) == {h[x] : x \in s}
           F == {s \in SUBSET S : /\ IsFiniteSet(Image(s))
                                  /\ SumFunctionOnSet(g, Image(s)) = SumFunctionOnSet(f, s)}
<1>0. /\ \A x, y \in S : h[x] = h[y] => x = y
      /\ Image(S) = T
  <2>1. h \in Injection(S, T) /\ h \in Surjection(S, T)
    BY DEF Bijection
  <2>2. h \in [S -> T] /\ \A x, y \in S : h[x] = h[y] => x = y
    BY <2>1 DEF Injection, IsInjective
  <2>3. \A t \in T : \E x \in S : h[x] = t
    BY <2>1 DEF Surjection
  <2>4. QED  BY <2>2, <2>3
<1>1. {} \in F
  <2>1. Image({}) = {}
    OBVIOUS
  <2>2. QED  BY <2>1, SumEmpty, FS_EmptySet
<1>2. ASSUME NEW s \in SUBSET S, NEW x \in S \ s, s \in F
      PROVE  s \cup {x} \in F
  <2>1. IsFiniteSet(s)
    BY FS_Subset
  <2>2. SumFunctionOnSet(f, s \cup {x}) = f[x] + SumFunctionOnSet(f, s)
    BY <2>1, SumAdd
  <2>3. /\ Image(s \cup {x}) = Image(s) \cup {h[x]}
        /\ h[x] \notin Image(s)
    BY <1>0
  <2>4. \A t \in Image(s) \cup {h[x]} : g[t] \in Int
    OBVIOUS
  <2>5. IsFiniteSet(Image(s)) /\ SumFunctionOnSet(g, Image(s)) = SumFunctionOnSet(f, s)
    BY <1>2
  <2>6. IsFiniteSet(Image(s) \cup {h[x]})
    BY <2>5, FS_AddElement
  <2> HIDE DEF Image
  <2>7. SumFunctionOnSet(g, Image(s) \cup {h[x]}) = g[h[x]] + SumFunctionOnSet(g, Image(s))
    BY <2>3, <2>4, <2>5, SumAdd
  <2>8. QED  BY <2>2, <2>3, <2>5, <2>6, <2>7
<1>3. S \in F
  <2> HIDE DEF F
  <2>1. QED  BY <1>1, <1>2, FiniteSubsetInduction
<1>4. QED  BY <1>0, <1>3

-----------------------------------------------------------------------------
(* mul_bps(): dividing first loses nothing and never exceeds the value.    *)

\* Multiplication keeps the order.
LEMMA MulMonotone ==
  ASSUME NEW a \in Nat, NEW b \in Nat, NEW c \in Nat, b <= c
  PROVE  a * b <= a * c /\ a * b \in Nat
OBVIOUS

\* A quotient is bounded by what bounds the dividend in units of the divisor.
LEMMA DivBound ==
  ASSUME NEW a \in Nat, NEW d \in Nat \ {0}, NEW q \in Nat, a <= q * d
  PROVE  a \div d \in Nat /\ a \div d <= q
<1> DEFINE k == a \div d
           m == a % d
<1>1. k \in Nat /\ m \in Nat /\ a = d * k + m
  OBVIOUS
<1>2. d * (a \div d) <= q * d
  BY <1>1
<1>3. SUFFICES ASSUME a \div d > q PROVE FALSE
  BY <1>1
<1>4. d * (q + 1) <= d * (a \div d)
  BY <1>1, <1>3, MulMonotone
<1>5. QED  BY <1>2, <1>4, <1>1

\* Dividing keeps the order.
LEMMA DivMonotone ==
  ASSUME NEW x \in Nat, NEW y \in Nat, NEW d \in Nat \ {0}, x <= y
  PROVE  x \div d \in Nat /\ y \div d \in Nat /\ x \div d <= y \div d
<1>1. PICK k \in Nat, m \in 0 .. d - 1 : k = x \div d /\ x = d * k + m
  <2> DEFINE k == x \div d
             m == x % d
  <2>1. k \in Nat /\ m \in 0 .. d - 1 /\ x = d * k + m
    OBVIOUS
  <2>2. QED  BY <2>1
<1>2. PICK j \in Nat, r \in 0 .. d - 1 : j = y \div d /\ y = d * j + r
  <2> DEFINE j == y \div d
             r == y % d
  <2>1. j \in Nat /\ r \in 0 .. d - 1 /\ y = d * j + r
    OBVIOUS
  <2>2. QED  BY <2>1
<1>3. ASSUME j < k
      PROVE  FALSE
  <2>1. d * (j + 1) <= d * k /\ d * (j + 1) = d * j + d
    BY <1>3, MulMonotone
  <2>2. d * j \in Nat /\ d * k \in Nat
    OBVIOUS
  <2>3. QED  BY <1>1, <1>2, <2>1, <2>2
<1>4. k <= j
  BY <1>3
<1>5. QED  BY <1>1, <1>2, <1>4

\* Whatever the basis points, mul_bps() of a natural number is a natural
\* number no larger than it.
LEMMA MulBpsBound ==
  ASSUME NEW value \in Nat, NEW bps \in 0 .. BPS_DENOM
  PROVE  MulBps(value, bps) \in 0 .. value
<1> DEFINE q == value \div BPS_DENOM
           r == value % BPS_DENOM
<1>1. q \in Nat /\ r \in Nat /\ value = BPS_DENOM * q + r
  BY BpsAssumption
<1>2. q * bps <= q * BPS_DENOM /\ q * bps \in Nat
  BY <1>1, MulMonotone, BpsAssumption
<1>3. r * bps <= r * BPS_DENOM /\ r * bps \in Nat
  BY <1>1, MulMonotone, BpsAssumption
<1>4. (r * bps) \div BPS_DENOM \in Nat /\ (r * bps) \div BPS_DENOM <= r
  BY <1>1, <1>3, DivBound, BpsAssumption
<1>5. QED
  BY <1>1, <1>2, <1>4, BpsAssumption DEF MulBps

\* A multiple of the divisor goes through a division as it is.
LEMMA DivSum ==
  ASSUME NEW x \in Nat, NEW y \in Nat, NEW d \in Nat \ {0}
  PROVE  (d * x + y) \div d = x + y \div d
<1>1. PICK k \in Nat, m \in 0 .. d - 1 : k = y \div d /\ y = d * k + m
  <2> DEFINE k == y \div d
             m == y % d
  <2>1. k \in Nat /\ m \in 0 .. d - 1 /\ y = d * k + m
    OBVIOUS
  <2>2. QED  BY <2>1
<1>2. d * (x + k) = d * x + d * k /\ x + k \in Nat
  OBVIOUS
<1>3. d * x + y = d * (x + k) + m
  BY <1>1, <1>2
<1>4. (d * (x + k) + m) \div d = x + k
  <2> DEFINE j == (d * (x + k) + m) \div d
  <2>1. d * (x + k) + m \in Nat
    BY <1>1, <1>2
  <2>2. PICK r \in 0 .. d - 1 : j \in Nat /\ d * (x + k) + m = d * j + r
    <3> DEFINE r == (d * (x + k) + m) % d
    <3>1. j \in Nat /\ r \in 0 .. d - 1 /\ d * (x + k) + m = d * j + r
      BY <2>1
    <3>2. QED  BY <3>1
  <2> HIDE DEF j
  <2>3. SUFFICES ASSUME j # x + k PROVE FALSE
    BY DEF j
  <2>4. CASE j < x + k
    <3>1. d * (j + 1) <= d * (x + k) /\ d * (j + 1) = d * j + d
      BY <1>2, <2>2, <2>4, MulMonotone
    <3>2. d * j \in Nat /\ d * (x + k) \in Nat
      BY <1>2, <2>2
    <3>3. QED  BY <1>1, <2>2, <3>1, <3>2
  <2>5. CASE x + k < j
    <3>1. d * (x + k + 1) <= d * j /\ d * (x + k + 1) = d * (x + k) + d
      BY <1>2, <2>2, <2>5, MulMonotone
    <3>2. d * j \in Nat /\ d * (x + k) \in Nat
      BY <1>2, <2>2
    <3>3. QED  BY <1>1, <2>2, <3>1, <3>2
  <2>6. QED  BY <1>2, <2>2, <2>3, <2>4, <2>5
<1>5. QED  BY <1>1, <1>3, <1>4

\* Dividing first is exact: mul_bps() is the product over the denominator.
LEMMA MulBpsExact ==
  ASSUME NEW value \in Nat, NEW bps \in 0 .. BPS_DENOM
  PROVE  MulBps(value, bps) = (value * bps) \div BPS_DENOM
<1>1. PICK q \in Nat, r \in Nat :
        /\ q = value \div BPS_DENOM /\ r = value % BPS_DENOM
        /\ value = BPS_DENOM * q + r
  <2> DEFINE q == value \div BPS_DENOM
             r == value % BPS_DENOM
  <2>1. q \in Nat /\ r \in Nat /\ value = BPS_DENOM * q + r
    BY BpsAssumption
  <2>2. QED  BY <2>1
<1>2. BPS_DENOM \in Nat \ {0} /\ bps \in Nat /\ q * bps \in Nat /\ r * bps \in Nat
  BY BpsAssumption
<1>3. value * bps = BPS_DENOM * (q * bps) + r * bps
  <2>1. (BPS_DENOM * q + r) * bps = BPS_DENOM * (q * bps) + r * bps
    BY <1>2
  <2>2. QED  BY <1>1, <2>1
<1>4. (BPS_DENOM * (q * bps) + r * bps) \div BPS_DENOM = q * bps + (r * bps) \div BPS_DENOM
  BY <1>2, DivSum
<1>5. MulBps(value, bps) = q * bps + (r * bps) \div BPS_DENOM
  BY <1>1 DEF MulBps
<1>6. QED  BY <1>3, <1>4, <1>5

\* preview_resolve() and preview_slash() compute the fee and each slash with a
\* plain product where the settlement uses mul_bps(): the results are the same
\* for every amount and every stake.
THEOREM PreviewFormulasAgree ==
  ASSUME NEW a \in Nat, NEW s \in Nat
  PROVE  /\ PreviewFee(a) = Fee(a)
         /\ PreviewSlash(s, a) = SlashAmount(s, a)
BY MulBpsExact, BpsAssumption DEF PreviewFee, Fee, PreviewSlash, SlashAmount

-----------------------------------------------------------------------------
(* The two divisions of a settlement.                                      *)

\* Integer division by the quorum leaves a remainder in 0 .. q - 1.
LEMMA Division ==
  ASSUME NEW a \in Nat, NEW q \in Nat \ {0}
  PROVE  /\ a \div q \in Nat
         /\ (a \div q) * q \in Nat
         /\ a - (a \div q) * q \in 0 .. q - 1
         /\ (a \div q) * q + (a - (a \div q) * q) = a
<1> DEFINE k == a \div q
           m == a % q
<1>1. k \in Nat /\ m \in 0 .. q - 1 /\ a = q * k + m
  OBVIOUS
<1>2. k * q \in Nat /\ k * q = q * k
  BY <1>1
<1>3. QED  BY <1>1, <1>2

\* fee + share * n + dust is the amount, no term is negative, and the dust is
\* less than one unit per worker.
LEMMA SplitConserves ==
  ASSUME NEW a \in Nat, NEW q \in Nat \ {0}
  PROVE  /\ Fee(a) \in 0 .. a
         /\ Share(a, q) \in Nat
         /\ Dust(a, q) \in 0 .. q - 1
         /\ Fee(a) + Share(a, q) * q + Dust(a, q) = a
<1>1. Fee(a) \in 0 .. a
  BY MulBpsBound, BpsAssumption DEF Fee
<1>2. Pool(a) \in Nat /\ Fee(a) + Pool(a) = a
  BY <1>1 DEF Pool
<1>3. /\ Share(a, q) \in Nat
      /\ Share(a, q) * q \in Nat
      /\ Dust(a, q) \in 0 .. q - 1
      /\ Share(a, q) * q + Dust(a, q) = Pool(a)
  <2> DEFINE p == Pool(a)
  <2>1. p \in Nat
    BY <1>2
  <2>2. /\ p \div q \in Nat
        /\ (p \div q) * q \in Nat
        /\ p - (p \div q) * q \in 0 .. q - 1
        /\ (p \div q) * q + (p - (p \div q) * q) = p
    BY <2>1, Division
  <2>3. QED  BY <2>2 DEF Share, Dust
<1>4. QED  BY <1>1, <1>2, <1>3

\* What the workers and the platform get of one slash is the slash.
LEMMA SlashShared ==
  ASSUME NEW s \in Nat, NEW q \in Nat \ {0}
  PROVE  /\ RedistShare(s, q) \in Nat
         /\ PlatformPortion(s, q) \in Nat
         /\ RedistShare(s, q) * q + PlatformPortion(s, q) = s
<1>1. RedistPortion(s) \in 0 .. s
  BY MulBpsBound, BpsAssumption DEF RedistPortion
<1>2. /\ RedistShare(s, q) \in Nat
      /\ RedistShare(s, q) * q \in Nat
      /\ RedistDust(s, q) \in Nat
      /\ RedistShare(s, q) * q + RedistDust(s, q) = RedistPortion(s)
  <2> DEFINE p == RedistPortion(s)
  <2>1. p \in Nat
    BY <1>1
  <2>2. /\ p \div q \in Nat
        /\ (p \div q) * q \in Nat
        /\ p - (p \div q) * q \in 0 .. q - 1
        /\ (p \div q) * q + (p - (p \div q) * q) = p
    BY <2>1, Division
  <2>3. QED  BY <2>2 DEF RedistShare, RedistDust
<1>3. QED  BY <1>1, <1>2 DEF PlatformPortion

\* slash() takes no more than the question's amount and no more than there is.
LEMMA SlashAmountBound ==
  ASSUME NEW s \in Nat, NEW a \in Nat
  PROVE  /\ SlashAmount(s, a) \in Nat
         /\ SlashAmount(s, a) <= a
         /\ SlashAmount(s, a) <= s
<1>1. MulBps(s, SLASH_BPS) \in 0 .. s /\ MulBps(a, SLASH_CAP_BPS_OF_AMOUNT) \in 0 .. a
  BY MulBpsBound, BpsAssumption
<1>2. QED  BY <1>1 DEF SlashAmount, Min2

\* What a settlement hands out is what it takes in: the credits of n workers and
\* the platform's take are the question's amount and what was slashed, whoever
\* lost and however much was taken from each.
LEMMA PayoutsConserve ==
  ASSUME NEW amount \in Nat, NEW n \in Nat \ {0}, NEW slashed,
         IsFiniteSet(DOMAIN slashed), \A l \in DOMAIN slashed : slashed[l] \in Nat
  PROVE  /\ WorkerCredit(amount, n, slashed) \in Nat
         /\ PlatformTake(amount, n, slashed) \in Nat
         /\ TotalSlashed(slashed) \in Nat
         /\ n * WorkerCredit(amount, n, slashed) + PlatformTake(amount, n, slashed)
              = amount + TotalSlashed(slashed)
<1> DEFINE D == DOMAIN slashed
           shares == [l \in D |-> RedistShare(slashed[l], n)]
           portions == [l \in D |-> PlatformPortion(slashed[l], n)]
           toWorkers == [l \in D |-> n * shares[l]]
           A == SumFunctionOnSet(shares, D)
           P == SumFunctionOnSet(portions, D)
           T == SumFunctionOnSet(slashed, D)
<1>1. ASSUME NEW l \in D
      PROVE  /\ shares[l] \in Nat /\ portions[l] \in Nat /\ slashed[l] \in Nat
             /\ toWorkers[l] = n * shares[l] /\ toWorkers[l] \in Nat
             /\ slashed[l] = toWorkers[l] + portions[l]
  <2>1. slashed[l] \in Nat /\ n \in Nat
    OBVIOUS
  <2>2. /\ RedistShare(slashed[l], n) \in Nat /\ PlatformPortion(slashed[l], n) \in Nat
        /\ RedistShare(slashed[l], n) * n + PlatformPortion(slashed[l], n) = slashed[l]
    BY <2>1, SlashShared
  <2>3. shares[l] = RedistShare(slashed[l], n) /\ portions[l] = PlatformPortion(slashed[l], n)
        /\ toWorkers[l] = n * shares[l]
    OBVIOUS
  <2> HIDE DEF shares, portions, toWorkers
  <2>4. n * shares[l] \in Nat /\ n * shares[l] = shares[l] * n
    BY <2>1, <2>2, <2>3
  <2>5. QED  BY <2>1, <2>2, <2>3, <2>4
<1>2. /\ WorkerCredit(amount, n, slashed) = Share(amount, n) + A
      /\ PlatformTake(amount, n, slashed) = Fee(amount) + Dust(amount, n) + P
      /\ TotalSlashed(slashed) = T
  BY DEF WorkerCredit, PlatformTake, TotalSlashed, SumFunction
<1> HIDE DEF shares, portions, toWorkers
<1>3. A \in Nat /\ P \in Nat /\ T \in Nat
  BY <1>1, SumNat
<1>4. T = SumFunctionOnSet(toWorkers, D) + P
  <2>1. \A l \in D : /\ toWorkers[l] \in Int /\ portions[l] \in Int
                      /\ slashed[l] = toWorkers[l] + portions[l]
    BY <1>1
  <2>2. QED  BY <2>1, SumPlus
<1>5. SumFunctionOnSet(toWorkers, D) = n * A
  BY <1>1, SumScaled
<1> HIDE DEF A, P, T
<1>6. /\ Fee(amount) \in Nat /\ Share(amount, n) \in Nat /\ Dust(amount, n) \in Nat
      /\ Fee(amount) + Share(amount, n) * n + Dust(amount, n) = amount
  BY SplitConserves
<1>7. n * (Share(amount, n) + A) = Share(amount, n) * n + n * A
      /\ Share(amount, n) * n \in Nat /\ n * A \in Nat
  BY <1>3, <1>6
<1>8. QED  BY <1>2, <1>3, <1>4, <1>5, <1>6, <1>7
=============================================================================
