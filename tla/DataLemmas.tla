------------------------------ MODULE DataLemmas ------------------------------
(***************************************************************************)
(* Facts that need induction, for the proofs of the components: about sets *)
(* of natural numbers, finite sets, the sum of a function over a finite    *)
(* set (SumFunctionOnSet, a fold, is a recursive function), and the        *)
(* elements of a sequence that belong to a set (Only).                     *)
(*                                                                         *)
(* Induction is stated for sets: a set of numbers that holds 0 and with n  *)
(* also n + 1 is Nat.  To prove P(n) for every n, take {n \in Nat : P(n)}. *)
(***************************************************************************)
EXTENDS Integers, Subsequences, Functions, FiniteSets,
        FiniteSetTheorems, SequenceTheorems, WellFoundedInduction, TLAPS

\* A set of natural numbers that is not empty has a least element.
LEMMA LeastOfSet ==
  ASSUME NEW T, T \subseteq Nat, T # {}
  PROVE  \E x \in T : \A y \in T : x <= y
<1> DEFINE Less == OpToRel(<, Nat)
<1>1. IsWellFoundedOn(Less, Nat)
  BY NatLessThanWellFounded
<1>2. \A x, y \in Nat : y < x => <<y, x>> \in Less
  BY Zenon DEF OpToRel
<1> HIDE DEF Less
<1>3. PICK x \in T : \A y \in T : ~ (<<y, x>> \in Less)
  BY <1>1, WFMin
<1>4. ASSUME NEW y \in T PROVE x <= y
  <2>1. x \in Nat /\ y \in Nat
    OBVIOUS
  <2>2. ~(y < x)
    BY <1>2, <1>3, <2>1, Zenon
  <2> QED
    BY <2>1, <2>2
<1> QED
  BY <1>4

\* Induction over the naturals, for a set.
LEMMA Induction ==
  ASSUME NEW S \in SUBSET Nat, 0 \in S, \A n \in S : n + 1 \in S
  PROVE  S = Nat
<1> SUFFICES ASSUME Nat \ S # {} PROVE FALSE
  OBVIOUS
<1>1. PICK x \in Nat \ S : \A y \in Nat \ S : x <= y
  BY LeastOfSet
<1>2. x # 0 /\ x - 1 \in Nat /\ ~(x <= x - 1)
  OBVIOUS
<1>3. x - 1 \in S
  BY <1>1, <1>2
<1>4. (x - 1) + 1 = x
  OBVIOUS
<1> QED
  BY <1>3, <1>4

\* Induction over the subsets of a finite set, for a set of subsets.
LEMMA SetInduction ==
  ASSUME NEW S, IsFiniteSet(S), NEW P,
         {} \in P, \A T \in SUBSET S : \A x \in S \ T : T \in P => T \cup {x} \in P
  PROVE  S \in P
<1> DEFINE M == {n \in Nat : \A T \in SUBSET S : Cardinality(T) = n => T \in P}
<1>1. \A T \in SUBSET S : IsFiniteSet(T) /\ Cardinality(T) \in Nat
  BY FS_Subset, FS_CardinalityType
<1>2. 0 \in M
  BY <1>1, FS_EmptySet
<1>3. ASSUME NEW n \in M PROVE n + 1 \in M
  <2> SUFFICES ASSUME NEW T \in SUBSET S, Cardinality(T) = n + 1 PROVE T \in P
    OBVIOUS
  <2>1. PICK x \in T : TRUE
    BY <1>1, FS_EmptySet
  <2>2. T \ {x} \in SUBSET S /\ x \in S \ (T \ {x}) /\ (T \ {x}) \cup {x} = T
    OBVIOUS
  <2>3. Cardinality(T \ {x}) = n
    BY <1>1, FS_RemoveElement
  <2>4. T \ {x} \in P
    BY <2>2, <2>3
  <2> QED
    BY <2>2, <2>4
<1>4. M = Nat
  <2> HIDE DEF M
  <2>1. M \subseteq Nat
    BY DEF M
  <2> QED
    BY <1>2, <1>3, <2>1, Induction
<1> QED
  BY <1>1, <1>4
-----------------------------------------------------------------------------
(* The sum of f over a finite set.                                         *)

\* The function that the definition of the sum over T describes.
Adds(f, T, g) == g = [s \in SUBSET T |-> IF s = {} THEN 0
                                         ELSE LET x == CHOOSE x \in s : TRUE
                                              IN  f[x] + g[s \ {x}]]

\* It exists: built up by the number of elements.
LEMMA AddsExists == ASSUME NEW f, NEW T, IsFiniteSet(T) PROVE \E g : Adds(f, T, g)
<1> DEFINE Upto(n) == {s \in SUBSET T : Cardinality(s) <= n}
           One(g, s) == IF s = {} THEN 0 ELSE LET x == CHOOSE x \in s : TRUE IN f[x] + g[s \ {x}]
           Eq(g, n) == g = [s \in Upto(n) |-> One(g, s)]
           M == {n \in Nat : \E g : Eq(g, n)}
<1>0. \A s \in SUBSET T : IsFiniteSet(s) /\ Cardinality(s) \in Nat
  BY FS_Subset, FS_CardinalityType
<1>1. 0 \in M
  <2> DEFINE g == [s \in Upto(0) |-> 0]
  <2>1. \A s \in Upto(0) : s = {}
    BY <1>0, FS_EmptySet
  <2>2. Eq(g, 0)
    BY <2>1
  <2> QED
    BY <2>2
<1>2. ASSUME NEW n \in M PROVE n + 1 \in M
  <2>1. n \in Nat
    OBVIOUS
  <2>2. PICK g : Eq(g, n)
    OBVIOUS
  <2> DEFINE h == [s \in Upto(n + 1) |-> One(g, s)]
  <2>3. \A s \in Upto(n) : g[s] = h[s]
    <3> DEFINE k == [s \in Upto(n) |-> One(g, s)]
    <3>1. g = k
      BY <2>2
    <3>2. \A s \in Upto(n) : s \in Upto(n + 1)
      BY <1>0, <2>1
    <3>3. \A s \in Upto(n) : k[s] = h[s]
      <4> HIDE DEF Upto, One
      <4> QED
        BY <3>2
    <3> HIDE DEF k, h
    <3> QED
      BY <3>1, <3>3
  <2>4. \A s \in Upto(n + 1) : s # {} => s \ {CHOOSE x \in s : TRUE} \in Upto(n)
    <3> SUFFICES ASSUME NEW s \in Upto(n + 1), s # {}
                 PROVE  s \ {CHOOSE x \in s : TRUE} \in Upto(n)
      OBVIOUS
    <3>1. PICK x \in s : x = CHOOSE y \in s : TRUE
      OBVIOUS
    <3>2. Cardinality(s \ {x}) = Cardinality(s) - 1
      BY <1>0, FS_RemoveElement
    <3>3. Cardinality(s) \in Nat
      BY <1>0
    <3> QED
      BY <2>1, <3>1, <3>2, <3>3
  <2>5. \A s \in Upto(n + 1) : h[s] = One(h, s)
    <3> SUFFICES ASSUME NEW s \in Upto(n + 1) PROVE h[s] = One(h, s)
      OBVIOUS
    <3>1. h[s] = One(g, s)
      <4> HIDE DEF Upto, One
      <4> QED
        OBVIOUS
    <3> HIDE DEF h, Upto
    <3> QED
      BY <2>3, <2>4, <3>1
  <2>6. Eq(h, n + 1)
    <3>1. h = [s \in Upto(n + 1) |-> h[s]]
      OBVIOUS
    <3> HIDE DEF h, Upto, One
    <3>2. [s \in Upto(n + 1) |-> h[s]] = [s \in Upto(n + 1) |-> One(h, s)]
      BY <2>5
    <3> QED
      BY <3>1, <3>2
  <2>7. \E k : Eq(k, n + 1)
    <3> HIDE DEF h, Eq
    <3> QED
      BY <2>6
  <2> QED
    <3> HIDE DEF Eq
    <3> QED
      BY <2>1, <2>7
<1>3. M = Nat
  <2> HIDE DEF M
  <2>1. M \subseteq Nat
    BY DEF M
  <2> QED
    BY <1>1, <1>2, <2>1, Induction
<1>4. Cardinality(T) \in M
  BY <1>0, <1>3
<1>5. PICK g : Eq(g, Cardinality(T))
  BY <1>4
<1>6. Upto(Cardinality(T)) = SUBSET T
  <2>1. \A s \in SUBSET T : Cardinality(s) <= Cardinality(T)
    BY FS_Subset
  <2> QED
    BY <2>1
<1>7. Adds(f, T, g)
  BY <1>5, <1>6 DEF Adds
<1> QED
  BY <1>7

\* The sum is the value at T of such a function.
LEMMA SumIsAdds ==
  ASSUME NEW f, NEW T, IsFiniteSet(T)
  PROVE  \E g : Adds(f, T, g) /\ SumFunctionOnSet(f, T) = g[T]
<1> DEFINE G == CHOOSE g : Adds(f, T, g)
<1>1. Adds(f, T, G)
  BY AddsExists
<1>2. SumFunctionOnSet(f, T) = G[T]
  BY DEF SumFunctionOnSet, FoldFunctionOnSet, MapThenFoldSet, Adds
<1> QED
  BY <1>1, <1>2

\* Such functions, for different sets, agree on what is in both.
LEMMA AddsAgree ==
  ASSUME NEW f, NEW T, NEW U, IsFiniteSet(T), NEW g, NEW h, Adds(f, T, g), Adds(f, U, h)
  PROVE  \A s \in SUBSET (T \cap U) : g[s] = h[s]
<1> DEFINE M == {n \in Nat : \A s \in SUBSET (T \cap U) : Cardinality(s) = n => g[s] = h[s]}
<1>0. \A s \in SUBSET (T \cap U) : IsFiniteSet(s) /\ Cardinality(s) \in Nat
  BY FS_Subset, FS_CardinalityType
<1>1. \A s \in SUBSET (T \cap U) : s # {} =>
        /\ g[s] = f[CHOOSE x \in s : TRUE] + g[s \ {CHOOSE x \in s : TRUE}]
        /\ h[s] = f[CHOOSE x \in s : TRUE] + h[s \ {CHOOSE x \in s : TRUE}]
  BY DEF Adds
<1>2. g[{}] = 0 /\ h[{}] = 0
  BY DEF Adds
<1>3. 0 \in M
  BY <1>0, <1>2, FS_EmptySet
<1>4. ASSUME NEW n \in M PROVE n + 1 \in M
  <2> SUFFICES ASSUME NEW s \in SUBSET (T \cap U), Cardinality(s) = n + 1 PROVE g[s] = h[s]
    OBVIOUS
  <2>1. s # {}
    BY FS_EmptySet
  <2>2. PICK x \in s : x = CHOOSE y \in s : TRUE
    BY <2>1
  <2>3. Cardinality(s \ {x}) = n /\ s \ {x} \in SUBSET (T \cap U)
    <3>1. Cardinality(s \ {x}) = Cardinality(s) - 1
      BY <1>0, FS_RemoveElement
    <3>2. n \in Nat
      BY DEF M
    <3> QED
      BY <3>1, <3>2
  <2>4. g[s \ {x}] = h[s \ {x}]
    BY <2>3
  <2> QED
    BY <1>1, <2>1, <2>2, <2>4
<1>5. M = Nat
  <2> HIDE DEF M
  <2>1. M \subseteq Nat
    BY DEF M
  <2> QED
    BY <1>3, <1>4, <2>1, Induction
<1> QED
  BY <1>0, <1>5

\* The sum over nothing, and the sum with its chosen element taken out.
LEMMA SumUnfolds ==
  ASSUME NEW f, NEW T, IsFiniteSet(T)
  PROVE  /\ T = {} => SumFunctionOnSet(f, T) = 0
         /\ T # {} => \E x \in T : SumFunctionOnSet(f, T) = f[x] + SumFunctionOnSet(f, T \ {x})
<1>1. PICK g : Adds(f, T, g) /\ SumFunctionOnSet(f, T) = g[T]
  BY SumIsAdds
<1>2. CASE T = {}
  BY <1>1, <1>2 DEF Adds
<1>3. CASE T # {}
  <2>1. PICK x \in T : x = CHOOSE y \in T : TRUE
    BY <1>3
  <2>2. g[T] = f[x] + g[T \ {x}]
    BY <1>1, <1>3, <2>1 DEF Adds
  <2>3. IsFiniteSet(T \ {x})
    BY FS_RemoveElement
  <2>4. PICK h : Adds(f, T \ {x}, h) /\ SumFunctionOnSet(f, T \ {x}) = h[T \ {x}]
    BY <2>3, SumIsAdds
  <2>5. g[T \ {x}] = h[T \ {x}]
    <3>1. T \ {x} \in SUBSET (T \cap (T \ {x}))
      OBVIOUS
    <3> QED
      BY <1>1, <2>4, <3>1, AddsAgree
  <2> QED
    BY <1>1, <1>3, <2>2, <2>4, <2>5
<1> QED
  BY <1>2, <1>3

\* A sum of natural numbers is a natural number.
LEMMA SumNat ==
  ASSUME NEW f, NEW S, IsFiniteSet(S), \A x \in S : f[x] \in Nat
  PROVE  SumFunctionOnSet(f, S) \in Nat
<1> DEFINE Sum(T) == SumFunctionOnSet(f, T)
           M == {n \in Nat : \A T \in SUBSET S : Cardinality(T) = n => Sum(T) \in Nat}
<1>0. \A T \in SUBSET S : IsFiniteSet(T) /\ Cardinality(T) \in Nat
  BY FS_Subset, FS_CardinalityType
<1> HIDE DEF Sum
<1>1. \A T \in SUBSET S : /\ T = {} => Sum(T) = 0
                          /\ T # {} => \E x \in T : Sum(T) = f[x] + Sum(T \ {x})
  BY <1>0, SumUnfolds DEF Sum
<1>2. 0 \in M
  BY <1>0, <1>1, FS_EmptySet
<1>3. ASSUME NEW n \in M PROVE n + 1 \in M
  <2> SUFFICES ASSUME NEW T \in SUBSET S, Cardinality(T) = n + 1 PROVE Sum(T) \in Nat
    OBVIOUS
  <2>1. T # {}
    BY FS_EmptySet
  <2>2. PICK c \in T : Sum(T) = f[c] + Sum(T \ {c})
    BY <1>1, <2>1
  <2>3. T \ {c} \in SUBSET S /\ Cardinality(T \ {c}) = n
    <3>1. n \in Nat /\ Cardinality(T \ {c}) = Cardinality(T) - 1
      BY <1>0, FS_RemoveElement
    <3> QED
      BY <3>1
  <2> QED
    BY <2>2, <2>3
<1>4. M = Nat
  <2> HIDE DEF M
  <2>1. M \subseteq Nat
    BY DEF M
  <2> QED
    BY <1>2, <1>3, <2>1, Induction
<1> QED
  BY <1>0, <1>4 DEF Sum

\* Any element can be taken out of a sum first.
LEMMA SumRemove ==
  ASSUME NEW f, NEW S, IsFiniteSet(S), \A x \in S : f[x] \in Nat, NEW z \in S
  PROVE  SumFunctionOnSet(f, S) = f[z] + SumFunctionOnSet(f, S \ {z})
<1> DEFINE Sum(T) == SumFunctionOnSet(f, T)
           Good(T) == \A x \in T : Sum(T) = f[x] + Sum(T \ {x})
           M == {n \in Nat : \A T \in SUBSET S : Cardinality(T) = n => Good(T)}
<1>0. \A T \in SUBSET S : IsFiniteSet(T) /\ Cardinality(T) \in Nat /\ Sum(T) \in Nat
  BY FS_Subset, FS_CardinalityType, SumNat
<1> HIDE DEF Sum
<1>1. \A T \in SUBSET S : T # {} => \E x \in T : Sum(T) = f[x] + Sum(T \ {x})
  BY <1>0, SumUnfolds DEF Sum
<1>2. 0 \in M
  BY <1>0, FS_EmptySet
<1>3. ASSUME NEW n \in M PROVE n + 1 \in M
  <2> SUFFICES ASSUME NEW T \in SUBSET S, Cardinality(T) = n + 1 PROVE Good(T)
    OBVIOUS
  <2>1. \A x \in T : T \ {x} \in SUBSET S /\ Cardinality(T \ {x}) = n
    BY <1>0, FS_RemoveElement
  <2>2. \A x \in T : Good(T \ {x})
    BY <2>1
  <2>3. PICK c \in T : Sum(T) = f[c] + Sum(T \ {c})
    BY <1>1, FS_EmptySet
  <2> SUFFICES ASSUME NEW x \in T PROVE Sum(T) = f[x] + Sum(T \ {x})
    OBVIOUS
  <2>4. CASE x = c
    BY <2>3, <2>4
  <2>5. CASE x # c
    <3>1. Sum(T \ {c}) = f[x] + Sum((T \ {c}) \ {x})
      BY <2>2, <2>5
    <3>2. Sum(T \ {x}) = f[c] + Sum((T \ {x}) \ {c})
      BY <2>2, <2>5
    <3>3. (T \ {c}) \ {x} = (T \ {x}) \ {c} /\ (T \ {x}) \ {c} \in SUBSET S
      OBVIOUS
    <3>4. Sum((T \ {x}) \ {c}) \in Nat /\ f[x] \in Nat /\ f[c] \in Nat
      BY <1>0, <3>3
    <3>5. Sum(T \ {c}) = f[x] + Sum((T \ {x}) \ {c})
      BY <3>1, <3>3
    <3> HIDE DEF M, Good
    <3> QED
      BY <2>3, <3>2, <3>4, <3>5
  <2> QED
    BY <2>4, <2>5
<1>4. M = Nat
  <2> HIDE DEF M
  <2>1. M \subseteq Nat
    BY DEF M
  <2> QED
    BY <1>2, <1>3, <2>1, Induction
<1>5. Good(S)
  <2>1. Cardinality(S) \in M /\ S \in SUBSET S
    BY <1>0, <1>4
  <2> QED
    BY <2>1
<1> QED
  BY <1>5 DEF Sum

\* Functions that are at most as large everywhere have at most as large a sum.
LEMMA SumMonotone ==
  ASSUME NEW f, NEW g, NEW S, IsFiniteSet(S),
         \A x \in S : f[x] \in Nat /\ g[x] \in Nat /\ f[x] <= g[x]
  PROVE  SumFunctionOnSet(f, S) <= SumFunctionOnSet(g, S)
<1> DEFINE F(T) == SumFunctionOnSet(f, T)
           G(T) == SumFunctionOnSet(g, T)
           P == {T \in SUBSET S : F(T) <= G(T)}
<1>0. \A T \in SUBSET S : /\ IsFiniteSet(T) /\ F(T) \in Nat /\ G(T) \in Nat
                          /\ \A x \in T : F(T) = f[x] + F(T \ {x}) /\ G(T) = g[x] + G(T \ {x})
  BY FS_Subset, SumNat, SumRemove
<1>1. {} \in P
  <2>1. F({}) = 0 /\ G({}) = 0
    BY SumUnfolds, FS_EmptySet
  <2> HIDE DEF F, G
  <2> QED
    BY <2>1
<1> HIDE DEF F, G
<1>2. ASSUME NEW T \in SUBSET S, NEW x \in S \ T, T \in P PROVE T \cup {x} \in P
  <2>1. T \cup {x} \in SUBSET S /\ (T \cup {x}) \ {x} = T
    OBVIOUS
  <2>2. F(T \cup {x}) = f[x] + F(T) /\ G(T \cup {x}) = g[x] + G(T)
    BY <1>0, <2>1
  <2>3. F(T) \in Nat /\ G(T) \in Nat /\ F(T) <= G(T)
    BY <1>0, <1>2
  <2> QED
    BY <2>1, <2>2, <2>3
<1>3. S \in P
  <2> HIDE DEF P
  <2> QED
    BY <1>1, <1>2, SetInduction
<1> QED
  BY <1>3 DEF F, G

\* A sum of zeros is zero.
LEMMA SumZero ==
  ASSUME NEW f, NEW S, IsFiniteSet(S), \A x \in S : f[x] = 0
  PROVE  SumFunctionOnSet(f, S) = 0
<1> DEFINE F(T) == SumFunctionOnSet(f, T)
           P == {T \in SUBSET S : F(T) = 0}
<1>0. \A T \in SUBSET S : IsFiniteSet(T) /\ \A x \in T : F(T) = f[x] + F(T \ {x})
  BY FS_Subset, SumRemove
<1>1. {} \in P
  BY SumUnfolds, FS_EmptySet
<1> HIDE DEF F
<1>2. ASSUME NEW T \in SUBSET S, NEW x \in S \ T, T \in P PROVE T \cup {x} \in P
  <2>1. T \cup {x} \in SUBSET S /\ (T \cup {x}) \ {x} = T
    OBVIOUS
  <2>2. F(T \cup {x}) = f[x] + F(T)
    BY <1>0, <2>1
  <2> QED
    BY <1>2, <2>1, <2>2
<1>3. S \in P
  <2> HIDE DEF P
  <2> QED
    BY <1>1, <1>2, SetInduction
<1> QED
  BY <1>3 DEF F

\* Changing one value changes the sum by as much.
LEMMA SumUpdate ==
  ASSUME NEW f, NEW g, NEW S, IsFiniteSet(S), NEW z \in S,
         \A x \in S : f[x] \in Nat /\ g[x] \in Nat /\ (x # z => f[x] = g[x])
  PROVE  SumFunctionOnSet(g, S) + f[z] = SumFunctionOnSet(f, S) + g[z]
<1>1. IsFiniteSet(S \ {z}) /\ \A x \in S \ {z} : f[x] <= g[x] /\ g[x] <= f[x]
  BY FS_RemoveElement
<1>2. /\ SumFunctionOnSet(f, S \ {z}) <= SumFunctionOnSet(g, S \ {z})
      /\ SumFunctionOnSet(g, S \ {z}) <= SumFunctionOnSet(f, S \ {z})
      /\ SumFunctionOnSet(f, S \ {z}) \in Nat /\ SumFunctionOnSet(g, S \ {z}) \in Nat
  BY <1>1, SumMonotone, SumNat
<1>3. /\ SumFunctionOnSet(f, S) = f[z] + SumFunctionOnSet(f, S \ {z})
      /\ SumFunctionOnSet(g, S) = g[z] + SumFunctionOnSet(g, S \ {z})
  BY SumRemove
<1> QED
  BY <1>2, <1>3

\* The sum over two sets that have no element in common.
LEMMA SumUnion ==
  ASSUME NEW f, NEW A, NEW S, IsFiniteSet(A), IsFiniteSet(S), A \cap S = {},
         \A x \in A \cup S : f[x] \in Nat
  PROVE  SumFunctionOnSet(f, A \cup S) = SumFunctionOnSet(f, A) + SumFunctionOnSet(f, S)
<1> DEFINE F(T) == SumFunctionOnSet(f, T)
           P == {T \in SUBSET S : F(A \cup T) = F(A) + F(T)}
<1>0. \A T \in SUBSET (A \cup S) : /\ IsFiniteSet(T) /\ F(T) \in Nat
                                   /\ \A x \in T : F(T) = f[x] + F(T \ {x})
  <2>1. IsFiniteSet(A \cup S)
    BY FS_Union
  <2> QED
    BY <2>1, FS_Subset, SumNat, SumRemove
<1>1. {} \in P
  <2>1. F({}) = 0
    BY SumUnfolds, FS_EmptySet
  <2>2. A \cup {} = A /\ A \in SUBSET (A \cup S)
    OBVIOUS
  <2> HIDE DEF F
  <2> QED
    BY <1>0, <2>1, <2>2
<1> HIDE DEF F
<1>2. ASSUME NEW T \in SUBSET S, NEW x \in S \ T, T \in P PROVE T \cup {x} \in P
  <2>1. /\ (T \cup {x}) \ {x} = T /\ (A \cup (T \cup {x})) \ {x} = A \cup T
        /\ {T, A, T \cup {x}, A \cup T, A \cup (T \cup {x})} \subseteq SUBSET (A \cup S)
    OBVIOUS
  <2>2. F(T \cup {x}) = f[x] + F(T) /\ F(A \cup (T \cup {x})) = f[x] + F(A \cup T)
    BY <1>0, <2>1
  <2>3. f[x] \in Nat /\ F(T) \in Nat /\ F(A) \in Nat /\ F(A \cup T) = F(A) + F(T)
    BY <1>0, <1>2, <2>1
  <2>4. F(A \cup (T \cup {x})) = F(A) + F(T \cup {x})
    BY <2>2, <2>3
  <2> QED
    BY <2>4
<1>3. S \in P
  <2> HIDE DEF P
  <2> QED
    BY <1>1, <1>2, SetInduction
<1> QED
  BY <1>3 DEF F

\* The sum of a function that is the sum of two.
LEMMA SumPlus ==
  ASSUME NEW f, NEW g, NEW h, NEW S, IsFiniteSet(S),
         \A x \in S : f[x] \in Nat /\ g[x] \in Nat /\ h[x] = f[x] + g[x]
  PROVE  SumFunctionOnSet(h, S) = SumFunctionOnSet(f, S) + SumFunctionOnSet(g, S)
<1> DEFINE F(T) == SumFunctionOnSet(f, T)
           G(T) == SumFunctionOnSet(g, T)
           H(T) == SumFunctionOnSet(h, T)
           P == {T \in SUBSET S : H(T) = F(T) + G(T)}
<1>0. \A T \in SUBSET S : /\ IsFiniteSet(T) /\ F(T) \in Nat /\ G(T) \in Nat
                          /\ \A x \in T : /\ F(T) = f[x] + F(T \ {x}) /\ G(T) = g[x] + G(T \ {x})
                                          /\ H(T) = h[x] + H(T \ {x})
  <2>1. \A x \in S : h[x] \in Nat
    OBVIOUS
  <2> QED
    BY <2>1, FS_Subset, SumNat, SumRemove
<1>1. {} \in P
  <2>1. F({}) = 0 /\ G({}) = 0 /\ H({}) = 0
    BY SumUnfolds, FS_EmptySet
  <2> HIDE DEF F, G, H
  <2> QED
    BY <2>1
<1> HIDE DEF F, G, H
<1>2. ASSUME NEW T \in SUBSET S, NEW x \in S \ T, T \in P PROVE T \cup {x} \in P
  <2>1. (T \cup {x}) \ {x} = T /\ T \cup {x} \in SUBSET S
    OBVIOUS
  <2>2. /\ F(T \cup {x}) = f[x] + F(T) /\ G(T \cup {x}) = g[x] + G(T)
        /\ H(T \cup {x}) = h[x] + H(T)
    BY <1>0, <2>1
  <2>3. /\ f[x] \in Nat /\ g[x] \in Nat /\ F(T) \in Nat /\ G(T) \in Nat
        /\ h[x] = f[x] + g[x] /\ H(T) = F(T) + G(T)
    BY <1>0, <1>2
  <2>4. H(T \cup {x}) = F(T \cup {x}) + G(T \cup {x})
    BY <2>2, <2>3
  <2> QED
    BY <2>1, <2>4
<1>3. S \in P
  <2> HIDE DEF P
  <2> QED
    BY <1>1, <1>2, SetInduction
<1> QED
  BY <1>3 DEF F, G, H
-----------------------------------------------------------------------------
(* The elements of a sequence that belong to a set.                        *)

\* The function that the definition of Only describes, up to position m.
Selects(s, T, m, g) ==
  g = [n \in 0..m |-> IF n = 0 THEN <<>>
                      ELSE IF s[n] \in T THEN Append(g[n - 1], s[n]) ELSE g[n - 1]]

\* It exists, whatever stands behind the position.
LEMMA SelectsExists == ASSUME NEW s, NEW T, NEW m \in Nat PROVE \E g : Selects(s, T, m, g)
<1> DEFINE One(g, n) == IF n = 0 THEN <<>>
                        ELSE IF s[n] \in T THEN Append(g[n - 1], s[n]) ELSE g[n - 1]
           M == {k \in Nat : \E g : g = [n \in 0..k |-> One(g, n)]}
<1>1. 0 \in M
  <2> DEFINE g == [n \in 0..0 |-> <<>>]
  <2>1. g = [n \in 0..0 |-> One(g, n)]
    OBVIOUS
  <2>2. \E h : h = [n \in 0..0 |-> One(h, n)]
    <3> HIDE DEF g
    <3> QED
      BY <2>1
  <2> QED
    BY <2>2
<1>2. ASSUME NEW k \in M PROVE k + 1 \in M
  <2>0. k \in Nat
    OBVIOUS
  <2>1. PICK g : g = [n \in 0..k |-> One(g, n)]
    OBVIOUS
  <2> DEFINE h == [n \in 0..(k + 1) |-> One(g, n)]
  <2>2. \A n \in 0..k : h[n] = g[n]
    <3> DEFINE e == [n \in 0..k |-> One(g, n)]
    <3>1. g = e
      BY <2>1
    <3>2. \A n \in 0..k : n \in 0..(k + 1)
      BY <2>0
    <3>3. \A n \in 0..k : h[n] = e[n]
      <4> HIDE DEF One
      <4> QED
        BY <3>2
    <3> HIDE DEF e, h
    <3> QED
      BY <3>1, <3>3
  <2>3. \A n \in 0..(k + 1) : h[n] = One(h, n)
    <3> SUFFICES ASSUME NEW n \in 0..(k + 1) PROVE h[n] = One(h, n)
      OBVIOUS
    <3>1. h[n] = One(g, n)
      <4> HIDE DEF One
      <4> QED
        OBVIOUS
    <3>2. n # 0 => n - 1 \in 0..k
      BY <2>0
    <3>3. n # 0 => h[n - 1] = g[n - 1]
      BY <2>2, <3>2
    <3> HIDE DEF h
    <3> QED
      BY <3>1, <3>3
  <2>4. h = [n \in 0..(k + 1) |-> One(h, n)]
    <3>1. h = [n \in 0..(k + 1) |-> h[n]]
      OBVIOUS
    <3> HIDE DEF h, One
    <3>2. [n \in 0..(k + 1) |-> h[n]] = [n \in 0..(k + 1) |-> One(h, n)]
      BY <2>3
    <3> QED
      BY <3>1, <3>2
  <2>5. \E f : f = [n \in 0..(k + 1) |-> One(f, n)]
    <3> HIDE DEF h
    <3> QED
      BY <2>4
  <2> QED
    BY <2>0, <2>5
<1>3. M = Nat
  <2> HIDE DEF M
  <2>1. M \subseteq Nat
    BY DEF M
  <2> QED
    BY <1>1, <1>2, <2>1, Induction
<1> QED
  BY <1>3 DEF Selects

\* Two of them agree as far as the sequences and both reach.
LEMMA SelectsAgree ==
  ASSUME NEW s, NEW r, NEW T, NEW k \in Nat, NEW m \in Nat, k <= m,
         NEW g, NEW h, Selects(s, T, k, g), Selects(r, T, m, h), \A n \in 1..k : s[n] = r[n]
  PROVE  g[k] = h[k]
<1> DEFINE M == {n \in Nat : n <= k => g[n] = h[n]}
<1>1. g[0] = <<>> /\ h[0] = <<>>
  BY DEF Selects
<1>2. \A n \in 1..k : /\ g[n] = IF s[n] \in T THEN Append(g[n - 1], s[n]) ELSE g[n - 1]
                      /\ h[n] = IF r[n] \in T THEN Append(h[n - 1], r[n]) ELSE h[n - 1]
  <2> SUFFICES ASSUME NEW n \in 1..k
               PROVE  /\ g[n] = IF s[n] \in T THEN Append(g[n - 1], s[n]) ELSE g[n - 1]
                      /\ h[n] = IF r[n] \in T THEN Append(h[n - 1], r[n]) ELSE h[n - 1]
    OBVIOUS
  <2>1. n \in 0..k /\ n \in 0..m /\ n # 0
    OBVIOUS
  <2> QED
    BY <2>1 DEF Selects
<1>3. 0 \in M
  BY <1>1
<1>4. ASSUME NEW n \in M PROVE n + 1 \in M
  <2> SUFFICES ASSUME n + 1 <= k PROVE g[n + 1] = h[n + 1]
    OBVIOUS
  <2>1. n + 1 \in 1..k /\ (n + 1) - 1 = n /\ g[n] = h[n]
    OBVIOUS
  <2> QED
    BY <1>2, <2>1
<1>5. M = Nat
  <2> HIDE DEF M
  <2>1. M \subseteq Nat
    BY DEF M
  <2> QED
    BY <1>3, <1>4, <2>1, Induction
<1> QED
  BY <1>5

\* Only is the value of such a function.
LEMMA OnlySelects ==
  ASSUME NEW s, NEW T, Len(s) \in Nat
  PROVE  \E g : Selects(s, T, Len(s), g) /\ Only(s, T) = g[Len(s)]
<1> DEFINE G == CHOOSE g : Selects(s, T, Len(s), g)
<1>1. Selects(s, T, Len(s), G)
  BY SelectsExists
<1>2. Only(s, T) = G[Len(s)]
  BY DEF Only, Selects
<1> QED
  BY <1>1, <1>2

\* Of no elements, none belongs to the set.
LEMMA OnlyEmpty == ASSUME NEW T PROVE Only(<<>>, T) = <<>>
<1>1. PICK g : Selects(<<>>, T, 0, g) /\ Only(<<>>, T) = g[0]
  BY OnlySelects
<1> QED
  BY <1>1 DEF Selects

\* One element more.
LEMMA OnlyAppend ==
  ASSUME NEW S, NEW s \in Seq(S), NEW e \in S, NEW T
  PROVE  Only(Append(s, e), T) = IF e \in T THEN Append(Only(s, T), e) ELSE Only(s, T)
<1> DEFINE k == Len(s)
           r == Append(s, e)
<1>1. k \in Nat /\ Len(r) = k + 1 /\ r[k + 1] = e /\ \A n \in 1..k : s[n] = r[n]
  OBVIOUS
<1> HIDE DEF k, r
<1>2. PICK g : Selects(s, T, k, g) /\ Only(s, T) = g[k]
  BY <1>1, OnlySelects DEF k
<1>3. PICK h : Selects(r, T, k + 1, h) /\ Only(r, T) = h[k + 1]
  BY <1>1, OnlySelects
<1>4. g[k] = h[k]
  BY <1>1, <1>2, <1>3, SelectsAgree
<1>5. h[k + 1] = IF e \in T THEN Append(h[k], e) ELSE h[k]
  <2>1. k + 1 \in 0..(k + 1) /\ k + 1 # 0 /\ (k + 1) - 1 = k
    BY <1>1
  <2> QED
    BY <1>1, <1>3, <2>1 DEF Selects
<1> QED
  BY <1>2, <1>3, <1>4, <1>5 DEF r

\* What is left is a sequence of elements of both.
LEMMA OnlyType ==
  ASSUME NEW S, NEW s \in Seq(S), NEW T
  PROVE  Only(s, T) \in Seq(S \cap T)
<1> DEFINE P == {n \in Nat : \A r \in Seq(S) : Len(r) = n => Only(r, T) \in Seq(S \cap T)}
<1>1. 0 \in P
  <2> SUFFICES ASSUME NEW r \in Seq(S), Len(r) = 0 PROVE Only(r, T) \in Seq(S \cap T)
    OBVIOUS
  <2>1. r = <<>>
    BY EmptySeq
  <2>2. Only(r, T) = <<>>
    BY <2>1, OnlyEmpty, Zenon
  <2>3. <<>> \in Seq(S \cap T)
    OBVIOUS
  <2> QED
    BY <2>2, <2>3
<1>2. ASSUME NEW n \in P PROVE n + 1 \in P
  <2> SUFFICES ASSUME NEW r \in Seq(S), Len(r) = n + 1 PROVE Only(r, T) \in Seq(S \cap T)
    OBVIOUS
  <2> DEFINE f == SubSeq(r, 1, n)
             e == r[n + 1]
  <2>1. n \in Nat /\ f \in Seq(S) /\ e \in S /\ Len(f) = n /\ \A i \in 1..n : f[i] = r[i]
    OBVIOUS
  <2> HIDE DEF f
  <2>2. r = Append(f, e)
    <3>1. Append(f, e) \in Seq(S) /\ Len(Append(f, e)) = n + 1
          /\ \A i \in 1..(n + 1) : Append(f, e)[i] = r[i]
      BY <2>1
    <3> QED
      BY <3>1, SeqEqual
  <2>3. Only(f, T) \in Seq(S \cap T)
    BY <2>1
  <2> HIDE DEF e
  <2>4. Only(Append(f, e), T) = IF e \in T THEN Append(Only(f, T), e) ELSE Only(f, T)
    BY <2>1, OnlyAppend
  <2>5. Only(r, T) = IF e \in T THEN Append(Only(f, T), e) ELSE Only(f, T)
    BY <2>2, <2>4, Zenon
  <2> QED
    BY <2>1, <2>3, <2>5
<1>3. P = Nat
  <2> HIDE DEF P
  <2>1. P \subseteq Nat
    BY DEF P
  <2> QED
    BY <1>1, <1>2, <2>1, Induction
<1> QED
  BY <1>3

\* When the elements that do not belong to the set all come first, the others
\* are the end of the sequence.
LEMMA OnlyEnd ==
  ASSUME NEW S, NEW s \in Seq(S), NEW T, NEW m \in 0..Len(s),
         \A n \in 1..m : s[n] \notin T, \A n \in (m + 1)..Len(s) : s[n] \in T
  PROVE  Only(s, T) = [n \in 1..(Len(s) - m) |-> s[m + n]]
<1> DEFINE Rest(k) == [n \in 1..(IF k <= m THEN 0 ELSE k - m) |-> s[m + n]]
           M == {k \in Nat : k <= Len(s) => Only(SubSeq(s, 1, k), T) = Rest(k)}
<1>0. m \in Nat /\ Len(s) \in Nat /\ m <= Len(s)
  OBVIOUS
<1>1. 0 \in M
  <2>1. SubSeq(s, 1, 0) = <<>> /\ Rest(0) = <<>>
    BY <1>0
  <2> QED
    BY <2>1, OnlyEmpty
<1>2. ASSUME NEW k \in M PROVE k + 1 \in M
  <2> SUFFICES ASSUME k + 1 <= Len(s) PROVE Only(SubSeq(s, 1, k + 1), T) = Rest(k + 1)
    OBVIOUS
  <2> DEFINE f == SubSeq(s, 1, k)
             r == SubSeq(s, 1, k + 1)
             e == s[k + 1]
  <2>1. k \in Nat /\ f \in Seq(S) /\ r \in Seq(S) /\ e \in S /\ Len(f) = k /\ Len(r) = k + 1
        /\ (\A i \in 1..k : f[i] = r[i]) /\ r[k + 1] = e
    BY <1>0
  <2>1a. Only(f, T) = Rest(k)
    <3> HIDE DEF Rest
    <3> QED
      BY <1>0, <2>1
  <2> HIDE DEF f, r
  <2>2. r = Append(f, e)
    <3>1. Append(f, e) \in Seq(S) /\ Len(Append(f, e)) = k + 1
          /\ \A i \in 1..(k + 1) : Append(f, e)[i] = r[i]
      BY <2>1
    <3> QED
      BY <2>1, <3>1, SeqEqual
  <2>3. Only(r, T) = IF e \in T THEN Append(Rest(k), e) ELSE Rest(k)
    <3> HIDE DEF e, Rest
    <3>1. Only(Append(f, e), T) = IF e \in T THEN Append(Only(f, T), e) ELSE Only(f, T)
      BY <2>1, OnlyAppend
    <3> QED
      BY <2>2, <2>1a, <3>1, Zenon
  <2>4. CASE k + 1 <= m
    <3>1. e \notin T /\ Rest(k + 1) = Rest(k)
      BY <2>1, <2>4
    <3> HIDE DEF Rest, e
    <3> QED
      BY <2>3, <3>1 DEF r
  <2>5. CASE ~(k + 1 <= m)
    <3>1. e \in T
      BY <1>0, <2>1, <2>5
    <3>2. Rest(k) \in Seq(S) /\ Len(Rest(k)) = k - m /\ Rest(k + 1) \in Seq(S)
          /\ Len(Rest(k + 1)) = (k - m) + 1
      BY <1>0, <2>1, <2>5
    <3>3. \A i \in 1..(k - m) : Rest(k)[i] = s[m + i] /\ Rest(k + 1)[i] = s[m + i]
      BY <1>0, <2>1, <2>5
    <3>4. Rest(k + 1)[(k - m) + 1] = e
      BY <1>0, <2>1, <2>5
    <3>5. k - m \in Nat
      BY <1>0, <2>1, <2>5
    <3> HIDE DEF Rest, e
    <3>6. Append(Rest(k), e) = Rest(k + 1)
      <4>1. /\ Append(Rest(k), e) \in Seq(S) /\ Len(Append(Rest(k), e)) = (k - m) + 1
            /\ \A i \in 1..((k - m) + 1) : Append(Rest(k), e)[i] = Rest(k + 1)[i]
        BY <2>1, <3>2, <3>3, <3>4, <3>5
      <4> QED
        BY <3>2, <4>1, SeqEqual
    <3> QED
      BY <2>3, <3>1, <3>6 DEF r
  <2> QED
    BY <2>4, <2>5
<1>3. M = Nat
  <2> HIDE DEF M
  <2>1. M \subseteq Nat
    BY DEF M
  <2> QED
    BY <1>1, <1>2, <2>1, Induction
<1>4. Only(SubSeq(s, 1, Len(s)), T) = Rest(Len(s))
  <2> HIDE DEF Rest
  <2>1. Len(s) \in M
    BY <1>0, <1>3
  <2> QED
    BY <1>0, <2>1
<1>5. SubSeq(s, 1, Len(s)) = s
  <2>1. SubSeq(s, 1, Len(s)) \in Seq(S) /\ Len(SubSeq(s, 1, Len(s))) = Len(s)
        /\ \A i \in 1..Len(s) : SubSeq(s, 1, Len(s))[i] = s[i]
    BY <1>0
  <2> QED
    BY <2>1, SeqEqual
<1>6. (IF Len(s) <= m THEN 0 ELSE Len(s) - m) = Len(s) - m
  BY <1>0
<1> QED
  BY <1>4, <1>5, <1>6
=============================================================================
