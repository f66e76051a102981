------------------------------ MODULE SumLemmas ------------------------------
(* Laws of sums over finite sets.  A sum is the cardinality of a set of     *)
(* pairs, one for each unit summed; the laws are those of cardinalities.    *)
EXTENDS Integers, Functions, FiniteSetTheorems, TLAPS

\* Every nonempty set of subsets of a finite set has a minimal member.
LEMMA MinimalSubset ==
    ASSUME NEW S, IsFiniteSet(S), NEW Bad \in SUBSET (SUBSET S), Bad # {}
    PROVE  \E T \in Bad : \A U \in Bad : U \subseteq T => U = T
  <1>1. IsWellFoundedOn(StrictSubsetOrdering(S), SUBSET S)
    BY FS_StrictSubsetOrderingWellFounded, FS_FiniteSubsetsOfFinite
  <1>2. PICK T \in Bad : \A U \in Bad : ~ <<U, T>> \in StrictSubsetOrdering(S)
    BY <1>1, WFMin
  <1> QED
    BY <1>2 DEF StrictSubsetOrdering

\* One pair for each unit of each summand.
Units(f, S) == {p \in S \X Nat : 1 <= p[2] /\ p[2] <= f[p[1]]}

\* The units of one summand.
Column(f, x) == {x} \X (1..f[x])

LEMMA UnitsOfOne ==
    ASSUME NEW f, NEW S, NEW x \in S, f[x] \in Nat
    PROVE  /\ Units(f, S) = Units(f, S \ {x}) \cup Column(f, x)
           /\ Units(f, S \ {x}) \cap Column(f, x) = {}
           /\ IsFiniteSet(Column(f, x))
           /\ Cardinality(Column(f, x)) = f[x]
  <1>1. IsFiniteSet(1..f[x]) /\ Cardinality(1..f[x]) = f[x]
    BY FS_Interval
  <1>2. IsFiniteSet({x}) /\ Cardinality({x}) = 1
    BY FS_Singleton
  <1>3. IsFiniteSet(Column(f, x)) /\ Cardinality(Column(f, x)) = 1 * f[x]
    BY <1>1, <1>2, FS_Product DEF Column
  <1>4. Units(f, S) = Units(f, S \ {x}) \cup Column(f, x)
    BY DEF Units, Column
  <1>5. Units(f, S \ {x}) \cap Column(f, x) = {}
    BY DEF Units, Column
  <1>6. 1 * f[x] = f[x]
    OBVIOUS
  <1> QED
    BY <1>3, <1>4, <1>5, <1>6

LEMMA UnitsFinite ==
    ASSUME NEW f, NEW S, IsFiniteSet(S), \A x \in S : f[x] \in Nat
    PROVE  IsFiniteSet(Units(f, S))
  <1> DEFINE Bad == {T \in SUBSET S : ~IsFiniteSet(Units(f, T))}
  <1> SUFFICES ASSUME Bad # {} PROVE FALSE
    OBVIOUS
  <1>1. Bad \in SUBSET (SUBSET S)
    OBVIOUS
  <1> HIDE DEF Bad
  <1>2. PICK T \in Bad : \A U \in Bad : U \subseteq T => U = T
    BY <1>1, MinimalSubset
  <1> USE DEF Bad
  <1>3. T # {}
    <2>1. Units(f, {}) = {}
      BY DEF Units
    <2> QED
      BY <1>2, <2>1, FS_EmptySet
  <1>4. PICK x \in T : TRUE
    BY <1>3
  <1>5. IsFiniteSet(Units(f, T \ {x}))
    BY <1>2, <1>4
  <1>6. /\ Units(f, T) = Units(f, T \ {x}) \cup Column(f, x)
        /\ IsFiniteSet(Column(f, x))
    <2>1. x \in T /\ f[x] \in Nat
      BY <1>4
    <2> HIDE DEF Bad
    <2> QED
      BY <2>1, UnitsOfOne
  <1>7. IsFiniteSet(Units(f, T \ {x}) \cup Column(f, x))
    BY <1>5, <1>6, FS_Union
  <1> QED
    BY <1>2, <1>6, <1>7

LEMMA UnitsCounted ==
    ASSUME NEW f, NEW S, IsFiniteSet(S), \A x \in S : f[x] \in Nat, NEW x \in S
    PROVE  Cardinality(Units(f, S)) = f[x] + Cardinality(Units(f, S \ {x}))
  <1> DEFINE rest == Units(f, S \ {x})
  <1>1. IsFiniteSet(S \ {x})
    BY FS_RemoveElement
  <1>2. IsFiniteSet(rest)
    BY <1>1, UnitsFinite
  <1>3. /\ Units(f, S) = rest \cup Column(f, x)
        /\ rest \cap Column(f, x) = {}
        /\ IsFiniteSet(Column(f, x))
        /\ Cardinality(Column(f, x)) = f[x]
    BY UnitsOfOne
  <1>4. Cardinality(rest) \in Nat /\ Cardinality({}) = 0
    BY <1>2, FS_CardinalityType, FS_EmptySet
  <1> HIDE DEF rest
  <1>5. Cardinality(rest \cup Column(f, x))
          = Cardinality(rest) + Cardinality(Column(f, x)) - Cardinality(rest \cap Column(f, x))
    BY <1>2, <1>3, FS_Union
  <1>6. Cardinality(Units(f, S)) = Cardinality(rest) + f[x] - 0
    BY <1>3, <1>4, <1>5
  <1>7. Cardinality(Units(f, S)) = f[x] + Cardinality(rest)
    BY <1>4, <1>6
  <1> QED
    BY <1>7 DEF rest

LEMMA SumIsCount ==
    ASSUME NEW f, NEW S, IsFiniteSet(S), \A x \in S : f[x] \in Nat
    PROVE  SumFunctionOnSet(f, S) = Cardinality(Units(f, S))
  <1> DEFINE c(s) == CHOOSE x \in s : TRUE
             Sums(g) == [s \in SUBSET S |-> IF s = {} THEN 0 ELSE f[c(s)] + g[s \ {c(s)}]]
             F == [s \in SUBSET S |-> Cardinality(Units(f, s))]
             g == CHOOSE h : h = Sums(h)
  <1>1. SumFunctionOnSet(f, S) = g[S]
    BY DEF SumFunctionOnSet, FoldFunctionOnSet, MapThenFoldSet
  <1>2. \A s \in SUBSET S : s # {} => c(s) \in s
    OBVIOUS
  <1> HIDE DEF c
  <1>3. F = Sums(F)
    <2> SUFFICES ASSUME NEW s \in SUBSET S
                 PROVE  F[s] = IF s = {} THEN 0 ELSE f[c(s)] + F[s \ {c(s)}]
      OBVIOUS
    <2>1. CASE s = {}
      <3>1. Units(f, s) = {}
        BY <2>1 DEF Units
      <3> QED
        BY <2>1, <3>1, FS_EmptySet
    <2>2. CASE s # {}
      <3>1. IsFiniteSet(s) /\ c(s) \in s
        BY <1>2, <2>2, FS_Subset
      <3>2. Cardinality(Units(f, s)) = f[c(s)] + Cardinality(Units(f, s \ {c(s)}))
        BY <3>1, UnitsCounted
      <3> QED
        BY <2>2, <3>2
    <2> QED
      BY <2>1, <2>2
  <1>4. g = Sums(g)
    BY <1>3
  <1> HIDE DEF g
  <1> DEFINE Bad == {T \in SUBSET S : g[T] # F[T]}
  <1>5. ASSUME Bad # {} PROVE FALSE
    <2>0. Bad \in SUBSET (SUBSET S)
      OBVIOUS
    <2> HIDE DEF Bad
    <2>1. PICK T \in Bad : \A U \in Bad : U \subseteq T => U = T
      BY <1>5, <2>0, MinimalSubset
    <2> USE DEF Bad
    <2>2. g[T] = IF T = {} THEN 0 ELSE f[c(T)] + g[T \ {c(T)}]
      BY <1>4
    <2>3. F[T] = IF T = {} THEN 0 ELSE f[c(T)] + F[T \ {c(T)}]
      BY <1>3
    <2>4. T # {} => g[T \ {c(T)}] = F[T \ {c(T)}]
      <3>1. T # {} => T \ {c(T)} \subseteq T /\ T \ {c(T)} # T
        BY <1>2
      <3> HIDE DEF F
      <3> QED
        BY <2>1, <3>1
    <2> QED
      BY <2>1, <2>2, <2>3, <2>4
  <1>6. g[S] = F[S]
    BY <1>5
  <1> QED
    BY <1>1, <1>6

\* The sum over a finite set of natural numbers is a natural number.
LEMMA SumNat ==
    ASSUME NEW f, NEW S, IsFiniteSet(S), \A x \in S : f[x] \in Nat
    PROVE  SumFunctionOnSet(f, S) \in Nat
  BY SumIsCount, UnitsFinite, FS_CardinalityType

LEMMA SumEmpty ==
    ASSUME NEW f
    PROVE  SumFunctionOnSet(f, {}) = 0
  <1>1. IsFiniteSet({}) /\ Cardinality({}) = 0
    BY FS_EmptySet
  <1>2. Units(f, {}) = {}
    BY DEF Units
  <1> QED
    BY <1>1, <1>2, SumIsCount

\* Any summand may be taken out first.
LEMMA SumOfOne ==
    ASSUME NEW f, NEW S, IsFiniteSet(S), \A x \in S : f[x] \in Nat, NEW x \in S
    PROVE  SumFunctionOnSet(f, S) = f[x] + SumFunctionOnSet(f, S \ {x})
  <1>1. IsFiniteSet(S \ {x})
    BY FS_RemoveElement
  <1> QED
    BY <1>1, SumIsCount, UnitsCounted

LEMMA SumSame ==
    ASSUME NEW f, NEW g, NEW S, IsFiniteSet(S), \A x \in S : f[x] \in Nat /\ f[x] = g[x]
    PROVE  SumFunctionOnSet(f, S) = SumFunctionOnSet(g, S)
  <1>1. Units(f, S) = Units(g, S)
    BY DEF Units
  <1> QED
    BY <1>1, SumIsCount
\* Where one summand changes, the sum changes by as much.
LEMMA SumStep ==
    ASSUME NEW f, NEW g, NEW S, IsFiniteSet(S), NEW x \in S,
           \A y \in S : f[y] \in Nat /\ g[y] \in Nat,
           \A y \in S \ {x} : f[y] = g[y]
    PROVE  SumFunctionOnSet(g, S) = SumFunctionOnSet(f, S) - f[x] + g[x]
  <1> DEFINE rest == S \ {x}
  <1>1. IsFiniteSet(rest)
    BY FS_RemoveElement
  <1>2. SumFunctionOnSet(f, rest) = SumFunctionOnSet(g, rest)
    BY <1>1, SumSame
  <1>3. SumFunctionOnSet(f, S) = f[x] + SumFunctionOnSet(f, rest)
    BY SumOfOne
  <1>4. SumFunctionOnSet(g, S) = g[x] + SumFunctionOnSet(g, rest)
    BY SumOfOne
  <1>5. SumFunctionOnSet(f, rest) \in Nat
    BY <1>1, SumNat
  <1> QED
    BY <1>2, <1>3, <1>4, <1>5

\* Summands of zero may be left out.
LEMMA SumSupport ==
    ASSUME NEW f, NEW g, NEW S, IsFiniteSet(S), NEW T \in SUBSET S,
           \A x \in S : f[x] \in Nat,
           \A x \in S \ T : f[x] = 0,
           \A x \in T : g[x] = f[x]
    PROVE  SumFunctionOnSet(g, T) = SumFunctionOnSet(f, S)
  <1>1. IsFiniteSet(T)
    BY FS_Subset
  <1>2. Units(g, T) = Units(f, S)
    BY DEF Units
  <1> QED
    BY <1>1, <1>2, SumIsCount

=============================================================================
