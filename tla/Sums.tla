--------------------------------- MODULE Sums ---------------------------------
(***************************************************************************)
(* Sums of natural amounts over finite sets, and their laws.  An amount is *)
(* the number of its minor units, so a sum is the cardinality of a set of  *)
(* units: what adds up is then a matter of disjoint unions.  (BigInt sums  *)
(* and the SUM aggregates of the queries, both exact.)                     *)
(***************************************************************************)
EXTENDS Integers, FiniteSetTheorems, FunctionTheorems, TLAPS

\* The units of all elements of S, f[x] of them for each x.
Units(S, f) == UNION {{x} \X (1 .. f[x]) : x \in S}

Sum(S, f) == Cardinality(Units(S, f))

-------------------------------------------------------------------------------
(* Their laws, for any finite set and any natural amounts.                 *)

\* The units of a finite set are finitely many.
LEMMA UnitsFinite ==
  ASSUME NEW S, IsFiniteSet(S), NEW f, \A x \in S : f[x] \in Nat
  PROVE  IsFiniteSet(Units(S, f))
<1> DEFINE own(x) == {x} \X (1 .. f[x])
           family == {own(x) : x \in S}
           g == [x \in S |-> own(x)]
<1>1. g \in Surjection(S, family)
  BY DEF Surjection
<1>2. IsFiniteSet(family)
  <2> HIDE DEF g, family
  <2> QED BY <1>1, FS_Surjection
<1>3. ASSUME NEW x \in S PROVE IsFiniteSet(own(x))
  <2>1. IsFiniteSet({x})
    BY FS_Singleton
  <2>2. f[x] \in Int
    OBVIOUS
  <2>3. IsFiniteSet(1 .. f[x])
    BY <2>2, FS_Interval
  <2> QED BY <2>1, <2>3, FS_Product
<1>4. \A T \in family : IsFiniteSet(T)
  BY <1>3
<1>5. IsFiniteSet(UNION family)
  <2> HIDE DEF family
  <2> QED BY <1>2, <1>4, FS_UNION
<1> QED BY <1>5 DEF Units

\* A sum of naturals is a natural.
LEMMA SumType ==
  ASSUME NEW S, IsFiniteSet(S), NEW f, \A x \in S : f[x] \in Nat
  PROVE  Sum(S, f) \in Nat
BY UnitsFinite, FS_CardinalityType DEF Sum

\* Only the amounts of the elements count.
LEMMA SumSame ==
  ASSUME NEW S, NEW f, NEW g, \A x \in S : f[x] = g[x]
  PROVE  Sum(S, f) = Sum(S, g)
<1>1. Units(S, f) = Units(S, g)
  BY DEF Units
<1> QED BY <1>1 DEF Sum

\* The sum over two disjoint sets is the sum of their sums.
LEMMA SumDisjoint ==
  ASSUME NEW S, IsFiniteSet(S), NEW T, IsFiniteSet(T), S \cap T = {},
         NEW f, \A x \in S \cup T : f[x] \in Nat
  PROVE  Sum(S \cup T, f) = Sum(S, f) + Sum(T, f)
<1>1. Units(S \cup T, f) = Units(S, f) \cup Units(T, f)
  BY DEF Units
<1>2. Units(S, f) \cap Units(T, f) = {}
  BY DEF Units
<1>3. IsFiniteSet(Units(S, f)) /\ IsFiniteSet(Units(T, f))
  BY UnitsFinite
<1>4. Cardinality(Units(S, f)) \in Nat /\ Cardinality(Units(T, f)) \in Nat
  BY <1>3, FS_CardinalityType
<1>5. Cardinality(Units(S, f) \cup Units(T, f))
        = Cardinality(Units(S, f)) + Cardinality(Units(T, f)) - Cardinality({})
  BY <1>2, <1>3, FS_Union
<1>6. Cardinality({}) = 0
  BY FS_EmptySet
<1>7. Sum(S \cup T, f) = Cardinality(Units(S, f) \cup Units(T, f))
  BY <1>1, Zenon DEF Sum
<1>8. Sum(S, f) = Cardinality(Units(S, f)) /\ Sum(T, f) = Cardinality(Units(T, f))
  BY DEF Sum
<1>9. \A a, b, c, d \in Int : a = b + c - d /\ d = 0 => a = b + c
  OBVIOUS
<1>10. Cardinality(Units(S, f) \cup Units(T, f)) \in Nat
  BY <1>3, FS_Union, FS_CardinalityType, Zenon
<1> QED BY <1>4, <1>5, <1>6, <1>7, <1>8, <1>9, <1>10

\* A part sums to no more than the whole.
LEMMA SumMonotone ==
  ASSUME NEW S, IsFiniteSet(S), NEW T \in SUBSET S,
         NEW f, \A x \in S : f[x] \in Nat
  PROVE  Sum(T, f) <= Sum(S, f)
<1>1. Units(T, f) \in SUBSET Units(S, f)
  BY DEF Units
<1> QED BY <1>1, UnitsFinite, FS_Subset DEF Sum

\* Nothing sums to zero.
LEMMA SumEmpty ==
  ASSUME NEW f
  PROVE  Sum({}, f) = 0
<1>1. Units({}, f) = {}
  BY DEF Units
<1> QED BY <1>1, FS_EmptySet DEF Sum

\* One element sums to its amount.
LEMMA SumSingle ==
  ASSUME NEW x, NEW f, f[x] \in Nat
  PROVE  Sum({x}, f) = f[x]
<1>1. Units({x}, f) = {x} \X (1 .. f[x])
  BY DEF Units
<1>2. IsFiniteSet({x}) /\ Cardinality({x}) = 1
  BY FS_Singleton
<1>3. f[x] \in Int /\ 1 \in Int /\ ~(1 > f[x] /\ f[x] # 0) /\ f[x] - 1 + 1 = f[x]
  OBVIOUS
<1>4. IsFiniteSet(1 .. f[x]) /\ Cardinality(1 .. f[x]) = f[x]
  BY <1>3, FS_Interval
<1>5. Cardinality({x} \X (1 .. f[x])) = Cardinality({x}) * Cardinality(1 .. f[x])
  BY <1>2, <1>4, FS_Product
<1>6. \A n \in Nat : 1 * n = n
  OBVIOUS
<1>7. Cardinality({x} \X (1 .. f[x])) = f[x]
  BY <1>2, <1>4, <1>5, <1>6, Zenon
<1> QED BY <1>1, <1>7 DEF Sum

\* A new element adds its amount.
LEMMA SumAdd ==
  ASSUME NEW S, IsFiniteSet(S), NEW x, x \notin S,
         NEW f, \A y \in S \cup {x} : f[y] \in Nat
  PROVE  Sum(S \cup {x}, f) = Sum(S, f) + f[x]
<1>1. IsFiniteSet({x}) /\ S \cap {x} = {}
  BY FS_Singleton
<1>2. Sum(S \cup {x}, f) = Sum(S, f) + Sum({x}, f)
  BY <1>1, SumDisjoint
<1>3. Sum({x}, f) = f[x]
  BY SumSingle
<1> QED BY <1>2, <1>3

\* A one-to-one map from S onto T that keeps the amounts keeps the sum.
LEMMA SumImage ==
  ASSUME NEW S, IsFiniteSet(S), NEW T, NEW h \in Bijection(S, T),
         NEW f, NEW g, \A x \in S : f[x] \in Nat /\ g[h[x]] = f[x]
  PROVE  Sum(T, g) = Sum(S, f)
<1> DEFINE lift == [u \in Units(S, f) |-> <<h[u[1]], u[2]>>]
<1>1. /\ h \in [S -> T]
      /\ \A x, y \in S : h[x] = h[y] => x = y
      /\ \A y \in T : \E x \in S : h[x] = y
  BY Fun_BijectionProperties DEF Bijection, Injection, Surjection, IsInjective
<1>2. \A x \in S : \A n \in 1 .. f[x] : <<x, n>> \in Units(S, f)
  BY DEF Units
<1>3. \A u \in Units(S, f) : u[1] \in S /\ u[2] \in 1 .. f[u[1]] /\ u = <<u[1], u[2]>>
  BY DEF Units
<1>4. lift \in [Units(S, f) -> Units(T, g)]
  <2> SUFFICES ASSUME NEW u \in Units(S, f)
               PROVE  <<h[u[1]], u[2]>> \in Units(T, g)
    OBVIOUS
  <2>1. h[u[1]] \in T /\ u[2] \in 1 .. g[h[u[1]]]
    BY <1>1, <1>3
  <2> QED BY <2>1 DEF Units
<1>5. \A u, v \in Units(S, f) : lift[u] = lift[v] => u = v
  <2> SUFFICES ASSUME NEW u \in Units(S, f), NEW v \in Units(S, f), lift[u] = lift[v]
               PROVE  u = v
    OBVIOUS
  <2>1. <<h[u[1]], u[2]>> = <<h[v[1]], v[2]>>
    OBVIOUS
  <2>2. u[1] = v[1] /\ u[2] = v[2]
    BY <1>1, <1>3, <2>1
  <2> QED BY <1>3, <2>2
<1>6. \A w \in Units(T, g) : \E u \in Units(S, f) : lift[u] = w
  <2> SUFFICES ASSUME NEW w \in Units(T, g)
               PROVE  \E u \in Units(S, f) : lift[u] = w
    OBVIOUS
  <2>1. w[1] \in T /\ w[2] \in 1 .. g[w[1]] /\ w = <<w[1], w[2]>>
    BY DEF Units
  <2>2. PICK x \in S : h[x] = w[1]
    BY <1>1, <2>1
  <2>3. <<x, w[2]>> \in Units(S, f)
    BY <1>2, <2>1, <2>2
  <2>4. lift[<<x, w[2]>>] = w
    BY <2>1, <2>2, <2>3
  <2> QED BY <2>3, <2>4
<1> HIDE DEF lift
<1>7. lift \in Bijection(Units(S, f), Units(T, g))
  BY <1>4, <1>5, <1>6 DEF Bijection, Injection, Surjection, IsInjective
<1>8. IsFiniteSet(Units(S, f))
  BY UnitsFinite
<1>9. Cardinality(Units(T, g)) = Cardinality(Units(S, f))
  BY <1>7, <1>8, FS_Bijection DEF ExistsBijection
<1> QED BY <1>9 DEF Sum

-------------------------------------------------------------------------------
(* Least elements, which is what induction over the numbers comes down to. *)

\* Every set of numbers that has any has a least one.
LEMMA LeastNat ==
  ASSUME NEW T \in SUBSET Nat, T # {}
  PROVE  \E x \in T : \A y \in T : x <= y
<1> DEFINE R == StrictSubsetOrdering(Nat)
           F == FiniteSubsetsOf(Nat)
           G == {0 .. n : n \in T}
<1>1. IsWellFoundedOn(R, F)
  BY FS_StrictSubsetOrderingWellFounded
<1>2. G \subseteq F /\ G # {}
  <2>1. ASSUME NEW n \in T PROVE 0 .. n \in F
    <3>1. 0 .. n \in SUBSET Nat /\ n \in Int
      OBVIOUS
    <3>2. IsFiniteSet(0 .. n)
      BY <3>1, FS_Interval
    <3> QED BY <3>1, <3>2 DEF FiniteSubsetsOf
  <2> HIDE DEF F
  <2> QED BY <2>1
<1>3. PICK X \in G : \A Y \in G : ~(<<Y, X>> \in R)
  <2> HIDE DEF R, F, G
  <2> QED BY <1>1, <1>2, WFMin
<1>4. PICK x \in T : X = 0 .. x
  BY <1>3
<1>5. ASSUME NEW y \in T, ~ (x <= y) PROVE FALSE
  <2>1. 0 .. y \in G
    OBVIOUS
  <2>2. 0 .. y \subseteq 0 .. x /\ 0 .. y \in SUBSET Nat /\ 0 .. x \in SUBSET Nat
    BY <1>5
  <2>3. x \in 0 .. x /\ x \notin 0 .. y
    BY <1>5
  <2>4. 0 .. y # 0 .. x
    BY <2>3
  <2>5. <<0 .. y, 0 .. x>> \in R
    BY <2>2, <2>4 DEF StrictSubsetOrdering
  <2> QED BY <1>3, <1>4, <2>1, <2>5
<1> QED BY <1>5
===============================================================================
