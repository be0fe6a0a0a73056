------------------------------ MODULE ReceiptProofs ------------------------------
(***************************************************************************)
(* What holds of the composed approval steps, of the receipts and of the   *)
(* settlement batches they open items for, for every set of receipts,      *)
(* forms, policies, items, cheques, users and accounts.  The argument:     *)
(*   - the composition of steps, on its own (PolicyContexts);              *)
(*   - ReceiptInv, inductive: the rows are typed, a batch has the effects  *)
(*     and the reversals its state asks and no other, an item is credited  *)
(*     by one batch at most and is unopened before its receipt executes,   *)
(*     a reversed receipt has its one reversal;                            *)
(*   - Covered, inductive beside it: a receipt in approval has the steps   *)
(*     its policies ask, and once approved their approvers.                *)
(***************************************************************************)
EXTENDS Receipts, PolicyContexts, Sums

-------------------------------------------------------------------------------
(* The composed steps.                                                     *)

\* Policies that ask steps: sequences of sequences.
Contextual(asked) ==
  /\ DOMAIN asked = 1 .. Len(asked) /\ Len(asked) \in Nat
  /\ \A k \in DOMAIN asked :
       DOMAIN asked[k] = 1 .. Len(asked[k]) /\ Len(asked[k]) \in Nat

\* A round of the composition.
Round(asked, before) ==
  IF Ready(asked, ElementsOf(before)) = {} THEN before
  ELSE Append(before, NextStep(asked, ElementsOf(before)))

IsOrder(asked, f) ==
  f = [n \in 0 .. Cardinality(Nodes(asked)) |->
         IF n = 0 THEN <<>> ELSE Round(asked, f[n - 1])]

\* The rounds exist.
LEMMA RoundsExist ==
  ASSUME NEW asked, NEW N \in Nat
  PROVE  \E f : f = [n \in 0 .. N |-> IF n = 0 THEN <<>> ELSE Round(asked, f[n - 1])]
<1> DEFINE Rounds(f, m) == f = [n \in 0 .. m |-> IF n = 0 THEN <<>> ELSE Round(asked, f[n - 1])]
           T == {m \in Nat : ~ \E f : Rounds(f, m)}
<1>1. SUFFICES ASSUME T # {} PROVE FALSE
  <2>1. N \notin T
    BY <1>1
  <2> QED BY <2>1
<1>2. PICK m \in T : \A n \in T : m <= n
  <2>1. T \in SUBSET Nat
    OBVIOUS
  <2> HIDE DEF T
  <2> QED BY <1>1, <2>1, LeastNat
<1>3. m # 0
  <2>1. Rounds([n \in 0 .. 0 |-> <<>>], 0)
    OBVIOUS
  <2> QED BY <1>2, <2>1
<1>4. m - 1 \in Nat /\ m - 1 \notin T
  BY <1>2, <1>3
<1>5. PICK f : Rounds(f, m - 1)
  BY <1>4
<1> DEFINE g == [n \in 0 .. m |-> IF n = m THEN Round(asked, f[m - 1]) ELSE f[n]]
<1>6. \A n \in 0 .. m - 1 : g[n] = f[n]
  BY <1>4
<1>7. ASSUME NEW n \in 0 .. m
      PROVE  g[n] = IF n = 0 THEN <<>> ELSE Round(asked, g[n - 1])
  <2>1. CASE n = m
    <3>1. g[m] = Round(asked, f[m - 1]) /\ g[m - 1] = f[m - 1]
      BY <1>4, <1>6
    <3> QED BY <1>3, <2>1, <3>1
  <2>2. CASE n # m
    <3>1. n \in 0 .. m - 1 /\ (n # 0 => n - 1 \in 0 .. m - 1)
      BY <2>2, <1>4
    <3>2. f[n] = IF n = 0 THEN <<>> ELSE Round(asked, f[n - 1])
      BY <1>5, <3>1
    <3> QED BY <1>6, <3>1, <3>2
  <2> QED BY <2>1, <2>2
<1>8. g = [n \in 0 .. m |-> IF n = 0 THEN <<>> ELSE Round(asked, g[n - 1])]
  <2>1. g = [n \in 0 .. m |-> g[n]]
    OBVIOUS
  <2> HIDE DEF g
  <2> QED BY <1>7, <2>1
<1>9. Rounds(g, m)
  BY <1>8
<1> QED BY <1>2, <1>9

\* The composition is what the last round leaves.
LEMMA ComposedByRounds ==
  ASSUME NEW asked, Cardinality(Nodes(asked)) \in Nat
  PROVE  \E f : IsOrder(asked, f) /\ Composed(asked) = f[Cardinality(Nodes(asked))]
<1> DEFINE order == CHOOSE f : IsOrder(asked, f)
<1>1. IsOrder(asked, order)
  BY RoundsExist DEF IsOrder
<1>2. Composed(asked) = order[Cardinality(Nodes(asked))]
  BY DEF Composed, IsOrder, Round
<1> QED BY <1>1, <1>2

\* Of places, one comes before all others.
LEMMA LeastPlace ==
  ASSUME NEW T \in SUBSET (Nat \X Nat), T # {}
  PROVE  \E p \in T : \A q \in T : q[1] > p[1] \/ (q[1] = p[1] /\ q[2] >= p[2])
<1>1. PICK k \in {p[1] : p \in T} : \A n \in {p[1] : p \in T} : k <= n
  <2>1. {p[1] : p \in T} \in SUBSET Nat /\ {p[1] : p \in T} # {}
    OBVIOUS
  <2> QED BY <2>1, LeastNat
<1> DEFINE U == {p \in T : p[1] = k}
<1>2. PICK i \in {p[2] : p \in U} : \A n \in {p[2] : p \in U} : i <= n
  <2>1. {p[2] : p \in U} \in SUBSET Nat /\ {p[2] : p \in U} # {}
    BY <1>1
  <2> QED BY <2>1, LeastNat
<1>3. PICK p \in U : p[2] = i
  BY <1>2
<1>4. ASSUME NEW q \in T PROVE q[1] > p[1] \/ (q[1] = p[1] /\ q[2] >= p[2])
  <2>1. q \in Nat \X Nat /\ p \in Nat \X Nat /\ k <= q[1] /\ p[1] = k
    BY <1>1, <1>3
  <2>2. CASE q[1] = k
    BY <1>2, <1>3, <2>1, <2>2
  <2>3. CASE q[1] # k
    BY <2>1, <2>3
  <2> QED BY <2>2, <2>3
<1> QED BY <1>3, <1>4

\* A step has a first place, and shares no place with another step.
LEMMA PriorityType ==
  ASSUME NEW asked, Contextual(asked), NEW s \in Nodes(asked)
  PROVE  /\ Places(asked, s) \in SUBSET (Nat \X Nat)
         /\ Priority(asked, s) \in Places(asked, s)
<1>1. Places(asked, s) \in SUBSET (Nat \X Nat)
  BY DEF Places, Contextual
<1>2. Places(asked, s) # {}
  <2>1. PICK k \in DOMAIN asked : s \in ElementsOf(asked[k])
    BY DEF Nodes
  <2>2. PICK i \in DOMAIN asked[k] : asked[k][i] = s
    BY <2>1 DEF ElementsOf
  <2>3. <<k, i>> \in Places(asked, s)
    BY <2>2 DEF Places
  <2> QED BY <2>3
<1>3. \E p \in Places(asked, s) :
        \A q \in Places(asked, s) : q[1] > p[1] \/ (q[1] = p[1] /\ q[2] >= p[2])
  BY <1>1, <1>2, LeastPlace
<1> QED BY <1>1, <1>3 DEF Priority

LEMMA PrioritiesDiffer ==
  ASSUME NEW asked, Contextual(asked), NEW s \in Nodes(asked), NEW t \in Nodes(asked),
         Priority(asked, s) = Priority(asked, t)
  PROVE  s = t
<1>1. ASSUME NEW x, NEW p \in Places(asked, x)
      PROVE  asked[p[1]][p[2]] = x
  BY DEF Places
<1> QED BY <1>1, PriorityType

\* The next step is ready, and asked before all others that are.
LEMMA NextIsReady ==
  ASSUME NEW asked, Contextual(asked), NEW done, Ready(asked, done) # {}
  PROVE  /\ NextStep(asked, done) \in Ready(asked, done)
         /\ \A t \in Ready(asked, done) \ {NextStep(asked, done)} :
              Precedes(Priority(asked, NextStep(asked, done)), Priority(asked, t))
<1> DEFINE Q == {Priority(asked, s) : s \in Ready(asked, done)}
<1>1. Ready(asked, done) \subseteq Nodes(asked)
  BY DEF Ready
<1>2. \A s \in Ready(asked, done) : Priority(asked, s) \in Nat \X Nat
  BY <1>1, PriorityType
<1>3. PICK p \in Q : \A q \in Q : q[1] > p[1] \/ (q[1] = p[1] /\ q[2] >= p[2])
  <2>1. Q \in SUBSET (Nat \X Nat) /\ Q # {}
    BY <1>2
  <2> QED BY <2>1, LeastPlace
<1>4. PICK s \in Ready(asked, done) : p = Priority(asked, s)
  BY <1>3
<1>5. ASSUME NEW t \in Ready(asked, done) \ {s}
      PROVE  Precedes(Priority(asked, s), Priority(asked, t))
  <2>1. Priority(asked, t) # Priority(asked, s)
    BY <1>1, PrioritiesDiffer
  <2>2. Priority(asked, t) \in Nat \X Nat /\ Priority(asked, s) \in Nat \X Nat
    BY <1>2
  <2>3. Priority(asked, t)[1] > p[1]
          \/ (Priority(asked, t)[1] = p[1] /\ Priority(asked, t)[2] >= p[2])
    BY <1>3
  <2> QED BY <1>4, <2>1, <2>2, <2>3 DEF Precedes
<1> QED BY <1>4, <1>5 DEF NextStep

\* A composition grows by the next step of what it has.
Earlier(seq, i) == {seq[j] : j \in 1 .. i - 1}

Grown(asked, seq) ==
  /\ seq \in Seq(Nodes(asked))
  /\ \A i \in 1 .. Len(seq) :
       Ready(asked, Earlier(seq, i)) # {} /\ seq[i] = NextStep(asked, Earlier(seq, i))

LEMMA RoundGrows ==
  ASSUME NEW asked, Contextual(asked), NEW seq, Grown(asked, seq),
         Ready(asked, ElementsOf(seq)) # {}
  PROVE  Grown(asked, Round(asked, seq)) /\ Len(Round(asked, seq)) = Len(seq) + 1
<1> DEFINE next == NextStep(asked, ElementsOf(seq))
           longer == Append(seq, next)
<1>1. Round(asked, seq) = longer
  BY DEF Round
<1>2. next \in Nodes(asked) /\ seq \in Seq(Nodes(asked)) /\ Len(seq) \in Nat
  BY NextIsReady DEF Ready, Grown
<1> HIDE DEF next
<1>3. /\ longer \in Seq(Nodes(asked)) /\ Len(longer) = Len(seq) + 1
      /\ longer[Len(seq) + 1] = next
      /\ \A i \in 1 .. Len(seq) : longer[i] = seq[i]
  BY <1>2
<1>4. ASSUME NEW i \in 1 .. Len(seq)
      PROVE  Earlier(longer, i) = Earlier(seq, i)
  <2>1. \A j \in 1 .. i - 1 : longer[j] = seq[j]
    BY <1>2, <1>3
  <2> HIDE DEF longer
  <2> QED BY <2>1 DEF Earlier
<1>5. Earlier(longer, Len(seq) + 1) = ElementsOf(seq)
  <2>1. \A j \in 1 .. Len(seq) + 1 - 1 : longer[j] = seq[j]
    BY <1>2, <1>3
  <2>2. DOMAIN seq = 1 .. Len(seq) + 1 - 1
    BY <1>2
  <2> HIDE DEF longer
  <2> QED BY <2>1, <2>2 DEF Earlier, ElementsOf
<1>6. ASSUME NEW i \in 1 .. Len(longer)
      PROVE  /\ Ready(asked, Earlier(longer, i)) # {}
             /\ longer[i] = NextStep(asked, Earlier(longer, i))
  <2>1. CASE i \in 1 .. Len(seq)
    BY <1>3, <1>4, <2>1 DEF Grown
  <2>2. CASE i \notin 1 .. Len(seq)
    <3>1. i = Len(seq) + 1
      BY <1>2, <1>3, <2>2
    <3>2. next = NextStep(asked, ElementsOf(seq))
      BY DEF next
    <3> QED BY <1>3, <1>5, <3>1, <3>2
  <2> QED BY <2>1, <2>2
<1>7. Grown(asked, longer)
  BY <1>3, <1>6 DEF Grown
<1> QED BY <1>1, <1>3, <1>7

\* Finitely many steps are asked.
LEMMA NodesFinite ==
  ASSUME NEW asked, Contextual(asked)
  PROVE  IsFiniteSet(Nodes(asked)) /\ Cardinality(Nodes(asked)) \in Nat
<1> DEFINE own(k) == ElementsOf(asked[k])
           family == {own(k) : k \in DOMAIN asked}
           g == [k \in DOMAIN asked |-> own(k)]
<1>1. IsFiniteSet(family)
  <2>1. IsFiniteSet(DOMAIN asked)
    BY FS_Interval DEF Contextual
  <2>2. g \in Surjection(DOMAIN asked, family)
    BY DEF Surjection
  <2> HIDE DEF g, family
  <2> QED BY <2>1, <2>2, FS_Surjection
<1>2. ASSUME NEW k \in DOMAIN asked
      PROVE  IsFiniteSet(own(k))
  <2>1. IsFiniteSet(DOMAIN asked[k])
    <3>1. DOMAIN asked[k] = 1 .. Len(asked[k]) /\ Len(asked[k]) \in Int
      BY DEF Contextual
    <3> QED BY <3>1, FS_Interval
  <2>2. [i \in DOMAIN asked[k] |-> asked[k][i]] \in Surjection(DOMAIN asked[k], own(k))
    BY DEF Surjection, ElementsOf
  <2> QED BY <2>1, <2>2, FS_Surjection
<1>3. \A S \in family : IsFiniteSet(S)
  BY <1>2
<1>4. Nodes(asked) = UNION family
  BY DEF Nodes
<1> HIDE DEF family
<1>5. IsFiniteSet(Nodes(asked))
  BY <1>1, <1>3, <1>4, FS_UNION
<1> QED BY <1>5, FS_CardinalityType

\* Every round adds a step, until none is ready.
LEMMA RoundsGrow ==
  ASSUME NEW asked, Contextual(asked), NEW f, IsOrder(asked, f),
         NEW n \in 0 .. Cardinality(Nodes(asked))
  PROVE  /\ Grown(asked, f[n])
         /\ Len(f[n]) = n \/ (Len(f[n]) < n /\ Ready(asked, ElementsOf(f[n])) = {})
<1> DEFINE N == Cardinality(Nodes(asked))
           Good(m) == /\ Grown(asked, f[m])
                      /\ Len(f[m]) = m \/ (Len(f[m]) < m /\ Ready(asked, ElementsOf(f[m])) = {})
           T == {m \in 0 .. N : ~Good(m)}
<1>1. N \in Nat
  BY NodesFinite
<1>2. SUFFICES ASSUME T # {} PROVE FALSE
  BY <1>2
<1>3. PICK m \in T : \A x \in T : m <= x
  <2>1. T \in SUBSET Nat
    BY <1>1
  <2> HIDE DEF T
  <2> QED BY <1>2, <2>1, LeastNat
<1>4. m # 0
  <2>1. f[0] = <<>>
    BY <1>1 DEF IsOrder
  <2>2. Grown(asked, <<>>) /\ Len(<<>>) = 0
    BY DEF Grown
  <2>3. Good(0)
    BY <2>1, <2>2
  <2> QED BY <1>3, <2>3
<1>5. m - 1 \in 0 .. N /\ m \in 0 .. N /\ m \in Nat
  BY <1>1, <1>3, <1>4
<1>6. Good(m - 1)
  <2>1. ~(m <= m - 1)
    BY <1>5
  <2>2. m - 1 \notin T
    <3> HIDE DEF T
    <3> QED BY <1>3, <2>1
  <2> QED BY <1>5, <2>2
<1>7. f[m] = Round(asked, f[m - 1])
  BY <1>4, <1>5 DEF IsOrder
<1>8. Len(f[m - 1]) \in Nat
  BY <1>6 DEF Grown
<1>9. CASE Ready(asked, ElementsOf(f[m - 1])) # {}
  <2>1. Grown(asked, f[m]) /\ Len(f[m]) = Len(f[m - 1]) + 1
    BY <1>6, <1>7, <1>9, RoundGrows
  <2>2. Len(f[m - 1]) = m - 1
    BY <1>6, <1>9
  <2>3. Good(m)
    BY <1>5, <2>1, <2>2
  <2> QED BY <1>3, <2>3
<1>10. CASE Ready(asked, ElementsOf(f[m - 1])) = {}
  <2>1. f[m] = f[m - 1]
    BY <1>7, <1>10 DEF Round
  <2>2. Good(m)
    BY <1>5, <1>6, <1>8, <1>10, <2>1
  <2> QED BY <1>3, <2>2
<1> QED BY <1>9, <1>10

\* What a composition is: it grows, and it has every step, or none is ready.
LEMMA ComposedGrows ==
  ASSUME NEW asked, Contextual(asked)
  PROVE  /\ Grown(asked, Composed(asked))
         /\ Composable(asked) \/ Ready(asked, ElementsOf(Composed(asked))) = {}
         /\ Len(Composed(asked)) \in Nat
<1>1. Cardinality(Nodes(asked)) \in Nat
  BY NodesFinite
<1>2. PICK f : IsOrder(asked, f) /\ Composed(asked) = f[Cardinality(Nodes(asked))]
  BY <1>1, ComposedByRounds
<1>3. Cardinality(Nodes(asked)) \in 0 .. Cardinality(Nodes(asked))
  BY <1>1
<1>4. /\ Grown(asked, Composed(asked))
      /\ \/ Len(Composed(asked)) = Cardinality(Nodes(asked))
         \/ Ready(asked, ElementsOf(Composed(asked))) = {}
  BY <1>2, <1>3, RoundsGrow
<1>5. Len(Composed(asked)) \in Nat
  BY <1>4 DEF Grown
<1> QED BY <1>4, <1>5 DEF Composable

\* Its steps are different ones, each after all that are asked before it.
LEMMA GrownInOrder ==
  ASSUME NEW asked, Contextual(asked), NEW seq, Grown(asked, seq),
         NEW i \in 1 .. Len(seq)
  PROVE  /\ seq[i] \in Ready(asked, Earlier(seq, i))
         /\ seq[i] \in Nodes(asked) /\ seq[i] \notin Earlier(seq, i)
         /\ \A p \in Nodes(asked) : Before(asked, p, seq[i]) => p \in Earlier(seq, i)
<1>1. seq[i] \in Ready(asked, Earlier(seq, i))
  BY NextIsReady DEF Grown
<1> QED BY <1>1 DEF Ready

LEMMA GrownDiffers ==
  ASSUME NEW asked, Contextual(asked), NEW seq, Grown(asked, seq),
         NEW i \in 1 .. Len(seq), NEW j \in 1 .. Len(seq), seq[i] = seq[j]
  PROVE  i = j
<1>0. Len(seq) \in Nat
  BY DEF Grown
<1>1. ASSUME NEW m \in 1 .. Len(seq), NEW n \in 1 .. Len(seq), m < n
      PROVE  seq[m] # seq[n]
  <2>1. seq[m] \in Earlier(seq, n)
    BY <1>1 DEF Earlier
  <2> QED BY <2>1, GrownInOrder
<1> QED BY <1>0, <1>1

\* A composition that has as many steps as are asked has all of them, once.
LEMMA ComposedHasAll ==
  ASSUME NEW asked, Contextual(asked), Composable(asked)
  PROVE  /\ Composed(asked) \in Orders(asked)
         /\ ElementsOf(Composed(asked)) = Nodes(asked)
         /\ DOMAIN Composed(asked) = 1 .. Len(Composed(asked))
         /\ Len(Composed(asked)) = Cardinality(Nodes(asked))
<1> DEFINE seq == Composed(asked)
           N == Cardinality(Nodes(asked))
<1>1. Grown(asked, seq) /\ Len(seq) = N /\ N \in Nat
  BY ComposedGrows, NodesFinite DEF Composable
<1> HIDE DEF seq, N
<1>2. seq \in [1 .. N -> Nodes(asked)] /\ DOMAIN seq = 1 .. N
  BY <1>1 DEF Grown
<1>3. \A i, j \in 1 .. N : seq[i] = seq[j] => i = j
  BY <1>1, GrownDiffers
<1>4. seq \in Orders(asked)
  BY <1>2, <1>3 DEF Orders, N
<1>5. seq \in Surjection(1 .. N, Nodes(asked))
  <2>1. seq \in Injection(1 .. N, Nodes(asked))
    BY <1>2, <1>3 DEF Injection, IsInjective
  <2>2. IsFiniteSet(1 .. N) /\ Cardinality(1 .. N) = N
    <3>1. 1 \in Int /\ N \in Int /\ (IF 1 > N THEN 0 ELSE N - 1 + 1) = N
      BY <1>1
    <3> QED BY <3>1, FS_Interval
  <2> QED BY <2>1, <2>2, NodesFinite, FS_Injection DEF N
<1>6. ElementsOf(seq) = Nodes(asked)
  BY <1>2, <1>5 DEF Surjection, ElementsOf
<1> QED BY <1>1, <1>2, <1>4, <1>6 DEF seq, N

\* What the policies ask, one after the other, is asked.
LEMMA AskedIsNode ==
  ASSUME NEW asked, Contextual(asked), NEW k \in DOMAIN asked,
         NEW i \in DOMAIN asked[k]
  PROVE  asked[k][i] \in Nodes(asked)
BY DEF Nodes, ElementsOf

\* PoliciesAreKept: every step once, in the order of every policy.
LEMMA KeptInOrder ==
  ASSUME NEW asked, Contextual(asked)
  PROVE  PoliciesAreKept(asked)
<1> SUFFICES ASSUME Composable(asked)
             PROVE  /\ Composed(asked) \in Orders(asked)
                    /\ KeepsPolicies(asked, Composed(asked))
  BY DEF PoliciesAreKept
<1> DEFINE seq == Composed(asked)
<1>1. /\ seq \in Orders(asked) /\ ElementsOf(seq) = Nodes(asked)
      /\ DOMAIN seq = 1 .. Len(seq) /\ Grown(asked, seq) /\ Len(seq) \in Nat
  BY ComposedHasAll, ComposedGrows
<1> HIDE DEF seq
<1>2. ASSUME NEW k \in DOMAIN asked, NEW i \in 2 .. Len(asked[k])
      PROVE  \E m, n \in DOMAIN seq :
               seq[m] = asked[k][i - 1] /\ seq[n] = asked[k][i] /\ m <= n
  <2> DEFINE a == asked[k][i - 1]
             b == asked[k][i]
  <2>1. a \in Nodes(asked) /\ b \in Nodes(asked)
    <3>1. i - 1 \in DOMAIN asked[k] /\ i \in DOMAIN asked[k]
      BY DEF Contextual
    <3> QED BY <3>1, AskedIsNode
  <2>2. PICK n \in DOMAIN seq : seq[n] = b
    BY <1>1, <2>1 DEF ElementsOf
  <2>3. CASE a = b
    <3>1. n <= n
      BY <1>1
    <3> QED BY <2>2, <2>3, <3>1
  <2>4. CASE a # b
    <3>1. Before(asked, a, b)
      BY <2>4 DEF Before
    <3>2. a \in Earlier(seq, n)
      BY <1>1, <2>1, <2>2, <3>1, GrownInOrder
    <3>3. PICK m \in 1 .. n - 1 : seq[m] = a
      BY <3>2 DEF Earlier
    <3>4. m \in DOMAIN seq /\ m <= n
      BY <1>1, <2>2
    <3> QED BY <2>2, <3>3, <3>4
  <2> QED BY <2>3, <2>4
<1>3. KeepsPolicies(asked, seq)
  BY <1>2 DEF KeepsPolicies
<1> QED BY <1>1, <1>3 DEF seq

\* An order of all steps has every one of them.
LEMMA OrderHasAll ==
  ASSUME NEW asked, Contextual(asked), NEW order \in Orders(asked)
  PROVE  /\ DOMAIN order = 1 .. Cardinality(Nodes(asked))
         /\ \A s \in Nodes(asked) : \E i \in DOMAIN order : order[i] = s
         /\ \A i \in DOMAIN order : order[i] \in Nodes(asked)
         /\ \A i, j \in DOMAIN order : order[i] = order[j] => i = j
<1> DEFINE N == Cardinality(Nodes(asked))
<1>1. N \in Nat /\ order \in [1 .. N -> Nodes(asked)]
        /\ \A i, j \in 1 .. N : order[i] = order[j] => i = j
  BY NodesFinite DEF Orders
<1> HIDE DEF N
<1>2. order \in Injection(1 .. N, Nodes(asked))
  BY <1>1 DEF Injection, IsInjective
<1>3. IsFiniteSet(1 .. N) /\ Cardinality(1 .. N) = N
  <2>1. 1 \in Int /\ N \in Int /\ (IF 1 > N THEN 0 ELSE N - 1 + 1) = N
    BY <1>1
  <2> QED BY <2>1, FS_Interval
<1>4. order \in Surjection(1 .. N, Nodes(asked))
  BY <1>2, <1>3, NodesFinite, FS_Injection DEF N
<1> QED BY <1>1, <1>4 DEF Surjection, N

\* A step of an order has all that are asked before it at earlier positions.
LEMMA KeptBefore ==
  ASSUME NEW asked, Contextual(asked), NEW order \in Orders(asked),
         KeepsPolicies(asked, order), NEW x \in DOMAIN order,
         NEW p \in Nodes(asked), Before(asked, p, order[x])
  PROVE  p \in Earlier(order, x)
<1>1. PICK k \in DOMAIN asked : \E i \in 2 .. Len(asked[k]) :
        asked[k][i - 1] = p /\ asked[k][i] = order[x]
  BY DEF Before
<1>2. PICK m \in DOMAIN order, n \in DOMAIN order : order[m] = p /\ order[n] = order[x] /\ m <= n
  BY <1>1 DEF KeepsPolicies
<1>3. n = x /\ m # x
  BY <1>2, OrderHasAll DEF Before
<1>4. m \in 1 .. x - 1
  BY <1>2, <1>3, OrderHasAll, NodesFinite
<1> QED BY <1>2, <1>4 DEF Earlier

\* RefusedOnlyWhenImpossible: of an order the first step that the composition
\* has not would be ready.
LEMMA RefusedRightly ==
  ASSUME NEW asked, Contextual(asked)
  PROVE  RefusedOnlyWhenImpossible(asked)
<1> SUFFICES ASSUME ~Composable(asked), NEW order \in Orders(asked),
                    KeepsPolicies(asked, order)
             PROVE  FALSE
  BY DEF RefusedOnlyWhenImpossible
<1> DEFINE seq == Composed(asked)
           N == Cardinality(Nodes(asked))
           missing == {x \in DOMAIN order : order[x] \notin ElementsOf(seq)}
<1>1. Ready(asked, ElementsOf(seq)) = {} /\ Grown(asked, seq)
  BY ComposedGrows
<1>2. N \in Nat /\ Len(seq) \in Nat /\ Len(seq) # N
  BY ComposedGrows, NodesFinite DEF Composable
<1>3. DOMAIN order = 1 .. N
  BY OrderHasAll
<1>4. missing # {}
  <2>1. SUFFICES ASSUME missing = {} PROVE FALSE
    OBVIOUS
  <2>2. \A s \in Nodes(asked) : s \in ElementsOf(seq)
    BY <2>1, OrderHasAll
  <2>3. seq \in [1 .. Len(seq) -> Nodes(asked)] /\ DOMAIN seq = 1 .. Len(seq)
    BY <1>1 DEF Grown
  <2> HIDE DEF seq
  <2>4. seq \in Injection(1 .. Len(seq), Nodes(asked))
    BY <1>1, <2>3, GrownDiffers DEF Injection, IsInjective
  <2>5. seq \in Surjection(1 .. Len(seq), Nodes(asked))
    BY <2>2, <2>3 DEF Surjection, ElementsOf
  <2>6. Cardinality(1 .. Len(seq)) = N
    BY <2>4, <2>5, NodesFinite, FS_Injection
  <2>7. Cardinality(1 .. Len(seq)) = Len(seq)
    <3>1. 1 \in Int /\ Len(seq) \in Int /\ (IF 1 > Len(seq) THEN 0 ELSE Len(seq) - 1 + 1) = Len(seq)
      BY <1>2 DEF seq
    <3> QED BY <3>1, FS_Interval
  <2> QED BY <1>2, <2>6, <2>7 DEF seq
<1>5. PICK x \in missing : \A y \in missing : x <= y
  <2>1. missing \in SUBSET Nat
    BY <1>2, <1>3
  <2> HIDE DEF missing
  <2> QED BY <1>4, <2>1, LeastNat
<1>6. x \in DOMAIN order /\ order[x] \in Nodes(asked) \ ElementsOf(seq)
  BY <1>5, OrderHasAll
<1>7. PICK p \in Nodes(asked) : Before(asked, p, order[x]) /\ p \notin ElementsOf(seq)
  BY <1>1, <1>6 DEF Ready
<1>8. PICK m \in 1 .. x - 1 : order[m] = p
  BY <1>6, <1>7, KeptBefore DEF Earlier
<1>9. m \in missing /\ ~(x <= m)
  BY <1>2, <1>3, <1>6, <1>7, <1>8
<1> HIDE DEF missing
<1> QED BY <1>5, <1>9

\* EarlierContextsLead: where an order first differs from the composition, its
\* step was ready as well, and is asked later.
LEMMA EarlierLead ==
  ASSUME NEW asked, Contextual(asked)
  PROVE  EarlierContextsLead(asked)
<1> DEFINE mine == Composed(asked)
<1> SUFFICES ASSUME Composable(asked), NEW order \in Orders(asked),
                    KeepsPolicies(asked, order), order # mine
             PROVE  \E i \in DOMAIN mine :
                      /\ \A j \in 1 .. i - 1 : mine[j] = order[j]
                      /\ Precedes(Priority(asked, mine[i]), Priority(asked, order[i]))
  BY DEF EarlierContextsLead
<1> DEFINE N == Cardinality(Nodes(asked))
           other == {i \in 1 .. N : mine[i] # order[i]}
<1>1. /\ Grown(asked, mine) /\ DOMAIN mine = 1 .. N /\ Len(mine) = N
      /\ mine \in Orders(asked) /\ N \in Nat
  BY ComposedGrows, ComposedHasAll, NodesFinite
<1> HIDE DEF mine
<1>2. /\ DOMAIN order = 1 .. N /\ \A i \in 1 .. N : order[i] \in Nodes(asked)
      /\ \A i, j \in 1 .. N : order[i] = order[j] => i = j
  <2>1. order \in Orders(asked)
    OBVIOUS
  <2>2. /\ DOMAIN order = 1 .. N /\ \A i \in DOMAIN order : order[i] \in Nodes(asked)
        /\ \A i, j \in DOMAIN order : order[i] = order[j] => i = j
    BY <2>1, OrderHasAll
  <2> QED BY <2>2
<1>3. other # {}
  <2>1. order \in [1 .. N -> Nodes(asked)] /\ mine \in [1 .. N -> Nodes(asked)]
    BY <1>1 DEF Orders
  <2>2. order = [i \in 1 .. N |-> order[i]] /\ mine = [i \in 1 .. N |-> mine[i]]
    BY <2>1
  <2>3. ASSUME \A i \in 1 .. N : mine[i] = order[i] PROVE FALSE
    <3>1. [i \in 1 .. N |-> order[i]] = [i \in 1 .. N |-> mine[i]]
      BY <2>3
    <3> QED BY <2>2, <3>1
  <2> QED BY <2>3
<1>4. PICK i \in other : \A j \in other : i <= j
  <2>1. other \in SUBSET Nat
    BY <1>1
  <2> HIDE DEF other
  <2> QED BY <1>3, <2>1, LeastNat
<1>5. i \in 1 .. N /\ mine[i] # order[i]
  BY <1>4
<1>6. ASSUME NEW j \in 1 .. i - 1
      PROVE  mine[j] = order[j]
  <2>1. j \in 1 .. N /\ ~(i <= j)
    BY <1>1, <1>5
  <2>2. j \notin other
    <3> HIDE DEF other
    <3> QED BY <1>4, <2>1
  <2> QED BY <2>1, <2>2
<1>7. Earlier(mine, i) = Earlier(order, i)
  BY <1>6 DEF Earlier
<1>8. order[i] \notin Earlier(order, i)
  <2>1. ASSUME NEW j \in 1 .. i - 1 PROVE order[j] # order[i]
    <3>1. j \in 1 .. N /\ j # i
      BY <1>1, <1>5
    <3> QED BY <1>2, <1>5, <3>1
  <2> QED BY <2>1 DEF Earlier
<1>9. order[i] \in Ready(asked, Earlier(mine, i))
  <2>1. \A p \in Nodes(asked) : Before(asked, p, order[i]) => p \in Earlier(order, i)
    BY <1>2, <1>5, KeptBefore
  <2> QED BY <1>2, <1>5, <1>7, <1>8, <2>1 DEF Ready
<1>10. mine[i] = NextStep(asked, Earlier(mine, i))
  BY <1>1, <1>5 DEF Grown
<1>11. Precedes(Priority(asked, mine[i]), Priority(asked, order[i]))
  BY <1>5, <1>9, <1>10, NextIsReady
<1> QED BY <1>1, <1>5, <1>6, <1>11

LEMMA CompositionIsBest ==
  ASSUME NEW asked, Contextual(asked)
  PROVE  BestComposition(asked)
BY KeptInOrder, RefusedRightly, EarlierLead DEF BestComposition

\* Sequences of steps are what the lemmas ask.
LEMMA SequencesAreContextual ==
  ASSUME NEW S, NEW asked \in Seq(Seq(S))
  PROVE  Contextual(asked)
<1>1. DOMAIN asked = 1 .. Len(asked) /\ Len(asked) \in Nat
  OBVIOUS
<1>2. \A k \in DOMAIN asked : asked[k] \in Seq(S)
  OBVIOUS
<1> QED BY <1>1, <1>2 DEF Contextual

\* The composed steps of any lines are the best order there is: every step once,
\* the order of every policy kept, the earlier lines first, and a refusal only
\* when no order would do (composeSteps).
THEOREM CompositionsBest == ContextsSpec => []ComposedAsAsked
<1> DEFINE Inv == contexts \in Seq(Seq(AskedSteps))
<1>1. ContextsInit => Inv
  BY DEF ContextsInit
<1>2. Inv /\ [ContextsNext]_contexts => Inv'
  <2> SUFFICES ASSUME Inv, [ContextsNext]_contexts PROVE Inv'
    OBVIOUS
  <2>1. CASE NextContext
    BY <2>1 DEF NextContext
  <2>2. ASSUME NEW s \in AskedSteps, AskStep(s) PROVE Inv'
    <3>1. Len(contexts) \in 1 .. Len(contexts) /\ Len(contexts) \in Nat
      BY <2>2 DEF AskStep
    <3>2. contexts[Len(contexts)] \in Seq(AskedSteps)
      BY <3>1
    <3>3. Append(contexts[Len(contexts)], s) \in Seq(AskedSteps)
      BY <3>2
    <3>4. contexts' = [contexts EXCEPT ![Len(contexts)] = Append(contexts[Len(contexts)], s)]
      BY <2>2 DEF AskStep
    <3> QED BY <3>1, <3>3, <3>4
  <2>3. CASE UNCHANGED contexts
    BY <2>3
  <2> QED BY <2>1, <2>2, <2>3 DEF ContextsNext
<1>3. Inv => ComposedAsAsked
  BY SequencesAreContextual, CompositionIsBest DEF ComposedAsAsked
<1> QED BY <1>1, <1>2, <1>3, PTL DEF ContextsSpec

-------------------------------------------------------------------------------
(* The rows of settlements.                                                *)

Row ==
  [state: BatchStates \ {"ABSENT"}, content: Proposals,
   seen: UNION {[c.items -> Nat] : c \in Proposals}, creator: Users,
   confirmer: Users \cup {NoUser}, reverser: Users \cup {NoUser},
   replaces: Batches \cup {NoBatch}, of: Batches \cup {NoBatch}]

EffectRow == [batch: Batches, type: EffectTypes, item: SUBSET Items, amount: Int]

SettlementTyped ==
  /\ item \in [Items -> Item]
  /\ \A i \in Items : item[i].state = "ABSENT" <=> item[i] = NoItem
  /\ batch \in [Batches -> Row \cup {NoRow}]
  /\ \A b \in Batches : batch[b] # NoRow => batch[b].seen \in [batch[b].content.items -> Nat]
  /\ effect \in SUBSET EffectRow

\* A row is no row exactly when its state says so.
LEMMA RowPresent ==
  ASSUME SettlementTyped, NEW b \in Batches
  PROVE  /\ batch[b] = NoRow => batch[b].state = "ABSENT"
         /\ batch[b] # NoRow => batch[b] \in Row
         /\ batch[b].state # "ABSENT" => batch[b] \in Row /\ batch[b] # NoRow
         /\ batch[b].state = "ABSENT" => batch[b] = NoRow
BY DEF SettlementTyped, NoRow, Row

\* What the clients send.
LEMMA ProposalType ==
  ASSUME NEW c \in Proposals
  PROVE  /\ c.items \in SUBSET Items /\ c.items # {}
         /\ c.amount \in [c.items -> Nat \ {0}]
         /\ c.actual \in Nat \ {0} /\ c.fee \in Int /\ c.deduction \in Int
         /\ c.discrepancy \in Int /\ c.account \in BankAccounts
BY SettlementAssumption DEF Proposal

LEMMA SettlementTypesFollow ==
  ASSUME SettlementTyped
  PROVE  SettlementTypeOK
<1>1. ASSUME NEW b \in Batches PROVE BatchRow(batch[b])
  <2>1. CASE batch[b] = NoRow
    BY <2>1 DEF BatchRow
  <2>2. CASE batch[b] # NoRow
    <3>1. batch[b] \in Row
      BY <2>2, RowPresent
    <3> QED BY <2>2, <3>1 DEF BatchRow, Row, SettlementTyped
  <2> QED BY <2>1, <2>2
<1>2. ASSUME NEW e \in effect
      PROVE  e.batch \in Batches /\ e.type \in EffectTypes /\ e.item \subseteq Items
  BY DEF SettlementTyped, EffectRow
<1> QED BY <1>1, <1>2 DEF SettlementTypeOK, SettlementTyped

-------------------------------------------------------------------------------
(* What the commands on settlements do to the rows.                        *)

LEMMA CreateMoves ==
  ASSUME SettlementTyped, NEW u \in Users, NEW b \in Batches,
         NEW r \in Batches \cup {NoBatch}, NEW c \in Proposals, CreateBatch(u, b, r, c)
  PROVE  /\ batch[b] = NoRow /\ batch'[b] \in Row
         /\ batch'[b].state \in {"MATCHED", "DISCREPANCY"}
         /\ batch'[b].content = c /\ batch'[b].seen = [i \in c.items |-> item[i].version]
         /\ batch'[b].replaces = r /\ batch'[b].of = NoBatch
         /\ batch' \in [Batches -> Row \cup {NoRow}]
         /\ \A x \in Batches \ {b} : batch'[x] = batch[x]
         /\ UNCHANGED <<item, effect>>
<1> DEFINE row == InsertProposal(u, r, c)
<1>1. /\ batch' = [batch EXCEPT ![b] = row] /\ batch[b] = NoRow
      /\ UNCHANGED <<item, effect>>
  BY DEF CreateBatch
<1>2. [i \in c.items |-> item[i].version] \in [c.items -> Nat]
  BY ProposalType DEF SettlementTyped, Item
<1>3. /\ row \in Row /\ row.state \in {"MATCHED", "DISCREPANCY"} /\ row.content = c
      /\ row.seen = [i \in c.items |-> item[i].version]
      /\ row.replaces = r /\ row.of = NoBatch
  BY <1>2 DEF InsertProposal, Row, BatchStates
<1> HIDE DEF row
<1>4. batch \in [Batches -> Row \cup {NoRow}]
  BY DEF SettlementTyped
<1> QED BY <1>1, <1>3, <1>4

LEMMA ConfirmMoves ==
  ASSUME SettlementTyped, NEW u \in Users, NEW b \in Batches, ConfirmBatch(u, b)
  PROVE  /\ batch[b] \in Row /\ batch[b] # NoRow
         /\ batch[b].state \in {"MATCHED", "DISCREPANCY"}
         /\ batch'[b] \in Row /\ batch'[b].state = "CONFIRMED"
         /\ batch'[b].content = batch[b].content /\ batch'[b].seen = batch[b].seen
         /\ batch'[b].replaces = batch[b].replaces /\ batch'[b].of = batch[b].of
         /\ batch' \in [Batches -> Row \cup {NoRow}]
         /\ \A x \in Batches \ {b} : batch'[x] = batch[x]
<1>1. batch[b].state \in {"MATCHED", "DISCREPANCY"}
  BY DEF ConfirmBatch, Proposed
<1>2. batch[b] \in Row /\ batch[b] # NoRow
  BY <1>1, RowPresent
<1> DEFINE row == [batch[b] EXCEPT !.state = "CONFIRMED", !.confirmer = u]
<1>3. batch' = [batch EXCEPT ![b] = row]
  BY DEF ConfirmBatch
<1>4. /\ row \in Row /\ row.state = "CONFIRMED"
      /\ row.content = batch[b].content /\ row.seen = batch[b].seen
      /\ row.replaces = batch[b].replaces /\ row.of = batch[b].of
  BY <1>2 DEF Row, BatchStates
<1> HIDE DEF row
<1>5. batch \in [Batches -> Row \cup {NoRow}]
  BY DEF SettlementTyped
<1> QED BY <1>1, <1>2, <1>3, <1>4, <1>5

LEMMA ReverseMoves ==
  ASSUME SettlementTyped, NEW u \in Users, NEW b \in Batches, NEW r \in Batches,
         ReverseBatch(u, b, r)
  PROVE  /\ batch[b] \in Row /\ batch[b].state = "CONFIRMED" /\ batch[b] # NoRow
         /\ batch[r] = NoRow /\ r # b
         /\ batch'[b] \in Row /\ batch'[b].state = "REVERSED"
         /\ batch'[b].content = batch[b].content /\ batch'[b].seen = batch[b].seen
         /\ batch'[b].replaces = batch[b].replaces /\ batch'[b].of = batch[b].of
         /\ batch'[r] \in Row /\ batch'[r].state = "REVERSAL"
         /\ batch'[r].content = batch[b].content /\ batch'[r].seen = batch[b].seen
         /\ batch'[r].replaces = NoBatch /\ batch'[r].of = b
         /\ batch' \in [Batches -> Row \cup {NoRow}]
         /\ \A x \in Batches \ {b, r} : batch'[x] = batch[x]
<1>1. batch[b].state = "CONFIRMED" /\ batch[r] = NoRow
  BY DEF ReverseBatch
<1>2. batch[b] \in Row /\ batch[b] # NoRow /\ r # b
  BY <1>1, RowPresent
<1> DEFINE row == [batch[b] EXCEPT !.state = "REVERSED", !.reverser = u]
           back == InsertReversal(u, b)
<1>3. batch' = [batch EXCEPT ![b] = row, ![r] = back]
  BY DEF ReverseBatch
<1>4. /\ row \in Row /\ row.state = "REVERSED"
      /\ row.content = batch[b].content /\ row.seen = batch[b].seen
      /\ row.replaces = batch[b].replaces /\ row.of = batch[b].of
  BY <1>2 DEF Row, BatchStates
<1>5. /\ back \in Row /\ back.state = "REVERSAL"
      /\ back.content = batch[b].content /\ back.seen = batch[b].seen
      /\ back.replaces = NoBatch /\ back.of = b
  BY <1>2 DEF Row, BatchStates, InsertReversal
<1> HIDE DEF row, back
<1>6. batch \in [Batches -> Row \cup {NoRow}]
  BY DEF SettlementTyped
<1> QED BY <1>1, <1>2, <1>3, <1>4, <1>5, <1>6

\* The items of a batch when it is confirmed, and when it is reversed.
LEMMA ConfirmItems ==
  ASSUME SettlementTyped, NEW u \in Users, NEW b \in Batches, ConfirmBatch(u, b),
         NEW i \in Items
  PROVE  /\ i \in batch[b].content.items =>
              /\ item[i] # NoItem /\ item[i].version = batch[b].seen[i]
              /\ batch[b].content.amount[i] \in Nat \ {0}
              /\ batch[b].content.amount[i] <= item[i].remaining
              /\ item'[i] = AfterConfirmation(i, batch[b].content.amount[i])
              /\ item'[i] \in Item /\ item'[i].state # "ABSENT"
         /\ i \notin batch[b].content.items => item'[i] = item[i]
         /\ item' \in [Items -> Item]
<1> DEFINE c == batch[b].content
<1>1. batch[b] \in Row /\ c \in Proposals
  BY ConfirmMoves DEF Row
<1>2. c.amount \in [c.items -> Nat \ {0}] /\ c.items \subseteq Items
  BY <1>1, ProposalType
<1>3. /\ item' = [j \in Items |->
           IF j \in c.items THEN AfterConfirmation(j, c.amount[j]) ELSE item[j]]
      /\ \A j \in c.items : Fits(j, c) /\ item[j].version = batch[b].seen[j]
  BY DEF ConfirmBatch, ValidateLockedAllocations
<1> HIDE DEF c
<1>4. ASSUME NEW j \in c.items
      PROVE  /\ item[j] # NoItem /\ item[j].version = batch[b].seen[j]
             /\ c.amount[j] \in Nat \ {0} /\ c.amount[j] <= item[j].remaining
             /\ AfterConfirmation(j, c.amount[j]) \in Item
             /\ AfterConfirmation(j, c.amount[j]).state # "ABSENT"
  <2>1. item[j].state # "ABSENT" /\ c.amount[j] <= item[j].remaining
    BY <1>3 DEF Fits, Allocatable
  <2>2. item[j] \in Item /\ item[j] # NoItem /\ c.amount[j] \in Nat \ {0}
    BY <1>2, <2>1 DEF SettlementTyped, NoItem
  <2>3. /\ AfterConfirmation(j, c.amount[j]) \in Item
        /\ AfterConfirmation(j, c.amount[j]).state # "ABSENT"
    BY <2>1, <2>2 DEF AfterConfirmation, Item, ItemStates, Allocatable
  <2> QED BY <1>3, <2>1, <2>2, <2>3
<1>5. item' \in [Items -> Item]
  BY <1>3, <1>4 DEF SettlementTyped
<1> QED BY <1>3, <1>4, <1>5 DEF c

LEMMA ReverseItems ==
  ASSUME SettlementTyped, NEW u \in Users, NEW b \in Batches, NEW r \in Batches,
         ReverseBatch(u, b, r), NEW i \in Items
  PROVE  /\ i \in batch[b].content.items =>
              /\ batch[b].content.amount[i] \in Nat \ {0}
              /\ batch[b].content.amount[i] <= item[i].allocated
              /\ item[i] # NoItem
              /\ item'[i] = AfterReversal(i, batch[b].content.amount[i])
              /\ item'[i] \in Item /\ item'[i].state # "ABSENT"
         /\ i \notin batch[b].content.items => item'[i] = item[i]
         /\ item' \in [Items -> Item]
<1> DEFINE c == batch[b].content
<1>1. batch[b] \in Row /\ c \in Proposals
  BY ReverseMoves DEF Row
<1>2. c.amount \in [c.items -> Nat \ {0}] /\ c.items \subseteq Items
  BY <1>1, ProposalType
<1>3. /\ item' = [j \in Items |->
           IF j \in c.items THEN AfterReversal(j, c.amount[j]) ELSE item[j]]
      /\ \A j \in c.items : item[j].allocated >= c.amount[j]
  BY DEF ReverseBatch
<1> HIDE DEF c
<1>4. ASSUME NEW j \in c.items
      PROVE  /\ c.amount[j] \in Nat \ {0} /\ c.amount[j] <= item[j].allocated
             /\ item[j] # NoItem
             /\ AfterReversal(j, c.amount[j]) \in Item
             /\ AfterReversal(j, c.amount[j]).state # "ABSENT"
  <2>1. item[j].allocated >= c.amount[j] /\ item[j] \in Item /\ c.amount[j] \in Nat \ {0}
    BY <1>2, <1>3 DEF SettlementTyped
  <2>2. item[j] # NoItem
    BY <2>1 DEF NoItem
  <2>3. /\ AfterReversal(j, c.amount[j]) \in Item
        /\ AfterReversal(j, c.amount[j]).state # "ABSENT"
    BY <2>1 DEF AfterReversal, Item, ItemStates, Allocatable
  <2> QED BY <2>1, <2>2, <2>3 DEF Item
<1>5. item' \in [Items -> Item]
  BY <1>3, <1>4 DEF SettlementTyped
<1> QED BY <1>3, <1>4, <1>5 DEF c

\* The effects of a batch are effects.
LEMMA EffectType ==
  ASSUME NEW b \in Batches, NEW type \in EffectTypes, NEW i, NEW n \in Int
  PROVE  Effect(b, type, i, n) \in EffectRow
BY DEF Effect, EffectRow

LEMMA ConfirmationType ==
  ASSUME SettlementTyped, NEW b \in Batches, batch[b] \in Row
  PROVE  Confirmation(b) \in SUBSET EffectRow
<1> DEFINE c == batch[b].content
<1>1. c \in Proposals
  BY DEF Row
<1>2. /\ c.actual \in Int /\ c.fee \in Int /\ c.deduction \in Int /\ c.discrepancy \in Int
      /\ \A i \in c.items : c.amount[i] \in Int
  BY <1>1, ProposalType
<1> HIDE DEF c
<1>3. Effect(b, "BANK_CREDIT", b, c.actual) \in EffectRow
  BY <1>2, EffectType DEF EffectTypes
<1>4. \A i \in c.items : Effect(b, "ALLOCATION_CONSUMPTION", i, c.amount[i]) \in EffectRow
  BY <1>2, EffectType DEF EffectTypes
<1>5. /\ Effect(b, "FEE_EVIDENCE", b, c.fee) \in EffectRow
      /\ Effect(b, "DEDUCTION_EVIDENCE", b, c.deduction) \in EffectRow
      /\ Effect(b, "APPROVED_DISCREPANCY_EVIDENCE", b, c.discrepancy) \in EffectRow
  BY <1>2, EffectType DEF EffectTypes
<1>6. OptionalEvidence(b) \in SUBSET EffectRow
  BY <1>5 DEF OptionalEvidence, c
<1>7. {Effect(b, "ALLOCATION_CONSUMPTION", i, c.amount[i]) : i \in c.items} \in SUBSET EffectRow
  BY <1>4
<1> QED BY <1>3, <1>6, <1>7 DEF Confirmation, c

LEMMA MirroredType ==
  ASSUME SettlementTyped, NEW b \in Batches, NEW r \in Batches
  PROVE  Mirrored(r, b) \in SUBSET EffectRow
BY DEF SettlementTyped, Mirrored, EffectsOf, EffectRow

\* The commands keep the types.
LEMMA SettlementTypedStep ==
  ASSUME SettlementTyped, SettlementCommand
  PROVE  SettlementTyped'
<1>1. ASSUME NEW u \in Users, NEW b \in Batches, NEW r \in Batches \cup {NoBatch},
             NEW c \in Proposals, CreateBatch(u, b, r, c)
      PROVE  SettlementTyped'
  <2>0. /\ batch'[b].content = c /\ batch'[b].seen = [i \in c.items |-> item[i].version]
        /\ \A x \in Batches \ {b} : batch'[x] = batch[x]
    BY <1>1, CreateMoves
  <2>1. batch'[b].seen \in [batch'[b].content.items -> Nat]
    <3>1. [i \in c.items |-> item[i].version] \in [c.items -> Nat]
      BY ProposalType DEF SettlementTyped, Item
    <3> QED BY <2>0, <3>1
  <2>2. \A x \in Batches : batch'[x] # NoRow => batch'[x].seen \in [batch'[x].content.items -> Nat]
    BY <2>0, <2>1 DEF SettlementTyped
  <2>3. /\ batch' \in [Batches -> Row \cup {NoRow}]
        /\ item' = item /\ effect' = effect
    BY <1>1, CreateMoves
  <2> QED BY <2>2, <2>3 DEF SettlementTyped
<1>2. ASSUME NEW u \in Users, NEW b \in Batches, ConfirmBatch(u, b)
      PROVE  SettlementTyped'
  <2>1. /\ item' \in [Items -> Item]
        /\ \A i \in Items : item'[i].state = "ABSENT" <=> item'[i] = NoItem
    <3>1. ASSUME NEW i \in Items
          PROVE  item' \in [Items -> Item] /\ (item'[i].state = "ABSENT" <=> item'[i] = NoItem)
      BY <1>2, ConfirmItems DEF SettlementTyped, NoItem
    <3>2. (Items = {}) => item' \in [Items -> Item]
      BY <1>2 DEF ConfirmBatch
    <3> QED BY <3>1, <3>2
  <2>2. \A x \in Batches : batch'[x] # NoRow => batch'[x].seen \in [batch'[x].content.items -> Nat]
    BY <1>2, ConfirmMoves DEF SettlementTyped
  <2>3. effect' \in SUBSET EffectRow
    BY <1>2, ConfirmMoves, ConfirmationType DEF ConfirmBatch, SettlementTyped
  <2> QED BY <1>2, <2>1, <2>2, <2>3, ConfirmMoves DEF SettlementTyped
<1>3. ASSUME NEW u \in Users, NEW b \in Batches, NEW r \in Batches, ReverseBatch(u, b, r)
      PROVE  SettlementTyped'
  <2>1. /\ item' \in [Items -> Item]
        /\ \A i \in Items : item'[i].state = "ABSENT" <=> item'[i] = NoItem
    <3>1. ASSUME NEW i \in Items
          PROVE  item' \in [Items -> Item] /\ (item'[i].state = "ABSENT" <=> item'[i] = NoItem)
      BY <1>3, ReverseItems DEF SettlementTyped, NoItem
    <3>2. (Items = {}) => item' \in [Items -> Item]
      BY <1>3 DEF ReverseBatch
    <3> QED BY <3>1, <3>2
  <2>2. \A x \in Batches : batch'[x] # NoRow => batch'[x].seen \in [batch'[x].content.items -> Nat]
    BY <1>3, ReverseMoves DEF SettlementTyped
  <2>3. effect' \in SUBSET EffectRow
    BY <1>3, MirroredType DEF ReverseBatch, SettlementTyped
  <2> QED BY <1>3, <2>1, <2>2, <2>3, ReverseMoves DEF SettlementTyped
<1> QED BY <1>1, <1>2, <1>3 DEF SettlementCommand

-------------------------------------------------------------------------------
(* Balances.                                                               *)

\* Whatever a batch allocates has been collected.
ItemsOfBatches ==
  \A b \in Batches : batch[b] # NoRow => \A i \in batch[b].content.items : item[i] # NoItem

AmountsOf(i) == [b \in Holding(i) |-> batch[b].content.amount[i]]

LEMMA HoldingType ==
  ASSUME SettlementTyped, NEW i \in Items
  PROVE  /\ IsFiniteSet(Holding(i)) /\ Holding(i) \subseteq Batches
         /\ \A b \in Holding(i) : batch[b].content.amount[i] \in Nat \ {0}
         /\ Sum(Holding(i), AmountsOf(i)) \in Nat
<1>1. IsFiniteSet(Holding(i)) /\ Holding(i) \subseteq Batches
  BY SettlementAssumption, FS_Subset DEF Holding
<1>2. ASSUME NEW b \in Holding(i) PROVE batch[b].content.amount[i] \in Nat \ {0}
  <2>1. batch[b].state = "CONFIRMED" /\ i \in batch[b].content.items /\ b \in Batches
    BY DEF Holding
  <2>2. batch[b].content \in Proposals
    BY <2>1, RowPresent DEF Row
  <2> QED BY <2>1, <2>2, ProposalType
<1>3. Sum(Holding(i), AmountsOf(i)) \in Nat
  BY <1>1, <1>2, SumType DEF AmountsOf
<1> QED BY <1>1, <1>2, <1>3

\* Without a batch nothing, with one at least its amount is allocated.
LEMMA NothingHeld ==
  ASSUME SettlementTyped, NEW i \in Items, Sum(Holding(i), AmountsOf(i)) = 0
  PROVE  Holding(i) = {}
<1>1. ASSUME NEW b \in Holding(i) PROVE FALSE
  <2>1. AmountsOf(i)[b] \in Nat \ {0} /\ \A x \in Holding(i) : AmountsOf(i)[x] \in Nat
    BY HoldingType DEF AmountsOf
  <2>2. Sum({b}, AmountsOf(i)) <= Sum(Holding(i), AmountsOf(i))
    BY <2>1, HoldingType, SumMonotone
  <2>3. Sum({b}, AmountsOf(i)) = AmountsOf(i)[b]
    BY <2>1, SumSingle
  <2> QED BY <2>1, <2>2, <2>3
<1> QED BY <1>1

\* One batch more, one batch less, the same batches.
LEMMA HeldMore ==
  ASSUME SettlementTyped, NEW i \in Items, NEW b, b \notin Holding(i),
         Holding(i)' = Holding(i) \cup {b},
         \A x \in Holding(i) \cup {b} : batch'[x].content = batch[x].content,
         batch[b].content.amount[i] \in Nat
  PROVE  Sum(Holding(i), AmountsOf(i))' = Sum(Holding(i), AmountsOf(i)) + batch[b].content.amount[i]
<1> DEFINE g == [x \in Holding(i) \cup {b} |-> batch[x].content.amount[i]]
<1>1. Sum(Holding(i)', AmountsOf(i)') = Sum(Holding(i) \cup {b}, g)
  <2>1. \A x \in Holding(i) \cup {b} : AmountsOf(i)'[x] = g[x]
    BY DEF AmountsOf
  <2> HIDE DEF g
  <2> QED BY <2>1, SumSame
<1>2. Sum(Holding(i), g) = Sum(Holding(i), AmountsOf(i))
  <2>1. \A x \in Holding(i) : g[x] = AmountsOf(i)[x]
    BY DEF AmountsOf
  <2> HIDE DEF g
  <2> QED BY <2>1, SumSame
<1>3. \A x \in Holding(i) \cup {b} : g[x] \in Nat
  BY HoldingType
<1>4. g[b] = batch[b].content.amount[i]
  OBVIOUS
<1> HIDE DEF g
<1>5. Sum(Holding(i) \cup {b}, g) = Sum(Holding(i), g) + g[b]
  BY <1>3, HoldingType, SumAdd
<1> QED BY <1>1, <1>2, <1>4, <1>5

LEMMA HeldLess ==
  ASSUME SettlementTyped, NEW i \in Items, NEW b \in Holding(i),
         Holding(i)' = Holding(i) \ {b},
         \A x \in Holding(i) : batch'[x].content = batch[x].content
  PROVE  /\ Sum(Holding(i), AmountsOf(i)) = Sum(Holding(i), AmountsOf(i))' + batch[b].content.amount[i]
         /\ Sum(Holding(i), AmountsOf(i))' \in Nat
<1> DEFINE S == Holding(i) \ {b}
<1>1. Sum(Holding(i)', AmountsOf(i)') = Sum(S, AmountsOf(i))
  <2>1. \A x \in S : AmountsOf(i)'[x] = AmountsOf(i)[x]
    BY DEF AmountsOf
  <2> QED BY <2>1, SumSame
<1>2. IsFiniteSet(S) /\ S \cup {b} = Holding(i) /\ b \notin S
  BY HoldingType, FS_Subset
<1>3. \A x \in S \cup {b} : AmountsOf(i)[x] \in Nat
  BY <1>2, HoldingType DEF AmountsOf
<1>4. AmountsOf(i)[b] = batch[b].content.amount[i]
  BY DEF AmountsOf
<1> HIDE DEF S
<1>5. Sum(S \cup {b}, AmountsOf(i)) = Sum(S, AmountsOf(i)) + AmountsOf(i)[b]
  BY <1>2, <1>3, SumAdd
<1>6. Sum(S, AmountsOf(i)) \in Nat
  BY <1>2, <1>3, SumType
<1> QED BY <1>1, <1>2, <1>4, <1>5, <1>6

LEMMA HeldSame ==
  ASSUME NEW i \in Items, Holding(i)' = Holding(i),
         \A x \in Holding(i) : batch'[x].content = batch[x].content
  PROVE  Sum(Holding(i), AmountsOf(i))' = Sum(Holding(i), AmountsOf(i))
<1>1. \A x \in Holding(i) : AmountsOf(i)'[x] = AmountsOf(i)[x]
  BY DEF AmountsOf
<1> QED BY <1>1, SumSame

\* A confirmation and a reversal move an amount between the two balances.
Balanced(i) ==
  item[i] # NoItem =>
    /\ item[i].allocated = Sum(Holding(i), AmountsOf(i))
    /\ item[i].allocated + item[i].remaining = ItemGross[i]
    /\ item[i].state = "SETTLED" <=> item[i].remaining = 0
    /\ item[i].state = "PARTIALLY_ALLOCATED" <=> item[i].allocated > 0 /\ item[i].remaining > 0

LEMMA BalancesAreBalanced == BalancesFollowBatches <=> \A i \in Items : Balanced(i)
BY DEF BalancesFollowBatches, Balanced, AmountsOf

LEMMA ConfirmBalances ==
  ASSUME SettlementTyped, NEW i \in Items, Balanced(i), NEW u \in Users, NEW b \in Batches,
         ConfirmBatch(u, b)
  PROVE  Balanced(i)'
<1> DEFINE n == batch[b].content.amount[i]
<1>1. \A x \in Batches : batch'[x].content = batch[x].content
  BY ConfirmMoves
<1>2. b \notin Holding(i)
  BY ConfirmMoves DEF Holding
<1>3. CASE i \in batch[b].content.items
  <2>1. Holding(i)' = Holding(i) \cup {b}
    BY <1>1, <1>3, ConfirmMoves DEF Holding
  <2>2. /\ n \in Nat \ {0} /\ n <= item[i].remaining /\ item[i] # NoItem
        /\ item'[i] = AfterConfirmation(i, n)
    BY <1>3, ConfirmItems
  <2>3. Sum(Holding(i), AmountsOf(i))' = Sum(Holding(i), AmountsOf(i)) + n
    BY <1>1, <1>2, <2>1, <2>2, HeldMore, HoldingType
  <2>4. /\ item[i] \in Item /\ item[i].allocated \in Nat /\ item[i].remaining \in Nat
        /\ ItemGross[i] \in Nat \ {0}
    BY SettlementAssumption DEF SettlementTyped, Item
  <2>5. /\ item[i].allocated = Sum(Holding(i), AmountsOf(i))
        /\ item[i].allocated + item[i].remaining = ItemGross[i]
    BY <2>2 DEF Balanced
  <2>6. /\ item'[i].allocated = item[i].allocated + n
        /\ item'[i].remaining = item[i].remaining - n
        /\ item'[i].state = IF item[i].remaining = n THEN "SETTLED" ELSE "PARTIALLY_ALLOCATED"
    BY <2>2 DEF AfterConfirmation
  <2> HIDE DEF n
  <2>7. item'[i].state = "SETTLED" <=> item'[i].remaining = 0
    BY <2>2, <2>4, <2>6
  <2>8. item'[i].state = "PARTIALLY_ALLOCATED" <=> item'[i].allocated > 0 /\ item'[i].remaining > 0
    BY <2>2, <2>4, <2>6
  <2>9. item'[i].allocated + item'[i].remaining = ItemGross[i]
    BY <2>2, <2>4, <2>5, <2>6
  <2>10. item'[i].allocated = Sum(Holding(i), AmountsOf(i))'
    BY <2>3, <2>5, <2>6
  <2> QED BY <2>7, <2>8, <2>9, <2>10 DEF Balanced
<1>4. CASE i \notin batch[b].content.items
  <2>1. Holding(i)' = Holding(i)
    BY <1>1, <1>4, ConfirmMoves DEF Holding
  <2>2. item'[i] = item[i]
    BY <1>4, ConfirmItems
  <2>3. Sum(Holding(i), AmountsOf(i))' = Sum(Holding(i), AmountsOf(i))
    BY <1>1, <2>1, HeldSame, HoldingType
  <2> QED BY <2>2, <2>3 DEF Balanced
<1> QED BY <1>3, <1>4

LEMMA ReverseBalances ==
  ASSUME SettlementTyped, NEW i \in Items, Balanced(i), NEW u \in Users, NEW b \in Batches,
         NEW r \in Batches, ReverseBatch(u, b, r)
  PROVE  Balanced(i)'
<1> DEFINE n == batch[b].content.amount[i]
<1>1. \A x \in Batches \ {r} : batch'[x].content = batch[x].content
  BY ReverseMoves
<1>2. r \notin Holding(i) /\ r \notin Holding(i)'
  BY ReverseMoves, RowPresent DEF Holding
<1>3. CASE i \in batch[b].content.items
  <2>1. b \in Holding(i) /\ Holding(i)' = Holding(i) \ {b}
    BY <1>2, <1>3, ReverseMoves DEF Holding
  <2>2. /\ n \in Nat \ {0} /\ n <= item[i].allocated /\ item[i] # NoItem
        /\ item'[i] = AfterReversal(i, n)
    BY <1>3, ReverseItems
  <2>3. /\ Sum(Holding(i), AmountsOf(i)) = Sum(Holding(i), AmountsOf(i))' + n
        /\ Sum(Holding(i), AmountsOf(i))' \in Nat
    <3>1. \A x \in Holding(i) : batch'[x].content = batch[x].content
      BY <1>1, <1>2, HoldingType
    <3> QED BY <2>1, <3>1, HeldLess
  <2>4. /\ item[i] \in Item /\ item[i].allocated \in Nat /\ item[i].remaining \in Nat
        /\ ItemGross[i] \in Nat \ {0}
    BY SettlementAssumption DEF SettlementTyped, Item
  <2>5. /\ item[i].allocated = Sum(Holding(i), AmountsOf(i))
        /\ item[i].allocated + item[i].remaining = ItemGross[i]
    BY <2>2 DEF Balanced
  <2>6. /\ item'[i].allocated = item[i].allocated - n
        /\ item'[i].remaining = item[i].remaining + n
        /\ item'[i].state = IF item[i].allocated = n THEN "REOPENED_AFTER_REVERSAL"
                            ELSE "PARTIALLY_ALLOCATED"
    BY <2>2 DEF AfterReversal
  <2> HIDE DEF n
  <2>7. item'[i].state = "SETTLED" <=> item'[i].remaining = 0
    BY <2>2, <2>4, <2>6
  <2>8. item'[i].state = "PARTIALLY_ALLOCATED" <=> item'[i].allocated > 0 /\ item'[i].remaining > 0
    BY <2>2, <2>4, <2>6
  <2>9. item'[i].allocated + item'[i].remaining = ItemGross[i]
    BY <2>2, <2>4, <2>5, <2>6
  <2>10. item'[i].allocated = Sum(Holding(i), AmountsOf(i))'
    BY <2>2, <2>3, <2>4, <2>5, <2>6
  <2> QED BY <2>7, <2>8, <2>9, <2>10 DEF Balanced
<1>4. CASE i \notin batch[b].content.items
  <2>1. Holding(i)' = Holding(i)
    BY <1>1, <1>2, <1>4, ReverseMoves DEF Holding
  <2>2. item'[i] = item[i]
    BY <1>4, ReverseItems
  <2>3. Sum(Holding(i), AmountsOf(i))' = Sum(Holding(i), AmountsOf(i))
    <3>1. \A x \in Holding(i) : batch'[x].content = batch[x].content
      BY <1>1, <1>2, HoldingType
    <3> QED BY <2>1, <3>1, HeldSame
  <2> QED BY <2>2, <2>3 DEF Balanced
<1> QED BY <1>3, <1>4

LEMMA CreateBalances ==
  ASSUME SettlementTyped, NEW i \in Items, Balanced(i), NEW u \in Users, NEW b \in Batches,
         NEW r \in Batches \cup {NoBatch}, NEW c \in Proposals, CreateBatch(u, b, r, c)
  PROVE  Balanced(i)'
<1>1. /\ \A x \in Batches \ {b} : batch'[x] = batch[x]
      /\ batch[b].state # "CONFIRMED" /\ batch'[b].state # "CONFIRMED"
      /\ item' = item
  BY CreateMoves, RowPresent
<1>2. Holding(i)' = Holding(i)
  BY <1>1 DEF Holding
<1>3. \A x \in Holding(i) : batch'[x].content = batch[x].content
  BY <1>1 DEF Holding
<1>4. Sum(Holding(i), AmountsOf(i))' = Sum(Holding(i), AmountsOf(i))
  BY <1>2, <1>3, HeldSame
<1> QED BY <1>1, <1>4 DEF Balanced

-------------------------------------------------------------------------------
(* Versions and lineages.                                                  *)

Settled == {"CONFIRMED", "REVERSED"}

\* What a confirmation saw of its items is history.
SeenBefore ==
  \A b \in Batches : batch[b].state \in Settled =>
    \A i \in batch[b].content.items : batch[b].seen[i] < item[i].version

\* What is replaced is reversed, and replaced once.
ReplacedOnce ==
  /\ \A b \in Batches : batch[b] # NoRow /\ batch[b].replaces # NoBatch =>
       batch[b].replaces \in Batches /\ batch[batch[b].replaces].state = "REVERSED"
  /\ \A b, c \in Batches :
       /\ batch[b] # NoRow /\ batch[c] # NoRow
       /\ batch[b].replaces = batch[c].replaces /\ batch[b].replaces # NoBatch
       => b = c

\* A set of batches that has with each the one it replaces.
Closed(S) ==
  \A d \in S : batch[d] # NoRow /\ batch[d].replaces # NoBatch => batch[d].replaces \in S

LEMMA LineageIsLeast ==
  ASSUME SettlementTyped, NEW b \in Batches
  PROVE  /\ Lineage(b) \in SUBSET Batches /\ b \in Lineage(b)
         /\ ReplacedOnce => Closed(Lineage(b))
         /\ \A S \in SUBSET Batches : b \in S /\ Closed(S) => Lineage(b) \subseteq S
<1>1. Lineage(b) \in SUBSET Batches /\ b \in Lineage(b)
  BY DEF Lineage
<1>2. \A S \in SUBSET Batches : b \in S /\ Closed(S) => Lineage(b) \subseteq S
  BY DEF Lineage, Closed
<1>3. ASSUME ReplacedOnce,
             NEW d \in Lineage(b), batch[d] # NoRow, batch[d].replaces # NoBatch
      PROVE  batch[d].replaces \in Lineage(b)
  <2>1. d \in Batches /\ batch[d].replaces \in Batches
    BY <1>1, <1>3 DEF ReplacedOnce
  <2>2. ASSUME NEW S \in SUBSET Batches, b \in S,
               \A x \in S : batch[x] # NoRow /\ batch[x].replaces # NoBatch => batch[x].replaces \in S
        PROVE  batch[d].replaces \in S
    <3>1. d \in S
      BY <2>2 DEF Lineage
    <3> QED BY <1>3, <2>2, <3>1
  <2> QED BY <2>1, <2>2 DEF Lineage
<1> QED BY <1>1, <1>2, <1>3 DEF Closed

\* Two batches in force have no batch in common that they replace: their
\* lineages would have to meet in a batch that was replaced twice.
LEMMA LineagesApart ==
  ASSUME SettlementTyped, ReplacedOnce
  PROVE  OneInForcePerLineage
<1> SUFFICES ASSUME NEW b \in Batches, NEW c \in Batches, b # c,
                    batch[b].state = "CONFIRMED", batch[c].state = "CONFIRMED"
             PROVE  Lineage(b) \cap Lineage(c) = {}
  BY DEF OneInForcePerLineage
<1> DEFINE old == {d \in Batches : batch[d].state = "REVERSED"}
<1>1. \A x \in Batches : Lineage(x) \subseteq {x} \cup old
  <2> SUFFICES ASSUME NEW x \in Batches PROVE Lineage(x) \subseteq {x} \cup old
    OBVIOUS
  <2>1. Closed({x} \cup old)
    BY DEF Closed, ReplacedOnce
  <2> QED BY <2>1, LineageIsLeast
<1>2. c \notin Lineage(b)
  BY <1>1
<1> DEFINE T == Lineage(c) \ Lineage(b)
<1>3. ASSUME NEW d \in T, batch[d] # NoRow, batch[d].replaces # NoBatch
      PROVE  batch[d].replaces \in T
  <2> DEFINE p == batch[d].replaces
  <2>1. d \in Batches /\ p \in Batches /\ batch[p].state = "REVERSED"
    BY <1>3, LineageIsLeast DEF ReplacedOnce
  <2>2. p \in Lineage(c)
    BY <1>3, LineageIsLeast DEF Closed
  <2>3. ASSUME p \in Lineage(b) PROVE FALSE
    <3>1. \A e \in Lineage(b) : batch[e] # NoRow /\ batch[e].replaces # NoBatch => batch[e].replaces # p
      BY <1>3, <2>1, LineageIsLeast DEF ReplacedOnce
    <3>2. b \in Lineage(b) \ {p} /\ Lineage(b) \ {p} \in SUBSET Batches
      BY <2>1, LineageIsLeast
    <3>3. Closed(Lineage(b) \ {p})
      BY <3>1, LineageIsLeast DEF Closed
    <3> QED BY <2>3, <3>2, <3>3, LineageIsLeast
  <2> QED BY <2>2, <2>3
<1>4. T \in SUBSET Batches /\ c \in T /\ Closed(T)
  BY <1>2, <1>3, LineageIsLeast DEF Closed
<1>5. Lineage(c) \subseteq T
  BY <1>4, LineageIsLeast
<1> QED BY <1>5

LEMMA VersionsGrow ==
  ASSUME SettlementTyped, SettlementCommand, NEW i \in Items
  PROVE  /\ item[i].version \in Nat /\ item'[i].version \in Nat
         /\ item[i].version <= item'[i].version
<1>1. item[i] \in Item /\ item[i].version \in Nat
  BY DEF SettlementTyped, Item
<1>2. ASSUME NEW u \in Users, NEW b \in Batches, NEW r \in Batches \cup {NoBatch},
             NEW c \in Proposals, CreateBatch(u, b, r, c)
      PROVE  item'[i].version = item[i].version
  BY <1>2 DEF CreateBatch
<1>3. ASSUME NEW u \in Users, NEW b \in Batches, ConfirmBatch(u, b)
      PROVE  item'[i].version \in {item[i].version, item[i].version + 1}
  <2>1. CASE i \in batch[b].content.items
    <3>1. item'[i] = AfterConfirmation(i, batch[b].content.amount[i])
      BY <1>3, <2>1, ConfirmItems
    <3> QED BY <3>1 DEF AfterConfirmation
  <2>2. CASE i \notin batch[b].content.items
    <3>1. item'[i] = item[i]
      BY <1>3, <2>2, ConfirmItems
    <3> QED BY <3>1
  <2> QED BY <2>1, <2>2
<1>4. ASSUME NEW u \in Users, NEW b \in Batches, NEW r \in Batches, ReverseBatch(u, b, r)
      PROVE  item'[i].version \in {item[i].version, item[i].version + 1}
  <2>1. CASE i \in batch[b].content.items
    <3>1. item'[i] = AfterReversal(i, batch[b].content.amount[i])
      BY <1>4, <2>1, ReverseItems
    <3> QED BY <3>1 DEF AfterReversal
  <2>2. CASE i \notin batch[b].content.items
    <3>1. item'[i] = item[i]
      BY <1>4, <2>2, ReverseItems
    <3> QED BY <3>1
  <2> QED BY <2>1, <2>2
<1>5. item'[i].version \in {item[i].version, item[i].version + 1}
  BY <1>2, <1>3, <1>4 DEF SettlementCommand
<1> QED BY <1>1, <1>5

LEMMA SeenStep ==
  ASSUME SettlementTyped, SeenBefore, SettlementCommand
  PROVE  SeenBefore'
<1> SUFFICES ASSUME NEW x \in Batches, batch'[x].state \in Settled,
                    NEW i \in batch'[x].content.items
             PROVE  batch'[x].seen[i] < item'[i].version
  BY DEF SeenBefore
<1>0. SettlementTyped'
  BY SettlementTypedStep
<1>1. i \in Items /\ batch'[x].seen[i] \in Nat
  <2>1. batch'[x] \in Row /\ batch'[x] # NoRow
    BY <1>0 DEF SettlementTyped, NoRow, Settled
  <2>2. batch'[x].content.items \subseteq Items
    BY <2>1, ProposalType DEF Row
  <2>3. batch'[x].seen \in [batch'[x].content.items -> Nat]
    BY <1>0, <2>1 DEF SettlementTyped
  <2> QED BY <2>2, <2>3
<1>2. /\ item[i].version \in Nat /\ item'[i].version \in Nat
      /\ item[i].version <= item'[i].version
  BY <1>1, VersionsGrow
<1>3. ASSUME batch[x].state \in Settled, batch'[x].content = batch[x].content,
             batch'[x].seen = batch[x].seen
      PROVE  batch'[x].seen[i] < item'[i].version
  BY <1>1, <1>2, <1>3 DEF SeenBefore
<1>4. ASSUME NEW u \in Users, NEW b \in Batches, NEW r \in Batches \cup {NoBatch},
             NEW c \in Proposals, CreateBatch(u, b, r, c)
      PROVE  batch'[x].seen[i] < item'[i].version
  BY <1>3, <1>4, CreateMoves DEF Settled
<1>5. ASSUME NEW u \in Users, NEW b \in Batches, ConfirmBatch(u, b)
      PROVE  batch'[x].seen[i] < item'[i].version
  <2>1. CASE x = b
    <3>1. /\ item'[i] = AfterConfirmation(i, batch[b].content.amount[i])
          /\ item[i].version = batch[b].seen[i]
      <4>1. i \in batch[b].content.items
        BY <1>5, <2>1, ConfirmMoves
      <4> QED BY <1>1, <1>5, <4>1, ConfirmItems
    <3>2. item'[i].version = item[i].version + 1
      BY <3>1 DEF AfterConfirmation
    <3> QED BY <1>2, <1>5, <2>1, <3>1, <3>2, ConfirmMoves
  <2> QED BY <1>3, <1>5, <2>1, ConfirmMoves
<1>6. ASSUME NEW u \in Users, NEW b \in Batches, NEW r \in Batches, ReverseBatch(u, b, r)
      PROVE  batch'[x].seen[i] < item'[i].version
  <2>1. x # r
    BY <1>6, ReverseMoves DEF Settled
  <2> QED BY <1>3, <1>6, <2>1, ReverseMoves DEF Settled
<1> QED BY <1>4, <1>5, <1>6 DEF SettlementCommand

\* A second confirmation of one version would have to see what is history.
LEMMA VersionStep ==
  ASSUME SettlementTyped, SeenBefore, OneConfirmedPerVersion, SettlementCommand
  PROVE  OneConfirmedPerVersion'
<1> DEFINE Apart(x, y) == \A i \in batch'[x].content.items \cap batch'[y].content.items :
                            batch'[x].seen[i] # batch'[y].seen[i]
           Kept(x) == /\ batch[x].state \in Settled
                      /\ batch'[x].content = batch[x].content /\ batch'[x].seen = batch[x].seen
<1>1. ASSUME NEW x \in Batches, NEW y \in Batches, x # y, Kept(x), Kept(y)
      PROVE  Apart(x, y)
  BY <1>1 DEF OneConfirmedPerVersion, Settled
<1>2. ASSUME NEW u \in Users, NEW b \in Batches, ConfirmBatch(u, b),
             NEW x \in Batches, x # b, Kept(x)
      PROVE  Apart(x, b) /\ Apart(b, x)
  <2> SUFFICES ASSUME NEW i \in batch[x].content.items \cap batch[b].content.items
               PROVE  batch[x].seen[i] # batch[b].seen[i]
    BY <1>2, ConfirmMoves
  <2>1. i \in Items
    BY <1>2, ConfirmMoves, ProposalType DEF Row
  <2>2. item[i].version = batch[b].seen[i] /\ item[i].version \in Nat
    BY <1>2, <2>1, ConfirmItems, VersionsGrow
  <2>3. batch[x].seen[i] < item[i].version
    BY <1>2 DEF SeenBefore
  <2>4. batch[x].seen[i] \in Nat
    BY <1>2, RowPresent DEF SettlementTyped, Settled
  <2> QED BY <2>2, <2>3, <2>4
<1> SUFFICES ASSUME NEW x \in Batches, NEW y \in Batches, x # y,
                    batch'[x].state \in Settled, batch'[y].state \in Settled
             PROVE  Apart(x, y)
  BY DEF OneConfirmedPerVersion, Settled
<1>4. ASSUME NEW u \in Users, NEW b \in Batches, NEW r \in Batches \cup {NoBatch},
             NEW c \in Proposals, CreateBatch(u, b, r, c)
      PROVE  Kept(x) /\ Kept(y)
  BY <1>4, CreateMoves DEF Settled
<1>5. ASSUME NEW u \in Users, NEW b \in Batches, ConfirmBatch(u, b)
      PROVE  Apart(x, y)
  <2>1. (x # b => Kept(x)) /\ (y # b => Kept(y))
    BY <1>5, ConfirmMoves DEF Settled
  <2> HIDE DEF Kept, Apart
  <2> QED BY <1>1, <1>2, <1>5, <2>1
<1>6. ASSUME NEW u \in Users, NEW b \in Batches, NEW r \in Batches, ReverseBatch(u, b, r)
      PROVE  Kept(x) /\ Kept(y)
  <2>1. x # r /\ y # r
    BY <1>6, ReverseMoves DEF Settled
  <2> QED BY <1>6, <2>1, ReverseMoves DEF Settled
<1> HIDE DEF Kept, Apart
<1> QED BY <1>1, <1>4, <1>5, <1>6 DEF SettlementCommand

LEMMA ReplacedStep ==
  ASSUME SettlementTyped, ReplacedOnce, SettlementCommand
  PROVE  ReplacedOnce'
<1>1. ASSUME NEW u \in Users, NEW b \in Batches, NEW r \in Batches \cup {NoBatch},
             NEW c \in Proposals, CreateBatch(u, b, r, c)
      PROVE  ReplacedOnce'
  <2>1. /\ batch[b] = NoRow /\ batch'[b].replaces = r
        /\ \A x \in Batches \ {b} : batch'[x] = batch[x]
    <3>1. batch[b] = NoRow /\ batch' = [batch EXCEPT ![b] = InsertProposal(u, r, c)]
      BY <1>1 DEF CreateBatch
    <3>2. InsertProposal(u, r, c).replaces = r
      BY DEF InsertProposal
    <3> QED BY <3>1, <3>2 DEF SettlementTyped
  <2>2. r # NoBatch => /\ r \in Batches /\ batch[r].state = "REVERSED"
                       /\ \A x \in Batches : batch[x] # NoRow => batch[x].replaces # r
    BY <1>1 DEF CreateBatch, ValidateFacts, Replaceable
  <2>3. \A x \in Batches : batch[x].state = "REVERSED" => x # b /\ batch'[x].state = "REVERSED"
    BY <2>1, RowPresent
  <2> QED BY <2>1, <2>2, <2>3 DEF ReplacedOnce
<1>2. ASSUME NEW u \in Users, NEW b \in Batches, ConfirmBatch(u, b)
      PROVE  ReplacedOnce'
  <2>1. /\ batch'[b].replaces = batch[b].replaces /\ batch[b] # NoRow
        /\ batch[b].state \in {"MATCHED", "DISCREPANCY"}
        /\ \A x \in Batches \ {b} : batch'[x] = batch[x]
    BY <1>2, ConfirmMoves
  <2>2. \A x \in Batches : batch[x].state = "REVERSED" => x # b /\ batch'[x].state = "REVERSED"
    BY <2>1
  <2> QED BY <2>1, <2>2 DEF ReplacedOnce
<1>3. ASSUME NEW u \in Users, NEW b \in Batches, NEW r \in Batches, ReverseBatch(u, b, r)
      PROVE  ReplacedOnce'
  <2>1. /\ batch'[b].replaces = batch[b].replaces /\ batch[b] # NoRow
        /\ batch[r] = NoRow /\ r # b /\ batch'[r].replaces = NoBatch
        /\ batch'[b].state = "REVERSED"
        /\ \A x \in Batches \ {b, r} : batch'[x] = batch[x]
    BY <1>3, ReverseMoves
  <2>2. \A x \in Batches : batch[x].state = "REVERSED" => batch'[x].state = "REVERSED"
    BY <2>1, RowPresent
  <2> QED BY <2>1, <2>2 DEF ReplacedOnce
<1> QED BY <1>1, <1>2, <1>3 DEF SettlementCommand

-------------------------------------------------------------------------------
(* The account's movements.                                                *)

Recorded == {"CONFIRMED", "REVERSED", "REVERSAL"}

BankCredit(e) == e.type = "BANK_CREDIT"

\* The one movement of every batch that has any effect, and of no other.
EffectsOfBatches ==
  /\ \A e \in effect : batch[e.batch].state \in Recorded
  /\ \A e \in effect : BankCredit(e) => e.amount = batch[e.batch].content.actual
  /\ \A e, f \in effect : BankCredit(e) /\ BankCredit(f) /\ e.batch = f.batch => e = f
  /\ \A b \in Batches : batch[b].state \in Recorded =>
       \E e \in effect : BankCredit(e) /\ e.batch = b

\* Reversals and what they reverse come in pairs.
ReversalsPaired ==
  /\ \A r \in Batches : batch[r].state = "REVERSAL" =>
       /\ batch[r].of \in Batches /\ batch[batch[r].of].state = "REVERSED"
       /\ batch[batch[r].of].content = batch[r].content
  /\ \A r, s \in Batches :
       batch[r].state = "REVERSAL" /\ batch[s].state = "REVERSAL" /\ batch[r].of = batch[s].of
         => r = s
  /\ \A b \in Batches : batch[b].state = "REVERSED" =>
       \E r \in Batches : batch[r].state = "REVERSAL" /\ batch[r].of = b

\* The batches of an account in some states, and what they credit.
On(a, states) == {b \in Batches : batch[b].state \in states /\ batch[b].content.account = a}

Actual == [b \in Batches |-> batch[b].content.actual]

LEMMA OnType ==
  ASSUME SettlementTyped, NEW a, NEW states \in SUBSET Recorded
  PROVE  /\ IsFiniteSet(On(a, states)) /\ On(a, states) \subseteq Batches
         /\ \A b \in On(a, states) : Actual[b] \in Nat
<1>1. IsFiniteSet(On(a, states)) /\ On(a, states) \subseteq Batches
  BY SettlementAssumption, FS_Subset DEF On
<1>2. ASSUME NEW b \in On(a, states) PROVE Actual[b] \in Nat
  <2>1. b \in Batches /\ batch[b] \in Row
    BY RowPresent DEF On, Recorded
  <2> QED BY <2>1, ProposalType DEF Row, Actual
<1> QED BY <1>1, <1>2

\* The movements of batches in some states sum up to their amounts.
LEMMA CreditsAreActual ==
  ASSUME SettlementTyped, EffectsOfBatches, NEW a, NEW states \in SUBSET Recorded
  PROVE  Credits(a, states) = Sum(On(a, states), Actual)
<1> DEFINE credits == {e \in effect : /\ e.type = "BANK_CREDIT"
                                      /\ batch[e.batch].state \in states
                                      /\ batch[e.batch].content.account = a}
           amount == [e \in credits |-> e.amount]
           credit == [b \in On(a, states) |-> CHOOSE e \in effect : BankCredit(e) /\ e.batch = b]
<1>1. ASSUME NEW b \in On(a, states)
      PROVE  /\ credit[b] \in credits /\ credit[b].batch = b
             /\ amount[credit[b]] = Actual[b]
  <2>1. b \in Batches /\ batch[b].state \in states /\ batch[b].content.account = a
    BY DEF On
  <2>2. \E e \in effect : BankCredit(e) /\ e.batch = b
    BY <2>1 DEF EffectsOfBatches
  <2>3. credit[b] \in effect /\ BankCredit(credit[b]) /\ credit[b].batch = b
    BY <2>2
  <2> HIDE DEF credit
  <2>4. credit[b] \in credits
    BY <2>1, <2>3 DEF BankCredit
  <2>5. amount[credit[b]] = Actual[b]
    BY <2>1, <2>3, <2>4 DEF EffectsOfBatches, Actual
  <2> QED BY <2>3, <2>4, <2>5
<1>2. ASSUME NEW e \in credits PROVE e.batch \in On(a, states) /\ credit[e.batch] = e
  <2>1. e.batch \in On(a, states)
    BY DEF On, SettlementTyped, EffectRow
  <2>2. credit[e.batch] \in effect /\ BankCredit(credit[e.batch]) /\ credit[e.batch].batch = e.batch
    BY <1>1, <2>1 DEF BankCredit
  <2> HIDE DEF credit
  <2> QED BY <2>1, <2>2 DEF EffectsOfBatches, BankCredit
<1>3. credit \in Bijection(On(a, states), credits)
  <2>1. credit \in [On(a, states) -> credits]
    BY <1>1
  <2> HIDE DEF credit, credits
  <2>2. \A b, d \in On(a, states) : credit[b] = credit[d] => b = d
    BY <1>1
  <2>3. \A e \in credits : \E b \in On(a, states) : credit[b] = e
    BY <1>2
  <2> QED BY <2>1, <2>2, <2>3 DEF Bijection, Injection, Surjection, IsInjective
<1>4. \A b \in On(a, states) : Actual[b] \in Nat /\ amount[credit[b]] = Actual[b]
  BY <1>1, OnType
<1>5. Sum(credits, amount) = Sum(On(a, states), Actual)
  <2> HIDE DEF credit, credits, amount
  <2> QED BY <1>3, <1>4, OnType, SumImage
<1> QED BY <1>5 DEF Credits

\* What was reversed is worth its reversals.
LEMMA ReversalsBalance ==
  ASSUME SettlementTyped, ReversalsPaired, NEW a
  PROVE  Sum(On(a, {"REVERSAL"}), Actual) = Sum(On(a, {"REVERSED"}), Actual)
<1> DEFINE R == On(a, {"REVERSAL"})
           T == On(a, {"REVERSED"})
           reversed == [r \in R |-> batch[r].of]
<1>1. ASSUME NEW r \in R
      PROVE  reversed[r] \in T /\ Actual[reversed[r]] = Actual[r]
  BY DEF On, ReversalsPaired, Actual
<1>2. \A r, s \in R : reversed[r] = reversed[s] => r = s
  BY DEF On, ReversalsPaired
<1>3. ASSUME NEW b \in T PROVE \E r \in R : reversed[r] = b
  <2>1. b \in Batches /\ batch[b].state = "REVERSED" /\ batch[b].content.account = a
    BY DEF On
  <2>2. PICK r \in Batches : batch[r].state = "REVERSAL" /\ batch[r].of = b
    BY <2>1 DEF ReversalsPaired
  <2>3. r \in R
    BY <2>1, <2>2 DEF On, ReversalsPaired
  <2> QED BY <2>2, <2>3
<1>4. reversed \in [R -> T]
  BY <1>1
<1>5. reversed \in Bijection(R, T)
  <2> HIDE DEF reversed, R, T
  <2> QED BY <1>2, <1>3, <1>4 DEF Bijection, Injection, Surjection, IsInjective
<1>6. IsFiniteSet(R) /\ \A r \in R : Actual[r] \in Nat
  BY OnType DEF Recorded
<1> HIDE DEF reversed, R, T
<1>7. Sum(T, Actual) = Sum(R, Actual)
  BY <1>1, <1>5, <1>6, SumImage
<1> QED BY <1>7 DEF R, T

LEMMA MovementsBalance ==
  ASSUME SettlementTyped, EffectsOfBatches, ReversalsPaired
  PROVE  AccountFollowsBatches
<1> SUFFICES ASSUME NEW a \in BankAccounts
             PROVE  Credits(a, {"CONFIRMED", "REVERSED"})
                      = Credits(a, {"REVERSAL"})
                          + Sum(InForce(a), [b \in InForce(a) |-> batch[b].content.actual])
  BY DEF AccountFollowsBatches
<1> DEFINE C == On(a, {"CONFIRMED"})
           D == On(a, {"REVERSED"})
<1>1. On(a, {"CONFIRMED", "REVERSED"}) = C \cup D /\ C \cap D = {}
  BY DEF On
<1>2. IsFiniteSet(C) /\ IsFiniteSet(D) /\ \A b \in C \cup D : Actual[b] \in Nat
  BY OnType DEF Recorded
<1>3. Sum(InForce(a), [b \in InForce(a) |-> batch[b].content.actual]) = Sum(C, Actual)
  <2>1. InForce(a) = C
    BY DEF InForce, On
  <2>2. \A b \in C : [x \in C |-> batch[x].content.actual][b] = Actual[b]
    BY DEF On, Actual
  <2>3. Sum(C, [x \in C |-> batch[x].content.actual]) = Sum(C, Actual)
    BY <2>2, SumSame
  <2> QED BY <2>1, <2>3
<1>4. /\ Credits(a, {"CONFIRMED", "REVERSED"}) = Sum(On(a, {"CONFIRMED", "REVERSED"}), Actual)
      /\ Credits(a, {"REVERSAL"}) = Sum(On(a, {"REVERSAL"}), Actual)
  BY CreditsAreActual DEF Recorded
<1>5. Sum(On(a, {"REVERSAL"}), Actual) = Sum(D, Actual)
  BY ReversalsBalance
<1> HIDE DEF C, D
<1>6. Sum(C \cup D, Actual) = Sum(C, Actual) + Sum(D, Actual)
  BY <1>1, <1>2, SumDisjoint
<1>7. Sum(C, Actual) \in Nat /\ Sum(D, Actual) \in Nat
  BY <1>2, SumType
<1>8. Sum(C \cup D, Actual) = Sum(D, Actual) + Sum(C, Actual)
  BY <1>6, <1>7
<1> QED BY <1>1, <1>3, <1>4, <1>5, <1>8, Zenon

LEMMA EffectsStep ==
  ASSUME SettlementTyped, EffectsOfBatches, SettlementCommand
  PROVE  EffectsOfBatches'
<1>0. \A e \in effect : e.batch \in Batches
  BY DEF SettlementTyped, EffectRow
<1>1. ASSUME NEW u \in Users, NEW b \in Batches, NEW r \in Batches \cup {NoBatch},
             NEW c \in Proposals, CreateBatch(u, b, r, c)
      PROVE  EffectsOfBatches'
  <2>1. /\ batch[b].state \notin Recorded /\ batch'[b].state \notin Recorded
        /\ \A x \in Batches \ {b} : batch'[x] = batch[x]
        /\ effect' = effect
    <3>1. /\ batch[b] = NoRow /\ batch'[b].state \in {"MATCHED", "DISCREPANCY"}
          /\ \A x \in Batches \ {b} : batch'[x] = batch[x]
          /\ effect' = effect
      BY <1>1, CreateMoves
    <3>2. batch[b].state = "ABSENT"
      BY <3>1, RowPresent
    <3> QED BY <3>1, <3>2 DEF Recorded
  <2> QED BY <1>0, <2>1 DEF EffectsOfBatches, BankCredit
<1>2. ASSUME NEW u \in Users, NEW b \in Batches, ConfirmBatch(u, b)
      PROVE  EffectsOfBatches'
  <2> DEFINE own == Effect(b, "BANK_CREDIT", b, batch[b].content.actual)
  <2>1. /\ batch[b].state \notin Recorded /\ batch'[b].state \in Recorded
        /\ batch'[b].content = batch[b].content
        /\ \A x \in Batches \ {b} : batch'[x] = batch[x]
    BY <1>2, ConfirmMoves DEF Recorded
  <2>2. effect' = effect \cup Confirmation(b)
    BY <1>2 DEF ConfirmBatch
  <2>3. /\ own \in Confirmation(b) /\ BankCredit(own) /\ own.batch = b
        /\ own.amount = batch[b].content.actual
    BY DEF Confirmation, Effect, BankCredit
  <2>4. \A e \in Confirmation(b) : e.batch = b /\ (BankCredit(e) => e = own)
    BY DEF Confirmation, OptionalEvidence, Effect, BankCredit
  <2>5. \A e \in effect : e.batch # b
    BY <2>1 DEF EffectsOfBatches
  <2> HIDE DEF own
  <2>6. \A e \in effect' : batch'[e.batch].state \in Recorded
    BY <1>0, <2>1, <2>2, <2>4, <2>5 DEF EffectsOfBatches
  <2>7. \A e \in effect' : BankCredit(e) => e.amount = batch'[e.batch].content.actual
    BY <1>0, <2>1, <2>2, <2>3, <2>4, <2>5 DEF EffectsOfBatches
  <2>8. \A e, f \in effect' : BankCredit(e) /\ BankCredit(f) /\ e.batch = f.batch => e = f
    BY <2>2, <2>4, <2>5 DEF EffectsOfBatches
  <2>9. \A x \in Batches : batch'[x].state \in Recorded =>
          \E e \in effect' : BankCredit(e) /\ e.batch = x
    BY <2>1, <2>2, <2>3 DEF EffectsOfBatches
  <2> QED BY <2>6, <2>7, <2>8, <2>9 DEF EffectsOfBatches, BankCredit
<1>3. ASSUME NEW u \in Users, NEW b \in Batches, NEW r \in Batches, ReverseBatch(u, b, r)
      PROVE  EffectsOfBatches'
  <2>1. /\ batch[b].state = "CONFIRMED" /\ batch'[b].state \in Recorded
        /\ batch'[b].content = batch[b].content
        /\ batch[r].state \notin Recorded /\ batch'[r].state \in Recorded
        /\ batch'[r].content = batch[b].content /\ r # b
        /\ \A x \in Batches \ {b, r} : batch'[x] = batch[x]
    BY <1>3, ReverseMoves, RowPresent DEF Recorded
  <2>2. effect' = effect \cup Mirrored(r, b)
    BY <1>3 DEF ReverseBatch
  <2>3. ASSUME NEW e \in Mirrored(r, b)
        PROVE  \E m \in effect : /\ m.batch = b /\ m \in EffectRow
                                 /\ e = [m EXCEPT !.batch = r]
                                 /\ e.batch = r /\ e.amount = m.amount
                                 /\ BankCredit(e) <=> BankCredit(m)
    BY DEF Mirrored, EffectsOf, BankCredit, SettlementTyped, EffectRow
  <2>4. \A e \in effect : e.batch # r
    BY <2>1 DEF EffectsOfBatches
  <2>5. ASSUME NEW e \in effect'
        PROVE  /\ batch'[e.batch].state \in Recorded
               /\ BankCredit(e) => e.amount = batch'[e.batch].content.actual
    <3>1. CASE e \in effect
      BY <1>0, <2>1, <2>4, <3>1 DEF EffectsOfBatches
    <3>2. CASE e \in Mirrored(r, b)
      <4>1. PICK m \in effect : /\ m.batch = b /\ e.batch = r /\ e.amount = m.amount
                                /\ BankCredit(e) <=> BankCredit(m)
        BY <2>3, <3>2
      <4> QED BY <2>1, <4>1 DEF EffectsOfBatches
    <3> QED BY <2>2, <3>1, <3>2
  <2>6. ASSUME NEW e \in effect', NEW f \in effect', BankCredit(e), BankCredit(f),
               e.batch = f.batch
        PROVE  e = f
    <3>1. CASE e \in effect /\ f \in effect
      BY <2>6, <3>1 DEF EffectsOfBatches
    <3>2. CASE e \in Mirrored(r, b) /\ f \in Mirrored(r, b)
      <4>1. PICK m \in effect : /\ m.batch = b /\ e = [m EXCEPT !.batch = r]
                                /\ BankCredit(e) <=> BankCredit(m)
        BY <2>3, <3>2
      <4>2. PICK n \in effect : /\ n.batch = b /\ f = [n EXCEPT !.batch = r]
                                /\ BankCredit(f) <=> BankCredit(n)
        BY <2>3, <3>2
      <4>3. m = n
        BY <2>6, <4>1, <4>2 DEF EffectsOfBatches
      <4> QED BY <4>1, <4>2, <4>3
    <3>3. \A x \in Mirrored(r, b) : x.batch = r
      BY <2>3
    <3> QED BY <2>2, <2>4, <2>6, <3>1, <3>2, <3>3
  <2>7. ASSUME NEW x \in Batches, batch'[x].state \in Recorded
        PROVE  \E e \in effect' : BankCredit(e) /\ e.batch = x
    <3>1. CASE x # r
      BY <2>1, <2>2, <2>7, <3>1 DEF EffectsOfBatches, Recorded
    <3>2. CASE x = r
      <4>1. PICK m \in effect : BankCredit(m) /\ m.batch = b
        BY <2>1 DEF EffectsOfBatches, Recorded
      <4>2. [m EXCEPT !.batch = r] \in Mirrored(r, b)
        BY <4>1 DEF Mirrored, EffectsOf
      <4>3. m \in EffectRow
        BY DEF SettlementTyped
      <4>4. BankCredit([m EXCEPT !.batch = r]) /\ [m EXCEPT !.batch = r].batch = r
        BY <4>1, <4>3 DEF EffectRow, BankCredit
      <4> QED BY <2>2, <3>2, <4>2, <4>4
    <3> QED BY <3>1, <3>2
  <2> QED BY <2>5, <2>6, <2>7 DEF EffectsOfBatches, BankCredit
<1> QED BY <1>1, <1>2, <1>3 DEF SettlementCommand

LEMMA PairedStep ==
  ASSUME SettlementTyped, ReversalsPaired, SettlementCommand
  PROVE  ReversalsPaired'
<1>1. ASSUME NEW b \in Batches,
             batch[b].state \notin {"REVERSED", "REVERSAL"},
             batch'[b].state \notin {"REVERSED", "REVERSAL"},
             \A x \in Batches \ {b} : batch'[x] = batch[x]
      PROVE  ReversalsPaired'
  BY <1>1 DEF ReversalsPaired
<1>2. ASSUME NEW u \in Users, NEW b \in Batches, NEW r \in Batches \cup {NoBatch},
             NEW c \in Proposals, CreateBatch(u, b, r, c)
      PROVE  ReversalsPaired'
  BY <1>1, <1>2, CreateMoves, RowPresent
<1>3. ASSUME NEW u \in Users, NEW b \in Batches, ConfirmBatch(u, b)
      PROVE  ReversalsPaired'
  BY <1>1, <1>3, ConfirmMoves
<1>4. ASSUME NEW u \in Users, NEW b \in Batches, NEW r \in Batches, ReverseBatch(u, b, r)
      PROVE  ReversalsPaired'
  <2>1. /\ batch[b].state = "CONFIRMED" /\ batch'[b].state = "REVERSED"
        /\ batch'[b].content = batch[b].content
        /\ batch[r].state = "ABSENT" /\ batch'[r].state = "REVERSAL" /\ batch'[r].of = b
        /\ batch'[r].content = batch[b].content /\ r # b
        /\ \A x \in Batches \ {b, r} : batch'[x] = batch[x]
    BY <1>4, ReverseMoves, RowPresent
  <2>2. \A x \in Batches : batch[x].state = "REVERSAL" => batch[x].of \notin {b, r}
    BY <2>1 DEF ReversalsPaired
  <2>3. \A x \in Batches : batch'[x].state = "REVERSAL" =>
          /\ batch'[x].of \in Batches /\ batch'[batch'[x].of].state = "REVERSED"
          /\ batch'[batch'[x].of].content = batch'[x].content
    BY <2>1, <2>2 DEF ReversalsPaired
  <2>4. \A x, y \in Batches :
          batch'[x].state = "REVERSAL" /\ batch'[y].state = "REVERSAL" /\ batch'[x].of = batch'[y].of
            => x = y
    BY <2>1, <2>2 DEF ReversalsPaired
  <2>5. \A x \in Batches : batch'[x].state = "REVERSED" =>
          \E y \in Batches : batch'[y].state = "REVERSAL" /\ batch'[y].of = x
    BY <2>1, <2>2 DEF ReversalsPaired
  <2> QED BY <2>3, <2>4, <2>5 DEF ReversalsPaired
<1> QED BY <1>2, <1>3, <1>4 DEF SettlementCommand

LEMMA ItemsStep ==
  ASSUME SettlementTyped, ItemsOfBatches, SettlementCommand
  PROVE  /\ ItemsOfBatches'
         /\ \A i \in Items : item[i] = NoItem <=> item'[i] = NoItem
<1>0. \A x \in Batches : batch[x] # NoRow => batch[x].content.items \subseteq Items
  BY RowPresent, ProposalType DEF Row
<1>1. ASSUME NEW u \in Users, NEW b \in Batches, NEW r \in Batches \cup {NoBatch},
             NEW c \in Proposals, CreateBatch(u, b, r, c)
      PROVE  /\ ItemsOfBatches'
             /\ \A i \in Items : item[i] = NoItem <=> item'[i] = NoItem
  <2>1. \A i \in c.items : item[i] # NoItem
    BY <1>1 DEF CreateBatch, ValidateFacts, Fits, NoItem, Allocatable
  <2>2. /\ item' = item /\ batch'[b].content = c
        /\ \A x \in Batches \ {b} : batch'[x] = batch[x]
    <3>1. item' = item /\ batch' = [batch EXCEPT ![b] = InsertProposal(u, r, c)]
      BY <1>1 DEF CreateBatch
    <3>2. InsertProposal(u, r, c).content = c
      BY DEF InsertProposal
    <3> QED BY <3>1, <3>2 DEF SettlementTyped
  <2> QED BY <2>1, <2>2 DEF ItemsOfBatches
<1>2. ASSUME NEW u \in Users, NEW b \in Batches, ConfirmBatch(u, b)
      PROVE  /\ ItemsOfBatches'
             /\ \A i \in Items : item[i] = NoItem <=> item'[i] = NoItem
  <2>1. ASSUME NEW i \in Items PROVE item[i] = NoItem <=> item'[i] = NoItem
    BY <1>2, ConfirmItems DEF NoItem
  <2>2. /\ batch'[b].content = batch[b].content /\ batch[b] # NoRow
        /\ \A x \in Batches \ {b} : batch'[x] = batch[x]
    BY <1>2, ConfirmMoves
  <2> QED BY <1>0, <2>1, <2>2 DEF ItemsOfBatches
<1>3. ASSUME NEW u \in Users, NEW b \in Batches, NEW r \in Batches, ReverseBatch(u, b, r)
      PROVE  /\ ItemsOfBatches'
             /\ \A i \in Items : item[i] = NoItem <=> item'[i] = NoItem
  <2>1. ASSUME NEW i \in Items PROVE item[i] = NoItem <=> item'[i] = NoItem
    BY <1>3, ReverseItems DEF NoItem
  <2>2. /\ batch'[b].content = batch[b].content /\ batch[b] # NoRow
        /\ batch'[r].content = batch[b].content
        /\ \A x \in Batches \ {b, r} : batch'[x] = batch[x]
    BY <1>3, ReverseMoves
  <2> QED BY <1>0, <2>1, <2>2 DEF ItemsOfBatches
<1> QED BY <1>1, <1>2, <1>3 DEF SettlementCommand

\* What holds of settlements between the commands, whatever happens to receipts.
SettlementInv ==
  /\ SettlementTyped
  /\ ItemsOfBatches /\ \A i \in Items : Balanced(i)
  /\ SeenBefore /\ OneConfirmedPerVersion
  /\ ReplacedOnce /\ EffectsOfBatches /\ ReversalsPaired

LEMMA CreditedOnceFollows ==
  ASSUME SettlementInv
  PROVE  CreditedOnce
BY SettlementTypesFollow, BalancesAreBalanced, LineagesApart, MovementsBalance
   DEF SettlementInv, CreditedOnce

LEMMA SettlementStep ==
  ASSUME SettlementInv, SettlementCommand
  PROVE  SettlementInv'
<1>1. SettlementTyped' /\ ItemsOfBatches' /\ SeenBefore' /\ OneConfirmedPerVersion'
  BY SettlementTypedStep, ItemsStep, SeenStep, VersionStep DEF SettlementInv
<1>2. ReplacedOnce' /\ EffectsOfBatches' /\ ReversalsPaired'
  BY ReplacedStep, EffectsStep, PairedStep DEF SettlementInv
<1>3. ASSUME NEW i \in Items PROVE Balanced(i)'
  BY CreateBalances, ConfirmBalances, ReverseBalances DEF SettlementInv, SettlementCommand
<1> QED BY <1>1, <1>2, <1>3 DEF SettlementInv

-------------------------------------------------------------------------------
(* The rows of receipts.                                                   *)

Done == {"EXECUTED", "REVERSED"}

ReceiptRow ==
  [state: ReceiptStates, version: Nat, creator: Users \cup {NoUser},
   executor: Users \cup {NoUser}, form: Forms \cup {<<>>}, entered: Instants \cup {0},
   base: Seq(Nat), reversedBy: Receipts \cup {NoReceipt}, reverses: Receipts \cup {NoReceipt}]

AskedRow == [holders: SUBSET Users, required: Nat \ {0}, rules: SUBSET SeparationRules]

ActionRow ==
  [step: Nat, actor: Users, from: Users \cup {NoUser}, kind: {"APPROVED", "REJECTED"},
   reasoned: BOOLEAN]

ApprovalRow == [version: Nat, basis: Nat, steps: Seq(AskedRow), actions: SUBSET ActionRow]

ReceiptTyped ==
  /\ receipt \in [Receipts -> ReceiptRow]
  /\ approval \in [Receipts -> ApprovalRow]
  /\ \A r \in Receipts : IsFiniteSet(approval[r].actions)
  /\ cheque \in [Cheques -> {"ABSENT", "RECEIVED", "RETURNED"}]
  /\ rates \in SUBSET Rates
  /\ usable \in SUBSET (BankAccounts \cup Attachments \cup Cashboxes)

\* Which fields go with which state, and who reverses whom.
Shaped(r) ==
  /\ receipt[r].state = "ABSENT" => receipt[r] = AbsentReceipt
  /\ receipt[r].state # "ABSENT" => receipt[r].form \in Forms /\ receipt[r].creator \in Users
  /\ receipt[r].state \in Done => receipt[r].executor \in Users
  /\ receipt[r].state \notin Done => receipt[r].executor = NoUser /\ receipt[r].reverses = NoReceipt
  /\ receipt[r].state # "REVERSED" => receipt[r].reversedBy = NoReceipt
  /\ receipt[r].state = "REVERSED" =>
       /\ receipt[r].reverses = NoReceipt /\ receipt[r].reversedBy \in Receipts
       /\ receipt[receipt[r].reversedBy].reverses = r
  /\ receipt[r].reverses # NoReceipt =>
       /\ receipt[r].state = "EXECUTED" /\ receipt[r].reverses \in Receipts
       /\ receipt[receipt[r].reverses].state = "REVERSED"
       /\ receipt[receipt[r].reverses].reversedBy = r

LEMMA ReceiptTypesFollow ==
  ASSUME ReceiptTyped, SettlementTyped
  PROVE  ReceiptTypeOK
<1>1. ASSUME NEW r \in Receipts
      PROVE  /\ receipt[r].state \in ReceiptStates /\ receipt[r].version \in Nat
             /\ receipt[r].form \in Forms \cup {<<>>}
             /\ {receipt[r].creator, receipt[r].executor} \subseteq Users \cup {NoUser}
             /\ {receipt[r].reversedBy, receipt[r].reverses} \subseteq Receipts \cup {NoReceipt}
  <2>1. receipt[r] \in ReceiptRow
    BY DEF ReceiptTyped
  <2> QED BY <2>1 DEF ReceiptRow
<1>2. \A r \in Receipts : \A a \in approval[r].actions : a.step \in Nat /\ a.actor \in Users
  <2>1. \A r \in Receipts : approval[r] \in ApprovalRow
    BY DEF ReceiptTyped
  <2>2. \A row \in ApprovalRow : \A a \in row.actions : a.step \in Nat /\ a.actor \in Users
    BY DEF ApprovalRow, ActionRow
  <2> QED BY <2>1, <2>2
<1> QED BY <1>1, <1>2 DEF ReceiptTypeOK, ReceiptTyped, SettlementTyped

\* What is derived from the rate table is a natural amount.
LEMMA DerivedType ==
  ASSUME ReceiptTyped, NEW form \in Forms, NEW entered, Derivable(form, entered)
  PROVE  Derived(form, entered) \in Seq(Nat) /\ DOMAIN Derived(form, entered) = DOMAIN form
<1>1. form \in Seq(Lines)
  BY ReceiptAssumption
<1>2. ASSUME NEW n \in Nat, NEW d \in Nat \ {0}
      PROVE  RoundDivision(n, d) \in Nat
  <2>1. d \div 2 \in Nat
    OBVIOUS
  <2>2. \A m \in Nat : m \div d \in Nat
    OBVIOUS
  <2> QED BY <2>1, <2>2 DEF RoundDivision
<1>3. ASSUME NEW l \in Lines, Convertible(l, entered)
      PROVE  BaseAmount(l, entered) \in Nat
  <2>1. Fact[l].amount \in Nat
    BY ReceiptAssumption DEF ValidLine
  <2>2. CASE Fact[l].currency = BaseCurrency
    BY <2>1, <2>2 DEF BaseAmount
  <2>3. CASE Fact[l].currency # BaseCurrency
    <3> DEFINE latest == LatestRates(Fact[l].currency, entered)
               row == CHOOSE x \in latest : TRUE
    <3>1. latest # {}
      <4>1. Cardinality(latest) = 1
        BY <1>3, <2>3 DEF Convertible
      <4> HIDE DEF latest
      <4> QED BY <4>1, FS_EmptySet
    <3>2. row \in latest /\ latest \subseteq Rates
      BY <3>1 DEF LatestRates, ReceiptTyped
    <3>3. row.numerator \in Nat \ {0} /\ row.denominator \in Nat \ {0}
      <4> HIDE DEF row, latest
      <4> QED BY <3>2, ReceiptAssumption
    <3>4. BaseAmount(l, entered)
            = RoundDivision(Fact[l].amount * row.numerator, row.denominator)
      BY <2>3 DEF BaseAmount, DeriveTarget
    <3>5. \A m, n \in Nat : m * n \in Nat
      OBVIOUS
    <3> HIDE DEF row
    <3> QED BY <1>2, <2>1, <3>3, <3>4, <3>5
  <2> QED BY <2>2, <2>3
<1>4. \A n \in DOMAIN form : form[n] \in Lines /\ BaseAmount(form[n], entered) \in Nat
  BY <1>1, <1>3 DEF Derivable
<1>5. DOMAIN form = 1 .. Len(form) /\ Len(form) \in Nat
  BY <1>1
<1> QED BY <1>4, <1>5 DEF Derived

LEMMA TotalType ==
  ASSUME NEW base \in Seq(Nat)
  PROVE  Sum(DOMAIN base, base) \in Nat
<1>1. DOMAIN base = 1 .. Len(base) /\ Len(base) \in Int
  OBVIOUS
<1>2. IsFiniteSet(DOMAIN base)
  BY <1>1, FS_Interval
<1>3. \A n \in DOMAIN base : base[n] \in Nat
  OBVIOUS
<1> QED BY <1>2, <1>3, SumType

-------------------------------------------------------------------------------
(* What the commands on receipts do to the rows.                           *)

\* Only r's row changes.
OnlyRow(r) ==
  /\ receipt' \in [Receipts -> ReceiptRow]
  /\ \A x \in Receipts \ {r} : receipt'[x] = receipt[x]

\* Only r's snapshot changes.
OnlyApproval(r) ==
  /\ approval' \in [Receipts -> ApprovalRow] /\ IsFiniteSet(approval'[r].actions)
  /\ \A x \in Receipts \ {r} : approval'[x] = approval[x]

\* Between its states r's row keeps who made it and what it says.
Steady(r) ==
  /\ receipt'[r].creator = receipt[r].creator /\ receipt'[r].form = receipt[r].form
  /\ receipt'[r].base = receipt[r].base
  /\ receipt'[r].reverses = receipt[r].reverses

Unmoved == UNCHANGED <<recorded, cheque, rates, settlementVars>>

LEMMA AdvancedType ==
  ASSUME NEW row \in ReceiptRow, NEW state \in ReceiptStates
  PROVE  /\ Advanced(row, state) \in ReceiptRow
         /\ Advanced(row, state).state = state
         /\ Advanced(row, state).version = row.version + 1
         /\ Advanced(row, state).creator = row.creator
         /\ Advanced(row, state).executor = row.executor
         /\ Advanced(row, state).form = row.form
         /\ Advanced(row, state).base = row.base
         /\ Advanced(row, state).reversedBy = row.reversedBy
         /\ Advanced(row, state).reverses = row.reverses
<1> DEFINE next == Advanced(row, state)
<1>1. next = [row EXCEPT !.state = state, !.version = row.version + 1]
  BY DEF Advanced
<1>2. row.version + 1 \in Nat
  BY DEF ReceiptRow
<1>3. next \in ReceiptRow
  BY <1>1, <1>2 DEF ReceiptRow
<1>4. next.state = state /\ next.version = row.version + 1
  BY <1>1 DEF ReceiptRow
<1>5. next.creator = row.creator /\ next.executor = row.executor /\ next.form = row.form
  BY <1>1 DEF ReceiptRow
<1>6. /\ next.base = row.base /\ next.reversedBy = row.reversedBy
      /\ next.reverses = row.reverses
  BY <1>1 DEF ReceiptRow
<1> QED BY <1>3, <1>4, <1>5, <1>6

LEMMA AbsentType == AbsentReceipt \in ReceiptRow
BY DEF AbsentReceipt, ReceiptRow, ReceiptStates

LEMMA CreateDrafts ==
  ASSUME ReceiptTyped, NEW u \in Users, NEW r \in Receipts, NEW form \in Forms,
         NEW entered \in Instants, Create(u, r, form, entered)
  PROVE  /\ receipt[r] = AbsentReceipt
         /\ OnlyRow(r) /\ receipt'[r].state = "DRAFT"
         /\ receipt'[r].form = form /\ receipt'[r].creator = u
         /\ receipt'[r].executor = NoUser /\ receipt'[r].reverses = NoReceipt
         /\ receipt'[r].reversedBy = NoReceipt
         /\ approval' = approval /\ Unmoved
<1> DEFINE row == [AbsentReceipt EXCEPT !.state = "DRAFT", !.creator = u, !.form = form,
                     !.entered = entered, !.base = Derived(form, entered)]
<1>1. /\ receipt[r] = AbsentReceipt /\ Derivable(form, entered)
      /\ receipt' = [receipt EXCEPT ![r] = row]
      /\ approval' = approval /\ Unmoved
  BY DEF Create, Unmoved
<1>2. Derived(form, entered) \in Seq(Nat)
  BY <1>1, DerivedType
<1>3. /\ row \in ReceiptRow /\ row.state = "DRAFT" /\ row.form = form /\ row.creator = u
      /\ row.executor = NoUser /\ row.reverses = NoReceipt /\ row.reversedBy = NoReceipt
  BY <1>2 DEF AbsentReceipt, ReceiptRow, ReceiptStates
<1> HIDE DEF row
<1> QED BY <1>1, <1>3 DEF ReceiptTyped, OnlyRow

LEMMA ReplaceDrafts ==
  ASSUME ReceiptTyped, NEW u \in Users, NEW r \in Receipts, NEW form \in Forms,
         Replace(u, r, form)
  PROVE  /\ receipt[r].state = "DRAFT"
         /\ OnlyRow(r) /\ receipt'[r].state = "DRAFT" /\ receipt'[r].form = form
         /\ receipt'[r].creator = receipt[r].creator
         /\ receipt'[r].executor = receipt[r].executor
         /\ receipt'[r].reverses = receipt[r].reverses
         /\ receipt'[r].reversedBy = receipt[r].reversedBy
         /\ approval' = approval /\ Unmoved
<1> DEFINE base == Derived(form, receipt[r].entered)
           row == [receipt[r] EXCEPT !.form = form, !.version = @ + 1, !.base = base]
<1>1. /\ receipt[r].state = "DRAFT" /\ Derivable(form, receipt[r].entered)
      /\ receipt' = [receipt EXCEPT ![r] = row]
      /\ approval' = approval /\ Unmoved
  BY DEF Replace, Editable, Unmoved
<1>2. base \in Seq(Nat)
  BY <1>1, DerivedType
<1>3. receipt[r] \in ReceiptRow
  BY DEF ReceiptTyped
<1> HIDE DEF base
<1>4. row \in ReceiptRow
  <2>1. receipt[r].version + 1 \in Nat
    BY <1>3 DEF ReceiptRow
  <2> QED BY <1>2, <1>3, <2>1 DEF ReceiptRow
<1>5. /\ row.state = receipt[r].state /\ row.form = form
      /\ row.creator = receipt[r].creator /\ row.executor = receipt[r].executor
  BY <1>3 DEF ReceiptRow
<1>6. row.reverses = receipt[r].reverses /\ row.reversedBy = receipt[r].reversedBy
  BY <1>3 DEF ReceiptRow
<1> HIDE DEF row
<1> QED BY <1>1, <1>4, <1>5, <1>6 DEF ReceiptTyped, OnlyRow

\* What the policies ask.
LEMMA AskedType ==
  ASSUME NEW K, NEW policies \in [1 .. K -> Policies], K \in Nat
  PROVE  /\ StepsOfPolicies(policies) \in Seq(Seq(AskedRow))
         /\ Contextual(StepsOfPolicies(policies))
         /\ Composed(StepsOfPolicies(policies)) \in Seq(AskedRow)
         /\ DOMAIN StepsOfPolicies(policies) = 1 .. K
<1> DEFINE asked == StepsOfPolicies(policies)
<1>1. \A p \in Policies : Steps[p] \in Seq(AskedRow)
  BY ReceiptAssumption DEF AskedRow
<1>2. asked \in Seq(Seq(AskedRow)) /\ DOMAIN asked = 1 .. K
  BY <1>1 DEF StepsOfPolicies
<1> HIDE DEF asked
<1>3. Contextual(asked)
  BY <1>2, SequencesAreContextual
<1>4. Composed(asked) \in Seq(Nodes(asked))
  BY <1>3, ComposedGrows DEF Grown
<1>5. Nodes(asked) \in SUBSET AskedRow
  <2>1. \A k \in DOMAIN asked : asked[k] \in Seq(AskedRow)
    BY <1>2
  <2>2. \A k \in DOMAIN asked : \A i \in DOMAIN asked[k] : asked[k][i] \in AskedRow
    BY <2>1
  <2> QED BY <2>2 DEF Nodes, ElementsOf
<1>6. Composed(asked) \in Seq(AskedRow)
  BY <1>4, <1>5
<1> QED BY <1>2, <1>3, <1>6 DEF asked

LEMMA ContextsType ==
  ASSUME NEW form \in Forms
  PROVE  /\ IsFiniteSet(FirstLines(form)) /\ Cardinality(FirstLines(form)) \in Nat
         /\ FirstLines(form) \in SUBSET DOMAIN form
         /\ DOMAIN form = 1 .. Len(form) /\ Len(form) \in Nat
         /\ DOMAIN Contexts(form) = 1 .. Cardinality(FirstLines(form))
<1>1. DOMAIN form = 1 .. Len(form) /\ Len(form) \in Int /\ Len(form) \in Nat
  BY ReceiptAssumption
<1>2. IsFiniteSet(DOMAIN form)
  BY <1>1, FS_Interval
<1>3. FirstLines(form) \in SUBSET DOMAIN form
  BY DEF FirstLines
<1> QED BY <1>1, <1>2, <1>3, FS_Subset, FS_CardinalityType DEF Contexts

LEMMA SubmitMoves ==
  ASSUME ReceiptTyped, NEW u \in Users, NEW r \in Receipts, Shaped(r), Submit(u, r)
  PROVE  /\ receipt[r].state = "DRAFT" /\ receipt[r].form \in Forms /\ Revalidated(r)
         /\ OnlyRow(r) /\ Steady(r)
         /\ receipt'[r].state \in {"APPROVED", "APPROVAL_PENDING"}
         /\ receipt'[r].state = "APPROVED" => approval'[r].steps = <<>>
         /\ receipt'[r].version = receipt[r].version + 1
         /\ receipt'[r].executor = receipt[r].executor
         /\ receipt'[r].reversedBy = receipt[r].reversedBy
         /\ OnlyApproval(r) /\ Unmoved
         /\ approval'[r].version = receipt[r].version + 1
         /\ approval'[r].basis = TotalBase(r) /\ approval'[r].actions = {}
         /\ \E policies \in [DOMAIN Contexts(receipt[r].form) -> Policies] :
              /\ policies = PoliciesOf(r) /\ Composable(StepsOfPolicies(policies))
              /\ approval'[r].steps = Composed(StepsOfPolicies(policies))
<1>1. receipt[r].state = "DRAFT" /\ Revalidated(r) /\ Unmoved
  BY DEF Submit, Unmoved
<1>2. receipt[r] \in ReceiptRow /\ receipt[r].form \in Forms
  BY <1>1 DEF ReceiptTyped, Shaped
<1>3. PICK policies \in [DOMAIN Contexts(receipt[r].form) -> Policies] :
        /\ policies = PoliciesOf(r)
        /\ Composable(StepsOfPolicies(policies))
        /\ approval' = [approval EXCEPT ![r] =
             [version |-> receipt[r].version + 1, basis |-> TotalBase(r),
              steps |-> Composed(StepsOfPolicies(policies)), actions |-> {}]]
        /\ receipt' = [receipt EXCEPT ![r] =
             Advanced(receipt[r], IF Composed(StepsOfPolicies(policies)) = <<>>
                                  THEN "APPROVED" ELSE "APPROVAL_PENDING")]
  BY DEF Submit
<1> DEFINE steps == Composed(StepsOfPolicies(policies))
           state == IF steps = <<>> THEN "APPROVED" ELSE "APPROVAL_PENDING"
           row == Advanced(receipt[r], state)
           snapshot == [version |-> receipt[r].version + 1, basis |-> TotalBase(r),
                        steps |-> steps, actions |-> {}]
<1>4. steps \in Seq(AskedRow)
  BY <1>2, ContextsType, AskedType
<1>5. TotalBase(r) \in Nat /\ receipt[r].version + 1 \in Nat
  BY <1>2, TotalType DEF TotalBase, ReceiptRow
<1>6. /\ snapshot \in ApprovalRow /\ snapshot.version = receipt[r].version + 1
      /\ snapshot.basis = TotalBase(r) /\ snapshot.actions = {} /\ snapshot.steps = steps
      /\ IsFiniteSet(snapshot.actions)
  <2> HIDE DEF steps
  <2> QED BY <1>4, <1>5, FS_EmptySet DEF ApprovalRow
<1>7. /\ row \in ReceiptRow /\ row.state = state /\ row.version = receipt[r].version + 1
      /\ row.creator = receipt[r].creator /\ row.executor = receipt[r].executor
      /\ row.form = receipt[r].form /\ row.base = receipt[r].base
      /\ row.reversedBy = receipt[r].reversedBy /\ row.reverses = receipt[r].reverses
  <2> HIDE DEF steps
  <2> QED BY <1>2, AdvancedType DEF ReceiptStates
<1>8. approval' = [approval EXCEPT ![r] = snapshot] /\ receipt' = [receipt EXCEPT ![r] = row]
  BY <1>3
<1>9. state \in {"APPROVED", "APPROVAL_PENDING"} /\ (state = "APPROVED" => steps = <<>>)
  OBVIOUS
<1> HIDE DEF snapshot, row, state
<1>10. receipt'[r] = row /\ approval'[r] = snapshot
  BY <1>8 DEF ReceiptTyped
<1>11. OnlyRow(r) /\ OnlyApproval(r)
  BY <1>6, <1>7, <1>8 DEF ReceiptTyped, OnlyRow, OnlyApproval
<1>12. Steady(r)
  BY <1>7, <1>10 DEF Steady
<1> HIDE DEF steps
<1> QED BY <1>1, <1>2, <1>3, <1>6, <1>7, <1>9, <1>10, <1>11, <1>12 DEF steps

LEMMA ActionJoins ==
  ASSUME ReceiptTyped, NEW r \in Receipts, NEW i \in Nat, NEW u \in Users,
         NEW from \in Users \cup {NoUser}, NEW kind \in {"APPROVED", "REJECTED"},
         NEW reasoned \in BOOLEAN, approval' = WithAction(r, i, u, from, kind, reasoned)
  PROVE  /\ OnlyApproval(r)
         /\ approval'[r].version = approval[r].version /\ approval'[r].basis = approval[r].basis
         /\ approval'[r].steps = approval[r].steps
         /\ approval'[r].actions = approval[r].actions \cup
              {[step |-> i, actor |-> u, from |-> from, kind |-> kind, reasoned |-> reasoned]}
<1> DEFINE action == [step |-> i, actor |-> u, from |-> from, kind |-> kind, reasoned |-> reasoned]
           snapshot == [approval[r] EXCEPT !.actions = approval[r].actions \cup {action}]
<1>1. action \in ActionRow
  BY DEF ActionRow
<1>2. approval[r] \in ApprovalRow /\ IsFiniteSet(approval[r].actions)
  BY DEF ReceiptTyped
<1>3. approval' = [approval EXCEPT ![r] = snapshot]
  BY DEF WithAction
<1> HIDE DEF action
<1>4. IsFiniteSet(approval[r].actions \cup {action})
  BY <1>2, FS_AddElement
<1>5. /\ snapshot \in ApprovalRow /\ snapshot.version = approval[r].version
      /\ snapshot.basis = approval[r].basis /\ snapshot.steps = approval[r].steps
      /\ snapshot.actions = approval[r].actions \cup {action}
  BY <1>1, <1>2 DEF ApprovalRow
<1> HIDE DEF snapshot
<1>6. approval'[r] = snapshot
  BY <1>3 DEF ReceiptTyped
<1>7. OnlyApproval(r)
  BY <1>3, <1>4, <1>5 DEF OnlyApproval, ReceiptTyped
<1> QED BY <1>5, <1>6, <1>7 DEF action

\* The row moves on to another state, and keeps what it says.
LEMMA RowAdvances ==
  ASSUME ReceiptTyped, NEW r \in Receipts, NEW state \in ReceiptStates,
         receipt' = [receipt EXCEPT ![r] = Advanced(receipt[r], state)]
  PROVE  /\ OnlyRow(r) /\ Steady(r) /\ receipt'[r].state = state
         /\ receipt'[r].version = receipt[r].version + 1
         /\ receipt'[r].executor = receipt[r].executor
         /\ receipt'[r].reversedBy = receipt[r].reversedBy
<1> DEFINE row == Advanced(receipt[r], state)
<1>1. receipt[r] \in ReceiptRow
  BY DEF ReceiptTyped
<1>2. /\ row \in ReceiptRow /\ row.state = state /\ row.version = receipt[r].version + 1
      /\ row.creator = receipt[r].creator /\ row.executor = receipt[r].executor
      /\ row.form = receipt[r].form /\ row.base = receipt[r].base
      /\ row.reversedBy = receipt[r].reversedBy /\ row.reverses = receipt[r].reverses
  BY <1>1, AdvancedType
<1> HIDE DEF row
<1>3. receipt' = [receipt EXCEPT ![r] = row]
  BY DEF row
<1>4. receipt'[r] = row
  BY <1>3 DEF ReceiptTyped
<1>5. OnlyRow(r)
  BY <1>2, <1>3 DEF OnlyRow, ReceiptTyped
<1> QED BY <1>2, <1>4, <1>5 DEF Steady

LEMMA ApproveMoves ==
  ASSUME ReceiptTyped, NEW u \in Users, NEW r \in Receipts, NEW i \in StepNumbers(r),
         NEW from \in Users \cup {NoUser}, NEW reasoned \in BOOLEAN,
         Approve(u, r, i, from, reasoned)
  PROVE  /\ receipt[r].state = "APPROVAL_PENDING"
         /\ receipt'[r].state \in {"APPROVED", "APPROVAL_PENDING"}
         /\ receipt'[r].state = "APPROVED" =>
              /\ Cardinality(Approvers(r, i)) + 1 >= StepsAsked(r)[i].required
              /\ i = Len(StepsAsked(r))
         /\ OnlyRow(r) /\ Steady(r) /\ receipt'[r].version = receipt[r].version + 1
         /\ receipt'[r].executor = receipt[r].executor
         /\ receipt'[r].reversedBy = receipt[r].reversedBy
         /\ approval' = WithAction(r, i, u, from, "APPROVED", reasoned) /\ i \in Nat
         /\ Unmoved
<1> DEFINE state == IF Cardinality(Approvers(r, i)) + 1 >= StepsAsked(r)[i].required
                         /\ i = Len(StepsAsked(r))
                    THEN "APPROVED" ELSE "APPROVAL_PENDING"
<1>1. /\ receipt[r].state = "APPROVAL_PENDING"
      /\ receipt' = [receipt EXCEPT ![r] = Advanced(receipt[r], state)]
      /\ approval' = WithAction(r, i, u, from, "APPROVED", reasoned) /\ Unmoved
  BY DEF Approve, Unmoved
<1>2. /\ state \in {"APPROVED", "APPROVAL_PENDING"} /\ state \in ReceiptStates
      /\ state = "APPROVED" =>
           /\ Cardinality(Approvers(r, i)) + 1 >= StepsAsked(r)[i].required
           /\ i = Len(StepsAsked(r))
  BY DEF ReceiptStates
<1>3. i \in Nat
  BY DEF StepNumbers
<1> HIDE DEF state
<1> QED BY <1>1, <1>2, <1>3, RowAdvances

LEMMA RejectMoves ==
  ASSUME ReceiptTyped, NEW u \in Users, NEW r \in Receipts, NEW i \in StepNumbers(r),
         NEW from \in Users \cup {NoUser}, Reject(u, r, i, from)
  PROVE  /\ receipt[r].state = "APPROVAL_PENDING" /\ receipt'[r].state = "REJECTED"
         /\ OnlyRow(r) /\ Steady(r) /\ receipt'[r].version = receipt[r].version + 1
         /\ receipt'[r].executor = receipt[r].executor
         /\ receipt'[r].reversedBy = receipt[r].reversedBy
         /\ approval' = WithAction(r, i, u, from, "REJECTED", TRUE) /\ i \in Nat
         /\ Unmoved
<1>1. /\ receipt[r].state = "APPROVAL_PENDING"
      /\ receipt' = [receipt EXCEPT ![r] = Advanced(receipt[r], "REJECTED")]
      /\ approval' = WithAction(r, i, u, from, "REJECTED", TRUE) /\ Unmoved
  BY DEF Reject, Unmoved
<1>2. i \in Nat /\ "REJECTED" \in ReceiptStates
  BY DEF StepNumbers, ReceiptStates
<1> QED BY <1>1, <1>2, RowAdvances

LEMMA ReturnMoves ==
  ASSUME ReceiptTyped, NEW u \in Users, NEW r \in Receipts, NEW i \in StepNumbers(r),
         NEW from \in Users \cup {NoUser}, Return(u, r, i, from)
  PROVE  /\ receipt[r].state \in {"APPROVAL_PENDING", "APPROVED"}
         /\ receipt'[r].state = "DRAFT"
         /\ OnlyRow(r) /\ Steady(r)
         /\ receipt'[r].executor = receipt[r].executor
         /\ receipt'[r].reversedBy = receipt[r].reversedBy
         /\ OnlyApproval(r) /\ Unmoved
<1>1. /\ receipt[r].state \in {"APPROVAL_PENDING", "APPROVED"}
      /\ receipt' = [receipt EXCEPT ![r] = Advanced(receipt[r], "DRAFT")]
      /\ approval' = [approval EXCEPT ![r] = NoApproval] /\ Unmoved
  BY DEF Return, Unmoved
<1>2. NoApproval \in ApprovalRow /\ IsFiniteSet(NoApproval.actions)
  BY FS_EmptySet DEF NoApproval, ApprovalRow
<1>3. OnlyApproval(r)
  BY <1>1, <1>2 DEF OnlyApproval, ReceiptTyped
<1>4. "DRAFT" \in ReceiptStates
  BY DEF ReceiptStates
<1> QED BY <1>1, <1>3, <1>4, RowAdvances

LEMMA ExecuteMoves ==
  ASSUME ReceiptTyped, NEW u \in Users, NEW r \in Receipts, Execute(u, r)
  PROVE  /\ receipt[r].state = "APPROVED" /\ receipt'[r].state = "EXECUTED"
         /\ OnlyRow(r) /\ Steady(r) /\ receipt'[r].version = receipt[r].version + 1
         /\ receipt'[r].executor = u /\ receipt'[r].reversedBy = receipt[r].reversedBy
         /\ approval' = approval
         /\ cheque' \in [Cheques -> {"ABSENT", "RECEIVED", "RETURNED"}]
         /\ recorded' = recorded \cup
              {Effected(r, l, "INCOMING") : l \in ElementsOf(receipt[r].form)}
         /\ item' = [i \in Items |->
              IF i \in Collected(r, receipt[r].form) THEN Opened(i) ELSE item[i]]
         /\ UNCHANGED <<rates, batch, effect, usable>>
<1> DEFINE next == Advanced(receipt[r], "EXECUTED")
           row == MarkExecuted(receipt[r], u)
<1>1. /\ receipt[r].state = "APPROVED" /\ approval' = approval
      /\ receipt' = [receipt EXCEPT ![r] = row]
      /\ cheque' = [q \in Cheques |->
           IF q \in {Fact[l].anchor : l \in ElementsOf(receipt[r].form)} THEN "RECEIVED" ELSE cheque[q]]
      /\ recorded' = recorded \cup
              {Effected(r, l, "INCOMING") : l \in ElementsOf(receipt[r].form)}
      /\ item' = [i \in Items |->
              IF i \in Collected(r, receipt[r].form) THEN Opened(i) ELSE item[i]]
      /\ UNCHANGED <<rates, batch, effect, usable>>
  BY DEF Execute
<1>2. receipt[r] \in ReceiptRow /\ "EXECUTED" \in ReceiptStates
  BY DEF ReceiptTyped, ReceiptStates
<1>3. /\ next \in ReceiptRow /\ next.state = "EXECUTED" /\ next.version = receipt[r].version + 1
      /\ next.creator = receipt[r].creator /\ next.form = receipt[r].form
      /\ next.base = receipt[r].base /\ next.reversedBy = receipt[r].reversedBy
      /\ next.reverses = receipt[r].reverses
  BY <1>2, AdvancedType
<1>4. row = [next EXCEPT !.executor = u]
  BY DEF MarkExecuted
<1> HIDE DEF next, row
<1>5. row \in ReceiptRow
  BY <1>3, <1>4 DEF ReceiptRow
<1>6. /\ row.state = next.state /\ row.version = next.version /\ row.creator = next.creator
      /\ row.form = next.form /\ row.base = next.base
  BY <1>3, <1>4 DEF ReceiptRow
<1>7. row.reversedBy = next.reversedBy /\ row.reverses = next.reverses /\ row.executor = u
  BY <1>3, <1>4 DEF ReceiptRow
<1>8. receipt'[r] = row /\ OnlyRow(r)
  BY <1>1, <1>5 DEF ReceiptTyped, OnlyRow
<1>9. cheque' \in [Cheques -> {"ABSENT", "RECEIVED", "RETURNED"}]
  BY <1>1 DEF ReceiptTyped
<1> QED BY <1>1, <1>3, <1>6, <1>7, <1>8, <1>9 DEF Steady

LEMMA TakeBackMoves ==
  ASSUME ReceiptTyped, NEW u \in Users, NEW r \in Receipts, NEW v \in Receipts, Shaped(v),
         Reverse(u, r, v)
  PROVE  /\ receipt[r].state = "EXECUTED" /\ receipt[r].reverses = NoReceipt
         /\ receipt[v] = AbsentReceipt /\ receipt[v].state = "ABSENT" /\ v # r
         /\ u \notin PriorActors(r)
         /\ receipt' \in [Receipts -> ReceiptRow]
         /\ \A x \in Receipts \ {r, v} : receipt'[x] = receipt[x]
         /\ receipt'[r].state = "REVERSED" /\ receipt'[r].version = receipt[r].version + 1
         /\ receipt'[r].executor = receipt[r].executor /\ Steady(r)
         /\ receipt'[r].reversedBy = v
         /\ receipt'[v].state = "EXECUTED" /\ receipt'[v].creator = u
         /\ receipt'[v].executor = u /\ receipt'[v].form = receipt[r].form
         /\ receipt'[v].reverses = r /\ receipt'[v].reversedBy = receipt[r].reversedBy
         /\ recorded' = recorded \cup
              {Effected(v, l, "REVERSAL") : l \in ElementsOf(receipt[r].form)}
         /\ UNCHANGED <<approval, cheque, rates, settlementVars>>
<1> DEFINE next == Advanced(receipt[r], "REVERSED")
           row == CompleteReversal(receipt[r], v)
           back == CreateReversalReceipt(u, r)
<1>1. /\ receipt[r].state = "EXECUTED" /\ receipt[r].reverses = NoReceipt
      /\ receipt[v] = AbsentReceipt
      /\ u \notin PriorActors(r)
      /\ receipt' = [receipt EXCEPT ![r] = row, ![v] = back]
      /\ recorded' = recorded \cup
           {Effected(v, l, "REVERSAL") : l \in ElementsOf(receipt[r].form)}
      /\ UNCHANGED <<approval, cheque, rates, settlementVars>>
  BY DEF Reverse, IsReversalBlocked
<1>2. receipt[v].state = "ABSENT" /\ v # r
  BY <1>1 DEF AbsentReceipt
<1>3. receipt[r] \in ReceiptRow /\ "REVERSED" \in ReceiptStates
  BY DEF ReceiptTyped, ReceiptStates
<1>4. /\ next \in ReceiptRow /\ next.state = "REVERSED" /\ next.version = receipt[r].version + 1
      /\ next.creator = receipt[r].creator /\ next.form = receipt[r].form
      /\ next.base = receipt[r].base /\ next.executor = receipt[r].executor
      /\ next.reverses = receipt[r].reverses
  BY <1>3, AdvancedType
<1>5. row = [next EXCEPT !.reversedBy = v]
  BY DEF CompleteReversal
<1>6. back = [receipt[r] EXCEPT !.state = "EXECUTED", !.version = 1, !.creator = u,
                                !.executor = u, !.reverses = r]
  BY DEF CreateReversalReceipt
<1> HIDE DEF next, row, back
<1>7. row \in ReceiptRow
  BY <1>4, <1>5 DEF ReceiptRow
<1>8. /\ row.state = next.state /\ row.version = next.version /\ row.creator = next.creator
      /\ row.form = next.form /\ row.base = next.base
  BY <1>4, <1>5 DEF ReceiptRow
<1>9. row.reversedBy = v /\ row.reverses = next.reverses /\ row.executor = next.executor
  BY <1>4, <1>5 DEF ReceiptRow
<1>10. back \in ReceiptRow
  BY <1>3, <1>6 DEF ReceiptRow, ReceiptStates
<1>11. back.state = "EXECUTED" /\ back.creator = u /\ back.executor = u
  BY <1>3, <1>6 DEF ReceiptRow
<1>12. back.form = receipt[r].form /\ back.reverses = r /\ back.reversedBy = receipt[r].reversedBy
  BY <1>3, <1>6 DEF ReceiptRow
<1>13. receipt'[r] = row /\ receipt'[v] = back
  BY <1>1, <1>2 DEF ReceiptTyped
<1>14. /\ receipt' \in [Receipts -> ReceiptRow]
       /\ \A x \in Receipts \ {r, v} : receipt'[x] = receipt[x]
  BY <1>1, <1>2, <1>7, <1>10 DEF ReceiptTyped
<1>15. Steady(r)
  BY <1>4, <1>8, <1>9, <1>13 DEF Steady
<1> QED BY <1>1, <1>2, <1>4, <1>8, <1>9, <1>11, <1>12, <1>13, <1>14, <1>15

\* The commands before an execution.
QuietCommand(r) ==
  \/ Act(r)
  \/ \E u \in Users :
       \/ \E form \in Forms : Replace(u, r, form)
       \/ \E form \in Forms, entered \in Instants : Create(u, r, form, entered)
       \/ Submit(u, r)

Quiet(r) ==
  /\ receipt[r].state \notin Done /\ receipt[r].reverses = NoReceipt
  /\ receipt'[r].state \notin Done \cup {"ABSENT"}
  /\ receipt'[r].form \in Forms /\ receipt'[r].creator \in Users
  /\ receipt'[r].executor = NoUser /\ receipt'[r].reverses = NoReceipt
  /\ receipt'[r].reversedBy = NoReceipt
  /\ OnlyRow(r) /\ OnlyApproval(r) /\ Unmoved

LEMMA QuietMoves ==
  ASSUME ReceiptTyped, NEW r \in Receipts, Shaped(r), QuietCommand(r)
  PROVE  Quiet(r)
<1>0. ASSUME approval' = approval PROVE OnlyApproval(r)
  BY <1>0 DEF OnlyApproval, ReceiptTyped
<1>1. ASSUME NEW u \in Users, NEW form \in Forms, NEW entered \in Instants,
             Create(u, r, form, entered)
      PROVE  Quiet(r)
  <2>1. /\ receipt[r].state = "ABSENT" /\ receipt[r].reverses = NoReceipt
    BY <1>1, CreateDrafts DEF AbsentReceipt
  <2> QED BY <1>0, <1>1, <2>1, CreateDrafts DEF Quiet, Done
<1>2. ASSUME NEW u \in Users, NEW form \in Forms, Replace(u, r, form)
      PROVE  Quiet(r)
  BY <1>0, <1>2, ReplaceDrafts DEF Quiet, Done, Shaped
<1>3. ASSUME NEW u \in Users, Submit(u, r)
      PROVE  Quiet(r)
  BY <1>3, SubmitMoves DEF Quiet, Done, Shaped, Steady
<1>4. ASSUME NEW u \in Users, NEW i \in StepNumbers(r), NEW from \in Users \cup {NoUser},
             NEW reasoned \in BOOLEAN, Approve(u, r, i, from, reasoned)
      PROVE  Quiet(r)
  <2>1. OnlyApproval(r)
    BY <1>4, ApproveMoves, ActionJoins
  <2> QED BY <1>4, <2>1, ApproveMoves DEF Quiet, Done, Shaped, Steady
<1>5. ASSUME NEW u \in Users, NEW i \in StepNumbers(r), NEW from \in Users \cup {NoUser},
             Reject(u, r, i, from)
      PROVE  Quiet(r)
  <2>1. OnlyApproval(r)
    <3>1. approval' = WithAction(r, i, u, from, "REJECTED", TRUE) /\ i \in Nat
      BY <1>5, RejectMoves
    <3> QED BY <1>5, <3>1, ActionJoins
  <2>2. /\ receipt[r].state = "APPROVAL_PENDING" /\ receipt'[r].state = "REJECTED"
        /\ OnlyRow(r) /\ Steady(r) /\ Unmoved
        /\ receipt'[r].executor = receipt[r].executor
        /\ receipt'[r].reversedBy = receipt[r].reversedBy
    BY <1>5, RejectMoves
  <2> QED BY <2>1, <2>2 DEF Quiet, Done, Shaped, Steady
<1>6. ASSUME NEW u \in Users, NEW i \in StepNumbers(r), NEW from \in Users \cup {NoUser},
             Return(u, r, i, from)
      PROVE  Quiet(r)
  BY <1>6, ReturnMoves DEF Quiet, Done, Shaped, Steady
<1> QED BY <1>1, <1>2, <1>3, <1>4, <1>5, <1>6 DEF QuietCommand, Act

\* What others do leaves the receipts alone.
OtherSteps ==
  \/ \E row \in Rates : ApproveRate(row)
  \/ \E q \in Cheques : ReturnCheque(q)
  \/ \E x \in BankAccounts \cup Attachments \cup Cashboxes : Withdraw(x)

LEMMA OthersMove ==
  ASSUME ReceiptTyped, OtherSteps
  PROVE  ReceiptTyped' /\ UNCHANGED <<receipt, approval, recorded, item, batch, effect>>
<1>1. ASSUME NEW row \in Rates, ApproveRate(row)
      PROVE  ReceiptTyped' /\ UNCHANGED <<receipt, approval, recorded, item, batch, effect>>
  BY <1>1 DEF ApproveRate, ReceiptTyped, settlementVars
<1>2. ASSUME NEW q \in Cheques, ReturnCheque(q)
      PROVE  ReceiptTyped' /\ UNCHANGED <<receipt, approval, recorded, item, batch, effect>>
  BY <1>2 DEF ReturnCheque, ReceiptTyped, settlementVars
<1>3. ASSUME NEW x \in BankAccounts \cup Attachments \cup Cashboxes, Withdraw(x)
      PROVE  ReceiptTyped' /\ UNCHANGED <<receipt, approval, recorded, item, batch, effect>>
  BY <1>3 DEF Withdraw, ReceiptTyped, receiptVars
<1> QED BY <1>1, <1>2, <1>3 DEF OtherSteps

\* Every step is one of these.
LEMMA ReceiptSteps ==
  ASSUME [ReceiptNext]_receiptAllVars
  PROVE  \/ \E r \in Receipts : QuietCommand(r)
         \/ \E r \in Receipts, u \in Users : Execute(u, r)
         \/ \E r \in Receipts, u \in Users, v \in Receipts : Reverse(u, r, v)
         \/ SettlementCommand /\ UNCHANGED receiptVars
         \/ OtherSteps
         \/ UNCHANGED receiptAllVars
BY DEF ReceiptNext, ReceiptCommand, QuietCommand, OtherSteps

LEMMA ReceiptTypedStep ==
  ASSUME ReceiptTyped, \A r \in Receipts : Shaped(r), [ReceiptNext]_receiptAllVars
  PROVE  ReceiptTyped'
<1>1. ASSUME NEW r \in Receipts, QuietCommand(r) PROVE ReceiptTyped'
  <2>1. Quiet(r)
    BY <1>1, QuietMoves
  <2> QED BY <2>1 DEF Quiet, OnlyRow, OnlyApproval, Unmoved, settlementVars, ReceiptTyped
<1>2. ASSUME NEW r \in Receipts, NEW u \in Users, Execute(u, r) PROVE ReceiptTyped'
  BY <1>2, ExecuteMoves DEF OnlyRow, ReceiptTyped
<1>3. ASSUME NEW r \in Receipts, NEW u \in Users, NEW v \in Receipts, Reverse(u, r, v)
      PROVE  ReceiptTyped'
  BY <1>3, TakeBackMoves DEF settlementVars, ReceiptTyped
<1>4. CASE SettlementCommand /\ UNCHANGED receiptVars
  <2>1. usable' = usable
    BY <1>4 DEF SettlementCommand, CreateBatch, ConfirmBatch, ReverseBatch
  <2> QED BY <1>4, <2>1 DEF receiptVars, ReceiptTyped
<1>5. CASE UNCHANGED receiptAllVars
  BY <1>5 DEF receiptAllVars, receiptVars, settlementVars, ReceiptTyped
<1> QED BY <1>1, <1>2, <1>3, <1>4, <1>5, ReceiptSteps, OthersMove

LEMMA ShapedStep ==
  ASSUME ReceiptTyped, \A r \in Receipts : Shaped(r), [ReceiptNext]_receiptAllVars,
         NEW x \in Receipts
  PROVE  Shaped(x)'
<1>0. ASSUME receipt' = receipt PROVE Shaped(x)'
  BY <1>0 DEF Shaped
<1>1. ASSUME NEW r \in Receipts, QuietCommand(r) PROVE Shaped(x)'
  <2>1. Quiet(r)
    BY <1>1, QuietMoves
  <2>2. CASE x = r
    BY <2>1, <2>2 DEF Quiet, Shaped, Done
  <2>3. CASE x # r
    <3>1. receipt'[x] = receipt[x] /\ Shaped(x)
      BY <2>1, <2>3 DEF Quiet, OnlyRow
    <3>2. ASSUME NEW y \in Receipts, receipt[y].state = "REVERSED" \/ receipt[y].reverses # NoReceipt
          PROVE  receipt'[y] = receipt[y]
      BY <2>1, <3>2 DEF Quiet, OnlyRow, Done
    <3> QED BY <3>1, <3>2, ReceiptAssumption DEF Shaped
  <2> QED BY <2>2, <2>3
<1>2. ASSUME NEW r \in Receipts, NEW u \in Users, Execute(u, r) PROVE Shaped(x)'
  <2>1. /\ receipt[r].state = "APPROVED" /\ receipt'[r].state = "EXECUTED" /\ Shaped(r)
        /\ \A y \in Receipts \ {r} : receipt'[y] = receipt[y]
        /\ Steady(r) /\ receipt'[r].executor = u /\ receipt'[r].reversedBy = receipt[r].reversedBy
    BY <1>2, ExecuteMoves DEF OnlyRow
  <2>2. CASE x = r
    BY <2>1, <2>2 DEF Shaped, Done, Steady
  <2>3. CASE x # r
    <3>1. receipt'[x] = receipt[x] /\ Shaped(x)
      BY <2>1, <2>3
    <3>2. ASSUME NEW y \in Receipts, receipt[y].state = "REVERSED" \/ receipt[y].reverses # NoReceipt
          PROVE  receipt'[y] = receipt[y]
      BY <2>1, <3>2 DEF Shaped, Done
    <3> QED BY <3>1, <3>2, ReceiptAssumption DEF Shaped
  <2> QED BY <2>2, <2>3
<1>3. ASSUME NEW r \in Receipts, NEW u \in Users, NEW v \in Receipts, Reverse(u, r, v)
      PROVE  Shaped(x)'
  <2>1. /\ receipt[r].state = "EXECUTED" /\ receipt[r].reverses = NoReceipt /\ Shaped(r)
        /\ receipt[v].state = "ABSENT" /\ v # r /\ Shaped(v)
        /\ \A y \in Receipts \ {r, v} : receipt'[y] = receipt[y]
        /\ receipt'[r].state = "REVERSED" /\ Steady(r) /\ receipt'[r].reversedBy = v
        /\ receipt'[r].executor = receipt[r].executor
        /\ receipt'[v].state = "EXECUTED" /\ receipt'[v].creator = u
        /\ receipt'[v].executor = u /\ receipt'[v].form = receipt[r].form
        /\ receipt'[v].reverses = r /\ receipt'[v].reversedBy = receipt[r].reversedBy
    BY <1>3, TakeBackMoves
  <2>2. CASE x = r
    BY <2>1, <2>2, ReceiptAssumption DEF Shaped, Done, Steady
  <2>3. CASE x = v
    BY <2>1, <2>3, ReceiptAssumption DEF Shaped, Done
  <2>4. CASE x \notin {r, v}
    <3>1. receipt'[x] = receipt[x] /\ Shaped(x)
      BY <2>1, <2>4
    <3>2. ASSUME receipt[x].state = "REVERSED"
          PROVE  LET y == receipt[x].reversedBy IN receipt'[y].reverses = x
      BY <2>1, <3>1, <3>2, ReceiptAssumption DEF Shaped, Done
    <3>3. ASSUME receipt[x].reverses # NoReceipt
          PROVE  LET y == receipt[x].reverses
                 IN receipt'[y].state = "REVERSED" /\ receipt'[y].reversedBy = x
      BY <2>1, <3>1, <3>3, ReceiptAssumption DEF Shaped, Done
    <3> QED BY <3>1, <3>2, <3>3 DEF Shaped
  <2> QED BY <2>2, <2>3, <2>4
<1>4. CASE UNCHANGED receiptVars
  BY <1>0, <1>4 DEF receiptVars
<1>5. CASE OtherSteps
  BY <1>0, <1>5, OthersMove
<1> QED BY <1>1, <1>2, <1>3, <1>4, <1>5, ReceiptSteps DEF receiptAllVars

-------------------------------------------------------------------------------
(* What a receipt brings, and what settlements make of it.                 *)

\* The first three parts of LinesAreEffected; the last follows from the shape.
Brought(r) ==
  LET done == receipt[r].state \in Done
      original == receipt[r].reverses = NoReceipt
  IN /\ EffectedLines(r, "INCOMING") = LinesIf(done /\ original, r)
     /\ EffectedLines(r, "REVERSAL") = LinesIf(done /\ ~original, r)
     /\ {i \in Items : i[1] = r /\ item[i] # NoItem}
          = IF done /\ original THEN Collected(r, receipt[r].form) ELSE {}

LEMMA LinesFollow ==
  ASSUME \A r \in Receipts : Brought(r) /\ Shaped(r)
  PROVE  LinesAreEffected
<1> SUFFICES ASSUME NEW r \in Receipts
             PROVE  receipt[r].state = "REVERSED" <=>
                      \E v \in Receipts : receipt[v].reverses = r /\ receipt[r].reversedBy = v
  BY DEF LinesAreEffected, Brought, Done
<1> QED BY ReceiptAssumption DEF Shaped

\* The lines recorded for one receipt join those it has, and no others.
LEMMA RecordedMore ==
  ASSUME NEW r, NEW L, NEW direction,
         recorded' = recorded \cup {Effected(r, l, direction) : l \in L}
  PROVE  /\ EffectedLines(r, direction)' = EffectedLines(r, direction) \cup L
         /\ \A x, d : x # r \/ d # direction => EffectedLines(x, d)' = EffectedLines(x, d)
<1>1. \A l : /\ Effected(r, l, direction).receipt = r /\ Effected(r, l, direction).line = l
             /\ Effected(r, l, direction).direction = direction
  BY DEF Effected
<1>2. EffectedLines(r, direction)' = EffectedLines(r, direction) \cup L
  <2>1. ASSUME NEW l \in L PROVE l \in EffectedLines(r, direction)'
    <3>1. Effected(r, l, direction) \in recorded'
      OBVIOUS
    <3> QED BY <1>1, <3>1 DEF EffectedLines
  <2>2. EffectedLines(r, direction) \subseteq EffectedLines(r, direction)'
    BY DEF EffectedLines
  <2>3. ASSUME NEW l \in EffectedLines(r, direction)', l \notin L
        PROVE  l \in EffectedLines(r, direction)
    <3>1. PICK e \in recorded' : e.receipt = r /\ e.direction = direction /\ e.line = l
      BY DEF EffectedLines
    <3>2. e \in recorded
      BY <1>1, <2>3, <3>1
    <3> QED BY <3>1, <3>2 DEF EffectedLines
  <2> QED BY <2>1, <2>2, <2>3
<1>3. ASSUME NEW x, NEW d, x # r \/ d # direction
      PROVE  EffectedLines(x, d)' = EffectedLines(x, d)
  <2>1. \A e \in recorded' : e.receipt = x /\ e.direction = d => e \in recorded
    BY <1>1, <1>3
  <2> QED BY <2>1 DEF EffectedLines
<1> QED BY <1>2, <1>3

\* A receipt that stays as it is keeps what it brought.
LEMMA BroughtKept ==
  ASSUME NEW x \in Receipts, Brought(x),
         receipt'[x].state \in Done <=> receipt[x].state \in Done,
         receipt[x].state \in Done => receipt'[x].form = receipt[x].form,
         receipt'[x].reverses = receipt[x].reverses,
         \A d : EffectedLines(x, d)' = EffectedLines(x, d),
         \A i \in Items : i[1] = x => (item'[i] = NoItem <=> item[i] = NoItem)
  PROVE  Brought(x)'
<1>1. {i \in Items : i[1] = x /\ item'[i] # NoItem} = {i \in Items : i[1] = x /\ item[i] # NoItem}
  OBVIOUS
<1>2. /\ EffectedLines(x, "INCOMING")' = EffectedLines(x, "INCOMING")
      /\ EffectedLines(x, "REVERSAL")' = EffectedLines(x, "REVERSAL")
  OBVIOUS
<1> QED BY <1>1, <1>2 DEF Brought, LinesIf

LEMMA BroughtStep ==
  ASSUME ReceiptTyped, \A r \in Receipts : Shaped(r) /\ Brought(r), SettlementInv,
         [ReceiptNext]_receiptAllVars, NEW x \in Receipts
  PROVE  Brought(x)'
<1>0. Brought(x) /\ Shaped(x)
  OBVIOUS
<1>1. ASSUME NEW r \in Receipts, QuietCommand(r) PROVE Brought(x)'
  <2>1. Quiet(r)
    BY <1>1, QuietMoves
  <2>2. recorded' = recorded /\ item' = item
    BY <2>1 DEF Quiet, Unmoved, settlementVars
  <2>3. \A d : EffectedLines(x, d)' = EffectedLines(x, d)
    BY <2>2 DEF EffectedLines
  <2>4. /\ receipt'[x].state \in Done <=> receipt[x].state \in Done
        /\ receipt[x].state \in Done => receipt'[x].form = receipt[x].form
        /\ receipt'[x].reverses = receipt[x].reverses
    BY <2>1 DEF Quiet, OnlyRow
  <2> QED BY <1>0, <2>2, <2>3, <2>4, BroughtKept
<1>2. ASSUME NEW r \in Receipts, NEW u \in Users, Execute(u, r) PROVE Brought(x)'
  <2> DEFINE L == ElementsOf(receipt[r].form)
             C == Collected(r, receipt[r].form)
  <2>1. /\ receipt[r].state = "APPROVED" /\ receipt'[r].state = "EXECUTED" /\ Shaped(r)
        /\ \A y \in Receipts \ {r} : receipt'[y] = receipt[y]
        /\ receipt'[r].form = receipt[r].form /\ receipt'[r].reverses = receipt[r].reverses
        /\ recorded' = recorded \cup {Effected(r, l, "INCOMING") : l \in L}
        /\ item' = [i \in Items |-> IF i \in C THEN Opened(i) ELSE item[i]]
    BY <1>2, ExecuteMoves DEF OnlyRow, Steady
  <2>2. \A i \in C : i[1] = r
    BY DEF Collected
  <2>3. /\ EffectedLines(r, "INCOMING")' = EffectedLines(r, "INCOMING") \cup L
        /\ \A y, d : y # r \/ d # "INCOMING" => EffectedLines(y, d)' = EffectedLines(y, d)
    <3> HIDE DEF L
    <3> QED BY <2>1, RecordedMore
  <2>4. CASE x # r
    <3>1. \A d : EffectedLines(x, d)' = EffectedLines(x, d)
      BY <2>4, <2>3
    <3>2. \A i \in Items : i[1] = x => item'[i] = item[i]
      <4> HIDE DEF C
      <4> QED BY <2>1, <2>2, <2>4
    <3> QED BY <1>0, <2>1, <2>4, <3>1, <3>2, BroughtKept
  <2>5. CASE x = r
    <3>1. receipt[r].form \in Forms /\ receipt[r].reverses = NoReceipt
      BY <2>1 DEF Shaped, Done
    <3>2. /\ EffectedLines(r, "INCOMING") = {} /\ EffectedLines(r, "REVERSAL") = {}
          /\ {i \in Items : i[1] = r /\ item[i] # NoItem} = {}
      BY <1>0, <2>1, <2>5 DEF Brought, LinesIf, Done
    <3>3. /\ EffectedLines(r, "INCOMING")' = L /\ EffectedLines(r, "REVERSAL")' = {}
      BY <2>3, <3>2
    <3>4. {i \in Items : i[1] = r /\ item'[i] # NoItem} = C
      <4>1. C \subseteq Items
        BY <3>1, ReceiptAssumption
      <4>2. \A i \in Items : Opened(i) # NoItem
        BY DEF Opened, NoItem
      <4> HIDE DEF C
      <4> QED BY <2>1, <2>2, <3>2, <4>1, <4>2
    <3> QED BY <2>1, <2>5, <3>1, <3>3, <3>4 DEF Brought, LinesIf, Done
  <2> QED BY <2>4, <2>5
<1>3. ASSUME NEW r \in Receipts, NEW u \in Users, NEW v \in Receipts, Reverse(u, r, v)
      PROVE  Brought(x)'
  <2> DEFINE L == ElementsOf(receipt[r].form)
  <2>1. /\ receipt[r].state = "EXECUTED" /\ receipt[r].reverses = NoReceipt
        /\ receipt[v].state = "ABSENT" /\ v # r
        /\ \A y \in Receipts \ {r, v} : receipt'[y] = receipt[y]
        /\ receipt'[r].state = "REVERSED" /\ receipt'[r].form = receipt[r].form
        /\ receipt'[r].reverses = receipt[r].reverses
        /\ receipt'[v].state = "EXECUTED" /\ receipt'[v].form = receipt[r].form
        /\ receipt'[v].reverses = r
        /\ recorded' = recorded \cup {Effected(v, l, "REVERSAL") : l \in L}
        /\ item' = item
    BY <1>3, TakeBackMoves DEF Steady, settlementVars
  <2>2. /\ EffectedLines(v, "REVERSAL")' = EffectedLines(v, "REVERSAL") \cup L
        /\ \A y, d : y # v \/ d # "REVERSAL" => EffectedLines(y, d)' = EffectedLines(y, d)
    <3>1. recorded' = recorded \cup {Effected(v, l, "REVERSAL") : l \in L}
      BY <2>1
    <3> HIDE DEF L
    <3> QED BY <3>1, RecordedMore
  <2>3. CASE x # v
    <3>1. \A d : EffectedLines(x, d)' = EffectedLines(x, d)
      BY <2>3, <2>2
    <3> QED BY <1>0, <2>1, <2>3, <3>1, BroughtKept DEF Done
  <2>4. CASE x = v
    <3>1. /\ EffectedLines(v, "INCOMING") = {} /\ EffectedLines(v, "REVERSAL") = {}
          /\ {i \in Items : i[1] = v /\ item[i] # NoItem} = {}
      BY <1>0, <2>1, <2>4 DEF Brought, LinesIf, Done
    <3>2. /\ EffectedLines(v, "INCOMING")' = {} /\ EffectedLines(v, "REVERSAL")' = L
      BY <2>2, <3>1
    <3>3. r # NoReceipt
      BY ReceiptAssumption
    <3> QED BY <2>1, <2>4, <3>1, <3>2, <3>3 DEF Brought, LinesIf, Done
  <2> QED BY <2>3, <2>4
<1>4. CASE SettlementCommand /\ UNCHANGED receiptVars
  <2>1. \A i \in Items : item[i] = NoItem <=> item'[i] = NoItem
    BY <1>4, ItemsStep DEF SettlementInv
  <2>2. receipt' = receipt /\ \A d : EffectedLines(x, d)' = EffectedLines(x, d)
    BY <1>4 DEF receiptVars, EffectedLines
  <2> QED BY <1>0, <2>1, <2>2, BroughtKept
<1>5. ASSUME UNCHANGED <<receipt, recorded, item>>
      PROVE  Brought(x)'
  <2>1. \A d : EffectedLines(x, d)' = EffectedLines(x, d)
    BY <1>5 DEF EffectedLines
  <2> QED BY <1>0, <1>5, <2>1, BroughtKept
<1> QED BY <1>1, <1>2, <1>3, <1>4, <1>5, ReceiptSteps, OthersMove
        DEF receiptAllVars, receiptVars, settlementVars

\* An item that is opened has been allocated by none.
LEMMA ExecuteBalances ==
  ASSUME ReceiptTyped, SettlementInv, NEW r \in Receipts, Brought(r), NEW u \in Users,
         Execute(u, r)
  PROVE  SettlementInv'
<1> DEFINE C == Collected(r, receipt[r].form)
<1>1. /\ receipt[r].state = "APPROVED" /\ UNCHANGED <<batch, effect>>
      /\ item' = [i \in Items |-> IF i \in C THEN Opened(i) ELSE item[i]]
  BY ExecuteMoves
<1>2. \A i \in C : i[1] = r
  BY DEF Collected
<1>3. \A i \in Items \cap C : item[i] = NoItem
  <2>1. {i \in Items : i[1] = r /\ item[i] # NoItem} = {}
    BY <1>1 DEF Brought, Done
  <2> HIDE DEF C
  <2> QED BY <1>2, <2>1
<1> HIDE DEF C
<1>4. ASSUME NEW i \in Items
      PROVE  /\ i \in C => item'[i] = Opened(i) /\ item'[i] # NoItem /\ item[i] = NoItem
             /\ i \notin C => item'[i] = item[i]
             /\ item'[i] \in Item /\ (item'[i].state = "ABSENT" <=> item'[i] = NoItem)
             /\ item'[i].version = item[i].version
  <2>1. CASE i \in C
    <3>1. ItemGross[i] \in Nat
      BY SettlementAssumption
    <3>2. /\ Opened(i) \in Item /\ Opened(i).state = "OPEN" /\ Opened(i).version = 0
          /\ NoItem.version = 0 /\ NoItem.state = "ABSENT"
      BY <3>1 DEF Opened, NoItem, Item, ItemStates, Allocatable
    <3> QED BY <1>1, <1>3, <2>1, <3>2
  <2>2. CASE i \notin C
    BY <1>1, <2>2 DEF SettlementInv, SettlementTyped
  <2> QED BY <2>1, <2>2
<1>5. SettlementTyped'
  BY <1>1, <1>4 DEF SettlementInv, SettlementTyped
<1>6. ItemsOfBatches'
  <2>1. \A b \in Batches : batch[b] # NoRow => batch[b].content.items \subseteq Items
    BY RowPresent, ProposalType DEF Row, SettlementInv
  <2> QED BY <1>1, <1>4, <2>1 DEF SettlementInv, ItemsOfBatches
<1>7. ASSUME NEW i \in Items PROVE Balanced(i)'
  <2>1. Holding(i)' = Holding(i) /\ AmountsOf(i)' = AmountsOf(i)
    BY <1>1 DEF Holding, AmountsOf
  <2>2. CASE i \in C
    <3>1. Holding(i) = {}
      BY <1>4, <2>2, RowPresent DEF Holding, SettlementInv, ItemsOfBatches
    <3>2. Sum(Holding(i), AmountsOf(i))' = 0
      BY <2>1, <3>1, SumEmpty
    <3>3. ItemGross[i] \in Nat \ {0}
      BY SettlementAssumption
    <3>4. /\ Opened(i).allocated = 0 /\ Opened(i).remaining = ItemGross[i]
          /\ Opened(i).state = "OPEN"
      BY DEF Opened
    <3>5. item'[i] = Opened(i)
      BY <1>4, <2>2
    <3> QED BY <3>2, <3>3, <3>4, <3>5 DEF Balanced
  <2>3. CASE i \notin C
    <3>1. item'[i] = item[i] /\ Balanced(i)
      BY <1>4, <2>3 DEF SettlementInv
    <3> QED BY <2>1, <3>1 DEF Balanced
  <2> QED BY <2>2, <2>3
<1>8. SeenBefore'
  <2>1. \A b \in Batches : batch[b].state \in Settled => batch[b].content.items \subseteq Items
    BY RowPresent, ProposalType DEF Row, SettlementInv, Settled
  <2> QED BY <1>1, <1>4, <2>1 DEF SettlementInv, SeenBefore
<1>9. OneConfirmedPerVersion' /\ ReplacedOnce' /\ EffectsOfBatches' /\ ReversalsPaired'
  BY <1>1 DEF SettlementInv, OneConfirmedPerVersion, ReplacedOnce, EffectsOfBatches,
              ReversalsPaired, BankCredit
<1> QED BY <1>5, <1>6, <1>7, <1>8, <1>9 DEF SettlementInv

\* Nothing of settlements changes when their rows do not.
LEMMA SettlementKept ==
  ASSUME SettlementInv, UNCHANGED <<item, batch, effect>>
  PROVE  SettlementInv'
<1>1. SettlementTyped' /\ ItemsOfBatches' /\ SeenBefore' /\ OneConfirmedPerVersion'
  BY DEF SettlementInv, SettlementTyped, ItemsOfBatches, SeenBefore, OneConfirmedPerVersion
<1>2. ReplacedOnce' /\ EffectsOfBatches' /\ ReversalsPaired'
  BY DEF SettlementInv, ReplacedOnce, EffectsOfBatches, ReversalsPaired
<1>3. ASSUME NEW i \in Items PROVE Balanced(i)'
  BY DEF SettlementInv, Balanced, AmountsOf, Holding
<1> QED BY <1>1, <1>2, <1>3 DEF SettlementInv

\* NoSoloReceipt, receipt by receipt.
Accompanied(r) ==
  /\ receipt[r].executor # NoUser /\ receipt[r].reverses = NoReceipt =>
       {receipt[r].creator, receipt[r].executor} \cup AllApprovers(r) # {receipt[r].executor}
  /\ receipt[r].reverses # NoReceipt => receipt[r].creator \notin PriorActors(receipt[r].reverses)

\* It stays true of a receipt that changes no more, nor what it reverses.
LEMMA AccompaniedKept ==
  ASSUME NEW x \in Receipts, Accompanied(x), Shaped(x),
         receipt'[x] = receipt[x], approval'[x] = approval[x],
         \A y \in Receipts : receipt[y].state = "REVERSED" =>
           receipt'[y] = receipt[y] /\ approval'[y] = approval[y]
  PROVE  Accompanied(x)'
<1>1. AllApprovers(x)' = AllApprovers(x)
  BY DEF AllApprovers
<1>2. receipt[x].reverses # NoReceipt =>
        PriorActors(receipt[x].reverses)' = PriorActors(receipt[x].reverses)
  BY DEF PriorActors, AllApprovers, Shaped
<1> QED BY <1>1, <1>2 DEF Accompanied

LEMMA AccompaniedStep ==
  ASSUME ReceiptTyped, \A r \in Receipts : Shaped(r) /\ Accompanied(r),
         [ReceiptNext]_receiptAllVars, NEW x \in Receipts
  PROVE  Accompanied(x)'
<1>0. Accompanied(x) /\ Shaped(x)
  OBVIOUS
<1>1. ASSUME NEW r \in Receipts, QuietCommand(r) PROVE Accompanied(x)'
  <2>1. /\ receipt[r].state # "REVERSED"
        /\ receipt'[r].executor = NoUser /\ receipt'[r].reverses = NoReceipt
        /\ \A y \in Receipts \ {r} : receipt'[y] = receipt[y] /\ approval'[y] = approval[y]
    BY <1>1, QuietMoves DEF Quiet, OnlyRow, OnlyApproval, Done
  <2>2. CASE x = r
    BY <2>1, <2>2 DEF Accompanied
  <2>3. CASE x # r
    BY <1>0, <2>1, <2>3, AccompaniedKept
  <2> QED BY <2>2, <2>3
<1>2. ASSUME NEW r \in Receipts, NEW u \in Users, Execute(u, r) PROVE Accompanied(x)'
  <2>1. /\ receipt[r].state = "APPROVED" /\ approval' = approval
        /\ receipt'[r].creator = receipt[r].creator /\ receipt'[r].executor = u
        /\ receipt'[r].reverses = receipt[r].reverses
        /\ \A y \in Receipts \ {r} : receipt'[y] = receipt[y]
    BY <1>2, ExecuteMoves DEF OnlyRow, Steady
  <2>2. CASE x = r
    <3>1. receipt[r].reverses = NoReceipt
      BY <2>1 DEF Shaped, Done
    <3>2. u # receipt[r].creator \/ \E a \in AllApprovers(r) : a # u
      BY <1>2 DEF Execute, Conflict, OverrideApprovalValid, AllApprovers
    <3>3. AllApprovers(r)' = AllApprovers(r)
      BY <2>1 DEF AllApprovers
    <3> QED BY <2>1, <2>2, <3>1, <3>2, <3>3 DEF Accompanied
  <2>3. CASE x # r
    BY <1>0, <2>1, <2>3, AccompaniedKept
  <2> QED BY <2>2, <2>3
<1>3. ASSUME NEW r \in Receipts, NEW u \in Users, NEW v \in Receipts, Reverse(u, r, v)
      PROVE  Accompanied(x)'
  <2>1. /\ receipt[r].state = "EXECUTED" /\ receipt[r].reverses = NoReceipt
        /\ receipt[v].state = "ABSENT" /\ v # r /\ u \notin PriorActors(r)
        /\ \A y \in Receipts \ {r, v} : receipt'[y] = receipt[y]
        /\ receipt'[r].creator = receipt[r].creator
        /\ receipt'[r].executor = receipt[r].executor
        /\ receipt'[r].reverses = receipt[r].reverses
        /\ receipt'[v].creator = u /\ receipt'[v].reverses = r
        /\ approval' = approval
    BY <1>3, TakeBackMoves DEF Steady
  <2>2. AllApprovers(r)' = AllApprovers(r) /\ PriorActors(r)' = PriorActors(r)
    BY <2>1 DEF AllApprovers, PriorActors
  <2>3. CASE x = r
    BY <1>0, <2>1, <2>2, <2>3 DEF Accompanied
  <2>4. CASE x = v
    <3>1. r # NoReceipt
      BY ReceiptAssumption
    <3> QED BY <2>1, <2>2, <2>4, <3>1 DEF Accompanied
  <2>5. CASE x \notin {r, v}
    BY <1>0, <2>1, <2>5, AccompaniedKept
  <2> QED BY <2>3, <2>4, <2>5
<1>4. ASSUME UNCHANGED <<receipt, approval>>
      PROVE  Accompanied(x)'
  BY <1>0, <1>4, AccompaniedKept
<1> QED BY <1>1, <1>2, <1>3, <1>4, ReceiptSteps, OthersMove DEF receiptAllVars, receiptVars

-------------------------------------------------------------------------------
(* What holds of receipts and settlements together.                        *)

ReceiptInv ==
  /\ ReceiptTyped /\ SettlementInv
  /\ \A r \in Receipts : Shaped(r) /\ Brought(r) /\ Accompanied(r)

LEMMA ReceiptInvInit == ReceiptInit => ReceiptInv
<1> SUFFICES ASSUME ReceiptInit PROVE ReceiptInv
  OBVIOUS
<1>1. ReceiptTyped
  <2>1. NoApproval \in ApprovalRow /\ IsFiniteSet(NoApproval.actions)
    BY FS_EmptySet DEF NoApproval, ApprovalRow
  <2> QED BY <2>1, AbsentType DEF ReceiptInit, ReceiptTyped
<1>2. SettlementTyped
  <2>1. NoItem \in Item /\ NoItem.state = "ABSENT"
    BY DEF NoItem, Item, ItemStates
  <2> QED BY <2>1 DEF ReceiptInit, SettlementTyped
<1>3. \A b \in Batches : batch[b] = NoRow /\ batch[b].state = "ABSENT"
  BY DEF ReceiptInit, NoRow
<1>4. ItemsOfBatches /\ \A i \in Items : Balanced(i)
  BY <1>3 DEF ReceiptInit, ItemsOfBatches, Balanced
<1>5. SeenBefore /\ OneConfirmedPerVersion
  BY <1>3 DEF SeenBefore, OneConfirmedPerVersion, Settled
<1>6. ReplacedOnce /\ EffectsOfBatches /\ ReversalsPaired
  BY <1>3 DEF ReceiptInit, ReplacedOnce, EffectsOfBatches, ReversalsPaired, Recorded
<1>7. ASSUME NEW r \in Receipts PROVE Shaped(r) /\ Brought(r) /\ Accompanied(r)
  <2>1. /\ receipt[r] = AbsentReceipt /\ receipt[r].state = "ABSENT"
        /\ receipt[r].reverses = NoReceipt /\ receipt[r].reversedBy = NoReceipt
        /\ receipt[r].executor = NoUser
    BY DEF ReceiptInit, AbsentReceipt
  <2>2. Shaped(r)
    BY <2>1 DEF Shaped, Done
  <2>3. Brought(r)
    BY <2>1 DEF ReceiptInit, Brought, Done, LinesIf, EffectedLines
  <2>4. Accompanied(r)
    BY <2>1 DEF Accompanied
  <2> QED BY <2>2, <2>3, <2>4
<1> QED BY <1>1, <1>2, <1>4, <1>5, <1>6, <1>7 DEF ReceiptInv, SettlementInv

LEMMA ReceiptInvStep ==
  ASSUME ReceiptInv, [ReceiptNext]_receiptAllVars
  PROVE  ReceiptInv'
<1>1. ReceiptTyped' /\ \A r \in Receipts : Shaped(r)' /\ Brought(r)' /\ Accompanied(r)'
  BY ReceiptTypedStep, ShapedStep, BroughtStep, AccompaniedStep DEF ReceiptInv
<1>2. ASSUME UNCHANGED <<item, batch, effect>> PROVE SettlementInv'
  BY <1>2, SettlementKept DEF ReceiptInv
<1>3. ASSUME NEW r \in Receipts, QuietCommand(r) PROVE SettlementInv'
  <2>1. UNCHANGED <<item, batch, effect>>
    BY <1>3, QuietMoves DEF ReceiptInv, Quiet, Unmoved, settlementVars
  <2> QED BY <1>2, <2>1
<1>4. ASSUME NEW r \in Receipts, NEW u \in Users, Execute(u, r) PROVE SettlementInv'
  BY <1>4, ExecuteBalances DEF ReceiptInv
<1>5. ASSUME NEW r \in Receipts, NEW u \in Users, NEW v \in Receipts, Reverse(u, r, v)
      PROVE  SettlementInv'
  BY <1>2, <1>5 DEF Reverse, settlementVars
<1>6. SettlementCommand => SettlementInv'
  BY SettlementStep DEF ReceiptInv
<1>7. OtherSteps => SettlementInv'
  BY <1>2, OthersMove DEF ReceiptInv
<1>8. UNCHANGED receiptAllVars => SettlementInv'
  BY <1>2 DEF receiptAllVars, settlementVars
<1>9. SettlementInv'
  BY <1>3, <1>4, <1>5, <1>6, <1>7, <1>8, ReceiptSteps
<1> QED BY <1>1, <1>9 DEF ReceiptInv

LEMMA ReceiptInvHolds == ReceiptSpec => []ReceiptInv
BY ReceiptInvInit, ReceiptInvStep, PTL DEF ReceiptSpec

\* However users, batches and receipts interleave, items are allocated by, and
\* accounts credited with, exactly the batches in force; two proposals made on
\* one version of an item are never both confirmed, and of batches that replace
\* one another at most one is in force (confirm, reverse, validateLockedAllocations).
THEOREM ItemsCreditedOnce == ReceiptSpec => []CreditedOnce
<1>1. ReceiptInv => CreditedOnce
  BY CreditedOnceFollows DEF ReceiptInv
<1> QED BY <1>1, ReceiptInvHolds, PTL

\* What a receipt brought is recorded when it is executed, and taken back by the
\* one receipt that reverses it; no one takes a receipt all the way alone, and
\* its reversal is the act of somebody who had no part in it (execute, reverse).
THEOREM EffectsFollow == ReceiptSpec => []EffectsFollowReceipts
<1>1. ReceiptInv => EffectsFollowReceipts
  BY LinesFollow DEF ReceiptInv, EffectsFollowReceipts, NoSoloReceipt, Accompanied
<1> QED BY <1>1, ReceiptInvHolds, PTL

-------------------------------------------------------------------------------
(* Submissions and reversals.                                              *)

\* A reopened item is allocated by no batch in force.
LEMMA ReopenedIsFree ==
  ASSUME SettlementInv, NEW i \in Items, ReversibleSnapshot(i)
  PROVE  Holding(i) = {}
<1>1. item[i].state = "REOPENED_AFTER_REVERSAL" /\ item[i] # NoItem
  BY DEF ReversibleSnapshot, NoItem
<1>2. item[i].allocated \in Nat /\ item[i].remaining \in Nat
  BY DEF SettlementInv, SettlementTyped, Item
<1>3. /\ item[i].allocated = Sum(Holding(i), AmountsOf(i))
      /\ item[i].remaining # 0
      /\ ~(item[i].allocated > 0 /\ item[i].remaining > 0)
  BY <1>1 DEF SettlementInv, Balanced
<1>4. Sum(Holding(i), AmountsOf(i)) = 0
  BY <1>2, <1>3
<1> QED BY <1>4, NothingHeld DEF SettlementInv

LEMMA TakenBackWhenFree ==
  ASSUME ReceiptInv, NEW u \in Users, NEW r \in Receipts, NEW v \in Receipts, Reverse(u, r, v),
         NEW i \in Collected(r, receipt[r].form)
  PROVE  Holding(i) = {}
<1>1. receipt[r].form \in Forms
  BY TakeBackMoves DEF ReceiptInv, Shaped
<1>2. PICK l \in ElementsOf(receipt[r].form) : Fact[l].collected /\ i = <<r, l>>
  BY DEF Collected
<1>3. l \in Lines
  BY <1>1, <1>2, ReceiptAssumption DEF ElementsOf
<1>4. Fact[l].collected /\ Fact[l].category # "CHEQUE"
  BY <1>2, <1>3, ReceiptAssumption DEF ValidLine, Transit
<1>5. ReverseEffect(r, l)
  BY <1>2 DEF Reverse
<1>6. ReversibleSnapshot(i)
  BY <1>2, <1>4, <1>5 DEF ReverseEffect
<1>7. i \in Items
  BY <1>1, ReceiptAssumption
<1> QED BY <1>6, <1>7, ReopenedIsFree DEF ReceiptInv

\* A submission is worth what the rate table says at that moment, however the
\* table changed since the draft was saved, and a receipt is reversed only when
\* no settlement in force has credited any of what it collected
\* (revalidateSubmission, reversibleSnapshot).
THEOREM SubmissionsAndReversals == ReceiptSpec => SubmittedAndReversed
<1>1. ASSUME ReceiptInv, [ReceiptNext]_receiptAllVars
      PROVE  Unsettled
  <2> SUFFICES ASSUME NEW x \in Receipts, receipt[x].state = "EXECUTED",
                      receipt'[x].state = "REVERSED"
               PROVE  \A i \in Collected(x, receipt[x].form) : Holding(i) = {}
    BY DEF Unsettled
  <2>1. ASSUME NEW r \in Receipts, QuietCommand(r) PROVE FALSE
    BY <1>1, <2>1, QuietMoves DEF ReceiptInv, Quiet, OnlyRow, Done
  <2>2. ASSUME NEW r \in Receipts, NEW u \in Users, Execute(u, r) PROVE FALSE
    BY <1>1, <2>2, ExecuteMoves DEF ReceiptInv, OnlyRow
  <2>3. ASSUME NEW r \in Receipts, NEW u \in Users, NEW v \in Receipts, Reverse(u, r, v)
        PROVE  \A i \in Collected(x, receipt[x].form) : Holding(i) = {}
    <3>1. x = r
      BY <1>1, <2>3, TakeBackMoves DEF ReceiptInv
    <3> QED BY <1>1, <2>3, <3>1, TakenBackWhenFree
  <2>4. receipt' # receipt
    OBVIOUS
  <2> QED BY <1>1, <2>1, <2>2, <2>3, <2>4, ReceiptSteps, OthersMove
          DEF ReceiptInv, receiptAllVars, receiptVars
<1>2. ASSUME ReceiptInv, [ReceiptNext]_receiptAllVars
      PROVE  AtCurrentRates
  <2> SUFFICES ASSUME NEW x \in Receipts, receipt[x].state = "DRAFT",
                      receipt'[x].state \in {"APPROVAL_PENDING", "APPROVED"}
               PROVE  approval'[x].basis
                        = Sum(DOMAIN receipt[x].form,
                              Derived(receipt[x].form, receipt[x].entered))
    BY DEF AtCurrentRates
  <2>0. receipt' # receipt /\ ReceiptTyped /\ Shaped(x)
    BY <1>2 DEF ReceiptInv
  <2>1. ASSUME NEW u \in Users, Submit(u, x)
        PROVE  approval'[x].basis
                 = Sum(DOMAIN receipt[x].form,
                       Derived(receipt[x].form, receipt[x].entered))
    <3>1. /\ approval'[x].basis = TotalBase(x) /\ receipt[x].form \in Forms
          /\ Derivable(receipt[x].form, receipt[x].entered)
          /\ Derived(receipt[x].form, receipt[x].entered) = receipt[x].base
      BY <2>0, <2>1, SubmitMoves DEF Revalidated
    <3>2. DOMAIN receipt[x].base = DOMAIN receipt[x].form
      BY <3>1 DEF Derived
    <3> QED BY <3>1, <3>2 DEF TotalBase
  <2>2. ASSUME NEW r \in Receipts, QuietCommand(r) PROVE \E u \in Users : Submit(u, x)
    <3>1. r = x
      BY <1>2, <2>2, QuietMoves DEF ReceiptInv, Quiet, OnlyRow
    <3>2. \A u \in Users : \A form \in Forms :
            ~Replace(u, r, form) /\ \A entered \in Instants : ~Create(u, r, form, entered)
      BY <2>0, <3>1, CreateDrafts, ReplaceDrafts
    <3>3. ~Act(r)
      BY <3>1 DEF Act, Approve, Reject, Return
    <3> QED BY <2>2, <3>1, <3>2, <3>3 DEF QuietCommand
  <2>3. ASSUME NEW r \in Receipts, NEW u \in Users, Execute(u, r) PROVE FALSE
    BY <1>2, <2>3, ExecuteMoves DEF ReceiptInv, OnlyRow
  <2>4. ASSUME NEW r \in Receipts, NEW u \in Users, NEW v \in Receipts, Reverse(u, r, v)
        PROVE  FALSE
    BY <1>2, <2>4, TakeBackMoves DEF ReceiptInv
  <2> QED BY <1>2, <2>0, <2>1, <2>2, <2>3, <2>4, ReceiptSteps, OthersMove
          DEF receiptAllVars, receiptVars
<1>3. ReceiptInv /\ [ReceiptNext]_receiptAllVars
        => [AtCurrentRates /\ Unsettled]_receiptAllVars
  BY <1>1, <1>2
<1> QED BY <1>3, ReceiptInvHolds, PTL DEF ReceiptSpec, SubmittedAndReversed

-------------------------------------------------------------------------------
(* What the policies of the lines ask.                                     *)

\* Every context of the lines is among the contexts that are resolved.
LEMMA EveryContextAsked ==
  ASSUME NEW form \in Forms, NEW n \in DOMAIN form
  PROVE  \E k \in DOMAIN Contexts(form) : Contexts(form)[k] = ContextOf(form[n])
<1> DEFINE F == FirstLines(form)
           Until(m) == {x \in F : x < m}
           alike == {m \in DOMAIN form : ContextOf(form[m]) = ContextOf(form[n])}
<1>1. /\ IsFiniteSet(F) /\ Cardinality(F) \in Nat /\ F \in SUBSET DOMAIN form
      /\ DOMAIN form = 1 .. Len(form) /\ Len(form) \in Nat
  BY ContextsType
<1>2. PICK m \in alike : \A x \in alike : m <= x
  <2>1. alike \in SUBSET Nat /\ n \in alike
    BY <1>1
  <2> HIDE DEF alike
  <2> QED BY <2>1, LeastNat
<1>3. m \in F /\ m \in Nat /\ ContextOf(form[m]) = ContextOf(form[n])
  <2>1. m \in DOMAIN form /\ ContextOf(form[m]) = ContextOf(form[n])
    OBVIOUS
  <2>2. ASSUME NEW x \in 1 .. m - 1, ContextOf(form[x]) = ContextOf(form[m]) PROVE FALSE
    <3>1. x \in alike /\ ~(m <= x)
      BY <1>1, <2>1, <2>2
    <3> QED BY <1>2, <3>1
  <2> QED BY <1>1, <2>1, <2>2 DEF FirstLines
<1>4. \A x \in F : IsFiniteSet(Until(x)) /\ Cardinality(Until(x)) \in Nat
  BY <1>1, FS_Subset, FS_CardinalityType
<1>5. ASSUME NEW x \in F, NEW y \in F, x < y
      PROVE  Cardinality(Until(x)) < Cardinality(Until(y))
  <2>1. Until(x) \cup {x} \in SUBSET Until(y) /\ x \notin Until(x) /\ x \in Nat /\ y \in Nat
    BY <1>1, <1>5
  <2> HIDE DEF Until
  <2>2. Cardinality(Until(x) \cup {x}) = Cardinality(Until(x)) + 1
    BY <1>4, <2>1, FS_AddElement
  <2>3. Cardinality(Until(x) \cup {x}) <= Cardinality(Until(y))
    BY <1>4, <2>1, FS_Subset
  <2> QED BY <1>4, <2>2, <2>3
<1> DEFINE k == Cardinality(Until(m)) + 1
<1>6. k \in 1 .. Cardinality(F) /\ Cardinality(Until(m)) = k - 1
  <2>1. Until(m) \cup {m} \in SUBSET F /\ m \notin Until(m)
    BY <1>3
  <2> HIDE DEF Until, F
  <2>2. Cardinality(Until(m) \cup {m}) = Cardinality(Until(m)) + 1
    BY <1>3, <1>4, <2>1, FS_AddElement
  <2>3. Cardinality(Until(m) \cup {m}) <= Cardinality(F)
    BY <1>1, <2>1, FS_Subset
  <2> QED BY <1>1, <1>3, <1>4, <2>2, <2>3
<1> HIDE DEF k
<1>7. FirstLine(form, k) = m
  <2>1. \A x \in F : Cardinality(Until(x)) = k - 1 => x = m
    <3>1. \A x \in F : x \in Nat
      BY <1>1
    <3> HIDE DEF Until, F
    <3>2. ASSUME NEW x \in F, Cardinality(Until(x)) = k - 1, x # m PROVE FALSE
      <4>1. x < m \/ m < x
        BY <1>3, <3>1, <3>2
      <4>2. Cardinality(Until(x)) < Cardinality(Until(m)) \/ Cardinality(Until(m)) < Cardinality(Until(x))
        BY <1>3, <1>5, <4>1
      <4> QED BY <1>3, <1>4, <1>6, <3>2, <4>2
    <3> QED BY <3>2
  <2> QED BY <1>3, <1>6, <2>1 DEF FirstLine
<1>8. k \in DOMAIN Contexts(form) /\ Contexts(form)[k] = ContextOf(form[FirstLine(form, k)])
  BY <1>6, ContextsType DEF Contexts
<1> QED BY <1>3, <1>7, <1>8

\* Of a submission, every step of every policy is asked.
LEMMA SubmissionAsksAll ==
  ASSUME NEW r \in Receipts, receipt[r].form \in Forms, NEW n \in DOMAIN receipt[r].form,
         NEW policies \in [DOMAIN Contexts(receipt[r].form) -> Policies],
         policies = PoliciesOf(r), Composable(StepsOfPolicies(policies))
  PROVE  LET policy == Resolve(ContextOf(receipt[r].form[n]), TotalBase(r))
         IN /\ policy \in Policies
            /\ ElementsOf(Steps[policy]) \subseteq ElementsOf(Composed(StepsOfPolicies(policies)))
<1> DEFINE form == receipt[r].form
           asked == StepsOfPolicies(policies)
<1>1. PICK k \in DOMAIN Contexts(form) : Contexts(form)[k] = ContextOf(form[n])
  BY EveryContextAsked
<1>2. policies[k] = Resolve(ContextOf(form[n]), TotalBase(r)) /\ policies[k] \in Policies
  <2>1. PoliciesOf(r)[k] = Resolve(Contexts(form)[k], TotalBase(r))
    BY DEF PoliciesOf
  <2> QED BY <1>1, <2>1
<1>3. asked[k] = Steps[policies[k]] /\ k \in DOMAIN asked
  BY DEF StepsOfPolicies
<1>4. Contextual(asked)
  BY ContextsType, AskedType
<1>5. ElementsOf(Composed(asked)) = Nodes(asked)
  BY <1>4, ComposedHasAll
<1>6. ElementsOf(asked[k]) \subseteq Nodes(asked)
  BY <1>3 DEF Nodes
<1> HIDE DEF asked
<1> QED BY <1>2, <1>3, <1>5, <1>6 DEF asked

-------------------------------------------------------------------------------
(* What a receipt was approved by.                                         *)

InApproval(r) ==
  receipt[r].state \in ReceiptStates \ {"ABSENT", "DRAFT"} /\ receipt[r].reverses = NoReceipt

\* The changes after the last approval.
Since(state) == CASE state = "EXECUTED" -> 1 [] state = "REVERSED" -> 2 [] OTHER -> 0

Counted(r) ==
  /\ approval[r].basis = TotalBase(r)
  /\ receipt[r].version
       = approval[r].version + Cardinality(approval[r].actions) + Since(receipt[r].state)

AsksAll(r) ==
  \A n \in DOMAIN receipt[r].form :
    LET policy == Resolve(ContextOf(receipt[r].form[n]), TotalBase(r))
    IN policy \in Policies /\ ElementsOf(Steps[policy]) \subseteq ElementsOf(StepsAsked(r))

\* Who approved was asked, and was not the creator where that is forbidden.
RightlyApproved(r) ==
  \A a \in approval[r].actions : a.kind = "APPROVED" =>
    /\ a.step \in DOMAIN StepsAsked(r)
    /\ {a.actor, a.from} \cap StepsAsked(r)[a.step].holders # {}
    /\ StepsAsked(r)[a.step].rules # {} => receipt[r].creator \notin {a.actor, a.from}

Covered(r) ==
  InApproval(r) =>
    /\ Counted(r) /\ AsksAll(r) /\ RightlyApproved(r)
    /\ receipt[r].state \in {"APPROVED", "EXECUTED", "REVERSED"} => Incomplete(r) = {}

LEMMA ApproversType ==
  ASSUME ReceiptTyped, NEW r \in Receipts, NEW i
  PROVE  IsFiniteSet(Approvers(r, i)) /\ Cardinality(Approvers(r, i)) \in Nat
<1> DEFINE own == {b \in approval[r].actions : b.step = i /\ b.kind = "APPROVED"}
<1>1. IsFiniteSet(own)
  BY FS_Subset DEF ReceiptTyped
<1>2. [a \in own |-> a.actor] \in Surjection(own, Approvers(r, i))
  BY DEF Surjection, Approvers
<1> HIDE DEF own
<1>3. IsFiniteSet(Approvers(r, i))
  BY <1>1, <1>2, FS_Surjection
<1> QED BY <1>3, FS_CardinalityType

\* The steps of a snapshot are rows, numbered from one.
LEMMA StepsNumbered ==
  ASSUME ReceiptTyped, NEW r \in Receipts
  PROVE  /\ DOMAIN StepsAsked(r) = 1 .. Len(StepsAsked(r)) /\ Len(StepsAsked(r)) \in Nat
         /\ \A i \in DOMAIN StepsAsked(r) :
              StepsAsked(r)[i].required \in Nat /\ StepsAsked(r)[i].holders \subseteq Users
<1>1. StepsAsked(r) \in Seq(AskedRow)
  BY DEF ReceiptTyped, ApprovalRow, StepsAsked
<1> DEFINE seq == StepsAsked(r)
<1> HIDE DEF seq
<1>2. DOMAIN seq = 1 .. Len(seq) /\ Len(seq) \in Nat /\ \A i \in DOMAIN seq : seq[i] \in AskedRow
  BY <1>1 DEF seq
<1>3. \A row \in AskedRow : row.required \in Nat /\ row.holders \subseteq Users
  BY DEF AskedRow
<1> QED BY <1>2, <1>3 DEF seq

LEMMA PoliciesFollow ==
  ASSUME ReceiptTyped, \A r \in Receipts : Covered(r)
  PROVE  PoliciesAreSatisfied /\ ApprovedAsSubmitted
<1>1. PoliciesAreSatisfied
  <2> SUFFICES ASSUME NEW r \in Receipts,
                      receipt[r].state \in {"APPROVED", "EXECUTED", "REVERSED"},
                      receipt[r].reverses = NoReceipt, NEW n \in DOMAIN receipt[r].form
               PROVE  LET policy == Resolve(ContextOf(receipt[r].form[n]), TotalBase(r))
                      IN /\ policy # NoPolicy
                         /\ \A step \in ElementsOf(Steps[policy]) :
                              \E i \in DOMAIN StepsAsked(r) :
                                LET S == {a \in approval[r].actions : a.step = i /\ a.kind = "APPROVED"}
                                IN
                                /\ Cardinality({a.actor : a \in S}) >= step.required
                                /\ \A a \in S :
                                     /\ {a.actor, a.from} \cap step.holders # {}
                                     /\ step.rules # {} =>
                                          receipt[r].creator \notin {a.actor, a.from}
    BY DEF PoliciesAreSatisfied
  <2> DEFINE policy == Resolve(ContextOf(receipt[r].form[n]), TotalBase(r))
  <2>1. AsksAll(r) /\ RightlyApproved(r) /\ Incomplete(r) = {}
    BY DEF Covered, InApproval, ReceiptStates
  <2>2. policy \in Policies /\ ElementsOf(Steps[policy]) \subseteq ElementsOf(StepsAsked(r))
    BY <2>1 DEF AsksAll
  <2>3. policy # NoPolicy
    BY <2>2, PolicyAssumption
  <2> HIDE DEF policy
  <2>4. ASSUME NEW step \in ElementsOf(Steps[policy])
        PROVE  \E i \in DOMAIN StepsAsked(r) :
                 LET S == {a \in approval[r].actions : a.step = i /\ a.kind = "APPROVED"}
                 IN
                 /\ Cardinality({a.actor : a \in S}) >= step.required
                 /\ \A a \in S : /\ {a.actor, a.from} \cap step.holders # {}
                                 /\ step.rules # {} =>
                                      receipt[r].creator \notin {a.actor, a.from}
    <3>1. PICK i \in DOMAIN StepsAsked(r) : StepsAsked(r)[i] = step
      BY <2>2 DEF ElementsOf
    <3> DEFINE S == {a \in approval[r].actions : a.step = i /\ a.kind = "APPROVED"}
    <3>2. Cardinality(Approvers(r, i)) \in Nat /\ step.required \in Nat
      BY <3>1, ApproversType, StepsNumbered
    <3>3. ~(Cardinality(Approvers(r, i)) < step.required)
      BY <2>1, <3>1 DEF Incomplete
    <3>4. {a.actor : a \in S} = Approvers(r, i)
      BY DEF Approvers
    <3>5. Cardinality({a.actor : a \in S}) >= step.required
      <4>1. Cardinality(Approvers(r, i)) >= step.required
        BY <3>2, <3>3
      <4> HIDE DEF S
      <4> QED BY <3>4, <4>1, Zenon
    <3>6. \A a \in S : /\ {a.actor, a.from} \cap step.holders # {}
                       /\ step.rules # {} => receipt[r].creator \notin {a.actor, a.from}
      BY <2>1, <3>1 DEF RightlyApproved
    <3> QED BY <3>5, <3>6
  <2> QED BY <2>3, <2>4 DEF policy
<1>2. ApprovedAsSubmitted
  BY DEF Covered, InApproval, Counted, Since, ApprovedAsSubmitted
<1> QED BY <1>1, <1>2

\* A receipt whose row and snapshot stay is covered as before.
LEMMA CoveredKept ==
  ASSUME NEW x \in Receipts, Covered(x), receipt'[x] = receipt[x], approval'[x] = approval[x]
  PROVE  Covered(x)'
<1>1. TotalBase(x)' = TotalBase(x) /\ StepsAsked(x)' = StepsAsked(x)
  BY DEF TotalBase, StepsAsked
<1>2. Incomplete(x)' = Incomplete(x)
  BY <1>1 DEF Incomplete, Approvers
<1>3. /\ InApproval(x)' <=> InApproval(x)
      /\ Counted(x) => Counted(x)'
      /\ AsksAll(x) => AsksAll(x)'
      /\ RightlyApproved(x) => RightlyApproved(x)'
  BY <1>1 DEF InApproval, Counted, AsksAll, RightlyApproved
<1> QED BY <1>2, <1>3 DEF Covered

LEMMA SubmitCovers ==
  ASSUME ReceiptTyped, NEW u \in Users, NEW r \in Receipts, Shaped(r), Submit(u, r)
  PROVE  Covered(r)'
<1>1. /\ receipt[r].form \in Forms
      /\ receipt'[r].state \in {"APPROVED", "APPROVAL_PENDING"}
      /\ receipt'[r].state = "APPROVED" => approval'[r].steps = <<>>
      /\ receipt'[r].version = receipt[r].version + 1
      /\ receipt'[r].form = receipt[r].form /\ receipt'[r].base = receipt[r].base
      /\ approval'[r].version = receipt[r].version + 1
      /\ approval'[r].basis = TotalBase(r) /\ approval'[r].actions = {}
  BY SubmitMoves DEF Steady
<1>2. PICK policies \in [DOMAIN Contexts(receipt[r].form) -> Policies] :
        /\ policies = PoliciesOf(r) /\ Composable(StepsOfPolicies(policies))
        /\ approval'[r].steps = Composed(StepsOfPolicies(policies))
  BY SubmitMoves
<1>3. TotalBase(r)' = TotalBase(r) /\ StepsAsked(r)' = Composed(StepsOfPolicies(policies))
  BY <1>1, <1>2 DEF TotalBase, StepsAsked
<1>4. Counted(r)'
  <2>1. receipt[r].version \in Nat
    BY DEF ReceiptTyped, ReceiptRow
  <2>2. Since(receipt'[r].state) = 0
    BY <1>1 DEF Since
  <2>3. Cardinality(approval'[r].actions) = 0
    BY <1>1, FS_EmptySet
  <2> QED BY <1>1, <1>3, <2>1, <2>2, <2>3 DEF Counted
<1>5. AsksAll(r)'
  <2>1. ASSUME NEW n \in DOMAIN receipt[r].form
        PROVE  LET policy == Resolve(ContextOf(receipt[r].form[n]), TotalBase(r))
               IN /\ policy \in Policies
                  /\ ElementsOf(Steps[policy])
                       \subseteq ElementsOf(Composed(StepsOfPolicies(policies)))
    BY <1>1, <1>2, SubmissionAsksAll
  <2> QED BY <1>1, <1>3, <2>1 DEF AsksAll
<1>6. RightlyApproved(r)'
  BY <1>1 DEF RightlyApproved
<1>7. receipt'[r].state = "APPROVED" => Incomplete(r)' = {}
  BY <1>1 DEF Incomplete, StepsAsked
<1> QED BY <1>1, <1>4, <1>5, <1>6, <1>7 DEF Covered

\* Who acts at a step, as or for one of its holders, and for the first time.
LEMMA ActorIsHolder ==
  ASSUME ReceiptTyped, NEW u \in Users, NEW r \in Receipts, NEW i \in DOMAIN StepsAsked(r),
         NEW permission, NEW from, MayAct(u, r, i, permission, from)
  PROVE  /\ {u, from} \cap StepsAsked(r)[i].holders # {}
         /\ StepsAsked(r)[i].rules # {} => receipt[r].creator \notin {u, from}
         /\ \A a \in approval[r].actions : ~(a.step = i /\ a.actor = u)
<1>1. i # 0
  BY StepsNumbered
<1>2. StepHolders(r, i, permission) \subseteq StepsAsked(r)[i].holders
  BY <1>1 DEF StepHolders
<1>3. u \in StepHolders(r, i, permission) \/ from \in StepHolders(r, i, permission)
  BY DEF MayAct, Authority, Grantors
<1> QED BY <1>1, <1>2, <1>3 DEF MayAct, Separated

\* An action that is new is counted, and changes nothing else of the snapshot.
LEMMA ActionCounts ==
  ASSUME ReceiptTyped, NEW r \in Receipts, NEW i \in Nat, NEW u \in Users,
         NEW from \in Users \cup {NoUser}, NEW kind \in {"APPROVED", "REJECTED"},
         NEW reasoned \in BOOLEAN, approval' = WithAction(r, i, u, from, kind, reasoned),
         \A a \in approval[r].actions : ~(a.step = i /\ a.actor = u),
         Steady(r), receipt'[r].version = receipt[r].version + 1,
         Since(receipt[r].state) = 0, Since(receipt'[r].state) = 0
  PROVE  /\ Counted(r) => Counted(r)'
         /\ AsksAll(r) => AsksAll(r)'
<1> DEFINE action == [step |-> i, actor |-> u, from |-> from, kind |-> kind, reasoned |-> reasoned]
<1>1. /\ approval'[r].version = approval[r].version /\ approval'[r].basis = approval[r].basis
      /\ approval'[r].steps = approval[r].steps
      /\ approval'[r].actions = approval[r].actions \cup {action}
  BY ActionJoins
<1>2. action.step = i /\ action.actor = u
  OBVIOUS
<1> HIDE DEF action
<1>3. action \notin approval[r].actions
  BY <1>2
<1>4. IsFiniteSet(approval[r].actions) /\ Cardinality(approval[r].actions) \in Nat
  BY FS_CardinalityType DEF ReceiptTyped
<1>5. Cardinality(approval'[r].actions) = Cardinality(approval[r].actions) + 1
  <2>1. PICK A : A = approval[r].actions
    OBVIOUS
  <2>2. Cardinality(A \cup {action}) = Cardinality(A) + 1
    BY <1>3, <1>4, <2>1, FS_AddElement
  <2> QED BY <1>1, <2>1, <2>2
<1>6. TotalBase(r)' = TotalBase(r) /\ StepsAsked(r)' = StepsAsked(r)
  BY <1>1 DEF TotalBase, StepsAsked, Steady
<1>7. approval[r].version \in Nat /\ receipt[r].version \in Nat
  BY DEF ReceiptTyped, ApprovalRow, ReceiptRow
<1>8. Counted(r) => Counted(r)'
  BY <1>1, <1>4, <1>5, <1>6, <1>7 DEF Counted
<1>9. AsksAll(r) => AsksAll(r)'
  BY <1>6 DEF AsksAll, Steady
<1> QED BY <1>8, <1>9

LEMMA ApproveCovers ==
  ASSUME ReceiptTyped, NEW u \in Users, NEW r \in Receipts, Shaped(r), Covered(r),
         NEW i \in StepNumbers(r), NEW from \in Users \cup {NoUser}, NEW reasoned \in BOOLEAN,
         Approve(u, r, i, from, reasoned)
  PROVE  Covered(r)'
<1> DEFINE action == [step |-> i, actor |-> u, from |-> from, kind |-> "APPROVED",
                      reasoned |-> reasoned]
<1>1. /\ receipt[r].state = "APPROVAL_PENDING"
      /\ receipt'[r].state \in {"APPROVED", "APPROVAL_PENDING"}
      /\ receipt'[r].state = "APPROVED" =>
           /\ Cardinality(Approvers(r, i)) + 1 >= StepsAsked(r)[i].required
           /\ i = Len(StepsAsked(r))
      /\ Steady(r) /\ receipt'[r].version = receipt[r].version + 1
      /\ approval' = WithAction(r, i, u, from, "APPROVED", reasoned) /\ i \in Nat
  BY ApproveMoves
<1>2. /\ IsCurrentStep(r, i) /\ MayAct(u, r, i, "receipt.approve", from)
      /\ i \in DOMAIN StepsAsked(r)
  BY DEF Approve, IsCurrentStep, Incomplete
<1>3. Counted(r) /\ AsksAll(r) /\ RightlyApproved(r)
  BY <1>1 DEF Covered, InApproval, ReceiptStates, Shaped, Done
<1>4. /\ {u, from} \cap StepsAsked(r)[i].holders # {}
      /\ StepsAsked(r)[i].rules # {} => receipt[r].creator \notin {u, from}
      /\ \A a \in approval[r].actions : ~(a.step = i /\ a.actor = u)
  BY <1>2, ActorIsHolder
<1>5. /\ approval'[r].actions = approval[r].actions \cup {action}
      /\ StepsAsked(r)' = StepsAsked(r)
  BY <1>1, ActionJoins DEF StepsAsked
<1>6. Counted(r)' /\ AsksAll(r)'
  <2>1. Since(receipt[r].state) = 0 /\ Since(receipt'[r].state) = 0
    BY <1>1 DEF Since
  <2> QED BY <1>1, <1>3, <1>4, <2>1, ActionCounts
<1>7. /\ action.step = i /\ action.actor = u /\ action.from = from /\ action.kind = "APPROVED"
  OBVIOUS
<1> HIDE DEF action
<1>8. RightlyApproved(r)'
  <2>1. \A a \in approval'[r].actions : a.kind = "APPROVED" =>
          /\ a.step \in DOMAIN StepsAsked(r)
          /\ {a.actor, a.from} \cap StepsAsked(r)[a.step].holders # {}
          /\ StepsAsked(r)[a.step].rules # {} => receipt[r].creator \notin {a.actor, a.from}
    BY <1>2, <1>3, <1>4, <1>5, <1>7 DEF RightlyApproved
  <2>2. receipt'[r].creator = receipt[r].creator
    BY <1>1 DEF Steady
  <2> QED BY <1>5, <2>1, <2>2 DEF RightlyApproved
<1>9. ASSUME receipt'[r].state = "APPROVED", NEW j \in DOMAIN StepsAsked(r)
      PROVE  ~(Cardinality(Approvers(r, j)') < StepsAsked(r)[j].required)
  <2>1. /\ Cardinality(Approvers(r, j)) \in Nat /\ StepsAsked(r)[j].required \in Nat
        /\ IsFiniteSet(Approvers(r, j))
        /\ DOMAIN StepsAsked(r) = 1 .. Len(StepsAsked(r)) /\ Len(StepsAsked(r)) \in Nat
    BY ApproversType, StepsNumbered
  <2>2. CASE j = i
    <3>1. Approvers(r, i)' = Approvers(r, i) \cup {u}
      <4>1. \A a : a \in approval'[r].actions <=> a \in approval[r].actions \/ a = action
        BY <1>5
      <4> QED BY <1>7, <4>1 DEF Approvers
    <3>2. u \notin Approvers(r, i)
      BY <1>4 DEF Approvers
    <3>3. Cardinality(Approvers(r, i)') = Cardinality(Approvers(r, i)) + 1
      BY <2>1, <2>2, <3>1, <3>2, FS_AddElement
    <3> QED BY <1>1, <1>9, <2>1, <2>2, <3>3
  <2>3. CASE j # i
    <3>1. Approvers(r, j)' = Approvers(r, j)
      <4>1. \A a : a \in approval'[r].actions <=> a \in approval[r].actions \/ a = action
        BY <1>5
      <4> QED BY <1>7, <2>3, <4>1 DEF Approvers
    <3>2. j \notin Incomplete(r)
      BY <1>1, <1>2, <1>9, <2>1, <2>3 DEF IsCurrentStep
    <3> QED BY <3>1, <3>2 DEF Incomplete
  <2> QED BY <2>2, <2>3
<1>10. receipt'[r].state = "APPROVED" => Incomplete(r)' = {}
  BY <1>5, <1>9 DEF Incomplete
<1> QED BY <1>1, <1>6, <1>8, <1>10 DEF Covered

LEMMA RejectCovers ==
  ASSUME ReceiptTyped, NEW u \in Users, NEW r \in Receipts, Shaped(r), Covered(r),
         NEW i \in StepNumbers(r), NEW from \in Users \cup {NoUser}, Reject(u, r, i, from)
  PROVE  Covered(r)'
<1> DEFINE action == [step |-> i, actor |-> u, from |-> from, kind |-> "REJECTED",
                      reasoned |-> TRUE]
<1>1. /\ receipt[r].state = "APPROVAL_PENDING" /\ receipt'[r].state = "REJECTED"
      /\ Steady(r) /\ receipt'[r].version = receipt[r].version + 1
      /\ approval' = WithAction(r, i, u, from, "REJECTED", TRUE) /\ i \in Nat
  BY RejectMoves
<1>2. Counted(r) /\ AsksAll(r) /\ RightlyApproved(r)
  BY <1>1 DEF Covered, InApproval, ReceiptStates, Shaped, Done
<1>3. \A a \in approval[r].actions : ~(a.step = i /\ a.actor = u)
  BY DEF Reject, MayAct
<1>4. /\ approval'[r].actions = approval[r].actions \cup {action}
      /\ StepsAsked(r)' = StepsAsked(r)
  BY <1>1, ActionJoins DEF StepsAsked
<1>5. Counted(r)' /\ AsksAll(r)'
  <2>1. Since(receipt[r].state) = 0 /\ Since(receipt'[r].state) = 0
    BY <1>1 DEF Since
  <2> QED BY <1>1, <1>2, <1>3, <2>1, ActionCounts
<1>6. action.kind # "APPROVED"
  OBVIOUS
<1> HIDE DEF action
<1>7. RightlyApproved(r)'
  BY <1>1, <1>2, <1>4, <1>6 DEF RightlyApproved, Steady
<1> QED BY <1>1, <1>5, <1>7 DEF Covered

\* Executed or reversed, it keeps its snapshot.
LEMMA DoneCovers ==
  ASSUME ReceiptTyped, NEW r \in Receipts, Covered(r), InApproval(r), Steady(r),
         approval' = approval, receipt'[r].version = receipt[r].version + 1,
         \/ receipt[r].state = "APPROVED" /\ receipt'[r].state = "EXECUTED"
         \/ receipt[r].state = "EXECUTED" /\ receipt'[r].state = "REVERSED"
  PROVE  Covered(r)'
<1>1. Counted(r) /\ AsksAll(r) /\ RightlyApproved(r) /\ Incomplete(r) = {}
  BY DEF Covered
<1>2. TotalBase(r)' = TotalBase(r) /\ StepsAsked(r)' = StepsAsked(r)
  BY DEF TotalBase, StepsAsked, Steady
<1>3. Incomplete(r)' = Incomplete(r)
  BY <1>2 DEF Incomplete, Approvers
<1>4. Since(receipt'[r].state) = Since(receipt[r].state) + 1 /\ Since(receipt[r].state) \in Nat
  BY DEF Since
<1>5. /\ approval[r].version \in Nat /\ receipt[r].version \in Nat
      /\ Cardinality(approval[r].actions) \in Nat
  BY FS_CardinalityType DEF ReceiptTyped, ApprovalRow, ReceiptRow
<1>6. Counted(r)'
  BY <1>1, <1>2, <1>4, <1>5 DEF Counted
<1>7. AsksAll(r)' /\ RightlyApproved(r)'
  BY <1>1, <1>2 DEF AsksAll, RightlyApproved, Steady
<1> QED BY <1>1, <1>3, <1>6, <1>7 DEF Covered

LEMMA CoveredStep ==
  ASSUME ReceiptTyped, \A r \in Receipts : Shaped(r) /\ Covered(r),
         [ReceiptNext]_receiptAllVars, NEW x \in Receipts
  PROVE  Covered(x)'
<1>0. Covered(x)
  OBVIOUS
<1>1. ASSUME NEW r \in Receipts, QuietCommand(r) PROVE Covered(x)'
  <2>1. CASE x # r
    <3>1. receipt'[x] = receipt[x] /\ approval'[x] = approval[x]
      BY <1>1, <2>1, QuietMoves DEF Quiet, OnlyRow, OnlyApproval
    <3> QED BY <1>0, <3>1, CoveredKept
  <2>2. ASSUME NEW u \in Users, NEW form \in Forms, Replace(u, r, form) PROVE Covered(r)'
    BY <2>2, ReplaceDrafts DEF Covered, InApproval
  <2>3. ASSUME NEW u \in Users, NEW form \in Forms, NEW entered \in Instants,
               Create(u, r, form, entered)
        PROVE  Covered(r)'
    BY <2>3, CreateDrafts DEF Covered, InApproval
  <2>4. ASSUME NEW u \in Users, NEW i \in StepNumbers(r), NEW from \in Users \cup {NoUser},
               Return(u, r, i, from)
        PROVE  Covered(r)'
    BY <2>4, ReturnMoves DEF Covered, InApproval
  <2>5. Covered(r)'
    BY <1>1, <2>2, <2>3, <2>4, SubmitCovers, ApproveCovers, RejectCovers DEF QuietCommand, Act
  <2> QED BY <2>1, <2>5
<1>2. ASSUME NEW r \in Receipts, NEW u \in Users, Execute(u, r) PROVE Covered(x)'
  <2>1. CASE x # r
    BY <1>0, <1>2, <2>1, ExecuteMoves, CoveredKept DEF OnlyRow
  <2>2. InApproval(r)
    BY <1>2, ExecuteMoves DEF InApproval, Shaped, Done, ReceiptStates
  <2>a. /\ approval' = approval /\ Steady(r) /\ receipt'[r].version = receipt[r].version + 1
        /\ receipt[r].state = "APPROVED" /\ receipt'[r].state = "EXECUTED"
    BY <1>2, ExecuteMoves
  <2>3. Covered(r)'
    BY <2>a, <2>2, DoneCovers
  <2> QED BY <2>1, <2>3
<1>3. ASSUME NEW r \in Receipts, NEW u \in Users, NEW v \in Receipts, Reverse(u, r, v)
      PROVE  Covered(x)'
  <2>1. CASE x \notin {r, v}
    BY <1>0, <1>3, <2>1, TakeBackMoves, CoveredKept
  <2>2. InApproval(r)
    BY <1>3, TakeBackMoves DEF InApproval, ReceiptStates
  <2>3. Covered(r)'
    BY <1>3, <2>2, TakeBackMoves, DoneCovers
  <2>4. receipt'[v].reverses # NoReceipt
    BY <1>3, TakeBackMoves, ReceiptAssumption
  <2>5. Covered(v)'
    BY <2>4 DEF Covered, InApproval
  <2> QED BY <2>1, <2>3, <2>5
<1>4. ASSUME UNCHANGED <<receipt, approval>>
      PROVE  Covered(x)'
  BY <1>0, <1>4, CoveredKept
<1> QED BY <1>1, <1>2, <1>3, <1>4, ReceiptSteps, OthersMove DEF receiptAllVars, receiptVars

\* A receipt that is approved has, for every policy its lines fall under, the
\* approvers that policy asks although the steps were merged and sorted, none
\* acting as or for the creator where a step forbids it, and is worth what it was
\* submitted with (composeSteps, act, replace).
THEOREM PoliciesApproved == ReceiptSpec => []EveryPolicyApproved
<1> DEFINE Inv == ReceiptInv /\ \A r \in Receipts : Covered(r)
<1>1. ReceiptInit => Inv
  BY ReceiptInvInit DEF ReceiptInit, Covered, InApproval, AbsentReceipt
<1>2. Inv /\ [ReceiptNext]_receiptAllVars => Inv'
  BY ReceiptInvStep, CoveredStep DEF ReceiptInv
<1>3. Inv => EveryPolicyApproved
  BY ReceiptTypesFollow, PoliciesFollow DEF ReceiptInv, SettlementInv, EveryPolicyApproved
<1> HIDE DEF Inv
<1> QED BY <1>1, <1>2, <1>3, PTL DEF ReceiptSpec
===============================================================================
