---------------------------- MODULE StepComposition ----------------------------
(***************************************************************************)
(* The approval steps of a receipt whose lines fall under several policies. *)
(* contexts is a sequence: the k-th context brings the steps of its policy *)
(* in order.  Steps that ask the same of the same approvers are merged,    *)
(* and what is left is sorted so that every policy's order is kept.        *)
(***************************************************************************)
EXTENDS Naturals, Sequences, FiniteSets

ElementsOf(seq) == {seq[i] : i \in DOMAIN seq}

\* The merged steps.
Nodes(contexts) == UNION {ElementsOf(contexts[k]) : k \in DOMAIN contexts}

\* a is asked directly before b by the policy of some context.
Before(contexts, a, b) ==
  a # b /\ \E k \in DOMAIN contexts : \E i \in 2 .. Len(contexts[k]) :
    contexts[k][i - 1] = a /\ contexts[k][i] = b

\* Where s is asked: a context, and the step's order in its policy.
Places(contexts, s) ==
  UNION {{<<k, i>> : i \in {j \in DOMAIN contexts[k] : contexts[k][j] = s}} : k \in DOMAIN contexts}

Precedes(p, q) == p[1] < q[1] \/ (p[1] = q[1] /\ p[2] < q[2])

\* A merged step keeps the priority of the place that asked it first.
Priority(contexts, s) ==
  CHOOSE p \in Places(contexts, s) :
    \A q \in Places(contexts, s) : q[1] > p[1] \/ (q[1] = p[1] /\ q[2] >= p[2])

\* Faulty variant: a step waits only for the policy that asked it first.
ReadyInFirstContext(contexts, done) ==
  {s \in Nodes(contexts) \ done :
     \A p \in Nodes(contexts) :
       Before(<<contexts[Priority(contexts, s)[1]]>>, p, s) => p \in done}

\* The steps whose predecessors are all in order already.
Ready(contexts, done) ==
  {s \in Nodes(contexts) \ done :
     \A p \in Nodes(contexts) : Before(contexts, p, s) => p \in done}

NextStep(contexts, done) ==
  CHOOSE s \in Ready(contexts, done) :
    \A t \in Ready(contexts, done) \ {s} :
      Precedes(Priority(contexts, s), Priority(contexts, t))

\* Each round takes the ready step asked first; it stops when none is ready.
Composed(contexts) ==
  LET order[n \in 0 .. Cardinality(Nodes(contexts))] ==
        IF n = 0 THEN <<>>
        ELSE LET before == order[n - 1]
             IN IF Ready(contexts, ElementsOf(before)) = {} THEN before
                ELSE Append(before, NextStep(contexts, ElementsOf(before)))
  IN order[Cardinality(Nodes(contexts))]

\* Policies that ask for opposite orders have no composition.
Composable(contexts) == Len(Composed(contexts)) = Cardinality(Nodes(contexts))

-------------------------------------------------------------------------------
(* Properties.                                                             *)

\* The orders of all steps that are asked.
Orders(contexts) ==
  {f \in [1 .. Cardinality(Nodes(contexts)) -> Nodes(contexts)] :
     \A i, j \in DOMAIN f : f[i] = f[j] => i = j}

\* order visits the steps of every policy in the policy's order.
KeepsPolicies(contexts, order) ==
  \A k \in DOMAIN contexts : \A i \in 2 .. Len(contexts[k]) :
    \E m, n \in DOMAIN order :
      order[m] = contexts[k][i - 1] /\ order[n] = contexts[k][i] /\ m <= n

\* When the contexts compose, every step of every policy is asked exactly once,
\* in the order its policy asks it, whatever the other policies say
\* (composeSteps).
PoliciesAreKept(contexts) ==
  Composable(contexts) =>
    Composed(contexts) \in Orders(contexts) /\ KeepsPolicies(contexts, Composed(contexts))

\* A submission is refused only when no order at all would respect its policies
\* (the cycle error of composeSteps).
RefusedOnlyWhenImpossible(contexts) ==
  Composable(contexts) \/ \A order \in Orders(contexts) : ~KeepsPolicies(contexts, order)

\* Among all orders that respect the policies, the composed one puts first what
\* the earlier lines of the receipt ask (comparePriority): where another order
\* first differs from it, the other has a later step.
EarlierContextsLead(contexts) ==
  Composable(contexts) =>
    \A order \in Orders(contexts) : KeepsPolicies(contexts, order) =>
      LET mine == Composed(contexts)
      IN order = mine \/ \E i \in DOMAIN mine :
           /\ \A j \in 1 .. i - 1 : mine[j] = order[j]
           /\ Precedes(Priority(contexts, mine[i]), Priority(contexts, order[i]))

\* The composed steps are the best order there is: every step once, the order of
\* every policy kept, the earlier lines first, and a refusal only when no order
\* would do (composeSteps).
BestComposition(contexts) ==
  /\ PoliciesAreKept(contexts) /\ RefusedOnlyWhenImpossible(contexts)
  /\ EarlierContextsLead(contexts)
===============================================================================
