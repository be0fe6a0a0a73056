----------------------------- MODULE PolicyContexts -----------------------------
(***************************************************************************)
(* What composeSteps is given, as submit builds it: one context after the  *)
(* other in the order of the receipt's lines, each with the steps of the   *)
(* policy that was selected for it.                                        *)
(***************************************************************************)
EXTENDS StepComposition

CONSTANT AskedSteps     \* what the steps of the policies may ask

VARIABLE contexts       \* contexts[k]: the steps of the k-th context's policy

ContextsInit == contexts = <<>>

NextContext == contexts' = Append(contexts, <<>>)

AskStep(s) ==
  /\ contexts # <<>>
  /\ contexts' = [contexts EXCEPT ![Len(contexts)] = Append(@, s)]

ContextsNext == NextContext \/ \E s \in AskedSteps : AskStep(s)

ContextsSpec == ContextsInit /\ [][ContextsNext]_contexts

\* Whatever the policies ask, the composed steps are the best order there is:
\* every step once, the order of every policy kept, the earlier lines first, and
\* a refusal only when no order would do (composeSteps).
ComposedAsAsked == BestComposition(contexts)
===============================================================================
