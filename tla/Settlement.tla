------------------------------ MODULE Settlement ------------------------------
(***************************************************************************)
(* Settlement of collection items: what a provider or a bank collected for *)
(* receipts is credited to an account in batches that allocate items, are  *)
(* proposed by one user, confirmed by another and reversed by a third.     *)
(*                                                                         *)
(* A command is one transaction that locks the batch, its allocations and  *)
(* its items, so it is one action.  A proposal is validated without locks  *)
(* and again when its rows are checked at commit: one action as well.  All *)
(* amounts have one currency.                                              *)
(***************************************************************************)
EXTENDS Authority, Integers, FiniteSets, Sums

CONSTANTS
  Items,
  ItemGross, ItemAccount,  \* what item i collected, and where it is credited
  Batches, NoBatch,
  Proposals,      \* what a creator may send
  BankAccounts, Attachments,
  MaxItemVersion  \* bound: no confirmation of an item at this version

SettlementPermissions == {"settlement.create", "settlement.confirm", "settlement.reverse"}

Dispositions == {"NONE", "OPEN", "APPROVED_DIFFERENCE", "CORRECTION_REQUIRED", "RETURNED"}

Proposal(c) ==
  /\ c.account \in BankAccounts
  /\ c.items \subseteq Items /\ c.items # {}
  /\ c.amount \in [c.items -> Nat \ {0}]
  /\ {c.gross, c.expected, c.actual} \subseteq Nat \ {0}
  /\ {c.fee, c.deduction, c.discrepancy} \subseteq Int
  /\ c.disposition \in Dispositions
  /\ c.evidence \subseteq Attachments /\ c.evidence # {}

ASSUME SettlementAssumption ==
  /\ IsFiniteSet(Items) /\ IsFiniteSet(Batches)
  /\ ItemGross \in [Items -> Nat \ {0}]
  /\ ItemAccount \in [Items -> BankAccounts]
  /\ NoBatch \notin Batches
  /\ \A c \in Proposals : Proposal(c)
  /\ \A permission \in SettlementPermissions : Holders[permission] \subseteq Users
  /\ MaxItemVersion \in Nat

VARIABLES
  item,       \* item[i]: the collection_items row
  batch,      \* batch[b]: the settlement_batches row and its allocations
  effect,     \* the settlement_effects rows; a BANK_CREDIT has its movement
  usable      \* receiving ACTIVE accounts, ACTIVE attachments

settlementVars == <<item, batch, effect, usable>>

Allocatable == {"OPEN", "REOPENED_AFTER_REVERSAL", "PARTIALLY_ALLOCATED"}

\* Of the states the table allows, the code writes these.
ItemStates == {"ABSENT", "SETTLED"} \cup Allocatable

Item == [state: ItemStates, allocated: Nat, remaining: Nat, version: Nat]

BatchStates == {"ABSENT", "MATCHED", "DISCREPANCY", "CONFIRMED", "REVERSED", "REVERSAL"}

NoItem == [state |-> "ABSENT", allocated |-> 0, remaining |-> 0, version |-> 0]

NoRow == [state |-> "ABSENT"]

\* seen[i]: the version of item i the proposal named.  of: what a REVERSAL reverses.
BatchRow(row) ==
  row = NoRow \/
  /\ row.state \in BatchStates \ {"ABSENT"}
  /\ row.content \in Proposals
  /\ row.seen \in [row.content.items -> Nat]
  /\ {row.creator} \subseteq Users
  /\ {row.confirmer, row.reverser} \subseteq Users \cup {NoUser}
  /\ {row.replaces, row.of} \subseteq Batches \cup {NoBatch}

EffectTypes == {"BANK_CREDIT", "ALLOCATION_CONSUMPTION", "FEE_EVIDENCE",
                "DEDUCTION_EVIDENCE", "APPROVED_DISCREPANCY_EVIDENCE"}

Proposed(b) == batch[b].state \in {"MATCHED", "DISCREPANCY"}

-------------------------------------------------------------------------------
(* Proposals.                                                              *)

ValidateCreate(c) ==
  /\ c.fee >= 0 /\ c.deduction >= 0
  /\ c.gross - c.fee - c.deduction = c.expected
  /\ c.actual - c.expected = c.discrepancy
  /\ Sum(c.items, c.amount) = c.gross
  /\ c.discrepancy = 0 <=> c.disposition = "NONE"

Fits(i, c) ==
  /\ item[i].state \in Allocatable
  /\ ItemAccount[i] = c.account
  /\ c.amount[i] <= item[i].remaining

\* A replacement is for a reversed batch on the account, and its only one.
Replaceable(r, c) ==
  r # NoBatch =>
    /\ batch[r].state = "REVERSED" /\ batch[r].content.account = c.account
    /\ \A b \in Batches : batch[b] # NoRow => batch[b].replaces # r

ValidateFacts(r, c) ==
  /\ c.account \in usable
  /\ c.evidence \subseteq usable
  /\ \A i \in c.items : Fits(i, c)
  /\ Replaceable(r, c)

InsertProposal(u, r, c) ==
  [state |-> IF c.discrepancy = 0 THEN "MATCHED" ELSE "DISCREPANCY",
   content |-> c, seen |-> [i \in c.items |-> item[i].version],
   creator |-> u, confirmer |-> NoUser, reverser |-> NoUser,
   replaces |-> r, of |-> NoBatch]

CreateBatch(u, b, r, c) ==
  /\ batch[b] = NoRow
  /\ Permitted(u, "settlement.create")
  /\ ValidateCreate(c)
  /\ ValidateFacts(r, c)
  /\ batch' = [batch EXCEPT ![b] = InsertProposal(u, r, c)]
  /\ UNCHANGED <<item, effect, usable>>

-------------------------------------------------------------------------------
(* Confirmation.                                                           *)

\* Faulty variant: a proposal that still fits is confirmed.
StillFits(b) == \A i \in batch[b].content.items : Fits(i, batch[b].content)

\* Every item fits, and is in the version that was proposed.
ValidateLockedAllocations(b) ==
  \A i \in batch[b].content.items :
    Fits(i, batch[b].content) /\ item[i].version = batch[b].seen[i]

ConfirmationFacts(b) ==
  /\ batch[b].content.account \in usable
  /\ batch[b].content.evidence \subseteq usable

\* A state names what remains of the item (not whether it was ever reversed).
AfterConfirmation(i, n) ==
  [state |-> IF item[i].remaining = n THEN "SETTLED" ELSE "PARTIALLY_ALLOCATED",
   allocated |-> item[i].allocated + n, remaining |-> item[i].remaining - n,
   version |-> item[i].version + 1]

\* What a batch records of its effect; only a consumption has an item.
Effect(b, type, i, n) == [batch |-> b, type |-> type, item |-> {i} \cap Items, amount |-> n]

OptionalEvidence(b) ==
  LET c == batch[b].content
  IN {e \in {Effect(b, "FEE_EVIDENCE", b, c.fee),
             Effect(b, "DEDUCTION_EVIDENCE", b, c.deduction),
             Effect(b, "APPROVED_DISCREPANCY_EVIDENCE", b, c.discrepancy)} : e.amount # 0}

EffectsOf(b) == {e \in effect : e.batch = b}

Confirmation(b) ==
  {Effect(b, "BANK_CREDIT", b, batch[b].content.actual)}
    \cup {Effect(b, "ALLOCATION_CONSUMPTION", i, batch[b].content.amount[i]) :
            i \in batch[b].content.items}
    \cup OptionalEvidence(b)

ConfirmBatch(u, b) ==
  LET c == batch[b].content
  IN /\ Proposed(b)
     /\ Permitted(u, "settlement.confirm")
     /\ u # batch[b].creator
     /\ c.discrepancy # 0 => c.disposition = "APPROVED_DIFFERENCE"
     /\ ConfirmationFacts(b)
     /\ ValidateLockedAllocations(b)
     /\ \A i \in c.items : item[i].version < MaxItemVersion
     /\ batch' = [batch EXCEPT ![b].state = "CONFIRMED", ![b].confirmer = u]
     /\ item' = [i \in Items |->
          IF i \in c.items THEN AfterConfirmation(i, c.amount[i]) ELSE item[i]]
     /\ effect' = effect \cup Confirmation(b)
     /\ UNCHANGED usable

-------------------------------------------------------------------------------
(* Reversal.                                                               *)

AfterReversal(i, n) ==
  [state |-> IF item[i].allocated = n THEN "REOPENED_AFTER_REVERSAL" ELSE "PARTIALLY_ALLOCATED",
   allocated |-> item[i].allocated - n, remaining |-> item[i].remaining + n,
   version |-> item[i].version + 1]

InsertReversal(u, b) ==
  [batch[b] EXCEPT !.state = "REVERSAL", !.creator = u, !.confirmer = NoUser,
                   !.replaces = NoBatch, !.of = b]

\* Each effect of b once more, in the opposite direction, on the reversal row.
Mirrored(r, b) == {[e EXCEPT !.batch = r] : e \in EffectsOf(b)}

ReverseBatch(u, b, r) ==
  LET c == batch[b].content
  IN /\ batch[b].state = "CONFIRMED"
     /\ batch[r] = NoRow
     /\ Permitted(u, "settlement.reverse")
     /\ u \notin {batch[b].creator, batch[b].confirmer}
     /\ \E e \in EffectsOf(b) : e.type = "BANK_CREDIT"
     /\ \A i \in c.items :
          /\ item[i].allocated >= c.amount[i]
          /\ item[i].remaining + c.amount[i] <= ItemGross[i]
     /\ batch' = [batch EXCEPT ![b].state = "REVERSED", ![b].reverser = u,
                               ![r] = InsertReversal(u, b)]
     /\ item' = [i \in Items |->
          IF i \in c.items THEN AfterReversal(i, c.amount[i]) ELSE item[i]]
     /\ effect' = effect \cup Mirrored(r, b)
     /\ UNCHANGED usable

-------------------------------------------------------------------------------
(* The commands.                                                           *)

\* What an item says when the receipt line it came from has been executed.
Opened(i) ==
  [state |-> "OPEN", allocated |-> 0, remaining |-> ItemGross[i], version |-> 0]

SettlementCommand ==
  \E u \in Users, b \in Batches :
    \/ \E r \in Batches \cup {NoBatch}, c \in Proposals : CreateBatch(u, b, r, c)
    \/ ConfirmBatch(u, b)
    \/ \E r \in Batches : ReverseBatch(u, b, r)

-------------------------------------------------------------------------------
(* Properties.                                                             *)

\* The rows have their types.
SettlementTypeOK ==
  /\ item \in [Items -> Item]
  /\ \A b \in Batches : BatchRow(batch[b])
  /\ \A e \in effect : e.batch \in Batches /\ e.type \in EffectTypes /\ e.item \subseteq Items

Holding(i) == {b \in Batches : batch[b].state = "CONFIRMED" /\ i \in batch[b].content.items}

\* Each item's balance is what the batches in force allocate of it, although
\* every command only adds to or subtracts from the row it finds, and its
\* state tells what is left (confirm, reverse).
BalancesFollowBatches ==
  \A i \in Items : item[i] # NoItem =>
    /\ item[i].allocated = Sum(Holding(i), [b \in Holding(i) |-> batch[b].content.amount[i]])
    /\ item[i].allocated + item[i].remaining = ItemGross[i]
    /\ item[i].state = "SETTLED" <=> item[i].remaining = 0
    /\ item[i].state = "PARTIALLY_ALLOCATED" <=> item[i].allocated > 0 /\ item[i].remaining > 0

Credits(a, states) ==
  LET credits == {e \in effect : /\ e.type = "BANK_CREDIT"
                                 /\ batch[e.batch].state \in states
                                 /\ batch[e.batch].content.account = a}
  IN Sum(credits, [e \in credits |-> e.amount])

InForce(a) == {b \in Batches : batch[b].state = "CONFIRMED" /\ batch[b].content.account = a}

\* An account's movements sum up to the net amounts of the batches in force on
\* it (the credit of a confirmation, the debit of its reversal).
AccountFollowsBatches ==
  \A a \in BankAccounts :
    Credits(a, {"CONFIRMED", "REVERSED"})
      = Credits(a, {"REVERSAL"}) + Sum(InForce(a), [b \in InForce(a) |-> batch[b].content.actual])

\* Two proposals made on one version of an item are never both confirmed, even
\* when the item could bear both: the second creator had not seen the first
\* (validateLockedAllocations).
OneConfirmedPerVersion ==
  \A b, c \in Batches :
    /\ b # c
    /\ batch[b].state \in {"CONFIRMED", "REVERSED"}
    /\ batch[c].state \in {"CONFIRMED", "REVERSED"}
    => \A i \in batch[b].content.items \cap batch[c].content.items :
         batch[b].seen[i] # batch[c].seen[i]

\* b and the batches it replaces, directly or in turn: what every set has that
\* has b and, with a batch, the one it replaces.
Lineage(b) ==
  {c \in Batches : \A S \in SUBSET Batches :
     /\ b \in S
     /\ \A d \in S : batch[d] # NoRow /\ batch[d].replaces # NoBatch => batch[d].replaces \in S
     => c \in S}

\* Of all batches that replace one another, directly or in turn, at most one is
\* in force: a replacement never doubles what it replaces.
OneInForcePerLineage ==
  \A b, c \in Batches :
    /\ b # c
    /\ batch[b].state = "CONFIRMED" /\ batch[c].state = "CONFIRMED"
    => Lineage(b) \cap Lineage(c) = {}

\* Items are allocated by, and accounts credited with, exactly the batches in
\* force; two proposals made on one version of an item are never both confirmed,
\* and of batches that replace one another at most one is in force (confirm,
\* reverse, validateLockedAllocations).
CreditedOnce ==
  /\ SettlementTypeOK
  /\ BalancesFollowBatches /\ AccountFollowsBatches
  /\ OneConfirmedPerVersion /\ OneInForcePerLineage
===============================================================================
