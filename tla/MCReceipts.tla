------------------------------ MODULE MCReceipts ------------------------------
(***************************************************************************)
(* Receipts and their settlement in five parts, one of which a behaviour is *)
(* about:                                                                  *)
(*   approval     one receipt, whose two lines fall under two policies     *)
(*                that share a step;                                       *)
(*   rates        two receipts worth what the rate table says, or bringing *)
(*                one and the same cheque;                                 *)
(*   collection   two receipts that record one card collection, which two  *)
(*                batches settle in whole or in part;                      *)
(*   settlement   one receipt of two transfers, and four batches;          *)
(*   composition  the steps of up to three policies of up to three steps.  *)
(* In rates and collection the second receipt may be the reversal of the   *)
(* first.                                                                  *)
(***************************************************************************)
EXTENDS Receipts, PolicyContexts, TLC

CONSTANTS
  r1, r2, b1, b2, b3, b4,
  ana, bob, cyd, dan, account, box, slip, chq,
  coins, paper, dollars, card, wire, giro,
  cashrule, chequerule, cardrule, anyrule,
  cashier, treasurer, auditor

VARIABLE part

allParts == <<part, contexts, receiptAllVars>>

-------------------------------------------------------------------------------
(* The constants.                                                          *)

LineOf(category, currency, amount, anchor, reference) ==
  [category |-> category, currency |-> currency, amount |-> amount, anchor |-> anchor,
   collected |-> category \notin {"CASH", "CHEQUE"}, reference |-> reference]

TheLines ==
  coins :> LineOf("CASH", "IRR", 4, box, coins) @@
  paper :> LineOf("CHEQUE", "IRR", 2, chq, paper) @@
  dollars :> LineOf("CASH", "USD", 3, box, dollars) @@
  card :> LineOf("POS", "IRR", 3, account, card) @@
  wire :> LineOf("BANK_TRANSFER", "IRR", 3, account, wire) @@
  giro :> LineOf("BANK_TRANSFER", "IRR", 3, account, giro)

Mixed == { <<coins, paper>>, <<paper, coins>> }
TheForms == Mixed \cup { <<dollars>>, <<paper>>, <<card>>, <<wire, giro>> }
TheItems == {r1, r2} \X {card, wire, giro}
TheGross == [i \in TheItems |-> 3]
TheAccounts == [i \in TheItems |-> account]

\* A policy of a method, or of a method in one currency.
ScopeOf(method, currency) == "method" :> method @@ "currency" :> currency
TheScopes ==
  cashrule :> ScopeOf("CASH", "IRR") @@ chequerule :> ScopeOf("CHEQUE", AnyValue) @@
  cardrule :> ScopeOf("POS", AnyValue) @@
  anyrule :> ScopeOf(AnyValue, AnyValue)

\* A cheque alone stays below what its policy is for.
TheMinima == [p \in DOMAIN TheScopes |-> IF p = chequerule THEN 5 ELSE -1]
TheMaxima == [p \in DOMAIN TheScopes |-> 99]

Cashier == [holders |-> {ana, bob}, required |-> 1, rules |-> {}]
Auditor == [holders |-> {bob, cyd}, required |-> 1, rules |-> {"CREATOR_NOT_APPROVER"}]
TwoOfThem == [holders |-> {ana, bob, cyd}, required |-> 2, rules |-> {}]

TheSteps ==
  cashrule :> <<Cashier, Auditor>> @@ chequerule :> <<TwoOfThem, Auditor>> @@
  cardrule :> <<Auditor>> @@ anyrule :> <<>>

TheRates ==
  {[currency |-> "USD", at |-> 1, numerator |-> 3, denominator |-> 2],
   [currency |-> "USD", at |-> 2, numerator |-> 5, denominator |-> 2],
   [currency |-> "USD", at |-> 2, numerator |-> 2, denominator |-> 1]}

Plain(i, n) ==
  [account |-> account, items |-> {i}, amount |-> i :> n, gross |-> n, fee |-> 0,
   deduction |-> 0, expected |-> n, actual |-> n, discrepancy |-> 0,
   disposition |-> "NONE", evidence |-> {slip}]

\* Both transfers of r, with a fee and an approved difference.
Both(r) ==
  [Plain(<<r, wire>>, 6) EXCEPT !.items = {<<r, wire>>, <<r, giro>>},
     !.amount = <<r, wire>> :> 3 @@ <<r, giro>> :> 3, !.fee = 1,
     !.expected = 5, !.actual = 4, !.discrepancy = -1, !.disposition = "APPROVED_DIFFERENCE"]

CardProposals == {Plain(<<r, card>>, n) : r \in {r1, r2}, n \in {1, 3}}

\* Two are refused: one adds up wrong, one leaves its difference open.
WireProposals ==
  {Plain(<<r1, wire>>, 1), Plain(<<r1, wire>>, 2), Plain(<<r1, giro>>, 3), Both(r1),
   [Both(r1) EXCEPT !.fee = 0], [Both(r1) EXCEPT !.disposition = "OPEN"]}

TheProposals == CardProposals \cup WireProposals

TheHolders == [permission \in SettlementPermissions \cup ReceiptPermissions |->
  CASE permission = "settlement.create" -> {ana}
    [] permission = "settlement.confirm" -> {ana, bob}
    [] permission = "settlement.reverse" -> {bob, cyd}
    [] permission = "receipt.reject" -> {cyd}
    [] permission = "receipt.approve" -> {ana, bob, cyd}
    [] permission = "receipt.execute" -> {bob, dan}
    [] permission = "receipt.reverse" -> {cyd, dan}
    [] OTHER -> {bob}]

TheDelegations == {<<dan, bob>>}

-------------------------------------------------------------------------------
(* The parts.                                                              *)

PartForms ==
  CASE part = "approval" -> Mixed
    [] part = "rates" -> { <<dollars>>, <<paper>> }
    [] part = "collection" -> { <<card>> }
    [] part = "settlement" -> { <<wire, giro>> }

PartReceipts == IF part \in {"approval", "settlement"} THEN {r1} ELSE {r1, r2}
PartBatches == IF part = "collection" THEN {b1, b2} ELSE {b1, b2, b3, b4}

Earlier(x, y) ==
  <<x, y>> \in {<<b1, b2>>, <<b1, b3>>, <<b1, b4>>, <<b2, b3>>, <<b2, b4>>, <<b3, b4>>}

PartProposals == IF part = "collection" THEN CardProposals ELSE WireProposals

\* What is withdrawn and restored.
PartResources ==
  CASE part = "settlement" -> {account, slip}
    [] part = "collection" -> {account}
    [] OTHER -> {box}

PartInstants == IF part = "rates" THEN Instants ELSE {1}

\* Receipts and batches not used yet are alike: the first one is taken.
NewReceipt == {r \in PartReceipts : receipt[r] = AbsentReceipt /\ (r = r2 => receipt[r1] # AbsentReceipt)}
NewBatch ==
  {b \in PartBatches :
     batch[b] = NoRow /\ \A c \in PartBatches : Earlier(c, b) => batch[c] # NoRow}

ReceiptSteps ==
  \/ \E r \in PartReceipts : Act(r)
  \/ \E u \in Users :
       \/ \E r \in NewReceipt, form \in PartForms, entered \in PartInstants :
            Create(u, r, form, entered)
       \/ \E r \in PartReceipts :
            \/ \E form \in PartForms : Replace(u, r, form)
            \/ Submit(u, r) \/ Execute(u, r)
            \/ \E v \in NewReceipt : Reverse(u, r, v)

SettlementSteps ==
  \E u \in Users :
    \/ \E b \in NewBatch, r \in PartBatches \cup {NoBatch}, c \in PartProposals :
         CreateBatch(u, b, r, c)
    \/ \E b \in PartBatches : ConfirmBatch(u, b)
    \/ \E b \in PartBatches, r \in NewBatch : ReverseBatch(u, b, r)

OtherSteps ==
  \/ part = "rates" /\ \E row \in Rates : ApproveRate(row)
  \/ \E q \in Cheques : ReturnCheque(q)
  \/ \E x \in PartResources : Withdraw(x)

\* Only an approval goes further than one return of the receipt; a settlement
\* begins with a receipt that one user has drafted and another executed.
PartBound ==
  /\ part # "approval" =>
       \A r \in Receipts :
         receipt[r].state = "DRAFT" /\ receipt'[r] # receipt[r] => receipt[r].version < 2
  /\ part = "collection" =>
       \A b \in Batches : batch'[b] # NoRow => batch'[b].reverser \in {cyd, NoUser}
  /\ part = "settlement" =>
       /\ receipt' # receipt => batch[b1] = NoRow
       /\ usable' # usable => receipt[r1].state = "EXECUTED"
       /\ receipt'[r1].creator \in {bob, NoUser} /\ receipt'[r1].executor \in {dan, NoUser}
       /\ \A b \in Batches : batch'[b] # NoRow => batch'[b].reverser \in {bob, dan, NoUser}

ContextsBound == Len(contexts') <= 3 /\ \A k \in DOMAIN contexts' : Len(contexts'[k]) <= 3

PartsInit ==
  /\ ReceiptInit /\ ContextsInit
  /\ part \in {"approval", "rates", "collection", "settlement", "composition"}

PartsNext ==
  \/ /\ \/ part # "composition" /\ ReceiptSteps
        \/ part \in {"collection", "settlement"} /\ SettlementSteps /\ UNCHANGED receiptVars
        \/ part # "composition" /\ OtherSteps
     /\ PartBound
     /\ UNCHANGED <<part, contexts>>
  \/ /\ part = "composition" /\ ContextsNext /\ ContextsBound
     /\ UNCHANGED <<part, receiptAllVars>>

PartsSpec == PartsInit /\ [][PartsNext]_allParts

===============================================================================
