# A model of the treasury back end

TLA+ modules for the treasury back end in `src/`: a NestJS service over PostgreSQL in which users create, approve,
execute and reverse payments, receipts, transfers and settlements, keep cashboxes, and export to accounting. Every
command is an HTTP request served by one database transaction, so the hard behaviour is not in a function but in the
order in which the transactions of many users commit on shared rows.

## 1. Inventory

Paths are relative to `src/src`.

| Component | State it keeps | Operations | Interacts with | Hard part | What makes it correct |
|---|---|---|---|---|---|
| Payments, drafts and approval (`payments/payment.service.ts`, `payment-approval.service.ts`) | payment rows with state and version; approval snapshot with contexts, steps, actions, aggregation evidence | create, submit, approve, reject, return | access control, master data | concurrent submissions of one group; stale evidence; counts of distinct approvers | approved means complete, on the policy of the live total; splitting is seen |
| Payments, execution (`payments/payment-execution.service.ts`) | execution effects, movement facts, bank instructions, reservations, allocations | execute, reverse | cashbox and banking effects, foundation effects, accounting | funds shared by payments; separation of duties across commands; reverse against confirm | paid once, refunded once, floors kept, no payment by one person |
| Bank instruction outcomes (`banking/bank-instruction-outcome.service.ts`) | instruction state, outcome events | record | payments | a negative outcome needs a reversal; a reversal needs that none is confirmed, and reads that without a lock | no failed transfer without its money back |
| Receipts (`receipts/`) | receipt rows with a form, rates and version; snapshot with composed steps; effects, cheques, collection items | create, replace, submit, act, execute, reverse | cashboxes, banking, cheques, settlement | several policies at once; rates approved late; an item settled before the reversal | every policy is satisfied; what came in is taken back once, and only while unsettled |
| Cashboxes (`cashbox-and-custody/`) | cashboxes, assignments, day cycles, approval requests, counts, numbers | create, open, request and approve, close, reopen | payments, receipts, transfers, numbering | the number is reserved in one transaction and used in the next | numbers, approvals and booked variances agree with the days |
| Banking base data (`banking/banking.service.ts`) | banks, branches, accounts, terminals, gateways | create, list | receipts, payments | | |
| Cheques (`cheques/`) | books, leaves, received cheques | create, void, receive, return | receipts | a cheque recorded twice | a cheque is recorded by one receipt |
| Collection and settlement (`collection-and-settlement/`) | collection items with balances and versions, batches, allocations, effects | propose, replace, confirm, reverse | receipts, banking | several batches allocate one item | balances and movements follow the batches in force |
| Transfers (`transfers/`) | transfer rows, snapshot, transit obligation, assets | create, submit, act, release, acknowledge | cashboxes, banking | custodians frozen at approval, changed by others | debited once, credited at most once, by the named custodians |
| Accounting integration (`accounting-integration/`) | exports, attempts, posting locks, accounting state of payments | export, download, acknowledge | payments | acknowledgements in any order, several systems | one posting per payment; no reversal of a posted payment |
| Authentication (`access-control/auth.*`) | sessions, challenges, enrolments, throttles, proofs | login, verify, enrol, recover, rotate, log out, step up | every command | one-time secrets under concurrency; attempts that die | a code and a proof serve once; what ended a session keeps it ended |
| Grants, delegation and policies (`access-control/access-*`) | grants, roles, delegations, approval policies | grant, delegate, create policies, resolve | every command | the same question is answered in TypeScript and in SQL | nobody hands out more than they hold; one policy is the narrowest |
| Idempotent commands (in every repository) | idempotency records | lock, find, work, record | every command | retries, lost answers | one effect per key, one answer |
| Lists and reports (every service, `reporting/`) | none of their own | read a page | every table | rows and grants change between the pages | what stays is read once; a report is one state, up to its moment |
| Master data, common, database, scripts | reference rows, schema | insert, read, migrate | | | |

`PROJECT.json` lists the components with their status and the hazards with their lines.

## 2. Plan

1. **Payments** (done): `ApprovalPolicy`, `PaymentApproval`, `PaymentExecution` composed over the same rows, the
   abstract `CashLedger`, proofs in `PaymentProofs`.
2. **Transfers** (done): `Transfer` with custodians that change, the abstract `HandOver`, proofs in `TransferProofs`.
3. **Accounting** (done): `AccountingExport`, composed with execution, reversal and bank outcomes, proofs in
   `PaymentProofs`.
4. **Settlement and receipts** (done): `Settlement` over shared items, `StepComposition`, `Receipts` composed with it,
   proofs in `ReceiptProofs`.
5. **Cashbox days** (done): `CashboxDay` with its two transactions, proofs in `DayProofs`.
6. **Locks** (done): `RowLocks` for who waits for whom; `ReverseRace` for the one pair of commands that do not lock what
   they read, with the abstract `OutcomesAtOnce`; composed in `TransactionParts`, proofs in `TransactionProofs`.
7. **Across components** (done): `IdempotentCommand` implements `WriteOnce` (proved in `TransactionProofs`); `Credentials`
   and `Sessions`; `GrantScope`, `AccessGrants`, `PolicyRegistry`, composed in `AuthorityParts` (proofs in `CredentialProofs`
   and `AuthorityProofs`); `KeysetPaging`, `ReportPages` and `MoneyChecks`, composed with the days in `DeskParts` (proofs
   in `DayProofs`).
8. **Proofs** (done for payments, transfers, accounting, receipts and settlements, cashbox days, lists, reports,
   credentials, sessions, grants, delegations, policies, idempotent commands, the race of reversal and confirmation and
   the order of locks): every safety invariant and every refinement a run checks of them.
9. Open as models: petty cash funds, handover initiation, cheque leaf controls, attachments.

## 3. The modules

**`ApprovalPolicy`** has no state: the candidate query and the most specific policy among its rows. A NULL bound or
scope key is a value of its own (`NoMinimum`, `NoMaximum`, `AnyValue`).

**`Authority`** says who may act: for oneself by a grant, or for exactly one grantor when one has no grant.

**`Sums`** defines sums of amounts as the number of their minor units, which lets sums be reasoned about as disjoint
unions in proofs, and proves what those need.

**`PaymentApproval`**: `doc[p]` is a row of `payment_documents`; `snapshot[p]` what its `current_approval_snapshot_id`
points to, with the aggregation evidence and the actions recorded on it. `Create`, `Submit`, `Approve`, `Reject` and
`Return` are the commands; each is one transaction that locks the payment row first, and for aggregating policies the
advisory lock of the group and then its rows, so no other command on the group interleaves and each is one action.
`If-Match` is the version of the row found: the other case is a refusal without effect, and `VersionAdvances` is what
makes the refusal reliable.

**`PaymentExecution`** extends it with `Execute`, `Reverse` and `RecordOutcome` on the same rows, and with the movement
facts, instructions, reservations and allocations. A position is the opening position of the source plus its facts.
A reversal is two actions. `ReadEffects` locks the row of the payment and reads its instructions, whose rows it does not
lock; `Reverse` commits what it then writes, or `GiveUp` ends it. `reversing` are the payments whose row is held in
between. A bank outcome locks its instruction alone, so a confirmation may be recorded in between and be overlooked.
Commands that change the payment, and in `AccountingExport` exports and acknowledgements, wait for its row; those that
only read it as a member of their group find what is committed, and so come before the reversal.
`External` is the writer of reservations and allocations: the code reads, consumes and reverses those rows but no
command of the repository inserts them, so anything their tables allow may happen before execution.

**`CashLedger`** is the abstract specification: a payment is paid at most once, as a whole and not below a floor, and
refunded at most once, as a whole.
`PaymentExecution!ImplementsLedger` is the refinement: the position is read off the
facts, the status off the facts and the `reversedBy` link.

**`Transfer`** is the life of a transfer. `transfer[t]` is a row of `transfer_documents` with its frozen custodians,
`approval[t]` its snapshot and actions, `transit[t]` its row of `transfer_transit_obligations`, `asset[t]` the states of
its asset items, `facts` the movement facts of transfers and `holder[b]` the user of the current primary assignment of a
cashbox. `Create`, `Submit`, `Approve`, `Reject`, `Release` and `Acknowledge` are the commands, each one transaction that
locks the transfer. Completing an approval resolves both custodians and freezes them; release and acknowledgement
resolve them again and compare. `Assign` is external: the code creates assignments with a cashbox and never changes
them, so whoever changes custody may do so between any two commands. Within one it may not: `custodians()` takes the rows
of the endpoints `FOR UPDATE`, and the model assumes that the writer of assignments does too.

**`HandOver`** is the abstract specification: what an item carries leaves one place once, not below a floor, and either
arrives once and whole at the other or is disputed. `Transfer!ImplementsHandOver` is the refinement: the stage is read
off the facts and the obligation, the load off the debit, and no state of the document enters it.

**`AccountingExport`** extends `PaymentExecution` with `CreateExport` and `Acknowledge`, and replaces reversal by
`ReverseAccounted`, which the accounting state of the payment blocks. An export is a record of its state and attempts
per target and payment; `posting` is the row of `posting_locks`. Systems answer in any order, late, twice or with
`OUTCOME_UNKNOWN`.

**`Settlement`**: `item[i]` is a row of `collection_items` with its state, version and balances, `batch[b]` a row of
`settlement_batches` with allocations, fee and difference, `effect` the effects of the batches with their movements.
`CreateBatch` covers proposals and replacements, `ConfirmBatch` and `ReverseBatch` the others. Items come from the
executions of receipts, so the module is a part of `Receipts`, which `EXTENDS` it.

**`StepComposition`** computes the steps of a receipt whose lines fall under several policies: merging of equal steps,
then a topological sort by the first lines. **`PolicyContexts`** builds what it is given, one context and one step at a
time, so that what is composed can be any number of policies of any length. **`Receipts`** has the commands on `receipt_documents`: `Create`,
`Replace`, `Submit`, `Approve` (with return and rejection in `Act`), `Execute` and `Reverse`, `ApproveRate` of the
rate table, `ReturnCheque` and `Withdraw` (an account, an attachment or a cashbox); it composes with `Settlement`, whose
items its executions collect. An item whose
settlement was reversed (`REOPENED_AFTER_REVERSAL`) can be settled again.

**`CashboxDay`**: `cycles[d]` are the rows of `cashbox_days` of a date, `requests` the approval requests, `reserved`
the number reservations by idempotency key. `ReserveNumber` and `CloseDay` are the two transactions of a close; the
server may stop between them and the client repeats the command. An acknowledged transfer credits the cashbox on
whatever date it is, closed ones included (`AcknowledgeTransfer`). Reserved numbers are never abandoned by the code,
so a close that can no longer succeed keeps its number.

**`Credentials`** has the account with its throttle leases, challenges, enrolments and recovery; **`Sessions`** the
chain of session rows, the requests that present tokens, and step-up proofs. A password attempt and a request are
sequences of transactions and any of them may be the last.

**`GrantScope`** (no state) compares containment, as grants are handed out, with coverage, as commands ask for it.
**`AccessGrants`** is grants and delegations over a clock, **`PolicyRegistry`** the creation of approval policies by
concurrent commands and who counts as an approver of one.

**`IdempotentCommand`** is the code every command shares: advisory lock, look-up, replay or work, record, commit. `helper`
says which of the four copies of the code a command uses: its own record by actor, a shared one, one that trusts the
caller's check, or an anonymous one. **`WriteOnce`** is what it promises; `ImplementsWriteOnce` is the refinement, which
reads `decided` and `told` off the records and the answers.

**`RowLocks`** lists, per command, the rows it locks in the order of the code, and lets transactions wait for, and
be aborted by, each other. Which payments, sources, allocations, groups and routes there are is a constant: the commands
of the module change none of them. Waiting in a circle is stated without recursion: `c` is in every set that has whom `c`
waits for and whom its members wait for. **`ReverseRace`** splits reversal and bank outcome into their reads and writes;
**`OutcomesAtOnce`** is the same two commands as one step each. That `ReverseRace` implements it says that whatever comes
of the race comes of the commands one after the other, in some order; that order need not be the one they commit in, and
what the order of the commits is, `PaymentExecution` shows.

**`KeysetPaging`** is any list of the API while rows are inserted, changed and removed; the sixteen kinds of list
differ in the precision of the cursor, a cutoff, where the comparison is made, and whether keys can move.
**`ReportPages`** is a report, several statements per page, with the two watermarks, the fingerprint of the grants, and the
moment the report is of. The first page takes it from a clock in milliseconds before the first digest, and the cursor hands
it on; rows carry the microsecond their transaction began in, and every query leaves out those created after the moment.

**`MoneyChecks`** has the conversions between decimal text and scaled integers, one per place of the code that
decides about money, and sends amounts through them: derived, authorised, stored, printed, derived again, compared.

**`PaymentProofs`** (drafts, approvals, groups, reversals, movement facts, reservations, obligations, the cash ledger,
accounting), **`ReceiptProofs`** (receipts, composed steps, settlement), **`TransferProofs`**, **`TransactionProofs`**
(idempotent commands, the race of reversal and confirmation, locks), **`DayProofs`** (days, lists, reports),
**`CredentialProofs`** and **`AuthorityProofs`** (sessions, grants, delegations, policies) hold the theorems, and `Sums` the
lemmas about sums. Definitions introduced by "Faulty variant" are the mutations `PROJECT.json` names;
no action uses them.

The `MC` modules hold the constants of the runs. Five of them check several modules, or one module under several
constants, in one run: `MCReceipts`, `MCCashDesk`, `MCCredentials`, `MCAuthority` and `MCTransactions`. Each has a
variable `part` that never changes; a behaviour is about one part, chosen in its initial state. A part is an `INSTANCE` of
a module, with `Unused` as the value of its variables in the other parts, or, where theorems are about the same property
(`MCReceipts`, `MCCredentials`), the module itself, which
the `MC` module EXTENDS and whose steps each part bounds by what they may change. The parts of `MCCashDesk` are those of
`DeskParts`, about which the theorem on pages is: any number of parts about days, and one each about money, lists and a
report; `MCNext` says what the steps of a day's part may change. The parts of `MCAuthority` are those of
`AuthorityParts`, which has any number of them and about which the theorems are: a record of its setting tells each from
the others. Those of `MCTransactions` are of the three kinds of `TransactionParts`, about which the theorems are, and
`MCNext` says what stays out of a part. Their properties say what the parts of
one subject promise together, each conjunct under its part, by names the modules define and comment. The parts do not
touch each other.

### Abstractions

Of payments, receipts, settlements and transfers:

- Amounts are whole minor units of one currency (two in `Receipts`); `MoneyChecks` is about their texts.
- Grants, delegations, policies, capabilities and closed days are constants; `AccessGrants`, `PolicyRegistry` and
  `CashboxDay` are where they change.
- Step-up proofs are taken as present and fresh, and each request as new (no replay): `Sessions` and `IdempotentCommand`
  are about those.
- Rates, references, counters, attachments and the audit and outbox rows are left out: no guard that is modelled reads
  them.

Of payments:

- All lines of a document share one (currency, method) context. Requests for payments are left out.
- The requester of a payment is always absent, as it is for every payment the API creates, so a step with
  `REQUESTER_NOT_APPROVER` refuses submission.
- In `PaymentExecution` the accounting state stays `NOT_READY`; `AccountingExport` has it as a variable.
- A reversal's document is a fresh row at version 1. It has no snapshot and its own
  movement facts; like any `EXECUTED` document it counts as a participant of its beneficiary's group, as the query of the
  code has it.

Of transfers:

- What payments have reserved of an endpoint is a constant (`Withheld`), and so is the sum of all facts that are not of
  transfers (`Opening`).
- A bank account has no custodian in the code, so a transfer from or to one is submitted and never approved. The model
  has that behaviour and the run contains such a transfer.
- A cheque's own record is not touched by the commands; the list of a transfer is all there is of an asset.

Of the other modules:

- `Receipts`: a cashbox is usable or not, which stands for its day and state; the events a bank reports of a cheque come
  in any order, since the code takes the event it is told for any past one.
- `Settlement`: one currency, one provider; a proposal is checked without locks and again at its insertion, as one action.
- `CashboxDay`: one cashbox and one currency; its custodian stays the same.
- `Credentials` and `Sessions`: a hash matches or does not, a code is its secret and its counter, cookies and XSRF tokens
  travel with their request, and one account is enough, since nothing is shared between accounts.
- `RowLocks`: foreign-key share locks, idempotency keys and share locks of reference rows are left out: no command of
  the module locks such a row otherwise. Aborted transactions are not repeated by the code of these commands.
- `ReportPages`: the tables of a report are one sequence of facts; a digest is the length of its history, since no state of
  rows with versions and timestamps comes back. Server and database have one clock. Allocations and effects are cut off at
  the moment of the report like its rows, and stand for rows of their own.

## 4. The runs

| Run | Question | Bounds |
|---|---|---|
| `approval_steps` | Does APPROVED mean complete, by eligible distinct approvers, under the policy of the group's live total? | two payments of 1 or 10, two policies (one step up to 9; a step of one approval, then one of two, from 10), three users, one acting only as a delegate |
| `payment_lifecycle` | Do facts, reversals, outcomes, separation and floors hold together over the whole life? Do payments implement the ledger? | three documents, so that two payments or one payment, its reversal and an attempt to reverse that fit; two lines on one cashbox and one on an account; three users |
| `payment_group` | Can splitting a payment hide its total? | three payments to one party, `MaxVersion` 3, executions and reversals included |
| `payment_funds` | Are obligations overpaid, or is money withheld twice? | two payments, two dates with one closed, one obligation, amounts 1 and 2 against a total of 2 or none |
| `stale_aggregate` | Does a stale pending payment become actionable again? It does not. | two payments, one user for each duty |
| `transfer_custody` | Is every movement made by the custodian of the moment, whom the rules kept out of the approval? Is money conserved? Do transfers implement hand-overs? | two transfers on a till of 3 with 1 reserved: 2 out with a cheque under two steps with separation rules, 1 back under a policy without steps, 2 to an account, one plan without a route; the till is kept by one of two users or nobody; a receiver counts 0, 1 or 2 |
| `accounting_posting` | Is a payment posted by one system at a time, is what it shows the last answer, and is a posted payment never reversed? | one payment and room for its reversal, two systems of which one separates exporter and executor, one with a closed period and a former mapping |
| `receipts_settlement` | Are all policies of all lines satisfied on approval? Do effects, balances and movements follow receipts and batches, at the rates of the submission? | five parts, see below |
| `cash_desk` | Do cashbox days agree over stops and repeats? Do amounts survive their texts, and lists and reports the changes between their pages? | five parts |
| `account_credentials` | Do throttle and codes hold against concurrent attempts, and is what is granted proved? | three parts |
| `authority` | Does a session end when it was ended? Does nobody hand out more authority than they hold? | seven parts |
| `transactions` | Does a key make one document? Has the race of reversal and confirmation only the results of the atomic commands, in some order? Does every command end? | five parts |

The properties of each run, stated in the comments of the modules that define them:

| Run | Module and configuration | Properties |
|---|---|---|
| `approval_steps` | `MCPaymentApproval`, `ApprovalSteps.cfg` | `ApprovedIsComplete`, `ApprovedOnLiveTotal` |
| `payment_lifecycle` | `MCPaymentExecution`, `PaymentLifecycle.cfg` | `ExecutionTypeOK`, `FundsFollowApproval`, `ReversedByOutsider`, `NegativeOutcomeIsReversed`, `ConfirmedUnlessOverlooked`, `ImplementsLedger` |
| `payment_group` | `MCPaymentExecution`, `PaymentGroup.cfg` | `SplitIsSeen`, `GroupTotalsHold` |
| `payment_funds` | `MCPaymentExecution`, `PaymentFunds.cfg` | `ObligationNotOverpaid`, `ExecutedHoldsNothing` |
| `transfer_custody` | `MCTransfer`, `TransferCustody.cfg` | `TransferTypeOK`, `ApprovedIsComplete`, `CustodianDidNotApprove`, `MoneyConserved`, `FloorHolds`, `CompletedIsWhole`, `CashMovesInCustody`, `ImplementsHandOver` |
| `stale_aggregate` | `MCPaymentExecution`, `StaleAggregate.cfg` | `StaleIsTemporary` |
| `accounting_posting` | `MCAccounting`, `AccountingPosting.cfg` | `PostingsAgree`, `PostedIsFrozen` |
| `receipts_settlement` | `MCReceipts`, `ReceiptsAndSettlement.cfg` | `EveryPolicyApproved`, `EffectsFollowReceipts`, `CreditedOnce`, `ComposedAsAsked`, `SubmittedAndReversed` |
| `cash_desk` | `MCCashDesk`, `CashDesk.cfg` | `DaysAreSound`, `AmountsSurvive`, `PagesFitTogether`, `CashIsKept` |
| `account_credentials` | `MCCredentials`, `AccountCredentials.cfg` | `BudgetHolds`, `CodesServeOnce`, `GrantsAreProved` |
| `authority` | `MCAuthority`, `Authority.cfg` | `SessionsAreSound`, `AuthorityIsContained` |
| `transactions` | `MCTransactions`, `Transactions.cfg` | `LocksAreSafe`, `ImplementsWriteOnce`, `ActsAtOnce`, `EveryCommandEnds` |

The parts:

| Run | Part | Bounds |
|---|---|---|
| `receipts_settlement` | `approval` | one receipt of a cash and a cheque line, in both orders, under two policies sharing a step, `MaxVersion` 4 |
| | `rates` | two receipts in dollars or with one and the same cheque, rates approved at two instants, one of them twice |
| | `collection` | two receipts of one card line and two batches that settle a third or all of them |
| | `settlement` | one executed receipt of two transfers of 3, four batches, six proposals of which two are refused, three users of whom one acts for another |
| | `composition` | up to three policies of up to three steps over three kinds of step, in every combination |
| `cash_desk` | `closing` | two dates, two keys, two numbers, two requests, two cycles, counts 0 and 1 against at most two postings |
| | `queue` | the first date alone, two keys, three requests, one posting or one cheque that comes |
| | `money` | base 10, two places for the code's eight, every position from -300 to 300 in steps of 5, floors on both sides of zero |
| | `lists` | three rows, limits 1 and 2, two changes, sixteen kinds of list |
| | `report` | four rows in pages of one, two grants, two commits or changes of grants; two milliseconds of two microseconds, rows created in the first microsecond, in the next, or late in the second millisecond |
| `account_credentials` | `throttle` | two attempts at once, `Limit` 3, `DelayFrom` 2, one rehash, one clearing of the throttle |
| | `codes` | one attempt, challenge, enrolment and recovery at a time, one secret, three counters, two changes of the password; the enrolment is in time and not mistyped |
| | `enrollments` | two enrolments of two secrets, one attempt and recovery at a time, two counters |
| `authority` | `rotation` | three rows of at most two sessions, two requests of which one logs out, one epoch, no absolute end |
| | `commands` | one row that is in use, two proofs, two commands, two requests, one change of the epoch |
| | `grants` | two requests, three grants, two roles, two instants, one limit spelt in two ways |
| | `containment` | two generations of grants with every kind of limit |
| | `delegation` | every delegation of a grant with a ceiling and any currencies, or with a ceiling and a list of methods |
| | `policies` | three policies of two concurrent commands over a branch, a currency and amount bands |
| | `checks` | every scope of a policy against author and approver grants of every kind |
| `transactions` | `keys` | three commands on one key, one sent twice at once; two actors, two bodies, one crash |
| | `retries` | the same without the second actor |
| | `race` | two reversals, two clerks, two instructions |
| | `waits` | every pair of commands, those that deadlock included; the third stays out |
| | `order` | every three of the commands that lock in one order, over two tills in all roles |

`MaxVersion` bounds submissions (a payment may be returned and submitted again): a payment at that version is not
submitted any more. Three versions allow one return and a second submission of a group member, which is what evidence
has to survive. Payments are symmetric, and so are transfers. Payments may stop when every document is final, so deadlock
is not checked for them.

In `transfer_custody` the till holds enough above its reservation for one release of 2 and not for a second, and Dan can
return 1 only after receiving 2: both sides of the floor are reached, and the order of the transfers matters. Two users
keep the till because the rules compare a custodian at approval with one at the time of an earlier action; a third would
repeat the second. Counts of 0 and 1 against amounts of 1 and 2 are short, exact and, for the return, in excess. Custody
may always change, so a state without successor would be an error of the model and deadlock is checked.

The bounds of the parts are the smallest at which what they ask about can happen, and each property has a mutant of
the code that breaks it under them. Two of everything that competes (requests, keys, clerks, batches), since the code
compares with one other row at a time, and these are symmetric where they start equal (`MCReceipts` takes the first
receipt and the first batch that is not used yet instead); a third row where a chain is
rotated, or a list is cut, twice. In the part `money` two places show every carry, sign and rounding that eight show,
and `Radix` 10 keeps halves between digits.

What the runs show besides (each is stated in its property, so a fix of the code would show as a stronger one; the names
are of the modules, the runs check them within the properties of their parts):

- A payment from a cashbox whose position is negative and not whole may pass the floor by less than two units
  (`PaymentKeepsFloor`, `payment-cashbox-effects.service.ts:101`); transfers read signs correctly (`ReleaseKeepsFloor`).
- A logout whose update waits behind a rotation of the same session misses the row the rotation appends (`LogoutHolds`).
- Lists whose cursor carries milliseconds (settlements, policies, delegations, day approvals) may skip or repeat rows of one
  millisecond; the receipts' cursor takes its date from a second statement (`SteadyRowsRead`, `NothingTwice`).
- A reversal may commit after a confirmation it did not see: it reads the instructions, the confirmation commits, the
  reversal commits. The payment is then `REVERSED` with a `CONFIRMED` instruction (`ConfirmedUnlessOverlooked`,
  `payment-execution.service.ts:219`, `bank-instruction-outcome.repository.ts:169`). The other order, a reversal that
  begins after the confirmation, is refused.
- A row created after the moment of a report, or later in its millisecond, and committed before the first digest is in both
  digests and on no page, and the reader is not told: a report is the rows created up to its moment, of one state of the
  tables, which may be a later one (`ReportIsWhole`, `reporting.service.ts:234`).
- A grant revoked while the last page of a report is read leaves what it alone covers out of that page, without an error
  (`ReportIsWhole`).
- An approver counted when a policy is created may be unable to approve in another currency (`CountedCanApprove`), and a
  delegation whose only narrowing is a ceiling's currency takes no effect (`DelegationsTakeEffect`).
- Executions that share an obligation or reservations, actions on one group, and releases from a user can deadlock;
  PostgreSQL aborts one and the client sees an error (`OrderedNeverDeadlock` names the commands that cannot,
  `EveryCommandEnds` says that all end).

**Fairness.** Two runs need it. `stale_aggregate`: weak fairness of the approval commands of every payment, that is,
users who keep retrying, which is the client's behaviour the problem's `retryable` flag asks for. The run shows that
even then a pending payment whose evidence is stale stays so for ever: all three approval actions demand fresh evidence,
and only a submission, which demands a draft, writes it (`common/problem.ts:92`, `payment-approval.service.ts:398`).
`transactions` has fairness in two parts, each condition for the steps of its part alone (a behaviour of another part
owes nothing). In `retries`: weak fairness of sending and of serving, since a client repeats and the server works off
what it has; strong fairness of taking the advisory lock, which PostgreSQL grants in the order of the requests, and of
hearing the answer, that is, not every answer is lost. In `waits`: weak fairness of each command's own steps and of
PostgreSQL's deadlock detector.

## 5. The proofs

The theorems of `PaymentProofs` are about `PaymentExecution!Spec`, for every value of the constants
that satisfies `PolicyAssumption`, `AuthorityAssumption`, `PaymentAssumption` and `ExecutionAssumption`: any number of
documents, users, policies and sources, and any finite set of lines (a document has finitely many, and a position is their
sum). Those of `TransferProofs` are about `Transfer!Spec`, under `PolicyAssumption`, `AuthorityAssumption` and
`TransferAssumption`; those on accounting (also in `PaymentProofs`) about `AccountingExport!AccountingSpec`, under the assumptions of
payments; those of `ReceiptProofs` about `Receipts!ReceiptSpec`, of which settlement is a part, under
`ReceiptAssumption`, `SettlementAssumption`, `AuthorityAssumption` and `PolicyAssumption`, and about
`PolicyContexts!ContextsSpec`, which has none; those of `DayProofs` about `CashboxDay!Spec` under `DayAssumption`
and about `DeskParts!PartsSpec` under its `PartsAssumption`: rows are finitely many numbers, in the order the queries
compare them by; pages hold at least one row, and a millisecond at least one microsecond; a moment may be a whole millisecond; every grant covers some of the rows;
and no part about days has the name of another part. Those of `CredentialProofs` about the `Spec` of `Credentials` under
`CredentialAssumption`, which they state as a hypothesis since that module is instantiated; those of `AuthorityProofs` about
`Sessions!Spec` and about `AuthorityParts!PartsSpec`, under `PartsAssumption`: any number of settings of grants and of
policies, each with its own requests, roles, limits, dimensions and people. That assumption asks that the parts are
different, that contexts name their base currency, that an organization starts from at most one grant, over the whole of
it, and that what the code tells from all values (no ceiling, no currency, no record) is none of them. Those of
`TransactionProofs` are about the specifications of `IdempotentCommand` and `ReverseRace` and about
`TransactionParts!PartsSpec`, under its `PartsAssumption`: ids are numbers in the order the code sorts by, what others have
reserved of one source is not reserved of another, and a payment is made before the document that reverses it.

### Payments

**Types** (`TypeCorrect`). The type invariant is inductive as it stands; there is one lemma per command.
The part that is not routine is that a submission records a natural basis: the members of the group are a finite set of
rows that have a content (`LiveTotalType`), so that `Sums!SumType` applies.

**Splitting is seen** (`SplitSeen`). `SplitIsSeen` is inductive only together with the types and
`AbsentIsBlank`, that a document that does not exist yet has no snapshot: a reversal turns such a row into an `EXECUTED`
one, which is in the group of the payment it reverses and would, with a snapshot, be a member nobody counted. The
argument names what each command does to a group: a submission counts everything in it (`SubmissionCounts`), every
other command brings no aggregated payment in (`OtherCommandsKeepGroups`), and evidence is never rewritten.

**Approvals are complete** (`ApprovalsComplete`). The code asks, at each action, which steps lack approvers and approves
when none is left. `CompleteInvariant` says that this is so of what is approved (`NothingLeft`), that the actions of a
snapshot are finitely many, and that none is by or for the creator where its step forbids it (`WellRecorded`). Counts of
distinct actors are then counts of those the rule admits.

**Groups are judged on totals** (`GroupTotals`, `ApprovedOnTotals`). That of two members one counted the other is not
enough: somebody must have counted all the others. `PartsAreSeen` says so of every part of a group, by its last
submission, and is inductive since a command changes the membership of one payment at a time. `BasisIsRecorded` says
what counting means: the basis is the sum of what was counted and the payment's own, and the policy was resolved on it.
Contents of existing payments are final (`ContentsKept`), so a basis stays the sum it was.

**Versions** (`VersionsAdvance`) follows from the types alone, by what each command does to a row
(`ApprovalMoves`, `ExecuteMoves`, `ReverseMoves`). No run repeats `VersionAdvances`.

**Reversals and outcomes** (`OutsidersReverse`, `NegativeOutcomesReversed`, `ConfirmationsStand`). The three rest on
`ReversalInvariant`: a payment with a reversal link is `REVERSED` and the linked document `EXECUTED` or `REVERSED`
(`ReversalsLinked`). That strengthening carries the argument. Without it a submission or a return could replace the
snapshot of a reversed payment and so forget its approvers, and a negative outcome could find a link on a payment that
was not reversed. `ConfirmationsStand` is an action property: leaving `CONFIRMED` demands a reversal, which the state
`EXECUTED` says there has not been; a reversal commits only what it has read before, and a confirmed line refuses the
reading, so a reversal that commits over one had read before the confirmation. No other command changes such a row.

**Funds follow approvals** (`FundsFollow`). `BooksInvariant` names the facts of each document exactly: none before
execution, one debit per line of a payment, one credit per line of a reversal, and a reversal undoes one payment, of its
own content (`Booked`, `Linked`). Then a command's facts are new ones, a position changes by the amounts of one document
(`Sums!SumAdd`, `SumImage`), and the check of the floor before the write carries the floor through it. The floor is
stated of the sources that start at or above it; one that an external writer left below is the code's to refuse, not to
repair. `ApprovedInvariant` carries completeness and the separation of people from the approval to the execution.

**Reservations and obligations** (`ReservationsConsumed`, `ObligationsNotOverpaid`). Their writer is external and may
act before any command, so what carries the invariant is that it refers to no document that does not exist
(`UnreferencedIfAbsent`) and touches none that was executed. An execution compares the sum of the settled allocations
with the known total under the lock of the obligation, and a reversal only removes one.

**The ledger** (`LedgerImplemented`). The refinement of `CashLedger`, step by step: an execution is a payment, a reversal
a refund, and every other command a stutter, since facts, links and hence status, outflow and positions stay.
`BooksInvariant` reads the abstract state off the concrete one, and `FloorHolds` discharges the abstract guard.

### Transfers

**Types and custody** (`TransferTypes`, `CustodiansDidNotApprove`, `CashInCustody`). The types need one strengthening, `Planned`: a
transfer that exists has a plan and a creator, so that what the commands read from its plan has a type. That
no custodian approved is then preserved because freezing compares the custodian with all recorded actions, the last one
included, and no action is recorded afterwards; a comparison at each approval alone would not be inductive, since custody
changes in between. `CashInCustody` is an action property and follows from the types and the two commands that post.

**Approvals are complete** (`TransfersApprovedComplete`), by the argument of payments.

**Floors** (`FloorsHold`). `StepFacts` states what a step can do to the facts: nothing, one debit that the source affords,
or one credit. With `FinitelyMany`, that the facts are finite, a position is a sum that `Sums!SumAdd` lets one step
change by one amount.

**Conservation** (`MoneyIsConserved`). Inductive is `Conserved`: the difference of what was debited and credited is what
the open and disputed obligations owe, the obligation follows the state of the document (`ObligationFollows`), and a fact
exists only for a transfer that got that far (`FactFollows`). The last says that the fact a command posts is a new one;
without it a union with `facts` might add nothing while the obligation opens.

**Completion** (`CompletedAreWhole`) and **hand-over** (`HandOverImplemented`). What the acknowledgement compares, count
and assets, is what it writes. For the refinement of `HandOver`, `Carried` names the facts of each transfer; a release is
a departure, an acknowledgement an arrival or a dispute by what it counted, and a change of custody a stutter.

### Accounting

**Exports agree** (`ExportsAgree`), **what is posted is frozen** (`PostedFrozen`). Each command of `AccountingSpec` is one
of payments (`PaymentSteps`), so their invariants hold under the exports. `PostingInvariant` adds what an export's attempts
tell (`Told`), that the payment carries the state of its only export (`Followed`), and that a lock that was taken names
its target. An executed payment is changed only by a reversal that accounting state and lock let through (`ClosedMoves`),
and both block it once posted.

### Receipts and settlement

The induction is over `ReceiptInv`, and beside it `Covered`. Both are about any number of receipts, forms, items,
batches and policies.

**What is composed is best** (`CompositionsBest`), for any policies, opposite orders included. `Composed` is a recursive
function, of which one invariant per round is proved by the least round that breaks it (`Sums!LeastNat`): the
rounds so far are distinct steps, each after its predecessors, each the first of those that were ready. If an order keeps
all policies, then at every round the first step of it that is not yet taken is ready, so the composition does not stop;
and where an order first differs from the composed one, its step was ready and not the first.

**Items are credited once** (`ItemsCreditedOnce`). What an item has outstanding is what no batch in force has taken of it
(`Balanced`): confirming adds a batch to a sum, reversing takes the same batch out, so both are `Sums!SumAdd`. An
item row exists before any batch names it (`ItemsOfBatches`). A confirmation demands the version that the batch saw and
advances it, so that what a confirmed batch saw stays below the item's version (`SeenBefore`) and no later one can confirm
on it. For the movements of an account, batches are mapped to their credits and their reversals one to one
(`EffectsOfBatches`, `ReversalsPaired`, `Sums!SumImage`), and a batch and the reversal of it cancel. One batch in
force per lineage needs that what is replaced was reversed, and is replaced at most once (`ReplacedOnce`).

**Effects follow receipts** (`EffectsFollow`). `Brought` names the recorded lines of each receipt, in both directions, and
the items that it opened: none before its execution, exactly those of its form afterwards. That is why an execution's
lines are new ones. `Shaped` pairs a reversed receipt with its one reversal. `Accompanied` keeps that somebody other than
the executor had a part in it: the code compares at the execution, with the approvers of then, and what makes it last is
that nothing is approved afterwards.

**Every policy is approved** (`PoliciesApproved`). The code keeps no policy, only composed steps. `AsksAll` says that the
steps of every policy of every line are among the recorded ones. At the submission that is so because a composition that
is not refused has all steps (`ComposedHasAll`) and because every line has its (currency, method) among the contexts: it
is that of the first line like it, and every first line has its number (`FirstLine`). `Counted` ties the version of the receipt to the
number of its actions; a returned receipt that is submitted again starts a count of its own. `RightlyApproved` keeps the separation of
each step. The approval asks that no step is `Incomplete`, and an execution or a reversal changes neither steps nor
actions.

**Submissions and reversals** (`SubmissionsAndReversals`), an action property: a submission derives the lines again and
compares, and a reversal finds each item it closes with nothing credited. With `Balanced`, that says that no batch in
force has any of it.

### Cashbox days

**Days are sound** (`DaysSound`). `DayInvariant` has four parts. `RowsStand` says what each row of a day stands on: a closed
one with a variance, and a reopened one, on an approved request of its kind, date and source cycle, with the amounts and
cheques of that request. Requests are never removed and approved ones never change (`RequestsKept`), so this lasts. Kind
and source of a request determine the cycle, which is why an approval serves once. That `n = 1` is the only cycle that
starts from no row needs that the first cycle of a date is never a reopened one. `ApprovedByOthers` keeps requester and
approver apart. `Numbered` adds to the property that numbers are below the next one and that the cycle of a consumed
number is closed: a close overwrites no closed cycle (`Wrote`), so it cannot take the number of an earlier one. `Typed` has
the kinds of values; what commits a close finds a reservation.

**Money is booked** (`MoneyBooked`), the part of `CashIsKept` that is about days. A book is a fold of the community modules over
the dates up to the day, and the close adds the difference of the count and that fold to one date. `FoldChanges` says
that the fold then changes by as much; it and the existence of the fold's recursive function are proved by the smallest
subset that would break them, since the order in which a fold takes its elements is not known.

**Pages fit together** (`PagesFit`), about `DeskParts!PartsSpec`, for any rows, moments, page sizes, grants and changes.
Its three subjects share no state, and each rests in the parts of the others (`ListsRest`, `ReportRests`).

*Lists.* The sixteen kinds order rows by their moment, to the microsecond or the millisecond, and by id, which is a strict
order of any two rows (`RowOrder`). A finite set can be written in it (`InOrderExists`, by the number of rows before each
one), so that the page a query returns exists and is the beginning of all it looks for: a row it leaves out comes after
all it has, and only of a page that is full (`PageIs`). A cursor remembers less than that order compares, so
`AfterPlaces` says where it errs: among rows of the cursor's own millisecond (`Blurred`). `ListInvariant` says of a walk
that stands at a cursor that each steady row was read, is one of the blurred or lies after it (`NoneLost`), and that no
row read lies after it but for the named exceptions (`NoneAgain`). Receipts are read in two statements, so the same is
kept of a page between them (`PageFits`), and given up when one of its rows is moved meanwhile (`walk.torn`). What others
do between two pages makes rows unsteady and never steady (`OthersMeanwhile`).

*Reports.* `ReportInvariant` says that what a request has in hand is the page of the facts under its first digest, as long
as those are the current ones (`PageOf`); that the cursor stands at the last row read, with everything granted of the
recorded facts read before it (`ReportStands`); and that the request has the scope the cursor was issued under
(`RequestStands`). The moment of the report is a natural number that is the same in request, cursor and report, so
what a page leaves out as too late every page leaves out; time that passes (`TimePasses`) changes none of it. A grant that ended never returns (`Administration`), and equal digests before and after the list are
equal facts, so the page that passes the second comparison continues the pages before it (`SecondDigest`).

*Queues.* The conditions of the query imply those of the command, whatever the state, so this part needs no invariant
(`QueueIsActionable`).

### Access control

**The budget of guesses** (`BudgetsHold`). Failures counted and places leased stay within the limit, although attempts
run at once and may die with their lease. A place is taken under the lock of the throttle and given back, or turned into a
failure, once; clearing the throttle starts a generation with no places. The leases are finitely many, so one step changes
their count by one.

**Secrets serve once** (`SecretsServeOnce`). `CodesSpent` bounds all codes that were granted something by the account's
counter, for the account's authenticator; the counter grows past a code in the step that takes it, so it is later than
every one before. An enrollment ends the others that are open (`OneIsOpen`) and completes only while the account has no
authenticator, so that the account's secret is of what was enrolled (`EnrolledIsTaken`). A change of the password consumes
the challenges (`ChallengesAreCurrent`).

**What is granted is proved** (`GrantsProved`), an action property: what an attempt verified is the password it read
(`CheckedIsRead`), and the step that grants compares the version of the account with the one read. The proof uses that
there is a secret to enroll (`Secrets` is not empty).

**Sessions** (`SessionsSound`), for any number of rows, requests, proofs and commands. The invariant has a part for each
promise. One chain, one tail: predecessors are rows of the same session, every session has exactly one row without a
successor, and only that one is active (`Chained`); a rotation appends to an active row, which is therefore the end. What
was ended stays ended: a revocation under way reaches every revocable row of the sessions it ends (`SweepClosed`), which
needs the account's lock, since rows are appended under it only; afterwards none of them is active (`EndedIsOver`), and a
session without an active row gets none (`OverStays`). A logout takes no such lock, so its rows are complete only unless
the session was rotated meanwhile (`LeavingReaches`), which is how the property is stated. Protected commands: what
executed one is spent and stays so, and what admitted a request is a proof asked for its command (`Guarded`); execution
looks at the proof again, and recovery spends every proof given.

**Authority is contained** (`AuthorityContained`), for grants, delegations and policies. `GrantInvariant` keeps of every
grant that names a source that this source exists and authorizes it (`Sourced`), and the same of every request that has
passed its check and not yet committed (`RequestsSourced`). What makes it
last is that grants and roles are never changed, so what a request read is still so when it commits. That a grant is given once
(`GrantsDiffer`) rests on the comparison at the commit, under the lock, not on the one before it. `DelegationsNarrow`
keeps what creation compared: a delegation narrows its grant and names only dimensions and currencies the grant admits.
The rest is about scopes alone: containment passes on what is allowed (`ContainedAllows`), the lower ceiling is below both
(`LeastIsGiven`), so that a narrowed delegation allows nothing its grant does not (`DelegatedAllows`), and what the lists
compute of a scope is what a command checks (`ShownAllows`, `PaymentsListed`, `ExportsListed`, `HandoversCovered`).

`PolicyInvariant` keeps that of two policies that overlap one is strictly narrower (`PoliciesApart`), and that a request
which passed its check under the lock passes it still (`ClearStays`). One narrowest candidate is then a matter of order:
being narrower is transitive and irreflexive (`DominanceOrder`), candidates of one document overlap, so any two are in
it, and finitely many have a first (`FirstOfLine`).

### Transactions

**One document per key** (`CommandTypesAlways`, `CommandsImplementWriteOnce`), about
`IdempotentCommand!Spec`, for any number of commands, keys, attempts and crashes. The refinement needs `IInv`: the
advisory lock is held by one attempt (`LockExclusive`), an attempt at work found no record of its key (`FreshIsAbsent`),
and documents, records and answers point at each other (`DocumentsRecorded`, `RecordsPoint`, `AnswersAreRecorded`). With
them the step that commits finds its name undecided, and every other step is a stutter or tells what was decided.

**Reversal against confirmation** (`NegativesCorrected`, `RaceActsAtOnce`), about
`ReverseRace!RaceSpec`, for any number of reversals, clerks and instructions. `RaceInvariant` says what a command in
the middle of its work may rely on: the kinds of values, that a reversal which holds the payment read it as executed
(`ReversalsHold`), and that a clerk who holds an instruction read it as it is (`OutcomesHold`). A confirmation that
commits between the read and the write of a reversal is not seen by it; the refinement shows it after the reversal,
where the atomic commands allow it. `RaceLocks` adds whose the locks are (`LinesHeld`, `SharedOrHeld`) and that versions
count what was recorded (`VersionsCount`).

**Locks** (`TransactionsLockSafely`), for any number of transactions, rows and tasks. `LockInvariant` says that a
transaction holds the locks it has asked for so far and no others (`LocksTaken`), that the queue remembers who came
before whom (`QueueInOrder`), and that a command that locks in one order never waits for a row it holds already
(`NothingHeldIsAwaited`). The last one is what an exclusive request after a shared one would break, as that of a release
by a user does. `Shape` is what the requests of the other commands have in common (`OrderedShape`): each new row comes
later than those held, by kind or, among documents and sources, by id. The exceptions are users, who are only
shared, and reservations, which are locked under their source. Sorting the cashboxes of a transfer gives this order
(`AscendingIs`), and so does the age of a payment and its reversal. `BlockersAreAhead` then says of whom a command waits
for that it runs on, asks for a later row, or waited earlier for the same one. Such commands are closed under waiting
(`LaterOrder`) and the command is none of them, so that no circle leads back to it (`NeverInCircle`).

### Model-checked only

Of the cash desk: `AmountsSurvive` and the floors of `CashIsKept`.
The library's induction theorems take an operator and cannot be used here; where a proof needs induction over numbers it
goes by a least counterexample (`Sums!LeastNat`), as for `Composed`, for books and for the order of a list. `AmountsSurvive` and
those floors are about the digits of texts, which are many such definitions at once, and are left to the run. Liveness
(`StaleIsTemporary`, `RetriesAreAnswered`, `EveryCommandEnds`) is beyond the proof system and stays with TLC, as is
ENABLED: that what a queue shows can be acted on is said by the guard of the command, `MayAct`.

## 6. Not modelled

- Petty cash funds, cashboxes and handover initiation: single inserts under a grant; no command of the repository settles
  a fund, or completes or cancels a handover, so there is no protocol yet.
- Banking base data, parties, branches, units, currencies, methods, numbering rules, print templates, cheque books: rows
  that are inserted once. Their lists are in `KeysetPaging`, their repeats in `IdempotentCommand`.
- Cheque leaves: one versioned step from `AVAILABLE` to `VOID` or `LOST`.
- Payment requests: drafts no other command reads.
- Attachments and provider references, taken as given where a guard asks for them.
- The projections of reports, views, audit and outbox rows: written or computed in the transactions that are modelled, read by no
  command.
- Hashing, token formats, cookies, problem mapping, request parsing, configuration, migrations and scripts.
