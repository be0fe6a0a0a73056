-------------------------------- MODULE DeskParts --------------------------------
(***************************************************************************)
(* What surrounds the documents: the days of a cashbox, amounts on their   *)
(* way through a payment, lists that are read page by page, and reports.   *)
(* They share no state, so a behaviour is about one part, which is about   *)
(* one of the four.  The others stay as they start.                        *)
(***************************************************************************)
EXTENDS CashboxDay

CONSTANTS
  DayParts,            \* the parts about days; the others are "money", "lists" and "report"
  Radix, Places, CeilingPlaces, SourcePlaces, BasePlaces,
  Amounts, Rates, Ceiling, Floors, Withheld, Positions,
  ListRows, MaxMs, Micros, Limits,
  ReportRows, ReportGrants, Covers, PageSize, PerMs,
  MaxChanges,          \* bound on the changes of rows, and on those of facts
  Unused               \* the value of a variable of the other parts

VARIABLES
  part,
  floor, position, payment,
  list, limit, now, entries, walk, steady, changes,
  clock, facts, history, grant, request, report

moneyPart == <<floor, position, payment>>
listPart == <<list, limit, now, entries, walk, steady, changes>>
reportPart == <<clock, facts, history, grant, request, report>>
allParts == <<part, vars, moneyPart, listPart, reportPart>>

Money == INSTANCE MoneyChecks
Lists == INSTANCE KeysetPaging WITH Rows <- ListRows, row <- entries
Report == INSTANCE ReportPages WITH Rows <- ReportRows, Grants <- ReportGrants, Limit <- PageSize

ASSUME PartsAssumption ==
  /\ DayAssumption
  /\ Money!MoneyAssumption /\ Money!DecimalAssumption
  /\ Lists!PagingAssumption /\ Report!ReportAssumption
  /\ DayParts \cap {"money", "lists", "report"} = {}

NoMoney == floor = Unused /\ position = Unused /\ payment = Unused
NoList ==
  /\ list = Unused /\ limit = Unused /\ now = Unused /\ entries = Unused
  /\ walk = Unused /\ steady = Unused /\ changes = Unused
NoReport ==
  /\ clock = Unused /\ facts = Unused /\ history = Unused
  /\ grant = Unused /\ request = Unused /\ report = Unused

PartsInit ==
  /\ Init
  /\ \/ part \in DayParts /\ NoMoney /\ NoList /\ NoReport
     \/ part = "money" /\ Money!Init /\ NoList /\ NoReport
     \/ part = "lists" /\ Lists!Init /\ NoMoney /\ NoReport
     \/ part = "report" /\ Report!Init /\ NoMoney /\ NoList

PartsNext ==
  \/ part \in DayParts /\ Next /\ UNCHANGED <<part, moneyPart, listPart, reportPart>>
  \/ part = "money" /\ Money!Next /\ UNCHANGED <<part, vars, listPart, reportPart>>
  \/ part = "lists" /\ Lists!Next /\ UNCHANGED <<part, vars, moneyPart, reportPart>>
  \/ part = "report" /\ Report!Next /\ UNCHANGED <<part, vars, moneyPart, listPart>>

PartsSpec == PartsInit /\ [][PartsNext]_allParts

-------------------------------------------------------------------------------
(* Properties.                                                             *)

\* An amount survives its way through texts and columns: it is the nearest in
\* its currency, derived the same at submission, and under the creator's ceiling
\* (payment.service.ts:218 and :695).
AmountsSurvive ==
  part = "money" =>
    /\ Money!MoneyTypeOK /\ Money!StorageChangesNothing
    /\ Money!BaseAmountIsNearest /\ Money!NothingAboveCeiling

\* No step lowers a cashbox below its floor and what is withheld but for the
\* misread fraction of a negative position, and none moves the money of a day
\* that has been closed unless it acknowledges a transfer
\* (payment-cashbox-effects.service.ts:101, cashbox-operations.service.ts:468).
CashIsKept ==
  [][/\ part \in DayParts => Booked
     /\ part = "money" => Money!ReleaseKeepsFloor /\ Money!PaymentKeepsFloor]_allParts

\* Who reads a list to its end gets every row that stayed in its place, none
\* twice; who reads a report to its end has all the rows of one state of the
\* facts up to the moment they asked for it; the exceptions are those of the cursors
\* in milliseconds, of a receipt moved between two statements and of a grant revoked
\* during the last page; and what an approver's queue shows can be acted on
\* (receipt.service.ts:38, reporting.service.ts:239,
\* cashbox-operations.service.ts:1297).
PagesFitTogether ==
  /\ part \in DayParts => QueueShowsActionable
  /\ part = "lists" =>
       Lists!PagingTypeOK /\ Lists!SteadyRowsRead /\ Lists!NothingTwice
  /\ part = "report" =>
       Report!ReportTypeOK /\ Report!PagesAreOfOneState /\ Report!ReportIsWhole
=================================================================================
