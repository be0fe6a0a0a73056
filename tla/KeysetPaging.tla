---------------------------- MODULE KeysetPaging ----------------------------
(***************************************************************************)
(* A client reads a list page by page while others insert, change and      *)
(* withdraw rows.  Every list of the API is paged by a keyset: the cursor  *)
(* carries the sort key of the last row, the next page are the first rows  *)
(* behind it.  The lists differ in four points, which make a kind:         *)
(*   precise  the key of the cursor is the key of the row; otherwise the   *)
(*            row keeps microseconds (DEFAULT now()) and the cursor, a     *)
(*            JavaScript date, milliseconds                                *)
(*   cutoff   later pages leave out rows created after the first page      *)
(*   inMemory the rows behind the cursor are picked by comparing views,    *)
(*            which carry milliseconds too, and not by the query           *)
(*   moves    commands can change the key of a row; the ids of a page and  *)
(*            their views, with the key for the cursor, are two statements *)
(* Newest first, equal keys by descending id.                              *)
(***************************************************************************)
EXTENDS Integers, Sequences, FiniteSetsExt, SequencesExt

CONSTANTS
  Rows,        \* ids, which are numbers to compare
  MaxMs,       \* bound on the clock, in milliseconds
  Micros,      \* the fractions of a millisecond, 0 included
  Limits,      \* page sizes a client asks for
  MaxChanges   \* bound on changes of rows

PagingAssumption ==
  /\ Rows \subseteq Nat /\ IsFiniteSet(Rows)
  /\ MaxMs \in Nat /\ 0 \in Micros /\ Micros \subseteq Nat
  /\ Limits \subseteq Nat \ {0}
  /\ MaxChanges \in Nat

VARIABLES
  list,    \* the kind of list that is read
  limit,   \* its page size
  now,     \* the clock
  row,     \* row[r]: its state, its key and when it was created
  walk,    \* the client's reading: cursor, cutoff and what it got
  steady,  \* the rows that were in the list all along with the same key
  changes  \* how many changes there were

vars == <<list, limit, now, row, walk, steady, changes>>

-----------------------------------------------------------------------------
(* The kinds of lists                                                      *)

Kind(precise, cutoff, inMemory, moves) ==
  [precise |-> precise, cutoff |-> cutoff, inMemory |-> inMemory, moves |-> moves]

SettlementBatches == Kind(FALSE, TRUE, FALSE, FALSE)
ApprovalPolicies == Kind(FALSE, TRUE, FALSE, FALSE)
Delegations == Kind(FALSE, TRUE, FALSE, FALSE)
CollectionItems == Kind(TRUE, TRUE, FALSE, FALSE)
DayApprovalRequests == Kind(FALSE, FALSE, TRUE, FALSE)
AccountingExports == Kind(TRUE, FALSE, FALSE, FALSE)
Payments == Kind(TRUE, FALSE, FALSE, FALSE)
Transfers == Kind(TRUE, FALSE, FALSE, FALSE)
Cashboxes == Kind(TRUE, FALSE, FALSE, FALSE)
BankTypes == Kind(TRUE, FALSE, FALSE, FALSE)
Banks == Kind(TRUE, FALSE, FALSE, FALSE)
BankBranches == Kind(TRUE, FALSE, FALSE, FALSE)
BankAccounts == Kind(TRUE, FALSE, FALSE, FALSE)
Terminals == Kind(TRUE, FALSE, FALSE, FALSE)
Gateways == Kind(TRUE, FALSE, FALSE, FALSE)
Receipts == Kind(TRUE, FALSE, FALSE, TRUE)

Lists == {SettlementBatches, ApprovalPolicies, Delegations, CollectionItems,
          DayApprovalRequests, AccountingExports, Payments, Transfers, Cashboxes,
          BankTypes, Banks, BankBranches, BankAccounts, Terminals, Gateways, Receipts}

-----------------------------------------------------------------------------
(* Keys and cursors                                                        *)

Moments == [ms : 0..MaxMs, us : Micros]
Before(a, b) == a.ms < b.ms \/ (a.ms = b.ms /\ a.us < b.us)
Truncated(m) == [m EXCEPT !.us = 0]

None == [none |-> TRUE]
Blank == [in |-> FALSE, key |-> None, created |-> None]
Present(r) == row[r] # Blank
Listed(r) == row[r].in

\* r comes after the place <<key, id>> of the list's order.
Behind(key, id, r) == Before(row[r].key, key) \/ (row[r].key = key /\ r < id)

\* compareApproval: the same on views, where the fraction is lost
BehindView(key, id, r) ==
  \/ row[r].key.ms < key.ms
  \/ (row[r].key.ms = key.ms /\ r < id)

After(cursor, r) ==
  \/ cursor = None
  \/ cursor # None /\ (IF list.inMemory THEN BehindView(cursor.key, cursor.id, r)
                                        ELSE Behind(cursor.key, cursor.id, r))

WithinCutoff(asOf, r) == list.cutoff => ~Before([ms |-> asOf, us |-> 0], row[r].created)

\* The ids of a set in the order of the list
Ordered(ids) ==
  CHOOSE q \in [1 .. Cardinality(ids) -> ids] :
    \A i, j \in DOMAIN q : i < j => Behind(row[q[i]].key, q[i], q[j])

\* The rows of the page that follows cursor, and whether there are more
Found(cursor, asOf) ==
  Ordered({r \in Rows : Listed(r) /\ After(cursor, r) /\ WithinCutoff(asOf, r)})

Page(cursor, asOf) == LET found == Found(cursor, asOf)
                      IN  SubSeq(found, 1, Min({limit, Len(found)}))
HasMore(cursor, asOf) == Len(Found(cursor, asOf)) > limit

CursorOf(r) == [key |-> Truncated(row[r].key), id |-> r]

-----------------------------------------------------------------------------
(* Behaviour                                                               *)

\* The key is the time of creation or, in precise lists, a time, a date or a code
\* that says nothing of when the row was created.
SortKeys(created) == IF list.precise THEN {k \in Moments : k.us = 0} ELSE {created}

Rowlike == [in : BOOLEAN, key : Moments, created : Moments]
NewRows == {x \in Rowlike : x.created.ms <= now /\ x.key \in SortKeys(x.created)}

Init ==
  /\ list \in Lists
  /\ limit \in Limits
  /\ now = 0
  /\ row = [r \in Rows |-> Blank]
  /\ walk = [state |-> "none", cursor |-> None, asOf |-> 0, got |-> <<>>,
             picked |-> <<>>, torn |-> FALSE]
  /\ steady = {}
  /\ changes = 0

Tick == /\ now < MaxMs
        /\ now' = now + 1
        /\ UNCHANGED <<list, limit, row, walk, steady, changes>>

\* A transaction that began at a moment of the past commits its row now.
Insert(r) ==
  /\ ~Present(r)
  /\ \E x \in NewRows : row' = [row EXCEPT ![r] = x]
  /\ UNCHANGED <<list, limit, now, walk, steady, changes>>

\* The row changes state and so enters or leaves what is asked for.
Change(r) ==
  /\ Present(r) /\ changes < MaxChanges
  /\ changes' = changes + 1
  /\ row' = [row EXCEPT ![r].in = ~@]
  /\ steady' = steady \ {r}
  /\ UNCHANGED <<list, limit, now, walk>>

\* A draft receipt is replaced with another business date.
Move(r) ==
  /\ list.moves /\ Present(r) /\ changes < MaxChanges
  /\ changes' = changes + 1
  /\ \E k \in SortKeys(row[r].created) \ {row[r].key} : row' = [row EXCEPT ![r].key = k]
  /\ steady' = steady \ {r}
  /\ UNCHANGED <<list, limit, now, walk>>

\* What a page leaves: its rows, and a cursor if there are more.
Delivered(ids, more, asOf, torn) ==
  [state |-> IF more THEN "reading" ELSE "done",
   cursor |-> IF more THEN CursorOf(Last(ids)) ELSE None,
   asOf |-> asOf, got |-> walk.got \o ids, picked |-> <<>>, torn |-> walk.torn \/ torn]

Read(cursor, asOf) ==
  LET ids == Page(cursor, asOf)
      more == HasMore(cursor, asOf)
      keys == [i \in DOMAIN ids |-> row[ids[i]].key]
  IN  walk' = IF list.moves
              THEN [walk EXCEPT !.state = "picked", !.asOf = asOf,
                                !.picked = <<ids, keys, more>>]
              ELSE Delivered(ids, more, asOf, FALSE)

FirstPage ==
  /\ walk.state = "none"
  /\ Read(None, now)
  /\ steady' = {r \in Rows : Listed(r) /\ WithinCutoff(now, r)}
  /\ UNCHANGED <<list, limit, now, row, changes>>

NextPage ==
  /\ walk.state = "reading"
  /\ Read(walk.cursor, walk.asOf)
  /\ UNCHANGED <<list, limit, now, row, steady, changes>>

\* views() of the ids, and the cursor from the last of them
ReadViews ==
  /\ walk.state = "picked"
  /\ LET ids == walk.picked[1]  keys == walk.picked[2]
     IN  walk' = Delivered(ids, walk.picked[3], walk.asOf,
                           ids # <<>> /\ row[Last(ids)].key # Last(keys))
  /\ UNCHANGED <<list, limit, now, row, steady, changes>>

Next == \/ Tick
        \/ \E r \in Rows : Insert(r) \/ Change(r) \/ Move(r)
        \/ FirstPage
        \/ NextPage
        \/ ReadViews

Spec == Init /\ [][Next]_vars

-----------------------------------------------------------------------------
(* Properties                                                              *)

\* Types of the variables; every page but the last is full.
PagingTypeOK ==
  /\ list \in Lists /\ limit \in Limits /\ now \in 0..MaxMs /\ changes \in 0..MaxChanges
  /\ \A r \in Rows : Present(r) => row[r] \in Rowlike /\ row[r].key \in SortKeys(row[r].created)
  /\ walk.state \in {"none", "reading", "picked", "done"} /\ walk.asOf \in 0..now
  /\ walk.got \in Seq(Rows)
  /\ walk.state = "reading" => Len(walk.got) % limit = 0
  /\ steady \subseteq {r \in Rows : Listed(r)}

\* Where a cursor in milliseconds cannot tell rows apart: another row of the
\* list was created within the same millisecond.
Blurred(r) == ~list.precise /\ \E q \in Rows \ {r} : Present(q) /\ row[q].key.ms = row[r].key.ms

\* Who reads to the end gets every row that was in the list from the first page
\* to the last and kept its place, whatever came and went meanwhile
\* (settlement.repository.ts:630 and the like).  The lists whose rows keep
\* microseconds make an exception of rows created in one millisecond: the
\* truncated cursor passes over those that follow the last row within it.  So
\* does the list of receipts when the last receipt of a page was replaced by one
\* of another date between the two statements (receipt.service.ts:38): its
\* cursor is at the new place.
SteadyRowsRead ==
  walk.state = "done" /\ ~walk.torn =>
    \A r \in steady : ~Blurred(r) => \E i \in DOMAIN walk.got : walk.got[i] = r

\* No row comes twice, unless it was moved, or shares its millisecond in the
\* queue that is compared in memory (cashbox-operations.service.ts:1297).
NothingTwice ==
  \A i, j \in DOMAIN walk.got :
    i < j /\ walk.got[i] = walk.got[j] =>
      \/ list.moves /\ (walk.torn \/ walk.got[i] \notin steady)
      \/ list.inMemory /\ Blurred(walk.got[i])

=============================================================================
