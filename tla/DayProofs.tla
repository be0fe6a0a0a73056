------------------------------- MODULE DayProofs -------------------------------
(***************************************************************************)
(* What holds of the days of a cashbox for every set of dates, users,      *)
(* grants, keys and counts; and of the lists and reports around them for   *)
(* every set of rows, moments, page sizes and grants.                      *)
(***************************************************************************)
EXTENDS DeskParts, Sums

-------------------------------------------------------------------------------
(* The kinds of values.  Books are amounts of any kind.                    *)

RequestRow(books) ==
  [kind : {"CLOSE", "REOPEN"}, date : Dates, by : Users, command : Command \cup {Nothing},
   reason : Reasons \cup {NoReason}, source : Nat, book : books, held : SUBSET Instruments,
   state : {"PENDING", "APPROVED", "REJECTED"}, actor : Users \cup {Nothing}]

Typed ==
  /\ \E rows : cycles \in [Dates -> Seq(rows)]
  /\ \E books : requests \in Seq(RequestRow(books))
  /\ held \subseteq Instruments
  /\ nextValue \in 1 .. MaxValue + 1
  /\ reserved \in [Keys -> Reservation \cup {Nothing}]
  /\ \A k \in Keys : call[k] # Nothing => reserved[k] # Nothing
  /\ call \in [Keys -> {"reserved", Nothing}]

\* What a row of a day stands on: no request, or the approved one it was made by.
Stands(row, d, n) ==
  /\ row.state \in {"CLOSED", "REOPENED"}
  /\ row.request # 0 =>
       /\ row.request \in DOMAIN requests
       /\ requests[row.request].state = "APPROVED" /\ requests[row.request].date = d
       /\ row.state = "CLOSED" =>
            requests[row.request].kind = "CLOSE" /\ requests[row.request].source = IF n = 1 THEN 0 ELSE n
       /\ row.state = "REOPENED" =>
            requests[row.request].kind = "REOPEN" /\ requests[row.request].source = n - 1
  /\ row.state = "REOPENED" => n # 1 /\ row.request # 0
  /\ row.state = "CLOSED" /\ row.count # row.book =>
       /\ row.request # 0
       /\ requests[row.request].command.count = row.count
       /\ requests[row.request].book = row.book /\ requests[row.request].held = row.held

RowsStand ==
  \A d \in Dates : \A n \in DOMAIN cycles[d] : n <= MaxCycles /\ Stands(cycles[d][n], d, n)

\* A close is requested by the custodian, and approved by somebody else.
ApprovedByOthers ==
  \A i \in DOMAIN requests :
    /\ requests[i].kind = "CLOSE" => requests[i].by = Custodian
    /\ requests[i].state = "APPROVED" => requests[i].actor # requests[i].by

\* A number that is consumed closed its cycle.
Numbered ==
  /\ NumbersMatchDays
  /\ \A k \in Keys : reserved[k] # Nothing => reserved[k].number < nextValue
  /\ \A k \in Keys : reserved[k] # Nothing /\ reserved[k].state = "CONSUMED" =>
       cycles[reserved[k].date][reserved[k].cycle].state = "CLOSED"

DayInvariant == Typed /\ RowsStand /\ ApprovedByOthers /\ Numbered

-------------------------------------------------------------------------------
(* Sequences.                                                              *)

\* What a sequence has after one more element.
LEMMA OneMore ==
  ASSUME NEW S, NEW s \in Seq(S), NEW x
  PROVE  /\ Append(s, x) \in Seq(S \cup {x})
         /\ Len(s) \in Nat /\ Len(Append(s, x)) = Len(s) + 1
         /\ DOMAIN s = 1 .. Len(s) /\ DOMAIN Append(s, x) = 1 .. Len(s) + 1
         /\ Append(s, x)[Len(s) + 1] = x
         /\ \A i \in 1 .. Len(s) : Append(s, x)[i] = s[i]
<1>1. s \in Seq(S \cup {x})
  OBVIOUS
<1> QED BY <1>1

\* What a sequence has after its last element was replaced.
LEMMA LastReplaced ==
  ASSUME NEW S, NEW s \in Seq(S), s # <<>>, NEW x
  PROVE  /\ [s EXCEPT ![Len(s)] = x] \in Seq(S \cup {x})
         /\ Len(s) \in Nat \ {0}
         /\ DOMAIN s = 1 .. Len(s) /\ DOMAIN [s EXCEPT ![Len(s)] = x] = 1 .. Len(s)
         /\ [s EXCEPT ![Len(s)] = x][Len(s)] = x
         /\ \A i \in 1 .. Len(s) - 1 : [s EXCEPT ![Len(s)] = x][i] = s[i]
<1>1. s \in Seq(S \cup {x})
  OBVIOUS
<1>2. Len(s) \in Nat \ {0}
  OBVIOUS
<1> QED BY <1>1, <1>2

\* The cycle a close is of.
LEMMA CycleClosed ==
  ASSUME NEW d, Len(cycles[d]) \in Nat
  PROVE  CycleToClose(d) = IF Len(cycles[d]) = 0 THEN 1 ELSE Len(cycles[d])
<1> DEFINE L == Len(cycles[d])
           most == IF L = 0 THEN 1 ELSE L
<1>1. most \in {1, L} /\ \A y \in {1, L} : most >= y
  OBVIOUS
<1>2. \A x \in {1, L} : (\A y \in {1, L} : x >= y) => x = most
  OBVIOUS
<1>3. CycleToClose(d) = CHOOSE x \in {1, L} : \A y \in {1, L} : x >= y
  BY DEF CycleToClose, Max
<1> HIDE DEF L, most
<1>4. CycleToClose(d) = most
  BY <1>1, <1>2, <1>3
<1> QED BY <1>4 DEF most, L

-------------------------------------------------------------------------------
(* What steps write.                                                       *)

\* Cycle n of day d becomes the row; a closed one is never overwritten.
Wrote(d, n, row) ==
  /\ n \in DOMAIN cycles'[d] /\ cycles'[d][n] = row /\ n <= MaxCycles
  /\ DOMAIN cycles[d] \subseteq DOMAIN cycles'[d]
  /\ \A m \in DOMAIN cycles'[d] : m = n \/ (m \in DOMAIN cycles[d] /\ cycles'[d][m] = cycles[d][m])
  /\ n \in DOMAIN cycles[d] => cycles[d][n].state # "CLOSED"
  /\ \A e \in Dates \ {d} : cycles'[e] = cycles[e]
  /\ \E rows : cycles' \in [Dates -> Seq(rows)]

\* Cycles of another date are of larger sets of rows as well.
LEMMA CyclesTyped ==
  ASSUME NEW rows, cycles \in [Dates -> Seq(rows)], NEW d \in Dates, NEW row, NEW s,
         cycles' = [cycles EXCEPT ![d] = s], s \in Seq(rows \cup {row})
  PROVE  cycles' \in [Dates -> Seq(rows \cup {row})]
<1>1. \A e \in Dates : cycles[e] \in Seq(rows \cup {row})
  <2>1. \A e \in Dates : cycles[e] \in Seq(rows)
    OBVIOUS
  <2>2. \A t \in Seq(rows) : t \in Seq(rows \cup {row})
    OBVIOUS
  <2> QED BY <2>1, <2>2
<1> QED BY <1>1

LEMMA ClosedWritten ==
  ASSUME DayAssumption, Typed, RowsStand, NEW d \in Dates, NEW row, ~ IsClosed(d), WriteClosed(d, row)
  PROVE  Wrote(d, CycleToClose(d), row)
<1>1. PICK rows : cycles \in [Dates -> Seq(rows)]
  BY DEF Typed
<1> DEFINE L == Len(cycles[d])
           n == CycleToClose(d)
<1>2. L \in Nat /\ DOMAIN cycles[d] = 1 .. L /\ (L = 0 <=> cycles[d] = <<>>)
  BY <1>1
<1>3. n = IF L = 0 THEN 1 ELSE L
  BY <1>2, CycleClosed
<1>4. ASSUME cycles[d] = <<>> PROVE Wrote(d, n, row)
  <2>1. cycles' = [cycles EXCEPT ![d] = <<row>>] /\ cycles'[d] = <<row>>
    BY <1>1, <1>4 DEF WriteClosed
  <2>2. <<row>> \in Seq(rows \cup {row}) /\ DOMAIN <<row>> = {1} /\ <<row>>[1] = row
    OBVIOUS
  <2>3. n = 1 /\ DOMAIN cycles[d] = {}
    BY <1>2, <1>3, <1>4
  <2>4. cycles' \in [Dates -> Seq(rows \cup {row})]
    BY <1>1, <2>1, <2>2, CyclesTyped
  <2>5. 1 <= MaxCycles
    BY DEF DayAssumption
  <2>6. \A e \in Dates \ {d} : cycles'[e] = cycles[e]
    BY <1>1, <2>1
  <2> HIDE DEF n
  <2> QED BY <2>1, <2>2, <2>3, <2>4, <2>5, <2>6 DEF Wrote
<1>5. ASSUME cycles[d] # <<>> PROVE Wrote(d, n, row)
  <2> DEFINE new == [cycles[d] EXCEPT ![L] = row]
  <2>1. cycles' = [cycles EXCEPT ![d] = new] /\ cycles'[d] = new
    BY <1>1, <1>5 DEF WriteClosed
  <2>2. /\ new \in Seq(rows \cup {row}) /\ DOMAIN new = 1 .. L /\ new[L] = row
        /\ \A i \in 1 .. L - 1 : new[i] = cycles[d][i]
    BY <1>1, <1>5, LastReplaced
  <2>3. n = L /\ L \in 1 .. L
    BY <1>2, <1>3, <1>5
  <2>4. cycles' \in [Dates -> Seq(rows \cup {row})]
    BY <1>1, <2>1, <2>2, CyclesTyped
  <2>5. L <= MaxCycles
    BY <1>2, <2>3 DEF RowsStand
  <2>6. \A e \in Dates \ {d} : cycles'[e] = cycles[e]
    BY <1>1, <2>1
  <2>7. cycles[d][L].state # "CLOSED"
    BY <1>5 DEF IsClosed, Latest
  <2>8. \A m \in 1 .. L : m = L \/ m \in 1 .. L - 1
    BY <1>2
  <2> HIDE DEF n, new, L
  <2> QED BY <1>2, <2>1, <2>2, <2>3, <2>4, <2>5, <2>6, <2>7, <2>8 DEF Wrote
<1> QED BY <1>4, <1>5

LEMMA ReopenedWritten ==
  ASSUME DayAssumption, Typed, RowsStand, NEW u, NEW d \in Dates, NEW i \in DOMAIN requests, ReopenDay(u, d, i)
  PROVE  /\ Wrote(d, Len(cycles[d]) + 1, ReopenedRow(i))
         /\ Len(cycles[d]) \in Nat \ {0}
<1>1. PICK rows : cycles \in [Dates -> Seq(rows)]
  BY DEF Typed
<1> DEFINE L == Len(cycles[d])
           row == ReopenedRow(i)
           new == Append(cycles[d], row)
<1>2. L \in Nat /\ DOMAIN cycles[d] = 1 .. L /\ L # 0
  BY <1>1 DEF ReopenDay, IsClosed
<1>3. cycles' = [cycles EXCEPT ![d] = new] /\ cycles'[d] = new
  BY <1>1 DEF ReopenDay
<1>4. /\ new \in Seq(rows \cup {row}) /\ DOMAIN new = 1 .. L + 1 /\ new[L + 1] = row
      /\ \A m \in 1 .. L : new[m] = cycles[d][m]
  <2> HIDE DEF row
  <2> QED BY <1>1, OneMore
<1>5. cycles' \in [Dates -> Seq(rows \cup {row})]
  <2> HIDE DEF row, new
  <2> QED BY <1>1, <1>3, <1>4, CyclesTyped
<1>6. L + 1 <= MaxCycles
  BY <1>2 DEF ReopenDay, DayAssumption
<1>7. \A e \in Dates \ {d} : cycles'[e] = cycles[e]
  BY <1>1, <1>3
<1>8. /\ L + 1 \in 1 .. L + 1 /\ 1 .. L \subseteq 1 .. L + 1 /\ L + 1 \notin 1 .. L
      /\ \A m \in 1 .. L + 1 : m = L + 1 \/ m \in 1 .. L
  BY <1>2
<1> HIDE DEF new, row, L
<1> QED BY <1>2, <1>3, <1>4, <1>5, <1>6, <1>7, <1>8 DEF Wrote, row, L

-------------------------------------------------------------------------------
(* Requests.                                                               *)

\* No step takes a request away, or changes one that was approved.
RequestsKept ==
  /\ DOMAIN requests \subseteq DOMAIN requests'
  /\ \A i \in DOMAIN requests : requests[i].state = "APPROVED" => requests'[i] = requests[i]

RequestsInvariant == (\E books : requests \in Seq(RequestRow(books))) /\ ApprovedByOthers

LEMMA RequestInserted ==
  ASSUME DayAssumption, Typed, ApprovedByOthers, NEW books, NEW r \in RequestRow(books), InsertRequest(r),
         r.state = "PENDING", r.kind = "CLOSE" => r.by = Custodian
  PROVE  RequestsInvariant' /\ RequestsKept
<1>1. PICK former : requests \in Seq(RequestRow(former))
  BY DEF Typed
<1> DEFINE all == former \cup books
<1>2. RequestRow(former) \cup {r} \subseteq RequestRow(all)
  BY DEF RequestRow
<1>3. requests' = Append(requests, r)
  BY DEF InsertRequest
<1>4. /\ requests' \in Seq(RequestRow(former) \cup {r})
      /\ Len(requests) \in Nat
      /\ DOMAIN requests = 1 .. Len(requests) /\ DOMAIN requests' = 1 .. Len(requests) + 1
      /\ requests'[Len(requests) + 1] = r
      /\ \A i \in 1 .. Len(requests) : requests'[i] = requests[i]
  BY <1>1, <1>3, OneMore
<1>5. requests' \in Seq(RequestRow(all))
  <2> HIDE DEF all
  <2>1. \A S, T : S \subseteq T => \A t \in Seq(S) : t \in Seq(T)
    OBVIOUS
  <2> QED BY <1>2, <1>4, <2>1
<1>6. \A i \in DOMAIN requests' : i \in DOMAIN requests \/ requests'[i] = r
  BY <1>4
<1>7. ApprovedByOthers'
  BY <1>4, <1>6 DEF ApprovedByOthers
<1>8. RequestsKept
  BY <1>4 DEF RequestsKept
<1> QED BY <1>5, <1>7, <1>8 DEF RequestsInvariant

LEMMA RequestActedOn ==
  ASSUME DayAssumption, Typed, ApprovedByOthers,
         NEW u \in Users, NEW i \in DOMAIN requests, NEW verdict \in {"APPROVED", "REJECTED"},
         ActOnApproval(u, i, verdict)
  PROVE  RequestsInvariant' /\ RequestsKept
<1>1. PICK books : requests \in Seq(RequestRow(books))
  BY DEF Typed
<1>2. PICK old \in RequestRow(books) : old = requests[i]
  BY <1>1
<1> DEFINE new == [old EXCEPT !.state = verdict, !.actor = u]
<1>3. /\ new \in RequestRow(books) /\ new.state = verdict /\ new.actor = u
      /\ new.by = old.by /\ new.kind = old.kind
  BY DEF RequestRow
<1>4. requests' = [requests EXCEPT ![i] = new]
  BY <1>1, <1>2 DEF ActOnApproval, MayAct, CompleteAction
<1>5. old.state = "PENDING" /\ old.by # u
  BY <1>2 DEF ActOnApproval, MayAct
<1> HIDE DEF new
<1>6. /\ requests' \in Seq(RequestRow(books)) /\ DOMAIN requests' = DOMAIN requests
      /\ requests'[i] = new
      /\ \A j \in DOMAIN requests : j # i => requests'[j] = requests[j]
  BY <1>1, <1>3, <1>4
<1>7. ApprovedByOthers'
  BY <1>2, <1>3, <1>5, <1>6 DEF ApprovedByOthers
<1>8. RequestsKept
  BY <1>2, <1>5, <1>6 DEF RequestsKept
<1> QED BY <1>6, <1>7, <1>8 DEF RequestsInvariant

LEMMA RequestsStep ==
  ASSUME DayAssumption, Typed, ApprovedByOthers, [Next]_vars
  PROVE  RequestsInvariant' /\ RequestsKept
<1>1. ASSUME requests' = requests PROVE RequestsInvariant' /\ RequestsKept
  BY <1>1 DEF RequestsInvariant, RequestsKept, Typed, ApprovedByOthers
<1>2. Len(requests) \in Nat /\ \A d \in Dates : SourceCycle(d) \in Nat
  BY DEF Typed, SourceCycle
<1>3. ASSUME NEW u \in Users, NEW d \in Dates, NEW c \in Command, RequestClose(u, d, c)
      PROVE  RequestsInvariant' /\ RequestsKept
  <2> DEFINE r == Request("CLOSE", d, u, c, NoReason)
  <2>1. PICK b : b = Book(d)
    OBVIOUS
  <2>2. r = [kind |-> "CLOSE", date |-> d, by |-> u, command |-> c, reason |-> NoReason,
             source |-> SourceCycle(d), book |-> b, held |-> held, state |-> "PENDING", actor |-> Nothing]
    BY <2>1 DEF Request
  <2>3. r \in RequestRow({b}) /\ r.state = "PENDING" /\ r.by = u
    <3> HIDE DEF r
    <3> QED BY <1>2, <2>2 DEF RequestRow, Typed
  <2>4. InsertRequest(r) /\ u = Custodian
    BY <1>3 DEF RequestClose
  <2> HIDE DEF r
  <2> QED BY <2>3, <2>4, RequestInserted
<1>4. ASSUME NEW u \in Users, NEW d \in Dates, NEW reason \in Reasons, RequestReopen(u, d, reason)
      PROVE  RequestsInvariant' /\ RequestsKept
  <2> DEFINE r == Request("REOPEN", d, u, Nothing, reason)
  <2>1. PICK b : b = Book(d)
    OBVIOUS
  <2>2. r = [kind |-> "REOPEN", date |-> d, by |-> u, command |-> Nothing, reason |-> reason,
             source |-> SourceCycle(d), book |-> b, held |-> held, state |-> "PENDING", actor |-> Nothing]
    BY <2>1 DEF Request
  <2>3. r \in RequestRow({b}) /\ r.state = "PENDING" /\ r.kind = "REOPEN"
    <3> HIDE DEF r
    <3> QED BY <1>2, <2>2 DEF RequestRow, Typed
  <2>4. InsertRequest(r)
    BY <1>4 DEF RequestReopen
  <2> HIDE DEF r
  <2> QED BY <2>3, <2>4, RequestInserted
<1>5. CASE UNCHANGED vars
  BY <1>1, <1>5 DEF vars
<1>6. CASE Next
  BY <1>1, <1>3, <1>4, <1>6, RequestActedOn
     DEF Next, ReserveNumber, RetryClose, CloseLost, CloseDay, ReopenDay, PostOnOpenDay,
         AcknowledgeTransfer, AppendMovement, MoveCheque
<1> QED BY <1>5, <1>6

-------------------------------------------------------------------------------
(* Rows.                                                                   *)

LEMMA StandsOn ==
  ASSUME NEW row, NEW d, NEW n, Stands(row, d, n), RequestsKept
  PROVE  Stands(row, d, n)'
BY DEF Stands, RequestsKept

LEMMA RowsWritten ==
  ASSUME RowsStand, RequestsKept, NEW d \in Dates, NEW n, NEW row, Wrote(d, n, row), Stands(row, d, n)
  PROVE  RowsStand'
<1>1. \A e \in Dates : \A m \in DOMAIN cycles[e] : m <= MaxCycles /\ Stands(cycles[e][m], e, m)
  BY DEF RowsStand
<1>2. ASSUME NEW e \in Dates, NEW m \in DOMAIN cycles'[e]
      PROVE  \/ e = d /\ m = n /\ cycles'[e][m] = row
             \/ m \in DOMAIN cycles[e] /\ cycles'[e][m] = cycles[e][m]
  BY <1>2 DEF Wrote
<1>3. ASSUME NEW e \in Dates, NEW m \in DOMAIN cycles'[e]
      PROVE  m <= MaxCycles /\ Stands(cycles'[e][m], e, m)
  BY <1>1, <1>2, <1>3 DEF Wrote
<1>4. ASSUME NEW e \in Dates, NEW m \in DOMAIN cycles'[e]
      PROVE  m <= MaxCycles /\ Stands(cycles[e][m], e, m)'
  <2>1. PICK x : x = cycles'[e][m]
    OBVIOUS
  <2>2. Stands(x, e, m)'
    BY <1>3, <2>1, StandsOn
  <2> QED BY <1>3, <2>1, <2>2 DEF Stands
<1> QED BY <1>4 DEF RowsStand

\* A close writes the cycle its number was reserved for, on the request it was
\* prepared with.
LEMMA CloseWrites ==
  ASSUME DayAssumption, Typed, RowsStand, NEW k \in Keys, CloseDay(k)
  PROVE  /\ reserved[k] \in Reservation /\ reserved[k].state = "RESERVED"
         /\ \E row : /\ Wrote(reserved[k].date, reserved[k].cycle, row)
                     /\ Stands(row, reserved[k].date, reserved[k].cycle)
                     /\ row.state = "CLOSED" /\ row.number = reserved[k].number
<1>1. reserved[k] \in Reservation /\ reserved[k].state = "RESERVED"
  BY DEF CloseDay, Typed, ConsumeNumber
<1>2. PICK r \in Reservation : r = reserved[k]
  BY <1>1
<1>3. PICK d \in Dates : d = r.date
  BY DEF Reservation
<1>4. PICK v : v = IF cycles[d] = <<>> THEN 1 ELSE Latest(d).version + 1
  OBVIOUS
<1>5. PICK b : b = Book(d)
  OBVIOUS
<1> DEFINE row == ClosedRow(r.number, d, r.command, r.request, v)
           L == Len(cycles[d])
<1>6. /\ ~ IsClosed(d) /\ WriteClosed(d, row) /\ r.cycle = CycleToClose(d)
      /\ IF r.command.count # b THEN ApprovalServes(r.request, r.by, d, r.command) ELSE r.request = 0
  BY <1>2, <1>3, <1>4, <1>5 DEF CloseDay, PrepareClose, CycleHolds
<1>7. row = [state |-> "CLOSED", version |-> v, number |-> r.number, count |-> r.command.count,
             book |-> b, held |-> held, request |-> r.request]
  BY <1>5 DEF ClosedRow
<1>8. L \in Nat /\ DOMAIN cycles[d] = 1 .. L /\ (L = 0 <=> cycles[d] = <<>>)
  BY DEF Typed
<1>9. r.cycle = (IF L = 0 THEN 1 ELSE L) /\ L # 1
  <2>1. r.cycle = IF L = 0 THEN 1 ELSE L
    BY <1>6, <1>8, CycleClosed
  <2>2. ASSUME L = 1 PROVE FALSE
    <3>1. cycles[d] # <<>> /\ 1 \in DOMAIN cycles[d]
      BY <1>8, <2>2
    <3>2. cycles[d][1].state # "CLOSED"
      BY <1>6, <2>2, <3>1 DEF IsClosed, Latest
    <3>3. Stands(cycles[d][1], d, 1)
      BY <3>1 DEF RowsStand
    <3> QED BY <3>2, <3>3 DEF Stands
  <2> QED BY <2>1, <2>2
<1> HIDE DEF row
<1>10. Wrote(d, r.cycle, row)
  BY <1>6, ClosedWritten
<1>11. L = IF r.cycle = 1 THEN 0 ELSE r.cycle
  BY <1>8, <1>9
<1>12. ASSUME r.request # 0 \/ r.command.count # b
       PROVE  /\ r.request # 0 /\ r.request \in DOMAIN requests
              /\ requests[r.request].state = "APPROVED" /\ requests[r.request].date = d
              /\ requests[r.request].kind = "CLOSE" /\ requests[r.request].command = r.command
              /\ requests[r.request].source = L
              /\ requests[r.request].book = b /\ requests[r.request].held = held
  <2>1. ApprovalServes(r.request, r.by, d, r.command)
    BY <1>6, <1>12
  <2>2. 0 \notin DOMAIN requests
    BY DEF Typed
  <2> QED BY <1>5, <2>1, <2>2 DEF ApprovalServes, ApprovedAction, SameSource, SourceCycle, SnapshotStands
<1>13. Stands(row, d, r.cycle)
  <2> HIDE DEF L
  <2> QED BY <1>7, <1>11, <1>12 DEF Stands
<1> QED BY <1>1, <1>2, <1>3, <1>7, <1>10, <1>13

LEMMA ReopenWrites ==
  ASSUME DayAssumption, Typed, RowsStand, NEW u, NEW d \in Dates, NEW i \in DOMAIN requests, ReopenDay(u, d, i)
  PROVE  /\ Wrote(d, Len(cycles[d]) + 1, ReopenedRow(i))
         /\ Stands(ReopenedRow(i), d, Len(cycles[d]) + 1)
<1> DEFINE row == ReopenedRow(i)
           L == Len(cycles[d])
<1>1. Wrote(d, L + 1, row) /\ L \in Nat \ {0}
  BY ReopenedWritten
<1>2. row.state = "REOPENED" /\ row.request = i
  BY DEF ReopenedRow
<1>3. i # 0
  BY DEF Typed
<1>4. /\ requests[i].state = "APPROVED" /\ requests[i].kind = "REOPEN"
      /\ requests[i].date = d /\ requests[i].source = L
  BY DEF ReopenDay, ApprovedAction, SameSource, SourceCycle
<1> HIDE DEF row, L
<1>5. requests[i].source = (L + 1) - 1 /\ L + 1 # 1
  BY <1>1, <1>4
<1>6. Stands(row, d, L + 1)
  BY <1>2, <1>3, <1>4, <1>5 DEF Stands
<1> QED BY <1>1, <1>6 DEF row, L

LEMMA RowsStep ==
  ASSUME DayAssumption, Typed, RowsStand, ApprovedByOthers, [Next]_vars
  PROVE  RowsStand'
<1>1. RequestsKept
  BY RequestsStep
<1>2. ASSUME cycles' = cycles PROVE RowsStand'
  <2>1. \A d \in Dates : \A n \in DOMAIN cycles[d] : n <= MaxCycles /\ Stands(cycles[d][n], d, n)'
    <3>1. ASSUME NEW d \in Dates, NEW n \in DOMAIN cycles[d]
          PROVE  n <= MaxCycles /\ Stands(cycles[d][n], d, n)'
      <4>1. PICK x : x = cycles[d][n]
        OBVIOUS
      <4>2. n <= MaxCycles /\ Stands(x, d, n)
        BY <3>1, <4>1 DEF RowsStand
      <4>3. Stands(x, d, n)'
        BY <1>1, <4>2, StandsOn
      <4> QED BY <1>2, <4>1, <4>2, <4>3 DEF Stands
    <3> QED BY <3>1
  <2> QED BY <1>2, <2>1 DEF RowsStand
<1>3. ASSUME NEW k \in Keys, CloseDay(k) PROVE RowsStand'
  <2>1. PICK row : /\ Wrote(reserved[k].date, reserved[k].cycle, row)
                   /\ Stands(row, reserved[k].date, reserved[k].cycle)
    BY <1>3, CloseWrites
  <2>2. reserved[k].date \in Dates
    BY <1>3, CloseWrites DEF Reservation
  <2> QED BY <1>1, <2>1, <2>2, RowsWritten
<1>4. ASSUME NEW u \in Users, NEW d \in Dates, NEW i \in DOMAIN requests, ReopenDay(u, d, i) PROVE RowsStand'
  BY <1>1, <1>4, ReopenWrites, RowsWritten
<1>5. CASE UNCHANGED vars
  BY <1>2, <1>5 DEF vars
<1>6. CASE Next
  BY <1>2, <1>3, <1>4, <1>6
     DEF Next, RequestClose, RequestReopen, InsertRequest, ActOnApproval, MayAct, ReserveNumber, RetryClose, CloseLost,
         PostOnOpenDay, AcknowledgeTransfer, AppendMovement, MoveCheque
<1> QED BY <1>5, <1>6

-------------------------------------------------------------------------------
(* Numbers.                                                                *)

\* A new reservation takes the number after all others.
LEMMA NumberTaken ==
  ASSUME DayAssumption, Typed, NEW u \in Users, NEW k \in Keys, NEW d \in Dates, NEW c \in Command,
         NEW i \in 0 .. Len(requests), ReserveNumber(u, k, d, c, i)
  PROVE  \E r \in Reservation :
           /\ reserved' = [reserved EXCEPT ![k] = r]
           /\ r.number = nextValue /\ r.state = "RESERVED"
<1> DEFINE r == [by |-> u, date |-> d, command |-> c, request |-> i,
                 cycle |-> CycleToClose(d), number |-> nextValue, state |-> "RESERVED"]
<1>1. reserved' = [reserved EXCEPT ![k] = r]
  BY DEF ReserveNumber, TakeNumber
<1>2. Len(cycles[d]) \in Nat /\ Len(requests) \in Nat /\ nextValue \in Nat
  BY DEF Typed, DayAssumption
<1>3. CycleToClose(d) \in Nat
  BY <1>2, CycleClosed
<1>4. r \in Reservation
  BY <1>2, <1>3 DEF Reservation
<1> HIDE DEF r
<1>5. r.number = nextValue /\ r.state = "RESERVED"
  BY DEF r
<1> QED BY <1>1, <1>4, <1>5

\* The number of a close is consumed, and everything else about it stays.
LEMMA NumberConsumed ==
  ASSUME DayAssumption, Typed, RowsStand, NEW k \in Keys, CloseDay(k)
  PROVE  \E r \in Reservation :
           /\ reserved' = [reserved EXCEPT ![k] = r] /\ r.state = "CONSUMED"
           /\ r.date = reserved[k].date /\ r.cycle = reserved[k].cycle /\ r.number = reserved[k].number
<1>1. PICK old \in Reservation : old = reserved[k]
  BY CloseWrites
<1> DEFINE r == [old EXCEPT !.state = "CONSUMED"]
<1>2. /\ r \in Reservation /\ r.state = "CONSUMED"
      /\ r.date = old.date /\ r.cycle = old.cycle /\ r.number = old.number
  BY DEF Reservation
<1>3. reserved' = [reserved EXCEPT ![k] = r]
  BY <1>1 DEF CloseDay, ConsumeNumber, Typed
<1> HIDE DEF r
<1> QED BY <1>1, <1>2, <1>3

LEMMA TypedStep ==
  ASSUME DayAssumption, Typed, RowsStand, ApprovedByOthers, [Next]_vars
  PROVE  Typed'
<1> USE DEF Typed
<1>1. \E books : requests' \in Seq(RequestRow(books))
  BY RequestsStep DEF RequestsInvariant
<1>2. ASSUME NEW u \in Users, NEW k \in Keys, NEW d \in Dates, NEW c \in Command,
             NEW i \in 0 .. Len(requests), ReserveNumber(u, k, d, c, i)
      PROVE  Typed'
  <2>1. PICK r \in Reservation : reserved' = [reserved EXCEPT ![k] = r]
    BY <1>2, NumberTaken
  <2>2. r # Nothing
    BY DEF DayAssumption
  <2>3. /\ cycles' = cycles /\ held' = held
        /\ nextValue' = nextValue + 1 /\ nextValue <= MaxValue
        /\ call' = [call EXCEPT ![k] = "reserved"]
    BY <1>2 DEF ReserveNumber, TakeNumber, WithinWidth
  <2>4. nextValue' \in 1 .. MaxValue + 1
    BY <2>3 DEF DayAssumption
  <2> QED BY <1>1, <2>1, <2>2, <2>3, <2>4
<1>3. ASSUME NEW k \in Keys, RetryClose(k) PROVE Typed'
  BY <1>1, <1>3 DEF RetryClose
<1>4. ASSUME NEW k \in Keys, CloseLost(k) PROVE Typed'
  BY <1>1, <1>4 DEF CloseLost
<1>5. ASSUME NEW k \in Keys, CloseDay(k) PROVE Typed'
  <2>1. PICK r \in Reservation : reserved' = [reserved EXCEPT ![k] = r]
    BY <1>5, NumberConsumed
  <2>2. r # Nothing
    BY DEF DayAssumption
  <2>3. \E rows : cycles' \in [Dates -> Seq(rows)]
    BY <1>5, CloseWrites DEF Wrote
  <2>4. held' = held /\ nextValue' = nextValue /\ call' = [call EXCEPT ![k] = Nothing]
    BY <1>5 DEF CloseDay
  <2> QED BY <1>1, <2>1, <2>2, <2>3, <2>4
<1>6. ASSUME NEW u \in Users, NEW d \in Dates, NEW i \in DOMAIN requests, ReopenDay(u, d, i) PROVE Typed'
  <2>1. \E rows : cycles' \in [Dates -> Seq(rows)]
    BY <1>6, ReopenWrites DEF Wrote
  <2> QED BY <1>1, <1>6, <2>1 DEF ReopenDay
<1>7. ASSUME NEW q \in Instruments, MoveCheque(q) PROVE Typed'
  BY <1>1, <1>7 DEF MoveCheque
<1>8. ASSUME UNCHANGED <<cycles, held, nextValue, reserved, call>> PROVE Typed'
  BY <1>1, <1>8
<1>9. CASE UNCHANGED vars
  BY <1>8, <1>9 DEF vars
<1>10. CASE Next
  BY <1>2, <1>3, <1>4, <1>5, <1>6, <1>7, <1>8, <1>10
     DEF Next, RequestClose, RequestReopen, InsertRequest, ActOnApproval, MayAct,
         PostOnOpenDay, AcknowledgeTransfer, AppendMovement
<1> QED BY <1>9, <1>10

\* What a close does to the numbers.
LEMMA CloseNumbers ==
  ASSUME DayAssumption, Typed, RowsStand, Numbered, NEW k \in Keys, CloseDay(k)
  PROVE  Numbered'
<1>1. PICK r \in Reservation :
        /\ reserved' = [reserved EXCEPT ![k] = r] /\ r.state = "CONSUMED"
        /\ r.date = reserved[k].date /\ r.cycle = reserved[k].cycle /\ r.number = reserved[k].number
  BY NumberConsumed
<1>2. /\ reserved[k] \in Reservation /\ reserved[k].state = "RESERVED"
      /\ reserved[k] # Nothing /\ r # Nothing
  BY CloseWrites DEF DayAssumption
<1>3. PICK row : /\ Wrote(r.date, r.cycle, row)
                 /\ row.state = "CLOSED" /\ row.number = r.number
  BY <1>1, CloseWrites
<1>4. r.date \in Dates /\ nextValue' = nextValue
  BY DEF Reservation, CloseDay
<1>5. \A l \in Keys : reserved'[l] = IF l = k THEN r ELSE reserved[l]
  BY <1>1 DEF Typed
<1>6. ASSUME NEW l \in Keys, l # k, reserved[l] # Nothing, reserved[l].state = "CONSUMED"
      PROVE  LET x == reserved[l]
             IN /\ x.cycle \in DOMAIN cycles'[x.date]
                /\ cycles'[x.date][x.cycle] = cycles[x.date][x.cycle]
                /\ cycles[x.date][x.cycle].number = x.number
                /\ cycles[x.date][x.cycle].state = "CLOSED"
  <2>1. PICK x \in Reservation : x = reserved[l]
    BY <1>6 DEF Typed
  <2>2. /\ x.cycle \in DOMAIN cycles[x.date] /\ x.date \in Dates
        /\ cycles[x.date][x.cycle].number = x.number
        /\ cycles[x.date][x.cycle].state = "CLOSED"
    BY <1>6, <2>1 DEF Numbered, NumbersMatchDays, Reservation
  <2>3. x.cycle \in DOMAIN cycles'[x.date] /\ cycles'[x.date][x.cycle] = cycles[x.date][x.cycle]
    BY <1>3, <2>2 DEF Wrote
  <2> QED BY <2>1, <2>2, <2>3
<1>7. ASSUME NEW d \in Dates, NEW n \in DOMAIN cycles'[d], cycles'[d][n].state = "CLOSED"
      PROVE  \E l \in Keys : /\ reserved'[l] # Nothing /\ reserved'[l].state = "CONSUMED"
                             /\ reserved'[l].date = d /\ reserved'[l].cycle = n
                             /\ reserved'[l].number = cycles'[d][n].number
  <2>1. CASE d = r.date /\ n = r.cycle
    BY <1>1, <1>2, <1>3, <1>5, <2>1 DEF Wrote
  <2>2. CASE ~ (d = r.date /\ n = r.cycle)
    <3>1. n \in DOMAIN cycles[d] /\ cycles'[d][n] = cycles[d][n]
      BY <1>3, <1>7, <2>2 DEF Wrote
    <3>2. PICK l \in Keys : /\ reserved[l] # Nothing /\ reserved[l].state = "CONSUMED"
                            /\ reserved[l].date = d /\ reserved[l].cycle = n
                            /\ reserved[l].number = cycles[d][n].number
      BY <1>7, <3>1 DEF Numbered, NumbersMatchDays
    <3>3. l # k
      BY <1>2, <3>2
    <3> QED BY <1>5, <3>1, <3>2, <3>3
  <2> QED BY <2>1, <2>2
<1>8. ASSUME NEW l \in Keys, reserved'[l] # Nothing, reserved'[l].state = "CONSUMED"
      PROVE  LET x == reserved'[l]
             IN /\ x.cycle \in DOMAIN cycles'[x.date]
                /\ cycles'[x.date][x.cycle].number = x.number
                /\ cycles'[x.date][x.cycle].state = "CLOSED"
  <2>1. CASE l = k
    BY <1>3, <1>5, <2>1 DEF Wrote
  <2>2. CASE l # k
    BY <1>5, <1>6, <1>8, <2>2
  <2> QED BY <2>1, <2>2
<1>9. \A l \in Keys : /\ reserved'[l] # Nothing <=> reserved[l] # Nothing
                      /\ reserved'[l].number = reserved[l].number
  BY <1>1, <1>2, <1>5
<1>10. /\ \A l \in Keys : reserved'[l] # Nothing => reserved'[l].number < nextValue'
       /\ \A l, m \in Keys : l # m /\ reserved'[l] # Nothing /\ reserved'[m] # Nothing =>
            reserved'[l].number # reserved'[m].number
  BY <1>4, <1>9 DEF Numbered, NumbersMatchDays
<1> QED BY <1>7, <1>8, <1>10 DEF Numbered, NumbersMatchDays

\* A reservation takes a number no other has.
LEMMA ReserveNumbers ==
  ASSUME DayAssumption, Typed, Numbered, NEW u \in Users, NEW k \in Keys, NEW d \in Dates, NEW c \in Command,
         NEW i \in 0 .. Len(requests), ReserveNumber(u, k, d, c, i)
  PROVE  Numbered'
<1>1. PICK r \in Reservation :
        reserved' = [reserved EXCEPT ![k] = r] /\ r.number = nextValue /\ r.state = "RESERVED"
  BY NumberTaken
<1>2. /\ reserved[k] = Nothing /\ r # Nothing /\ cycles' = cycles
      /\ nextValue' = nextValue + 1 /\ nextValue \in Nat
  BY DEF ReserveNumber, TakeNumber, DayAssumption, Typed
<1>3. \A l \in Keys : reserved'[l] = IF l = k THEN r ELSE reserved[l]
  BY <1>1 DEF Typed
<1>4. \A l \in Keys : reserved[l] # Nothing => reserved[l].number \in Nat /\ reserved[l].number < nextValue
  BY DEF Numbered, Typed, Reservation
<1>5. \A l \in Keys : reserved'[l] # Nothing => reserved'[l].number < nextValue'
  BY <1>1, <1>2, <1>3, <1>4
<1>6. \A l, m \in Keys : l # m /\ reserved'[l] # Nothing /\ reserved'[m] # Nothing =>
        reserved'[l].number # reserved'[m].number
  BY <1>1, <1>2, <1>3, <1>4 DEF Numbered, NumbersMatchDays
<1>7. \A l \in Keys : reserved'[l] # Nothing /\ reserved'[l].state = "CONSUMED" => reserved'[l] = reserved[l]
  BY <1>1, <1>3
<1>8. \A l \in Keys : reserved[l] # Nothing => reserved'[l] = reserved[l]
  BY <1>2, <1>3
<1> QED BY <1>2, <1>5, <1>6, <1>7, <1>8 DEF Numbered, NumbersMatchDays

\* A reopening leaves the numbers of the closed cycles alone.
LEMMA ReopenNumbers ==
  ASSUME DayAssumption, Typed, RowsStand, Numbered,
         NEW u, NEW d \in Dates, NEW i \in DOMAIN requests, ReopenDay(u, d, i)
  PROVE  Numbered'
<1>1. PICK row : row = ReopenedRow(i)
  OBVIOUS
<1>2. PICK new \in Nat : /\ Wrote(d, new, row) /\ new \notin DOMAIN cycles[d]
                         /\ row.state = "REOPENED"
  <2>1. Len(cycles[d]) \in Nat /\ DOMAIN cycles[d] = 1 .. Len(cycles[d])
    BY DEF Typed
  <2>2. Wrote(d, Len(cycles[d]) + 1, row)
    BY <1>1, ReopenWrites
  <2> QED BY <1>1, <2>1, <2>2 DEF ReopenedRow
<1>3. reserved' = reserved /\ nextValue' = nextValue
  BY DEF ReopenDay
<1>4. ASSUME NEW e \in Dates, NEW n \in DOMAIN cycles[e]
      PROVE  n \in DOMAIN cycles'[e] /\ cycles'[e][n] = cycles[e][n]
  BY <1>2, <1>4 DEF Wrote
<1>5. ASSUME NEW e \in Dates, NEW n \in DOMAIN cycles'[e], cycles'[e][n].state = "CLOSED"
      PROVE  n \in DOMAIN cycles[e] /\ cycles'[e][n] = cycles[e][n]
  BY <1>2, <1>5 DEF Wrote
<1>6. \A l \in Keys : reserved[l] # Nothing => reserved[l].date \in Dates
  BY DEF Typed, Reservation
<1> QED BY <1>3, <1>4, <1>5, <1>6 DEF Numbered, NumbersMatchDays

LEMMA NumbersStep ==
  ASSUME DayAssumption, Typed, RowsStand, Numbered, [Next]_vars
  PROVE  Numbered'
<1>1. ASSUME UNCHANGED <<cycles, nextValue, reserved>> PROVE Numbered'
  BY <1>1 DEF Numbered, NumbersMatchDays
<1>2. CASE UNCHANGED vars
  BY <1>1, <1>2 DEF vars
<1>3. CASE Next
  BY <1>1, <1>3, ReserveNumbers, ReopenNumbers, CloseNumbers
     DEF Next, RequestClose, RequestReopen, InsertRequest, ActOnApproval, MayAct, RetryClose, CloseLost,
         PostOnOpenDay, AcknowledgeTransfer, AppendMovement, MoveCheque
<1> QED BY <1>2, <1>3

-------------------------------------------------------------------------------
(* Days.                                                                   *)

LEMMA DaysBegin ==
  ASSUME DayAssumption, Init
  PROVE  DayInvariant
<1>1. cycles \in [Dates -> Seq({})] /\ \A d \in Dates : DOMAIN cycles[d] = {}
  BY DEF Init
<1>2. requests \in Seq(RequestRow({})) /\ DOMAIN requests = {}
  BY DEF Init
<1>3. /\ held \subseteq Instruments /\ nextValue \in 1 .. MaxValue + 1
      /\ reserved \in [Keys -> Reservation \cup {Nothing}]
      /\ call \in [Keys -> {"reserved", Nothing}]
      /\ \A k \in Keys : call[k] = Nothing /\ reserved[k] = Nothing
  BY DEF Init, DayAssumption
<1>4. Typed
  BY <1>1, <1>2, <1>3 DEF Typed
<1>5. RowsStand /\ ApprovedByOthers
  BY <1>1, <1>2 DEF RowsStand, ApprovedByOthers
<1>6. Numbered
  BY <1>1, <1>3 DEF Numbered, NumbersMatchDays
<1> QED BY <1>4, <1>5, <1>6 DEF DayInvariant

LEMMA DaysStep ==
  ASSUME DayAssumption, DayInvariant, [Next]_vars
  PROVE  DayInvariant'
BY RequestsStep, TypedStep, RowsStep, NumbersStep DEF DayInvariant, RequestsInvariant

LEMMA DaysFollow ==
  ASSUME DayAssumption, DayInvariant
  PROVE  DaysAreSound
<1>1. DayTypeOK
  BY DEF DayInvariant, Typed, RowsStand, Stands, Numbered, Reservation, DayTypeOK
<1>2. VarianceWasApproved
  <2>1. ASSUME NEW d \in Dates, NEW n \in DOMAIN cycles[d],
               cycles[d][n].state = "CLOSED", cycles[d][n].count # cycles[d][n].book
        PROVE  LET row == cycles[d][n]
                   r == requests[row.request]
               IN /\ row.request \in DOMAIN requests
                  /\ r.kind = "CLOSE" /\ r.date = d
                  /\ r.state = "APPROVED" /\ r.actor # Custodian
                  /\ r.command.count = row.count /\ r.book = row.book /\ r.held = row.held
                  /\ r.source = IF n = 1 THEN 0 ELSE n
    <3>1. PICK row : row = cycles[d][n]
      OBVIOUS
    <3>2. Stands(row, d, n)
      BY <2>1, <3>1 DEF DayInvariant, RowsStand
    <3>3. row.state = "CLOSED" /\ row.count # row.book
      BY <2>1, <3>1
    <3>4. row.request \in DOMAIN requests
      BY <3>2, <3>3 DEF Stands
    <3>5. PICK r : r = requests[row.request]
      OBVIOUS
    <3>6. /\ r.kind = "CLOSE" /\ r.date = d /\ r.state = "APPROVED"
          /\ r.command.count = row.count /\ r.book = row.book /\ r.held = row.held
          /\ r.source = IF n = 1 THEN 0 ELSE n
      BY <3>2, <3>3, <3>5 DEF Stands
    <3>7. r.actor # Custodian
      BY <3>4, <3>5, <3>6 DEF DayInvariant, ApprovedByOthers
    <3> QED BY <3>1, <3>4, <3>5, <3>6, <3>7
  <2> QED BY <2>1 DEF VarianceWasApproved
<1>3. ApprovalSpentOnce
  <2>1. ASSUME NEW d \in Dates, NEW e \in Dates, NEW n \in DOMAIN cycles[d], NEW m \in DOMAIN cycles[e],
               cycles[d][n].request \in DOMAIN requests,
               cycles[d][n].request = cycles[e][m].request
        PROVE  d = e /\ n = m
    <3>1. PICK x, y, i : x = cycles[d][n] /\ y = cycles[e][m] /\ i = x.request
      OBVIOUS
    <3>2. Stands(x, d, n) /\ Stands(y, e, m) /\ y.request = i
      BY <2>1, <3>1 DEF DayInvariant, RowsStand
    <3>3. i \in DOMAIN requests /\ i # 0
      BY <2>1, <3>1 DEF DayInvariant, Typed
    <3>4. PICK r : r = requests[i]
      OBVIOUS
    <3>5. n \in Nat \ {0} /\ m \in Nat \ {0}
      BY <2>1 DEF DayInvariant, Typed
    <3>6. /\ d = r.date /\ x.state \in {"CLOSED", "REOPENED"}
          /\ x.state = "CLOSED" => r.kind = "CLOSE" /\ r.source = IF n = 1 THEN 0 ELSE n
          /\ x.state = "REOPENED" => r.kind = "REOPEN" /\ r.source = n - 1
      BY <3>1, <3>2, <3>3, <3>4 DEF Stands
    <3>7. /\ e = r.date /\ y.state \in {"CLOSED", "REOPENED"}
          /\ y.state = "CLOSED" => r.kind = "CLOSE" /\ r.source = IF m = 1 THEN 0 ELSE m
          /\ y.state = "REOPENED" => r.kind = "REOPEN" /\ r.source = m - 1
      BY <3>1, <3>2, <3>3, <3>4 DEF Stands
    <3>8. CASE r.kind = "CLOSE"
      <4>1. x.state = "CLOSED" /\ y.state = "CLOSED"
        BY <3>6, <3>7, <3>8
      <4>2. (IF n = 1 THEN 0 ELSE n) = IF m = 1 THEN 0 ELSE m
        BY <3>6, <3>7, <4>1
      <4> QED BY <3>5, <3>6, <3>7, <4>2
    <3>9. CASE r.kind # "CLOSE"
      <4>1. x.state = "REOPENED" /\ y.state = "REOPENED"
        BY <3>6, <3>7, <3>9
      <4>2. n - 1 = m - 1
        BY <3>6, <3>7, <4>1
      <4> QED BY <3>5, <3>6, <3>7, <4>2
    <3> QED BY <3>8, <3>9
  <2> QED BY <2>1 DEF ApprovalSpentOnce
<1> QED BY <1>1, <1>2, <1>3 DEF DaysAreSound, DayInvariant, Numbered

\* However requests, closes, reopenings and postings interleave, and whatever
\* of a close is lost between its two transactions, each closed cycle has a
\* number of its own, each variance the approval of another user, and no
\* approval serves twice (cashbox-operations.service.ts:357).
THEOREM DaysSound ==
  ASSUME DayAssumption
  PROVE  Spec => []DaysAreSound
<1>1. Init => DayInvariant
  BY DaysBegin
<1>2. DayInvariant /\ [Next]_vars => DayInvariant'
  BY DaysStep
<1>3. DayInvariant => DaysAreSound
  BY DaysFollow
<1> QED BY <1>1, <1>2, <1>3, PTL DEF Spec
-------------------------------------------------------------------------------
(* The money of a day.  A book is a fold over the dates up to the day.     *)

\* The subsets of A of at most n elements, and a fold over those.
UpTo(A, n) == {s \in SUBSET A : Cardinality(s) <= n}

FoldOf(D, m, f) ==
  f = [s \in D |-> IF s = {} THEN 0
                   ELSE m[CHOOSE x \in s : TRUE] + f[s \ {CHOOSE x \in s : TRUE}]]

Total(m, A) == FoldFunctionOnSet(+, 0, m, A)

\* A set that is not empty without the element that is chosen of it.
LEMMA OneLess ==
  ASSUME NEW A, IsFiniteSet(A), NEW s \in SUBSET A, s # {}
  PROVE  LET x == CHOOSE y \in s : TRUE
         IN /\ x \in s /\ x \in A /\ s \ {x} \in SUBSET A
            /\ Cardinality(s) \in Nat \ {0} /\ Cardinality(s \ {x}) = Cardinality(s) - 1
<1> DEFINE x == CHOOSE y \in s : TRUE
<1>1. x \in s
  OBVIOUS
<1>2. IsFiniteSet(s)
  BY FS_Subset
<1>3. Cardinality(s) \in Nat /\ Cardinality(s) # 0
  BY <1>2, FS_CardinalityType, FS_EmptySet
<1>4. Cardinality(s \ {x}) = Cardinality(s) - 1
  BY <1>1, <1>2, FS_RemoveElement
<1> QED BY <1>1, <1>3, <1>4

\* The folds exist.
LEMMA FoldsExist ==
  ASSUME NEW A, IsFiniteSet(A), NEW m, NEW N \in Nat
  PROVE  \E f : FoldOf(UpTo(A, N), m, f)
<1> DEFINE T == {n \in Nat : ~ \E f : FoldOf(UpTo(A, n), m, f)}
<1>1. SUFFICES ASSUME T # {} PROVE FALSE
  <2>1. N \notin T
    BY <1>1
  <2> QED BY <2>1
<1>2. PICK n \in T : \A k \in T : n <= k
  <2>1. T \in SUBSET Nat
    OBVIOUS
  <2> HIDE DEF T
  <2> QED BY <1>1, <2>1, LeastNat
<1>3. \A s \in SUBSET A : s # {} => Cardinality(s) \in Nat \ {0}
  BY OneLess
<1>4. n # 0
  <2>1. ASSUME n = 0 PROVE FALSE
    <3>1. \A s \in UpTo(A, 0) : s = {}
      BY <1>3 DEF UpTo
    <3>2. FoldOf(UpTo(A, 0), m, [s \in UpTo(A, 0) |-> 0])
      BY <3>1 DEF FoldOf
    <3> QED BY <1>2, <2>1, <3>2
  <2> QED BY <2>1
<1>5. n - 1 \in Nat /\ n - 1 \notin T
  BY <1>2, <1>4
<1>6. PICK f : FoldOf(UpTo(A, n - 1), m, f)
  BY <1>5
<1> DEFINE Value(s, h) == IF s = {} THEN 0
                          ELSE m[CHOOSE x \in s : TRUE] + h[s \ {CHOOSE x \in s : TRUE}]
           g == [s \in UpTo(A, n) |-> Value(s, f)]
<1>7. \A s \in UpTo(A, n - 1) : s \in UpTo(A, n) /\ f[s] = Value(s, f)
  <2>1. ASSUME NEW s \in UpTo(A, n - 1) PROVE s \in UpTo(A, n)
    <3>1. Cardinality(s) \in Nat
      BY FS_Subset, FS_CardinalityType DEF UpTo
    <3> QED BY <1>5, <3>1 DEF UpTo
  <2>2. ASSUME NEW s \in UpTo(A, n - 1) PROVE f[s] = Value(s, f)
    BY <1>6 DEF FoldOf
  <2> QED BY <2>1, <2>2
<1>8. ASSUME NEW s \in UpTo(A, n), s # {}
      PROVE  s \ {CHOOSE x \in s : TRUE} \in UpTo(A, n - 1)
  <2> DEFINE x == CHOOSE y \in s : TRUE
  <2>1. /\ s \ {x} \in SUBSET A /\ Cardinality(s) \in Nat \ {0}
        /\ Cardinality(s \ {x}) = Cardinality(s) - 1
    BY <1>8, OneLess DEF UpTo
  <2>2. Cardinality(s) <= n
    BY DEF UpTo
  <2> QED BY <2>1, <2>2 DEF UpTo
<1>9. \A s \in UpTo(A, n) : g[s] = Value(s, g)
  <2>1. \A s \in UpTo(A, n - 1) : g[s] = f[s]
    BY <1>7
  <2>2. ASSUME NEW s \in UpTo(A, n) PROVE g[s] = Value(s, g)
    <3> DEFINE x == CHOOSE y \in s : TRUE
    <3>1. g[s] = Value(s, f)
      OBVIOUS
    <3>2. s # {} => g[s \ {x}] = f[s \ {x}]
      BY <1>8, <2>1
    <3> HIDE DEF g
    <3> QED BY <3>1, <3>2
  <2> QED BY <2>2
<1>10. FoldOf(UpTo(A, n), m, g)
  <2>1. g = [s \in UpTo(A, n) |-> g[s]]
    OBVIOUS
  <2> HIDE DEF g
  <2> QED BY <1>9, <2>1 DEF FoldOf
<1> QED BY <1>2, <1>10

\* What is folded over A is the value of a fold over the subsets of A.
LEMMA FoldIsOne ==
  ASSUME NEW A, IsFiniteSet(A), NEW m
  PROVE  \E f : FoldOf(SUBSET A, m, f) /\ Total(m, A) = f[A]
<1>1. UpTo(A, Cardinality(A)) = SUBSET A
  BY FS_Subset DEF UpTo
<1>2. Cardinality(A) \in Nat
  BY FS_CardinalityType
<1> DEFINE f == CHOOSE h : FoldOf(SUBSET A, m, h)
<1>3. FoldOf(SUBSET A, m, f)
  <2>1. \E h : FoldOf(UpTo(A, Cardinality(A)), m, h)
    BY <1>2, FoldsExist
  <2>2. \E h : FoldOf(SUBSET A, m, h)
    BY <1>1, <2>1
  <2> QED BY <2>2
<1>4. Total(m, A) = f[A]
  BY DEF Total, FoldFunctionOnSet, MapThenFoldSet, FoldOf
<1> QED BY <1>3, <1>4

\* Where one value changes, the fold changes by as much.
LEMMA FoldChanges ==
  ASSUME NEW A, IsFiniteSet(A), NEW D, A \subseteq D, NEW m \in [D -> Int], NEW k \in [D -> Int],
         NEW d \in D, \A x \in D \ {d} : k[x] = m[x]
  PROVE  /\ Total(m, A) \in Int
         /\ Total(k, A)
              = Total(m, A) + (IF d \in A THEN k[d] - m[d] ELSE 0)
<1>1. PICK f : FoldOf(SUBSET A, m, f) /\ Total(m, A) = f[A]
  BY FoldIsOne
<1>2. PICK g : FoldOf(SUBSET A, k, g) /\ Total(k, A) = g[A]
  BY FoldIsOne
<1> DEFINE Right(s) == f[s] \in Int /\ g[s] = f[s] + (IF d \in s THEN k[d] - m[d] ELSE 0)
           T == {n \in Nat : \E s \in SUBSET A : Cardinality(s) = n /\ ~Right(s)}
<1>3. T = {}
  <2>1. SUFFICES ASSUME T # {} PROVE FALSE
    OBVIOUS
  <2>2. PICK n \in T : \A j \in T : n <= j
    <3>1. T \in SUBSET Nat
      OBVIOUS
    <3> HIDE DEF T
    <3> QED BY <2>1, <3>1, LeastNat
  <2>3. PICK s \in SUBSET A : Cardinality(s) = n /\ ~Right(s)
    BY <2>2
  <2>4. s # {}
    <3>1. f[{}] = 0 /\ g[{}] = 0
      BY <1>1, <1>2 DEF FoldOf
    <3>2. Right({})
      BY <3>1
    <3> HIDE DEF Right
    <3> QED BY <2>3, <3>2
  <2> DEFINE x == CHOOSE y \in s : TRUE
             rest == s \ {x}
  <2>5. /\ x \in s /\ x \in A /\ rest \in SUBSET A
        /\ n \in Nat \ {0} /\ Cardinality(rest) = n - 1
    BY <2>3, <2>4, OneLess
  <2>6. f[s] = m[x] + f[rest] /\ g[s] = k[x] + g[rest]
    BY <1>1, <1>2, <2>4 DEF FoldOf
  <2>7. Right(rest)
    <3>1. n - 1 \notin T /\ n - 1 \in Nat
      BY <2>2, <2>5
    <3> HIDE DEF rest, Right
    <3> QED BY <2>5, <3>1
  <2>8. m[x] \in Int /\ k[x] \in Int /\ m[d] \in Int /\ k[d] \in Int /\ (x # d => k[x] = m[x])
    BY <2>5
  <2>9. d \in rest <=> d \in s /\ x # d
    OBVIOUS
  <2> HIDE DEF x, rest
  <2>10. Right(s)
    BY <2>5, <2>6, <2>7, <2>8, <2>9
  <2> QED BY <2>3, <2>10
<1>4. Right(A)
  <2>1. Cardinality(A) \in Nat /\ Cardinality(A) \notin T
    BY <1>3, FS_CardinalityType
  <2> HIDE DEF Right
  <2> QED BY <2>1
<1> QED BY <1>1, <1>2, <1>4

Movements == movements \in [Dates -> Int]

\* The dates up to a day.
LEMMA DatesUpTo ==
  ASSUME DayAssumption, NEW d \in Dates
  PROVE  LET A == {e \in Dates : e <= d}
         IN IsFiniteSet(A) /\ A \subseteq Dates /\ d \in A
<1> DEFINE A == {e \in Dates : e <= d}
<1>1. Dates \subseteq Nat
  BY DEF DayAssumption
<1>2. d \in Nat
  BY <1>1
<1>3. A \subseteq 0 .. d /\ d \in A
  <2>1. ASSUME NEW e \in A PROVE e \in 0 .. d
    <3>1. e \in Nat /\ e <= d
      BY <1>1
    <3> QED BY <1>2, <3>1
  <2>2. d <= d
    BY <1>2
  <2> QED BY <2>1, <2>2
<1>4. IsFiniteSet(0 .. d)
  BY <1>2, FS_Interval
<1>5. A \subseteq Dates
  OBVIOUS
<1> HIDE DEF A
<1>6. IsFiniteSet(A)
  BY <1>3, <1>4, FS_Subset
<1> QED BY <1>3, <1>5, <1>6 DEF A

\* How a book changes with the movements of one date.
LEMMA BookChanges ==
  ASSUME DayAssumption, Movements, Movements', NEW d \in Dates,
         \A e \in Dates \ {d} : movements'[e] = movements[e]
  PROVE  /\ Book(d) \in Int
         /\ BookOf({e \in Dates : e <= d})' = Book(d) + (movements'[d] - movements[d])
<1> DEFINE A == {e \in Dates : e <= d}
<1>1. IsFiniteSet(A) /\ A \subseteq Dates /\ d \in A
  BY DatesUpTo
<1> HIDE DEF A
<1>2. PICK m, k : m = movements /\ k = movements'
  OBVIOUS
<1>3. m \in [Dates -> Int] /\ k \in [Dates -> Int] /\ \A e \in Dates \ {d} : k[e] = m[e]
  BY <1>2 DEF Movements
<1>4. /\ Total(m, A) \in Int
      /\ Total(k, A)
           = Total(m, A) + (IF d \in A THEN k[d] - m[d] ELSE 0)
  BY <1>1, <1>3, FoldChanges
<1>5. Book(d) = Total(m, A)
  BY <1>2 DEF Book, BookOf, Total, A
<1>6. BookOf({e \in Dates : e <= d})' = Total(k, A)
  <2>1. BookOf({e \in Dates : e <= d})' = Total(movements', {e \in Dates : e <= d})
    BY DEF BookOf, Total, FoldFunctionOnSet, MapThenFoldSet
  <2> QED BY <1>2, <2>1 DEF A
<1> QED BY <1>1, <1>2, <1>4, <1>5, <1>6

\* A book is of integers.
LEMMA BookType ==
  ASSUME DayAssumption, Movements, NEW d \in Dates
  PROVE  Book(d) \in Int
<1> DEFINE A == {e \in Dates : e <= d}
<1>1. IsFiniteSet(A) /\ A \subseteq Dates
  BY DatesUpTo
<1>2. movements \in [Dates -> Int]
  BY DEF Movements
<1> HIDE DEF A
<1>3. Total(movements, A) \in Int
  BY <1>1, <1>2, FoldChanges
<1> QED BY <1>3 DEF Book, BookOf, Total, A

\* A close leaves the book of its day at the amount counted.
LEMMA CloseBooks ==
  ASSUME DayAssumption, Typed, Movements, NEW k \in Keys, CloseDay(k)
  PROVE  Movements' /\ Booked
<1>1. PICK r \in Reservation : r = reserved[k]
  BY DEF CloseDay, ConsumeNumber, Typed
<1>2. PICK d \in Dates : d = r.date
  BY DEF Reservation
<1>3. PICK c \in Counts : c = r.command.count
  BY DEF Reservation, Command
<1>4. PICK v : v = IF cycles[d] = <<>> THEN 1 ELSE Latest(d).version + 1
  OBVIOUS
<1>5. PICK b \in Int : b = Book(d)
  BY BookType
<1> DEFINE row == ClosedRow(r.number, d, r.command, r.request, v)
<1>6. /\ ~ IsClosed(d) /\ WriteClosed(d, row)
      /\ movements' = [movements EXCEPT ![d] = @ + c - b]
  BY <1>1, <1>2, <1>3, <1>4, <1>5 DEF CloseDay, PrepareClose
<1>7. row.count = c
  BY <1>3 DEF ClosedRow
<1> HIDE DEF row
<1>8. /\ c \in Int /\ movements[d] \in Int
      /\ movements'[d] = movements[d] + c - b
      /\ \A e \in Dates \ {d} : movements'[e] = movements[e]
  BY <1>6 DEF Movements, DayAssumption
<1>9. Movements'
  BY <1>6, <1>8 DEF Movements
<1>10. BookOf({e \in Dates : e <= d})' = b + (movements'[d] - movements[d])
  BY <1>5, <1>8, <1>9, BookChanges
<1>11. BookOf({e \in Dates : e <= d})' = c
  BY <1>8, <1>10
<1>12. ASSUME cycles[d] # <<>> PROVE Latest(d)'.count = c
  <2>1. PICK rows : cycles \in [Dates -> Seq(rows)]
    BY DEF Typed
  <2> DEFINE new == [cycles[d] EXCEPT ![Len(cycles[d])] = row]
  <2>2. cycles'[d] = new
    BY <1>6, <1>12, <2>1 DEF WriteClosed
  <2>3. /\ new \in Seq(rows \cup {row}) /\ DOMAIN new = 1 .. Len(cycles[d])
        /\ new[Len(cycles[d])] = row /\ Len(cycles[d]) \in Nat
    BY <1>12, <2>1, LastReplaced
  <2> HIDE DEF new
  <2>4. Len(new) = Len(cycles[d])
    BY <2>3
  <2> QED BY <1>7, <2>2, <2>3, <2>4 DEF Latest
<1> QED BY <1>6, <1>8, <1>9, <1>11, <1>12 DEF Booked

LEMMA MoneyStep ==
  ASSUME DayAssumption, Typed, Movements, [Next]_vars
  PROVE  Movements' /\ [Booked]_vars
<1>1. ASSUME NEW d \in Dates, NEW amount \in {-1, 1}, PostOnOpenDay(d, amount)
      PROVE  Movements' /\ Booked
  <2>1. /\ cycles[d] = <<>> /\ movements' = [movements EXCEPT ![d] = @ + amount]
        /\ amount \in Int
    BY <1>1 DEF PostOnOpenDay, DayOpen, AppendMovement
  <2>2. Movements' /\ \A e \in Dates \ {d} : movements'[e] = movements[e]
    BY <2>1 DEF Movements
  <2> QED BY <2>1, <2>2 DEF Booked
<1>2. ASSUME NEW d \in Dates, AcknowledgeTransfer(d, 1)
      PROVE  Movements' /\ Booked
  <2>1. movements' = [movements EXCEPT ![d] = @ + 1]
    BY <1>2 DEF AcknowledgeTransfer, AppendMovement
  <2>2. Movements' /\ \A e \in Dates \ {d} : movements'[e] = movements[e]
    BY <2>1 DEF Movements
  <2> QED BY <1>2, <2>2 DEF Booked
<1>3. ASSUME UNCHANGED movements
      PROVE  Movements' /\ Booked
  BY <1>3 DEF Movements, Booked
<1>4. CASE UNCHANGED vars
  BY <1>3, <1>4 DEF vars
<1>5. CASE Next
  <2>1. ASSUME NEW u \in Users, NEW d \in Dates, NEW c \in Command, RequestClose(u, d, c)
        PROVE  UNCHANGED movements
    BY <2>1 DEF RequestClose, InsertRequest
  <2>2. ASSUME NEW u \in Users, NEW d \in Dates, NEW reason \in Reasons, RequestReopen(u, d, reason)
        PROVE  UNCHANGED movements
    BY <2>2 DEF RequestReopen, InsertRequest
  <2>3. ASSUME NEW u \in Users, NEW i \in DOMAIN requests, NEW verdict \in {"APPROVED", "REJECTED"},
               ActOnApproval(u, i, verdict)
        PROVE  UNCHANGED movements
    BY <2>3 DEF ActOnApproval, MayAct
  <2>4. ASSUME NEW u \in Users, NEW k \in Keys, NEW d \in Dates, NEW c \in Command,
               NEW i \in 0 .. Len(requests), ReserveNumber(u, k, d, c, i)
        PROVE  UNCHANGED movements
    BY <2>4 DEF ReserveNumber
  <2>5. ASSUME NEW k \in Keys, RetryClose(k) \/ CloseLost(k)
        PROVE  UNCHANGED movements
    BY <2>5 DEF RetryClose, CloseLost
  <2>6. ASSUME NEW u \in Users, NEW d \in Dates, NEW i \in DOMAIN requests, ReopenDay(u, d, i)
        PROVE  UNCHANGED movements
    BY <2>6 DEF ReopenDay
  <2>7. ASSUME NEW q \in Instruments, MoveCheque(q)
        PROVE  UNCHANGED movements
    BY <2>7 DEF MoveCheque
  <2> QED
    BY <1>1, <1>2, <1>3, <1>5, <2>1, <2>2, <2>3, <2>4, <2>5, <2>6, <2>7, CloseBooks DEF Next
<1> QED BY <1>4, <1>5

\* The command a day is closed by leaves the book of the day at the amount
\* counted, and nothing else moves the money of a day that has been closed, the
\* acknowledgement of a transfer apart (cashbox-operations.service.ts:468).
THEOREM MoneyBooked ==
  ASSUME DayAssumption
  PROVE  Spec => [][Booked]_vars
<1>1. Init => DayInvariant /\ Movements
  BY DaysBegin DEF Init, Movements
<1>2. DayInvariant /\ Movements /\ [Next]_vars => DayInvariant' /\ Movements' /\ [Booked]_vars
  BY DaysStep, MoneyStep DEF DayInvariant
<1> QED BY <1>1, <1>2, PTL DEF Spec

-------------------------------------------------------------------------------
(* Sets written down in an order.                                         *)

\* q goes up in R.
Climbs(q, R) == \A i, j \in DOMAIN q : i < j => <<q[i], q[j]>> \in R
Irreflexive(R, S) == \A x \in S : <<x, x>> \notin R

\* A finite set in a strict total order can be written down in that order.
LEMMA InOrderExists ==
  ASSUME NEW S, IsFiniteSet(S), NEW R, Irreflexive(R, S),
         \A x, y, z \in S : <<x, y>> \in R /\ <<y, z>> \in R => <<x, z>> \in R,
         \A x, y \in S : x # y => <<x, y>> \in R \/ <<y, x>> \in R
  PROVE  \E q \in [1 .. Cardinality(S) -> S] : Climbs(q, R)
<1> DEFINE n == Cardinality(S)
           below(x) == {y \in S : <<y, x>> \in R}
           rank == [x \in S |-> Cardinality(below(x)) + 1]
           q == [i \in 1 .. n |-> CHOOSE x \in S : rank[x] = i]
<1>1. n \in Nat
  BY FS_CardinalityType
<1>2. ASSUME NEW x \in S PROVE IsFiniteSet(below(x)) /\ Cardinality(below(x)) \in Nat
  <2>1. IsFiniteSet(below(x))
    BY FS_Subset
  <2> QED BY <2>1, FS_CardinalityType
<1>3. ASSUME NEW x \in S PROVE Cardinality(below(x)) < n
  <2> DEFINE rest == S \ {x}
  <2>1. IsFiniteSet(rest) /\ Cardinality(rest) = n - 1
    BY FS_RemoveElement
  <2>2. below(x) \in SUBSET rest
    BY DEF Irreflexive
  <2> HIDE DEF rest, below, n
  <2>3. Cardinality(below(x)) <= Cardinality(rest)
    BY <2>1, <2>2, FS_Subset
  <2> QED BY <1>1, <1>2, <2>1, <2>3
<1>4. ASSUME NEW x \in S, NEW y \in S, <<x, y>> \in R
      PROVE  Cardinality(below(x)) < Cardinality(below(y))
  <2> DEFINE more == below(x) \cup {x}
  <2>1. x \notin below(x)
    BY DEF Irreflexive
  <2>2. more \in SUBSET below(y)
    BY <1>4
  <2>3. Cardinality(more) = Cardinality(below(x)) + 1
    <3> HIDE DEF below
    <3> QED BY <1>2, <2>1, FS_AddElement
  <2> HIDE DEF more, below
  <2>4. Cardinality(more) <= Cardinality(below(y))
    BY <1>2, <2>2, FS_Subset
  <2> QED BY <1>2, <2>3, <2>4
<1>5. rank \in [S -> 1 .. n] /\ \A x \in S : rank[x] = Cardinality(below(x)) + 1
  <2> HIDE DEF n, below
  <2> QED BY <1>1, <1>2, <1>3
<1>6. \A x, y \in S : <<x, y>> \in R => rank[x] < rank[y]
  <2> HIDE DEF n, below, rank
  <2> QED BY <1>2, <1>4, <1>5
<1>7. \A x \in S : rank[x] \in 1 .. n
  <2> HIDE DEF n, rank
  <2> QED BY <1>5
<1>8. \A x, y \in S : rank[x] = rank[y] => x = y
  <2> HIDE DEF n, rank
  <2>1. ASSUME NEW x \in S, NEW y \in S, rank[x] = rank[y], x # y PROVE FALSE
    <3>1. rank[x] \in 1 .. n /\ rank[y] \in 1 .. n
      BY <1>7
    <3>2. rank[x] < rank[y] \/ rank[y] < rank[x]
      BY <1>6, <2>1
    <3> QED BY <1>1, <2>1, <3>1, <3>2
  <2> QED BY <2>1
<1>9. rank \in Surjection(S, 1 .. n)
  <2> HIDE DEF n, rank
  <2>1. rank \in Injection(S, 1 .. n)
    BY <1>5, <1>8 DEF Injection, IsInjective
  <2>2. IsFiniteSet(1 .. n) /\ Cardinality(1 .. n) = n
    BY <1>1, FS_Interval
  <2> QED BY <2>1, <2>2, FS_Injection DEF n
<1>10. \A i \in 1 .. n : q[i] \in S /\ rank[q[i]] = i
  <2> HIDE DEF n, rank
  <2>1. \A i \in 1 .. n : \E x \in S : rank[x] = i
    BY <1>9 DEF Surjection
  <2> QED BY <2>1
<1>11. q \in [1 .. n -> S] /\ DOMAIN q = 1 .. n
  <2> DEFINE at(i) == CHOOSE x \in S : rank[x] = i
  <2>1. \A i \in 1 .. n : at(i) \in S
    <3> HIDE DEF n, rank
    <3> QED BY <1>10
  <2>2. q = [i \in 1 .. n |-> at(i)]
    OBVIOUS
  <2> HIDE DEF q, at, n
  <2> QED BY <2>1, <2>2
<1>12. \A i, j \in DOMAIN q : i < j => <<q[i], q[j]>> \in R
  <2> HIDE DEF n, rank, q
  <2>1. ASSUME NEW i \in 1 .. n, NEW j \in 1 .. n, i < j PROVE <<q[i], q[j]>> \in R
    <3>1. q[i] \in S /\ q[j] \in S /\ rank[q[i]] = i /\ rank[q[j]] = j
      BY <1>10
    <3>2. q[i] # q[j]
      BY <1>1, <2>1, <3>1
    <3>3. ~ (<<q[j], q[i]>> \in R)
      BY <1>1, <1>6, <2>1, <3>1
    <3> QED BY <3>1, <3>2, <3>3
  <2> QED BY <1>11, <2>1
<1> QED BY <1>11, <1>12 DEF Climbs

\* Who goes through a finite set in a strict order, as many steps as it has
\* elements, meets all of them.
LEMMA InOrderIsAll ==
  ASSUME NEW S, IsFiniteSet(S), NEW R, Irreflexive(R, S),
         NEW q \in [1 .. Cardinality(S) -> S], Climbs(q, R)
  PROVE  /\ q \in Seq(S) /\ Len(q) = Cardinality(S)
         /\ \A x \in S : \E i \in 1 .. Len(q) : q[i] = x
<1> DEFINE n == Cardinality(S)
<1>1. n \in Nat
  BY FS_CardinalityType
<1>2. q \in Seq(S) /\ Len(q) = n /\ DOMAIN q = 1 .. n
  <2> HIDE DEF n
  <2>1. q \in [1 .. n -> S]
    BY DEF n
  <2> QED BY <1>1, <2>1
<1>3. \A i, j \in 1 .. n : q[i] = q[j] => i = j
  <2>1. ASSUME NEW i \in 1 .. n, NEW j \in 1 .. n, q[i] = q[j], i < j PROVE FALSE
    <3>1. <<q[i], q[j]>> \in R /\ q[i] \in S
      BY <1>2, <2>1 DEF Climbs
    <3> QED BY <2>1, <3>1 DEF Irreflexive
  <2> HIDE DEF n
  <2> QED BY <1>1, <2>1
<1>4. q \in Injection(1 .. n, S)
  <2>1. q \in [1 .. n -> S]
    OBVIOUS
  <2> HIDE DEF n
  <2> QED BY <1>2, <1>3, <2>1 DEF Injection, IsInjective
<1>5. IsFiniteSet(1 .. n) /\ Cardinality(1 .. n) = n
  <2> HIDE DEF n
  <2> QED BY <1>1, FS_Interval
<1>6. q \in Surjection(1 .. n, S)
  BY <1>4, <1>5, FS_Injection
<1>7. \A x \in S : \E i \in 1 .. n : q[i] = x
  BY <1>6 DEF Surjection
<1> QED BY <1>2, <1>7

-------------------------------------------------------------------------------
(* Lists.                                                                  *)

Walks ==
  [state : {"none", "reading", "picked", "done"},
   cursor : {Lists!None} \cup [key : Lists!Moments, id : ListRows], asOf : Nat,
   got : Seq(ListRows),
   picked : {<<>>} \cup Seq(ListRows) \X Seq(Lists!Moments) \X BOOLEAN, torn : BOOLEAN]

ListTyped ==
  /\ list \in Lists!Lists /\ limit \in Limits /\ now \in 0 .. MaxMs /\ changes \in 0 .. MaxChanges
  /\ entries \in [ListRows -> Lists!Rowlike \cup {Lists!Blank}]
  /\ \A r \in ListRows : Lists!Present(r) => entries[r].key \in Lists!SortKeys(entries[r].created)
  /\ walk \in Walks /\ walk.asOf <= now
  /\ steady \subseteq {r \in ListRows : Lists!Listed(r)}

Got(x) == \E i \in DOMAIN walk.got : walk.got[i] = x

\* What NothingTwice excuses, with the rows that are to be kept track of.
Excused(kept, x) ==
  \/ list.moves /\ (walk.torn \/ x \notin kept)
  \/ list.inMemory /\ Lists!Blurred(x)

\* Every row that is kept track of was read or is still to come.
NoneLost(kept, cursor) ==
  ~walk.torn => \A x \in kept : Lists!Blurred(x) \/ Got(x) \/ Lists!After(cursor, x)

\* No row that was read is still to come.
NoneAgain(kept, cursor) ==
  \A i \in DOMAIN walk.got : Excused(kept, walk.got[i]) \/ ~Lists!After(cursor, walk.got[i])

\* The place behind a page, as its keys had it when it was picked.
PlaceBehind(ids, keys) == [key |-> Lists!Truncated(Last(keys)), id |-> Last(ids)]

\* A page fits behind what was read, and what is left is behind the page.
PageFits(kept, ids, keys, more) ==
  /\ ids \in Seq(ListRows) /\ keys \in Seq(Lists!Moments) /\ Len(keys) = Len(ids)
  /\ \A i \in DOMAIN ids : Lists!Present(ids[i])
  /\ \A i, j \in DOMAIN ids : ids[i] = ids[j] => i = j
  /\ more => Len(ids) = limit
  /\ ~walk.torn => \A x \in kept :
       \/ Lists!Blurred(x) \/ Got(x) \/ \E i \in DOMAIN ids : ids[i] = x
       \/ more /\ Lists!After(PlaceBehind(ids, keys), x)
  /\ \A i \in DOMAIN ids : Got(ids[i]) => Excused(kept, ids[i])
  /\ more => /\ NoneAgain(kept, PlaceBehind(ids, keys))
             /\ \A i \in DOMAIN ids :
                  Excused(kept, ids[i]) \/ ~Lists!After(PlaceBehind(ids, keys), ids[i])

WalkStands ==
  /\ \A i \in DOMAIN walk.got : Lists!Present(walk.got[i])
  /\ walk.state = "none" => walk.got = <<>> /\ ~walk.torn
  /\ walk.state # "done" => Len(walk.got) % limit = 0
  /\ walk.state # "none" => \A x \in steady : Lists!WithinCutoff(walk.asOf, x)
  /\ walk.state = "reading" =>
       /\ walk.cursor # Lists!None
       /\ NoneLost(steady, walk.cursor) /\ NoneAgain(steady, walk.cursor)
  /\ walk.state = "picked" =>
       /\ list.moves /\ walk.picked # <<>>
       /\ PageFits(steady, walk.picked[1], walk.picked[2], walk.picked[3])

ListInvariant == ListTyped /\ WalkStands /\ Lists!SteadyRowsRead /\ Lists!NothingTwice

-------------------------------------------------------------------------------
(* Reports.                                                                *)

Cursors ==
  {Report!None} \cup [after : ReportRows, mark : Nat, scope : SUBSET ReportGrants, asOf : Nat]

FactRow == [version : Nat, created : Nat]

ReportTyped ==
  /\ facts \in [ReportRows -> FactRow]
  /\ history \in Seq([ReportRows -> FactRow]) /\ history # <<>> /\ Last(history) = facts
  /\ grant \in [ReportGrants -> {"new", "active", "revoked"}]
  /\ request \in [step : {"idle", "scope", "watermark", "list"}, scope : SUBSET ReportGrants, asOf : Nat,
                  mark : 0 .. Len(history), page : Seq(ReportRows \X Nat), more : BOOLEAN]
  /\ report \in [cursor : Cursors, got : Seq(ReportRows \X Nat), done : BOOLEAN,
                 mark : 0 .. Len(history), scope : SUBSET ReportGrants, asOf : Nat]
  /\ \A g \in request.scope \cup report.scope : grant[g] # "new"
  /\ clock \in Nat /\ request.asOf <= PerMs * clock /\ report.asOf <= PerMs * clock

Ascending(rows) == \A i, j \in DOMAIN rows : i < j => rows[i][1] < rows[j][1]
In(rows, r) == \E i \in DOMAIN rows : rows[i][1] = r
Fits(state, row, asOf) == Report!Shows(state[row[1]], asOf) /\ state[row[1]].version = row[2]
CoveredBy(scope, r) == \E g \in scope \cap Report!Active : r \in Covers[g]

\* A page under the facts of its digest, as long as they are the current ones
PageOf ==
  /\ Len(request.page) <= PageSize /\ (request.more => Len(request.page) = PageSize)
  /\ Ascending(request.page) /\ \A i \in DOMAIN request.page : Report!After(request.page[i][1])
  /\ Len(history) = request.mark =>
       /\ \A i \in DOMAIN request.page : Fits(facts, request.page[i], request.asOf)
       /\ \A r \in ReportRows :
            Report!Shows(facts[r], request.asOf) /\ CoveredBy(request.scope, r) /\ Report!After(r)
              => In(request.page, r) \/ (request.more /\ r > Last(request.page)[1])

RequestStands ==
  /\ request.step \notin {"idle"} =>
       ~report.done /\ (report.cursor # Report!None => /\ report.cursor.scope = request.scope
                                                      /\ report.cursor.asOf = request.asOf)
  /\ request.step \in {"watermark", "list"} =>
       request.mark # 0 /\ (report.cursor # Report!None => report.cursor.mark = request.mark)
  /\ request.step = "list" => PageOf
  /\ request.step # "list" => request.page = <<>> /\ ~request.more

ReportStands ==
  /\ report.cursor = Report!None <=> (report.got = <<>> \/ report.done)
  /\ report.cursor # Report!None =>
       /\ report.cursor.mark = report.mark /\ report.cursor.scope = report.scope
       /\ report.cursor.asOf = report.asOf
       /\ report.cursor.after = Last(report.got)[1]
       /\ \A r \in ReportRows : Report!Shows(Report!Snapshot[r], report.asOf) /\ CoveredBy(report.scope, r)
            => In(report.got, r) \/ r > report.cursor.after
  /\ report.cursor # Report!None \/ report.done => report.mark # 0

ReportInvariant ==
  /\ ReportTyped /\ RequestStands /\ ReportStands
  /\ Report!PagesAreOfOneState /\ Report!ReportIsWhole

-------------------------------------------------------------------------------
(* The order of a list.                                                    *)

\* What the four flags of a kind of list have to do with each other.
LEMMA KindsAre ==
  ASSUME list \in Lists!Lists
  PROVE  /\ list.precise \in BOOLEAN /\ list.cutoff \in BOOLEAN
         /\ list.inMemory \in BOOLEAN /\ list.moves \in BOOLEAN
         /\ list.inMemory => ~list.precise
         /\ list.moves => list.precise
<1>1. \/ list = Lists!Kind(FALSE, TRUE, FALSE, FALSE) \/ list = Lists!Kind(TRUE, TRUE, FALSE, FALSE)
      \/ list = Lists!Kind(FALSE, FALSE, TRUE, FALSE) \/ list = Lists!Kind(TRUE, FALSE, FALSE, FALSE)
      \/ list = Lists!Kind(TRUE, FALSE, FALSE, TRUE)
  BY DEF Lists!Lists, Lists!SettlementBatches, Lists!ApprovalPolicies, Lists!Delegations,
         Lists!CollectionItems, Lists!DayApprovalRequests, Lists!AccountingExports, Lists!Payments,
         Lists!Transfers, Lists!Cashboxes, Lists!BankTypes, Lists!Banks, Lists!BankBranches,
         Lists!BankAccounts, Lists!Terminals, Lists!Gateways, Lists!Receipts
<1>2. ASSUME NEW a \in BOOLEAN, NEW b \in BOOLEAN, NEW c \in BOOLEAN, NEW d \in BOOLEAN,
             list = Lists!Kind(a, b, c, d)
      PROVE  list.precise = a /\ list.cutoff = b /\ list.inMemory = c /\ list.moves = d
  BY <1>2 DEF Lists!Kind
<1> QED BY <1>1, <1>2

\* A moment is two numbers, and truncating one clears the fraction.
LEMMA MomentsAre ==
  /\ \A m \in Lists!Moments : m.ms \in Nat /\ m.us \in Nat /\ m # Lists!None
  /\ \A m, n \in Lists!Moments : m.ms = n.ms /\ m.us = n.us => m = n
  /\ \A m \in Lists!Moments :
       /\ Lists!Truncated(m) \in Lists!Moments
       /\ Lists!Truncated(m).ms = m.ms /\ Lists!Truncated(m).us = 0
<1>1. MaxMs \in Nat /\ 0 \in Micros /\ Micros \subseteq Nat
  BY PartsAssumption DEF Lists!PagingAssumption
<1>2. ASSUME NEW m \in Lists!Moments PROVE m.ms \in Nat /\ m.us \in Nat /\ m # Lists!None
  <2>1. m.ms \in 0 .. MaxMs /\ m.us \in Micros
    BY DEF Lists!Moments
  <2>2. DOMAIN m = {"ms", "us"} /\ DOMAIN Lists!None = {"none"}
    BY DEF Lists!Moments, Lists!None
  <2>3. "ms" \in DOMAIN m /\ "ms" \notin DOMAIN Lists!None
    BY <2>2
  <2>4. m # Lists!None
    BY <2>3
  <2>5. 0 .. MaxMs \subseteq Nat
    BY <1>1
  <2> QED BY <1>1, <2>1, <2>4, <2>5
<1>3. \A m, n \in Lists!Moments : m.ms = n.ms /\ m.us = n.us => m = n
  BY DEF Lists!Moments
<1>4. ASSUME NEW m \in Lists!Moments
      PROVE  /\ Lists!Truncated(m) \in Lists!Moments
             /\ Lists!Truncated(m).ms = m.ms /\ Lists!Truncated(m).us = 0
  BY <1>1 DEF Lists!Moments, Lists!Truncated
<1> QED BY <1>2, <1>3, <1>4

\* One key before another.
LEMMA BeforeIs ==
  ASSUME NEW a \in Lists!Moments, NEW b \in Lists!Moments
  PROVE  Lists!Before(a, b) <=> a.ms < b.ms \/ (a.ms = b.ms /\ a.us < b.us)
BY DEF Lists!Before

\* A row that is present has a number, a key and a time of creation; the lists whose
\* keys are not precise sort by the time of creation.
LEMMA RowsAre ==
  ASSUME ListTyped, NEW r \in ListRows, Lists!Present(r)
  PROVE  /\ r \in Nat /\ entries[r] \in Lists!Rowlike
         /\ entries[r].key \in Lists!Moments /\ entries[r].created \in Lists!Moments
         /\ list.precise => entries[r].key.us = 0
         /\ ~list.precise => entries[r].key = entries[r].created
<1>1. r \in Nat
  BY PartsAssumption DEF Lists!PagingAssumption
<1>2. entries[r] \in Lists!Rowlike
  BY DEF ListTyped, Lists!Present
<1>3. entries[r].key \in Lists!Moments /\ entries[r].created \in Lists!Moments
  BY <1>2 DEF Lists!Rowlike
<1>4. entries[r].key \in Lists!SortKeys(entries[r].created)
  BY DEF ListTyped
<1> QED BY <1>1, <1>2, <1>3, <1>4 DEF Lists!SortKeys

\* Who is listed is present.
LEMMA ListedArePresent ==
  ASSUME NEW r, Lists!Listed(r)
  PROVE  Lists!Present(r)
BY DEF Lists!Listed, Lists!Present, Lists!Blank

\* The order of rows is strict and total.
LEMMA RowOrder ==
  ASSUME ListTyped,
         NEW x \in ListRows, Lists!Present(x), NEW y \in ListRows, Lists!Present(y),
         NEW z \in ListRows, Lists!Present(z)
  PROVE  /\ ~Lists!Behind(entries[x].key, x, x)
         /\ Lists!Behind(entries[x].key, x, y) /\ Lists!Behind(entries[y].key, y, z)
              => Lists!Behind(entries[x].key, x, z)
         /\ x # y => Lists!Behind(entries[x].key, x, y) \/ Lists!Behind(entries[y].key, y, x)
         /\ Lists!Behind(entries[x].key, x, y) => ~Lists!Behind(entries[y].key, y, x)
<1> DEFINE kx == entries[x].key
           ky == entries[y].key
           kz == entries[z].key
<1>1. kx \in Lists!Moments /\ ky \in Lists!Moments /\ kz \in Lists!Moments
      /\ x \in Nat /\ y \in Nat /\ z \in Nat
  BY RowsAre
<1>2. /\ kx.ms \in Nat /\ kx.us \in Nat /\ ky.ms \in Nat /\ ky.us \in Nat
      /\ kz.ms \in Nat /\ kz.us \in Nat
  BY <1>1, MomentsAre
<1>3. /\ kx.ms = ky.ms /\ kx.us = ky.us => kx = ky
      /\ ky.ms = kz.ms /\ ky.us = kz.us => ky = kz
  BY <1>1, MomentsAre
<1> QED BY <1>1, <1>2, <1>3, BeforeIs DEF Lists!Behind

Place(y) == [key |-> Lists!Truncated(entries[y].key), id |-> y]

CursorsOfRows == [key : Lists!Moments, id : ListRows]

\* The cursor behind a row is none of the empty ones.
LEMMA CursorsAre ==
  ASSUME NEW c \in CursorsOfRows
  PROVE  c # Lists!None /\ c.key \in Lists!Moments /\ c.id \in ListRows /\ c.id \in Nat
<1>1. c.key \in Lists!Moments /\ c.id \in ListRows
  BY DEF CursorsOfRows
<1>2. DOMAIN c = {"key", "id"} /\ DOMAIN Lists!None = {"none"}
  BY DEF CursorsOfRows, Lists!None
<1>3. "key" \in DOMAIN c /\ "key" \notin DOMAIN Lists!None
  BY <1>2
<1>4. c # Lists!None
  BY <1>3
<1> QED BY <1>1, <1>4, PartsAssumption DEF Lists!PagingAssumption

\* The place of a row is its key to the millisecond.
LEMMA PlacesAre ==
  ASSUME ListTyped, NEW y \in ListRows, Lists!Present(y)
  PROVE  /\ Place(y) \in CursorsOfRows /\ Place(y).id = y
         /\ Place(y).key.ms = entries[y].key.ms /\ Place(y).key.us = 0
BY RowsAre, MomentsAre DEF Place, CursorsOfRows

\* What comes behind a cursor.
LEMMA AfterIs ==
  ASSUME ListTyped, NEW c \in CursorsOfRows, NEW x \in ListRows, Lists!Present(x)
  PROVE  Lists!After(c, x) <=>
           \/ entries[x].key.ms < c.key.ms
           \/ entries[x].key.ms = c.key.ms /\
                IF list.inMemory THEN x < c.id
                ELSE entries[x].key.us < c.key.us \/ (entries[x].key.us = c.key.us /\ x < c.id)
<1> DEFINE k == entries[x].key
<1>1. k \in Lists!Moments /\ x \in Nat
  BY RowsAre
<1>2. c # Lists!None /\ c.key \in Lists!Moments /\ c.id \in Nat
  BY CursorsAre
<1>3. k.ms \in Nat /\ k.us \in Nat /\ c.key.ms \in Nat /\ c.key.us \in Nat
  BY <1>1, <1>2, MomentsAre
<1>4. k.ms = c.key.ms /\ k.us = c.key.us <=> k = c.key
  BY <1>1, <1>2, MomentsAre
<1>5. CASE list.inMemory
  BY <1>2, <1>5 DEF Lists!After, Lists!BehindView
<1>6. CASE ~list.inMemory
  <2>1. Lists!After(c, x) <=> Lists!Before(k, c.key) \/ (k = c.key /\ x < c.id)
    BY <1>2, <1>6 DEF Lists!After, Lists!Behind
  <2>2. Lists!Before(k, c.key) <=> k.ms < c.key.ms \/ (k.ms = c.key.ms /\ k.us < c.key.us)
    BY <1>1, <1>2, BeforeIs
  <2> QED BY <1>3, <1>4, <1>6, <2>1, <2>2
<1> QED BY <1>5, <1>6

\* Two rows of one millisecond.
LEMMA BlurredIs ==
  ASSUME ListTyped, NEW x \in ListRows, Lists!Present(x), NEW y \in ListRows, Lists!Present(y),
         x # y, entries[x].key.ms = entries[y].key.ms, ~list.precise
  PROVE  Lists!Blurred(x)
BY DEF Lists!Blurred

\* A row is not behind its own place; who is behind a row behind a cursor is behind the
\* cursor; and a cursor in milliseconds errs only on rows of one millisecond.
LEMMA AfterPlaces ==
  ASSUME ListTyped, NEW x \in ListRows, Lists!Present(x), NEW y \in ListRows, Lists!Present(y)
  PROVE  /\ ~Lists!After(Place(x), x)
         /\ \A c \in CursorsOfRows \cup {Lists!None} :
              Lists!After(c, y) /\ Lists!After(Place(y), x) => Lists!After(c, x)
         /\ Lists!Behind(entries[x].key, x, y) =>
              ~Lists!After(Place(y), x) \/ (list.inMemory /\ Lists!Blurred(x))
         /\ Lists!Behind(entries[y].key, y, x) => Lists!After(Place(y), x) \/ Lists!Blurred(x)
<1> DEFINE kx == entries[x].key
           ky == entries[y].key
<1>1. /\ kx \in Lists!Moments /\ ky \in Lists!Moments /\ x \in Nat /\ y \in Nat
      /\ list.precise => kx.us = 0 /\ ky.us = 0
  BY RowsAre
<1>2. kx.ms \in Nat /\ kx.us \in Nat /\ ky.ms \in Nat /\ ky.us \in Nat
  BY <1>1, MomentsAre
<1>3. /\ Place(x) \in CursorsOfRows /\ Place(x).id = x /\ Place(x).key.ms = kx.ms /\ Place(x).key.us = 0
      /\ Place(y) \in CursorsOfRows /\ Place(y).id = y /\ Place(y).key.ms = ky.ms /\ Place(y).key.us = 0
  BY PlacesAre
<1>4. Lists!After(Place(y), x) <=>
        \/ kx.ms < ky.ms
        \/ kx.ms = ky.ms /\ IF list.inMemory THEN x < y
                            ELSE kx.us < 0 \/ (kx.us = 0 /\ x < y)
  <2>1. Lists!After(Place(y), x) <=>
          \/ kx.ms < Place(y).key.ms
          \/ kx.ms = Place(y).key.ms /\
               IF list.inMemory THEN x < Place(y).id
               ELSE kx.us < Place(y).key.us \/ (kx.us = Place(y).key.us /\ x < Place(y).id)
    BY <1>3, AfterIs
  <2> QED BY <1>3, <2>1
<1>5. ~Lists!After(Place(x), x)
  <2>1. Lists!After(Place(x), x) <=>
          \/ kx.ms < Place(x).key.ms
          \/ kx.ms = Place(x).key.ms /\
               IF list.inMemory THEN x < Place(x).id
               ELSE kx.us < Place(x).key.us \/ (kx.us = Place(x).key.us /\ x < Place(x).id)
    BY <1>3, AfterIs
  <2> QED BY <1>1, <1>2, <1>3, <2>1
<1>6. ASSUME NEW c \in CursorsOfRows, Lists!After(c, y), Lists!After(Place(y), x)
      PROVE  Lists!After(c, x)
  <2>1. c.key \in Lists!Moments /\ c.id \in Nat
    BY CursorsAre
  <2>2. c.key.ms \in Nat /\ c.key.us \in Nat
    BY <2>1, MomentsAre
  <2>3. \/ ky.ms < c.key.ms
        \/ ky.ms = c.key.ms /\ IF list.inMemory THEN y < c.id
                               ELSE ky.us < c.key.us \/ (ky.us = c.key.us /\ y < c.id)
    BY <1>6, AfterIs
  <2>4. \/ kx.ms < c.key.ms
        \/ kx.ms = c.key.ms /\ IF list.inMemory THEN x < c.id
                               ELSE kx.us < c.key.us \/ (kx.us = c.key.us /\ x < c.id)
    BY <1>1, <1>2, <1>4, <1>6, <2>1, <2>2, <2>3
  <2> QED BY <2>4, AfterIs
<1>7. Lists!After(Lists!None, x)
  BY DEF Lists!After
<1>8. /\ list.inMemory \in BOOLEAN /\ list.precise \in BOOLEAN
      /\ list.inMemory => ~list.precise
  BY KindsAre DEF ListTyped
<1>9. \A r, s \in {x, y} : Lists!Behind(entries[r].key, r, s) <=>
        \/ entries[s].key.ms < entries[r].key.ms
        \/ entries[s].key.ms = entries[r].key.ms /\ entries[s].key.us < entries[r].key.us
        \/ entries[s].key.ms = entries[r].key.ms /\ entries[s].key.us = entries[r].key.us /\ s < r
  <2>1. kx.ms = ky.ms /\ kx.us = ky.us <=> kx = ky
    BY <1>1, MomentsAre
  <2> QED BY <1>1, <2>1, BeforeIs DEF Lists!Behind
<1>10. ASSUME Lists!Behind(kx, x, y), Lists!After(Place(y), x), ~(list.inMemory /\ Lists!Blurred(x))
       PROVE  FALSE
  <2>1. \/ ky.ms < kx.ms
        \/ ky.ms = kx.ms /\ ky.us < kx.us
        \/ ky.ms = kx.ms /\ ky.us = kx.us /\ y < x
    BY <1>9, <1>10
  <2>2. CASE list.inMemory
    <3>1. kx.ms = ky.ms /\ x # y
      BY <1>1, <1>2, <1>4, <1>10, <2>1, <2>2
    <3> QED BY <1>8, <1>10, <2>2, <3>1, BlurredIs
  <2>3. CASE ~list.inMemory
    BY <1>1, <1>2, <1>4, <1>10, <2>1, <2>3
  <2> QED BY <2>2, <2>3
<1>11. ASSUME Lists!Behind(ky, y, x), ~Lists!After(Place(y), x), ~Lists!Blurred(x)
       PROVE  FALSE
  <2>1. \/ kx.ms < ky.ms
        \/ kx.ms = ky.ms /\ kx.us < ky.us
        \/ kx.ms = ky.ms /\ kx.us = ky.us /\ x < y
    BY <1>9, <1>11
  <2>2. kx.ms = ky.ms /\ x # y
    BY <1>1, <1>2, <1>4, <1>11, <2>1
  <2>3. list.precise
    BY <1>8, <1>11, <2>2, BlurredIs
  <2> QED BY <1>1, <1>4, <1>8, <1>11, <2>1, <2>3
<1> QED BY <1>5, <1>6, <1>7, <1>10, <1>11

-------------------------------------------------------------------------------
(* Pages of a list.                                                        *)

\* The rows that a page is the beginning of.
Sought(cursor, asOf) ==
  {r \in ListRows : Lists!Listed(r) /\ Lists!After(cursor, r) /\ Lists!WithinCutoff(asOf, r)}

\* All the rows sought are found, in the order of the list.
LEMMA FoundIs ==
  ASSUME ListTyped, NEW cursor, NEW asOf
  PROVE  LET found == Lists!Found(cursor, asOf)
         IN  /\ found \in Seq(Sought(cursor, asOf))
             /\ \A i, j \in 1 .. Len(found) : i < j =>
                  Lists!Behind(entries[found[i]].key, found[i], found[j])
             /\ \A x \in Sought(cursor, asOf) : \E i \in 1 .. Len(found) : found[i] = x
<1> DEFINE S == Sought(cursor, asOf)
           found == Lists!Found(cursor, asOf)
           R == {p \in S \X S : Lists!Behind(entries[p[1]].key, p[1], p[2])}
           n == Lists!Cardinality(S)
           InOrder(q) == \A i, j \in DOMAIN q : i < j =>
                           Lists!Behind(entries[q[i]].key, q[i], q[j])
<1>1. n = Cardinality(S)
  BY DEF Lists!Cardinality, Cardinality
<1>2. IsFiniteSet(S)
  <2>1. IsFiniteSet(ListRows)
    BY PartsAssumption DEF Lists!PagingAssumption, Lists!IsFiniteSet, IsFiniteSet
  <2> QED BY <2>1, FS_Subset DEF Sought
<1>3. \A x \in S : x \in ListRows /\ Lists!Present(x)
  BY ListedArePresent DEF Sought
<1>4. \A x, y \in S : <<x, y>> \in R <=> Lists!Behind(entries[x].key, x, y)
  <2> HIDE DEF S
  <2> QED OBVIOUS
<1>5. /\ Irreflexive(R, S)
      /\ \A x, y, z \in S : <<x, y>> \in R /\ <<y, z>> \in R => <<x, z>> \in R
      /\ \A x, y \in S : x # y => <<x, y>> \in R \/ <<y, x>> \in R
  <2> HIDE DEF S, R
  <2> QED BY <1>3, <1>4, RowOrder DEF Irreflexive
<1>6. \E q \in [1 .. Cardinality(S) -> S] : Climbs(q, R)
  <2> HIDE DEF S, R
  <2> QED BY <1>2, <1>5, InOrderExists
<1>7. n \in Nat
  BY <1>1, <1>2, FS_CardinalityType
<1>8. \A q \in [1 .. n -> S] : InOrder(q) <=> Climbs(q, R)
  <2> HIDE DEF S, R, n
  <2> QED BY <1>4 DEF Climbs
<1>9. \E q \in [1 .. n -> S] : InOrder(q)
  <2> HIDE DEF S, R, InOrder
  <2> QED BY <1>1, <1>6, <1>8
<1>10. found = CHOOSE q \in [1 .. n -> S] : InOrder(q)
  BY DEF Lists!Found, Lists!Ordered, Sought
<1>11. found \in [1 .. n -> S] /\ InOrder(found)
  <2> HIDE DEF S, n, found, InOrder
  <2> QED BY <1>9, <1>10
<1>12. /\ found \in Seq(S) /\ Len(found) = n
       /\ \A x \in S : \E i \in 1 .. Len(found) : found[i] = x
  <2> HIDE DEF S, R, n, found, InOrder
  <2>1. Climbs(found, R)
    BY <1>8, <1>11
  <2>2. found \in [1 .. Cardinality(S) -> S]
    BY <1>1, <1>11
  <2>3. /\ found \in Seq(S) /\ Len(found) = Cardinality(S)
        /\ \A x \in S : \E i \in 1 .. Len(found) : found[i] = x
    BY <1>2, <1>5, <2>1, <2>2, InOrderIsAll
  <2> QED BY <1>1, <2>3
<1>13. DOMAIN found = 1 .. Len(found)
  <2> HIDE DEF S, found
  <2> QED BY <1>12
<1> QED BY <1>11, <1>12, <1>13

\* The lesser of two numbers, as lists take it.
LEMMA LeastOfTwo ==
  ASSUME NEW a \in Nat, NEW b \in Nat
  PROVE  Lists!Min({a, b}) = IF a <= b THEN a ELSE b
<1> DEFINE m == IF a <= b THEN a ELSE b
<1>1. m \in {a, b} /\ \A y \in {a, b} : m <= y
  OBVIOUS
<1>2. \A x \in {a, b} : (\A y \in {a, b} : x <= y) => x = m
  OBVIOUS
<1> QED BY <1>1, <1>2 DEF Lists!Min

\* A page is the beginning of what is sought, in order, and what is not on it is
\* behind its last row.
LEMMA PageIs ==
  ASSUME ListTyped, NEW cursor, NEW asOf
  PROVE  LET ids == Lists!Page(cursor, asOf)
             more == Lists!HasMore(cursor, asOf)
         IN  /\ ids \in Seq(ListRows) /\ more \in BOOLEAN
             /\ Len(ids) <= limit /\ (more => Len(ids) = limit)
             /\ \A i \in 1 .. Len(ids) : ids[i] \in Sought(cursor, asOf)
             /\ \A i, j \in 1 .. Len(ids) : i < j => Lists!Behind(entries[ids[i]].key, ids[i], ids[j])
             /\ \A x \in Sought(cursor, asOf) :
                  \/ \E i \in 1 .. Len(ids) : ids[i] = x
                  \/ more /\ Lists!Behind(entries[Last(ids)].key, Last(ids), x)
<1> DEFINE S == Sought(cursor, asOf)
           found == Lists!Found(cursor, asOf)
           ids == Lists!Page(cursor, asOf)
           more == Lists!HasMore(cursor, asOf)
           n == IF limit <= Len(found) THEN limit ELSE Len(found)
<1>1. limit \in Nat \ {0}
  BY PartsAssumption DEF ListTyped, Lists!PagingAssumption
<1>2. /\ found \in Seq(S)
      /\ \A i, j \in 1 .. Len(found) : i < j => Lists!Behind(entries[found[i]].key, found[i], found[j])
      /\ \A x \in S : \E i \in 1 .. Len(found) : found[i] = x
  BY FoundIs
<1>3. Len(found) \in Nat /\ \A i \in 1 .. Len(found) : found[i] \in S
  <2> HIDE DEF found, S
  <2> QED BY <1>2
<1>4. Lists!Min({limit, Len(found)}) = n /\ n \in Nat /\ n <= Len(found) /\ n <= limit
  <2> HIDE DEF found
  <2> QED BY <1>1, <1>3, LeastOfTwo
<1>5. ids = SubSeq(found, 1, n)
  <2> HIDE DEF found
  <2>1. ids = SubSeq(found, 1, Lists!Min({limit, Len(found)}))
    BY DEF found, Lists!Page
  <2> QED BY <1>4, <2>1
<1>6. more <=> Len(found) > limit
  BY DEF Lists!HasMore
<1>7. ids \in Seq(S) /\ Len(ids) = n /\ \A i \in 1 .. n : ids[i] = found[i]
  <2> HIDE DEF found, S, ids, n
  <2> QED BY <1>2, <1>3, <1>4, <1>5
<1>8. S \subseteq ListRows
  BY DEF Sought
<1>9. ids \in Seq(ListRows)
  <2> HIDE DEF S, ids
  <2> QED BY <1>7, <1>8
<1>10. more \in BOOLEAN
  BY DEF Lists!HasMore
<1>11. ASSUME NEW x \in S
       PROVE  (\E i \in 1 .. n : ids[i] = x)
              \/ (more /\ Lists!Behind(entries[Last(ids)].key, Last(ids), x))
  <2>1. PICK i \in 1 .. Len(found) : found[i] = x
    BY <1>2
  <2>2. CASE i <= n
    <3> HIDE DEF found, ids, n
    <3> QED BY <1>3, <1>4, <1>7, <2>1, <2>2
  <2>3. CASE n < i
    <3>1. more /\ n = limit /\ n \in 1 .. Len(found)
      <4> HIDE DEF found, more
      <4> QED BY <1>1, <1>3, <1>6, <2>1, <2>3
    <3>2. Last(ids) = found[n]
      <4> HIDE DEF found, ids, n
      <4>1. Last(ids) = ids[n]
        BY <1>7 DEF Last
      <4> QED BY <1>1, <1>7, <3>1, <4>1
    <3>3. Lists!Behind(entries[found[n]].key, found[n], found[i])
      <4> HIDE DEF found, n
      <4> QED BY <1>2, <2>1, <2>3, <3>1
    <3> HIDE DEF found, ids, n, more
    <3> QED BY <2>1, <3>1, <3>2, <3>3
  <2> HIDE DEF found, ids, n, more, S
  <2> QED BY <1>3, <1>4, <2>1, <2>2, <2>3
<1>12. more => n = limit
  <2> HIDE DEF found, more
  <2> QED BY <1>1, <1>3, <1>6
<1>13. \A i, j \in 1 .. n : i < j => Lists!Behind(entries[ids[i]].key, ids[i], ids[j])
  <2> HIDE DEF found, ids, n
  <2>1. ASSUME NEW i \in 1 .. n, NEW j \in 1 .. n, i < j
        PROVE  Lists!Behind(entries[ids[i]].key, ids[i], ids[j])
    <3>1. i \in 1 .. Len(found) /\ j \in 1 .. Len(found)
      BY <1>3, <1>4
    <3>2. Lists!Behind(entries[found[i]].key, found[i], found[j])
      BY <1>2, <2>1, <3>1
    <3>3. found[i] = ids[i] /\ found[j] = ids[j]
      BY <1>7
    <3> QED BY <3>2, <3>3
  <2> QED BY <2>1
<1>14. \A i \in 1 .. n : ids[i] \in S
  <2> HIDE DEF found, ids, n, S
  <2> QED BY <1>3, <1>4, <1>7
<1> HIDE DEF found, ids, n, S, more
<1> QED BY <1>4, <1>7, <1>9, <1>10, <1>11, <1>12, <1>13, <1>14 DEF ids, more, S

KeysOf(ids) == [i \in DOMAIN ids |-> entries[ids[i]].key]

\* The keys of a page, and the place behind it.
LEMMA KeysAre ==
  ASSUME ListTyped, NEW ids \in Seq(ListRows), \A i \in DOMAIN ids : Lists!Present(ids[i])
  PROVE  /\ KeysOf(ids) \in Seq(Lists!Moments) /\ Len(KeysOf(ids)) = Len(ids)
         /\ ids # <<>> => /\ Last(ids) \in ListRows /\ Lists!Present(Last(ids))
                          /\ \E i \in DOMAIN ids : i = Len(ids) /\ Last(ids) = ids[i]
                          /\ PlaceBehind(ids, KeysOf(ids)) = Place(Last(ids))
                          /\ Last(KeysOf(ids)) = entries[Last(ids)].key
<1> DEFINE keys == KeysOf(ids)
<1>1. DOMAIN ids = 1 .. Len(ids) /\ Len(ids) \in Nat /\ \A i \in DOMAIN ids : ids[i] \in ListRows
  OBVIOUS
<1>2. \A i \in DOMAIN ids : entries[ids[i]].key \in Lists!Moments
  BY <1>1, RowsAre
<1>3. /\ keys \in Seq(Lists!Moments) /\ Len(keys) = Len(ids)
      /\ \A i \in DOMAIN ids : keys[i] = entries[ids[i]].key
  <2> DEFINE key(i) == entries[ids[i]].key
  <2>1. keys = [i \in 1 .. Len(ids) |-> key(i)]
    BY <1>1 DEF KeysOf
  <2>2. \A i \in 1 .. Len(ids) : key(i) \in Lists!Moments
    BY <1>1, <1>2
  <2>3. keys \in Seq(Lists!Moments) /\ Len(keys) = Len(ids) /\ \A i \in 1 .. Len(ids) : keys[i] = key(i)
    <3> HIDE DEF keys, key
    <3> QED BY <1>1, <2>1, <2>2
  <2> QED BY <1>1, <2>3
<1>4. ASSUME ids # <<>>
      PROVE  /\ Last(ids) \in ListRows /\ Lists!Present(Last(ids))
             /\ \E i \in DOMAIN ids : i = Len(ids) /\ Last(ids) = ids[i]
             /\ PlaceBehind(ids, keys) = Place(Last(ids))
             /\ Last(keys) = entries[Last(ids)].key
  <2>1. Len(ids) \in DOMAIN ids
    BY <1>1, <1>4
  <2>2. Last(ids) = ids[Len(ids)] /\ Last(keys) = keys[Len(ids)]
    BY <1>3 DEF Last
  <2>3. Last(keys) = entries[Last(ids)].key
    BY <1>3, <2>1, <2>2
  <2>4. PlaceBehind(ids, keys) = Place(Last(ids))
    BY <2>3 DEF PlaceBehind, Place
  <2> QED BY <1>1, <2>1, <2>2, <2>3, <2>4
<1> QED BY <1>3, <1>4

\* The page that a statement reads fits to what was read before.
LEMMA PageRead ==
  ASSUME ListTyped, NEW kept, NEW cursor \in CursorsOfRows \cup {Lists!None}, NEW asOf,
         \A i \in DOMAIN walk.got : Lists!Present(walk.got[i]) /\ walk.got[i] \in ListRows,
         \A x \in kept : x \in ListRows /\ Lists!Listed(x) /\ Lists!WithinCutoff(asOf, x),
         NoneLost(kept, cursor), NoneAgain(kept, cursor)
  PROVE  PageFits(kept, Lists!Page(cursor, asOf), KeysOf(Lists!Page(cursor, asOf)),
                  Lists!HasMore(cursor, asOf))
<1> DEFINE ids == Lists!Page(cursor, asOf)
           more == Lists!HasMore(cursor, asOf)
           place == PlaceBehind(ids, KeysOf(ids))
           last == Last(ids)
<1>1. /\ ids \in Seq(ListRows) /\ more \in BOOLEAN
      /\ Len(ids) <= limit /\ (more => Len(ids) = limit)
      /\ \A i \in 1 .. Len(ids) : ids[i] \in Sought(cursor, asOf)
      /\ \A i, j \in 1 .. Len(ids) : i < j => Lists!Behind(entries[ids[i]].key, ids[i], ids[j])
      /\ \A x \in Sought(cursor, asOf) :
           \/ \E i \in 1 .. Len(ids) : ids[i] = x
           \/ more /\ Lists!Behind(entries[Last(ids)].key, Last(ids), x)
  BY PageIs
<1>2. DOMAIN ids = 1 .. Len(ids) /\ Len(ids) \in Nat
  <2> HIDE DEF ids
  <2> QED BY <1>1
<1>3. \A x \in Sought(cursor, asOf) : x \in ListRows /\ Lists!Present(x) /\ Lists!After(cursor, x)
  BY ListedArePresent DEF Sought
<1>4. \A i \in DOMAIN ids : ids[i] \in ListRows /\ Lists!Present(ids[i]) /\ Lists!After(cursor, ids[i])
  <2> HIDE DEF ids
  <2> QED BY <1>1, <1>2, <1>3
<1>5. limit \in Nat \ {0}
  BY PartsAssumption DEF ListTyped, Lists!PagingAssumption
<1>6. /\ KeysOf(ids) \in Seq(Lists!Moments) /\ Len(KeysOf(ids)) = Len(ids)
      /\ ids # <<>> => /\ last \in ListRows /\ Lists!Present(last)
                       /\ \E i \in DOMAIN ids : i = Len(ids) /\ last = ids[i]
                       /\ place = Place(last)
  <2> HIDE DEF ids
  <2> QED BY <1>1, <1>4, KeysAre
<1>7. more => ids # <<>>
  <2> HIDE DEF ids, more
  <2> QED BY <1>1, <1>5
<1>8. ASSUME NEW i \in DOMAIN ids, NEW j \in DOMAIN ids, ids[i] = ids[j], i < j PROVE FALSE
  <2>1. Lists!Behind(entries[ids[i]].key, ids[i], ids[i])
    <3> HIDE DEF ids
    <3> QED BY <1>1, <1>2, <1>8
  <2> HIDE DEF ids
  <2> QED BY <1>4, <2>1, RowOrder
<1>9. \A i, j \in DOMAIN ids : ids[i] = ids[j] => i = j
  <2> HIDE DEF ids
  <2> QED BY <1>2, <1>8
<1>10. ASSUME ~walk.torn, NEW x \in kept, ~Lists!Blurred(x), ~Got(x)
       PROVE  (\E i \in DOMAIN ids : ids[i] = x) \/ (more /\ Lists!After(place, x))
  <2>1. x \in Sought(cursor, asOf)
    BY <1>10 DEF NoneLost, Sought
  <2>2. \/ \E i \in DOMAIN ids : ids[i] = x
        \/ more /\ Lists!Behind(entries[last].key, last, x)
    <3> HIDE DEF ids, more
    <3> QED BY <1>1, <1>2, <2>1
  <2>3. ASSUME more, Lists!Behind(entries[last].key, last, x) PROVE Lists!After(place, x)
    <3> HIDE DEF ids, more, place, last
    <3>1. last \in ListRows /\ Lists!Present(last) /\ place = Place(last)
      BY <1>6, <1>7, <2>3
    <3> QED BY <1>3, <1>10, <2>1, <2>3, <3>1, AfterPlaces
  <2> QED BY <2>2, <2>3
<1>11. ASSUME NEW i \in DOMAIN ids, Got(ids[i]) PROVE Excused(kept, ids[i])
  <2>1. Lists!After(cursor, ids[i])
    BY <1>4
  <2> HIDE DEF ids
  <2> QED BY <1>11, <2>1 DEF Got, NoneAgain
<1>12. ASSUME more PROVE NoneAgain(kept, place)
  <2>1. ASSUME NEW i \in DOMAIN walk.got, Lists!After(place, walk.got[i]) PROVE Excused(kept, walk.got[i])
    <3> HIDE DEF ids, more, place, last
    <3>1. last \in ListRows /\ Lists!Present(last) /\ place = Place(last) /\ Lists!After(cursor, last)
      BY <1>4, <1>6, <1>7, <1>12
    <3>2. Lists!After(cursor, walk.got[i])
      BY <2>1, <3>1, AfterPlaces
    <3> QED BY <3>2 DEF NoneAgain
  <2> HIDE DEF place
  <2> QED BY <2>1 DEF NoneAgain
<1>13. ASSUME more, NEW i \in DOMAIN ids, Lists!After(place, ids[i]) PROVE Excused(kept, ids[i])
  <2> HIDE DEF ids, more, place, last
  <2>1. last \in ListRows /\ Lists!Present(last) /\ place = Place(last) /\ last = ids[Len(ids)]
        /\ ids[i] \in ListRows /\ Lists!Present(ids[i])
    BY <1>4, <1>6, <1>7, <1>13
  <2>2. i # Len(ids)
    BY <1>13, <2>1, AfterPlaces
  <2>3. Lists!Behind(entries[ids[i]].key, ids[i], last)
    BY <1>1, <1>2, <2>1, <2>2
  <2>4. list.inMemory /\ Lists!Blurred(ids[i])
    BY <1>13, <2>1, <2>3, AfterPlaces
  <2> QED BY <2>4 DEF Excused
<1> HIDE DEF ids, more, place
<1> QED BY <1>1, <1>4, <1>6, <1>9, <1>10, <1>11, <1>12, <1>13 DEF PageFits, ids, more, place

\* What is said of rows depends on the rows and the kind of list alone.
LEMMA SameRows ==
  ASSUME list' = list, entries' = entries
  PROVE  /\ \A x : (Lists!Present(x)' <=> Lists!Present(x)) /\ (Lists!Listed(x)' <=> Lists!Listed(x))
         /\ \A x : Lists!Blurred(x)' <=> Lists!Blurred(x)
         /\ \A c, x : Lists!After(c, x)' <=> Lists!After(c, x)
         /\ \A a, x : Lists!WithinCutoff(a, x)' <=> Lists!WithinCutoff(a, x)
<1>1. \A x : (Lists!Present(x)' <=> Lists!Present(x)) /\ (Lists!Listed(x)' <=> Lists!Listed(x))
  BY DEF Lists!Present, Lists!Listed
<1>2. \A x : Lists!Blurred(x)' <=> Lists!Blurred(x)
  BY <1>1 DEF Lists!Blurred
<1>3. \A c, x : Lists!After(c, x)' <=> Lists!After(c, x)
  BY DEF Lists!After, Lists!Behind, Lists!BehindView
<1>4. \A a, x : Lists!WithinCutoff(a, x)' <=> Lists!WithinCutoff(a, x)
  BY DEF Lists!WithinCutoff
<1> QED BY <1>1, <1>2, <1>3, <1>4

\* One page more is still whole pages.
LEMMA OnePageMore ==
  ASSUME NEW a \in Nat, NEW l \in Nat \ {0}, a % l = 0
  PROVE  (a + l) % l = 0
<1> DEFINE p == a \div l
           q == (a + l) \div l
           rest == (a + l) % l
           d == q - p - 1
<1>1. p \in Int /\ q \in Int /\ rest \in 0 .. l - 1
  OBVIOUS
<1>2. a = l * p
  OBVIOUS
<1>3. a + l = l * q + rest
  OBVIOUS
<1> HIDE DEF p, q, rest
<1>4. d \in Int /\ l * d = 0 - rest
  BY <1>1, <1>2, <1>3
<1> HIDE DEF d
<1>5. d >= 1 => l * d >= l
  BY <1>4
<1>6. d <= -1 => l * d <= 0 - l
  BY <1>4
<1>7. d = 0
  BY <1>1, <1>4, <1>5, <1>6
<1>8. rest = 0
  BY <1>1, <1>4, <1>7
<1> QED BY <1>8 DEF rest

\* A page that fits is handed to the client: the reading stands as it did.
LEMMA PageDelivered ==
  ASSUME ListInvariant, NEW kept, NEW ids, NEW keys, NEW more \in BOOLEAN, NEW asOf \in 0 .. now,
         NEW torn \in BOOLEAN, PageFits(kept, ids, keys, more), walk.state # "done",
         kept \subseteq {x \in ListRows : Lists!Listed(x) /\ Lists!WithinCutoff(asOf, x)},
         walk.got = <<>> \/ kept = steady,
         torn => list.moves,
         ids # <<>> /\ ~torn => entries[Last(ids)].key = Last(keys),
         UNCHANGED <<list, limit, now, entries, changes>>, steady' = kept,
         walk' = Lists!Delivered(ids, more, asOf, torn)
  PROVE  ListInvariant'
<1> DEFINE got == walk.got \o ids
           cursor == IF more THEN Place(Last(ids)) ELSE Lists!None
           last == Last(ids)
<1>1. ListTyped /\ WalkStands /\ Lists!NothingTwice /\ list' = list /\ entries' = entries
      /\ limit' = limit /\ now' = now /\ changes' = changes
  BY DEF ListInvariant
<1>2. limit \in Nat \ {0}
  BY <1>1, PartsAssumption DEF ListTyped, Lists!PagingAssumption
<1>3. walk.got \in Seq(ListRows) /\ walk.torn \in BOOLEAN
  BY <1>1 DEF ListTyped, Walks
<1>4. /\ ids \in Seq(ListRows) /\ \A i \in DOMAIN ids : Lists!Present(ids[i])
      /\ more => Len(ids) = limit
  BY DEF PageFits
<1>5. /\ DOMAIN ids = 1 .. Len(ids) /\ Len(ids) \in Nat /\ DOMAIN walk.got = 1 .. Len(walk.got)
      /\ Len(walk.got) \in Nat
      /\ \A i \in DOMAIN ids : ids[i] \in ListRows
      /\ \A i \in DOMAIN walk.got : walk.got[i] \in ListRows
  BY <1>3, <1>4
<1>6. /\ got \in Seq(ListRows) /\ Len(got) = Len(walk.got) + Len(ids) /\ DOMAIN got = 1 .. Len(got)
      /\ \A i \in 1 .. Len(walk.got) : got[i] = walk.got[i]
      /\ \A i \in Len(walk.got) + 1 .. Len(got) : got[i] = ids[i - Len(walk.got)]
                                                  /\ i - Len(walk.got) \in DOMAIN ids
  BY <1>3, <1>4, <1>5
<1>7. ASSUME more PROVE last \in ListRows /\ Lists!Present(last) /\ cursor = Place(last) /\ cursor \in CursorsOfRows
                        /\ cursor # Lists!None /\ ids # <<>>
  <2>1. ids # <<>>
    BY <1>2, <1>4, <1>7
  <2>2. last \in ListRows /\ Lists!Present(last)
    BY <1>1, <1>4, <2>1, KeysAre
  <2>3. cursor = Place(last) /\ cursor \in CursorsOfRows
    BY <1>1, <1>7, <2>2, PlacesAre
  <2> HIDE DEF cursor
  <2> QED BY <2>1, <2>2, <2>3, CursorsAre
<1>8. /\ walk'.state = (IF more THEN "reading" ELSE "done") /\ walk'.cursor = cursor
      /\ walk'.asOf = asOf /\ walk'.got = got /\ walk'.picked = <<>> /\ walk'.torn = (walk.torn \/ torn)
      /\ walk' = [state |-> IF more THEN "reading" ELSE "done", cursor |-> cursor, asOf |-> asOf,
                  got |-> got, picked |-> <<>>, torn |-> walk.torn \/ torn]
  BY DEF Lists!Delivered, Lists!CursorOf, Lists!Last, Last, Place
<1> HIDE DEF got, cursor
<1>9. ListTyped'
  <2>1. walk' \in Walks
    <3>1. cursor \in {Lists!None} \cup [key : Lists!Moments, id : ListRows]
      BY <1>7 DEF cursor, CursorsOfRows
    <3>2. (IF more THEN "reading" ELSE "done") \in {"none", "reading", "picked", "done"}
      OBVIOUS
    <3>3. asOf \in Nat /\ (walk.torn \/ torn) \in BOOLEAN
      BY <1>1, <1>3 DEF ListTyped
    <3> QED BY <1>6, <1>8, <3>1, <3>2, <3>3 DEF Walks
  <2>2. steady' \subseteq {r \in ListRows : Lists!Listed(r)'}
    BY <1>1, SameRows
  <2>3. \A r \in ListRows : (Lists!Present(r) => entries[r].key \in Lists!SortKeys(entries[r].created))'
    BY <1>1, SameRows DEF ListTyped, Lists!SortKeys
  <2>4. walk'.asOf <= now'
    BY <1>1, <1>8
  <2>5. /\ list' \in Lists!Lists /\ limit' \in Limits /\ now' \in 0 .. MaxMs /\ changes' \in 0 .. MaxChanges
        /\ entries' \in [ListRows -> Lists!Rowlike \cup {Lists!Blank}]
    BY <1>1 DEF ListTyped
  <2> QED BY <2>1, <2>2, <2>3, <2>4, <2>5 DEF ListTyped
<1>10. \A x : Got(x)' <=> Got(x) \/ \E i \in DOMAIN ids : ids[i] = x
  <2>1. ASSUME NEW i \in DOMAIN got PROVE Got(got[i]) \/ \E j \in DOMAIN ids : ids[j] = got[i]
    <3>1. CASE i \in 1 .. Len(walk.got)
      BY <1>5, <1>6, <3>1 DEF Got
    <3>2. CASE i \in Len(walk.got) + 1 .. Len(got)
      BY <1>6, <3>2
    <3> QED BY <1>5, <1>6, <2>1, <3>1, <3>2
  <2>2. ASSUME NEW i \in DOMAIN ids PROVE \E j \in DOMAIN got : got[j] = ids[i]
    <3>1. Len(walk.got) + i \in Len(walk.got) + 1 .. Len(got) /\ (Len(walk.got) + i) - Len(walk.got) = i
      BY <1>5, <1>6
    <3>2. Len(walk.got) + i \in DOMAIN got
      BY <1>5, <1>6
    <3> QED BY <1>6, <3>1, <3>2
  <2>3. ASSUME NEW i \in DOMAIN walk.got PROVE \E j \in DOMAIN got : got[j] = walk.got[i]
    BY <1>5, <1>6
  <2> QED BY <1>8, <2>1, <2>2, <2>3 DEF Got
<1>11. ASSUME NEW x, Excused(kept, x) PROVE Excused(kept, x)'
  BY <1>1, <1>8, <1>11, SameRows DEF Excused
<1>12. ASSUME torn, NEW x PROVE Excused(kept, x)'
  BY <1>1, <1>8, <1>12 DEF Excused
<1>13. ASSUME NEW i \in DOMAIN got PROVE Lists!Present(got[i])
  <2>1. CASE i \in 1 .. Len(walk.got)
    BY <1>1, <1>5, <1>6, <2>1 DEF WalkStands
  <2>2. CASE i \in Len(walk.got) + 1 .. Len(got)
    BY <1>4, <1>6, <2>2
  <2> QED BY <1>5, <1>6, <1>13, <2>1, <2>2
<1>14. ASSUME more, ~torn PROVE cursor = PlaceBehind(ids, keys)
  BY <1>7, <1>14 DEF PlaceBehind, Place
<1>15. more => NoneLost(steady, walk.cursor)'
  <2>1. ASSUME more, ~walk.torn, ~torn, NEW x \in kept
        PROVE  Lists!Blurred(x) \/ Got(x)' \/ Lists!After(cursor, x)
    BY <1>10, <1>14, <2>1 DEF PageFits
  <2> QED BY <1>1, <1>3, <1>8, <2>1, SameRows DEF NoneLost
<1>16. more => NoneAgain(steady, walk.cursor)'
  <2>1. ASSUME more, NEW i \in DOMAIN got, NEW x, x = got[i]
        PROVE  Excused(kept, x)' \/ ~Lists!After(cursor, x)
    <3>1. CASE torn
      BY <1>12, <3>1
    <3>2. CASE ~torn
      <4>1. Got(got[i]) \/ \E j \in DOMAIN ids : ids[j] = got[i]
        BY <1>5, <1>6, <2>1 DEF Got
      <4>2. CASE Got(got[i])
        BY <1>11, <1>14, <2>1, <3>2, <4>2 DEF PageFits, NoneAgain, Got
      <4>3. CASE \E j \in DOMAIN ids : ids[j] = got[i]
        BY <1>11, <1>14, <2>1, <3>2, <4>3 DEF PageFits
      <4> QED BY <4>1, <4>2, <4>3
    <3> QED BY <3>1, <3>2
  <2> QED BY <1>1, <1>8, <2>1, SameRows DEF NoneAgain
<1>17. more => Len(got) % limit = 0
  <2>1. Len(walk.got) % limit = 0
    BY <1>1 DEF WalkStands
  <2> QED BY <1>2, <1>4, <1>5, <1>6, <2>1, OnePageMore
<1>18. WalkStands'
  <2>1. \A i \in DOMAIN got : \A x : x = got[i] => Lists!Present(x)'
    BY <1>1, <1>13, SameRows
  <2>2. \A x \in kept : Lists!WithinCutoff(asOf, x)'
    BY <1>1, SameRows
  <2> QED BY <1>1, <1>7, <1>8, <1>15, <1>16, <1>17, <2>1, <2>2 DEF WalkStands
<1>19. Lists!SteadyRowsRead'
  <2>1. ASSUME ~more, ~walk.torn, NEW x \in kept, ~Lists!Blurred(x) PROVE Got(x)'
    BY <1>10, <2>1 DEF PageFits
  <2> QED BY <1>1, <1>3, <1>8, <2>1, SameRows DEF Lists!SteadyRowsRead, Got
<1>20. Lists!NothingTwice'
  <2> DEFINE n == Len(walk.got)
  <2>3. \A i \in DOMAIN got : i \notin 1 .. n => i \in n + 1 .. Len(got) /\ i \in Int
    BY <1>5, <1>6
  <2>4. \A i \in DOMAIN got : i \notin 1 .. n =>
          i - n \in DOMAIN ids /\ ids[i - n] = got[i] /\ i \in Int
    BY <1>6, <2>3
  <2>5. \A i \in 1 .. n : i \in DOMAIN walk.got /\ walk.got[i] = got[i] /\ i \in Int
    BY <1>5, <1>6
  <2>1. ASSUME NEW i \in DOMAIN got, NEW j \in DOMAIN got, i < j, got[i] = got[j],
               NEW x, x = got[i]
        PROVE  Excused(kept, x)'
    <3>1. CASE j \in 1 .. Len(walk.got)
      <4>1. i \in DOMAIN walk.got /\ j \in DOMAIN walk.got /\ walk.got[i] = walk.got[j]
            /\ x = walk.got[i] /\ walk.got # <<>>
        BY <1>5, <1>6, <2>1, <3>1
      <4>2. Excused(steady, x)
        BY <1>1, <2>1, <4>1 DEF Lists!NothingTwice, Excused
      <4> QED BY <1>11, <4>1, <4>2
    <3>2. CASE i \in 1 .. Len(walk.got) /\ j \notin 1 .. Len(walk.got)
      <4>1. Got(x) /\ \E k \in DOMAIN ids : ids[k] = x
        BY <2>1, <2>4, <2>5, <3>2 DEF Got
      <4>2. Excused(kept, x)
        BY <4>1 DEF PageFits
      <4> QED BY <1>11, <4>2
    <3>3. CASE i \notin 1 .. Len(walk.got)
      <4>1. PICK k \in DOMAIN ids, m \in DOMAIN ids : k < m /\ ids[k] = got[i] /\ ids[m] = got[j]
        <5>1. j \notin 1 .. n
          BY <1>5, <1>6, <2>1, <3>3
        <5>2. i - n \in DOMAIN ids /\ j - n \in DOMAIN ids /\ ids[i - n] = got[i] /\ ids[j - n] = got[j]
              /\ i \in Int /\ j \in Int
          BY <2>1, <2>4, <3>3, <5>1
        <5>3. i - n < j - n
          BY <1>5, <2>1, <5>2
        <5> HIDE DEF n
        <5> QED BY <5>2, <5>3
      <4>2. k = m
        BY <2>1, <4>1 DEF PageFits
      <4> QED BY <1>5, <4>1, <4>2
    <3> QED BY <1>6, <2>1, <3>1, <3>2, <3>3
  <2> QED BY <1>1, <1>8, <2>1 DEF Lists!NothingTwice, Excused
<1> QED BY <1>9, <1>18, <1>19, <1>20 DEF ListInvariant

-------------------------------------------------------------------------------
(* Between two pages of a list.                                            *)

\* What others do between two pages leaves the reading as it stands: rows stay, and
\* who is still kept track of has kept its place.
LEMMA OthersMeanwhile ==
  ASSUME ListInvariant, list' = list, limit' = limit, walk' = walk,
         now' \in 0 .. MaxMs, now <= now', changes' \in 0 .. MaxChanges,
         entries' \in [ListRows -> Lists!Rowlike \cup {Lists!Blank}],
         \A r \in ListRows : (Lists!Present(r) => entries[r].key \in Lists!SortKeys(entries[r].created))',
         \A r \in ListRows : Lists!Present(r) =>
           /\ Lists!Present(r)' /\ entries'[r].created = entries[r].created
           /\ entries'[r].key = entries[r].key \/ (list.moves /\ r \notin steady'),
         steady' \subseteq steady, \A r \in steady' : Lists!Listed(r)'
  PROVE  ListInvariant'
<1>1. ListTyped /\ WalkStands /\ Lists!SteadyRowsRead /\ Lists!NothingTwice
  BY DEF ListInvariant
<1>2. /\ walk \in Walks /\ \A x \in steady : x \in ListRows /\ Lists!Present(x)
      /\ \A i \in DOMAIN walk.got : walk.got[i] \in ListRows /\ Lists!Present(walk.got[i])
  <2>1. walk \in Walks /\ steady \subseteq {r \in ListRows : Lists!Listed(r)}
    BY <1>1 DEF ListTyped
  <2>2. walk.got \in Seq(ListRows)
    BY <2>1 DEF Walks
  <2>3. \A i \in DOMAIN walk.got : walk.got[i] \in ListRows
    BY <2>2
  <2>4. \A i \in DOMAIN walk.got : Lists!Present(walk.got[i])
    BY <1>1 DEF WalkStands
  <2> QED BY <2>1, <2>3, <2>4, ListedArePresent
<1>3. /\ list.moves \in BOOLEAN /\ list.precise \in BOOLEAN /\ list.inMemory \in BOOLEAN
      /\ list.moves => list.precise
  BY <1>1, KindsAre DEF ListTyped
<1>4. \A x \in ListRows : Lists!Present(x) /\ Lists!Blurred(x) => Lists!Blurred(x)'
  <2>1. ASSUME NEW x \in ListRows, ~list.precise, NEW q \in ListRows \ {x}, Lists!Present(q),
               entries[q].key.ms = entries[x].key.ms, Lists!Present(x)
        PROVE  Lists!Present(q)' /\ entries'[q].key.ms = entries'[x].key.ms
    BY <1>3, <2>1
  <2>2. ASSUME NEW x \in ListRows, Lists!Blurred(x), Lists!Present(x) PROVE Lists!Blurred(x)'
    BY <2>1, <2>2 DEF Lists!Blurred
  <2> QED BY <2>2
<1>5. \A x \in ListRows : Lists!Present(x) /\ (~list.moves \/ x \in steady') =>
        entries'[x].key = entries[x].key
  OBVIOUS
<1>6. \A c : \A x \in ListRows : Lists!Present(x) /\ (~list.moves \/ x \in steady') =>
        (Lists!After(c, x)' <=> Lists!After(c, x))
  BY <1>5 DEF Lists!After, Lists!Behind, Lists!BehindView
<1>7. \A x \in ListRows : Lists!Present(x) /\ (Excused(steady, x) \/ (list.moves /\ x \notin steady')) =>
        Excused(steady, x)'
  BY <1>4 DEF Excused
<1>8. \A x \in steady' : \A a : Lists!WithinCutoff(a, x) => Lists!WithinCutoff(a, x)'
  BY <1>2 DEF Lists!WithinCutoff
<1>9. ListTyped'
  <2>1. steady' \subseteq {r \in ListRows : Lists!Listed(r)'}
    BY <1>2
  <2>2. walk'.asOf <= now'
    <3>1. walk.asOf \in Nat /\ walk.asOf <= now /\ now \in 0 .. MaxMs
      BY <1>1 DEF ListTyped, Walks
    <3> QED BY <3>1
  <2>3. walk' \in Walks /\ list' \in Lists!Lists /\ limit' \in Limits
    BY <1>1 DEF ListTyped
  <2> QED BY <2>1, <2>2, <2>3 DEF ListTyped
<1>10. ASSUME NEW c, NoneLost(steady, c) PROVE NoneLost(steady, c)'
  <2>1. \A x \in steady' : ~walk.torn => Lists!Blurred(x)' \/ Got(x) \/ Lists!After(c, x)'
    BY <1>2, <1>4, <1>6, <1>10 DEF NoneLost
  <2> QED BY <2>1 DEF NoneLost, Got
<1>11. \A x \in ListRows : \A c :
         Lists!Present(x) /\ (Excused(steady, x) \/ ~Lists!After(c, x)) =>
           Excused(steady, x)' \/ ~Lists!After(c, x)'
  BY <1>6, <1>7
<1>12. ASSUME NEW c, NoneAgain(steady, c) PROVE NoneAgain(steady, c)'
  <2>1. ASSUME NEW x \in ListRows, Lists!Present(x), NEW i \in DOMAIN walk.got, x = walk.got[i]
        PROVE  Excused(steady, x)' \/ ~Lists!After(c, x)'
    BY <1>11, <1>12, <2>1 DEF NoneAgain
  <2>2. \A i \in DOMAIN walk'.got : \A x : x = walk.got[i] => Excused(steady, x)' \/ ~Lists!After(c, x)'
    BY <1>2, <2>1
  <2> QED BY <2>2 DEF NoneAgain
<1>13. ASSUME NEW ids, NEW keys, NEW more, PageFits(steady, ids, keys, more)
       PROVE  PageFits(steady, ids, keys, more)'
  <2> DEFINE place == PlaceBehind(ids, keys)
  <2>1. place' = place
    BY DEF PlaceBehind, Lists!Truncated
  <2> HIDE DEF place
  <2>2. \A i \in DOMAIN ids : ids[i] \in ListRows /\ Lists!Present(ids[i])
    <3>1. ids \in Seq(ListRows) /\ \A i \in DOMAIN ids : Lists!Present(ids[i])
      BY <1>13 DEF PageFits
    <3> QED BY <3>1
  <2>3. \A i \in DOMAIN ids : \A x : x = ids[i] => Lists!Present(x)'
    BY <2>2
  <2>4. ~walk.torn => \A x \in steady' :
          \/ Lists!Blurred(x)' \/ Got(x) \/ \E i \in DOMAIN ids : ids[i] = x
          \/ more /\ Lists!After(place, x)'
    BY <1>2, <1>4, <1>6, <1>13 DEF PageFits, place
  <2>5. \A i \in DOMAIN ids : \A x : x = ids[i] /\ Got(x) => Excused(steady, x)'
    BY <1>7, <1>13, <2>2 DEF PageFits
  <2>6. more => NoneAgain(steady, place)'
    <3>1. ASSUME more PROVE NoneAgain(steady, PlaceBehind(ids, keys))
      BY <1>13, <3>1 DEF PageFits
    <3>2. ASSUME NEW c, c = PlaceBehind(ids, keys), more PROVE NoneAgain(steady, c)'
      BY <1>12, <3>1, <3>2
    <3>3. \A c : c = place /\ more => NoneAgain(steady, c)'
      BY <3>2 DEF place
    <3> QED BY <2>1, <3>3 DEF NoneAgain
  <2>7. more => \A i \in DOMAIN ids : \A x : x = ids[i] =>
                  Excused(steady, x)' \/ ~Lists!After(place, x)'
    BY <1>11, <1>13, <2>2 DEF PageFits, place
  <2>8. /\ ids \in Seq(ListRows) /\ keys \in Seq(Lists!Moments) /\ Len(keys) = Len(ids)
        /\ \A i, j \in DOMAIN ids : ids[i] = ids[j] => i = j
        /\ more => Len(ids) = limit
    BY <1>13 DEF PageFits
  <2>9. \A i \in DOMAIN ids : (Got(ids[i]) => Excused(steady, ids[i]))'
    BY <2>5 DEF Got
  <2>10. more => \A i \in DOMAIN ids :
           (Excused(steady, ids[i]) \/ ~Lists!After(PlaceBehind(ids, keys), ids[i]))'
    BY <2>1, <2>7 DEF place
  <2>11. more => NoneAgain(steady, PlaceBehind(ids, keys))'
    BY <2>6 DEF place
  <2>12. (~walk.torn => \A x \in steady :
           \/ Lists!Blurred(x) \/ Got(x) \/ \E i \in DOMAIN ids : ids[i] = x
           \/ more /\ Lists!After(PlaceBehind(ids, keys), x))'
    BY <2>1, <2>4 DEF place, Got
  <2>13. (\A i \in DOMAIN ids : Lists!Present(ids[i]))'
    BY <2>3
  <2> QED BY <2>8, <2>9, <2>10, <2>11, <2>12, <2>13 DEF PageFits
<1>14. WalkStands'
  <2>1. \A i \in DOMAIN walk.got : \A x : x = walk.got[i] => Lists!Present(x)'
    BY <1>2
  <2>2. walk.state # "none" => \A x \in steady' : Lists!WithinCutoff(walk.asOf, x)'
    BY <1>1, <1>8 DEF WalkStands
  <2> QED BY <1>1, <1>10, <1>12, <1>13, <2>1, <2>2 DEF WalkStands
<1>15. Lists!SteadyRowsRead'
  <2>1. \A x \in steady' : ~Lists!Blurred(x)' => x \in steady /\ ~Lists!Blurred(x)
    BY <1>2, <1>4
  <2> QED BY <1>1, <2>1 DEF Lists!SteadyRowsRead
<1>16. Lists!NothingTwice'
  <2>1. ASSUME NEW i \in DOMAIN walk.got, NEW j \in DOMAIN walk.got, i < j, walk.got[i] = walk.got[j],
               NEW x, x = walk.got[i]
        PROVE  Excused(steady, x)'
    <3>1. Excused(steady, x)
      BY <1>1, <2>1 DEF Lists!NothingTwice, Excused
    <3> QED BY <1>2, <1>7, <2>1, <3>1
  <2> QED BY <2>1 DEF Lists!NothingTwice, Excused
<1> QED BY <1>9, <1>14, <1>15, <1>16 DEF ListInvariant

\* Time passes.
LEMMA TickStep ==
  ASSUME ListInvariant, Lists!Tick
  PROVE  ListInvariant'
<1>1. now \in 0 .. MaxMs /\ MaxMs \in Nat /\ now < MaxMs /\ now' = now + 1 /\ ListTyped
  BY PartsAssumption DEF ListInvariant, ListTyped, Lists!Tick, Lists!PagingAssumption
<1>2. now' \in 0 .. MaxMs /\ now <= now'
  BY <1>1
<1>3. UNCHANGED <<list, limit, entries, walk, steady, changes>>
  BY DEF Lists!Tick
<1>4. \A r : (Lists!Present(r)' <=> Lists!Present(r)) /\ (Lists!Listed(r)' <=> Lists!Listed(r))
  BY <1>3 DEF Lists!Present, Lists!Listed
<1>5. \A r \in ListRows : (Lists!Present(r) => entries[r].key \in Lists!SortKeys(entries[r].created))'
  BY <1>1, <1>3, <1>4 DEF ListTyped, Lists!SortKeys
<1>6. \A r \in ListRows : Lists!Present(r) =>
        /\ Lists!Present(r)' /\ entries'[r].created = entries[r].created
        /\ entries'[r].key = entries[r].key \/ (list.moves /\ r \notin steady')
  BY <1>3, <1>4
<1>7. /\ changes' \in 0 .. MaxChanges
      /\ entries' \in [ListRows -> Lists!Rowlike \cup {Lists!Blank}]
      /\ steady' \subseteq steady /\ \A r \in steady' : Lists!Listed(r)'
  BY <1>1, <1>3, <1>4 DEF ListTyped
<1> QED BY <1>2, <1>3, <1>5, <1>6, <1>7, OthersMeanwhile

\* One row of the list changes; the others do not.
LEMMA RowMeanwhile ==
  ASSUME ListInvariant, NEW r \in ListRows, NEW new \in Lists!Rowlike,
         entries' = [entries EXCEPT ![r] = new], new.key \in Lists!SortKeys(new.created),
         UNCHANGED <<list, limit, now, walk>>, changes' \in 0 .. MaxChanges,
         steady' = steady \ {r},
         Lists!Present(r) => /\ new.created = entries[r].created
                             /\ new.key = entries[r].key \/ list.moves
  PROVE  ListInvariant'
<1>1. ListTyped /\ entries \in [ListRows -> Lists!Rowlike \cup {Lists!Blank}]
  BY DEF ListInvariant, ListTyped
<1>2. entries'[r] = new /\ \A q \in ListRows \ {r} : entries'[q] = entries[q]
  BY <1>1
<1>3. new # Lists!Blank
  <2>1. new.key \in Lists!Moments
    BY DEF Lists!Rowlike
  <2> QED BY <2>1, MomentsAre DEF Lists!Blank
<1>4. /\ Lists!Present(r)'
      /\ \A q \in ListRows \ {r} : (Lists!Present(q)' <=> Lists!Present(q)) /\ (Lists!Listed(q)' <=> Lists!Listed(q))
  BY <1>2, <1>3 DEF Lists!Present, Lists!Listed, Lists!Blank
<1>5. \A q \in ListRows : (Lists!Present(q) => entries[q].key \in Lists!SortKeys(entries[q].created))'
  BY <1>1, <1>2, <1>4 DEF ListTyped, Lists!SortKeys
<1>6. \A q \in ListRows : Lists!Present(q) =>
        /\ Lists!Present(q)' /\ entries'[q].created = entries[q].created
        /\ entries'[q].key = entries[q].key \/ (list.moves /\ q \notin steady')
  BY <1>2, <1>4
<1>7. /\ now' \in 0 .. MaxMs /\ now <= now'
      /\ entries' \in [ListRows -> Lists!Rowlike \cup {Lists!Blank}]
      /\ steady' \subseteq steady
  <2>1. now \in 0 .. MaxMs /\ MaxMs \in Nat
    BY <1>1, PartsAssumption DEF ListTyped, Lists!PagingAssumption
  <2> QED BY <1>1, <2>1
<1>8. \A q \in steady' : Lists!Listed(q)'
  BY <1>1, <1>4 DEF ListTyped
<1> QED BY <1>5, <1>6, <1>7, <1>8, OthersMeanwhile

\* A row comes in between two pages.
LEMMA InsertStep ==
  ASSUME ListInvariant, NEW r \in ListRows, Lists!Insert(r)
  PROVE  ListInvariant'
<1>1. ListTyped /\ ~Lists!Present(r)
  BY DEF ListInvariant, Lists!Insert
<1>2. PICK new \in Lists!NewRows : entries' = [entries EXCEPT ![r] = new]
  BY DEF Lists!Insert
<1>3. new \in Lists!Rowlike /\ new.key \in Lists!SortKeys(new.created)
  BY DEF Lists!NewRows
<1>4. r \notin steady
  BY <1>1, ListedArePresent DEF ListTyped
<1>5. UNCHANGED <<list, limit, now, walk>> /\ changes' \in 0 .. MaxChanges /\ steady' = steady \ {r}
  BY <1>1, <1>4 DEF ListTyped, Lists!Insert
<1> QED BY <1>1, <1>2, <1>3, <1>5, RowMeanwhile

\* A row enters or leaves what is asked for between two pages.
LEMMA ChangeStep ==
  ASSUME ListInvariant, NEW r \in ListRows, Lists!Change(r)
  PROVE  ListInvariant'
<1> DEFINE new == [entries[r] EXCEPT !.in = ~@]
<1>1. ListTyped /\ Lists!Present(r) /\ MaxChanges \in Nat
  BY PartsAssumption DEF ListInvariant, Lists!Change, Lists!PagingAssumption
<1>2. entries[r] \in Lists!Rowlike /\ entries[r].key \in Lists!SortKeys(entries[r].created)
  BY <1>1, RowsAre DEF ListTyped
<1>3. /\ new \in Lists!Rowlike /\ new.key = entries[r].key /\ new.created = entries[r].created
      /\ entries' = [entries EXCEPT ![r] = new]
  BY <1>2 DEF Lists!Change, Lists!Rowlike
<1>4. changes' \in 0 .. MaxChanges
  BY <1>1 DEF ListTyped, Lists!Change
<1>5. UNCHANGED <<list, limit, now, walk>> /\ steady' = steady \ {r}
  BY DEF Lists!Change
<1> HIDE DEF new
<1> QED BY <1>2, <1>3, <1>4, <1>5, RowMeanwhile

\* A receipt is moved to another date between two pages.
LEMMA MoveStep ==
  ASSUME ListInvariant, NEW r \in ListRows, Lists!Move(r)
  PROVE  ListInvariant'
<1>1. ListTyped /\ Lists!Present(r) /\ MaxChanges \in Nat /\ list.moves
  BY PartsAssumption DEF ListInvariant, Lists!Move, Lists!PagingAssumption
<1>2. PICK k \in Lists!SortKeys(entries[r].created) : entries' = [entries EXCEPT ![r].key = k]
  BY DEF Lists!Move
<1> DEFINE new == [entries[r] EXCEPT !.key = k]
<1>3. entries[r] \in Lists!Rowlike /\ entries[r].created \in Lists!Moments
  BY <1>1, RowsAre
<1>4. k \in Lists!Moments
  BY <1>3 DEF Lists!SortKeys
<1>5. /\ new \in Lists!Rowlike /\ new.key = k /\ new.created = entries[r].created
      /\ entries' = [entries EXCEPT ![r] = new]
  BY <1>2, <1>3, <1>4 DEF Lists!Rowlike
<1>6. changes' \in 0 .. MaxChanges
  BY <1>1 DEF ListTyped, Lists!Move
<1>7. UNCHANGED <<list, limit, now, walk>> /\ steady' = steady \ {r}
  BY DEF Lists!Move
<1> HIDE DEF new
<1> QED BY <1>1, <1>5, <1>6, <1>7, RowMeanwhile

-------------------------------------------------------------------------------
(* The steps that read a list.                                             *)

\* The ids of a page have been read, its views have not.
LEMMA PagePicked ==
  ASSUME ListInvariant, list.moves, NEW kept, NEW ids, NEW keys, NEW more \in BOOLEAN,
         NEW asOf \in 0 .. now, PageFits(kept, ids, keys, more), walk.state \in {"none", "reading"},
         kept \subseteq {x \in ListRows : Lists!Listed(x) /\ Lists!WithinCutoff(asOf, x)},
         walk.got = <<>> \/ kept = steady,
         UNCHANGED <<list, limit, now, entries, changes>>, steady' = kept,
         walk' = [walk EXCEPT !.state = "picked", !.asOf = asOf, !.picked = <<ids, keys, more>>]
  PROVE  ListInvariant'
<1>1. ListTyped /\ WalkStands /\ Lists!NothingTwice /\ walk \in Walks
      /\ list' = list /\ entries' = entries /\ limit' = limit /\ now' = now /\ changes' = changes
  BY DEF ListInvariant, ListTyped
<1>2. ids \in Seq(ListRows) /\ keys \in Seq(Lists!Moments)
  BY DEF PageFits
<1>3. /\ walk'.state = "picked" /\ walk'.asOf = asOf /\ walk'.picked = <<ids, keys, more>>
      /\ walk'.got = walk.got /\ walk'.torn = walk.torn /\ walk'.cursor = walk.cursor
      /\ walk'.picked # <<>>
      /\ walk'.picked[1] = ids /\ walk'.picked[2] = keys /\ walk'.picked[3] = more
  BY <1>1 DEF Walks
<1>4. ListTyped'
  <2>1. walk' \in Walks
    <3>1. <<ids, keys, more>> \in Seq(ListRows) \X Seq(Lists!Moments) \X BOOLEAN
      BY <1>2
    <3>2. asOf \in Nat
      BY <1>1 DEF ListTyped
    <3> QED BY <1>1, <3>1, <3>2 DEF Walks
  <2>2. steady' \subseteq {r \in ListRows : Lists!Listed(r)'}
    BY <1>1, SameRows
  <2>3. \A r \in ListRows : (Lists!Present(r) => entries[r].key \in Lists!SortKeys(entries[r].created))'
    BY <1>1, SameRows DEF ListTyped, Lists!SortKeys
  <2>4. walk'.asOf <= now'
    BY <1>1, <1>3
  <2>5. /\ list' \in Lists!Lists /\ limit' \in Limits /\ now' \in 0 .. MaxMs /\ changes' \in 0 .. MaxChanges
        /\ entries' \in [ListRows -> Lists!Rowlike \cup {Lists!Blank}]
    BY <1>1 DEF ListTyped
  <2> QED BY <2>1, <2>2, <2>3, <2>4, <2>5 DEF ListTyped
<1>5. \A x : (Excused(kept, x)' <=> Excused(kept, x)) /\ (Got(x)' <=> Got(x))
  BY <1>1, <1>3, SameRows DEF Excused, Got
<1>6. \A c : (NoneAgain(kept, c)' <=> NoneAgain(kept, c))
  <2>1. \A c : \A i \in DOMAIN walk.got : \A x : x = walk.got[i] =>
          (Excused(kept, x)' \/ ~Lists!After(c, x)' <=> Excused(kept, x) \/ ~Lists!After(c, x))
    BY <1>1, <1>5, SameRows
  <2> QED BY <1>3, <2>1 DEF NoneAgain
<1>7. PageFits(kept, ids, keys, more)'
  <2> DEFINE place == PlaceBehind(ids, keys)
  <2>1. place' = place
    BY DEF PlaceBehind, Lists!Truncated
  <2> HIDE DEF place
  <2>2. \A i \in DOMAIN ids : \A x : x = ids[i] => Lists!Present(x)'
    BY <1>1, SameRows DEF PageFits
  <2>3. (~walk.torn => \A x \in kept :
           \/ Lists!Blurred(x) \/ Got(x) \/ \E i \in DOMAIN ids : ids[i] = x
           \/ more /\ Lists!After(place, x))'
    <3>1. ~walk.torn => \A x \in kept :
            \/ Lists!Blurred(x) \/ Got(x) \/ \E i \in DOMAIN ids : ids[i] = x
            \/ more /\ Lists!After(place, x)
      BY DEF PageFits, place
    <3> QED BY <1>1, <1>3, <1>5, <2>1, <3>1, SameRows
  <2>4. \A i \in DOMAIN ids : \A x : x = ids[i] /\ Got(x)' => Excused(kept, x)'
    BY <1>5 DEF PageFits
  <2>5. more => NoneAgain(kept, place)'
    <3>1. more => NoneAgain(kept, place)
      BY DEF PageFits, place
    <3>2. ASSUME NEW c, c = place, more PROVE NoneAgain(kept, c)'
      BY <1>6, <3>1, <3>2
    <3>3. \A c : c = place /\ more => NoneAgain(kept, c)'
      BY <3>2
    <3> QED BY <2>1, <3>3 DEF NoneAgain
  <2>6. more => \A i \in DOMAIN ids : \A x : x = ids[i] => Excused(kept, x)' \/ ~Lists!After(place, x)'
    <3>1. more => \A i \in DOMAIN ids : \A x : x = ids[i] => Excused(kept, x) \/ ~Lists!After(place, x)
      BY DEF PageFits, place
    <3> QED BY <1>1, <1>5, <2>1, <3>1, SameRows
  <2>7. /\ Len(keys) = Len(ids) /\ \A i, j \in DOMAIN ids : ids[i] = ids[j] => i = j
        /\ more => Len(ids) = limit
    BY DEF PageFits
  <2> QED BY <1>1, <1>2, <2>1, <2>2, <2>3, <2>4, <2>5, <2>6, <2>7 DEF PageFits, place
<1>8. WalkStands'
  <2>1. \A i \in DOMAIN walk.got : \A x : x = walk.got[i] => Lists!Present(x)'
    BY <1>1, SameRows DEF WalkStands
  <2>2. \A x \in kept : Lists!WithinCutoff(asOf, x)'
    BY <1>1, SameRows
  <2>3. Len(walk.got) % limit = 0
    BY <1>1 DEF WalkStands
  <2>4. (list.moves /\ walk.picked # <<>>
         /\ PageFits(steady, walk.picked[1], walk.picked[2], walk.picked[3]))'
    <3>1. ASSUME NEW i, NEW k, NEW m, i = ids, k = keys, m = more PROVE PageFits(kept, i, k, m)'
      BY <1>7, <3>1 DEF PageFits, NoneAgain
    <3> QED BY <1>1, <1>3, <1>7
  <2> QED BY <1>1, <1>3, <2>1, <2>2, <2>3, <2>4 DEF WalkStands
<1>9. Lists!SteadyRowsRead'
  BY <1>3 DEF Lists!SteadyRowsRead
<1>10. Lists!NothingTwice'
  <2>1. ASSUME NEW i \in DOMAIN walk.got, NEW j \in DOMAIN walk.got, i < j, walk.got[i] = walk.got[j],
               NEW x, x = walk.got[i]
        PROVE  Excused(kept, x)'
    <3>1. Excused(steady, x) /\ kept = steady
      BY <1>1, <2>1 DEF Lists!NothingTwice, Excused
    <3> QED BY <1>5, <3>1
  <2> QED BY <1>1, <1>3, <2>1 DEF Lists!NothingTwice, Excused
<1> QED BY <1>4, <1>8, <1>9, <1>10 DEF ListInvariant

\* A statement reads a page behind a cursor, as of a moment.
LEMMA ReadStep ==
  ASSUME ListInvariant, NEW cursor \in CursorsOfRows \cup {Lists!None}, NEW asOf \in 0 .. now,
         Lists!Read(cursor, asOf), NEW kept, walk.state \in {"none", "reading"},
         kept \subseteq {x \in ListRows : Lists!Listed(x) /\ Lists!WithinCutoff(asOf, x)},
         NoneLost(kept, cursor), NoneAgain(kept, cursor), walk.got = <<>> \/ kept = steady,
         UNCHANGED <<list, limit, now, entries, changes>>, steady' = kept
  PROVE  ListInvariant'
<1> DEFINE ids == Lists!Page(cursor, asOf)
           more == Lists!HasMore(cursor, asOf)
<1>1. ListTyped /\ WalkStands /\ walk.got \in Seq(ListRows)
  BY DEF ListInvariant, ListTyped, Walks
<1>2. \A i \in DOMAIN walk.got : Lists!Present(walk.got[i]) /\ walk.got[i] \in ListRows
  BY <1>1 DEF WalkStands
<1>3. PageFits(kept, ids, KeysOf(ids), more)
  BY <1>1, <1>2, PageRead
<1>4. more \in BOOLEAN /\ walk.state # "done"
  BY DEF Lists!HasMore
<1>5. IF list.moves
      THEN walk' = [walk EXCEPT !.state = "picked", !.asOf = asOf, !.picked = <<ids, KeysOf(ids), more>>]
      ELSE walk' = Lists!Delivered(ids, more, asOf, FALSE)
  BY DEF Lists!Read, KeysOf
<1>6. ids # <<>> => entries[Last(ids)].key = Last(KeysOf(ids))
  <2>1. ids \in Seq(ListRows) /\ \A i \in DOMAIN ids : Lists!Present(ids[i])
    BY <1>3 DEF PageFits
  <2> QED BY <1>1, <2>1, KeysAre
<1> HIDE DEF ids, more
<1>7. ASSUME list.moves, NEW keys, keys = KeysOf(ids) PROVE ListInvariant'
  <2>1. PageFits(kept, ids, keys, more)
    BY <1>3, <1>7
  <2>2. walk' = [walk EXCEPT !.state = "picked", !.asOf = asOf, !.picked = <<ids, keys, more>>]
    BY <1>5, <1>7
  <2> QED BY <1>4, <1>7, <2>1, <2>2, PagePicked
<1>8. CASE ~list.moves
  BY <1>3, <1>4, <1>5, <1>6, <1>8, PageDelivered
<1> QED BY <1>7, <1>8

\* The first page keeps track of all the rows that are listed.
LEMMA FirstPageStep ==
  ASSUME ListInvariant, Lists!FirstPage
  PROVE  ListInvariant'
<1> DEFINE kept == {r \in ListRows : Lists!Listed(r) /\ Lists!WithinCutoff(now, r)}
<1>1. /\ walk.state = "none" /\ Lists!Read(Lists!None, now) /\ steady' = kept
      /\ UNCHANGED <<list, limit, now, entries, changes>>
  BY DEF Lists!FirstPage
<1>2. now \in 0 .. now /\ walk.got = <<>>
  <2>1. now \in 0 .. MaxMs /\ MaxMs \in Nat /\ WalkStands
    BY PartsAssumption DEF ListInvariant, ListTyped, Lists!PagingAssumption
  <2> QED BY <1>1, <2>1 DEF WalkStands
<1>3. \A x : Lists!After(Lists!None, x)
  BY DEF Lists!After
<1>4. NoneLost(kept, Lists!None) /\ NoneAgain(kept, Lists!None)
  BY <1>2, <1>3 DEF NoneLost, NoneAgain
<1>5. ASSUME NEW k, k = kept, NEW a, a = now PROVE ListInvariant'
  <2>1. /\ NoneLost(k, Lists!None) /\ NoneAgain(k, Lists!None) /\ steady' = k
        /\ Lists!Read(Lists!None, a) /\ a \in 0 .. now
        /\ k \subseteq {x \in ListRows : Lists!Listed(x) /\ Lists!WithinCutoff(a, x)}
    BY <1>1, <1>2, <1>4, <1>5
  <2>2. /\ UNCHANGED <<list, limit, now, entries, changes>> /\ walk.state \in {"none", "reading"}
        /\ (walk.got = <<>> \/ k = steady) /\ Lists!None \in CursorsOfRows \cup {Lists!None}
    BY <1>1, <1>2
  <2> HIDE DEF kept
  <2> QED BY <2>1, <2>2, ReadStep
<1> QED BY <1>5

\* A further page is read behind the cursor.
LEMMA NextPageStep ==
  ASSUME ListInvariant, Lists!NextPage
  PROVE  ListInvariant'
<1>1. /\ walk.state = "reading" /\ Lists!Read(walk.cursor, walk.asOf)
      /\ UNCHANGED <<list, limit, now, entries, steady, changes>>
  BY DEF Lists!NextPage
<1>2. ListTyped /\ WalkStands /\ walk \in Walks /\ now \in 0 .. MaxMs /\ walk.asOf <= now
  BY DEF ListInvariant, ListTyped
<1>3. walk.cursor \in CursorsOfRows \cup {Lists!None} /\ walk.asOf \in Nat
  BY <1>2 DEF Walks, CursorsOfRows
<1>4. walk.asOf \in 0 .. now
  BY <1>2, <1>3
<1>5. /\ NoneLost(steady, walk.cursor) /\ NoneAgain(steady, walk.cursor)
      /\ steady \subseteq {x \in ListRows : Lists!Listed(x) /\ Lists!WithinCutoff(walk.asOf, x)}
  BY <1>1, <1>2 DEF WalkStands, ListTyped
<1> QED BY <1>1, <1>3, <1>4, <1>5, ReadStep

\* The views of a page are read, and the cursor from the last of them.
LEMMA ReadViewsStep ==
  ASSUME ListInvariant, Lists!ReadViews
  PROVE  ListInvariant'
<1> DEFINE ids == walk.picked[1]
           keys == walk.picked[2]
           more == walk.picked[3]
           torn == ids # <<>> /\ entries[Last(ids)].key # Last(keys)
<1>1. ListTyped /\ WalkStands /\ walk \in Walks /\ walk.state = "picked"
      /\ UNCHANGED <<list, limit, now, entries, steady, changes>>
  BY DEF ListInvariant, ListTyped, Lists!ReadViews
<1>2. walk' = Lists!Delivered(ids, more, walk.asOf, torn)
  BY DEF Lists!ReadViews, Lists!Last, Last
<1>3. list.moves /\ PageFits(steady, ids, keys, more) /\ more \in BOOLEAN
  <2>1. walk.picked \in Seq(ListRows) \X Seq(Lists!Moments) \X BOOLEAN
    BY <1>1 DEF WalkStands, Walks
  <2> QED BY <1>1, <2>1 DEF WalkStands
<1>4. walk.asOf \in 0 .. now
  <2>1. walk.asOf \in Nat /\ walk.asOf <= now /\ now \in 0 .. MaxMs
    BY <1>1 DEF ListTyped, Walks
  <2> QED BY <2>1
<1>5. steady \subseteq {x \in ListRows : Lists!Listed(x) /\ Lists!WithinCutoff(walk.asOf, x)}
  BY <1>1 DEF WalkStands, ListTyped
<1>6. torn \in BOOLEAN /\ (ids # <<>> /\ ~torn => entries[Last(ids)].key = Last(keys))
  OBVIOUS
<1> HIDE DEF ids, keys, more, torn
<1> QED BY <1>1, <1>2, <1>3, <1>4, <1>5, <1>6, PageDelivered

\* Nobody has read anything.
LEMMA ListsStart ==
  ASSUME Lists!Init
  PROVE  ListInvariant
<1>1. /\ walk = [state |-> "none", cursor |-> Lists!None, asOf |-> 0, got |-> <<>>,
                 picked |-> <<>>, torn |-> FALSE]
      /\ steady = {} /\ now = 0 /\ changes = 0 /\ list \in Lists!Lists /\ limit \in Limits
      /\ entries = [r \in ListRows |-> Lists!Blank]
  BY DEF Lists!Init
<1>2. \A r \in ListRows : ~Lists!Present(r)
  BY <1>1 DEF Lists!Present
<1>3. /\ walk.state = "none" /\ walk.asOf = 0 /\ walk.got = <<>> /\ walk.torn = FALSE
  BY <1>1
<1>4. walk \in Walks
  BY <1>1 DEF Walks
<1>5. MaxMs \in Nat /\ MaxChanges \in Nat /\ limit \in Nat \ {0}
  BY <1>1, PartsAssumption DEF Lists!PagingAssumption
<1>6. ListTyped
  BY <1>1, <1>2, <1>3, <1>4, <1>5 DEF ListTyped
<1>7. WalkStands
  <2>1. Len(walk.got) % limit = 0
    BY <1>3, <1>5
  <2> QED BY <1>3, <2>1 DEF WalkStands
<1> QED BY <1>3, <1>6, <1>7 DEF ListInvariant, Lists!SteadyRowsRead, Lists!NothingTwice

\* Every step of a list keeps the invariant.
LEMMA ListsGoOn ==
  ASSUME ListInvariant, Lists!Next
  PROVE  ListInvariant'
BY TickStep, InsertStep, ChangeStep, MoveStep, FirstPageStep, NextPageStep, ReadViewsStep DEF Lists!Next

\* What the invariant says of the pages of a list.
LEMMA ListsFit ==
  ASSUME ListInvariant
  PROVE  Lists!PagingTypeOK /\ Lists!SteadyRowsRead /\ Lists!NothingTwice
<1>1. ListTyped /\ WalkStands /\ walk \in Walks
  BY DEF ListInvariant, ListTyped
<1>2. \A r \in ListRows : Lists!Present(r) =>
        entries[r] \in Lists!Rowlike /\ entries[r].key \in Lists!SortKeys(entries[r].created)
  BY <1>1, RowsAre DEF ListTyped
<1>3. walk.asOf \in 0 .. now
  <2>1. walk.asOf \in Nat /\ walk.asOf <= now /\ now \in 0 .. MaxMs
    BY <1>1 DEF ListTyped, Walks
  <2> QED BY <2>1
<1>4. /\ walk.state \in {"none", "reading", "picked", "done"} /\ walk.got \in Seq(ListRows)
      /\ walk.state = "reading" => Len(walk.got) % limit = 0
  BY <1>1 DEF Walks, WalkStands
<1> QED BY <1>1, <1>2, <1>3, <1>4 DEF ListInvariant, ListTyped, Lists!PagingTypeOK

-------------------------------------------------------------------------------
(* Rows of a report.                                                       *)

\* What is assumed of the rows and the grants of a report.
LEMMA ReportConstants ==
  /\ ReportRows \subseteq Nat /\ IsFiniteSet(ReportRows) /\ PageSize \in Nat \ {0}
  /\ Covers \in [ReportGrants -> SUBSET ReportRows]
BY PartsAssumption DEF Report!ReportAssumption, Report!IsFiniteSet, IsFiniteSet

\* The microseconds of the milliseconds passed are as many as they were, and more
\* with every tick.
LEMMA Elapsed ==
  /\ PerMs \in Nat \ {0}
  /\ \A ms \in Nat : /\ PerMs * ms \in Nat /\ PerMs * ms + PerMs - 1 \in Nat
                     /\ PerMs * ms <= PerMs * (ms + 1)
<1>1. PerMs \in Nat \ {0}
  BY PartsAssumption DEF Report!ReportAssumption
<1>2. ASSUME NEW ms \in Nat
      PROVE  /\ PerMs * ms \in Nat /\ PerMs * ms + PerMs - 1 \in Nat
             /\ PerMs * ms <= PerMs * (ms + 1)
  BY <1>1
<1> QED BY <1>1, <1>2

\* The rows of a report in its order.
LEMMA RowsInOrder ==
  ASSUME NEW S \in SUBSET ReportRows
  PROVE  LET found == Report!Ordered(S)
         IN  /\ found \in Seq(S)
             /\ \A i, j \in 1 .. Len(found) : i < j => found[i] < found[j]
             /\ \A x \in S : \E i \in 1 .. Len(found) : found[i] = x
<1> DEFINE found == Report!Ordered(S)
           R == {p \in S \X S : p[1] < p[2]}
           n == Report!Cardinality(S)
           InOrder(q) == \A i, j \in DOMAIN q : i < j => q[i] < q[j]
<1>1. n = Cardinality(S)
  BY DEF Report!Cardinality, Cardinality
<1>2. IsFiniteSet(S) /\ S \subseteq Nat
  BY ReportConstants, FS_Subset
<1>3. \A x, y \in S : <<x, y>> \in R <=> x < y
  OBVIOUS
<1>4. /\ Irreflexive(R, S)
      /\ \A x, y, z \in S : <<x, y>> \in R /\ <<y, z>> \in R => <<x, z>> \in R
      /\ \A x, y \in S : x # y => <<x, y>> \in R \/ <<y, x>> \in R
  <2> HIDE DEF R
  <2> QED BY <1>2, <1>3 DEF Irreflexive
<1>5. \E q \in [1 .. Cardinality(S) -> S] : Climbs(q, R)
  <2> HIDE DEF R
  <2> QED BY <1>2, <1>4, InOrderExists
<1>6. \A q \in [1 .. n -> S] : InOrder(q) <=> Climbs(q, R)
  <2> HIDE DEF R, n
  <2> QED BY <1>3 DEF Climbs
<1>7. \E q \in [1 .. n -> S] : InOrder(q)
  <2> HIDE DEF R, InOrder
  <2> QED BY <1>1, <1>5, <1>6
<1>8. found = CHOOSE q \in [1 .. n -> S] : InOrder(q)
  BY DEF Report!Ordered
<1>9. found \in [1 .. n -> S] /\ InOrder(found)
  <2> HIDE DEF n, found, InOrder
  <2> QED BY <1>7, <1>8
<1>10. /\ found \in Seq(S)
       /\ \A x \in S : \E i \in 1 .. Len(found) : found[i] = x
  <2> HIDE DEF R, n, found, InOrder
  <2>1. Climbs(found, R)
    BY <1>6, <1>9
  <2>2. found \in [1 .. Cardinality(S) -> S]
    BY <1>1, <1>9
  <2> QED BY <1>2, <1>4, <2>1, <2>2, InOrderIsAll
<1>11. DOMAIN found = 1 .. Len(found)
  <2> HIDE DEF found
  <2> QED BY <1>10
<1> QED BY <1>9, <1>10, <1>11

\* The lesser of two numbers, as reports take it.
LEMMA LeastOfTwoRows ==
  ASSUME NEW a \in Nat, NEW b \in Nat
  PROVE  Report!Min({a, b}) = IF a <= b THEN a ELSE b
<1> DEFINE m == IF a <= b THEN a ELSE b
<1>1. m \in {a, b} /\ \A y \in {a, b} : m <= y
  OBVIOUS
<1>2. \A x \in {a, b} : (\A y \in {a, b} : x <= y) => x = m
  OBVIOUS
<1> QED BY <1>1, <1>2 DEF Report!Min

\* A page shows the first rows, in order; what it leaves out comes after its last.
LEMMA RowsShown ==
  ASSUME NEW S \in SUBSET ReportRows
  PROVE  LET found == Report!Ordered(S)
             shown == SubSeq(found, 1, Report!Min({PageSize, Len(found)}))
             more == Len(found) > PageSize
         IN  /\ shown \in Seq(S) /\ Len(shown) <= PageSize /\ (more => Len(shown) = PageSize)
             /\ \A i, j \in 1 .. Len(shown) : i < j => shown[i] < shown[j]
             /\ \A x \in S : (\E i \in 1 .. Len(shown) : shown[i] = x) \/ (more /\ x > shown[Len(shown)])
<1> DEFINE found == Report!Ordered(S)
           n == IF PageSize <= Len(found) THEN PageSize ELSE Len(found)
           shown == SubSeq(found, 1, Report!Min({PageSize, Len(found)}))
           more == Len(found) > PageSize
<1>1. /\ found \in Seq(S)
      /\ \A i, j \in 1 .. Len(found) : i < j => found[i] < found[j]
      /\ \A x \in S : \E i \in 1 .. Len(found) : found[i] = x
  BY RowsInOrder
<1> HIDE DEF found
<1>2. PageSize \in Nat \ {0} /\ S \subseteq Nat /\ Len(found) \in Nat
  BY <1>1, ReportConstants
<1>3. shown = SubSeq(found, 1, n) /\ n \in Nat /\ n <= Len(found) /\ n <= PageSize
  BY <1>2, LeastOfTwoRows
<1>4. shown \in Seq(S) /\ Len(shown) = n /\ \A i \in 1 .. n : shown[i] = found[i]
  <2> HIDE DEF n, shown
  <2> QED BY <1>1, <1>2, <1>3
<1>5. more => n = PageSize
  BY <1>2
<1>6. \A i, j \in 1 .. n : i < j => shown[i] < shown[j]
  <2> HIDE DEF n, shown
  <2> QED BY <1>1, <1>2, <1>3, <1>4
<1>7. ASSUME NEW x \in S PROVE (\E i \in 1 .. n : shown[i] = x) \/ (more /\ x > shown[n])
  <2>1. PICK i \in 1 .. Len(found) : found[i] = x
    BY <1>1
  <2>2. CASE i <= n
    <3> HIDE DEF n, shown
    <3> QED BY <1>2, <1>3, <1>4, <2>1, <2>2
  <2>3. CASE n < i
    <3>1. more /\ n \in 1 .. Len(found) /\ n \in 1 .. n
      BY <1>2, <2>1, <2>3
    <3>2. found[n] < found[i] /\ found[n] = shown[n]
      <4> HIDE DEF n, shown, more
      <4> QED BY <1>1, <1>2, <1>4, <2>1, <2>3, <3>1
    <3>3. found[n] \in Nat /\ found[i] \in Nat
      <4>1. \A k \in 1 .. Len(found) : found[k] \in S
        BY <1>1
      <4> HIDE DEF n
      <4> QED BY <1>2, <2>1, <3>1, <4>1
    <3> HIDE DEF n, shown, more
    <3>4. x \in Nat /\ shown[n] \in Nat /\ shown[n] < x
      BY <2>1, <3>2, <3>3
    <3>5. x > shown[n]
      BY <3>4
    <3> QED BY <3>1, <3>5
  <2>4. i <= n \/ n < i
    <3> HIDE DEF n
    <3> QED BY <1>2, <1>3
  <2> HIDE DEF n, shown, more
  <2> QED BY <2>2, <2>3, <2>4
<1> HIDE DEF n, shown, more
<1> QED BY <1>3, <1>4, <1>5, <1>6, <1>7 DEF found, shown, more

\* A cursor of a report is none of the empty ones.
LEMMA ReportCursors ==
  ASSUME NEW c \in [after : ReportRows, mark : Nat, scope : SUBSET ReportGrants, asOf : Nat]
  PROVE  c # Report!None
<1>1. DOMAIN c = {"after", "mark", "scope", "asOf"} /\ DOMAIN Report!None = {"none"}
  BY DEF Report!None
<1>2. "mark" \in DOMAIN c /\ "mark" \notin DOMAIN Report!None
  BY <1>1
<1> QED BY <1>2

-------------------------------------------------------------------------------
(* The steps of a report.                                                  *)

\* What a report has come from, by its parts.
LEMMA ReportIs ==
  ASSUME ReportInvariant
  PROVE  /\ ReportTyped /\ RequestStands /\ ReportStands
         /\ Report!PagesAreOfOneState /\ Report!ReportIsWhole
         /\ facts \in [ReportRows -> FactRow] /\ history \in Seq([ReportRows -> FactRow])
         /\ Len(history) \in Nat \ {0} /\ history[Len(history)] = facts
         /\ request.step \in {"idle", "scope", "watermark", "list"}
         /\ request.scope \subseteq ReportGrants /\ request.mark \in 0 .. Len(history)
         /\ request.page \in Seq(ReportRows \X Nat) /\ request.more \in BOOLEAN
         /\ request.mark \in Nat /\ request.asOf \in Nat /\ report.asOf \in Nat /\ clock \in Nat
         /\ request.asOf <= PerMs * clock /\ report.asOf <= PerMs * clock
         /\ report.cursor \in Cursors /\ report.got \in Seq(ReportRows \X Nat) /\ report.done \in BOOLEAN
         /\ report.mark \in 0 .. Len(history) /\ report.mark \in Nat /\ report.scope \subseteq ReportGrants
<1>1. ReportTyped
  BY DEF ReportInvariant
<1>2. /\ history \in Seq([ReportRows -> FactRow]) /\ history # <<>> /\ Last(history) = facts
      /\ facts \in [ReportRows -> FactRow]
  BY <1>1 DEF ReportTyped
<1>3. Len(history) \in Nat \ {0} /\ history[Len(history)] = facts
  BY <1>2 DEF Last
<1>4. /\ request \in [step : {"idle", "scope", "watermark", "list"}, scope : SUBSET ReportGrants, asOf : Nat,
                      mark : 0 .. Len(history), page : Seq(ReportRows \X Nat), more : BOOLEAN]
      /\ report \in [cursor : Cursors, got : Seq(ReportRows \X Nat), done : BOOLEAN,
                     mark : 0 .. Len(history), scope : SUBSET ReportGrants, asOf : Nat]
  BY <1>1 DEF ReportTyped
<1>5. /\ request.step \in {"idle", "scope", "watermark", "list"}
      /\ request.scope \subseteq ReportGrants /\ request.mark \in 0 .. Len(history)
      /\ request.page \in Seq(ReportRows \X Nat) /\ request.more \in BOOLEAN
  BY <1>4
<1>6. /\ report.cursor \in Cursors /\ report.got \in Seq(ReportRows \X Nat) /\ report.done \in BOOLEAN
      /\ report.mark \in 0 .. Len(history) /\ report.scope \subseteq ReportGrants
  BY <1>4
<1>7. /\ request.mark \in Nat /\ report.mark \in Nat
      /\ request.asOf \in Nat /\ report.asOf \in Nat
  BY <1>3, <1>4, <1>5, <1>6
<1>8. clock \in Nat /\ request.asOf <= PerMs * clock /\ report.asOf <= PerMs * clock
  BY <1>1 DEF ReportTyped
<1> QED BY <1>1, <1>2, <1>3, <1>5, <1>6, <1>7, <1>8 DEF ReportInvariant

\* A page that was refused and a report that is begun anew stand on nothing.
LEMMA RefusedStands ==
  ASSUME ReportInvariant, Report!Refused, UNCHANGED <<clock, facts, history, grant>>
  PROVE  ReportInvariant'
<1>1. /\ request' = [step |-> "idle", scope |-> {}, asOf |-> 0, mark |-> 0, page |-> <<>>, more |-> FALSE]
      /\ report' = [cursor |-> Report!None, got |-> <<>>, done |-> FALSE, mark |-> 0, scope |-> {},
                   asOf |-> 0]
      /\ facts' = facts /\ history' = history /\ grant' = grant /\ clock' = clock
  BY DEF Report!Refused, Report!Idle, Report!Unread
<1>2. /\ request'.step = "idle" /\ request'.scope = {} /\ request'.page = <<>> /\ request'.more = FALSE
      /\ report'.cursor = Report!None /\ report'.got = <<>> /\ report'.done = FALSE /\ report'.scope = {}
  BY <1>1
<1>3. /\ Len(history) \in Nat /\ 0 \in 0 .. Len(history)
      /\ clock' \in Nat /\ request'.asOf <= PerMs * clock' /\ report'.asOf <= PerMs * clock'
  BY <1>1, ReportIs, Elapsed
<1>4. ReportTyped'
  <2>1. request' \in [step : {"idle", "scope", "watermark", "list"}, scope : SUBSET ReportGrants, asOf : Nat,
                      mark : 0 .. Len(history'), page : Seq(ReportRows \X Nat), more : BOOLEAN]
    BY <1>1, <1>3
  <2>2. report' \in [cursor : Cursors, got : Seq(ReportRows \X Nat), done : BOOLEAN,
                     mark : 0 .. Len(history'), scope : SUBSET ReportGrants, asOf : Nat]
    BY <1>1, <1>3 DEF Cursors
  <2>3. ReportTyped
    BY ReportIs
  <2> QED BY <1>1, <1>2, <1>3, <2>1, <2>2, <2>3 DEF ReportTyped
<1>5. RequestStands' /\ ReportStands'
  BY <1>2 DEF RequestStands, ReportStands
<1>6. Report!PagesAreOfOneState' /\ Report!ReportIsWhole'
  BY <1>2 DEF Report!PagesAreOfOneState, Report!ReportIsWhole
<1> QED BY <1>4, <1>5, <1>6 DEF ReportInvariant

\* Commands add states to the history and leave the ones there were.
LEMMA ChangeOfFacts ==
  ASSUME ReportInvariant, Report!Change
  PROVE  ReportInvariant'
<1>1. facts' \in [ReportRows -> FactRow]
  <2>1. facts \in [ReportRows -> FactRow] /\ PerMs * clock + PerMs - 1 \in Nat
    BY ReportIs, Elapsed
  <2>2. Report!Past \subseteq Nat
    BY <2>1 DEF Report!Past
  <2>3. PICK r \in ReportRows :
          \/ \E t \in Nat : facts' = [facts EXCEPT ![r] = [version |-> 1, created |-> t]]
          \/ facts' = [facts EXCEPT ![r].version = @ + 1]
          \/ facts' = [facts EXCEPT ![r] = Report!Absent]
    BY <2>2 DEF Report!Change
  <2>4. facts[r].version \in Nat /\ facts[r].created \in Nat
    BY <2>1 DEF FactRow
  <2>5. /\ \A t \in Nat : [version |-> 1, created |-> t] \in FactRow
        /\ [facts[r] EXCEPT !.version = @ + 1] \in FactRow
        /\ Report!Absent \in FactRow
    BY <2>1, <2>4 DEF FactRow, Report!Absent
  <2> QED BY <2>1, <2>3, <2>5
<1>2. /\ history' = Append(history, facts') /\ grant' = grant
      /\ request' = request /\ report' = report /\ clock' = clock
  BY DEF Report!Change
<1>3. /\ history \in Seq([ReportRows -> FactRow]) /\ Len(history) \in Nat \ {0}
      /\ request.mark \in 0 .. Len(history) /\ report.mark \in 0 .. Len(history)
  BY ReportIs
<1>4. /\ history' \in Seq([ReportRows -> FactRow]) /\ Len(history') = Len(history) + 1
      /\ history'[Len(history')] = facts' /\ \A k \in 1 .. Len(history) : history'[k] = history[k]
  BY <1>1, <1>2, <1>3
<1>5. history' # <<>> /\ Last(history') = facts' /\ Len(history') # request.mark
      /\ request.mark \in 0 .. Len(history') /\ report.mark \in 0 .. Len(history')
  BY <1>3, <1>4 DEF Last
<1>6. ReportTyped'
  <2>1. ReportTyped
    BY ReportIs
  <2>2. /\ request \in [step : {"idle", "scope", "watermark", "list"}, scope : SUBSET ReportGrants, asOf : Nat,
                        mark : 0 .. Len(history'), page : Seq(ReportRows \X Nat), more : BOOLEAN]
        /\ report \in [cursor : Cursors, got : Seq(ReportRows \X Nat), done : BOOLEAN,
                       mark : 0 .. Len(history'), scope : SUBSET ReportGrants, asOf : Nat]
    BY <1>5, <2>1 DEF ReportTyped
  <2> QED BY <1>1, <1>2, <1>4, <1>5, <2>1, <2>2 DEF ReportTyped
<1>7. report.mark # 0 => Report!Snapshot' = Report!Snapshot
  BY <1>2, <1>3, <1>4 DEF Report!Snapshot
<1>8. report.mark = 0 => report.cursor = Report!None /\ ~report.done /\ report.got = <<>>
  BY ReportIs DEF ReportStands
<1>9. \A s, r : CoveredBy(s, r)' <=> CoveredBy(s, r)
  BY <1>2 DEF CoveredBy, Report!Active
<1>10. RequestStands'
  <2>1. ASSUME request.step = "list" PROVE PageOf'
    BY <1>2, <1>5, <2>1, ReportIs DEF RequestStands, PageOf, Report!After
  <2> QED BY <1>2, <2>1, ReportIs DEF RequestStands
<1>11. ReportStands'
  BY <1>2, <1>7, <1>8, <1>9, ReportIs DEF ReportStands, Report!Snapshot
<1>12. Report!PagesAreOfOneState'
  <2>1. CASE report.mark = 0
    BY <1>2, <1>8, <2>1 DEF Report!PagesAreOfOneState
  <2>2. CASE report.mark # 0
    BY <1>2, <1>7, <2>2, ReportIs DEF Report!PagesAreOfOneState
  <2> QED BY <2>1, <2>2
<1>13. Report!ReportIsWhole'
  BY <1>2, <1>7, <1>8, ReportIs DEF Report!ReportIsWhole, Report!Active
<1> QED BY <1>6, <1>10, <1>11, <1>12, <1>13 DEF ReportInvariant

\* The clock advances; what has been read stays read.
LEMMA TimePasses ==
  ASSUME ReportInvariant, Report!Tick
  PROVE  ReportInvariant'
<1>1. /\ facts' = facts /\ history' = history /\ grant' = grant /\ request' = request
      /\ report' = report /\ clock' = clock + 1
  BY DEF Report!Tick
<1>2. /\ Report!Snapshot' = Report!Snapshot /\ \A r : Report!After(r)' <=> Report!After(r)
      /\ \A s, r : CoveredBy(s, r)' <=> CoveredBy(s, r)
  BY <1>1 DEF Report!Snapshot, Report!After, CoveredBy, Report!Active
<1>3. /\ clock' \in Nat /\ PerMs * clock <= PerMs * clock'
      /\ PerMs * clock \in Nat /\ PerMs * clock' \in Nat
  BY <1>1, ReportIs, Elapsed
<1>4. request'.asOf <= PerMs * clock' /\ report'.asOf <= PerMs * clock'
  BY <1>1, <1>3, ReportIs
<1>5. ReportTyped'
  BY <1>1, <1>3, <1>4, ReportIs DEF ReportTyped
<1>6. RequestStands'
  <2>1. ASSUME request.step = "list" PROVE PageOf'
    BY <1>1, <1>2, <2>1, ReportIs DEF RequestStands, PageOf
  <2> QED BY <1>1, <2>1, ReportIs DEF RequestStands
<1>7. ReportStands'
  BY <1>1, <1>2, ReportIs DEF ReportStands
<1>8. Report!PagesAreOfOneState' /\ Report!ReportIsWhole'
  BY <1>1, <1>2, ReportIs DEF Report!PagesAreOfOneState, Report!ReportIsWhole, Report!Active
<1> QED BY <1>5, <1>6, <1>7, <1>8 DEF ReportInvariant

\* A grant that counted for a page can only cease to.
LEMMA Administration ==
  ASSUME ReportInvariant, Report!Administer
  PROVE  ReportInvariant'
<1>1. /\ facts' = facts /\ history' = history /\ request' = request /\ report' = report /\ clock' = clock
      /\ grant \in [ReportGrants -> {"new", "active", "revoked"}]
      /\ \A g \in request.scope \cup report.scope : grant[g] # "new"
      /\ request.scope \subseteq ReportGrants /\ report.scope \subseteq ReportGrants
  BY ReportIs DEF Report!Administer, ReportTyped
<1>2. /\ grant' \in [ReportGrants -> {"new", "active", "revoked"}]
      /\ \A g \in ReportGrants : grant[g] # "new" =>
           grant'[g] # "new" /\ (grant'[g] = "active" => grant[g] = "active")
  <2>1. PICK g \in ReportGrants : \/ grant[g] = "new" /\ grant' = [grant EXCEPT ![g] = "active"]
                                  \/ grant[g] = "active" /\ grant' = [grant EXCEPT ![g] = "revoked"]
    BY DEF Report!Administer, Report!Grant, Report!Revoke
  <2> QED BY <1>1, <2>1
<1>3. \A r : /\ CoveredBy(request.scope, r)' => CoveredBy(request.scope, r)
             /\ CoveredBy(report.scope, r)' => CoveredBy(report.scope, r)
  BY <1>1, <1>2 DEF CoveredBy, Report!Active
<1>4. ReportTyped'
  BY <1>1, <1>2, ReportIs DEF ReportTyped
<1>5. Report!Snapshot' = Report!Snapshot
  BY <1>1 DEF Report!Snapshot
<1>6. RequestStands'
  <2>1. ASSUME request.step = "list" PROVE PageOf'
    BY <1>1, <1>3, <2>1, ReportIs DEF RequestStands, PageOf, Report!After
  <2> QED BY <1>1, <2>1, ReportIs DEF RequestStands
<1>7. ReportStands'
  BY <1>1, <1>3, <1>5, ReportIs DEF ReportStands
<1>8. Report!PagesAreOfOneState'
  BY <1>1, <1>5, ReportIs DEF Report!PagesAreOfOneState
<1>9. Report!ReportIsWhole'
  BY <1>1, <1>3, <1>5, ReportIs DEF Report!ReportIsWhole, CoveredBy
<1> QED BY <1>4, <1>6, <1>7, <1>8, <1>9 DEF ReportInvariant

\* The grants of the reader are read.
LEMMA ScopeRead ==
  ASSUME ReportInvariant, Report!currentScope
  PROVE  ReportInvariant'
<1>1. CASE Report!Refused
  BY <1>1, RefusedStands DEF Report!currentScope
<1>2. CASE ~Report!Refused
  <2>1. /\ request.step = "idle" /\ ~report.done /\ report' = report
        /\ request' = [request EXCEPT !.step = "scope", !.scope = Report!Active,
                                      !.asOf = Report!MomentOfReport]
        /\ facts' = facts /\ history' = history /\ grant' = grant /\ clock' = clock
        /\ report.cursor # Report!None => report.cursor.scope = Report!Active
    BY <1>2 DEF Report!currentScope
  <2>2. /\ request \in [step : {"idle", "scope", "watermark", "list"}, scope : SUBSET ReportGrants, asOf : Nat,
                        mark : 0 .. Len(history), page : Seq(ReportRows \X Nat), more : BOOLEAN]
        /\ ReportTyped
    BY ReportIs DEF ReportTyped
  <2>3. Report!Active \subseteq ReportGrants /\ \A g \in Report!Active : grant[g] # "new"
    BY DEF Report!Active
  <2>a. /\ Report!MomentOfReport \in Nat /\ Report!MomentOfReport <= PerMs * clock
        /\ report.cursor # Report!None => report.cursor.asOf = Report!MomentOfReport
    <3>1. CASE report.cursor = Report!None
      BY <3>1, ReportIs, Elapsed DEF Report!MomentOfReport
    <3>2. CASE report.cursor # Report!None
      BY <3>2, ReportIs DEF Report!MomentOfReport, ReportStands
    <3> QED BY <3>1, <3>2
  <2>4. /\ request'.step = "scope" /\ request'.scope = Report!Active /\ request'.page = request.page
        /\ request'.more = request.more /\ request'.asOf = Report!MomentOfReport
        /\ request' \in [step : {"idle", "scope", "watermark", "list"}, scope : SUBSET ReportGrants, asOf : Nat,
                         mark : 0 .. Len(history), page : Seq(ReportRows \X Nat), more : BOOLEAN]
    BY <2>1, <2>2, <2>3, <2>a
  <2>5. ReportTyped'
    BY <2>1, <2>2, <2>3, <2>4, <2>a DEF ReportTyped
  <2>6. RequestStands'
    BY <2>1, <2>4, <2>a, ReportIs DEF RequestStands
  <2>7. Report!Snapshot' = Report!Snapshot /\ Report!Active' = Report!Active
    BY <2>1 DEF Report!Snapshot, Report!Active
  <2>8. ReportStands'
    BY <2>1, <2>7, ReportIs DEF ReportStands, CoveredBy
  <2>9. Report!PagesAreOfOneState' /\ Report!ReportIsWhole'
    BY <2>1, <2>7, ReportIs DEF Report!PagesAreOfOneState, Report!ReportIsWhole
  <2> QED BY <2>5, <2>6, <2>8, <2>9 DEF ReportInvariant
<1> QED BY <1>1, <1>2

\* The first digest of a page is taken.
LEMMA FirstDigest ==
  ASSUME ReportInvariant, Report!firstWatermark
  PROVE  ReportInvariant'
<1>1. CASE Report!Refused
  BY <1>1, RefusedStands DEF Report!firstWatermark
<1>2. CASE ~Report!Refused
  <2>1. /\ request.step = "scope" /\ report' = report
        /\ request' = [request EXCEPT !.step = "watermark", !.mark = Len(history)]
        /\ facts' = facts /\ history' = history /\ grant' = grant /\ clock' = clock
        /\ report.cursor # Report!None => report.cursor.mark = Len(history)
    BY <1>2 DEF Report!firstWatermark, Report!CursorIsCurrent, Report!sourceWatermark
  <2>2. /\ request \in [step : {"idle", "scope", "watermark", "list"}, scope : SUBSET ReportGrants, asOf : Nat,
                        mark : 0 .. Len(history), page : Seq(ReportRows \X Nat), more : BOOLEAN]
        /\ ReportTyped
    BY ReportIs DEF ReportTyped
  <2>3. Len(history) \in 0 .. Len(history) /\ Len(history) # 0
    BY ReportIs
  <2>4. /\ request'.step = "watermark" /\ request'.scope = request.scope /\ request'.page = request.page
        /\ request'.more = request.more /\ request'.mark = Len(history)
        /\ request'.asOf = request.asOf
        /\ request' \in [step : {"idle", "scope", "watermark", "list"}, scope : SUBSET ReportGrants, asOf : Nat,
                         mark : 0 .. Len(history), page : Seq(ReportRows \X Nat), more : BOOLEAN]
    BY <2>1, <2>2, <2>3
  <2>5. ReportTyped'
    BY <2>1, <2>2, <2>4 DEF ReportTyped
  <2>6. RequestStands'
    BY <2>1, <2>3, <2>4, ReportIs DEF RequestStands
  <2>7. Report!Snapshot' = Report!Snapshot /\ Report!Active' = Report!Active
    BY <2>1 DEF Report!Snapshot, Report!Active
  <2>8. ReportStands'
    BY <2>1, <2>7, ReportIs DEF ReportStands, CoveredBy
  <2>9. Report!PagesAreOfOneState' /\ Report!ReportIsWhole'
    BY <2>1, <2>7, ReportIs DEF Report!PagesAreOfOneState, Report!ReportIsWhole
  <2> QED BY <2>5, <2>6, <2>8, <2>9 DEF ReportInvariant
<1> QED BY <1>1, <1>2

\* The rows of a page are read.
LEMMA RowsRead ==
  ASSUME ReportInvariant, Report!list
  PROVE  ReportInvariant'
<1> DEFINE S == {r \in ReportRows : Report!Shows(facts[r], request.asOf) /\ Report!oneGrantScope(r) /\ Report!After(r)}
           found == Report!Ordered(S)
           shown == SubSeq(found, 1, Report!Min({PageSize, Len(found)}))
           more == Len(found) > PageSize
           page == [i \in DOMAIN shown |-> <<shown[i], facts[shown[i]].version>>]
<1>1. /\ request.step = "watermark" /\ report' = report
      /\ request' = [request EXCEPT !.step = "list", !.page = page, !.more = more]
      /\ facts' = facts /\ history' = history /\ grant' = grant /\ clock' = clock
  BY DEF Report!list
<1>2. /\ shown \in Seq(S) /\ Len(shown) <= PageSize /\ (more => Len(shown) = PageSize)
      /\ \A i, j \in 1 .. Len(shown) : i < j => shown[i] < shown[j]
      /\ \A x \in S : (\E i \in 1 .. Len(shown) : shown[i] = x) \/ (more /\ x > shown[Len(shown)])
  <2>1. S \in SUBSET ReportRows
    OBVIOUS
  <2> HIDE DEF S
  <2> QED BY <2>1, RowsShown
<1>3. S \subseteq ReportRows /\ \A x \in S : Report!After(x) /\ Report!Shows(facts[x], request.asOf)
  OBVIOUS
<1>4. \A r \in ReportRows : Report!Shows(facts[r], request.asOf) /\ CoveredBy(request.scope, r) /\ Report!After(r) => r \in S
  BY DEF CoveredBy, Report!oneGrantScope
<1> HIDE DEF S, found, shown
<1>5. /\ Len(shown) \in Nat /\ DOMAIN shown = 1 .. Len(shown)
      /\ \A i \in DOMAIN shown : /\ shown[i] \in ReportRows /\ Report!After(shown[i])
                                 /\ Report!Shows(facts[shown[i]], request.asOf)
  BY <1>2, <1>3
<1>6. facts \in [ReportRows -> FactRow] /\ ReportTyped /\ \A r \in ReportRows : facts[r].version \in Nat
  BY ReportIs DEF FactRow
<1>7. /\ page \in Seq(ReportRows \X Nat) /\ Len(page) = Len(shown) /\ DOMAIN page = 1 .. Len(shown)
      /\ \A i \in DOMAIN page : page[i][1] = shown[i] /\ page[i][2] = facts[shown[i]].version
  <2>1. page \in [1 .. Len(shown) -> ReportRows \X Nat]
    BY <1>5, <1>6
  <2>2. \A i \in 1 .. Len(shown) : page[i][1] = shown[i] /\ page[i][2] = facts[shown[i]].version
    BY <1>5
  <2> HIDE DEF page
  <2>3. page \in Seq(ReportRows \X Nat) /\ Len(page) = Len(shown) /\ DOMAIN page = 1 .. Len(shown)
    BY <1>5, <2>1
  <2> QED BY <2>2, <2>3
<1>8. more \in BOOLEAN
  OBVIOUS
<1> HIDE DEF page, more
<1>9. /\ request'.step = "list" /\ request'.page = page /\ request'.more = more
      /\ request'.scope = request.scope /\ request'.mark = request.mark /\ request'.asOf = request.asOf
      /\ request' \in [step : {"idle", "scope", "watermark", "list"}, scope : SUBSET ReportGrants, asOf : Nat,
                       mark : 0 .. Len(history), page : Seq(ReportRows \X Nat), more : BOOLEAN]
  BY <1>1, <1>6, <1>7, <1>8 DEF ReportTyped
<1>10. ReportTyped'
  BY <1>1, <1>6, <1>9 DEF ReportTyped
<1>11. more => Last(page)[1] = shown[Len(shown)]
  <2>1. more => Len(shown) \in DOMAIN page
    BY <1>2, <1>5, <1>7, ReportConstants
  <2> QED BY <1>7, <2>1 DEF Last
<1>12. PageOf'
  <2>1. \A r \in ReportRows : Report!Shows(facts[r], request.asOf) /\ CoveredBy(request.scope, r) /\ Report!After(r)
          => In(page, r) \/ (more /\ r > Last(page)[1])
    <3>1. ASSUME NEW r \in ReportRows, Report!Shows(facts[r], request.asOf), CoveredBy(request.scope, r), Report!After(r)
          PROVE  In(page, r) \/ (more /\ r > Last(page)[1])
      <4>1. (\E i \in 1 .. Len(shown) : shown[i] = r) \/ (more /\ r > shown[Len(shown)])
        BY <1>2, <1>4, <3>1
      <4>2. CASE \E i \in 1 .. Len(shown) : shown[i] = r
        BY <1>7, <4>2 DEF In
      <4>3. CASE more /\ r > shown[Len(shown)]
        BY <1>11, <4>3
      <4> QED BY <4>1, <4>2, <4>3
    <3> QED BY <3>1
  <2>2. Ascending(page) /\ \A i \in DOMAIN page : Report!After(page[i][1])
    BY <1>2, <1>5, <1>7 DEF Ascending
  <2>3. \A r : CoveredBy(request.scope, r)' <=> CoveredBy(request.scope, r)
    BY <1>1, <1>9 DEF CoveredBy, Report!Active
  <2>4. \A r : Report!After(r)' <=> Report!After(r)
    BY <1>1 DEF Report!After
  <2>5. \A i \in DOMAIN page : Fits(facts, page[i], request.asOf)
    BY <1>5, <1>7 DEF Fits
  <2> QED BY <1>1, <1>2, <1>7, <1>9, <2>1, <2>2, <2>3, <2>4, <2>5 DEF PageOf, Ascending
<1>13. RequestStands'
  BY <1>1, <1>9, <1>12, ReportIs DEF RequestStands
<1>14. Report!Snapshot' = Report!Snapshot /\ Report!Active' = Report!Active
  BY <1>1 DEF Report!Snapshot, Report!Active
<1>15. ReportStands'
  BY <1>1, <1>14, ReportIs DEF ReportStands, CoveredBy
<1>16. Report!PagesAreOfOneState' /\ Report!ReportIsWhole'
  BY <1>1, <1>14, ReportIs DEF Report!PagesAreOfOneState, Report!ReportIsWhole
<1> QED BY <1>10, <1>13, <1>15, <1>16 DEF ReportInvariant

\* What is appended to a sequence comes behind it.
LEMMA Appended ==
  ASSUME NEW S, NEW a \in Seq(S), NEW b \in Seq(S)
  PROVE  /\ a \o b \in Seq(S) /\ Len(a \o b) = Len(a) + Len(b) /\ DOMAIN (a \o b) = 1 .. Len(a \o b)
         /\ \A i \in 1 .. Len(a) : (a \o b)[i] = a[i]
         /\ \A i \in 1 .. Len(b) : Len(a) + i \in DOMAIN (a \o b) /\ (a \o b)[Len(a) + i] = b[i]
         /\ \A i \in DOMAIN (a \o b) : i \notin 1 .. Len(a) =>
              i \in Int /\ i - Len(a) \in 1 .. Len(b) /\ (a \o b)[i] = b[i - Len(a)]
<1> DEFINE n == Len(a)
           m == Len(b)
           c == a \o b
<1>1. n \in Nat /\ m \in Nat
  OBVIOUS
<1>2. c \in Seq(S) /\ Len(c) = n + m /\ DOMAIN c = 1 .. n + m
  OBVIOUS
<1>3. \A i \in 1 .. n + m : c[i] = IF i <= n THEN a[i] ELSE b[i - n]
  OBVIOUS
<1> HIDE DEF n, m, c
<1>4. \A i \in 1 .. n : c[i] = a[i]
  BY <1>1, <1>3
<1>5. \A i \in 1 .. m : n + i \in 1 .. n + m /\ c[n + i] = b[i]
  <2>1. ASSUME NEW i \in 1 .. m PROVE n + i \in 1 .. n + m /\ c[n + i] = b[i]
    <3>1. n + i \in 1 .. n + m /\ ~(n + i <= n) /\ (n + i) - n = i
      BY <1>1
    <3>2. c[n + i] = b[(n + i) - n]
      BY <1>3, <3>1
    <3> QED BY <3>1, <3>2
  <2> QED BY <2>1
<1>6. ASSUME NEW i \in 1 .. n + m, i \notin 1 .. n
      PROVE  i \in Int /\ i - n \in 1 .. m /\ c[i] = b[i - n]
  <2>1. i \in Int /\ ~(i <= n) /\ i - n \in 1 .. m
    BY <1>1, <1>6
  <2> QED BY <1>3, <2>1
<1> QED BY <1>2, <1>4, <1>5, <1>6 DEF n, m, c

\* Pages that were read under one digest make one report.
LEMMA SecondDigest ==
  ASSUME ReportInvariant, Report!secondWatermark
  PROVE  ReportInvariant'
<1>1. CASE Report!Refused
  BY <1>1, RefusedStands DEF Report!secondWatermark
<1>2. CASE ~Report!Refused
  <2> DEFINE page == request.page
             more == request.more
             got == report.got \o page
             cursor == IF more THEN [after |-> Last(page)[1], mark |-> request.mark, scope |-> request.scope,
                                     asOf |-> request.asOf]
                               ELSE Report!None
             mark == IF report.cursor = Report!None THEN request.mark ELSE report.mark
  <2>1. /\ request.step = "list" /\ Len(history) = request.mark /\ request' = Report!Idle
        /\ report' = [cursor |-> cursor, got |-> got, done |-> ~more, mark |-> mark, scope |-> request.scope,
                     asOf |-> request.asOf]
        /\ facts' = facts /\ history' = history /\ grant' = grant /\ clock' = clock
    BY <1>2 DEF Report!secondWatermark, Report!FactsStayed, Report!sourceWatermark, Report!Last, Last
  <2>2. /\ page \in Seq(ReportRows \X Nat) /\ report.got \in Seq(ReportRows \X Nat) /\ more \in BOOLEAN
        /\ Len(history) \in Nat \ {0} /\ history[Len(history)] = facts /\ ReportTyped
        /\ RequestStands /\ ReportStands /\ Report!PagesAreOfOneState /\ Report!ReportIsWhole
        /\ report.cursor \in Cursors /\ request.scope \subseteq ReportGrants
        /\ request.asOf \in Nat /\ request.asOf <= PerMs * clock /\ clock \in Nat
    BY ReportIs
  <2>3. /\ PageOf /\ ~report.done /\ request.mark # 0
        /\ report.cursor # Report!None => /\ report.cursor.scope = request.scope
                                          /\ report.cursor.mark = request.mark
                                          /\ report.cursor.asOf = request.asOf
    BY <2>1, <2>2 DEF RequestStands
  <2>4. mark = Len(history) /\ (report.cursor # Report!None => report.mark = mark /\ report.asOf = request.asOf)
    BY <2>1, <2>2, <2>3 DEF ReportStands
  <2>5. /\ Len(page) <= PageSize /\ (more => Len(page) = PageSize)
        /\ Ascending(page) /\ \A i \in DOMAIN page : Report!After(page[i][1])
        /\ \A i \in DOMAIN page : Fits(facts, page[i], request.asOf)
        /\ \A r \in ReportRows : Report!Shows(facts[r], request.asOf) /\ CoveredBy(request.scope, r) /\ Report!After(r)
             => In(page, r) \/ (more /\ r > Last(page)[1])
    BY <2>1, <2>3 DEF PageOf
  <2>6. /\ DOMAIN page = 1 .. Len(page) /\ Len(page) \in Nat
        /\ DOMAIN report.got = 1 .. Len(report.got) /\ Len(report.got) \in Nat
        /\ \A i \in DOMAIN page : page[i] \in ReportRows \X Nat
        /\ \A i \in DOMAIN report.got : report.got[i] \in ReportRows \X Nat
    BY <2>2
  <2>7. /\ \A i \in DOMAIN page : page[i][1] \in ReportRows /\ page[i][1] \in Nat
        /\ \A i \in DOMAIN report.got : report.got[i][1] \in ReportRows /\ report.got[i][1] \in Nat
    BY <2>6, ReportConstants
  <2> HIDE DEF page, more
  <2>8. /\ got \in Seq(ReportRows \X Nat) /\ Len(got) = Len(report.got) + Len(page)
        /\ DOMAIN got = 1 .. Len(got)
    BY <2>2, Appended
  <2>9. \A i \in 1 .. Len(report.got) : got[i] = report.got[i]
    BY <2>2, Appended
  <2>10. /\ \A i \in DOMAIN got : i \notin 1 .. Len(report.got) =>
              i - Len(report.got) \in DOMAIN page /\ got[i] = page[i - Len(report.got)] /\ i \in Int
         /\ \A i \in DOMAIN page : Len(report.got) + i \in DOMAIN got /\ got[Len(report.got) + i] = page[i]
    <3>1. /\ \A i \in DOMAIN got : i \notin 1 .. Len(report.got) =>
               i - Len(report.got) \in 1 .. Len(page) /\ got[i] = page[i - Len(report.got)] /\ i \in Int
          /\ \A i \in 1 .. Len(page) : Len(report.got) + i \in DOMAIN got /\ got[Len(report.got) + i] = page[i]
      BY <2>2, Appended
    <3> HIDE DEF got
    <3> QED BY <2>6, <3>1
  <2> HIDE DEF got
  <2>11. \A r : In(report.got, r) \/ In(page, r) => In(got, r)
    <3>1. ASSUME NEW i \in DOMAIN page PROVE \E j \in DOMAIN got : got[j] = page[i]
      BY <2>10
    <3>2. ASSUME NEW i \in DOMAIN report.got PROVE \E j \in DOMAIN got : got[j] = report.got[i]
      <4>1. i \in DOMAIN got /\ got[i] = report.got[i]
        BY <2>6, <2>8, <2>9, <3>2
      <4> QED BY <4>1
    <3> QED BY <3>1, <3>2 DEF In
  <2>12. more => Last(page) \in ReportRows \X Nat /\ page # <<>> /\ Len(page) \in DOMAIN page
                 /\ Last(page) = page[Len(page)]
    BY <2>2, <2>5, <2>6, ReportConstants DEF Last
  <2>13. more => cursor \in [after : ReportRows, mark : Nat, scope : SUBSET ReportGrants, asOf : Nat]
                 /\ cursor.after = Last(page)[1] /\ cursor.mark = mark /\ cursor.scope = request.scope
                 /\ cursor.asOf = request.asOf
                 /\ cursor # Report!None
    <3>1. ASSUME more
          PROVE  cursor \in [after : ReportRows, mark : Nat, scope : SUBSET ReportGrants, asOf : Nat]
                 /\ cursor.after = Last(page)[1] /\ cursor.mark = mark /\ cursor.scope = request.scope
                 /\ cursor.asOf = request.asOf
      BY <2>1, <2>2, <2>4, <2>12, <3>1
    <3> HIDE DEF cursor
    <3> QED BY <3>1, ReportCursors
  <2>14. ~more => cursor = Report!None
    OBVIOUS
  <2>15. more => Last(got) = Last(page) /\ got # <<>>
    <3>1. more => got[Len(got)] = page[Len(page)] /\ got # <<>>
      BY <2>8, <2>10, <2>12
    <3> QED BY <2>12, <3>1 DEF Last
  <2> HIDE DEF cursor, mark
  <2>16. /\ report'.cursor = cursor /\ report'.got = got /\ report'.done = ~more /\ report'.mark = mark
         /\ report'.scope = request.scope /\ report'.asOf = request.asOf /\ request'.asOf = 0
         /\ request'.step = "idle" /\ request'.scope = {} /\ request'.page = <<>> /\ request'.more = FALSE
         /\ request' = [step |-> "idle", scope |-> {}, asOf |-> 0, mark |-> 0, page |-> <<>>, more |-> FALSE]
    <3>1. /\ report'.cursor = cursor /\ report'.got = got /\ report'.done = ~more /\ report'.mark = mark
          /\ report'.scope = request.scope /\ report'.asOf = request.asOf
      BY <2>1
    <3>2. request' = [step |-> "idle", scope |-> {}, asOf |-> 0, mark |-> 0, page |-> <<>>, more |-> FALSE]
      BY <2>1 DEF Report!Idle
    <3>3. /\ request'.step = "idle" /\ request'.scope = {} /\ request'.page = <<>> /\ request'.more = FALSE
          /\ request'.asOf = 0
      BY <3>2
    <3> QED BY <3>1, <3>2, <3>3
  <2>17. ReportTyped'
    <3>1. cursor \in Cursors
      BY <2>13, <2>14 DEF Cursors
    <3>2. mark \in 0 .. Len(history') /\ 0 \in 0 .. Len(history')
      BY <2>1, <2>2, <2>4
    <3>3. report' \in [cursor : Cursors, got : Seq(ReportRows \X Nat), done : BOOLEAN,
                       mark : 0 .. Len(history'), scope : SUBSET ReportGrants, asOf : Nat]
      BY <2>1, <2>2, <2>8, <3>1, <3>2
    <3>4. request' \in [step : {"idle", "scope", "watermark", "list"}, scope : SUBSET ReportGrants, asOf : Nat,
                        mark : 0 .. Len(history'), page : Seq(ReportRows \X Nat), more : BOOLEAN]
      BY <2>16, <3>2
    <3>5. clock' \in Nat /\ request'.asOf <= PerMs * clock' /\ report'.asOf <= PerMs * clock'
      BY <2>1, <2>2, <2>16, Elapsed
    <3> QED BY <2>1, <2>2, <2>16, <3>3, <3>4, <3>5 DEF ReportTyped
  <2>18. Report!Snapshot' = facts
    BY <2>1, <2>2, <2>4, <2>16 DEF Report!Snapshot
  <2>19. report.cursor # Report!None => Report!Snapshot = facts
    BY <2>2, <2>4 DEF Report!Snapshot
  <2>20. report.cursor = Report!None => report.got = <<>>
    BY <2>2, <2>3 DEF ReportStands
  <2>21. \A r \in ReportRows : Report!Shows(facts[r], request.asOf) /\ CoveredBy(request.scope, r) =>
           In(got, r) \/ (more /\ r > Last(page)[1])
    <3>1. ASSUME NEW r \in ReportRows, Report!Shows(facts[r], request.asOf), CoveredBy(request.scope, r)
          PROVE  In(report.got, r) \/ Report!After(r)
      <4>1. CASE report.cursor = Report!None
        BY <4>1 DEF Report!After
      <4>2. CASE report.cursor # Report!None
        <5>1. report.scope = request.scope
          BY <2>2, <2>3, <4>2 DEF ReportStands
        <5> QED BY <2>2, <2>4, <2>19, <3>1, <4>2, <5>1 DEF ReportStands, Report!After
      <4> QED BY <4>1, <4>2
    <3> QED BY <2>5, <2>11, <3>1
  <2>22. \A r : CoveredBy(report.scope, r)' <=> CoveredBy(request.scope, r)
    BY <2>1, <2>16 DEF CoveredBy, Report!Active
  <2>23. ReportStands'
    <3>1. more => \A r \in ReportRows : Report!Shows(facts[r], request.asOf) /\ CoveredBy(request.scope, r) =>
                    In(got, r) \/ r > cursor.after
      BY <2>13, <2>21
    <3>2. report'.mark # 0
      BY <2>2, <2>4, <2>16
    <3> QED BY <2>2, <2>13, <2>14, <2>15, <2>16, <2>18, <2>22, <3>1, <3>2 DEF ReportStands
  <2>24. \A i \in DOMAIN got : Fits(facts, got[i], request.asOf)
    <3>1. ASSUME NEW i \in 1 .. Len(report.got) PROVE Fits(facts, report.got[i], request.asOf)
      <4>1. report.cursor # Report!None
        BY <2>6, <2>20, <3>1
      <4> QED BY <2>2, <2>4, <2>6, <2>19, <4>1 DEF Report!PagesAreOfOneState, Fits
    <3> QED BY <2>5, <2>9, <2>10, <3>1
  <2>25. \A i, j \in DOMAIN got : i < j => got[i][1] < got[j][1]
    <3>1. ASSUME NEW i \in DOMAIN got, NEW j \in DOMAIN got, i < j PROVE got[i][1] < got[j][1]
      <4> DEFINE n == Len(report.got)
      <4>1. CASE j \in 1 .. n
        <5>1. i \in 1 .. n
          BY <2>6, <2>8, <3>1, <4>1
        <5> QED BY <2>2, <2>6, <2>9, <3>1, <4>1, <5>1 DEF Report!PagesAreOfOneState
      <4>2. CASE i \in 1 .. n /\ j \notin 1 .. n
        <5>1. Report!After(got[j][1]) /\ got[j][1] \in Nat
          BY <2>5, <2>7, <2>10, <4>2
        <5>2. n \in 1 .. n /\ Last(report.got) = report.got[n] /\ report.got # <<>>
          BY <2>6, <4>2 DEF Last
        <5>3. report.cursor # Report!None /\ report.cursor.after = report.got[n][1]
          BY <2>2, <2>20, <5>2 DEF ReportStands
        <5>4. report.got[n][1] < got[j][1]
          <6>1. report.got[n][1] \in Nat /\ got[j][1] > report.got[n][1]
            BY <2>6, <2>7, <5>1, <5>2, <5>3 DEF Report!After
          <6> HIDE DEF n
          <6> QED BY <5>1, <6>1
        <5>5. i = n \/ report.got[i][1] < report.got[n][1]
          <6>1. i \in DOMAIN report.got /\ n \in DOMAIN report.got /\ (i = n \/ i < n)
            BY <2>6, <4>2, <5>2
          <6> HIDE DEF n
          <6> QED BY <2>2, <6>1 DEF Report!PagesAreOfOneState
        <5>6. report.got[i][1] \in Nat /\ report.got[n][1] \in Nat /\ got[i] = report.got[i]
          BY <2>6, <2>7, <2>9, <4>2, <5>2
        <5> QED BY <5>1, <5>4, <5>5, <5>6
      <4>3. CASE i \notin 1 .. n
        <5>1. j \notin 1 .. n
          BY <2>6, <2>8, <3>1, <4>3
        <5>2. /\ i - n \in DOMAIN page /\ j - n \in DOMAIN page /\ got[i] = page[i - n] /\ got[j] = page[j - n]
              /\ i \in Int /\ j \in Int
          BY <2>10, <3>1, <4>3, <5>1
        <5>3. i - n < j - n
          BY <2>6, <3>1, <5>2
        <5> HIDE DEF n
        <5> QED BY <2>5, <5>2, <5>3 DEF Ascending
      <4> QED BY <4>1, <4>2, <4>3
    <3> QED BY <3>1
  <2>26. Report!PagesAreOfOneState'
    BY <2>16, <2>18, <2>24, <2>25 DEF Report!PagesAreOfOneState, Fits
  <2>27. Report!ReportIsWhole'
    <3>1. ~more => \A r \in ReportRows : Report!Shows(facts[r], request.asOf) /\ CoveredBy(report.scope, r)' => In(got, r)
      BY <2>21, <2>22
    <3> QED BY <2>16, <2>18, <3>1 DEF Report!ReportIsWhole, CoveredBy, In
  <2>28. RequestStands'
    BY <2>16 DEF RequestStands
  <2> QED BY <2>17, <2>23, <2>26, <2>27, <2>28 DEF ReportInvariant
<1> QED BY <1>1, <1>2

\* Nothing has been reported.
LEMMA ReportStarts ==
  ASSUME Report!Init
  PROVE  ReportInvariant
<1>1. /\ facts \in [ReportRows -> {Report!Absent, [version |-> 1, created |-> 0]}]
      /\ clock = 0 /\ history = <<facts>> /\ grant \in [ReportGrants -> {"new", "active"}]
      /\ request = [step |-> "idle", scope |-> {}, asOf |-> 0, mark |-> 0, page |-> <<>>, more |-> FALSE]
      /\ report = [cursor |-> Report!None, got |-> <<>>, done |-> FALSE, mark |-> 0, scope |-> {},
                   asOf |-> 0]
  BY DEF Report!Init, Report!Idle, Report!Unread
<1>2. /\ request.step = "idle" /\ request.scope = {} /\ request.page = <<>> /\ request.more = FALSE
      /\ report.cursor = Report!None /\ report.got = <<>> /\ report.done = FALSE /\ report.scope = {}
  BY <1>1
<1>3. /\ facts \in [ReportRows -> FactRow] /\ grant \in [ReportGrants -> {"new", "active", "revoked"}]
  BY <1>1 DEF FactRow, Report!Absent
<1>4. history \in Seq([ReportRows -> FactRow]) /\ history # <<>> /\ Last(history) = facts /\ Len(history) = 1
  BY <1>1, <1>3 DEF Last
<1>5. /\ 0 \in 0 .. Len(history)
      /\ clock \in Nat /\ request.asOf <= PerMs * clock /\ report.asOf <= PerMs * clock
  BY <1>1, <1>4, Elapsed
<1>6. ReportTyped
  <2>1. request \in [step : {"idle", "scope", "watermark", "list"}, scope : SUBSET ReportGrants, asOf : Nat,
                     mark : 0 .. Len(history), page : Seq(ReportRows \X Nat), more : BOOLEAN]
    BY <1>1, <1>5
  <2>2. report \in [cursor : Cursors, got : Seq(ReportRows \X Nat), done : BOOLEAN,
                    mark : 0 .. Len(history), scope : SUBSET ReportGrants, asOf : Nat]
    BY <1>1, <1>5 DEF Cursors
  <2> QED BY <1>2, <1>3, <1>4, <1>5, <2>1, <2>2 DEF ReportTyped
<1>7. RequestStands /\ ReportStands
  BY <1>2 DEF RequestStands, ReportStands
<1>8. Report!PagesAreOfOneState /\ Report!ReportIsWhole
  BY <1>2 DEF Report!PagesAreOfOneState, Report!ReportIsWhole
<1> QED BY <1>6, <1>7, <1>8 DEF ReportInvariant

\* Every step of a report keeps the invariant.
LEMMA ReportsGoOn ==
  ASSUME ReportInvariant, Report!Next
  PROVE  ReportInvariant'
BY ChangeOfFacts, TimePasses, Administration, ScopeRead, FirstDigest, RowsRead, SecondDigest
   DEF Report!Next, Report!Read

\* What the invariant says of the pages of a report.
LEMMA ReportsFit ==
  ASSUME ReportInvariant
  PROVE  Report!ReportTypeOK /\ Report!PagesAreOfOneState /\ Report!ReportIsWhole
<1>1. ReportTyped /\ RequestStands /\ ReportStands
  BY ReportIs
<1>2. /\ facts \in [ReportRows -> FactRow] /\ Last(history) = facts
      /\ grant \in [ReportGrants -> {"new", "active", "revoked"}]
      /\ request.step \in {"idle", "scope", "watermark", "list"}
      /\ request.scope \subseteq ReportGrants /\ request.mark \in 0 .. Len(history)
  BY <1>1 DEF ReportTyped
<1>3. Len(request.page) <= PageSize /\ (request.more => Len(request.page) = PageSize)
  <2>1. CASE request.step = "list"
    BY <1>1, <2>1 DEF RequestStands, PageOf
  <2>2. CASE request.step # "list"
    BY <1>1, <2>2, ReportConstants DEF RequestStands
  <2> QED BY <2>1, <2>2
<1>4. /\ report.cursor = Report!None <=> (report.got = <<>> \/ report.done)
      /\ report.cursor # Report!None => report.cursor.after = Last(report.got)[1]
  BY <1>1 DEF ReportStands
<1>5. /\ Report!Last(history) = Last(history) /\ Report!Last(report.got) = Last(report.got)
  BY DEF Report!Last, Last
<1>6. facts \in [ReportRows -> [version : Nat, created : Nat]]
  BY <1>2 DEF FactRow
<1>7. {request.asOf, report.asOf} \subseteq 0 .. PerMs * clock
  BY ReportIs, Elapsed
<1>8. Report!ReportTypeOK
  BY <1>2, <1>3, <1>4, <1>5, <1>6, <1>7 DEF Report!ReportTypeOK
<1> QED BY <1>8 DEF ReportInvariant

-------------------------------------------------------------------------------
(* Lists, reports and the queue of an approver together.                   *)

\* The reading of a list, or of a report, that a behaviour is about.
PartsInvariant ==
  /\ part = "lists" => ListInvariant
  /\ part = "report" => ReportInvariant

\* A list that is not touched stays as it is.
LEMMA ListsRest ==
  ASSUME ListInvariant, UNCHANGED listPart
  PROVE  ListInvariant'
<1>1. /\ list' = list /\ limit' = limit /\ now' = now /\ entries' = entries /\ walk' = walk
      /\ steady' = steady /\ changes' = changes
  BY DEF listPart
<1>2. ListTyped /\ now \in 0 .. MaxMs /\ MaxMs \in Nat
  BY PartsAssumption DEF ListInvariant, ListTyped, Lists!PagingAssumption
<1>3. now' \in 0 .. MaxMs /\ now <= now'
  BY <1>1, <1>2
<1>4. \A r \in ListRows : (Lists!Present(r) => entries[r].key \in Lists!SortKeys(entries[r].created))'
  BY <1>1, <1>2, SameRows DEF ListTyped, Lists!SortKeys
<1>5. \A r \in ListRows : Lists!Present(r) =>
        /\ Lists!Present(r)' /\ entries'[r].created = entries[r].created
        /\ entries'[r].key = entries[r].key \/ (list.moves /\ r \notin steady')
  BY <1>1, SameRows
<1>6. /\ changes' \in 0 .. MaxChanges
      /\ entries' \in [ListRows -> Lists!Rowlike \cup {Lists!Blank}]
      /\ steady' \subseteq steady /\ \A r \in steady' : Lists!Listed(r)'
  BY <1>1, <1>2, SameRows DEF ListTyped
<1> QED BY <1>1, <1>3, <1>4, <1>5, <1>6, OthersMeanwhile

\* A report that is not touched stays as it is.
LEMMA ReportRests ==
  ASSUME ReportInvariant, UNCHANGED reportPart
  PROVE  ReportInvariant'
<1>1. /\ facts' = facts /\ history' = history /\ grant' = grant /\ request' = request /\ report' = report
      /\ clock' = clock
  BY DEF reportPart
<1>2. /\ Report!Snapshot' = Report!Snapshot /\ \A r : Report!After(r)' <=> Report!After(r)
      /\ \A s, r : CoveredBy(s, r)' <=> CoveredBy(s, r)
  BY <1>1 DEF Report!Snapshot, Report!After, CoveredBy, Report!Active
<1>3. ReportTyped'
  BY <1>1, ReportIs DEF ReportTyped
<1>4. RequestStands'
  <2>1. ASSUME request.step = "list" PROVE PageOf'
    BY <1>1, <1>2, <2>1, ReportIs DEF RequestStands, PageOf
  <2> QED BY <1>1, <2>1, ReportIs DEF RequestStands
<1>5. ReportStands'
  BY <1>1, <1>2, ReportIs DEF ReportStands
<1>6. Report!PagesAreOfOneState' /\ Report!ReportIsWhole'
  BY <1>1, <1>2, ReportIs DEF Report!PagesAreOfOneState, Report!ReportIsWhole, Report!Active
<1> QED BY <1>3, <1>4, <1>5, <1>6 DEF ReportInvariant

\* What the queue of an approver shows can be acted on.
LEMMA QueueIsActionable ==
  QueueShowsActionable
<1>1. ASSUME NEW u \in Users, NEW i \in ActionableQueue(u, "cashbox.approve")
      PROVE  i \in DOMAIN requests /\ MayAct(u, i, "APPROVED")
  BY <1>1 DEF ActionableQueue, Actionable, MayAct
<1> QED BY <1>1 DEF QueueShowsActionable

\* Who reads a list to its end gets every row that stayed in its place, none
\* twice; who reads a report to its end has all the rows of one state of the
\* facts that were created up to the moment it was asked for; and what an
\* approver's queue shows can be acted on
\* (receipt.service.ts:38, reporting.service.ts:239,
\* cashbox-operations.service.ts:1297).
THEOREM PagesFit == PartsSpec => []PagesFitTogether
<1>1. PartsInit => PartsInvariant
  BY PartsAssumption, ListsStart, ReportStarts DEF PartsInit, PartsInvariant
<1>2. PartsInvariant /\ [PartsNext]_allParts => PartsInvariant'
  <2> SUFFICES ASSUME PartsInvariant, [PartsNext]_allParts PROVE PartsInvariant'
    OBVIOUS
  <2>1. part' = part
    BY DEF PartsNext, allParts
  <2>2. ASSUME part = "lists" PROVE ListInvariant'
    <3>1. ListInvariant
      BY <2>2 DEF PartsInvariant
    <3>2. Lists!Next \/ UNCHANGED listPart
      BY <2>2, PartsAssumption DEF PartsNext, allParts
    <3> QED BY <3>1, <3>2, ListsGoOn, ListsRest
  <2>3. ASSUME part = "report" PROVE ReportInvariant'
    <3>1. ReportInvariant
      BY <2>3 DEF PartsInvariant
    <3>2. Report!Next \/ UNCHANGED reportPart
      BY <2>3, PartsAssumption DEF PartsNext, allParts
    <3> QED BY <3>1, <3>2, ReportsGoOn, ReportRests
  <2> QED BY <2>1, <2>2, <2>3 DEF PartsInvariant
<1>3. PartsInvariant => PagesFitTogether
  BY QueueIsActionable, ListsFit, ReportsFit DEF PartsInvariant, PagesFitTogether
<1> QED BY <1>1, <1>2, <1>3, PTL DEF PartsSpec
===============================================================================
