---------------------------- MODULE ReportPages -----------------------------
(***************************************************************************)
(* An operational report is read page by page, and every page by several   *)
(* statements without a common transaction: the grants of the reader, a    *)
(* digest of the tables the report is made of, its rows, and the digest    *)
(* again.  Commands and revocations commit between any two of them.  The   *)
(* cursor of a page binds the next one to the same grants, the same digest *)
(* and the same moment: rows created after the millisecond in which the    *)
(* first page was asked for are left out of every page.                    *)
(***************************************************************************)
EXTENDS Naturals, FiniteSetsExt, SequencesExt

CONSTANTS
  Rows,        \* report rows, numbered in the order of the report
  Grants,      \* grants of report.view the reader may have
  Covers,      \* Covers[g]: the rows within the scope of g
  Limit,       \* page size
  PerMs,       \* microseconds in a millisecond
  MaxMs,       \* bound on the clock
  MaxChanges   \* bound on commits of the owners of the facts

ReportAssumption ==
  /\ Rows \subseteq Nat /\ IsFiniteSet(Rows)
  /\ Covers \in [Grants -> SUBSET Rows]
  /\ Limit \in Nat \ {0} /\ PerMs \in Nat \ {0}
  /\ MaxMs \in Nat /\ MaxChanges \in Nat

VARIABLES
  clock,    \* the milliseconds passed
  facts,    \* facts[r]: the version of row r, 0 if there is no such row, and the
            \* microsecond it was created in
  history,  \* all the facts there have been; the last are the current ones
  grant,    \* grant[g]: "new", "active" or "revoked"
  request,  \* the page being read
  report    \* what the reader has: pages and cursor

vars == <<clock, facts, history, grant, request, report>>

\* A digest of whole rows with their versions and timestamps: equal digests
\* are digests of the same state, and no state comes back.
sourceWatermark == Len(history)
Active == {g \in Grants : grant[g] = "active"}

Absent == [version |-> 0, created |-> 0]
None == [none |-> TRUE]
Unread == [cursor |-> None, got |-> <<>>, done |-> FALSE, mark |-> 0, scope |-> {}, asOf |-> 0]
Idle == [step |-> "idle", scope |-> {}, asOf |-> 0, mark |-> 0, page |-> <<>>, more |-> FALSE]

Init ==
  /\ clock = 0
  /\ facts \in [Rows -> {Absent, [version |-> 1, created |-> 0]}]
  /\ history = <<facts>>
  /\ grant \in [Grants -> {"new", "active"}]
  /\ request = Idle
  /\ report = Unread

-----------------------------------------------------------------------------
(* Others                                                                  *)

\* The microseconds up to the end of this millisecond
Past == 0 .. PerMs * clock + PerMs - 1

\* A command inserts a row, created when its transaction began, or changes one, or a
\* row leaves the state that the report asks for or comes back to it.
Change ==
  /\ Len(history) <= MaxChanges
  /\ \E r \in Rows :
       \/ /\ facts[r] = Absent
          /\ \E t \in Past : facts' = [facts EXCEPT ![r] = [version |-> 1, created |-> t]]
       \/ /\ facts[r] # Absent
          /\ \/ facts' = [facts EXCEPT ![r].version = @ + 1]
             \/ facts' = [facts EXCEPT ![r] = Absent]
  /\ history' = Append(history, facts')
  /\ UNCHANGED <<clock, grant, request, report>>

Tick ==
  /\ clock < MaxMs /\ clock' = clock + 1
  /\ UNCHANGED <<facts, history, grant, request, report>>

Grant(g) == grant[g] = "new" /\ grant' = [grant EXCEPT ![g] = "active"]
Revoke(g) == grant[g] = "active" /\ grant' = [grant EXCEPT ![g] = "revoked"]

Administer == /\ \E g \in Grants : Grant(g) \/ Revoke(g)
              /\ UNCHANGED <<clock, facts, history, request, report>>

-----------------------------------------------------------------------------
(* One page                                                                *)

\* TRS-GEN-003, TRS-GEN-001 and TRS-RPT-002: the page is refused, and the reader
\* starts the report anew.
Refused == request' = Idle /\ report' = Unread

\* The first page fixes the moment, in milliseconds, before it looks at any table.
MomentOfReport == IF report.cursor = None THEN PerMs * clock ELSE report.cursor.asOf

\* No statement comes between the answer about the grants and the moment; what
\* commits in the meantime might as well have committed before the question.
currentScope ==
  /\ request.step = "idle" /\ ~report.done
  /\ IF Active = {} \/ (report.cursor # None /\ report.cursor.scope # Active)
     THEN Refused
     ELSE /\ request' = [request EXCEPT !.step = "scope", !.scope = Active,
                                        !.asOf = MomentOfReport]
          /\ UNCHANGED report
  /\ UNCHANGED <<clock, facts, history, grant>>

CursorIsCurrent(mark) == report.cursor # None => report.cursor.mark = mark

firstWatermark ==
  /\ request.step = "scope"
  /\ IF CursorIsCurrent(sourceWatermark)
     THEN /\ request' = [request EXCEPT !.step = "watermark", !.mark = sourceWatermark]
          /\ UNCHANGED report
     ELSE Refused
  /\ UNCHANGED <<clock, facts, history, grant>>

\* A row of the report at a moment.  Its allocations and effects are cut off in the
\* same way: each is a row of its own here.
Shows(fact, asOf) == fact # Absent /\ fact.created <= asOf

\* Only grants of the fingerprint count, and only while they are in force.
oneGrantScope(r) == \E g \in request.scope \cap Active : r \in Covers[g]

\* The rows of a set in the order of the report
Ordered(rows) ==
  CHOOSE q \in [1 .. Cardinality(rows) -> rows] : \A i, j \in DOMAIN q : i < j => q[i] < q[j]

After(r) == report.cursor # None => r > report.cursor.after

list ==
  /\ request.step = "watermark"
  /\ LET found == Ordered({r \in Rows :
                      Shows(facts[r], request.asOf) /\ oneGrantScope(r) /\ After(r)})
         shown == SubSeq(found, 1, Min({Limit, Len(found)}))
     IN  request' = [request EXCEPT !.step = "list",
                                    !.page = [i \in DOMAIN shown |->
                                                <<shown[i], facts[shown[i]].version>>],
                                    !.more = Len(found) > Limit]
  /\ UNCHANGED <<clock, facts, history, grant, report>>

\* Faulty variant: the page is served without a second look.
FactsStayedAlways(mark) == TRUE

FactsStayed(mark) == sourceWatermark = mark

secondWatermark ==
  /\ request.step = "list"
  /\ IF FactsStayed(request.mark)
     THEN /\ request' = Idle
          /\ report' = [cursor |-> IF request.more
                                   THEN [after |-> Last(request.page)[1], mark |-> request.mark,
                                         scope |-> request.scope, asOf |-> request.asOf]
                                   ELSE None,
                        got |-> report.got \o request.page,
                        done |-> ~request.more,
                        mark |-> IF report.cursor = None THEN request.mark ELSE report.mark,
                        scope |-> request.scope, asOf |-> request.asOf]
     ELSE Refused
  /\ UNCHANGED <<clock, facts, history, grant>>

Read == currentScope \/ firstWatermark \/ list \/ secondWatermark

Next == Change \/ Tick \/ Administer \/ Read

Spec == Init /\ [][Next]_vars

-----------------------------------------------------------------------------
(* Properties                                                              *)

\* The types.  A cursor and rows come together, until the report is read.
ReportTypeOK ==
  /\ facts \in [Rows -> [version: Nat, created: Nat]] /\ Last(history) = facts
  /\ grant \in [Grants -> {"new", "active", "revoked"}]
  /\ request.step \in {"idle", "scope", "watermark", "list"}
  /\ request.scope \subseteq Grants /\ request.mark \in 0..Len(history)
  /\ {request.asOf, report.asOf} \subseteq 0 .. PerMs * clock
  /\ Len(request.page) <= Limit /\ (request.more => Len(request.page) = Limit)
  /\ report.cursor = None <=> (report.got = <<>> \/ report.done)
  /\ report.cursor # None => report.cursor.after = Last(report.got)[1]

\* The facts of the digest the first page was read under
Snapshot == history[report.mark]

\* Whatever pages a reader has put together are rows of one state of the facts and
\* of one moment, each at most once and in order, although no transaction spans the
\* pages and not even the statements of one (reporting.service.ts:239 and :269).
PagesAreOfOneState ==
  /\ \A i \in DOMAIN report.got :
       /\ Shows(Snapshot[report.got[i][1]], report.asOf)
       /\ Snapshot[report.got[i][1]].version = report.got[i][2]
  /\ \A i, j \in DOMAIN report.got : i < j => report.got[i][1] < report.got[j][1]

\* A report read to its end leaves out no row of that state and moment which a grant
\* of its scope covers.  Of that state it does leave out, and no error says so,
\*   - the rows created after the moment, or later in its millisecond, and committed
\*     before the first digest, which holds them: the moment is taken before it
\*     (reporting.service.ts:234, reporting.repository.ts:389);
\*   - on the last page, those of a grant revoked while that page was read
\*     (reporting.repository.ts:1120 looks at the grant again, after the fingerprint).
ReportIsWhole ==
  report.done =>
    \A r \in Rows :
      Shows(Snapshot[r], report.asOf) /\ (\E g \in report.scope \cap Active : r \in Covers[g])
        => \E i \in DOMAIN report.got : report.got[i][1] = r

=============================================================================
