----------------------------- MODULE AuthorityProofs -----------------------------
(***************************************************************************)
(* Sessions are sound and authority stays contained, for every setting of  *)
(* the parts: an invariant of the rows, requests and proofs of an account, *)
(* what the operators on scopes promise each other, and an invariant of    *)
(* grants, delegations and policies.                                       *)
(***************************************************************************)
EXTENDS AuthorityParts, FiniteSetTheorems, TLAPS

-------------------------------------------------------------------------------
(* What a step does to the rows.                                           *)

\* A revocation under way reaches rows of the account.
SweepTyped == sweep.reach \subseteq Used /\ (~Locked => sweep.reach = {})

\* A row that is not in use is blank, and the sessions in use are named by rows.
RowsTyped ==
  /\ \A s \in Rows : row[s].state = "NONE" => row[s] = NoSession
  /\ \A s \in Used : row[s].logical \in Used

\* A request that found a session has one.
Served == \A r \in Requests : request[r].at # "IDLE" => request[r].tail \in Used

Typed == SessionTypeOK /\ SweepTyped /\ RowsTyped /\ Served

\* A step that appends no row.
Quiet ==
  \A s \in Rows :
    /\ row'[s].logical = row[s].logical /\ row'[s].parent = row[s].parent
    /\ row'[s].state \in {row[s].state, "REVOKED"} /\ (row'[s].state = "NONE" <=> row[s].state = "NONE")
    /\ row[s].state = "NONE" => row'[s] = row[s]
    /\ Revocable(s)' => Revocable(s)

\* A row that is revoked.
LEMMA RevokedRow ==
  ASSUME NEW old \in Row,
         NEW new, new = [old EXCEPT !.state = "REVOKED", !.grace = FALSE, !.due = FALSE, !.idle = FALSE]
  PROVE  /\ new \in Row /\ new.state = "REVOKED" /\ ~new.grace
         /\ new.logical = old.logical /\ new.parent = old.parent
BY DEF Row

\* An update that revokes rows is quiet, and leaves none of those it reaches.
LEMMA RevocationQuiet ==
  ASSUME Typed, NEW reach, row' = Revoked(reach)
  PROVE  /\ Quiet /\ row' \in [Rows -> Row]
         /\ \A s \in Rows : row'[s].grace => row'[s].state = "ROTATED"
         /\ \A s \in Rows : s \in reach => ~Revocable(s)'
<1> USE DEF Typed, SessionTypeOK
<1>1. ASSUME NEW s \in Rows, s \in reach, Revocable(s)
      PROVE  /\ row'[s] \in Row /\ row'[s].state = "REVOKED" /\ ~row'[s].grace
             /\ row'[s].logical = row[s].logical /\ row'[s].parent = row[s].parent
  <2>1. row'[s] = [row[s] EXCEPT !.state = "REVOKED", !.grace = FALSE, !.due = FALSE, !.idle = FALSE]
    BY <1>1 DEF Revoked
  <2> QED BY <2>1, RevokedRow
<1>2. ASSUME NEW s \in Rows, ~(s \in reach /\ Revocable(s)) PROVE row'[s] = row[s]
  BY <1>2 DEF Revoked
<1>3. row' \in [Rows -> Row]
  BY <1>1, <1>2 DEF Revoked
<1> QED BY <1>1, <1>2, <1>3 DEF Quiet, Revocable

\* Rows are appended by logins and rotations only, and all other steps are quiet.
LEMMA RowMoves ==
  ASSUME Typed, [Next]_vars
  PROVE  \/ \E s \in Rows : CreateSession(s)
         \/ \E r \in Requests, s \in Rows : RotateSession(r, s)
         \/ /\ Quiet /\ row' \in [Rows -> Row]
            /\ \A s \in Rows : row'[s].grace => row'[s].state = "ROTATED"
<1> USE DEF Typed, SessionTypeOK
<1> DEFINE Still == /\ Quiet /\ row' \in [Rows -> Row]
                    /\ \A s \in Rows : row'[s].grace => row'[s].state = "ROTATED"
<1>1. ASSUME row' = row PROVE Still
  BY <1>1 DEF Quiet, Revocable
<1>2. ASSUME NEW reach, row' = Revoked(reach) PROVE Still
  BY <1>2, RevocationQuiet
<1>3. ASSUME TimePasses PROVE Still
  <2>1. CASE row' = row
    BY <1>1, <2>1
  <2>2. CASE \E s \in Used :
               \/ row[s].state = "ACTIVE" /\ row' = [row EXCEPT ![s].due = TRUE]
               \/ row[s].grace /\ row' = [row EXCEPT ![s].grace = FALSE]
               \/ row[s].state = "ACTIVE" /\ row' = [row EXCEPT ![s].idle = TRUE]
    <3>1. PICK s \in Rows :
               \/ row[s].state = "ACTIVE" /\ row' = [row EXCEPT ![s].due = TRUE]
               \/ row[s].grace /\ row' = [row EXCEPT ![s].grace = FALSE]
               \/ row[s].state = "ACTIVE" /\ row' = [row EXCEPT ![s].idle = TRUE]
      BY <2>2 DEF Used
    <3>2. PICK new : /\ row' = [row EXCEPT ![s] = new] /\ new \in Row
                     /\ new.state = row[s].state /\ new.logical = row[s].logical /\ new.parent = row[s].parent
                     /\ new.grace => row[s].grace
      <4>1. \A old \in Row :
              /\ LET new == [old EXCEPT !.due = TRUE]
                 IN  /\ new \in Row /\ new.state = old.state /\ new.logical = old.logical
                     /\ new.parent = old.parent /\ new.grace = old.grace
              /\ LET new == [old EXCEPT !.grace = FALSE]
                 IN  /\ new \in Row /\ new.state = old.state /\ new.logical = old.logical
                     /\ new.parent = old.parent /\ ~new.grace
              /\ LET new == [old EXCEPT !.idle = TRUE]
                 IN  /\ new \in Row /\ new.state = old.state /\ new.logical = old.logical
                     /\ new.parent = old.parent /\ new.grace = old.grace
        BY DEF Row
      <4>2. row[s] \in Row
        OBVIOUS
      <4> QED BY <3>1, <4>1, <4>2
    <3>3. row[s].state # "NONE"
      BY <3>1
    <3> QED BY <3>2, <3>3 DEF Quiet, Revocable
  <2> QED BY <1>3, <2>1, <2>2 DEF TimePasses
<1> HIDE DEF Still
<1>4. ASSUME RequestStep PROVE (\E r \in Requests, s \in Rows : RotateSession(r, s)) \/ Still
  <2>1. PICK r \in Requests :
          \/ \E t \in Rows : FindSession(r, t) \/ RotateSession(r, t)
          \/ TouchSession(r) \/ Resolve(r) \/ Answer(r) \/ Logout(r) \/ RevokeSession(r)
          \/ \E p \in Proofs :
               \/ \E c \in Commands : IssueStepUpChallenge(r, p, c) \/ ValidateStepUpProof(r, p, c)
               \/ ExecuteProtected(r, p) \/ ReplayProtected(r, p) \/ ProofSpentMeanwhile(r, p)
    BY <1>4 DEF RequestStep
  <2>2. (\E s \in Rows : RotateSession(r, s)) \/ row' = Revoked(request[r].reach) \/ row' = row
    BY <2>1 DEF FindSession, TouchSession, Resolve, Answer, Logout, RevokeSession, IssueStepUpChallenge,
       ValidateStepUpProof, ExecuteProtected, ReplayProtected, ProofSpentMeanwhile
  <2> QED BY <1>1, <1>2, <2>2
<1>5. ASSUME NEW s \in Rows, NEW kind, BeginRevocation(kind, s) PROVE Still
  BY <1>1, <1>5 DEF BeginRevocation
<1>6. ASSUME RevokeAll PROVE Still
  BY <1>2, <1>6 DEF RevokeAll
<1>7. ASSUME (\E p \in Proofs : VerifyTotp(p)) \/ AccessGranted \/ UNCHANGED vars PROVE Still
  BY <1>1, <1>7 DEF VerifyTotp, AccessGranted, vars
<1>8. (\E s \in Rows : CreateSession(s)) \/ (\E r \in Requests, s \in Rows : RotateSession(r, s)) \/ Still
  BY <1>3, <1>4, <1>5, <1>6, <1>7 DEF Next
<1> QED BY <1>8 DEF Still

\* What a rotation does to the rows.
LEMMA RotationMoves ==
  ASSUME SessionAssumption, Typed, NEW r \in Requests, NEW s \in Rows, RotateSession(r, s)
  PROVE  /\ request[r].tail \in Rows /\ s # request[r].tail
         /\ row[request[r].tail].state = "ACTIVE" /\ ~HasSuccessor(request[r].tail) /\ ~Locked
         /\ row[s].state = "NONE" /\ row' \in [Rows -> Row]
         /\ row'[s].state = "ACTIVE" /\ row'[s].parent = request[r].tail
         /\ row'[s].logical = row[request[r].tail].logical /\ ~row'[s].grace
         /\ row'[request[r].tail].state = "ROTATED"
         /\ row'[request[r].tail].logical = row[request[r].tail].logical
         /\ row'[request[r].tail].parent = row[request[r].tail].parent
         /\ \A u \in Rows \ {s, request[r].tail} : row'[u] = row[u]
<1> USE DEF Typed, SessionTypeOK
<1> DEFINE t == request[r].tail
<1>1. /\ row[t].state = "ACTIVE" /\ ~HasSuccessor(t) /\ ~Locked /\ row[s].state = "NONE"
  BY DEF RotateSession, Rotatable, MayLock
<1>2. t \in Rows
  BY DEF RotateSession, Served, Used
<1>3. s # t
  BY <1>1
<1> DEFINE l == row[t].logical
<1>4. l \in Rows \cup {NoRow} /\ epoch \in Nat
  BY <1>2 DEF Row, SessionAssumption
<1>5. PICK new : new = [NoSession EXCEPT !.state = "ACTIVE", !.logical = l, !.parent = t, !.epoch = epoch]
  OBVIOUS
<1>6. new \in Row /\ new.state = "ACTIVE" /\ new.logical = l /\ new.parent = t /\ ~new.grace
  <2> HIDE DEF l, t
  <2> QED BY <1>2, <1>4, <1>5 DEF NoSession, Row
<1>7. row' = [row EXCEPT ![s] = new, ![t].state = "ROTATED", ![t].grace = TRUE, ![t].due = FALSE]
  BY <1>5 DEF RotateSession
<1> HIDE DEF t
<1>8. /\ row'[s] = new /\ \A u \in Rows \ {s, t} : row'[u] = row[u]
      /\ row'[t] = [row[t] EXCEPT !.state = "ROTATED", !.grace = TRUE, !.due = FALSE]
      /\ row' = [u \in Rows |-> row'[u]]
  BY <1>2, <1>3, <1>7
<1>9. /\ row'[t] \in Row /\ row'[t].state = "ROTATED"
      /\ row'[t].logical = row[t].logical /\ row'[t].parent = row[t].parent
  BY <1>2, <1>8 DEF Row
<1>10. row' \in [Rows -> Row]
  BY <1>6, <1>8, <1>9
<1> QED BY <1>1, <1>2, <1>3, <1>6, <1>8, <1>9, <1>10 DEF t

\* What a login does to the rows.
LEMMA CreationMoves ==
  ASSUME SessionAssumption, Typed, NEW s \in Rows, CreateSession(s)
  PROVE  /\ row[s].state = "NONE" /\ ~Locked /\ row' \in [Rows -> Row]
         /\ row'[s].state = "ACTIVE" /\ row'[s].parent = NoRow /\ row'[s].logical = s /\ ~row'[s].grace
         /\ \A u \in Rows \ {s} : row'[u] = row[u]
<1> USE DEF Typed, SessionTypeOK
<1>1. PICK new : new = [NoSession EXCEPT !.state = "ACTIVE", !.logical = s, !.epoch = epoch]
  OBVIOUS
<1>2. epoch \in Nat
  BY DEF SessionAssumption
<1>3. new \in Row /\ new.state = "ACTIVE" /\ new.logical = s /\ new.parent = NoRow /\ ~new.grace
  BY <1>1, <1>2 DEF NoSession, Row
<1>4. row' = [row EXCEPT ![s] = new]
  BY <1>1 DEF CreateSession
<1>5. row' \in [Rows -> Row] /\ row'[s] = new /\ \A u \in Rows \ {s} : row'[u] = row[u]
  BY <1>3, <1>4
<1>6. row[s].state = "NONE" /\ ~Locked
  BY DEF CreateSession
<1> QED BY <1>3, <1>5, <1>6

\* Rows in use stay in use, and what names them keeps doing so.
LEMMA RowsGrow ==
  ASSUME SessionAssumption, Typed, [Next]_vars
  PROVE  /\ row' \in [Rows -> Row] /\ \A s \in Rows : row'[s].grace => row'[s].state = "ROTATED"
         /\ Used \subseteq Used' /\ RowsTyped'
<1>1. CASE \E s \in Rows : CreateSession(s)
  <2>1. PICK s \in Rows : CreateSession(s)
    BY <1>1
  <2> QED BY <2>1, CreationMoves DEF Used, RowsTyped, Typed, SessionTypeOK
<1>2. CASE \E r \in Requests, s \in Rows : RotateSession(r, s)
  <2>1. PICK r \in Requests, s \in Rows : RotateSession(r, s)
    BY <1>2
  <2> QED BY <2>1, RotationMoves DEF Used, RowsTyped, Typed, SessionTypeOK
<1>3. CASE /\ Quiet /\ row' \in [Rows -> Row]
           /\ \A s \in Rows : row'[s].grace => row'[s].state = "ROTATED"
  BY <1>3 DEF Quiet, Used, RowsTyped, Typed
<1> QED BY <1>1, <1>2, <1>3, RowMoves

\* A step of one request, or of none, leaves every request at one of its rows.
LEMMA RequestMoves ==
  ASSUME SessionAssumption, Typed, [Next]_vars
  PROVE  /\ request' \in [Requests -> Request] /\ Served'
<1>1. Used \subseteq Used'
  BY RowsGrow
<1> DEFINE Moved(r) == \E new \in Request : /\ request' = [request EXCEPT ![r] = new]
                                            /\ new.at # "IDLE" => new.tail \in Used'
<1>2. ASSUME NEW r \in Requests, Moved(r)
      PROVE  request' \in [Requests -> Request] /\ Served'
  BY <1>1, <1>2 DEF Served, Typed, SessionTypeOK
<1>3. ASSUME request' = request PROVE request' \in [Requests -> Request] /\ Served'
  BY <1>1, <1>3 DEF Served, Typed, SessionTypeOK
<1>4. ASSUME NEW r \in Requests,
             \/ \E t \in Rows : FindSession(r, t) \/ RotateSession(r, t)
             \/ TouchSession(r) \/ Resolve(r) \/ Answer(r) \/ Logout(r) \/ RevokeSession(r)
             \/ \E p \in Proofs :
                  \/ \E c \in Commands : IssueStepUpChallenge(r, p, c) \/ ValidateStepUpProof(r, p, c)
                  \/ ExecuteProtected(r, p) \/ ReplayProtected(r, p) \/ ProofSpentMeanwhile(r, p)
      PROVE  request' \in [Requests -> Request] /\ Served'
  <2>0. IdleRequest \in Request /\ IdleRequest.at = "IDLE"
    BY DEF Request, IdleRequest
  <2>1. PICK old \in Request : old = request[r] /\ (old.at # "IDLE" => old.tail \in Used')
    BY <1>1 DEF Served, Typed, SessionTypeOK
  <2>2. ASSUME NEW u \in Rows, FindSession(r, u) PROVE Moved(r)
    <3>1. PICK t \in Rows :
            /\ Leads(u, t)
            /\ request' = [request EXCEPT ![r] = [IdleRequest EXCEPT
                 !.at = "FOUND", !.token = u, !.tail = t,
                 !.rotate = u = t /\ (row[t].due \/ row[t].epoch # epoch)]]
      BY <2>2 DEF FindSession
    <3>2. t \in Used'
      BY <1>1, <3>1 DEF Leads, Chain
    <3>3. PICK b \in BOOLEAN : b = (u = t /\ (row[t].due \/ row[t].epoch # epoch))
      OBVIOUS
    <3> DEFINE new == [IdleRequest EXCEPT !.at = "FOUND", !.token = u, !.tail = t, !.rotate = b]
    <3>4. request' = [request EXCEPT ![r] = new]
      BY <3>1, <3>3
    <3>5. new \in Request /\ new.tail = t
      BY DEF Request, IdleRequest
    <3> HIDE DEF new
    <3> QED BY <3>2, <3>4, <3>5
  <2>3. ASSUME NEW s \in Rows, RotateSession(r, s) PROVE Moved(r)
    <3>1. s \in Used'
      BY <2>3, RotationMoves DEF Used
    <3> DEFINE new == [old EXCEPT !.at = "SERVED", !.tail = s]
    <3>2. request' = [request EXCEPT ![r] = new]
      BY <2>1, <2>3 DEF RotateSession
    <3>3. new \in Request /\ new.tail = s
      BY DEF Request
    <3> HIDE DEF new
    <3> QED BY <3>1, <3>2, <3>3
  <2>4. ASSUME Resolve(r) PROVE Moved(r)
    <3>1. CASE request' = [request EXCEPT ![r] = IdleRequest]
      BY <2>0, <3>1
    <3>2. ASSUME NEW t \in Rows, Leads(request[r].token, t),
                 request' = [request EXCEPT ![r].tail = t, ![r].again = TRUE,
                   ![r].rotate = request[r].token = t /\ (row[t].due \/ row[t].epoch # epoch)]
          PROVE  Moved(r)
      <4>1. PICK b \in BOOLEAN : b = (request[r].token = t /\ (row[t].due \/ row[t].epoch # epoch))
        OBVIOUS
      <4>2. t \in Used'
        BY <1>1, <3>2 DEF Leads, Chain
      <4> DEFINE new == [old EXCEPT !.tail = t, !.again = TRUE, !.rotate = b]
      <4>3. request' = [request EXCEPT ![r] = new]
        BY <2>1, <3>2, <4>1
      <4>4. new \in Request /\ new.tail = t
        BY DEF Request
      <4> HIDE DEF new
      <4> QED BY <4>2, <4>3, <4>4
    <3> QED BY <2>4, <3>1, <3>2 DEF Resolve
  <2>5. ASSUME NEW p \in Proofs, NEW c \in Commands, ValidateStepUpProof(r, p, c) PROVE Moved(r)
    <3> DEFINE new == [old EXCEPT !.at = "PROVED", !.command = c, !.proofs = {p}]
    <3>1. request' = [request EXCEPT ![r] = new] /\ old.at = "SERVED"
      BY <2>1, <2>5 DEF ValidateStepUpProof
    <3>2. new \in Request /\ new.tail = old.tail
      BY DEF Request
    <3> HIDE DEF new
    <3> QED BY <2>1, <3>1, <3>2
  <2>6. ASSUME NEW p \in Proofs, ProofSpentMeanwhile(r, p) PROVE Moved(r)
    <3> DEFINE new == [old EXCEPT !.at = "SERVED", !.command = NoCommand, !.proofs = {}]
    <3>1. request' = [request EXCEPT ![r] = new] /\ old.at = "PROVED"
      BY <2>1, <2>6 DEF ProofSpentMeanwhile
    <3>2. new \in Request /\ new.tail = old.tail
      BY DEF Request
    <3> HIDE DEF new
    <3> QED BY <2>1, <3>1, <3>2
  <2>7. ASSUME TouchSession(r) PROVE Moved(r)
    <3> DEFINE new == [old EXCEPT !.at = "SERVED"]
    <3>1. request' = [request EXCEPT ![r] = new] /\ old.at = "FOUND"
      BY <2>1, <2>7 DEF TouchSession
    <3>2. new \in Request /\ new.tail = old.tail
      BY DEF Request
    <3> HIDE DEF new
    <3> QED BY <2>1, <3>1, <3>2
  <2>8. ASSUME Logout(r) PROVE Moved(r)
    <3> DEFINE new == [old EXCEPT !.at = "LEAVING", !.reach = LogoutReach(r)]
    <3>1. request' = [request EXCEPT ![r] = new] /\ old.at = "SERVED"
      BY <2>1, <2>8 DEF Logout
    <3>2. LogoutReach(r) \in SUBSET Rows
      BY DEF LogoutReach, Chain, Used
    <3>3. new \in Request /\ new.tail = old.tail
      BY <3>2 DEF Request
    <3> HIDE DEF new
    <3> QED BY <2>1, <3>1, <3>3
  <2>9. ASSUME request' = [request EXCEPT ![r] = IdleRequest] PROVE Moved(r)
    BY <2>0, <2>9
  <2>10. Moved(r)
    <3>1. ASSUME \/ Answer(r) \/ RevokeSession(r)
                 \/ \E p \in Proofs : \/ \E c \in Commands : IssueStepUpChallenge(r, p, c)
                                      \/ ExecuteProtected(r, p) \/ ReplayProtected(r, p)
          PROVE  request' = [request EXCEPT ![r] = IdleRequest]
      BY <3>1 DEF Answer, RevokeSession, IssueStepUpChallenge, ExecuteProtected, ReplayProtected
    <3> HIDE DEF Moved
    <3> QED BY <1>4, <2>2, <2>3, <2>4, <2>5, <2>6, <2>7, <2>8, <2>9, <3>1
  <2> HIDE DEF Moved
  <2> QED BY <1>2, <2>10
<1>5. (\E r \in Requests :
         \/ \E t \in Rows : FindSession(r, t) \/ RotateSession(r, t)
         \/ TouchSession(r) \/ Resolve(r) \/ Answer(r) \/ Logout(r) \/ RevokeSession(r)
         \/ \E p \in Proofs :
              \/ \E c \in Commands : IssueStepUpChallenge(r, p, c) \/ ValidateStepUpProof(r, p, c)
              \/ ExecuteProtected(r, p) \/ ReplayProtected(r, p) \/ ProofSpentMeanwhile(r, p))
      \/ request' = request
  <2>1. RequestStep \/ request' = request
    BY DEF Next, CreateSession, BeginRevocation, RevokeAll, VerifyTotp, TimePasses, AccessGranted, vars
  <2> QED BY <2>1 DEF RequestStep
<1> QED BY <1>3, <1>4, <1>5

\* A challenge is asked once, for one command: what follows changes its state only.
Kept ==
  \A p \in Proofs :
    /\ proof[p].state # "NONE" => /\ proof'[p].state \notin {"NONE", "ASKED"} \/ proof'[p].state = proof[p].state
                                  /\ proof'[p].command = proof[p].command
    /\ proof[p].state \in {"CONSUMED", "OVER"} => proof'[p].state \in {"CONSUMED", "OVER"}

LEMMA ProofMoves ==
  ASSUME SessionAssumption, Typed, [Next]_vars
  PROVE  proof' \in [Proofs -> Proof] /\ Kept
<1> USE DEF Typed, SessionTypeOK
<1> DEFINE Right == proof' \in [Proofs -> Proof] /\ Kept
<1>1. ASSUME proof' = proof PROVE Right
  BY <1>1 DEF Kept
<1>2. ASSUME NEW p \in Proofs, NEW new \in Proof, proof' = [proof EXCEPT ![p] = new],
             \/ proof[p].state = "NONE"
             \/ /\ new.command = proof[p].command /\ new.state \in {"PROVED", "CONSUMED", "OVER"}
                /\ new.state = "PROVED" => proof[p].state = "ASKED"
      PROVE  Right
  BY <1>2 DEF Kept
<1>3. ASSUME NEW p \in Proofs, NEW st \in {"PROVED", "CONSUMED", "OVER"}, proof' = [proof EXCEPT ![p].state = st],
             st = "PROVED" => proof[p].state = "ASKED"
      PROVE  Right
  <2>1. PICK old \in Proof : old = proof[p]
    OBVIOUS
  <2>2. PICK new : new = [old EXCEPT !.state = st]
    OBVIOUS
  <2>3. new \in Proof /\ new.state = st /\ new.command = proof[p].command
    BY <2>1, <2>2 DEF Proof
  <2>4. proof' = [proof EXCEPT ![p] = new]
    BY <1>3, <2>1, <2>2
  <2> HIDE DEF Right
  <2> QED BY <1>2, <1>3, <2>3, <2>4
<1>4. ASSUME NEW r \in Requests, NEW p \in Proofs, NEW c \in Commands, IssueStepUpChallenge(r, p, c) PROVE Right
  <2>1. PICK new : new = [state |-> "ASKED", session |-> request[r].tail, command |-> c]
    OBVIOUS
  <2>2. request[r].tail \in Rows
    BY <1>4 DEF IssueStepUpChallenge, Served, Used
  <2>3. new \in Proof
    BY <2>1, <2>2 DEF Proof
  <2>4. proof' = [proof EXCEPT ![p] = new] /\ proof[p].state = "NONE"
    BY <1>4, <2>1 DEF IssueStepUpChallenge
  <2> HIDE DEF Right
  <2> QED BY <1>2, <2>3, <2>4
<1>5. ASSUME proof' = ProofsEnded PROVE Right
  <2>1. \A p \in Proofs : p \in Given => proof'[p] = [proof[p] EXCEPT !.state = "CONSUMED"]
    BY <1>5 DEF ProofsEnded
  <2>2. \A p \in Proofs : p \notin Given => proof'[p] = NoProof
    BY <1>5 DEF ProofsEnded
  <2>3. \A p \in Proofs : p \in Given => /\ proof'[p] \in Proof /\ proof'[p].state = "CONSUMED"
                                         /\ proof'[p].command = proof[p].command
    <3> SUFFICES ASSUME NEW p \in Proofs, p \in Given
                 PROVE  /\ proof'[p] \in Proof /\ proof'[p].state = "CONSUMED"
                        /\ proof'[p].command = proof[p].command
      OBVIOUS
    <3>1. PICK old \in Proof : old = proof[p]
      OBVIOUS
    <3>2. proof'[p] = [old EXCEPT !.state = "CONSUMED"]
      BY <2>1, <3>1
    <3>3. PICK new : new = [old EXCEPT !.state = "CONSUMED"]
      OBVIOUS
    <3>4. new \in Proof /\ new.state = "CONSUMED" /\ new.command = old.command
      BY <3>3 DEF Proof
    <3> QED BY <3>1, <3>2, <3>3, <3>4
  <2>4. \A p \in Proofs : p \notin Given => proof'[p] \in Proof /\ proof[p].state = "NONE"
    BY <2>2 DEF Given, Proof, NoProof
  <2>5. proof' = [p \in Proofs |-> proof'[p]]
    BY <1>5 DEF ProofsEnded
  <2>6. proof' \in [Proofs -> Proof]
    BY <2>3, <2>4, <2>5
  <2> QED BY <2>3, <2>4, <2>6 DEF Kept
<1> HIDE DEF Right
<1>6. ASSUME NEW p \in Proofs, VerifyTotp(p) PROVE Right
  BY <1>3, <1>6 DEF VerifyTotp
<1>7. ASSUME NEW r \in Requests, NEW p \in Proofs, ExecuteProtected(r, p) \/ ReplayProtected(r, p) PROVE Right
  BY <1>1, <1>3, <1>7 DEF ExecuteProtected, ReplayProtected
<1>8. ASSUME TimePasses PROVE Right
  <2>1. proof' = proof \/ \E p \in Given : proof' = [proof EXCEPT ![p].state = "OVER"]
    BY <1>8 DEF TimePasses
  <2> QED BY <1>1, <1>3, <2>1 DEF Given
<1>9. ASSUME RevokeAll PROVE Right
  BY <1>1, <1>5, <1>9 DEF RevokeAll
<1>10. ASSUME RequestStep PROVE Right
  <2>1. PICK r \in Requests :
          \/ \E t \in Rows : FindSession(r, t) \/ RotateSession(r, t)
          \/ TouchSession(r) \/ Resolve(r) \/ Answer(r) \/ Logout(r) \/ RevokeSession(r)
          \/ \E p \in Proofs :
               \/ \E c \in Commands : IssueStepUpChallenge(r, p, c) \/ ValidateStepUpProof(r, p, c)
               \/ ExecuteProtected(r, p) \/ ReplayProtected(r, p) \/ ProofSpentMeanwhile(r, p)
    BY <1>10 DEF RequestStep
  <2>2. \/ \E p \in Proofs : \/ \E c \in Commands : IssueStepUpChallenge(r, p, c)
                             \/ ExecuteProtected(r, p) \/ ReplayProtected(r, p)
        \/ proof' = proof
    BY <2>1 DEF FindSession, RotateSession, TouchSession, Resolve, Answer, Logout, RevokeSession,
       ValidateStepUpProof, ProofSpentMeanwhile
  <2> QED BY <1>1, <1>4, <1>7, <2>2
<1>11. RequestStep \/ (\E p \in Proofs : VerifyTotp(p)) \/ TimePasses \/ RevokeAll \/ proof' = proof
  BY DEF Next, CreateSession, BeginRevocation, AccessGranted, vars
<1> QED BY <1>1, <1>6, <1>8, <1>9, <1>10, <1>11 DEF Right

LEMMA TypedStart == ASSUME SessionAssumption, Init PROVE Typed
<1> USE DEF Init
<1>1. NoSession \in Row /\ NoSession.state = "NONE" /\ ~NoSession.grace
  BY DEF NoSession, Row
<1>2. IdleRequest \in Request /\ IdleRequest.at = "IDLE"
  BY DEF IdleRequest, Request
<1>3. NoProof \in Proof
  BY DEF NoProof, Proof
<1>4. SweepTyped
  BY DEF SweepTyped, NoSweep
<1>5. SessionTypeOK
  BY <1>1, <1>2, <1>3 DEF SessionTypeOK, SessionAssumption
<1> QED BY <1>1, <1>2, <1>4, <1>5 DEF Typed, RowsTyped, Served, Used

\* A request's step leaves what the account's commands keep.
LEMMA RequestStepKeeps == ASSUME RequestStep PROVE UNCHANGED <<out, epoch, sweep, ended, void>>
<1>1. PICK r \in Requests :
        \/ \E t \in Rows : FindSession(r, t) \/ RotateSession(r, t)
        \/ TouchSession(r) \/ Resolve(r) \/ Answer(r) \/ Logout(r) \/ RevokeSession(r)
        \/ \E p \in Proofs :
             \/ \E c \in Commands : IssueStepUpChallenge(r, p, c) \/ ValidateStepUpProof(r, p, c)
             \/ ExecuteProtected(r, p) \/ ReplayProtected(r, p) \/ ProofSpentMeanwhile(r, p)
  BY DEF RequestStep
<1> QED BY <1>1 DEF FindSession, RotateSession, TouchSession, Resolve, Answer, Logout, RevokeSession,
    IssueStepUpChallenge, ValidateStepUpProof, ExecuteProtected, ReplayProtected, ProofSpentMeanwhile

\* What only the account's commands, or the clock, change.
LEMMA AccountMoves ==
  ASSUME [Next]_vars
  PROVE  /\ RevokeAll \/ sweep' = sweep \/ \E kind \in Kinds, l \in Rows : BeginRevocation(kind, l)
         /\ out' = out \/ \E l \in Used : out' = out \cup {l}
         /\ RevokeAll \/ UNCHANGED <<ended, void>>
         /\ epoch' = epoch \/ (epoch < MaxEpoch /\ epoch' = epoch + 1)
<1>1. CASE RequestStep
  BY <1>1, RequestStepKeeps
<1>2. CASE \E s \in Rows : CreateSession(s) \/ \E kind \in Kinds : BeginRevocation(kind, s)
  BY <1>2 DEF CreateSession, BeginRevocation
<1>3. CASE RevokeAll
  BY <1>3 DEF RevokeAll
<1>4. CASE TimePasses
  BY <1>4 DEF TimePasses
<1>5. CASE (\E p \in Proofs : VerifyTotp(p)) \/ AccessGranted \/ UNCHANGED vars
  BY <1>5 DEF VerifyTotp, AccessGranted, vars
<1> QED BY <1>1, <1>2, <1>3, <1>4, <1>5 DEF Next

\* The type invariant is inductive.
LEMMA TypedStep == ASSUME SessionAssumption, Typed, [Next]_vars PROVE Typed'
<1>1. row' \in [Rows -> Row] /\ (\A s \in Rows : row'[s].grace => row'[s].state = "ROTATED") /\ RowsTyped'
  BY RowsGrow
<1>2. Used \subseteq Used'
  BY RowsGrow
<1>3. request' \in [Requests -> Request] /\ Served'
  BY RequestMoves
<1>4. proof' \in [Proofs -> Proof]
  BY ProofMoves
<1>5. \/ sweep' = sweep
      \/ sweep' = NoSweep
      \/ \E kind \in Kinds : \E l : sweep' = [kind |-> kind, reach |-> SweepReach(kind, l)]
  BY AccountMoves DEF BeginRevocation, RevokeAll
<1>6. SweepTyped'
  <2>1. CASE sweep' = sweep
    BY <1>2, <2>1 DEF SweepTyped, Typed, Locked
  <2>2. CASE sweep' = NoSweep
    BY <2>2 DEF SweepTyped, NoSweep
  <2>3. CASE \E kind \in Kinds : \E l : sweep' = [kind |-> kind, reach |-> SweepReach(kind, l)]
    BY <1>2, <2>3 DEF SweepTyped, SweepReach, Locked, Kinds
  <2> QED BY <1>5, <2>1, <2>2, <2>3
<1>7. out' \subseteq Rows
  <2>1. out' = out \/ \E l \in Used : out' = out \cup {l}
    BY AccountMoves
  <2> QED BY <2>1 DEF Used, Typed, SessionTypeOK
<1>8. ended' \subseteq Rows
  <2>1. ended' = ended \/ ended' = ended \cup {row[s].logical : s \in sweep.reach}
    BY AccountMoves DEF RevokeAll
  <2>2. \A s \in sweep.reach : row[s].logical \in Rows
    BY DEF Typed, SweepTyped, RowsTyped, Used
  <2> QED BY <2>1, <2>2 DEF Typed, SessionTypeOK
<1>9. epoch' \in 0..MaxEpoch
  <2>1. epoch' = epoch \/ (epoch < MaxEpoch /\ epoch' = epoch + 1)
    BY AccountMoves
  <2> QED BY <2>1 DEF Typed, SessionTypeOK, SessionAssumption
<1> QED BY <1>1, <1>3, <1>4, <1>6, <1>7, <1>8, <1>9 DEF Typed, SessionTypeOK

-------------------------------------------------------------------------------
(* One chain, one tail.                                                    *)

\* A rotated row and its successor are rows of one session.
Linked ==
  \A s \in Used : row[s].parent # NoRow => row[s].parent \in Used /\ row[row[s].parent].logical = row[s].logical

\* A session has one row without a successor, and only that one is active.
OneEnd ==
  \A s, t \in Used : row[s].logical = row[t].logical /\ ~HasSuccessor(s) /\ ~HasSuccessor(t) => s = t
SomeEnd == \A s \in Used : \E t \in Chain(row[s].logical) : ~HasSuccessor(t)
ActiveIsEnd == \A s \in Used : row[s].state = "ACTIVE" => ~HasSuccessor(s)

Chained == Linked /\ OneEnd /\ SomeEnd /\ ActiveIsEnd

LEMMA ChainedStep == ASSUME SessionAssumption, Typed, Chained, [Next]_vars PROVE Chained'
<1>1. CASE \E s \in Rows : CreateSession(s)
  <2>1. PICK s \in Rows : CreateSession(s)
    BY <1>1
  <2>2. /\ row[s].state = "NONE" /\ row'[s].state = "ACTIVE" /\ row'[s].parent = NoRow /\ row'[s].logical = s
        /\ \A u \in Rows \ {s} : row'[u] = row[u]
    BY <2>1, CreationMoves
  <2>3. s \notin Used /\ Used' = Used \cup {s}
    BY <2>2 DEF Used
  <2>4. NoRow \notin Rows /\ Used \subseteq Rows
    BY DEF SessionAssumption, Used
  <2>5. \A u \in Used : HasSuccessor(u)' <=> HasSuccessor(u)
    BY <2>2, <2>3, <2>4 DEF HasSuccessor
  <2>6. ~HasSuccessor(s)'
    BY <2>2, <2>3, <2>4 DEF HasSuccessor, Chained, Linked
  <2>7. \A u \in Used : row[u].logical # s
    BY <2>3 DEF Typed, RowsTyped
  <2>8. Linked' /\ OneEnd' /\ ActiveIsEnd'
    BY <2>2, <2>3, <2>4, <2>5, <2>6, <2>7 DEF Chained, Linked, OneEnd, ActiveIsEnd
  <2>9. SomeEnd'
    BY <2>2, <2>3, <2>4, <2>5, <2>6 DEF Chained, SomeEnd, Chain
  <2> QED BY <2>8, <2>9 DEF Chained
<1>2. CASE \E r \in Requests, s \in Rows : RotateSession(r, s)
  <2>1. PICK r \in Requests, s \in Rows : RotateSession(r, s)
    BY <1>2
  <2>2. PICK t \in Rows :
          /\ s # t /\ row[t].state = "ACTIVE" /\ ~HasSuccessor(t) /\ row[s].state = "NONE"
          /\ row'[s].state = "ACTIVE" /\ row'[s].parent = t /\ row'[s].logical = row[t].logical
          /\ row'[t].state = "ROTATED" /\ row'[t].logical = row[t].logical /\ row'[t].parent = row[t].parent
          /\ \A u \in Rows \ {s, t} : row'[u] = row[u]
    BY <2>1, RotationMoves
  <2>3. s \notin Used /\ t \in Used /\ Used' = Used \cup {s}
    BY <2>2 DEF Used
  <2>4. \A u \in Used : row'[u].logical = row[u].logical /\ row'[u].parent = row[u].parent
    BY <2>2, <2>3 DEF Used
  <2>5. \A u \in Used : HasSuccessor(u)' <=> (HasSuccessor(u) \/ u = t)
    BY <2>2, <2>3, <2>4 DEF HasSuccessor
  <2>6. NoRow \notin Rows /\ Used \subseteq Rows
    BY DEF SessionAssumption, Used
  <2>7. ~HasSuccessor(s)'
    BY <2>2, <2>3, <2>4, <2>6 DEF HasSuccessor, Chained, Linked
  <2>8. Linked'
    BY <2>2, <2>3, <2>4 DEF Chained, Linked
  <2>9. OneEnd'
    BY <2>2, <2>3, <2>4, <2>5, <2>7 DEF Chained, OneEnd
  <2>10. ActiveIsEnd'
    BY <2>2, <2>3, <2>5, <2>6, <2>7 DEF Chained, ActiveIsEnd
  <2>11. SomeEnd'
    <3> SUFFICES ASSUME NEW u \in Used' PROVE \E e \in Used' : row'[e].logical = row'[u].logical /\ ~HasSuccessor(e)'
      BY DEF SomeEnd, Chain
    <3>1. CASE row'[u].logical = row[t].logical
      BY <2>2, <2>3, <2>7, <3>1
    <3>2. CASE row'[u].logical # row[t].logical
      <4>1. u \in Used
        BY <2>2, <2>3, <3>2
      <4>2. PICK e \in Used : row[e].logical = row[u].logical /\ ~HasSuccessor(e)
        BY <4>1 DEF Chained, SomeEnd, Chain
      <4> QED BY <2>3, <2>4, <2>5, <3>2, <4>1, <4>2
    <3> QED BY <3>1, <3>2
  <2> QED BY <2>8, <2>9, <2>10, <2>11 DEF Chained
<1>3. CASE Quiet
  <2>1. Used' = Used
    BY <1>3 DEF Quiet, Used
  <2>2. \A u \in Used : /\ row'[u].logical = row[u].logical /\ row'[u].parent = row[u].parent
                        /\ row'[u].state = "ACTIVE" => row[u].state = "ACTIVE"
    BY <1>3 DEF Quiet, Used
  <2>3. \A u : HasSuccessor(u)' <=> HasSuccessor(u)
    BY <2>1, <2>2 DEF HasSuccessor
  <2>4. Linked' /\ OneEnd' /\ ActiveIsEnd'
    BY <2>1, <2>2, <2>3 DEF Chained, Linked, OneEnd, ActiveIsEnd
  <2>5. SomeEnd'
    BY <2>1, <2>2, <2>3 DEF Chained, SomeEnd, Chain
  <2> QED BY <2>4, <2>5 DEF Chained
<1> QED BY <1>1, <1>2, <1>3, RowMoves

\* A chain with one end has one tail.
LEMMA ChainedTails == ASSUME Chained PROVE OneTail
<1> SUFFICES ASSUME NEW s \in Used
             PROVE  /\ Cardinality({t \in Chain(row[s].logical) : ~HasSuccessor(t)}) = 1
                    /\ \A t \in Chain(row[s].logical) : row[t].state = "ACTIVE" => ~HasSuccessor(t)
  BY DEF OneTail
<1>1. PICK e \in Chain(row[s].logical) : ~HasSuccessor(e)
  BY DEF Chained, SomeEnd
<1>2. {t \in Chain(row[s].logical) : ~HasSuccessor(t)} = {e}
  BY <1>1 DEF Chained, OneEnd, Chain
<1>3. Cardinality({e}) = 1
  BY FS_Singleton
<1> QED BY <1>2, <1>3 DEF Chained, ActiveIsEnd, Chain

-------------------------------------------------------------------------------
(* Revocations.                                                            *)

\* A revocation under way reaches every row of the sessions it ends, and what
\* was ended has no active row.
SweepClosed ==
  \A s \in sweep.reach, t \in Used : Revocable(t) /\ row[t].logical = row[s].logical => t \in sweep.reach
EndedIsOver == \A l \in ended : l \in Used /\ \A s \in Chain(l) : row[s].state # "ACTIVE"

Swept == SweepClosed /\ EndedIsOver

\* No row is appended while the account is locked.
LEMMA LockedIsQuiet == ASSUME SessionAssumption, Typed, [Next]_vars, Locked PROVE Quiet
BY RowMoves, RotationMoves, CreationMoves

\* A session without an active row gets none by a step that appends no row of it.
LEMMA OverStays ==
  ASSUME SessionAssumption, Typed, [Next]_vars, NEW l \in Used, \A s \in Chain(l) : row[s].state # "ACTIVE"
  PROVE  l \in Used' /\ \A s \in Chain(l)' : row'[s].state # "ACTIVE"
<1>1. CASE \E s \in Rows : CreateSession(s)
  <2>1. PICK s \in Rows : CreateSession(s)
    BY <1>1
  <2> QED BY <2>1, CreationMoves, RowsGrow DEF Chain, Used
<1>2. CASE \E r \in Requests, s \in Rows : RotateSession(r, s)
  <2>1. PICK r \in Requests, s \in Rows : RotateSession(r, s)
    BY <1>2
  <2> QED BY <2>1, RotationMoves, RowsGrow DEF Chain, Used
<1>3. CASE Quiet
  BY <1>3, RowsGrow DEF Quiet, Chain, Used
<1> QED BY <1>1, <1>2, <1>3, RowMoves

LEMMA SweptStep == ASSUME SessionAssumption, Typed, Swept, [Next]_vars PROVE Swept'
<1>1. CASE RevokeAll
  <2>1. /\ Quiet /\ \A s \in Rows : s \in sweep.reach => ~Revocable(s)'
    BY <1>1, RevocationQuiet DEF RevokeAll
  <2>2. SweepClosed'
    BY <1>1 DEF RevokeAll, SweepClosed, NoSweep
  <2>3. ASSUME NEW l \in ended' PROVE l \in Used' /\ \A s \in Chain(l)' : row'[s].state # "ACTIVE"
    <3>1. CASE l \in ended
      BY <3>1, OverStays DEF Swept, EndedIsOver
    <3>2. CASE \E u \in sweep.reach : l = row[u].logical
      <4>1. PICK u \in sweep.reach : l = row[u].logical
        BY <3>2
      <4>2. u \in Used /\ l \in Used
        BY <4>1 DEF Typed, SweepTyped, RowsTyped
      <4>3. ASSUME NEW s \in Chain(l)', row'[s].state = "ACTIVE" PROVE FALSE
        <5>1. s \in Rows /\ Revocable(s)' /\ row'[s].logical = l
          BY <4>3 DEF Chain, Used, Revocable
        <5>2. s \in Used /\ row[s].logical = l /\ Revocable(s)
          BY <2>1, <5>1 DEF Quiet, Chain, Used, Revocable
        <5>3. s \in sweep.reach
          BY <4>1, <5>2 DEF Swept, SweepClosed
        <5> QED BY <2>1, <5>1, <5>3
      <4> QED BY <4>2, <4>3, RowsGrow
    <3> QED BY <1>1, <3>1, <3>2 DEF RevokeAll
  <2> QED BY <2>2, <2>3 DEF Swept, EndedIsOver
<1>2. CASE ~RevokeAll
  <2>1. EndedIsOver'
    BY <1>2, AccountMoves, OverStays DEF Swept, EndedIsOver
  <2>2. CASE \E kind \in Kinds, l \in Rows : BeginRevocation(kind, l)
    <3>1. PICK kind \in Kinds, l \in Rows : BeginRevocation(kind, l)
      BY <2>2
    <3>2. sweep'.reach = SweepReach(kind, l) /\ row' = row /\ out' = out
      BY <3>1 DEF BeginRevocation
    <3>3. \A s, t \in Used : row[s].logical = row[t].logical => (Usable(row[s].logical) <=> Usable(row[t].logical))
      OBVIOUS
    <3>4. \A s \in SweepReach(kind, l), t \in Used :
            Revocable(t) /\ row[t].logical = row[s].logical => t \in SweepReach(kind, l)
      BY <3>3 DEF SweepReach
    <3>5. Used' = Used /\ \A t \in Rows : Revocable(t)' <=> Revocable(t)
      BY <3>2 DEF Used, Revocable
    <3>6. SweepClosed'
      BY <3>2, <3>4, <3>5 DEF SweepClosed, Used
    <3> QED BY <2>1, <3>6 DEF Swept
  <2>3. CASE sweep' = sweep
    <3>1. CASE Locked
      <4>1. Quiet
        BY <3>1, LockedIsQuiet
      <4>2. Used' = Used
        BY <4>1 DEF Quiet, Used
      <4>3. SweepClosed'
        BY <2>3, <4>1, <4>2 DEF Swept, SweepClosed, Quiet, Used, Typed, SweepTyped
      <4> QED BY <2>1, <4>3 DEF Swept
    <3>2. CASE ~Locked
      BY <2>1, <2>3, <3>2 DEF Swept, SweepClosed, Typed, SweepTyped
    <3> QED BY <3>1, <3>2
  <2> QED BY <1>2, <2>2, <2>3, AccountMoves
<1> QED BY <1>1, <1>2

LEMMA SweptHolds == ASSUME EndedIsOver PROVE RevocationHolds
BY DEF EndedIsOver, RevocationHolds, Usables, Leads, LiveTail

-------------------------------------------------------------------------------
(* Logouts.                                                                *)

LeftTyped == left \in [out: SUBSET Rows, rotated: SUBSET Rows]

\* A logout that waits will reach all that can be used of its session, unless it
\* was rotated meanwhile; one that is over left no active row.
LeavingReaches ==
  \A r \in Requests : request[r].at = "LEAVING" =>
    \/ row[request[r].tail].logical \in left.rotated
    \/ \A s \in Chain(row[request[r].tail].logical) : Revocable(s) => s \in request[r].reach
LeftIsOver == \A l \in left.out \ left.rotated : l \in Used /\ \A s \in Chain(l) : row[s].state # "ACTIVE"

LoggedOut == LeftTyped /\ LeavingReaches /\ LeftIsOver

\* A request waits to end its session from its own step to its own step.
LEMMA LeavingMoves ==
  ASSUME SessionAssumption, Typed, [Next]_vars
  PROVE  /\ \A r \in Requests : request'[r].at = "LEAVING" => request'[r] = request[r] \/ Logout(r)
         /\ \/ left' = left
            \/ \E r \in Requests : RevokeSession(r)
            \/ \E r \in Requests, s \in Rows : RotateSession(r, s)
<1> USE DEF Typed, SessionTypeOK
<1>1. CASE request' = request /\ left' = left
  BY <1>1
<1>2. CASE RequestStep
  <2>1. PICK r \in Requests :
          \/ \E t \in Rows : FindSession(r, t) \/ RotateSession(r, t)
          \/ TouchSession(r) \/ Resolve(r) \/ Answer(r) \/ Logout(r) \/ RevokeSession(r)
          \/ \E p \in Proofs :
               \/ \E c \in Commands : IssueStepUpChallenge(r, p, c) \/ ValidateStepUpProof(r, p, c)
               \/ ExecuteProtected(r, p) \/ ReplayProtected(r, p) \/ ProofSpentMeanwhile(r, p)
    BY <1>2 DEF RequestStep
  <2>2. PICK old \in Request : old = request[r]
    OBVIOUS
  <2>3. \A u \in Requests \ {r} : request'[u] = request[u]
    BY <2>1 DEF FindSession, RotateSession, TouchSession, Resolve, Answer, Logout, RevokeSession,
       IssueStepUpChallenge, ValidateStepUpProof, ExecuteProtected, ReplayProtected, ProofSpentMeanwhile
  <2>4. request'[r].at = "LEAVING" => Logout(r)
    <3>1. ASSUME NEW u \in Rows, FindSession(r, u) PROVE request'[r].at # "LEAVING"
      BY <3>1 DEF FindSession, IdleRequest
    <3>2. ASSUME NEW u \in Rows, RotateSession(r, u) PROVE request'[r].at # "LEAVING"
      BY <2>2, <3>2 DEF RotateSession, Request
    <3>3. ASSUME Resolve(r) PROVE request'[r].at # "LEAVING"
      <4>1. request[r].at = "FOUND"
        BY <3>3 DEF Resolve
      <4>2. CASE request' = [request EXCEPT ![r] = IdleRequest]
        BY <4>2 DEF IdleRequest
      <4>3. CASE request' # [request EXCEPT ![r] = IdleRequest]
        <5>1. PICK t \in Rows, b \in BOOLEAN : request' = [request EXCEPT ![r].tail = t, ![r].again = TRUE, ![r].rotate = b]
          BY <3>3, <4>3 DEF Resolve
        <5>2. request'[r] = [old EXCEPT !.tail = t, !.again = TRUE, !.rotate = b]
          BY <2>2, <5>1
        <5> QED BY <2>2, <4>1, <5>2 DEF Request
      <4> QED BY <4>2, <4>3
    <3>4. ASSUME TouchSession(r) \/ \E p \in Proofs : \/ \E c \in Commands : ValidateStepUpProof(r, p, c)
                                                      \/ ProofSpentMeanwhile(r, p)
          PROVE  request'[r].at # "LEAVING"
      <4>1. CASE TouchSession(r)
        BY <2>2, <4>1 DEF TouchSession, Request
      <4>2. ASSUME NEW p \in Proofs, NEW c \in Commands, ValidateStepUpProof(r, p, c)
            PROVE  request'[r].at # "LEAVING"
        <5>1. request'[r] = [old EXCEPT !.at = "PROVED", !.command = c, !.proofs = {p}]
          BY <2>2, <4>2 DEF ValidateStepUpProof
        <5> QED BY <2>2, <5>1 DEF Request
      <4>3. ASSUME NEW p \in Proofs, ProofSpentMeanwhile(r, p) PROVE request'[r].at # "LEAVING"
        <5>1. request'[r] = [old EXCEPT !.at = "SERVED", !.command = NoCommand, !.proofs = {}]
          BY <2>2, <4>3 DEF ProofSpentMeanwhile
        <5> QED BY <2>2, <5>1 DEF Request
      <4> QED BY <3>4, <4>1, <4>2, <4>3
    <3>5. ASSUME \/ Answer(r) \/ RevokeSession(r)
                 \/ \E p \in Proofs : \/ \E c \in Commands : IssueStepUpChallenge(r, p, c)
                                      \/ ExecuteProtected(r, p) \/ ReplayProtected(r, p)
          PROVE  request'[r].at # "LEAVING"
      BY <3>5 DEF Answer, RevokeSession, IssueStepUpChallenge, ExecuteProtected, ReplayProtected, IdleRequest
    <3> QED BY <2>1, <3>1, <3>2, <3>3, <3>4, <3>5
  <2>5. \/ left' = left \/ RevokeSession(r) \/ \E s \in Rows : RotateSession(r, s)
    BY <2>1 DEF FindSession, TouchSession, Resolve, Answer, Logout,
       IssueStepUpChallenge, ValidateStepUpProof, ExecuteProtected, ReplayProtected, ProofSpentMeanwhile
  <2> QED BY <2>3, <2>4, <2>5
<1>3. CASE TimePasses
  BY <1>1, <1>3 DEF TimePasses
<1>4. CASE RevokeAll
  BY <1>1, <1>4 DEF RevokeAll
<1>5. CASE \E s \in Rows : CreateSession(s) \/ \E kind \in Kinds : BeginRevocation(kind, s)
  BY <1>1, <1>5 DEF CreateSession, BeginRevocation
<1>6. CASE (\E p \in Proofs : VerifyTotp(p)) \/ AccessGranted \/ UNCHANGED vars
  BY <1>1, <1>6 DEF VerifyTotp, AccessGranted, vars
<1> QED BY <1>2, <1>3, <1>4, <1>5, <1>6 DEF Next

LEMMA LoggedOutStep == ASSUME SessionAssumption, Typed, LoggedOut, [Next]_vars PROVE LoggedOut'
<1>1. LeftTyped' /\ left.rotated \subseteq left'.rotated
  <2>1. CASE left' = left
    BY <2>1 DEF LoggedOut, LeftTyped
  <2>2. CASE \E r \in Requests : RevokeSession(r)
    <3>1. PICK r \in Requests : RevokeSession(r)
      BY <2>2
    <3>2. PICK l : l = row[request[r].tail].logical
      OBVIOUS
    <3>3. l \in Rows
      BY <3>1, <3>2 DEF RevokeSession, Typed, Served, RowsTyped, Used
    <3>4. left' = [left EXCEPT !.out = @ \cup {l}]
      BY <3>1, <3>2 DEF RevokeSession
    <3> QED BY <3>3, <3>4 DEF LoggedOut, LeftTyped
  <2>3. CASE \E r \in Requests, s \in Rows : RotateSession(r, s)
    <3>1. PICK r \in Requests, s \in Rows : RotateSession(r, s)
      BY <2>3
    <3>2. PICK l : l = row[request[r].tail].logical
      OBVIOUS
    <3>3. l \in Rows
      BY <3>1, <3>2 DEF RotateSession, Typed, Served, RowsTyped, Used
    <3>4. left' = left \/ left' = [left EXCEPT !.rotated = @ \cup {l}]
      BY <3>1, <3>2 DEF RotateSession
    <3> QED BY <3>3, <3>4 DEF LoggedOut, LeftTyped
  <2> QED BY <2>1, <2>2, <2>3, LeavingMoves
<1>2. ASSUME NEW r \in Requests, request'[r].at = "LEAVING"
      PROVE  \/ row'[request'[r].tail].logical \in left'.rotated
             \/ \A s \in Chain(row[request[r].tail].logical)' : Revocable(s)' => s \in request'[r].reach
  <2>1. CASE Logout(r)
    <3>1. PICK old \in Request : old = request[r]
      BY DEF Typed, SessionTypeOK
    <3>2. request'[r] = [old EXCEPT !.at = "LEAVING", !.reach = LogoutReach(r)] /\ row' = row
      BY <2>1, <3>1 DEF Logout, Typed, SessionTypeOK
    <3>3. request'[r].tail = request[r].tail /\ request'[r].reach = LogoutReach(r)
      BY <3>1, <3>2 DEF Request
    <3> QED BY <3>2, <3>3 DEF LogoutReach, Chain, Used, Revocable
  <2>2. CASE request'[r] = request[r]
    <3>1. PICK l : l = row[request[r].tail].logical
      OBVIOUS
    <3>2. request[r].tail \in Used /\ l \in Used /\ request[r].at = "LEAVING"
      BY <1>2, <2>2, <3>1 DEF Typed, Served, RowsTyped
    <3>3. l \in left.rotated \/ \A s \in Chain(l) : Revocable(s) => s \in request[r].reach
      BY <3>1, <3>2 DEF LoggedOut, LeavingReaches
    <3>4. ASSUME NEW s \in Rows, CreateSession(s)
          PROVE  row'[request[r].tail].logical = l /\ \A u \in Chain(l)' : u \in Chain(l) /\ (Revocable(u)' => Revocable(u))
      BY <3>1, <3>2, <3>4, CreationMoves DEF Chain, Used, Revocable
    <3>5. ASSUME NEW q \in Requests, NEW s \in Rows, RotateSession(q, s)
          PROVE  /\ row'[request[r].tail].logical = l
                 /\ \/ l \in left'.rotated
                    \/ \A u \in Chain(l)' : u \in Chain(l) /\ (Revocable(u)' => Revocable(u))
      <4>1. row'[request[r].tail].logical = l
        BY <3>1, <3>2, <3>5, RotationMoves DEF Used
      <4>2. CASE row[request[q].tail].logical = l
        <5>1. Pending(l)
          BY <3>1, <3>2 DEF Pending
        <5>2. left' = [left EXCEPT !.rotated = @ \cup {l}]
          BY <3>5, <4>2, <5>1 DEF RotateSession
        <5> QED BY <4>1, <5>2 DEF LoggedOut, LeftTyped
      <4>3. CASE row[request[q].tail].logical # l
        BY <3>5, <4>1, <4>3, RotationMoves DEF Chain, Used, Revocable
      <4> QED BY <4>2, <4>3
    <3>6. CASE Quiet
      BY <2>2, <3>1, <3>2, <3>3, <3>6, <1>1 DEF Quiet, Chain, Used
    <3>7. CASE \E s \in Rows : CreateSession(s)
      BY <2>2, <3>1, <3>3, <3>4, <3>7, <1>1
    <3>8. CASE \E q \in Requests, s \in Rows : RotateSession(q, s)
      BY <2>2, <3>1, <3>3, <3>5, <3>8, <1>1
    <3> QED BY <3>6, <3>7, <3>8, RowMoves
  <2> QED BY <1>2, <2>1, <2>2, LeavingMoves
<1>3. LeavingReaches'
  <2>1. ASSUME NEW r \in Requests, request'[r].at = "LEAVING"
        PROVE  row'[request'[r].tail].logical = row[request[r].tail].logical
    <3>1. row'[request[r].tail].logical = row[request[r].tail].logical /\ request'[r].tail = request[r].tail
      <4>1. request[r].at # "IDLE"
        BY <2>1, LeavingMoves DEF Logout
      <4>2. request[r].tail \in Used
        BY <4>1 DEF Typed, Served
      <4>3. request'[r].tail = request[r].tail
        <5>1. CASE Logout(r)
          <6>1. PICK old \in Request : old = request[r]
            BY DEF Typed, SessionTypeOK
          <6>2. request'[r] = [old EXCEPT !.at = "LEAVING", !.reach = LogoutReach(r)]
            BY <5>1, <6>1 DEF Logout, Typed, SessionTypeOK
          <6> QED BY <6>1, <6>2 DEF Request
        <5> QED BY <2>1, <5>1, LeavingMoves
      <4>4. \A u \in Used : row'[u].logical = row[u].logical
        BY RowMoves, CreationMoves, RotationMoves DEF Used, Quiet
      <4> QED BY <4>2, <4>3, <4>4
    <3> QED BY <3>1
  <2> QED BY <1>2, <2>1 DEF LeavingReaches
<1>4. LeftIsOver'
  <2> SUFFICES ASSUME NEW l \in left'.out \ left'.rotated
               PROVE  l \in Used' /\ \A s \in Chain(l)' : row'[s].state # "ACTIVE"
    BY DEF LeftIsOver
  <2>1. CASE l \in left.out
    BY <1>1, <2>1, OverStays DEF LoggedOut, LeftIsOver
  <2>2. CASE l \notin left.out
    <3>1. PICK r \in Requests : RevokeSession(r) /\ l = row[request[r].tail].logical
      <4>1. CASE left' = left
        BY <2>2, <4>1
      <4>2. ASSUME NEW r \in Requests, RevokeSession(r) PROVE l = row[request[r].tail].logical
        BY <2>2, <4>2 DEF RevokeSession, LoggedOut, LeftTyped
      <4>3. ASSUME NEW r \in Requests, NEW s \in Rows, RotateSession(r, s) PROVE left'.out = left.out
        BY <4>3 DEF RotateSession, LoggedOut, LeftTyped
      <4> QED BY <2>2, <4>1, <4>2, <4>3, LeavingMoves
    <3>2. request[r].tail \in Used /\ l \in Used /\ request[r].at = "LEAVING" /\ row' = Revoked(request[r].reach)
      BY <3>1 DEF RevokeSession, Typed, Served, RowsTyped
    <3>3. \A s \in Chain(l) : Revocable(s) => s \in request[r].reach
      BY <1>1, <3>1, <3>2 DEF LoggedOut, LeavingReaches
    <3>4. Quiet /\ \A s \in Rows : s \in request[r].reach => ~Revocable(s)'
      BY <3>2, RevocationQuiet
    <3>5. ASSUME NEW s \in Chain(l)', row'[s].state = "ACTIVE" PROVE FALSE
      <4>1. s \in Rows /\ Revocable(s)'
        BY <3>5 DEF Chain, Used, Revocable
      <4>2. s \in Chain(l) /\ Revocable(s)
        BY <3>4, <3>5, <4>1 DEF Quiet, Chain, Used
      <4> QED BY <3>3, <3>4, <4>1, <4>2
    <3> QED BY <3>2, <3>5, RowsGrow
  <2> QED BY <2>1, <2>2
<1> QED BY <1>1, <1>3, <1>4 DEF LoggedOut

LEMMA LoggedOutHolds == ASSUME LeftIsOver PROVE LogoutHolds
BY DEF LeftIsOver, LogoutHolds, Usables, Leads, LiveTail

-------------------------------------------------------------------------------
(* Protected commands.                                                     *)

Spent(p) == proof[p].state \in {"CONSUMED", "OVER"}

\* What an executed command spent stays spent, what a request was admitted with is
\* a proof given for its command, and what replaced secrets ended executed nothing.
DoneSpent == \A d \in done : d.proof \in Proofs /\ Spent(d.proof) /\ proof[d.proof].command = d.command
OnceEach == \A d, e \in done : (d.command = e.command \/ d.proof = e.proof) => d = e
AdmittedAsked ==
  \A r \in Requests : request[r].at = "PROVED" =>
    \A p \in request[r].proofs : p \in Proofs /\ proof[p].state # "NONE" /\ proof[p].command = request[r].command
VoidSpent == \A p \in void : p \in Proofs /\ Spent(p)

Guarded == DoneSpent /\ OnceEach /\ AdmittedAsked /\ VoidSpent /\ ProofsEndWithSecrets

\* A request is admitted by one step, and stays so until its own next one.
LEMMA AdmittedMoves ==
  ASSUME SessionAssumption, Typed, [Next]_vars, NEW r \in Requests, request'[r].at = "PROVED"
  PROVE  request'[r] = request[r] \/ \E p \in Proofs, c \in Commands : ValidateStepUpProof(r, p, c)
<1> USE DEF Typed, SessionTypeOK
<1>1. CASE request' = request
  BY <1>1
<1>2. CASE RequestStep
  <2>1. PICK q \in Requests :
          \/ \E t \in Rows : FindSession(q, t) \/ RotateSession(q, t)
          \/ TouchSession(q) \/ Resolve(q) \/ Answer(q) \/ Logout(q) \/ RevokeSession(q)
          \/ \E p \in Proofs :
               \/ \E c \in Commands : IssueStepUpChallenge(q, p, c) \/ ValidateStepUpProof(q, p, c)
               \/ ExecuteProtected(q, p) \/ ReplayProtected(q, p) \/ ProofSpentMeanwhile(q, p)
    BY <1>2 DEF RequestStep
  <2>2. PICK old \in Request : old = request[q]
    OBVIOUS
  <2>3. \A u \in Requests \ {q} : request'[u] = request[u]
    BY <2>1 DEF FindSession, RotateSession, TouchSession, Resolve, Answer, Logout, RevokeSession,
       IssueStepUpChallenge, ValidateStepUpProof, ExecuteProtected, ReplayProtected, ProofSpentMeanwhile
  <2>4. request'[q].at = "PROVED" => \E p \in Proofs, c \in Commands : ValidateStepUpProof(q, p, c)
    <3>1. ASSUME NEW u \in Rows, FindSession(q, u) PROVE request'[q].at # "PROVED"
      BY <3>1 DEF FindSession, IdleRequest
    <3>2. ASSUME NEW u \in Rows, RotateSession(q, u) PROVE request'[q].at # "PROVED"
      BY <2>2, <3>2 DEF RotateSession, Request
    <3>3. ASSUME Resolve(q) PROVE request'[q].at # "PROVED"
      <4>1. request[q].at = "FOUND"
        BY <3>3 DEF Resolve
      <4>2. CASE request' = [request EXCEPT ![q] = IdleRequest]
        BY <4>2 DEF IdleRequest
      <4>3. CASE request' # [request EXCEPT ![q] = IdleRequest]
        <5>1. PICK t \in Rows, b \in BOOLEAN : request' = [request EXCEPT ![q].tail = t, ![q].again = TRUE, ![q].rotate = b]
          BY <3>3, <4>3 DEF Resolve
        <5>2. request'[q] = [old EXCEPT !.tail = t, !.again = TRUE, !.rotate = b]
          BY <2>2, <5>1
        <5> QED BY <2>2, <4>1, <5>2 DEF Request
      <4> QED BY <4>2, <4>3
    <3>4. CASE TouchSession(q)
      BY <2>2, <3>4 DEF TouchSession, Request
    <3>5. CASE Logout(q)
      <4>1. request'[q] = [old EXCEPT !.at = "LEAVING", !.reach = LogoutReach(q)]
        BY <2>2, <3>5 DEF Logout
      <4> QED BY <2>2, <4>1 DEF Request
    <3>6. ASSUME NEW p \in Proofs, ProofSpentMeanwhile(q, p) PROVE request'[q].at # "PROVED"
      <4>1. request'[q] = [old EXCEPT !.at = "SERVED", !.command = NoCommand, !.proofs = {}]
        BY <2>2, <3>6 DEF ProofSpentMeanwhile
      <4> QED BY <2>2, <4>1 DEF Request
    <3>7. ASSUME \/ Answer(q) \/ RevokeSession(q)
                 \/ \E p \in Proofs : \/ \E c \in Commands : IssueStepUpChallenge(q, p, c)
                                      \/ ExecuteProtected(q, p) \/ ReplayProtected(q, p)
          PROVE  request'[q].at # "PROVED"
      BY <3>7 DEF Answer, RevokeSession, IssueStepUpChallenge, ExecuteProtected, ReplayProtected, IdleRequest
    <3> QED BY <2>1, <3>1, <3>2, <3>3, <3>4, <3>5, <3>6, <3>7
  <2> QED BY <2>3, <2>4
<1>3. CASE TimePasses
  BY <1>1, <1>3 DEF TimePasses
<1>4. CASE RevokeAll
  BY <1>1, <1>4 DEF RevokeAll
<1>5. CASE \E s \in Rows : CreateSession(s) \/ \E kind \in Kinds : BeginRevocation(kind, s)
  BY <1>1, <1>5 DEF CreateSession, BeginRevocation
<1>6. CASE (\E p \in Proofs : VerifyTotp(p)) \/ AccessGranted \/ UNCHANGED vars
  BY <1>1, <1>6 DEF VerifyTotp, AccessGranted, vars
<1> QED BY <1>2, <1>3, <1>4, <1>5, <1>6 DEF Next

\* A command is executed by a request admitted with a proof not yet spent.
LEMMA DoneMoves ==
  ASSUME Typed, [Next]_vars
  PROVE  done' = done \/ \E r \in Requests, p \in Proofs : ExecuteProtected(r, p)
<1>1. CASE RequestStep
  <2>1. PICK r \in Requests :
          \/ \E t \in Rows : FindSession(r, t) \/ RotateSession(r, t)
          \/ TouchSession(r) \/ Resolve(r) \/ Answer(r) \/ Logout(r) \/ RevokeSession(r)
          \/ \E p \in Proofs :
               \/ \E c \in Commands : IssueStepUpChallenge(r, p, c) \/ ValidateStepUpProof(r, p, c)
               \/ ExecuteProtected(r, p) \/ ReplayProtected(r, p) \/ ProofSpentMeanwhile(r, p)
    BY <1>1 DEF RequestStep
  <2> QED BY <2>1 DEF FindSession, RotateSession, TouchSession, Resolve, Answer, Logout, RevokeSession,
      IssueStepUpChallenge, ValidateStepUpProof, ReplayProtected, ProofSpentMeanwhile
<1>2. CASE TimePasses
  BY <1>2 DEF TimePasses
<1>3. CASE RevokeAll
  BY <1>3 DEF RevokeAll
<1>4. CASE \E s \in Rows : CreateSession(s) \/ \E kind \in Kinds : BeginRevocation(kind, s)
  BY <1>4 DEF CreateSession, BeginRevocation
<1>5. CASE (\E p \in Proofs : VerifyTotp(p)) \/ AccessGranted \/ UNCHANGED vars
  BY <1>5 DEF VerifyTotp, AccessGranted, vars
<1> QED BY <1>1, <1>2, <1>3, <1>4, <1>5 DEF Next

LEMMA GuardedStep == ASSUME SessionAssumption, Typed, Guarded, [Next]_vars PROVE Guarded'
<1>1. proof' \in [Proofs -> Proof] /\ Kept
  BY ProofMoves
<1>2. \A p \in Proofs : Spent(p) => Spent(p)' /\ proof'[p].command = proof[p].command
  BY <1>1 DEF Kept, Spent
<1>3. AdmittedAsked'
  <2> SUFFICES ASSUME NEW r \in Requests, request'[r].at = "PROVED", NEW p \in request'[r].proofs
               PROVE  p \in Proofs /\ proof'[p].state # "NONE" /\ proof'[p].command = request'[r].command
    BY DEF AdmittedAsked
  <2>1. CASE request'[r] = request[r]
    BY <1>1, <2>1 DEF Kept, Guarded, AdmittedAsked
  <2>2. ASSUME NEW q \in Proofs, NEW c \in Commands, ValidateStepUpProof(r, q, c)
        PROVE  p \in Proofs /\ proof'[p].state # "NONE" /\ proof'[p].command = request'[r].command
    <3>1. PICK old \in Request : old = request[r]
      BY DEF Typed, SessionTypeOK
    <3>2. request'[r] = [old EXCEPT !.at = "PROVED", !.command = c, !.proofs = {q}] /\ proof' = proof
      BY <2>2, <3>1 DEF ValidateStepUpProof, Typed, SessionTypeOK
    <3>3. request'[r].command = c /\ request'[r].proofs = {q}
      BY <3>1, <3>2 DEF Request
    <3>4. proof[q].command = c /\ proof[q].state # "NONE"
      BY <2>2 DEF ValidateStepUpProof, Valid, IsFor
    <3> QED BY <3>2, <3>3, <3>4
  <2> QED BY <2>1, <2>2, AdmittedMoves
<1>4. CASE \E r \in Requests, p \in Proofs : ExecuteProtected(r, p)
  <2>1. PICK r \in Requests, p \in Proofs : ExecuteProtected(r, p)
    BY <1>4
  <2>2. PICK c : c = request[r].command
    OBVIOUS
  <2>3. /\ proof[p].state = "PROVED" /\ proof[p].command = c /\ ~Executed(c)
        /\ done' = done \cup {[command |-> c, proof |-> p]} /\ void' = void
    BY <2>1, <2>2 DEF ExecuteProtected, Unspent, Guarded, AdmittedAsked
  <2>4. Spent(p)' /\ proof'[p].command = c
    <3>1. PICK old \in Proof : old = proof[p]
      BY DEF Typed, SessionTypeOK
    <3>2. proof'[p] = [old EXCEPT !.state = "CONSUMED"]
      BY <2>1, <3>1 DEF ExecuteProtected, Typed, SessionTypeOK
    <3>3. proof'[p].state = "CONSUMED" /\ proof'[p].command = old.command
      BY <3>1, <3>2 DEF Proof
    <3> QED BY <2>3, <3>1, <3>3 DEF Spent
  <2>5. ~Spent(p)
    BY <2>3 DEF Spent
  <2>6. \A d \in done : d.proof # p /\ d.command # c
    BY <2>3, <2>5 DEF Guarded, DoneSpent, Executed
  <2>7. p \notin void
    BY <2>5 DEF Guarded, VoidSpent
  <2> QED BY <1>2, <1>3, <2>3, <2>4, <2>6, <2>7 DEF Guarded, DoneSpent, OnceEach, VoidSpent, ProofsEndWithSecrets
<1>5. CASE done' = done
  <2>1. DoneSpent' /\ OnceEach'
    BY <1>2, <1>5 DEF Guarded, DoneSpent, OnceEach
  <2>2. CASE void' = void
    BY <1>2, <1>3, <1>5, <2>1, <2>2 DEF Guarded, VoidSpent, ProofsEndWithSecrets
  <2>3. CASE RevokeAll /\ void' # void
    <3>1. /\ void' = void \cup (Given \ {d.proof : d \in done})
          /\ proof' = ProofsEnded
      BY <2>3 DEF RevokeAll
    <3>2. \A p \in Given : p \in Proofs /\ proof'[p].state = "CONSUMED"
      <4> SUFFICES ASSUME NEW p \in Given PROVE p \in Proofs /\ proof'[p].state = "CONSUMED"
        OBVIOUS
      <4>1. PICK old \in Proof : old = proof[p]
        BY DEF Given, Typed, SessionTypeOK
      <4>2. p \in Proofs /\ proof'[p] = [old EXCEPT !.state = "CONSUMED"]
        BY <3>1, <4>1 DEF ProofsEnded, Given
      <4> QED BY <4>1, <4>2 DEF Proof
    <3>3. VoidSpent'
      BY <1>2, <3>1, <3>2 DEF Guarded, VoidSpent, Spent
    <3>4. ProofsEndWithSecrets'
      BY <1>5, <3>1 DEF Guarded, ProofsEndWithSecrets
    <3> QED BY <1>3, <2>1, <3>3, <3>4 DEF Guarded
  <2> QED BY <2>2, <2>3, AccountMoves
<1> QED BY <1>4, <1>5, DoneMoves

-------------------------------------------------------------------------------

\* What every step keeps.
SessionInvariant == Typed /\ Chained /\ Swept /\ LoggedOut /\ Guarded

LEMMA SessionStart == ASSUME SessionAssumption, Init PROVE SessionInvariant
<1>1. Typed
  BY TypedStart
<1>2. Used = {} /\ sweep.reach = {}
  BY DEF Init, Used, NoSession, NoSweep
<1>3. Chained
  BY <1>2 DEF Chained, Linked, OneEnd, SomeEnd, ActiveIsEnd
<1>4. Swept
  BY <1>2 DEF Init, Swept, SweepClosed, EndedIsOver
<1>5. LoggedOut
  BY DEF Init, LoggedOut, LeftTyped, LeavingReaches, LeftIsOver, IdleRequest
<1>6. Guarded
  BY DEF Init, Guarded, DoneSpent, OnceEach, AdmittedAsked, VoidSpent, ProofsEndWithSecrets, IdleRequest
<1> QED BY <1>1, <1>3, <1>4, <1>5, <1>6 DEF SessionInvariant

\* However requests, logouts, revocations and protected commands interleave, a
\* session is one chain with one tail, what ended is not honoured again, a command
\* runs once, on a proof given for it and not from before a recovery
\* (auth.repository.ts:847, 870, 998, 1036, access-authorization.repository.ts:209).
THEOREM SessionsSound == ASSUME SessionAssumption PROVE Spec => []SessionsAreSound
<1>1. Init => SessionInvariant
  BY SessionStart
<1>2. SessionInvariant /\ [Next]_vars => SessionInvariant'
  BY TypedStep, ChainedStep, SweptStep, LoggedOutStep, GuardedStep DEF SessionInvariant
<1>3. SessionInvariant => SessionsAreSound
  <2> SUFFICES ASSUME SessionInvariant PROVE SessionsAreSound
    OBVIOUS
  <2>1. OneTail
    BY ChainedTails DEF SessionInvariant
  <2>2. RevocationHolds /\ LogoutHolds
    BY SweptHolds, LoggedOutHolds DEF SessionInvariant, Swept, LoggedOut
  <2>3. CommandsRunOnce /\ ProofsEndWithSecrets
    BY DEF SessionInvariant, Guarded, CommandsRunOnce, DoneSpent, OnceEach
  <2> QED BY <2>1, <2>2, <2>3 DEF SessionsAreSound, SessionInvariant, Typed
<1> QED BY <1>1, <1>2, <1>3, PTL DEF Spec

\* Of the sessions, the parts do what Sessions says.
LEMMA PartsSessions == PartsSpec => Spec
<1>1. PartsInit => Init
  BY DEF PartsInit
<1>2. [PartsNext]_allParts => [Next]_vars
  BY DEF PartsNext, allParts
<1> QED BY <1>1, <1>2, PTL DEF PartsSpec, Spec


-------------------------------------------------------------------------------
(* Scopes of grants and delegations.                                       *)

\* What is assumed of the currencies and ceilings of grants.
LEMMA MoneyTyped ==
  ASSUME NEW k \in GrantParts
  PROVE  /\ NoCurrency \notin Currencies
         /\ NoCeiling \notin [amount : Nat, currency : Currencies]
         /\ NoValue \notin Values
         /\ Amounts \subseteq Nat
         /\ GrantDims \subseteq Grants(k)!AllDims
BY PartsAssumption DEF Grants!ScopeAssumption

LEMMA CeilingTyped ==
  ASSUME NEW k \in GrantParts, NEW l \in Grants(k)!Ceilings, l # NoCeiling
  PROVE  l.amount \in Nat /\ l.currency \in Currencies /\ l.currency # NoCurrency
BY MoneyTyped DEF Grants!Ceilings

\* A limit within a limit, and a ceiling within a ceiling, admit no more.
LEMMA CoversWithin ==
  ASSUME NEW k \in GrantParts, NEW source, NEW target, NEW values,
         Grants(k)!ContainsValues(source, target), Grants(k)!Covers(target, values)
  PROVE  Grants(k)!Covers(source, values)
BY DEF Grants!ContainsValues, Grants!Covers

LEMMA UnderWithin ==
  ASSUME NEW k \in GrantParts, NEW target \in Grants(k)!Ceilings, NEW source \in Grants(k)!Ceilings,
         NEW c, c.amount \in Nat,
         Grants(k)!CeilingWithin(target, source), Grants(k)!UnderCeiling(target, c)
  PROVE  Grants(k)!UnderCeiling(source, c)
<1> SUFFICES ASSUME source # NoCeiling
             PROVE  source.currency = c.base /\ c.amount <= source.amount
  BY DEF Grants!UnderCeiling
<1>1. /\ target # NoCeiling /\ target.currency = source.currency /\ target.amount <= source.amount
  BY DEF Grants!CeilingWithin
<1>2. target.currency = c.base /\ c.amount <= target.amount
  BY <1>1 DEF Grants!UnderCeiling
<1>3. target.amount \in Nat /\ source.amount \in Nat
  BY <1>1, CeilingTyped
<1> QED BY <1>1, <1>2, <1>3

\* A scope over the whole organization permits everything.
LEMMA OpenAllows ==
  ASSUME NEW k \in GrantParts, NEW c, NEW p \in Grants(k)!Profiles
  PROVE  Grants(k)!Allows(Grants(k)!OpenScope, c, p)
<1>1. \A d \in GrantDims : Grants(k)!OpenScope.at[d] = {}
  BY DEF Grants!OpenScope, Grants!OpenAt
<1>2. Grants(k)!OpenScope.currencies = {} /\ Grants(k)!OpenScope.ceiling = NoCeiling
  BY DEF Grants!OpenScope
<1>3. Grants(k)!Checked(p) \subseteq GrantDims /\ Grants(k)!MustBeOpen(p) \subseteq GrantDims
  BY DEF Grants!Checked, Grants!MustBeOpen
<1> QED BY <1>1, <1>2, <1>3 DEF Grants!Allows, Grants!Covers, Grants!UnderCeiling

\* What a contained scope permits its source permits; containment takes the currency
\* of a ceiling for the only one of the target.
LEMMA ContainedAllows ==
  ASSUME NEW k \in GrantParts,
         NEW s \in Grants(k)!Scope, NEW t \in Grants(k)!Scope, s.wide => s = Grants(k)!OpenScope,
         Grants(k)!GrantContains(s, t),
         NEW c, c.amount \in Nat, NEW p \in Grants(k)!Profiles, Grants(k)!Allows(t, c, p),
         \/ Grants(k)!OneCurrency(c) \/ t.currencies # {} \/ s.currencies = {}
  PROVE  Grants(k)!Allows(s, c, p)
<1>1. CASE s.wide
  BY <1>1, OpenAllows
<1>2. CASE ~s.wide
  <2>1. /\ \A d \in GrantDims : Grants(k)!ContainsValues(s.at[d], t.at[d])
        /\ Grants(k)!ContainsValues(Grants(k)!EffectiveCurrencies(s), Grants(k)!EffectiveCurrencies(t))
        /\ Grants(k)!CeilingWithin(t.ceiling, s.ceiling)
    BY <1>2 DEF Grants!GrantContains
  <2>2. /\ \A d \in Grants(k)!Checked(p) : Grants(k)!Covers(t.at[d], c.at[d])
        /\ \A d \in Grants(k)!MustBeOpen(p) : t.at[d] = {}
        /\ p # "ACCOUNTING" => Grants(k)!Covers(t.currencies, c.currencies)
        /\ Grants(k)!UnderCeiling(t.ceiling, c)
    BY DEF Grants!Allows
  <2>3. Grants(k)!Checked(p) \subseteq GrantDims /\ Grants(k)!MustBeOpen(p) \subseteq GrantDims
    BY DEF Grants!Checked, Grants!MustBeOpen
  <2>4. \A d \in Grants(k)!Checked(p) : Grants(k)!Covers(s.at[d], c.at[d])
    BY <2>1, <2>2, <2>3, CoversWithin
  <2>5. \A d \in Grants(k)!MustBeOpen(p) : s.at[d] = {}
    BY <2>1, <2>2, <2>3 DEF Grants!ContainsValues
  <2>6. t.ceiling \in Grants(k)!Ceilings /\ s.ceiling \in Grants(k)!Ceilings
    BY DEF Grants!Scope
  <2>7. Grants(k)!UnderCeiling(s.ceiling, c)
    BY <2>1, <2>2, <2>6, UnderWithin
  <2>8. ASSUME p # "ACCOUNTING" PROVE Grants(k)!Covers(s.currencies, c.currencies)
    <3>1. CASE s.currencies = {}
      BY <3>1 DEF Grants!Covers
    <3>2. CASE s.currencies # {}
      <4>1. /\ Grants(k)!EffectiveCurrencies(t) # {}
            /\ Grants(k)!EffectiveCurrencies(t) \subseteq s.currencies
        BY <3>2, <2>1 DEF Grants!ContainsValues, Grants!EffectiveCurrencies
      <4>2. Grants(k)!Covers(t.currencies, c.currencies)
        BY <2>2, <2>8
      <4>3. CASE t.currencies # {}
        BY <4>1, <4>2, <4>3 DEF Grants!Covers, Grants!EffectiveCurrencies
      <4>4. CASE t.currencies = {}
        <5>1. t.ceiling # NoCeiling /\ t.ceiling.currency \in s.currencies
          BY <4>1, <4>4 DEF Grants!EffectiveCurrencies
        <5>2. c.currencies = {c.base} /\ t.ceiling.currency = c.base
          BY <2>2, <3>2, <4>4, <5>1 DEF Grants!OneCurrency, Grants!UnderCeiling
        <5> QED BY <5>1, <5>2 DEF Grants!Covers
      <4> QED BY <4>3, <4>4
    <3> QED BY <3>1, <3>2
  <2> QED BY <2>4, <2>5, <2>7, <2>8 DEF Grants!Allows
<1> QED BY <1>1, <1>2

\* The types of a delegation's limits.
LEMMA DelegationTyped ==
  ASSUME NEW k \in GrantParts, NEW d \in Grants(k)!DelegationScope
  PROVE  /\ \A x \in Grants(k)!Selected(d) : x \in GrantDims /\ d.at[x] \in Values
         /\ d.currency \in Currencies \cup {NoCurrency}
         /\ d.ceiling \in Grants(k)!Ceilings
         /\ d.ceiling # NoCeiling => d.ceiling.currency \in Currencies
<1>1. \A x \in Grants(k)!Selected(d) : x \in GrantDims /\ d.at[x] \in Values
  BY DEF Grants!Selected, Grants!DelegationScope, Grants!DelegatedDims
<1>2. d.currency \in Currencies \cup {NoCurrency} /\ d.ceiling \in Grants(k)!Ceilings
  BY DEF Grants!DelegationScope
<1> QED BY <1>1, <1>2, CeilingTyped

\* A delegation that narrows keeps its own ceiling, or that of the grant.
LEMMA LeastIsGiven ==
  ASSUME NEW k \in GrantParts, NEW s \in Grants(k)!Scope, NEW d \in Grants(k)!DelegationScope,
         Grants(k)!StrictlyNarrows(s, d)
  PROVE  Grants(k)!LeastCeiling(s, d) = IF d.ceiling = NoCeiling THEN s.ceiling ELSE d.ceiling
<1>1. CASE d.ceiling = NoCeiling \/ Grants(k)!LowerCeiling(d.ceiling, s.ceiling)
  BY <1>1 DEF Grants!LeastCeiling
<1>2. CASE d.ceiling # NoCeiling /\ ~Grants(k)!LowerCeiling(d.ceiling, s.ceiling)
  <2>1. s.ceiling # NoCeiling /\ ~(d.ceiling.amount < s.ceiling.amount)
    BY <1>2 DEF Grants!LowerCeiling
  <2>2. d.ceiling.currency = s.ceiling.currency /\ d.ceiling.amount <= s.ceiling.amount
    BY <1>2, <2>1 DEF Grants!StrictlyNarrows, Grants!CeilingWithin
  <2>3. d.ceiling \in Grants(k)!Ceilings /\ s.ceiling \in Grants(k)!Ceilings
    BY DelegationTyped DEF Grants!Scope
  <2>4. d.ceiling.amount \in Nat /\ s.ceiling.amount \in Nat
    BY <1>2, <2>1, <2>3, CeilingTyped
  <2>5. s.ceiling.amount = d.ceiling.amount
    BY <2>1, <2>2, <2>4
  <2>6. d.ceiling = [amount |-> d.ceiling.amount, currency |-> d.ceiling.currency]
    BY <1>2, <2>3 DEF Grants!Ceilings
  <2> QED BY <1>2, <2>5, <2>6 DEF Grants!LeastCeiling
<1> QED BY <1>1, <1>2

\* A currency the delegation names, or its ceiling, is one the grant covers.
LEMMA TargetCovered ==
  ASSUME NEW k \in GrantParts, NEW s, NEW d,
         Grants(k)!StrictlyNarrows(s, d), Grants(k)!TargetCurrency(d) # NoCurrency
  PROVE  s.currencies = {} \/ Grants(k)!TargetCurrency(d) \in s.currencies
<1>1. Grants(k)!ContainsValues(Grants(k)!EffectiveCurrencies(s), {Grants(k)!TargetCurrency(d)})
  BY DEF Grants!StrictlyNarrows
<1> QED BY <1>1 DEF Grants!ContainsValues, Grants!EffectiveCurrencies

\* A dimension a delegation narrows is one the grant covers.
LEMMA SelectedCovered ==
  ASSUME NEW k \in GrantParts, NEW s, NEW d, Grants(k)!StrictlyNarrows(s, d),
         NEW x \in Grants(k)!Selected(d)
  PROVE  s.at[x] = {} \/ d.at[x] \in s.at[x]
<1>1. Grants(k)!ContainsValues(s.at[x], {d.at[x]})
  BY DEF Grants!StrictlyNarrows
<1> QED BY <1>1 DEF Grants!ContainsValues

\* What a narrowed dimension covers.
LEMMA NarrowedCovers ==
  ASSUME NEW k \in GrantParts, NEW s, NEW d, Grants(k)!StrictlyNarrows(s, d),
         NEW x \in GrantDims, NEW values
  PROVE  Grants(k)!Covers(Grants(k)!NarrowedAt(s, d)[x], values)
           <=> /\ Grants(k)!Covers(s.at[x], values)
               /\ x \in Grants(k)!Selected(d) => values = {d.at[x]}
<1>1. CASE x \in Grants(k)!Selected(d)
  <2>1. Grants(k)!NarrowedAt(s, d)[x] = {d.at[x]}
    BY <1>1 DEF Grants!NarrowedAt
  <2>2. s.at[x] = {} \/ d.at[x] \in s.at[x]
    BY <1>1, SelectedCovered
  <2>3. Grants(k)!Covers({d.at[x]}, values) <=> values = {d.at[x]}
    BY DEF Grants!Covers
  <2>4. values = {d.at[x]} => Grants(k)!Covers(s.at[x], values)
    BY <2>2 DEF Grants!Covers
  <2> QED BY <1>1, <2>1, <2>3, <2>4
<1>2. CASE x \notin Grants(k)!Selected(d)
  BY <1>2 DEF Grants!NarrowedAt
<1> QED BY <1>1, <1>2

\* A dimension is open after a delegation only if it was before.
LEMMA NarrowedOpen ==
  ASSUME NEW k \in GrantParts, NEW s, NEW d, NEW x \in GrantDims,
         Grants(k)!NarrowedAt(s, d)[x] = {}
  PROVE  s.at[x] = {}
BY DEF Grants!NarrowedAt

\* What a delegate may do, the holder of the grant may do.
LEMMA DelegatedAllows ==
  ASSUME NEW k \in GrantParts, NEW s \in Grants(k)!Scope, NEW d \in Grants(k)!DelegationScope,
         Grants(k)!StrictlyNarrows(s, d),
         NEW c, c.amount \in Nat, NEW p \in Grants(k)!Profiles,
         Grants(k)!Allows(Grants(k)!DelegatedScope(s, d), c, p)
  PROVE  Grants(k)!Allows(s, c, p)
<1> DEFINE t == Grants(k)!DelegatedScope(s, d)
<1>1. /\ t.at = Grants(k)!NarrowedAt(s, d)
      /\ t.currencies = IF d.currency = NoCurrency THEN s.currencies ELSE {d.currency}
      /\ t.ceiling = IF d.ceiling = NoCeiling THEN s.ceiling ELSE d.ceiling
  BY LeastIsGiven DEF Grants!DelegatedScope
<1>2. /\ \A x \in Grants(k)!Checked(p) : Grants(k)!Covers(t.at[x], c.at[x])
      /\ \A x \in Grants(k)!MustBeOpen(p) : t.at[x] = {}
      /\ p # "ACCOUNTING" => Grants(k)!Covers(t.currencies, c.currencies)
      /\ Grants(k)!UnderCeiling(t.ceiling, c)
  BY DEF Grants!Allows
<1>3. Grants(k)!Checked(p) \subseteq GrantDims /\ Grants(k)!MustBeOpen(p) \subseteq GrantDims
  BY DEF Grants!Checked, Grants!MustBeOpen
<1>4. \A x \in Grants(k)!Checked(p) : Grants(k)!Covers(s.at[x], c.at[x])
  BY <1>1, <1>2, <1>3, NarrowedCovers
<1>5. \A x \in Grants(k)!MustBeOpen(p) : s.at[x] = {}
  BY <1>1, <1>2, <1>3, NarrowedOpen
<1>6. Grants(k)!Covers(t.currencies, c.currencies) => Grants(k)!Covers(s.currencies, c.currencies)
  <2>1. CASE d.currency = NoCurrency
    BY <1>1, <2>1
  <2>2. CASE d.currency # NoCurrency
    <3>1. s.currencies = {} \/ d.currency \in s.currencies
      BY <2>2, TargetCovered DEF Grants!TargetCurrency
    <3> QED BY <1>1, <2>2, <3>1 DEF Grants!Covers
  <2> QED BY <2>1, <2>2
<1>7. Grants(k)!UnderCeiling(s.ceiling, c)
  <2>1. CASE d.ceiling = NoCeiling
    BY <1>1, <1>2, <2>1
  <2>2. CASE d.ceiling # NoCeiling
    <3>1. Grants(k)!CeilingWithin(d.ceiling, s.ceiling)
      BY <2>2 DEF Grants!StrictlyNarrows
    <3>2. d.ceiling \in Grants(k)!Ceilings /\ s.ceiling \in Grants(k)!Ceilings
      BY DelegationTyped DEF Grants!Scope
    <3> QED BY <1>1, <1>2, <2>2, <3>1, <3>2, UnderWithin
  <2> QED BY <2>1, <2>2
<1> HIDE DEF t
<1> QED BY <1>2, <1>4, <1>5, <1>6, <1>7 DEF Grants!Allows

\* Apart from the currency of a ceiling, what narrows at the creation still narrows.
LEMMA NarrowsStill ==
  ASSUME NEW k \in GrantParts, NEW s \in Grants(k)!Scope, NEW d \in Grants(k)!DelegationScope,
         Grants(k)!WellFormedDelegation(d), Grants(k)!StrictlyNarrows(s, d),
         ~Grants(k)!OnlyNamesCeilingCurrency(s, d)
  PROVE  Grants(k)!StillNarrows(s, d)
<1> DEFINE single(values) == \E v \in values : values = {v}
<1>1. /\ \A x \in Grants(k)!Selected(d) : Grants(k)!ContainsValues(s.at[x], {d.at[x]})
      /\ d.ceiling # NoCeiling => Grants(k)!CeilingWithin(d.ceiling, s.ceiling)
      /\ \/ \E x \in Grants(k)!Selected(d) : ~single(s.at[x])
         \/ /\ Grants(k)!TargetCurrency(d) # NoCurrency
            /\ ~single(Grants(k)!EffectiveCurrencies(s))
         \/ Grants(k)!LowerCeiling(d.ceiling, s.ceiling)
  BY DEF Grants!StrictlyNarrows
<1>2. /\ d.currency \in Currencies \cup {NoCurrency}
      /\ d.ceiling \in Grants(k)!Ceilings /\ s.ceiling \in Grants(k)!Ceilings
      /\ d.ceiling # NoCeiling => d.ceiling.currency \in Currencies
  BY DelegationTyped DEF Grants!Scope
<1>3. d.currency # NoCurrency => Grants(k)!ContainsValues(s.currencies, {d.currency})
  BY TargetCovered DEF Grants!TargetCurrency, Grants!ContainsValues
<1>4. d.ceiling # NoCeiling => Grants(k)!ContainsValues(s.currencies, {d.ceiling.currency})
  <2> SUFFICES ASSUME d.ceiling # NoCeiling
               PROVE  Grants(k)!ContainsValues(s.currencies, {d.ceiling.currency})
    OBVIOUS
  <2>1. Grants(k)!TargetCurrency(d) = d.ceiling.currency
    BY DEF Grants!TargetCurrency, Grants!WellFormedDelegation
  <2>2. d.ceiling.currency # NoCurrency
    BY <1>2, CeilingTyped
  <2> QED BY <2>1, <2>2, TargetCovered DEF Grants!ContainsValues
<1>5. \/ \E x \in Grants(k)!Selected(d) : ~single(s.at[x])
      \/ d.currency # NoCurrency /\ ~single(s.currencies)
      \/ Grants(k)!LowerCeiling(d.ceiling, s.ceiling)
  <2> SUFFICES ASSUME Grants(k)!TargetCurrency(d) # NoCurrency,
                      ~single(Grants(k)!EffectiveCurrencies(s))
               PROVE  \/ d.currency # NoCurrency /\ ~single(s.currencies)
                      \/ Grants(k)!LowerCeiling(d.ceiling, s.ceiling)
    BY <1>1
  <2>1. ~single(s.currencies)
    BY DEF Grants!EffectiveCurrencies
  <2>2. CASE d.currency # NoCurrency
    BY <2>1, <2>2
  <2>3. CASE d.currency = NoCurrency
    <3>1. d.ceiling # NoCeiling
      BY <2>3 DEF Grants!TargetCurrency
    <3>2. d.ceiling # s.ceiling
      BY <2>3, <3>1 DEF Grants!OnlyNamesCeilingCurrency
    <3>3. CASE s.ceiling = NoCeiling
      BY <3>1, <3>3 DEF Grants!LowerCeiling
    <3>4. CASE s.ceiling # NoCeiling
      <4>1. d.ceiling.currency = s.ceiling.currency /\ d.ceiling.amount <= s.ceiling.amount
        BY <1>1, <3>1, <3>4 DEF Grants!CeilingWithin
      <4>2. d.ceiling.amount \in Nat /\ s.ceiling.amount \in Nat
        BY <1>2, <3>1, <3>4, CeilingTyped
      <4>3. /\ d.ceiling \in [amount : Amounts, currency : Currencies]
            /\ s.ceiling \in [amount : Amounts, currency : Currencies]
        BY <1>2, <3>1, <3>4 DEF Grants!Ceilings
      <4>4. d.ceiling.amount # s.ceiling.amount
        BY <3>2, <4>1, <4>3
      <4>5. d.ceiling.amount < s.ceiling.amount
        BY <4>1, <4>2, <4>4
      <4> QED BY <3>1, <4>5 DEF Grants!LowerCeiling
    <3> QED BY <3>3, <3>4
  <2> QED BY <2>2, <2>3
<1> QED BY <1>1, <1>3, <1>4, <1>5 DEF Grants!StillNarrows

\* The scope the list of delegations judges permits the documents of one currency
\* that the scope in force permits.
LEMMA ShownAllows ==
  ASSUME NEW k \in GrantParts, NEW s \in Grants(k)!Scope, NEW d \in Grants(k)!DelegationScope,
         Grants(k)!StrictlyNarrows(s, d),
         NEW c, Grants(k)!OneCurrency(c), NEW p \in Grants(k)!Profiles \ {"ACCOUNTING"}
  PROVE  Grants(k)!Allows(Grants(k)!ShownScope(s, d), c, p)
           <=> Grants(k)!Allows(Grants(k)!DelegatedScope(s, d), c, p)
<1> DEFINE t == Grants(k)!DelegatedScope(s, d)
           u == Grants(k)!ShownScope(s, d)
           target == Grants(k)!TargetCurrency(d)
<1>1. u.at = t.at /\ u.ceiling = t.ceiling
  BY LeastIsGiven DEF Grants!DelegatedScope, Grants!ShownScope
<1>2. /\ t.currencies = IF d.currency = NoCurrency THEN s.currencies ELSE {d.currency}
      /\ u.currencies = IF target = NoCurrency THEN s.currencies ELSE {target}
      /\ d.ceiling # NoCeiling => u.ceiling = d.ceiling
  BY DEF Grants!DelegatedScope, Grants!ShownScope
<1>3. ASSUME Grants(k)!UnderCeiling(u.ceiling, c)
      PROVE  Grants(k)!Covers(u.currencies, c.currencies) <=> Grants(k)!Covers(t.currencies, c.currencies)
  <2>1. CASE d.currency # NoCurrency \/ d.ceiling = NoCeiling
    BY <1>2, <2>1 DEF Grants!TargetCurrency
  <2>2. CASE d.currency = NoCurrency /\ d.ceiling # NoCeiling
    <3>1. target = d.ceiling.currency /\ d.ceiling.currency = c.base
      BY <1>2, <1>3, <2>2 DEF Grants!TargetCurrency, Grants!UnderCeiling
    <3>2. target # NoCurrency
      BY <2>2, <3>1, DelegationTyped, CeilingTyped
    <3>3. s.currencies = {} \/ target \in s.currencies
      BY <3>2, TargetCovered
    <3>4. c.currencies = {target}
      BY <3>1 DEF Grants!OneCurrency
    <3>5. t.currencies = s.currencies /\ u.currencies = {target}
      BY <1>2, <2>2, <3>2
    <3> QED BY <3>3, <3>4, <3>5 DEF Grants!Covers
  <2> QED BY <2>1, <2>2
<1>4. Grants(k)!Allows(u, c, p) <=> Grants(k)!Allows(t, c, p)
  <2> HIDE DEF t, u
  <2>1. p # "ACCOUNTING"
    OBVIOUS
  <2> QED BY <1>1, <1>3, <2>1 DEF Grants!Allows
<1> QED BY <1>4

\* The dimensions the profiles of the lists look at.
LEMMA ListedChecks ==
  ASSUME NEW k \in GrantParts
  PROVE  /\ Grants(k)!Checked("PAYMENT") = GrantDims /\ Grants(k)!MustBeOpen("PAYMENT") = {}
         /\ Grants(k)!Checked("ACCOUNTING") \subseteq GrantDims
         /\ Grants(k)!MustBeOpen("ACCOUNTING") = {}
         /\ "PAYMENT" \in Grants(k)!Profiles /\ "ACCOUNTING" \in Grants(k)!Profiles
BY MoneyTyped DEF Grants!Checked, Grants!MustBeOpen, Grants!AllDims, Grants!Profiles

\* A delegate finds the payments a command would let through, but for the ceiling of
\* the grant.
LEMMA PaymentsListed ==
  ASSUME NEW k \in GrantParts, NEW s \in Grants(k)!Scope, NEW d \in Grants(k)!DelegationScope,
         Grants(k)!StrictlyNarrows(s, d), NEW c, c.base \in c.currencies
  PROVE  Grants(k)!PaymentListed(s, d, c)
           <=> Grants(k)!Allows(Grants(k)!DelegatedScope([s EXCEPT !.ceiling = NoCeiling], d), c, "PAYMENT")
<1> DEFINE bare == [s EXCEPT !.ceiling = NoCeiling]
           t == Grants(k)!DelegatedScope(bare, d)
<1>1. bare.at = s.at /\ bare.currencies = s.currencies /\ bare.ceiling = NoCeiling
  BY DEF Grants!Scope
<1>2. t.at = Grants(k)!NarrowedAt(s, d)
  BY <1>1 DEF Grants!DelegatedScope, Grants!NarrowedAt
<1>3. /\ t.currencies = IF d.currency = NoCurrency THEN s.currencies ELSE {d.currency}
      /\ t.ceiling = d.ceiling
  BY <1>1 DEF Grants!DelegatedScope, Grants!LeastCeiling, Grants!LowerCeiling
<1>4. (\A x \in GrantDims : Grants(k)!Covers(t.at[x], c.at[x]))
        <=> /\ \A x \in GrantDims : Grants(k)!Covers(s.at[x], c.at[x])
            /\ \A x \in Grants(k)!Selected(d) : c.at[x] = {d.at[x]}
  <2>1. ASSUME NEW x \in GrantDims
        PROVE  Grants(k)!Covers(t.at[x], c.at[x])
                 <=> /\ Grants(k)!Covers(s.at[x], c.at[x])
                     /\ x \in Grants(k)!Selected(d) => c.at[x] = {d.at[x]}
    BY <1>2, NarrowedCovers
  <2>2. Grants(k)!Selected(d) \subseteq GrantDims
    BY DelegationTyped
  <2> HIDE DEF t
  <2> QED BY <2>1, <2>2
<1>5. Grants(k)!Covers(t.currencies, c.currencies)
        <=> /\ s.currencies # {} => c.base \in s.currencies /\ c.currencies \subseteq s.currencies
            /\ d.currency # NoCurrency => c.base = d.currency /\ c.currencies \subseteq {d.currency}
  <2>1. CASE d.currency = NoCurrency
    BY <1>3, <2>1 DEF Grants!Covers
  <2>2. CASE d.currency # NoCurrency
    <3>1. s.currencies = {} \/ d.currency \in s.currencies
      BY <2>2, TargetCovered DEF Grants!TargetCurrency
    <3>2. t.currencies = {d.currency}
      BY <1>3, <2>2
    <3>3. Grants(k)!Covers(t.currencies, c.currencies) <=> c.currencies = {d.currency}
      BY <3>2 DEF Grants!Covers
    <3> QED BY <2>2, <3>1, <3>3
  <2> QED BY <2>1, <2>2
<1>6. Grants(k)!Allows(t, c, "PAYMENT")
        <=> /\ \A x \in GrantDims : Grants(k)!Covers(t.at[x], c.at[x])
            /\ Grants(k)!Covers(t.currencies, c.currencies)
            /\ Grants(k)!UnderCeiling(d.ceiling, c)
  <2> HIDE DEF t
  <2> QED BY <1>3, ListedChecks DEF Grants!Allows
<1>7. Grants(k)!PaymentListed(s, d, c) <=> Grants(k)!Allows(t, c, "PAYMENT")
  <2> HIDE DEF t
  <2> QED BY <1>4, <1>5, <1>6 DEF Grants!PaymentListed
<1> QED BY <1>7

\* A delegate finds only exports the acknowledgement admits.
LEMMA ExportsListed ==
  ASSUME NEW k \in GrantParts, NEW s \in Grants(k)!Scope, NEW d \in Grants(k)!DelegationScope,
         Grants(k)!StrictlyNarrows(s, d), NEW c, Grants(k)!ExportListed(s, d, c)
  PROVE  Grants(k)!Allows(Grants(k)!DelegatedScope(s, d), c, "ACCOUNTING")
<1> DEFINE t == Grants(k)!DelegatedScope(s, d)
<1>1. /\ t.at = Grants(k)!NarrowedAt(s, d)
      /\ t.ceiling = IF d.ceiling = NoCeiling THEN s.ceiling ELSE d.ceiling
  BY LeastIsGiven DEF Grants!DelegatedScope
<1>2. /\ \A x \in Grants(k)!Checked("ACCOUNTING") : Grants(k)!Covers(s.at[x], c.at[x])
      /\ \A x \in Grants(k)!Selected(d) : c.at[x] = {d.at[x]}
      /\ Grants(k)!UnderCeiling(s.ceiling, c) /\ Grants(k)!UnderCeiling(d.ceiling, c)
  BY DEF Grants!ExportListed
<1>3. \A x \in Grants(k)!Checked("ACCOUNTING") : Grants(k)!Covers(t.at[x], c.at[x])
  <2> SUFFICES ASSUME NEW x \in Grants(k)!Checked("ACCOUNTING")
               PROVE  Grants(k)!Covers(t.at[x], c.at[x])
    OBVIOUS
  <2>1. x \in GrantDims
    BY ListedChecks
  <2>2. Grants(k)!Covers(s.at[x], c.at[x]) /\ (x \in Grants(k)!Selected(d) => c.at[x] = {d.at[x]})
    BY <1>2
  <2> QED BY <1>1, <2>1, <2>2, NarrowedCovers
<1>4. Grants(k)!UnderCeiling(t.ceiling, c)
  BY <1>1, <1>2
<1>5. Grants(k)!Allows(t, c, "ACCOUNTING")
  <2> HIDE DEF t
  <2> QED BY <1>3, <1>4, ListedChecks DEF Grants!Allows
<1> QED BY <1>5

\* A handover it admits is within the delegated scope.
LEMMA HandoversCovered ==
  ASSUME NEW k \in GrantParts, NEW s \in Grants(k)!Scope, NEW d \in Grants(k)!DelegationScope,
         Grants(k)!StrictlyNarrows(s, d), NEW c, Grants(k)!HandoverAllowed(s, d, c),
         NEW x \in {"branch", "unit", "cashbox"} \cap GrantDims
  PROVE  Grants(k)!Covers(Grants(k)!DelegatedScope(s, d).at[x], c.at[x])
<1>1. Grants(k)!Covers(s.at[x], c.at[x]) /\ (x \in Grants(k)!Selected(d) => c.at[x] = {d.at[x]})
  BY DEF Grants!HandoverAllowed
<1>2. Grants(k)!DelegatedScope(s, d).at = Grants(k)!NarrowedAt(s, d)
  BY DEF Grants!DelegatedScope
<1> QED BY <1>1, <1>2, NarrowedCovers

-------------------------------------------------------------------------------
(* Grants and delegations over time.                                       *)

\* The grant a request or a grant names as its source contains it.
Sourced(k, x) ==
  x.by # NoGrant => x.by \in Grants(k)!Granted /\ Grants(k)!Authorizes(x.by, x)

GrantsSourced(k) ==
  \A g \in Grants(k)!Granted : Grants(k)!WellFormed(grants[g].scope) /\ Sourced(k, grants[g])

RequestsSourced(k) ==
  \A r \in GrantSetting[k].requests : requests[r] # NoRequest =>
    Grants(k)!WellFormed(requests[r].scope) /\ Sourced(k, requests[r])

\* What a delegation is admitted on.
Narrow(k, x) ==
  /\ x.grant \in Grants(k)!Granted
  /\ grants[x.grant].from <= x.from /\ x.to <= grants[x.grant].to
  /\ Grants(k)!WellFormedDelegation(x.scope)
  /\ Grants(k)!StrictlyNarrows(grants[x.grant].scope, x.scope)

DelegationsNarrow(k) == \A d \in Grants(k)!Delegated : Narrow(k, delegations[d])

GrantsDiffer(k) ==
  \A g, h \in Grants(k)!Granted : g # h => ~Grants(k)!SameGrant(g, grants[h])

\* What every step keeps.
GrantInvariant(k) ==
  /\ Grants(k)!GrantsTypeOK
  /\ GrantsSourced(k)
  /\ RequestsSourced(k)
  /\ DelegationsNarrow(k)
  /\ GrantsDiffer(k)

LEMMA GrantsStart ==
  ASSUME NEW k \in GrantParts, Grants(k)!Init
  PROVE  GrantInvariant(k)
<1>1. /\ now = 0
      /\ roles = GrantSetting[k].foundingRoles
      /\ grants = GrantSetting[k].founding
      /\ delegations = [d \in GrantSetting[k].delegations |-> NoDelegation]
      /\ requests = [r \in GrantSetting[k].requests |-> NoRequest]
  BY DEF Grants!Init
<1>2. Grants(k)!FoundingAssumption /\ MaxTime \in Nat
  BY PartsAssumption DEF Grants!GrantAssumption
<1>3. Grants(k)!GrantsTypeOK
  BY <1>1, <1>2 DEF Grants!GrantsTypeOK, Grants!FoundingAssumption, Grants!Times
<1>4. \A g \in Grants(k)!Granted :
        /\ grants[g].scope = Grants(k)!OpenScope /\ grants[g].by = NoGrant
        /\ \A h \in Grants(k)!Granted : h = g
  BY <1>1, <1>2 DEF Grants!FoundingAssumption, Grants!Granted
<1>5. Grants(k)!WellFormed(Grants(k)!OpenScope)
  BY DEF Grants!WellFormed, Grants!OpenScope
<1>6. GrantsSourced(k) /\ GrantsDiffer(k)
  BY <1>4, <1>5 DEF GrantsSourced, Sourced, GrantsDiffer
<1>7. RequestsSourced(k)
  BY <1>1 DEF RequestsSourced
<1>8. DelegationsNarrow(k)
  BY <1>1 DEF DelegationsNarrow, Grants!Delegated
<1> QED BY <1>3, <1>6, <1>7, <1>8 DEF GrantInvariant

\* A grant or delegation that exists stays as it is.
LEMMA NothingRevoked ==
  ASSUME NEW k \in GrantParts, Grants(k)!GrantsTypeOK, [Grants(k)!Next]_(Grants(k)!vars)
  PROVE  /\ \A g \in Grants(k)!Granted : g \in Grants(k)!Granted' /\ grants'[g] = grants[g]
         /\ \A d \in Grants(k)!Delegated : d \in Grants(k)!Delegated' /\ delegations'[d] = delegations[d]
<1> USE DEF Grants!Granted, Grants!Delegated
<1>0. /\ grants \in [GrantSetting[k].grants -> Grants(k)!Grant \cup {NoGrant}]
      /\ delegations \in [GrantSetting[k].delegations -> Grants(k)!Delegation \cup {NoDelegation}]
  BY DEF Grants!GrantsTypeOK
<1>1. CASE grants' = grants /\ delegations' = delegations
  BY <1>1
<1>2. ASSUME NEW r \in GrantSetting[k].requests, Grants(k)!CommitGrant(r), grants' # grants
      PROVE  /\ \A g \in Grants(k)!Granted : g \in Grants(k)!Granted' /\ grants'[g] = grants[g]
             /\ delegations' = delegations
  <2>1. PICK g \in GrantSetting[k].grants \ Grants(k)!Granted :
          grants' = [grants EXCEPT ![g] = requests[r]]
    BY <1>2 DEF Grants!CommitGrant
  <2> QED BY <1>0, <1>2, <2>1 DEF Grants!CommitGrant
<1>3. ASSUME NEW actor \in Users, NEW x \in Grants(k)!DelegationRequests,
             Grants(k)!CreateDelegation(actor, x)
      PROVE  /\ \A d \in Grants(k)!Delegated :
                  d \in Grants(k)!Delegated' /\ delegations'[d] = delegations[d]
             /\ grants' = grants
  <2>1. PICK d \in GrantSetting[k].delegations \ Grants(k)!Delegated :
          delegations' = [delegations EXCEPT ![d] = x]
    BY <1>3 DEF Grants!CreateDelegation
  <2> QED BY <1>0, <1>3, <2>1 DEF Grants!CreateDelegation
<1>4. \/ grants' = grants /\ delegations' = delegations
      \/ \E r \in GrantSetting[k].requests : Grants(k)!CommitGrant(r)
      \/ \E actor \in Users, x \in Grants(k)!DelegationRequests : Grants(k)!CreateDelegation(actor, x)
  BY DEF Grants!Next, Grants!vars, Grants!Tick, Grants!CreateRole, Grants!PrepareGrant,
         Grants!AbandonGrant
<1>5. \A r \in GrantSetting[k].requests : Grants(k)!CommitGrant(r) => delegations' = delegations
  BY DEF Grants!CommitGrant
<1> QED BY <1>1, <1>2, <1>3, <1>4, <1>5

\* What a command may ask is a grant, or a delegation.
LEMMA AskedTyped ==
  ASSUME NEW k \in GrantParts, Grants(k)!GrantsTypeOK
  PROVE  /\ Grants(k)!GrantRequests \subseteq Grants(k)!Grant
         /\ Grants(k)!DelegationRequests \subseteq Grants(k)!Delegation
<1>1. Grants(k)!Granted \subseteq GrantSetting[k].grants /\ now \in Grants(k)!Times
  BY DEF Grants!GrantsTypeOK, Grants!Granted
<1>2. /\ GrantSetting[k].scopes \subseteq Grants(k)!Scope
      /\ GrantSetting[k].narrowings \subseteq Grants(k)!DelegationScope
  BY PartsAssumption DEF Grants!GrantAssumption
<1>3. Grants(k)!GrantRequests \subseteq Grants(k)!Grant
  BY <1>1, <1>2 DEF Grants!GrantRequests, Grants!Grant
<1>4. Grants(k)!DelegationRequests \subseteq Grants(k)!Delegation
  BY <1>1, <1>2 DEF Grants!DelegationRequests, Grants!Delegation
<1> QED BY <1>3, <1>4

LEMMA GrantTypesStep ==
  ASSUME NEW k \in GrantParts, Grants(k)!GrantsTypeOK, [Grants(k)!Next]_(Grants(k)!vars)
  PROVE  Grants(k)!GrantsTypeOK'
<1>0. /\ now \in Grants(k)!Times
      /\ roles \in [GrantSetting[k].roles -> ((SUBSET Permissions) \ {{}}) \cup {NoRole}]
      /\ grants \in [GrantSetting[k].grants -> Grants(k)!Grant \cup {NoGrant}]
      /\ delegations \in [GrantSetting[k].delegations -> Grants(k)!Delegation \cup {NoDelegation}]
      /\ requests \in [GrantSetting[k].requests -> Grants(k)!Grant \cup {NoRequest}]
  BY DEF Grants!GrantsTypeOK
<1> SUFFICES /\ now' \in Grants(k)!Times
             /\ roles' \in [GrantSetting[k].roles -> ((SUBSET Permissions) \ {{}}) \cup {NoRole}]
             /\ grants' \in [GrantSetting[k].grants -> Grants(k)!Grant \cup {NoGrant}]
             /\ delegations' \in [GrantSetting[k].delegations -> Grants(k)!Delegation \cup {NoDelegation}]
             /\ requests' \in [GrantSetting[k].requests -> Grants(k)!Grant \cup {NoRequest}]
  BY DEF Grants!GrantsTypeOK
<1>1. CASE Grants(k)!Tick
  <2>1. MaxTime \in Nat
    BY PartsAssumption DEF Grants!GrantAssumption
  <2>2. now' \in Grants(k)!Times
    BY <1>0, <1>1, <2>1 DEF Grants!Tick, Grants!Times
  <2> QED BY <1>0, <1>1, <2>2 DEF Grants!Tick
<1>2. ASSUME NEW j \in GrantSetting[k].roles, NEW permissions \in SUBSET Permissions,
             Grants(k)!CreateRole(j, permissions)
      PROVE  /\ now' = now /\ grants' = grants /\ delegations' = delegations /\ requests' = requests
             /\ roles' \in [GrantSetting[k].roles -> ((SUBSET Permissions) \ {{}}) \cup {NoRole}]
  <2>1. permissions # {} /\ roles' = [roles EXCEPT ![j] = permissions]
    BY <1>2 DEF Grants!CreateRole, Grants!ValidRole
  <2> QED BY <1>0, <1>2, <2>1 DEF Grants!CreateRole
<1>3. ASSUME NEW r \in GrantSetting[k].requests, NEW actor \in Users, NEW x \in Grants(k)!GrantRequests,
             Grants(k)!PrepareGrant(r, actor, x)
      PROVE  /\ now' = now /\ roles' = roles /\ grants' = grants /\ delegations' = delegations
             /\ requests' \in [GrantSetting[k].requests -> Grants(k)!Grant \cup {NoRequest}]
  <2>1. x \in Grants(k)!Grant
    BY AskedTyped
  <2> QED BY <1>0, <1>3, <2>1 DEF Grants!PrepareGrant
<1>4. ASSUME NEW r \in GrantSetting[k].requests, Grants(k)!CommitGrant(r)
      PROVE  /\ now' = now /\ roles' = roles /\ delegations' = delegations
             /\ requests' \in [GrantSetting[k].requests -> Grants(k)!Grant \cup {NoRequest}]
             /\ grants' \in [GrantSetting[k].grants -> Grants(k)!Grant \cup {NoGrant}]
  <2>1. requests[r] \in Grants(k)!Grant
    BY <1>0, <1>4 DEF Grants!CommitGrant
  <2>2. \/ grants' = grants
        \/ \E g \in GrantSetting[k].grants : grants' = [grants EXCEPT ![g] = requests[r]]
    BY <1>4 DEF Grants!CommitGrant
  <2>3. grants' \in [GrantSetting[k].grants -> Grants(k)!Grant \cup {NoGrant}]
    BY <1>0, <2>1, <2>2
  <2> QED BY <1>0, <1>4, <2>3 DEF Grants!CommitGrant
<1>5. ASSUME NEW r \in GrantSetting[k].requests, Grants(k)!AbandonGrant(r)
      PROVE  /\ now' = now /\ roles' = roles /\ grants' = grants /\ delegations' = delegations
             /\ requests' \in [GrantSetting[k].requests -> Grants(k)!Grant \cup {NoRequest}]
  BY <1>0, <1>5 DEF Grants!AbandonGrant
<1>6. ASSUME NEW actor \in Users, NEW x \in Grants(k)!DelegationRequests,
             Grants(k)!CreateDelegation(actor, x)
      PROVE  /\ now' = now /\ roles' = roles /\ grants' = grants /\ requests' = requests
             /\ delegations' \in
                  [GrantSetting[k].delegations -> Grants(k)!Delegation \cup {NoDelegation}]
  <2>1. x \in Grants(k)!Delegation
    BY AskedTyped
  <2>2. \E d \in GrantSetting[k].delegations : delegations' = [delegations EXCEPT ![d] = x]
    BY <1>6 DEF Grants!CreateDelegation
  <2> QED BY <1>0, <1>6, <2>1, <2>2 DEF Grants!CreateDelegation
<1>7. CASE UNCHANGED Grants(k)!vars
  BY <1>0, <1>7 DEF Grants!vars
<1> QED BY <1>0, <1>1, <1>2, <1>3, <1>4, <1>5, <1>6, <1>7 DEF Grants!Next

\* How grants and requests change.
LEMMA GrantMoves ==
  ASSUME NEW k \in GrantParts, Grants(k)!GrantsTypeOK, [Grants(k)!Next]_(Grants(k)!vars)
  PROVE  /\ \A g \in Grants(k)!Granted' :
              \/ g \in Grants(k)!Granted /\ grants'[g] = grants[g]
              \/ /\ \A h \in Grants(k)!Granted' \ {g} : h \in Grants(k)!Granted
                 /\ \E r \in GrantSetting[k].requests :
                      /\ requests[r] # NoRequest /\ grants'[g] = requests[r]
                      /\ ~Grants(k)!ExactGrantExists(requests[r])
         /\ \A r \in GrantSetting[k].requests : requests'[r] # NoRequest =>
              \/ requests'[r] = requests[r]
              \/ Grants(k)!WellFormed(requests'[r].scope) /\ Sourced(k, requests'[r])
<1>0. /\ grants \in [GrantSetting[k].grants -> Grants(k)!Grant \cup {NoGrant}]
      /\ requests \in [GrantSetting[k].requests -> Grants(k)!Grant \cup {NoRequest}]
  BY DEF Grants!GrantsTypeOK
<1>1. CASE grants' = grants /\ requests' = requests
  BY <1>1 DEF Grants!Granted
<1>2. ASSUME NEW r \in GrantSetting[k].requests, NEW actor \in Users, NEW x \in Grants(k)!GrantRequests,
             Grants(k)!PrepareGrant(r, actor, x)
      PROVE  /\ grants' = grants
             /\ \A q \in GrantSetting[k].requests : requests'[q] # requests[q] =>
                  Grants(k)!WellFormed(requests'[q].scope) /\ Sourced(k, requests'[q])
  <2>1. grants' = grants /\ requests' = [requests EXCEPT ![r] = x]
    BY <1>2 DEF Grants!PrepareGrant
  <2>2. Grants(k)!WellFormed(x.scope) /\ Grants(k)!Authorizes(x.by, x)
    BY <1>2 DEF Grants!PrepareGrant
  <2>3. x.by \in Grants(k)!Granted
    BY <1>2 DEF Grants!PrepareGrant, Grants!PermissionGrants
  <2>4. requests'[r] = x /\ \A q \in GrantSetting[k].requests \ {r} : requests'[q] = requests[q]
    BY <1>0, <2>1
  <2> QED BY <2>1, <2>2, <2>3, <2>4 DEF Sourced
<1>3. ASSUME NEW r \in GrantSetting[k].requests,
             Grants(k)!CommitGrant(r) \/ Grants(k)!AbandonGrant(r)
      PROVE  \A q \in GrantSetting[k].requests :
               requests'[q] # NoRequest => requests'[q] = requests[q]
  <2>1. requests' = [requests EXCEPT ![r] = NoRequest]
    BY <1>3 DEF Grants!CommitGrant, Grants!AbandonGrant
  <2> QED BY <1>0, <2>1
<1>4. ASSUME NEW r \in GrantSetting[k].requests, Grants(k)!CommitGrant(r), grants' # grants,
             NEW g \in Grants(k)!Granted'
      PROVE  \/ g \in Grants(k)!Granted /\ grants'[g] = grants[g]
             \/ /\ \A h \in Grants(k)!Granted' \ {g} : h \in Grants(k)!Granted
                /\ requests[r] # NoRequest /\ grants'[g] = requests[r]
                /\ ~Grants(k)!ExactGrantExists(requests[r])
  <2>1. /\ requests[r] # NoRequest /\ ~Grants(k)!ExactGrantExists(requests[r])
        /\ \E h \in GrantSetting[k].grants \ Grants(k)!Granted :
             grants' = [grants EXCEPT ![h] = requests[r]]
    BY <1>4 DEF Grants!CommitGrant
  <2>2. PICK h \in GrantSetting[k].grants \ Grants(k)!Granted :
          grants' = [grants EXCEPT ![h] = requests[r]]
    BY <2>1
  <2>3. /\ grants'[h] = requests[r]
        /\ \A j \in GrantSetting[k].grants \ {h} : grants'[j] = grants[j]
    BY <1>0, <2>2
  <2>4. \A j \in Grants(k)!Granted' \ {h} : j \in Grants(k)!Granted
    BY <2>3 DEF Grants!Granted
  <2>5. CASE g = h
    BY <2>1, <2>3, <2>4, <2>5
  <2>6. CASE g # h
    BY <2>3, <2>4, <2>6 DEF Grants!Granted
  <2> QED BY <2>5, <2>6
<1>5. \/ grants' = grants /\ requests' = requests
      \/ \E r \in GrantSetting[k].requests, actor \in Users, x \in Grants(k)!GrantRequests :
           Grants(k)!PrepareGrant(r, actor, x)
      \/ \E r \in GrantSetting[k].requests : Grants(k)!CommitGrant(r)
      \/ \E r \in GrantSetting[k].requests : Grants(k)!AbandonGrant(r)
  BY DEF Grants!Next, Grants!vars, Grants!Tick, Grants!CreateRole, Grants!CreateDelegation
<1>6. CASE grants' = grants
  <2>1. \A g \in Grants(k)!Granted' : g \in Grants(k)!Granted /\ grants'[g] = grants[g]
    BY <1>6 DEF Grants!Granted
  <2> QED BY <1>1, <1>2, <1>3, <1>5, <2>1
<1>7. CASE grants' # grants
  <2>1. PICK r \in GrantSetting[k].requests : Grants(k)!CommitGrant(r)
    BY <1>2, <1>5, <1>7 DEF Grants!AbandonGrant
  <2> QED BY <1>3, <1>4, <1>7, <2>1
<1> QED BY <1>6, <1>7

LEMMA SourcedStep ==
  ASSUME NEW k \in GrantParts, GrantInvariant(k), [Grants(k)!Next]_(Grants(k)!vars)
  PROVE  GrantsSourced(k)' /\ RequestsSourced(k)'
<1>0. Grants(k)!GrantsTypeOK /\ GrantsSourced(k) /\ RequestsSourced(k)
  BY DEF GrantInvariant
<1>1. ASSUME NEW g \in Grants(k)!Granted'
      PROVE  Grants(k)!WellFormed(grants'[g].scope) /\ Sourced(k, grants'[g])
  <2>1. CASE g \in Grants(k)!Granted /\ grants'[g] = grants[g]
    BY <1>0, <2>1 DEF GrantsSourced
  <2>2. CASE \E r \in GrantSetting[k].requests : requests[r] # NoRequest /\ grants'[g] = requests[r]
    BY <1>0, <2>2 DEF RequestsSourced
  <2> QED BY <1>0, <2>1, <2>2, GrantMoves
<1>2. ASSUME NEW r \in GrantSetting[k].requests, requests'[r] # NoRequest
      PROVE  Grants(k)!WellFormed(requests'[r].scope) /\ Sourced(k, requests'[r])
  <2>1. CASE requests'[r] = requests[r]
    BY <1>0, <1>2, <2>1 DEF RequestsSourced
  <2> QED BY <1>0, <1>2, <2>1, GrantMoves
<1>3. ASSUME NEW g \in Grants(k)!Granted' PROVE Sourced(k, grants[g])'
  <2>1. grants'[g].by # NoGrant =>
          /\ grants'[g].by \in Grants(k)!Granted'
          /\ Grants(k)!Authorizes(grants'[g].by, grants'[g])
          /\ grants'[grants'[g].by] = grants[grants'[g].by]
    BY <1>0, <1>1, NothingRevoked DEF Sourced
  <2> QED BY <2>1 DEF Sourced, Grants!Authorizes
<1>4. ASSUME NEW r \in GrantSetting[k].requests, requests'[r] # NoRequest
      PROVE  Sourced(k, requests[r])'
  <2>1. requests'[r].by # NoGrant =>
          /\ requests'[r].by \in Grants(k)!Granted'
          /\ Grants(k)!Authorizes(requests'[r].by, requests'[r])
          /\ grants'[requests'[r].by] = grants[requests'[r].by]
    BY <1>0, <1>2, <1>4, NothingRevoked DEF Sourced
  <2> QED BY <2>1 DEF Sourced, Grants!Authorizes
<1>5. GrantsSourced(k)'
  BY <1>1, <1>3 DEF GrantsSourced, Grants!WellFormed
<1>6. RequestsSourced(k)'
  BY <1>2, <1>4 DEF RequestsSourced, Grants!WellFormed
<1> QED BY <1>5, <1>6

LEMMA DifferStep ==
  ASSUME NEW k \in GrantParts, GrantInvariant(k), [Grants(k)!Next]_(Grants(k)!vars)
  PROVE  GrantsDiffer(k)'
<1>0. Grants(k)!GrantsTypeOK /\ GrantsDiffer(k)
  BY DEF GrantInvariant
<1> DEFINE plain(x) == [x EXCEPT !.by = NoGrant, !.scope = Grants(k)!ComparableScope(@)]
<1> SUFFICES ASSUME NEW g \in Grants(k)!Granted', NEW h \in Grants(k)!Granted', g # h,
                    plain(grants'[g]) = plain(grants'[h])
             PROVE  FALSE
  BY DEF GrantsDiffer, Grants!SameGrant, Grants!ComparableScope, Grants!EffectiveCurrencies
<1>1. ASSUME NEW a \in Grants(k)!Granted, NEW x, plain(grants[a]) = plain(x)
      PROVE  Grants(k)!ExactGrantExists(x)
  BY <1>1 DEF Grants!ExactGrantExists, Grants!SameGrant
<1>2. CASE /\ g \in Grants(k)!Granted /\ grants'[g] = grants[g]
           /\ h \in Grants(k)!Granted /\ grants'[h] = grants[h]
  BY <1>0, <1>2 DEF GrantsDiffer, Grants!SameGrant
<1>3. ASSUME NEW a \in Grants(k)!Granted', NEW b \in Grants(k)!Granted', a # b,
             plain(grants'[a]) = plain(grants'[b]),
             ~(a \in Grants(k)!Granted /\ grants'[a] = grants[a])
      PROVE  FALSE
  <2>1. /\ b \in Grants(k)!Granted
        /\ \E r \in GrantSetting[k].requests :
             grants'[a] = requests[r] /\ ~Grants(k)!ExactGrantExists(requests[r])
    BY <1>0, <1>3, GrantMoves
  <2>2. grants'[b] = grants[b]
    BY <1>0, <2>1, NothingRevoked
  <2> HIDE DEF plain
  <2> QED BY <1>1, <1>3, <2>1, <2>2
<1> HIDE DEF plain
<1> QED BY <1>2, <1>3

LEMMA NarrowStep ==
  ASSUME NEW k \in GrantParts, GrantInvariant(k), [Grants(k)!Next]_(Grants(k)!vars)
  PROVE  DelegationsNarrow(k)'
<1>0. Grants(k)!GrantsTypeOK /\ \A d \in Grants(k)!Delegated : Narrow(k, delegations[d])
  BY DEF GrantInvariant, DelegationsNarrow
<1>1. delegations \in [GrantSetting[k].delegations -> Grants(k)!Delegation \cup {NoDelegation}]
  BY <1>0 DEF Grants!GrantsTypeOK
<1>2. ASSUME NEW d \in Grants(k)!Delegated' PROVE Narrow(k, delegations'[d])
  <2>1. CASE delegations' = delegations
    BY <1>0, <1>2, <2>1 DEF Grants!Delegated
  <2>2. ASSUME NEW actor \in Users, NEW x \in Grants(k)!DelegationRequests,
               Grants(k)!CreateDelegation(actor, x)
        PROVE  Narrow(k, delegations'[d])
    <3>1. x.grant \in Grants(k)!Granted
      BY <2>2 DEF Grants!CreateDelegation, Grants!PermissionGrants
    <3>2. Narrow(k, x)
      BY <2>2, <3>1 DEF Grants!CreateDelegation, Grants!WithinWindow, Narrow
    <3>3. PICK e \in GrantSetting[k].delegations \ Grants(k)!Delegated :
            delegations' = [delegations EXCEPT ![e] = x]
      BY <2>2 DEF Grants!CreateDelegation
    <3>4. CASE d = e
      BY <1>1, <3>2, <3>3, <3>4
    <3>5. CASE d # e
      BY <1>0, <1>1, <1>2, <3>3, <3>5 DEF Grants!Delegated
    <3> QED BY <3>4, <3>5
  <2>3. \/ delegations' = delegations
        \/ \E actor \in Users, x \in Grants(k)!DelegationRequests : Grants(k)!CreateDelegation(actor, x)
    BY DEF Grants!Next, Grants!vars, Grants!Tick, Grants!CreateRole, Grants!PrepareGrant,
           Grants!CommitGrant, Grants!AbandonGrant
  <2> QED BY <2>1, <2>2, <2>3
<1>3. ASSUME NEW d \in Grants(k)!Delegated' PROVE Narrow(k, delegations[d])'
  <2>1. /\ delegations'[d].grant \in Grants(k)!Granted'
        /\ grants'[delegations'[d].grant] = grants[delegations'[d].grant]
    BY <1>0, <1>2, NothingRevoked DEF Narrow
  <2>2. Narrow(k, delegations'[d])
    BY <1>2
  <2> QED BY <2>1, <2>2 DEF Narrow, Grants!WellFormedDelegation, Grants!StrictlyNarrows, Grants!Selected,
             Grants!TargetCurrency, Grants!EffectiveCurrencies, Grants!ContainsValues,
             Grants!CeilingWithin, Grants!LowerCeiling, Grants!DelegatedDims
<1> QED BY <1>3 DEF DelegationsNarrow

LEMMA GrantInvariantStep ==
  ASSUME NEW k \in GrantParts, GrantInvariant(k), [Grants(k)!Next]_(Grants(k)!vars)
  PROVE  GrantInvariant(k)'
<1>1. Grants(k)!GrantsTypeOK'
  BY GrantTypesStep DEF GrantInvariant
<1> QED BY <1>1, SourcedStep, DifferStep, NarrowStep DEF GrantInvariant

\* Where the properties look.
LEMMA GrantShapes ==
  ASSUME NEW k \in GrantParts, GrantInvariant(k)
  PROVE  /\ \A g \in Grants(k)!Granted :
              /\ grants[g] \in Grants(k)!Grant /\ grants[g].scope \in Grants(k)!Scope
              /\ grants[g].scope.wide => grants[g].scope = Grants(k)!OpenScope
         /\ \A d \in Grants(k)!Delegated :
              /\ delegations[d] \in Grants(k)!Delegation
              /\ delegations[d].scope \in Grants(k)!DelegationScope
              /\ Narrow(k, delegations[d])
              /\ Grants(k)!SourceScope(d) \in Grants(k)!Scope
              /\ Grants(k)!StrictlyNarrows(Grants(k)!SourceScope(d), delegations[d].scope)
         /\ now \in Nat
<1>1. /\ grants \in [GrantSetting[k].grants -> Grants(k)!Grant \cup {NoGrant}]
      /\ delegations \in [GrantSetting[k].delegations -> Grants(k)!Delegation \cup {NoDelegation}]
      /\ now \in Nat
  BY DEF GrantInvariant, Grants!GrantsTypeOK, Grants!Times
<1>2. ASSUME NEW g \in Grants(k)!Granted
      PROVE  /\ grants[g] \in Grants(k)!Grant /\ grants[g].scope \in Grants(k)!Scope
             /\ grants[g].scope.wide => grants[g].scope = Grants(k)!OpenScope
  <2>1. grants[g] \in Grants(k)!Grant
    BY <1>1 DEF Grants!Granted
  <2>2. grants[g].scope \in Grants(k)!Scope
    BY <2>1 DEF Grants!Grant
  <2>3. Grants(k)!WellFormed(grants[g].scope)
    BY DEF GrantInvariant, GrantsSourced
  <2>4. ASSUME grants[g].scope.wide PROVE grants[g].scope = Grants(k)!OpenScope
    <3>1. grants[g].scope = [Grants(k)!OpenScope EXCEPT !.wide = TRUE]
      BY <2>2, <2>3, <2>4 DEF Grants!WellFormed, Grants!Scope
    <3> QED BY <3>1 DEF Grants!OpenScope
  <2> QED BY <2>1, <2>2, <2>4
<1>3. ASSUME NEW d \in Grants(k)!Delegated
      PROVE  /\ delegations[d] \in Grants(k)!Delegation
             /\ delegations[d].scope \in Grants(k)!DelegationScope
             /\ Narrow(k, delegations[d])
             /\ Grants(k)!SourceScope(d) \in Grants(k)!Scope
             /\ Grants(k)!StrictlyNarrows(Grants(k)!SourceScope(d), delegations[d].scope)
  <2>1. delegations[d] \in Grants(k)!Delegation
    BY <1>1 DEF Grants!Delegated
  <2>2. delegations[d].scope \in Grants(k)!DelegationScope
    BY <2>1 DEF Grants!Delegation
  <2>3. Narrow(k, delegations[d])
    BY DEF GrantInvariant, DelegationsNarrow
  <2> QED BY <1>2, <2>1, <2>2, <2>3 DEF Narrow, Grants!SourceScope
<1> QED BY <1>1, <1>2, <1>3

\* A grant without its source and with another scope.
LEMMA PlainGrant ==
  ASSUME NEW k \in GrantParts, NEW x \in Grants(k)!Grant, NEW z
  PROVE  [x EXCEPT !.by = NoGrant, !.scope = z]
           = [user |-> x.user, role |-> x.role, scope |-> z, from |-> x.from, to |-> x.to, by |-> NoGrant]
<1> DEFINE y == [x EXCEPT !.by = NoGrant]
<1>1. x = [user |-> x.user, role |-> x.role, scope |-> x.scope, from |-> x.from, to |-> x.to, by |-> x.by]
  BY DEF Grants!Grant
<1>2. y = [user |-> x.user, role |-> x.role, scope |-> x.scope, from |-> x.from, to |-> x.to, by |-> NoGrant]
  BY <1>1
<1>3. [y EXCEPT !.scope = z]
        = [user |-> x.user, role |-> x.role, scope |-> z, from |-> x.from, to |-> x.to, by |-> NoGrant]
  <2> HIDE DEF y
  <2> QED BY <1>2
<1>4. [x EXCEPT !.by = NoGrant, !.scope = z] = [y EXCEPT !.scope = z]
  OBVIOUS
<1> QED BY <1>3, <1>4

LEMMA GivenOnce ==
  ASSUME NEW k \in GrantParts, GrantInvariant(k)
  PROVE  Grants(k)!NoGrantTwice
<1> SUFFICES ASSUME NEW g \in Grants(k)!Granted, NEW h \in Grants(k)!Granted, g # h,
                    grants[g].user = grants[h].user, grants[g].role = grants[h].role,
                    grants[g].from = grants[h].from, grants[g].to = grants[h].to,
                    grants[g].scope.at = grants[h].scope.at,
                    grants[g].scope.ceiling = grants[h].scope.ceiling,
                    Grants(k)!EffectiveCurrencies(grants[g].scope)
                      = Grants(k)!EffectiveCurrencies(grants[h].scope)
             PROVE  FALSE
  BY DEF Grants!NoGrantTwice
<1> DEFINE s == grants[g].scope
           t == grants[h].scope
<1>1. /\ grants[g] \in Grants(k)!Grant /\ s \in Grants(k)!Scope
      /\ grants[h] \in Grants(k)!Grant /\ t \in Grants(k)!Scope
  BY GrantShapes
<1>2. Grants(k)!WellFormed(s) /\ Grants(k)!WellFormed(t)
  BY DEF GrantInvariant, GrantsSourced
<1>3. \A x \in Grants(k)!Scope : Grants(k)!WellFormed(x) =>
        (x.wide <=> x.at = Grants(k)!OpenAt /\ x.currencies = {} /\ x.ceiling = NoCeiling)
  BY DEF Grants!WellFormed, Grants!OpenScope, Grants!Scope
<1>4. s.wide = t.wide
  <2>1. s.ceiling = NoCeiling => s.currencies = t.currencies
    BY DEF Grants!EffectiveCurrencies
  <2>2. s.wide <=> t.wide
    BY <1>1, <1>2, <1>3, <2>1
  <2>3. s.wide \in BOOLEAN /\ t.wide \in BOOLEAN
    BY <1>1 DEF Grants!Scope
  <2> QED BY <2>2, <2>3
<1>5. Grants(k)!ComparableScope(s) = Grants(k)!ComparableScope(t)
  <2>1. \A x \in Grants(k)!Scope :
          Grants(k)!ComparableScope(x)
            = [wide |-> x.wide, at |-> x.at, currencies |-> Grants(k)!EffectiveCurrencies(x),
               ceiling |-> x.ceiling]
    BY DEF Grants!ComparableScope, Grants!Scope
  <2> QED BY <1>1, <1>4, <2>1
<1>6. Grants(k)!SameGrant(g, grants[h])
  <2> DEFINE z == Grants(k)!ComparableScope(s)
  <2>1. [grants[g] EXCEPT !.by = NoGrant, !.scope = z] = [grants[h] EXCEPT !.by = NoGrant, !.scope = z]
    <3> HIDE DEF z
    <3>1. [grants[g] EXCEPT !.by = NoGrant, !.scope = z]
            = [user |-> grants[g].user, role |-> grants[g].role, scope |-> z,
               from |-> grants[g].from, to |-> grants[g].to, by |-> NoGrant]
      BY <1>1, PlainGrant
    <3>2. [grants[h] EXCEPT !.by = NoGrant, !.scope = z]
            = [user |-> grants[h].user, role |-> grants[h].role, scope |-> z,
               from |-> grants[h].from, to |-> grants[h].to, by |-> NoGrant]
      BY <1>1, PlainGrant
    <3> QED BY <3>1, <3>2
  <2>2. z = Grants(k)!ComparableScope(t)
    BY <1>5
  <2> QED BY <2>1, <2>2 DEF Grants!SameGrant
<1> QED BY <1>6 DEF GrantInvariant, GrantsDiffer

LEMMA ContextTyped ==
  ASSUME NEW k \in GrantParts, NEW c \in GrantSetting[k].contexts
  PROVE  c.amount \in Nat /\ c.base \in c.currencies
<1>1. Grants(k)!ContextAssumption
  BY PartsAssumption
<1> QED BY <1>1 DEF Grants!ContextAssumption

LEMMA WithinSource ==
  ASSUME NEW k \in GrantParts, GrantInvariant(k)
  PROVE  Grants(k)!GrantsStayWithinSource
<1> SUFFICES ASSUME NEW g \in Grants(k)!Granted, grants[g].by # NoGrant, Grants(k)!During(grants[g])
             PROVE  /\ Grants(k)!During(grants[grants[g].by])
                    /\ \A c \in GrantSetting[k].contexts, p \in Grants(k)!Profiles :
                         /\ Grants(k)!Allows(grants[g].scope, c, p)
                         /\ \/ Grants(k)!OneCurrency(c) \/ grants[g].scope.currencies # {}
                            \/ grants[grants[g].by].scope.currencies = {}
                         => Grants(k)!Allows(grants[grants[g].by].scope, c, p)
  BY DEF Grants!GrantsStayWithinSource
<1> DEFINE v == grants[g].by
<1>1. v \in Grants(k)!Granted /\ Grants(k)!Authorizes(v, grants[g])
  BY DEF GrantInvariant, GrantsSourced, Sourced
<1>2. /\ grants[v].from <= grants[g].from /\ grants[g].to <= grants[v].to
      /\ Grants(k)!GrantContains(grants[v].scope, grants[g].scope)
  BY <1>1 DEF Grants!Authorizes
<1>3. Grants(k)!During(grants[v])
  <2>1. /\ now \in Nat /\ grants[g] \in Grants(k)!Grant /\ grants[v] \in Grants(k)!Grant
        /\ MaxTime \in Nat /\ Forever \in Nat
    BY <1>1, GrantShapes, PartsAssumption DEF Grants!GrantAssumption
  <2>2. /\ grants[g].from \in Nat /\ grants[g].to \in Nat
        /\ grants[v].from \in Nat /\ grants[v].to \in Nat
    BY <2>1 DEF Grants!Grant, Grants!Times, Grants!Ends
  <2>3. grants[g].from <= now /\ now < grants[g].to
    BY DEF Grants!During
  <2>4. grants[v].from <= now /\ now < grants[v].to
    BY <1>2, <2>1, <2>2, <2>3
  <2> QED BY <2>4 DEF Grants!During
<1> HIDE DEF v
<1> QED BY <1>1, <1>2, <1>3, GrantShapes, ContextTyped, ContainedAllows DEF v

LEMMA WithinGrantor ==
  ASSUME NEW k \in GrantParts, GrantInvariant(k)
  PROVE  Grants(k)!DelegateWithinGrantor /\ Grants(k)!DelegationsTakeEffect
<1>1. ASSUME NEW d \in Grants(k)!Delegated, Grants(k)!During(delegations[d])
      PROVE  Grants(k)!During(grants[delegations[d].grant])
  <2> DEFINE v == delegations[d].grant
  <2>1. /\ v \in Grants(k)!Granted
        /\ grants[v].from <= delegations[d].from /\ delegations[d].to <= grants[v].to
    BY GrantShapes DEF Narrow
  <2>2. /\ now \in Nat /\ grants[v] \in Grants(k)!Grant /\ delegations[d] \in Grants(k)!Delegation
        /\ MaxTime \in Nat /\ Forever \in Nat
    BY <2>1, GrantShapes, PartsAssumption DEF Grants!GrantAssumption
  <2>3. /\ delegations[d].from \in Nat /\ delegations[d].to \in Nat
        /\ grants[v].from \in Nat /\ grants[v].to \in Nat
    BY <2>2 DEF Grants!Grant, Grants!Delegation, Grants!Times, Grants!Ends
  <2>4. delegations[d].from <= now /\ now < delegations[d].to
    BY <1>1 DEF Grants!During
  <2>5. grants[v].from <= now /\ now < grants[v].to
    BY <2>1, <2>2, <2>3, <2>4
  <2> QED BY <2>5 DEF Grants!During
<1>2. Grants(k)!DelegateWithinGrantor
  <2> SUFFICES ASSUME NEW d \in Grants(k)!Delegated, Grants(k)!During(delegations[d]),
                      NEW c \in GrantSetting[k].contexts, NEW p \in Grants(k)!Profiles,
                      Grants(k)!Allows(
                        Grants(k)!DelegatedScope(Grants(k)!SourceScope(d), delegations[d].scope), c, p)
               PROVE  Grants(k)!Allows(Grants(k)!SourceScope(d), c, p)
    BY <1>1 DEF Grants!DelegateWithinGrantor
  <2> QED BY GrantShapes, ContextTyped, DelegatedAllows
<1>3. Grants(k)!DelegationsTakeEffect
  <2> SUFFICES ASSUME NEW d \in Grants(k)!Delegated, Grants(k)!During(delegations[d]),
                      ~Grants(k)!OnlyNamesCeilingCurrency(
                         Grants(k)!SourceScope(d), delegations[d].scope)
               PROVE  Grants(k)!DelegationCurrent(d)
    BY DEF Grants!DelegationsTakeEffect
  <2>1. Grants(k)!WellFormedDelegation(delegations[d].scope)
    BY GrantShapes DEF Narrow
  <2>2. Grants(k)!StillNarrows(Grants(k)!SourceScope(d), delegations[d].scope)
    BY <2>1, GrantShapes, NarrowsStill
  <2> QED BY <1>1, <2>2 DEF Grants!DelegationCurrent, Grants!SourceScope
<1> QED BY <1>2, <1>3

LEMMA ListsTrue ==
  ASSUME NEW k \in GrantParts, GrantInvariant(k)
  PROVE  Grants(k)!ShownIsEffective /\ Grants(k)!ListsFollowAuthority
<1>1. Grants(k)!ShownIsEffective
  BY GrantShapes, ShownAllows DEF Grants!ShownIsEffective
<1>2. Grants(k)!ListsFollowAuthority
  <2> SUFFICES ASSUME NEW d \in Grants(k)!Delegated, NEW c \in GrantSetting[k].contexts
               PROVE  LET s == Grants(k)!SourceScope(d)
                          x == delegations[d].scope
                      IN  /\ Grants(k)!PaymentListed(s, x, c)
                               <=> Grants(k)!Allows(Grants(k)!DelegatedScope(
                                     [s EXCEPT !.ceiling = NoCeiling], x), c, "PAYMENT")
                          /\ Grants(k)!ExportListed(s, x, c)
                               => Grants(k)!Allows(Grants(k)!DelegatedScope(s, x), c, "ACCOUNTING")
                          /\ Grants(k)!HandoverAllowed(s, x, c) =>
                               \A y \in {"branch", "unit", "cashbox"} \cap GrantDims :
                                 Grants(k)!Covers(Grants(k)!DelegatedScope(s, x).at[y], c.at[y])
    BY DEF Grants!ListsFollowAuthority
  <2> QED BY GrantShapes, ContextTyped, PaymentsListed, ExportsListed, HandoversCovered
<1> QED BY <1>1, <1>2

\* The scope the list of delegations judges is a scope.
LEMMA ShownTyped ==
  ASSUME NEW k \in GrantParts, NEW s \in Grants(k)!Scope, NEW d \in Grants(k)!DelegationScope
  PROVE  Grants(k)!ShownScope(s, d) \in Grants(k)!Scope
<1>1. Grants(k)!NarrowedAt(s, d) \in [GrantDims -> SUBSET Values]
  BY DelegationTyped DEF Grants!NarrowedAt, Grants!Scope
<1>2. Grants(k)!TargetCurrency(d) \in Currencies \cup {NoCurrency}
  BY DelegationTyped DEF Grants!TargetCurrency
<1>3. d.ceiling \in Grants(k)!Ceilings
  BY DelegationTyped
<1> QED BY <1>1, <1>2, <1>3 DEF Grants!ShownScope, Grants!Scope

LEMMA ListsWithinViewer ==
  ASSUME NEW k \in GrantParts, GrantInvariant(k)
  PROVE  Grants(k)!ListsStayWithinViewer
<1> SUFFICES ASSUME NEW u \in Users, NEW c \in GrantSetting[k].contexts, Grants(k)!OneCurrency(c),
                    NEW p \in Grants(k)!Profiles \ {"ACCOUNTING"}
             PROVE  /\ \A g \in Grants(k)!VisibleGrants(u) : Grants(k)!Allows(grants[g].scope, c, p) =>
                         \E v \in Grants(k)!Viewing(u) : Grants(k)!Allows(grants[v].scope, c, p)
                    /\ \A d \in Grants(k)!VisibleDelegations(u) :
                         Grants(k)!Allows(
                           Grants(k)!DelegatedScope(Grants(k)!SourceScope(d), delegations[d].scope), c, p)
                         => \E v \in Grants(k)!Viewing(u) : Grants(k)!Allows(grants[v].scope, c, p)
  BY DEF Grants!ListsStayWithinViewer
<1>1. Grants(k)!Viewing(u) \subseteq Grants(k)!Granted
  BY DEF Grants!Viewing, Grants!PermissionGrants
<1>2. ASSUME NEW v \in Grants(k)!Viewing(u), NEW t \in Grants(k)!Scope,
             Grants(k)!GrantContains(grants[v].scope, t), Grants(k)!Allows(t, c, p)
      PROVE  Grants(k)!Allows(grants[v].scope, c, p)
  BY <1>1, <1>2, GrantShapes, ContextTyped, ContainedAllows
<1>3. ASSUME NEW g \in Grants(k)!VisibleGrants(u), Grants(k)!Allows(grants[g].scope, c, p)
      PROVE  \E v \in Grants(k)!Viewing(u) : Grants(k)!Allows(grants[v].scope, c, p)
  <2>1. g \in Grants(k)!Granted /\ \E v \in Grants(k)!Viewing(u) : Grants(k)!Authorizes(v, grants[g])
    BY DEF Grants!VisibleGrants
  <2>2. PICK v \in Grants(k)!Viewing(u) : Grants(k)!Authorizes(v, grants[g])
    BY <2>1
  <2>3. Grants(k)!GrantContains(grants[v].scope, grants[g].scope)
    BY <2>2 DEF Grants!Authorizes
  <2> QED BY <1>2, <1>3, <2>1, <2>3, GrantShapes
<1>4. ASSUME NEW d \in Grants(k)!VisibleDelegations(u),
             Grants(k)!Allows(
               Grants(k)!DelegatedScope(Grants(k)!SourceScope(d), delegations[d].scope), c, p)
      PROVE  \E v \in Grants(k)!Viewing(u) : Grants(k)!Allows(grants[v].scope, c, p)
  <2> DEFINE t == Grants(k)!ShownScope(Grants(k)!SourceScope(d), delegations[d].scope)
  <2>1. d \in Grants(k)!Delegated
        /\ \E v \in Grants(k)!Viewing(u) : Grants(k)!Authorizes(v, Grants(k)!DelegationAuthorization(d))
    BY DEF Grants!VisibleDelegations
  <2>2. PICK v \in Grants(k)!Viewing(u) : Grants(k)!Authorizes(v, Grants(k)!DelegationAuthorization(d))
    BY <2>1
  <2>3. Grants(k)!GrantContains(grants[v].scope, t)
    BY <2>2 DEF Grants!Authorizes, Grants!DelegationAuthorization, Grants!SourceScope
  <2>4. t \in Grants(k)!Scope
    BY <2>1, GrantShapes, ShownTyped
  <2>5. Grants(k)!Allows(t, c, p)
    BY <1>4, <2>1, GrantShapes, ShownAllows
  <2> HIDE DEF t
  <2> QED BY <1>2, <2>3, <2>4, <2>5
<1> QED BY <1>3, <1>4

LEMMA GrantsAreContained ==
  ASSUME NEW k \in GrantParts, GrantInvariant(k)
  PROVE  GrantsContained(k)
BY GivenOnce, WithinSource, WithinGrantor, ListsTrue, ListsWithinViewer
   DEF GrantsContained, GrantInvariant

-------------------------------------------------------------------------------
(* Approval policies.                                                      *)

\* Two active policies that admit a document in common: one is narrower.
PoliciesApart(k) ==
  \A p, q \in Policies(k)!Active : p # q =>
    ~Policies(k)!AmbiguousOverlap(policies[p].scope, policies[q].scope)

\* A command that is past its checks still passes them.
ClearStays(k) ==
  \A r \in PolicySetting[k].requests : Policies(k)!InStage(r, "clear") =>
    \A q \in Policies(k)!Active :
      ~Policies(k)!AmbiguousOverlap(policies[q].scope, requests[r].policy.scope)

PolicyInvariant(k) == Policies(k)!PolicyTypeOK /\ PoliciesApart(k) /\ ClearStays(k)

LEMMA PoliciesStart ==
  ASSUME NEW k \in PolicyParts, Policies(k)!Init
  PROVE  PolicyInvariant(k)
<1>1. /\ policies = [p \in PolicySetting[k].policies |-> NoRecord]
      /\ requests = [r \in PolicySetting[k].requests |-> Idle]
  BY DEF Policies!Init
<1>2. Policies(k)!Active = {}
  BY <1>1 DEF Policies!Active
<1>3. \A r \in PolicySetting[k].requests : \A stage : ~Policies(k)!InStage(r, stage)
  BY <1>1 DEF Policies!InStage
<1>4. Policies(k)!PolicyTypeOK
  BY <1>1, <1>3 DEF Policies!PolicyTypeOK, Policies!HoldsLock
<1> QED BY <1>2, <1>3, <1>4 DEF PolicyInvariant, PoliciesApart, ClearStays

LEMMA AmbiguityMutual ==
  ASSUME NEW k \in PolicyParts, NEW s, NEW t, Policies(k)!AmbiguousOverlap(s, t)
  PROVE  Policies(k)!AmbiguousOverlap(t, s)
BY DEF Policies!AmbiguousOverlap, Policies!Overlap

\* Whether two scopes overlap is the same in every state.
LEMMA ApartStays ==
  ASSUME NEW k \in PolicyParts, policies' = policies, PoliciesApart(k)
  PROVE  PoliciesApart(k)'
<1>1. Policies(k)!Active' = Policies(k)!Active
  BY DEF Policies!Active
<1>2. ASSUME NEW p, NEW q
      PROVE  Policies(k)!AmbiguousOverlap(policies[p].scope, policies[q].scope)'
               <=> Policies(k)!AmbiguousOverlap(policies[p].scope, policies[q].scope)
  <2>1. Policies(k)!Overlap(policies[p].scope, policies[q].scope)'
          <=> Policies(k)!Overlap(policies[p].scope, policies[q].scope)
    BY DEF Policies!Overlap
  <2>2. /\ Policies(k)!StrictlyNarrower(policies[p].scope, policies[q].scope)'
             <=> Policies(k)!StrictlyNarrower(policies[p].scope, policies[q].scope)
        /\ Policies(k)!StrictlyNarrower(policies[q].scope, policies[p].scope)'
             <=> Policies(k)!StrictlyNarrower(policies[q].scope, policies[p].scope)
    BY DEF Policies!StrictlyNarrower
  <2> QED BY <2>1, <2>2 DEF Policies!AmbiguousOverlap
<1> QED BY <1>1, <1>2 DEF PoliciesApart

LEMMA OverlapStays ==
  ASSUME NEW k \in PolicyParts, policies' = policies, NEW r, NEW q,
         requests'[r].policy.scope = requests[r].policy.scope
  PROVE  Policies(k)!AmbiguousOverlap(policies[q].scope, requests[r].policy.scope)'
           <=> Policies(k)!AmbiguousOverlap(policies[q].scope, requests[r].policy.scope)
<1>1. Policies(k)!Overlap(policies[q].scope, requests[r].policy.scope)'
        <=> Policies(k)!Overlap(policies[q].scope, requests[r].policy.scope)
  BY DEF Policies!Overlap
<1>2. Policies(k)!StrictlyNarrower(policies[q].scope, requests[r].policy.scope)'
        <=> Policies(k)!StrictlyNarrower(policies[q].scope, requests[r].policy.scope)
  BY DEF Policies!StrictlyNarrower
<1>3. Policies(k)!StrictlyNarrower(requests[r].policy.scope, policies[q].scope)'
        <=> Policies(k)!StrictlyNarrower(requests[r].policy.scope, policies[q].scope)
  BY DEF Policies!StrictlyNarrower
<1> QED BY <1>1, <1>2, <1>3 DEF Policies!AmbiguousOverlap

\* A command moves on: it holds the lock alone, and is clear only past the checks.
LEMMA CommandMoves ==
  ASSUME NEW k \in PolicyParts, PolicyInvariant(k), policies' = policies,
         NEW r \in PolicySetting[k].requests, NEW x \in Policies(k)!Request \cup {Idle},
         requests' = [requests EXCEPT ![r] = x],
         x # Idle /\ x.stage \in {"locked", "clear"} =>
           \A q \in PolicySetting[k].requests \ {r} : ~Policies(k)!HoldsLock(q),
         x # Idle /\ x.stage = "clear" =>
           \A q \in Policies(k)!Active :
             ~Policies(k)!AmbiguousOverlap(policies[q].scope, x.policy.scope)
  PROVE  PolicyInvariant(k)'
<1>0. /\ policies \in [PolicySetting[k].policies -> Policies(k)!Policy \cup {NoRecord}]
      /\ requests \in [PolicySetting[k].requests -> Policies(k)!Request \cup {Idle}]
      /\ \A a, b \in PolicySetting[k].requests :
           Policies(k)!HoldsLock(a) /\ Policies(k)!HoldsLock(b) => a = b
  BY DEF PolicyInvariant, Policies!PolicyTypeOK
<1>1. /\ requests' \in [PolicySetting[k].requests -> Policies(k)!Request \cup {Idle}]
      /\ requests'[r] = x
      /\ \A q \in PolicySetting[k].requests \ {r} : requests'[q] = requests[q]
  BY <1>0
<1>2. \A q \in PolicySetting[k].requests \ {r} : \A stage :
        Policies(k)!InStage(q, stage)' <=> Policies(k)!InStage(q, stage)
  BY <1>1 DEF Policies!InStage
<1>3. \A stage : Policies(k)!InStage(r, stage)' <=> x # Idle /\ x.stage = stage
  BY <1>1 DEF Policies!InStage
<1>4. \A a, b \in PolicySetting[k].requests :
        Policies(k)!HoldsLock(a)' /\ Policies(k)!HoldsLock(b)' => a = b
  BY <1>0, <1>2, <1>3 DEF Policies!HoldsLock
<1>5. Policies(k)!PolicyTypeOK'
  BY <1>0, <1>1, <1>4 DEF Policies!PolicyTypeOK
<1>6. Policies(k)!Active' = Policies(k)!Active
  BY DEF Policies!Active
<1>7. PoliciesApart(k)'
  BY ApartStays DEF PolicyInvariant
<1>8. ASSUME NEW q \in PolicySetting[k].requests, Policies(k)!InStage(q, "clear")',
             NEW p \in Policies(k)!Active
      PROVE  (~Policies(k)!AmbiguousOverlap(policies[p].scope, requests[q].policy.scope))'
  <2>1. CASE q = r
    <3>1. /\ ~Policies(k)!AmbiguousOverlap(policies[p].scope, x.policy.scope)
          /\ requests'[q].policy.scope = x.policy.scope
      BY <1>1, <1>3, <1>8, <2>1
    <3>2. ~Policies(k)!Overlap(policies[p].scope, x.policy.scope)
          \/ Policies(k)!StrictlyNarrower(policies[p].scope, x.policy.scope)
          \/ Policies(k)!StrictlyNarrower(x.policy.scope, policies[p].scope)
      BY <3>1 DEF Policies!AmbiguousOverlap
    <3>3. CASE ~Policies(k)!Overlap(policies[p].scope, x.policy.scope)
      <4>1. ~Policies(k)!Overlap(policies[p].scope, requests[q].policy.scope)'
        BY <3>1, <3>3 DEF Policies!Overlap
      <4> QED BY <4>1 DEF Policies!AmbiguousOverlap
    <3>4. CASE Policies(k)!StrictlyNarrower(policies[p].scope, x.policy.scope)
      <4>1. Policies(k)!StrictlyNarrower(policies[p].scope, requests[q].policy.scope)'
        BY <3>1, <3>4 DEF Policies!StrictlyNarrower
      <4> QED BY <4>1 DEF Policies!AmbiguousOverlap
    <3>5. CASE Policies(k)!StrictlyNarrower(x.policy.scope, policies[p].scope)
      <4>1. Policies(k)!StrictlyNarrower(requests[q].policy.scope, policies[p].scope)'
        BY <3>1, <3>5 DEF Policies!StrictlyNarrower
      <4> QED BY <4>1 DEF Policies!AmbiguousOverlap
    <3> QED BY <3>2, <3>3, <3>4, <3>5
  <2>2. CASE q # r
    <3>1. ~Policies(k)!AmbiguousOverlap(policies[p].scope, requests[q].policy.scope)
      BY <1>2, <1>8, <2>2 DEF PolicyInvariant, ClearStays
    <3>2. requests'[q].policy.scope = requests[q].policy.scope
      BY <1>1, <2>2
    <3> QED BY <3>1, <3>2, OverlapStays
  <2> QED BY <2>1, <2>2
<1>9. ClearStays(k)'
  BY <1>6, <1>8 DEF ClearStays
<1> QED BY <1>5, <1>7, <1>9 DEF PolicyInvariant

\* A command that is clear adds its policy.
LEMMA PolicyInserted ==
  ASSUME NEW k \in PolicyParts, PolicyInvariant(k),
         NEW r \in PolicySetting[k].requests, Policies(k)!Insert(r)
  PROVE  PolicyInvariant(k)'
<1>0. /\ policies \in [PolicySetting[k].policies -> Policies(k)!Policy \cup {NoRecord}]
      /\ requests \in [PolicySetting[k].requests -> Policies(k)!Request \cup {Idle}]
      /\ \A a, b \in PolicySetting[k].requests :
           Policies(k)!HoldsLock(a) /\ Policies(k)!HoldsLock(b) => a = b
  BY DEF PolicyInvariant, Policies!PolicyTypeOK
<1>1. Policies(k)!InStage(r, "clear") /\ requests' = [requests EXCEPT ![r] = Idle]
  BY DEF Policies!Insert
<1>2. PICK p \in PolicySetting[k].policies \ Policies(k)!Active :
        policies' = [policies EXCEPT ![p] = requests[r].policy]
  BY DEF Policies!Insert
<1>3. requests[r].policy \in Policies(k)!Policy
  BY <1>0, <1>1 DEF Policies!InStage, Policies!Request
<1>4. /\ policies' \in [PolicySetting[k].policies -> Policies(k)!Policy \cup {NoRecord}]
      /\ policies'[p] = requests[r].policy
      /\ \A q \in PolicySetting[k].policies \ {p} : policies'[q] = policies[q]
      /\ requests' \in [PolicySetting[k].requests -> Policies(k)!Request \cup {Idle}]
      /\ requests'[r] = Idle
      /\ \A q \in PolicySetting[k].requests \ {r} : requests'[q] = requests[q]
  BY <1>0, <1>1, <1>2, <1>3
<1>5. \A q \in PolicySetting[k].requests : ~Policies(k)!HoldsLock(q)'
  BY <1>0, <1>1, <1>4 DEF Policies!HoldsLock, Policies!InStage
<1>6. Policies(k)!PolicyTypeOK'
  BY <1>4, <1>5 DEF Policies!PolicyTypeOK
<1>7. \A q \in Policies(k)!Active' : q = p \/ (q \in Policies(k)!Active /\ policies'[q] = policies[q])
  BY <1>4 DEF Policies!Active
<1>8. \A q \in Policies(k)!Active :
        ~Policies(k)!AmbiguousOverlap(policies[q].scope, requests[r].policy.scope)
  BY <1>1 DEF PolicyInvariant, ClearStays
<1>9. ASSUME NEW a \in Policies(k)!Active', NEW b \in Policies(k)!Active', a # b
      PROVE  ~Policies(k)!AmbiguousOverlap(policies'[a].scope, policies'[b].scope)
  <2>1. CASE a = p
    BY <1>4, <1>7, <1>8, <1>9, <2>1, AmbiguityMutual
  <2>2. CASE b = p
    BY <1>4, <1>7, <1>8, <1>9, <2>2
  <2>3. CASE a # p /\ b # p
    BY <1>7, <1>9, <2>3 DEF PolicyInvariant, PoliciesApart
  <2> QED BY <2>1, <2>2, <2>3
<1>10. PoliciesApart(k)'
  BY <1>9 DEF PoliciesApart, Policies!AmbiguousOverlap, Policies!Overlap, Policies!StrictlyNarrower
<1>11. ClearStays(k)'
  BY <1>5 DEF ClearStays, Policies!HoldsLock
<1> QED BY <1>6, <1>10, <1>11 DEF PolicyInvariant

LEMMA PolicyStep ==
  ASSUME NEW k \in PolicyParts, PolicyInvariant(k), [Policies(k)!Next]_(Policies(k)!vars)
  PROVE  PolicyInvariant(k)'
<1>0. requests \in [PolicySetting[k].requests -> Policies(k)!Request \cup {Idle}]
  BY DEF PolicyInvariant, Policies!PolicyTypeOK
<1>1. ASSUME NEW r \in PolicySetting[k].requests, NEW p \in Policies(k)!Policy,
             Policies(k)!Propose(r, p)
      PROVE  PolicyInvariant(k)'
  <2> DEFINE x == [stage |-> "admitted", policy |-> p]
  <2>1. requests' = [requests EXCEPT ![r] = x] /\ policies' = policies
    BY <1>1 DEF Policies!Propose
  <2>2. x \in Policies(k)!Request /\ x.stage = "admitted"
    BY DEF Policies!Request
  <2> HIDE DEF x
  <2> QED BY <2>1, <2>2, CommandMoves
<1>2. ASSUME NEW r \in PolicySetting[k].requests, Policies(k)!TakeLock(r)
      PROVE  PolicyInvariant(k)'
  <2> DEFINE x == [requests[r] EXCEPT !.stage = "locked"]
  <2>1. requests' = [requests EXCEPT ![r] = x] /\ policies' = policies
    BY <1>2 DEF Policies!TakeLock
  <2>2. x \in Policies(k)!Request /\ x.stage = "locked"
    BY <1>0, <1>2 DEF Policies!TakeLock, Policies!InStage, Policies!Request
  <2>3. \A q \in PolicySetting[k].requests : ~Policies(k)!HoldsLock(q)
    BY <1>2 DEF Policies!TakeLock, Policies!Locked
  <2> HIDE DEF x
  <2> QED BY <2>1, <2>2, <2>3, CommandMoves
<1>3. ASSUME NEW r \in PolicySetting[k].requests, requests[r] # Idle,
             policies' = policies, requests' = [requests EXCEPT ![r] = Idle]
      PROVE  PolicyInvariant(k)'
  BY <1>3, CommandMoves
<1>4. ASSUME NEW r \in PolicySetting[k].requests, Policies(k)!Validate(r)
      PROVE  PolicyInvariant(k)'
  <2>1. CASE ~Policies(k)!Acceptable(requests[r].policy)
    BY <1>3, <1>4, <2>1 DEF Policies!Validate, Policies!InStage
  <2>2. CASE Policies(k)!Acceptable(requests[r].policy)
    <3> DEFINE x == [requests[r] EXCEPT !.stage = "clear"]
    <3>1. requests' = [requests EXCEPT ![r] = x] /\ policies' = policies
      BY <1>4, <2>2 DEF Policies!Validate
    <3>2. x \in Policies(k)!Request /\ x.stage = "clear" /\ x.policy = requests[r].policy
      BY <1>0, <1>4 DEF Policies!Validate, Policies!InStage, Policies!Request
    <3>3. \A q \in PolicySetting[k].requests \ {r} : ~Policies(k)!HoldsLock(q)
      BY <1>4 DEF PolicyInvariant, Policies!PolicyTypeOK, Policies!Validate, Policies!HoldsLock
    <3>4. \A q \in Policies(k)!Active :
            ~Policies(k)!AmbiguousOverlap(policies[q].scope, x.policy.scope)
      BY <2>2, <3>2 DEF Policies!Acceptable
    <3> HIDE DEF x
    <3> QED BY <3>1, <3>2, <3>3, <3>4, CommandMoves
  <2> QED BY <2>1, <2>2
<1>5. ASSUME NEW r \in PolicySetting[k].requests, Policies(k)!Abort(r)
      PROVE  PolicyInvariant(k)'
  BY <1>3, <1>5 DEF Policies!Abort
<1>6. CASE UNCHANGED Policies(k)!vars
  <2>1. policies' = policies /\ requests' = requests
    BY <1>6 DEF Policies!vars
  <2>2. Policies(k)!PolicyTypeOK'
    BY <2>1 DEF PolicyInvariant, Policies!PolicyTypeOK, Policies!HoldsLock, Policies!InStage
  <2>3. Policies(k)!Active' = Policies(k)!Active
    BY <2>1 DEF Policies!Active
  <2>4. PoliciesApart(k)'
    BY <2>1, ApartStays DEF PolicyInvariant
  <2>5. ASSUME NEW r \in PolicySetting[k].requests, Policies(k)!InStage(r, "clear")',
               NEW q \in Policies(k)!Active
        PROVE  (~Policies(k)!AmbiguousOverlap(policies[q].scope, requests[r].policy.scope))'
    <3>1. Policies(k)!InStage(r, "clear")
      BY <2>1, <2>5 DEF Policies!InStage
    <3>2. ~Policies(k)!AmbiguousOverlap(policies[q].scope, requests[r].policy.scope)
      BY <2>5, <3>1 DEF PolicyInvariant, ClearStays
    <3>3. requests'[r].policy.scope = requests[r].policy.scope
      BY <2>1
    <3> QED BY <2>1, <3>2, <3>3, OverlapStays
  <2>6. ClearStays(k)'
    BY <2>3, <2>5 DEF ClearStays
  <2> QED BY <2>2, <2>4, <2>6 DEF PolicyInvariant
<1> QED BY <1>1, <1>2, <1>4, <1>5, <1>6, PolicyInserted DEF Policies!Next

\* The policies and commands are about scopes the assumptions describe.
LEMMA PolicyShapes ==
  ASSUME NEW k \in PolicyParts, PolicyInvariant(k)
  PROVE  /\ \A p \in Policies(k)!Active :
              /\ policies[p] \in Policies(k)!Policy /\ policies[p].scope \in PolicySetting[k].scopes
              /\ policies[p].step.subject \in PolicySetting[k].subjects
         /\ \A r \in PolicySetting[k].requests : requests[r] # Idle =>
              requests[r].policy.scope \in PolicySetting[k].scopes
<1>1. /\ policies \in [PolicySetting[k].policies -> Policies(k)!Policy \cup {NoRecord}]
      /\ requests \in [PolicySetting[k].requests -> Policies(k)!Request \cup {Idle}]
  BY DEF PolicyInvariant, Policies!PolicyTypeOK
<1> QED BY <1>1 DEF Policies!Active, Policies!Policy, Policies!Step, Policies!Request

\* What a requested policy asks.
LEMMA PolicyScopeTyped ==
  ASSUME NEW k \in PolicyParts, NEW s \in PolicySetting[k].scopes
  PROVE  /\ \A x \in Policies(k)!Keys \ {"currency"} : s.at[x] \in Values \cup {NoValue}
         /\ s.at["currency"] \in Currencies \cup {NoValue}
         /\ s.min \in Int /\ s.max \in Nat
         /\ s.max # Policies(k)!NoMax => s.max <= MaxAmount
         /\ s.max <= Policies(k)!NoMax /\ Policies(k)!NoMin <= s.min
         /\ Policies(k)!NoMin < 0 /\ MaxAmount \in Nat
<1>1. Policies(k)!RegistryAssumption
  BY PartsAssumption
<1>2. /\ \A x \in Policies(k)!Keys \ {"currency"} : s.at[x] \in Values \cup {NoValue}
      /\ s.at["currency"] \in Currencies \cup {NoValue}
      /\ s.min \in 0 .. MaxAmount \cup {Policies(k)!NoMin} /\ s.max \in 0 .. Policies(k)!NoMax
      /\ MaxAmount \in Nat
  BY <1>1 DEF Policies!RegistryAssumption
<1> QED BY <1>2 DEF Policies!NoMax, Policies!NoMin

\* The check before the transaction and the one inside it decide the same.
LEMMA TwoChecks ==
  ASSUME NEW k \in PolicyParts, NEW g, NEW s \in PolicySetting[k].scopes
  PROVE  Policies(k)!GrantContains(g, Policies(k)!PolicyAuthorization(s))
           <=> Policies(k)!PolicyGrantContains(g, s)
<1> DEFINE a == Policies(k)!PolicyAuthorization(s)
           required == IF s.at["currency"] = NoValue /\ s.max # Policies(k)!NoMax THEN {Base}
                       ELSE Policies(k)!Chosen(s, "currency")
<1>1. /\ ~a.wide /\ a.at = Policies(k)!PolicyAt(s)
      /\ a.currencies = Policies(k)!Chosen(s, "currency")
      /\ a.ceiling = IF s.max = Policies(k)!NoMax THEN NoCeiling
                     ELSE [amount |-> s.max, currency |-> Base]
  BY DEF Policies!PolicyAuthorization
<1>2. Base \in Currencies /\ NoCeiling \notin [amount : Nat, currency : Currencies] /\ s.max \in Nat
  BY PolicyScopeTyped, PartsAssumption DEF Policies!RegistryAssumption, Policies!ScopeAssumption
<1>3. s.max # Policies(k)!NoMax =>
        a.ceiling # NoCeiling /\ a.ceiling.amount = s.max /\ a.ceiling.currency = Base
  BY <1>1, <1>2
<1>4. Policies(k)!EffectiveCurrencies(a) = required
  <2>1. Policies(k)!Chosen(s, "currency") = {} <=> s.at["currency"] = NoValue
    BY DEF Policies!Chosen
  <2> HIDE DEF a
  <2> QED BY <1>1, <1>3, <2>1 DEF Policies!EffectiveCurrencies
<1>5. Policies(k)!CeilingWithin(a.ceiling, g.ceiling)
        <=> (g.ceiling # NoCeiling =>
               s.max # Policies(k)!NoMax /\ g.ceiling.currency = Base /\ s.max <= g.ceiling.amount)
  <2> HIDE DEF a
  <2> QED BY <1>1, <1>3 DEF Policies!CeilingWithin
<1>6. Policies(k)!GrantContains(g, a) <=> Policies(k)!PolicyGrantContains(g, s)
  <2> HIDE DEF a
  <2> QED BY <1>1, <1>4, <1>5 DEF Policies!GrantContains, Policies!PolicyGrantContains
<1> QED BY <1>6

\* A candidate admits the document.
LEMMA CandidateAdmits ==
  ASSUME NEW k \in PolicyParts, NEW c, NEW a,
         NEW p \in Policies(k)!Selection!Candidates(c, a)
  PROVE  /\ p \in Policies(k)!Active
         /\ \A x \in Policies(k)!Keys : policies[p].scope.at[x] \in {NoValue, c[x]}
         /\ policies[p].scope.min <= a /\ a <= policies[p].scope.max
BY DEF Policies!Selection!Candidates

\* A counted approver can approve what the policy selects.
LEMMA ReachesDocuments ==
  ASSUME NEW k \in PolicyParts, NEW g, NEW s \in PolicySetting[k].scopes, Policies(k)!Reaches(g, s),
         g \in Policies(k)!Scope, g.wide => g = Policies(k)!OpenScope,
         s.at["currency"] \in {NoValue, Base},
         NEW c \in Policies(k)!DocumentContexts, NEW a \in 0 .. MaxAmount,
         \A x \in Policies(k)!Keys : s.at[x] \in {NoValue, c[x]},
         a <= s.max
  PROVE  Policies(k)!Allows(g, Policies(k)!Document(c, a), "PAYMENT")
<1> DEFINE doc == Policies(k)!Document(c, a)
<1>0. /\ doc.currencies = {c["currency"], Base} /\ doc.base = Base /\ doc.amount = a
      /\ doc.at = [d \in PolicyDims |->
                     IF d = "document" THEN {DocumentType}
                     ELSE IF d \in Policies(k)!Keys THEN {c[d]} ELSE Values]
  BY DEF Policies!Document
<1>1. /\ Policies(k)!Checked("PAYMENT") \subseteq PolicyDims /\ Policies(k)!MustBeOpen("PAYMENT") = {}
  BY DEF Policies!Checked, Policies!MustBeOpen
<1>2. CASE g.wide
  <2>1. /\ \A d \in PolicyDims : g.at[d] = {}
        /\ g.currencies = {} /\ g.ceiling = NoCeiling
    BY <1>2 DEF Policies!OpenScope, Policies!OpenAt
  <2> HIDE DEF doc
  <2>2. Policies(k)!Allows(g, doc, "PAYMENT")
    BY <1>1, <2>1 DEF Policies!Allows, Policies!Covers, Policies!UnderCeiling
  <2> QED BY <2>2 DEF doc
<1>3. CASE ~g.wide
  <2>1. /\ \A d \in PolicyDims : Policies(k)!ContainsValues(g.at[d], Policies(k)!PolicyAt(s)[d])
        /\ Policies(k)!ContainsValues(g.currencies, Policies(k)!Chosen(s, "currency"))
        /\ g.ceiling # NoCeiling =>
             s.max # Policies(k)!NoMax /\ g.ceiling.currency = Base /\ s.max <= g.ceiling.amount
    BY <1>3 DEF Policies!Reaches
  <2>2. ASSUME NEW d \in PolicyDims PROVE Policies(k)!Covers(g.at[d], doc.at[d])
    <3>1. g.at[d] = {} \/ (Policies(k)!PolicyAt(s)[d] # {} /\ Policies(k)!PolicyAt(s)[d] \subseteq g.at[d])
      BY <2>1 DEF Policies!ContainsValues
    <3>2. CASE g.at[d] = {}
      BY <3>2 DEF Policies!Covers
    <3>3. CASE d = "document"
      BY <1>0, <3>1, <3>3 DEF Policies!PolicyAt, Policies!Covers
    <3>4. CASE d # "document" /\ g.at[d] # {}
      <4>1. d \in Policies(k)!Keys /\ Policies(k)!Chosen(s, d) # {} /\ Policies(k)!Chosen(s, d) \subseteq g.at[d]
        BY <3>1, <3>4 DEF Policies!PolicyAt
      <4>2. s.at[d] = c[d] /\ c[d] \in g.at[d]
        BY <4>1 DEF Policies!Chosen
      <4>3. doc.at[d] = {c[d]}
        BY <1>0, <3>4, <4>1
      <4> QED BY <4>2, <4>3 DEF Policies!Covers
    <3> QED BY <3>2, <3>3, <3>4
  <2>3. Policies(k)!Covers(g.currencies, doc.currencies)
    <3>1. "currency" \in Policies(k)!Keys
      BY DEF Policies!Keys
    <3>2. g.currencies # {} => s.at["currency"] # NoValue /\ s.at["currency"] \in g.currencies
      BY <2>1 DEF Policies!ContainsValues, Policies!Chosen
    <3> QED BY <1>0, <3>1, <3>2 DEF Policies!Covers
  <2>4. Policies(k)!UnderCeiling(g.ceiling, doc)
    <3>1. ASSUME g.ceiling # NoCeiling PROVE a <= g.ceiling.amount
      <4>1. g.ceiling.amount \in Nat /\ a \in Nat /\ s.max \in Nat
        <5>1. Amounts \subseteq Nat
          BY PartsAssumption DEF Policies!ScopeAssumption
        <5>2. g.ceiling \in [amount : Amounts, currency : Currencies]
          BY <3>1 DEF Policies!Scope, Policies!Ceilings
        <5>3. g.ceiling.amount \in Nat
          BY <5>1, <5>2
        <5>4. s.max \in Nat /\ MaxAmount \in Nat
          BY PolicyScopeTyped
        <5> QED BY <5>3, <5>4
      <4> QED BY <2>1, <3>1, <4>1
    <3> QED BY <1>0, <2>1, <3>1 DEF Policies!UnderCeiling
  <2> HIDE DEF doc
  <2>5. Policies(k)!Allows(g, doc, "PAYMENT")
    BY <1>1, <2>2, <2>3, <2>4 DEF Policies!Allows
  <2> QED BY <2>5 DEF doc
<1> QED BY <1>2, <1>3

LEMMA ApproversCan ==
  ASSUME NEW k \in PolicyParts, PolicyInvariant(k)
  PROVE  Policies(k)!ChecksAgree /\ Policies(k)!CountedCanApprove
<1>1. Policies(k)!ChecksAgree
  BY PolicyShapes, TwoChecks DEF Policies!ChecksAgree
<1>2. Policies(k)!CountedCanApprove
  <2> SUFFICES ASSUME NEW p \in Policies(k)!Active, policies[p].scope.at["currency"] \in {NoValue, Base},
                      NEW c \in Policies(k)!DocumentContexts, NEW a \in 0 .. MaxAmount,
                      p \in Policies(k)!Selection!Candidates(c, a),
                      NEW g \in Policies(k)!Counted(policies[p])
               PROVE  Policies(k)!Allows(g.scope, Policies(k)!Document(c, a), "PAYMENT")
    BY DEF Policies!CountedCanApprove
  <2>1. /\ policies[p].scope \in PolicySetting[k].scopes
        /\ policies[p].step.subject \in PolicySetting[k].subjects
    BY PolicyShapes
  <2>2. g \in Approvers[policies[p].step.subject] /\ Policies(k)!Reaches(g.scope, policies[p].scope)
    BY DEF Policies!Counted
  <2>3. g.scope \in Policies(k)!Scope /\ (g.scope.wide => g.scope = Policies(k)!OpenScope)
    BY <2>1, <2>2, PartsAssumption DEF Policies!RegistryAssumption
  <2>4. /\ \A x \in Policies(k)!Keys : policies[p].scope.at[x] \in {NoValue, c[x]}
        /\ a <= policies[p].scope.max
    BY CandidateAdmits
  <2> QED BY <2>1, <2>2, <2>3, <2>4, ReachesDocuments
<1> QED BY <1>1, <1>2

\* Narrower at the creation is more specific at the selection.
LEMMA NarrowerDominates ==
  ASSUME NEW k \in PolicyParts, NEW p \in Policies(k)!Active, NEW q \in Policies(k)!Active
  PROVE  Policies(k)!Selection!Dominates(p, q)
           <=> Policies(k)!StrictlyNarrower(policies[p].scope, policies[q].scope)
BY DEF Policies!Selection!Dominates, Policies!Selection!Within, Policies!Selection!Strict,
       Policies!StrictlyNarrower

\* Being more specific is a strict order.
LEMMA DominanceOrder ==
  ASSUME NEW k \in PolicyParts, PolicyInvariant(k),
         NEW p \in Policies(k)!Active, NEW q \in Policies(k)!Active, NEW r \in Policies(k)!Active,
         Policies(k)!Selection!Dominates(p, q)
  PROVE  /\ ~Policies(k)!Selection!Dominates(q, p)
         /\ Policies(k)!Selection!Dominates(q, r) => Policies(k)!Selection!Dominates(p, r)
<1> DEFINE s == policies[p].scope
           t == policies[q].scope
           u == policies[r].scope
<1>0. \A x \in {s, t, u} : x.min \in Int /\ x.max \in Int
  BY PolicyShapes, PolicyScopeTyped
<1>1. Policies(k)!StrictlyNarrower(s, t)
  BY NarrowerDominates
<1> HIDE DEF s, t, u
<1>2. ~Policies(k)!StrictlyNarrower(t, s)
  BY <1>0, <1>1 DEF Policies!StrictlyNarrower
<1>3. Policies(k)!StrictlyNarrower(t, u) => Policies(k)!StrictlyNarrower(s, u)
  <2> SUFFICES ASSUME Policies(k)!StrictlyNarrower(t, u) PROVE Policies(k)!StrictlyNarrower(s, u)
    OBVIOUS
  <2>1. \A x \in Policies(k)!Keys : u.at[x] \in {NoValue, s.at[x]}
    BY <1>1 DEF Policies!StrictlyNarrower
  <2>2. u.min <= s.min /\ s.max <= u.max
    BY <1>0, <1>1 DEF Policies!StrictlyNarrower
  <2>3. \/ \E x \in Policies(k)!Keys : u.at[x] = NoValue /\ s.at[x] # NoValue
        \/ u.min < s.min
        \/ s.max < u.max
    BY <1>0, <1>1 DEF Policies!StrictlyNarrower
  <2> QED BY <2>1, <2>2, <2>3 DEF Policies!StrictlyNarrower
<1> QED BY <1>2, <1>3, NarrowerDominates DEF s, t, u

\* Of two candidates for a document one is more specific.
LEMMA CandidatesOrdered ==
  ASSUME NEW k \in PolicyParts, PolicyInvariant(k), NEW c, NEW a \in 0 .. MaxAmount,
         NEW p \in Policies(k)!Selection!Candidates(c, a),
         NEW q \in Policies(k)!Selection!Candidates(c, a), p # q
  PROVE  Policies(k)!Selection!Dominates(p, q) \/ Policies(k)!Selection!Dominates(q, p)
<1> DEFINE s == policies[p].scope
           t == policies[q].scope
<1>1. /\ p \in Policies(k)!Active /\ q \in Policies(k)!Active
      /\ \A x \in Policies(k)!Keys : s.at[x] \in {NoValue, c[x]} /\ t.at[x] \in {NoValue, c[x]}
      /\ s.min <= a /\ a <= s.max /\ t.min <= a /\ a <= t.max
  BY CandidateAdmits
<1>2. /\ s.min \in Int /\ s.max \in Nat /\ t.min \in Int /\ t.max \in Nat /\ MaxAmount \in Nat
  BY <1>1, PolicyShapes, PolicyScopeTyped
<1>3. ~Policies(k)!AmbiguousOverlap(s, t)
  BY <1>1 DEF PolicyInvariant, PoliciesApart
<1> HIDE DEF s, t
<1>4. ~(s.max < t.min) /\ ~(t.max < s.min)
  BY <1>1, <1>2
<1>5. Policies(k)!Overlap(s, t)
  BY <1>1, <1>4 DEF Policies!Overlap
<1>6. Policies(k)!StrictlyNarrower(s, t) \/ Policies(k)!StrictlyNarrower(t, s)
  BY <1>3, <1>5 DEF Policies!AmbiguousOverlap
<1> QED BY <1>1, <1>6, NarrowerDominates DEF s, t

\* A finite set that a strict order puts in a line.
IsLine(C, above) ==
  /\ IsFiniteSet(C) /\ C # {} /\ above \in [C -> SUBSET C]
  /\ \A p \in C : p \notin above[p]
  /\ \A p \in C : \A q \in above[p] : above[q] \subseteq above[p]
  /\ \A p, q \in C : p # q => p \in above[q] \/ q \in above[p]

\* It has one first element.
LEMMA FirstOfLine ==
  ASSUME NEW C, NEW above, IsLine(C, above)
  PROVE  \E p \in C : above[p] = {} /\ \A q \in C : q # p => above[q] # {}
<1> USE DEF IsLine
<1> DEFINE R == StrictSubsetOrdering(C)
           F == FiniteSubsetsOf(C)
           G == {above[p] : p \in C}
<1>1. IsWellFoundedOn(R, F)
  BY FS_StrictSubsetOrderingWellFounded
<1>2. G \subseteq F /\ G # {}
  BY FS_Subset DEF FiniteSubsetsOf
<1>3. PICK X \in G : \A Y \in G : ~(<<Y, X>> \in R)
  <2> HIDE DEF R, F, G
  <2> QED BY <1>1, <1>2, WFMin
<1>4. PICK p \in C : X = above[p]
  BY <1>3
<1>5. ASSUME NEW q \in above[p] PROVE FALSE
  <2>1. q \in C /\ above[q] \subseteq above[p] /\ q \notin above[q]
    OBVIOUS
  <2>2. above[q] # above[p] /\ above[q] \in SUBSET C /\ above[p] \in SUBSET C
    BY <2>1
  <2>3. <<above[q], above[p]>> \in R
    BY <2>1, <2>2 DEF StrictSubsetOrdering
  <2> QED BY <1>3, <1>4, <2>1, <2>3
<1>6. above[p] = {}
  BY <1>5
<1>7. \A q \in C : q # p => above[q] # {}
  BY <1>6
<1> QED BY <1>6, <1>7

LEMMA NeverAmbiguous ==
  ASSUME NEW k \in PolicyParts, PolicyInvariant(k)
  PROVE  Policies(k)!SelectionNeverAmbiguous
<1> SUFFICES ASSUME NEW c \in Policies(k)!DocumentContexts, NEW a \in 0 .. MaxAmount,
                    Policies(k)!Selection!Candidates(c, a) # {}
             PROVE  Policies(k)!Selection!Resolve(c, a) # NoRecord
  BY DEF Policies!SelectionNeverAmbiguous
<1> DEFINE C == Policies(k)!Selection!Candidates(c, a)
           above == [p \in C |-> {q \in C : Policies(k)!Selection!Dominates(q, p)}]
<1>1. C \subseteq Policies(k)!Active /\ Policies(k)!Active \subseteq PolicySetting[k].policies
  BY CandidateAdmits DEF Policies!Active
<1>2. IsFiniteSet(PolicySetting[k].policies) /\ NoRecord \notin PolicySetting[k].policies
  <2>1. Policies(k)!RegistryAssumption
    BY PartsAssumption
  <2>2. Policies(k)!IsFiniteSet(PolicySetting[k].policies) /\ NoRecord \notin PolicySetting[k].policies
    BY <2>1 DEF Policies!RegistryAssumption
  <2>3. IsFiniteSet(PolicySetting[k].policies)
    BY <2>2 DEF Policies!IsFiniteSet, IsFiniteSet
  <2> QED BY <2>2, <2>3
<1>3. IsFiniteSet(C)
  <2> HIDE DEF C
  <2> QED BY <1>1, <1>2, FS_Subset
<1>4. above \in [C -> SUBSET C]
  OBVIOUS
<1>5. \A p \in C : p \notin above[p]
  BY <1>1, DominanceOrder
<1>6. \A p \in C : \A q \in above[p] : above[q] \subseteq above[p]
  BY <1>1, DominanceOrder
<1>7. \A p, q \in C : p # q => p \in above[q] \/ q \in above[p]
  BY CandidatesOrdered
<1>8. PICK p \in C : above[p] = {} /\ \A q \in C : q # p => above[q] # {}
  <2> HIDE DEF C, above
  <2>1. C # {}
    BY DEF C
  <2>2. IsLine(C, above)
    BY <1>3, <1>4, <1>5, <1>6, <1>7, <2>1 DEF IsLine
  <2> QED BY <2>2, FirstOfLine
<1>9. Policies(k)!Selection!Maximal(C) = {p}
  <2>1. ASSUME NEW q \in C
        PROVE  q \in Policies(k)!Selection!Maximal(C) <=> above[q] = {}
    <3>1. q \notin above[q]
      BY <1>5
    <3>2. q \in Policies(k)!Selection!Maximal(C)
            <=> ~\E r \in C \ {q} : Policies(k)!Selection!Dominates(r, q)
      BY DEF Policies!Selection!Maximal
    <3>3. above[q] = {r \in C : Policies(k)!Selection!Dominates(r, q)}
      OBVIOUS
    <3> HIDE DEF C, above
    <3> QED BY <3>1, <3>2, <3>3
  <2>2. Policies(k)!Selection!Maximal(C) \subseteq C
    BY DEF Policies!Selection!Maximal
  <2> HIDE DEF C, above
  <2> QED BY <1>8, <2>1, <2>2
<1>10. Policies(k)!Selection!UniqueMaximal(C) # NoRecord
  <2> HIDE DEF C
  <2>1. p \in Policies(k)!Active
    BY <1>1
  <2>2. Policies(k)!Selection!UniqueMaximal(C)
          = CHOOSE q \in Policies(k)!Active : Policies(k)!Selection!Maximal(C) = {q}
    BY <1>9, <2>1 DEF Policies!Selection!UniqueMaximal
  <2>3. Policies(k)!Selection!UniqueMaximal(C) \in Policies(k)!Active
    BY <1>9, <2>1, <2>2
  <2> QED BY <1>1, <1>2, <2>3
<1> QED BY <1>10 DEF Policies!Selection!Resolve

LEMMA PoliciesAreSettled ==
  ASSUME NEW k \in PolicyParts, PolicyInvariant(k)
  PROVE  PoliciesSettled(k)
BY ApproversCan, NeverAmbiguous DEF PoliciesSettled, PolicyInvariant

-------------------------------------------------------------------------------
(* Every part.                                                             *)

\* What every step keeps, of the part a behaviour is about.
PartsInvariant ==
  /\ \A k \in GrantParts : part = k => GrantInvariant(k)
  /\ \A k \in PolicyParts : part = k => PolicyInvariant(k)

LEMMA PartsStart == ASSUME PartsInit PROVE PartsInvariant
<1>1. SessionParts \cap (GrantParts \cup PolicyParts) = {} /\ GrantParts \cap PolicyParts = {}
  BY PartsAssumption
<1>2. \A k \in GrantParts : part = k => Grants(k)!Init
  BY <1>1 DEF PartsInit
<1>3. \A k \in PolicyParts : part = k => Policies(k)!Init
  BY <1>1 DEF PartsInit
<1> QED BY <1>2, <1>3, GrantsStart, PoliciesStart DEF PartsInvariant

LEMMA PartsStep == ASSUME PartsInvariant, [PartsNext]_allParts PROVE PartsInvariant'
<1>1. SessionParts \cap (GrantParts \cup PolicyParts) = {} /\ GrantParts \cap PolicyParts = {}
  BY PartsAssumption
<1>2. part' = part
  BY DEF PartsNext, allParts
<1>3. ASSUME NEW k \in GrantParts, part = k PROVE GrantInvariant(k)'
  <2>1. Grants(k)!Next \/ UNCHANGED allParts
    BY <1>1, <1>3 DEF PartsNext
  <2>2. UNCHANGED allParts => UNCHANGED Grants(k)!vars
    BY DEF allParts, grantPart, Grants!vars
  <2>3. [Grants(k)!Next]_(Grants(k)!vars)
    BY <2>1, <2>2
  <2> QED BY <1>3, <2>3, GrantInvariantStep DEF PartsInvariant
<1>4. ASSUME NEW k \in PolicyParts, part = k PROVE PolicyInvariant(k)'
  <2>1. Policies(k)!Next \/ UNCHANGED allParts
    BY <1>1, <1>4 DEF PartsNext
  <2>2. UNCHANGED allParts => UNCHANGED Policies(k)!vars
    BY DEF allParts, Policies!vars
  <2>3. [Policies(k)!Next]_(Policies(k)!vars)
    BY <2>1, <2>2
  <2> QED BY <1>4, <2>3, PolicyStep DEF PartsInvariant
<1> QED BY <1>2, <1>3, <1>4 DEF PartsInvariant

\* Whatever grants, delegations and policies administrators and grantors ask for, and
\* however their commands interleave: a grant stays within its source and is given once,
\* a delegation is within its grant, takes effect and is shown as what it permits, and a
\* document's policy is never ambiguous and its approvers can approve it
\* (access-admin.repository.ts:483, 570 and 670, access-authorization.repository.ts:238).
THEOREM AuthorityContained == PartsSpec => []AuthorityIsContained
<1>1. PartsInit => PartsInvariant
  BY PartsStart
<1>2. PartsInvariant /\ [PartsNext]_allParts => PartsInvariant'
  BY PartsStep
<1>3. PartsInvariant => AuthorityIsContained
  BY GrantsAreContained, PoliciesAreSettled DEF PartsInvariant, AuthorityIsContained
<1> QED BY <1>1, <1>2, <1>3, PTL DEF PartsSpec
==================================================================================
