-------------------------------- MODULE Sessions --------------------------------
(***************************************************************************)
(* The sessions of one account, the requests that present their tokens,    *)
(* and the step-up proofs of protected commands.                           *)
(*                                                                         *)
(* A logical session is a chain of rows.  A request that presents the      *)
(* token of its tail may append a row and hand out a new token; the old    *)
(* token serves requests already sent for 30 seconds more.  A request      *)
(* reads the chain, then touches or rotates what it read, and starts again *)
(* once if that changed meanwhile.                                         *)
(***************************************************************************)
EXTENDS Integers, FiniteSets

CONSTANTS
  Rows, NoRow,     \* auth_sessions; a row's token is the row itself
  Requests,
  Proofs,          \* challenges and the proofs they turn into
  Commands, NoCommand,  \* protected commands: path, body and idempotency key
  MaxEpoch         \* bound of the model

SessionAssumption ==
  /\ NoRow \notin Rows /\ NoCommand \notin Commands
  /\ MaxEpoch \in Nat

VARIABLES
  row,       \* row[s]: an auth_sessions row
  out,       \* logical sessions past their absolute end
  epoch,     \* the account's authorization epoch
  request,   \* request[r]: what a request has read
  sweep,     \* a revocation under way, which holds the lock on the account
  proof,     \* proof[p]: a step-up challenge and its proof
  done,      \* protected commands executed, and by which proof
  ended,     \* logical sessions a revocation ended
  left,      \* logged out, and those rotated while the logout waited
  void       \* proofs given before the account's secrets were replaced

vars == <<row, out, epoch, request, sweep, proof, done, ended, left, void>>

Row == [state: {"NONE", "ACTIVE", "ROTATED", "REVOKED"}, logical: Rows \cup {NoRow},
        parent: Rows \cup {NoRow}, epoch: Nat,
        idle: BOOLEAN,    \* idle for 15 minutes
        due: BOOLEAN,     \* last rotated 15 minutes ago
        grace: BOOLEAN]   \* within 30 seconds of its rotation

NoSession == [state |-> "NONE", logical |-> NoRow, parent |-> NoRow, epoch |-> 0,
              idle |-> FALSE, due |-> FALSE, grace |-> FALSE]

Request == [at: {"IDLE", "FOUND", "SERVED", "PROVED", "LEAVING"}, token: Rows \cup {NoRow},
            tail: Rows \cup {NoRow}, rotate: BOOLEAN, again: BOOLEAN,
            command: Commands \cup {NoCommand}, proofs: SUBSET Proofs, reach: SUBSET Rows]

IdleRequest == [at |-> "IDLE", token |-> NoRow, tail |-> NoRow, rotate |-> FALSE, again |-> FALSE,
              command |-> NoCommand, proofs |-> {}, reach |-> {}]

Proof == [state: {"NONE", "ASKED", "PROVED", "CONSUMED", "OVER"}, session: Rows \cup {NoRow},
          command: Commands \cup {NoCommand}]

NoProof == [state |-> "NONE", session |-> NoRow, command |-> NoCommand]

NoSweep == [kind |-> "NONE", reach |-> {}]

-------------------------------------------------------------------------------
(* Chains.                                                                 *)

Used == {s \in Rows : row[s].state # "NONE"}

Chain(l) == {s \in Used : row[s].logical = l}

HasSuccessor(s) == \E t \in Used : row[t].parent = s

InTime(s) == row[s].logical \notin out

\* A token is honoured while its row is active or newly rotated.
Presentable(s) ==
  /\ s \in Used /\ InTime(s)
  /\ \/ row[s].state = "ACTIVE" /\ ~row[s].idle
     \/ row[s].state = "ROTATED" /\ row[s].grace

LiveTail(s) == row[s].state = "ACTIVE" /\ ~HasSuccessor(s) /\ ~row[s].idle /\ InTime(s)

\* The tail a token leads to.
Leads(s, t) == Presentable(s) /\ t \in Chain(row[s].logical) /\ LiveTail(t)

Usables(l) == \E s, t \in Chain(l) : Leads(s, t)

Locked == sweep.kind # "NONE"

-------------------------------------------------------------------------------
(* Sessions and requests.                                                  *)

\* Established by a login, under the lock on the account.
CreateSession(s) ==
  /\ ~Locked /\ row[s].state = "NONE"
  /\ row' = [row EXCEPT ![s] = [NoSession EXCEPT !.state = "ACTIVE", !.logical = s, !.epoch = epoch]]
  /\ UNCHANGED <<out, epoch, request, sweep, proof, done, ended, left, void>>

FindSession(r, token) ==
  /\ request[r].at = "IDLE"
  /\ \E t \in Rows :
       /\ Leads(token, t)
       /\ request' = [request EXCEPT ![r] = [IdleRequest EXCEPT
            !.at = "FOUND", !.token = token, !.tail = t,
            !.rotate = token = t /\ (row[t].due \/ row[t].epoch # epoch)]]
  /\ UNCHANGED <<row, out, epoch, sweep, proof, done, ended, left, void>>

Touchable(r) ==
  /\ row[request[r].tail].state = "ACTIVE" /\ ~row[request[r].tail].idle /\ InTime(request[r].tail)
  /\ Presentable(request[r].token)

TouchSession(r) ==
  /\ request[r].at = "FOUND" /\ ~request[r].rotate
  /\ Touchable(r)
  /\ request' = [request EXCEPT ![r].at = "SERVED"]
  /\ UNCHANGED <<row, out, epoch, sweep, proof, done, ended, left, void>>

Rotatable(s) == row[s].state = "ACTIVE" /\ ~row[s].idle /\ InTime(s) /\ ~HasSuccessor(s)

\* Faulty variant: the rotation locks its own row only.
NeedsNoLock == TRUE

\* The rotation locks the account with the row it reads.
MayLock == ~Locked

Pending(l) == \E r \in Requests : request[r].at = "LEAVING" /\ row[request[r].tail].logical = l

RotateSession(r, s) ==
  LET t == request[r].tail
  IN /\ request[r].at = "FOUND" /\ request[r].rotate
     /\ MayLock /\ Rotatable(t) /\ row[s].state = "NONE"
     /\ row' = [row EXCEPT
          ![s] = [NoSession EXCEPT !.state = "ACTIVE", !.logical = row[t].logical, !.parent = t, !.epoch = epoch],
          ![t].state = "ROTATED", ![t].grace = TRUE, ![t].due = FALSE]
     /\ request' = [request EXCEPT ![r].at = "SERVED", ![r].tail = s]
     /\ left' = IF Pending(row[t].logical) THEN [left EXCEPT !.rotated = @ \cup {row[t].logical}] ELSE left
     /\ UNCHANGED <<out, epoch, sweep, proof, done, ended, void>>

\* What was read has changed: resolved once more, then refused.
Resolve(r) ==
  /\ request[r].at = "FOUND"
  /\ IF request[r].rotate THEN MayLock /\ ~Rotatable(request[r].tail) ELSE ~Touchable(r)
  /\ \/ /\ ~request[r].again
        /\ \E t \in Rows :
             /\ Leads(request[r].token, t)
             /\ request' = [request EXCEPT ![r].tail = t, ![r].again = TRUE,
                  ![r].rotate = request[r].token = t /\ (row[t].due \/ row[t].epoch # epoch)]
     \/ /\ request[r].again \/ ~\E t \in Rows : Leads(request[r].token, t)
        /\ request' = [request EXCEPT ![r] = IdleRequest]
  /\ UNCHANGED <<row, out, epoch, sweep, proof, done, ended, left, void>>

Answer(r) ==
  /\ request[r].at = "SERVED"
  /\ request' = [request EXCEPT ![r] = IdleRequest]
  /\ UNCHANGED <<row, out, epoch, sweep, proof, done, ended, left, void>>

-------------------------------------------------------------------------------
(* Ending sessions.  An UPDATE takes the rows of its snapshot, and looks   *)
(* again at each when the transaction that held it is over; rows appended  *)
(* meanwhile are not in it.                                                *)

Revocable(s) == row[s].state = "ACTIVE" \/ (row[s].state = "ROTATED" /\ row[s].grace)

Revoked(reach) ==
  [s \in Rows |-> IF s \in reach /\ Revocable(s)
                  THEN [row[s] EXCEPT !.state = "REVOKED", !.grace = FALSE, !.due = FALSE, !.idle = FALSE] ELSE row[s]]

\* The rows a logout reaches.
LogoutReach(r) == {s \in Chain(row[request[r].tail].logical) : Revocable(s)}

Logout(r) ==
  /\ request[r].at = "SERVED"
  /\ request' = [request EXCEPT ![r].at = "LEAVING", ![r].reach = LogoutReach(r)]
  /\ UNCHANGED <<row, out, epoch, sweep, proof, done, ended, left, void>>

RevokeSession(r) ==
  /\ request[r].at = "LEAVING"
  /\ row' = Revoked(request[r].reach)
  /\ left' = [left EXCEPT !.out = @ \cup {row[request[r].tail].logical}]
  /\ request' = [request EXCEPT ![r] = IdleRequest]
  /\ UNCHANGED <<out, epoch, sweep, proof, done, ended, void>>

\* A recovery or an enrollment ends every session of the account; an
\* administrator one of them, or all.  Each locks the account first.
Kinds == {"SECRETS", "ALL_SESSIONS", "ONE_SESSION"}

\* Only what can still be used is counted, and ended.
Usable(l) == \E s \in Chain(l) : LiveTail(s)

SweepReach(kind, l) ==
  {s \in Used : /\ Revocable(s)
                /\ kind # "SECRETS" => Usable(row[s].logical)
                /\ kind = "ONE_SESSION" => row[s].logical = l}

BeginRevocation(kind, l) ==
  /\ ~Locked /\ row[l].logical = l
  /\ sweep' = [kind |-> kind, reach |-> SweepReach(kind, l)]
  /\ UNCHANGED <<row, out, epoch, request, proof, done, ended, left, void>>

Given == {p \in Proofs : proof[p].state # "NONE"}

ProofsEnded == [p \in Proofs |-> IF p \in Given THEN [proof[p] EXCEPT !.state = "CONSUMED"] ELSE NoProof]

RevokeAll ==
  /\ Locked
  /\ row' = Revoked(sweep.reach)
  /\ ended' = ended \cup {row[s].logical : s \in sweep.reach}
  /\ proof' = IF sweep.kind = "SECRETS" THEN ProofsEnded ELSE proof
  /\ void' = IF sweep.kind = "SECRETS" THEN void \cup (Given \ {d.proof : d \in done}) ELSE void
  /\ \/ epoch' = epoch
     \/ sweep.kind = "SECRETS" /\ epoch < MaxEpoch /\ epoch' = epoch + 1
  /\ sweep' = NoSweep
  /\ UNCHANGED <<out, request, done, left>>

-------------------------------------------------------------------------------
(* Step-up: a protected command is refused with a challenge, and sent      *)
(* again with the proof.  Challenge and proof are for one command, and for *)
(* one row of the session.                                                 *)

IssueStepUpChallenge(r, p, c) ==
  /\ request[r].at = "SERVED" /\ proof[p].state = "NONE"
  /\ proof' = [proof EXCEPT ![p] = [state |-> "ASKED", session |-> request[r].tail, command |-> c]]
  /\ request' = [request EXCEPT ![r] = IdleRequest]
  /\ UNCHANGED <<row, out, epoch, sweep, done, ended, left, void>>

VerifyTotp(p) ==
  /\ ~Locked /\ proof[p].state = "ASKED"
  /\ proof' = [proof EXCEPT ![p].state = "PROVED"]
  /\ UNCHANGED <<row, out, epoch, request, sweep, done, ended, left, void>>

IsFor(p, r, c) == proof[p].session = request[r].tail /\ proof[p].command = c

Executed(c) == \E d \in done : d.command = c

\* A spent proof still opens the stored answer of its command.
Valid(p, r, c) ==
  /\ IsFor(p, r, c)
  /\ proof[p].state = "PROVED" \/ (proof[p].state = "CONSUMED" /\ Executed(c))

ValidateStepUpProof(r, p, c) ==
  /\ request[r].at = "SERVED" /\ Valid(p, r, c)
  /\ request' = [request EXCEPT ![r].at = "PROVED", ![r].command = c, ![r].proofs = {p}]
  /\ UNCHANGED <<row, out, epoch, sweep, proof, done, ended, left, void>>

\* The command's own transaction looks at the proof again.
Unspent(p) == proof[p].state = "PROVED"

ExecuteProtected(r, p) ==
  /\ request[r].at = "PROVED" /\ p \in request[r].proofs
  /\ ~Executed(request[r].command) /\ Unspent(p)
  /\ done' = done \cup {[command |-> request[r].command, proof |-> p]}
  /\ proof' = [proof EXCEPT ![p].state = "CONSUMED"]
  /\ request' = [request EXCEPT ![r] = IdleRequest]
  /\ UNCHANGED <<row, out, epoch, sweep, ended, left, void>>

\* The stored answer is repeated; creating an account spends the proof again.
ReplayProtected(r, p) ==
  /\ request[r].at = "PROVED" /\ p \in request[r].proofs
  /\ Executed(request[r].command)
  /\ \/ UNCHANGED proof
     \/ proof[p].state # "OVER" /\ proof' = [proof EXCEPT ![p].state = "CONSUMED"]
  /\ request' = [request EXCEPT ![r] = IdleRequest]
  /\ UNCHANGED <<row, out, epoch, sweep, done, ended, left, void>>

ProofSpentMeanwhile(r, p) ==
  /\ request[r].at = "PROVED" /\ p \in request[r].proofs
  /\ ~Executed(request[r].command) /\ ~Unspent(p)
  /\ request' = [request EXCEPT ![r].at = "SERVED", ![r].command = NoCommand, ![r].proofs = {}]
  /\ UNCHANGED <<row, out, epoch, sweep, proof, done, ended, left, void>>

-------------------------------------------------------------------------------
(* Time, and grants, which bump the epoch of the account.                  *)

TimePasses ==
  /\ \/ \E s \in Used :
          \/ row[s].state = "ACTIVE" /\ ~row[s].due /\ row' = [row EXCEPT ![s].due = TRUE] /\ UNCHANGED <<out, proof>>
          \/ row[s].grace /\ row' = [row EXCEPT ![s].grace = FALSE] /\ UNCHANGED <<out, proof>>
          \/ ~row[s].idle /\ row[s].state = "ACTIVE"
               /\ row' = [row EXCEPT ![s].idle = TRUE] /\ UNCHANGED <<out, proof>>
     \/ \E l \in Used : row[l].logical = l /\ InTime(l) /\ Usables(l) /\ out' = out \cup {l} /\ UNCHANGED <<row, proof>>
     \/ \E p \in Given : proof[p].state # "OVER"
               /\ proof' = [proof EXCEPT ![p].state = "OVER"] /\ UNCHANGED <<row, out>>
  /\ UNCHANGED <<epoch, request, sweep, done, ended, left, void>>

AccessGranted ==
  /\ ~Locked /\ epoch < MaxEpoch /\ epoch' = epoch + 1
  /\ UNCHANGED <<row, out, request, sweep, proof, done, ended, left, void>>

-------------------------------------------------------------------------------
Init ==
  /\ row = [s \in Rows |-> NoSession] /\ out = {} /\ epoch = 0
  /\ request = [r \in Requests |-> IdleRequest] /\ sweep = NoSweep
  /\ proof = [p \in Proofs |-> NoProof] /\ done = {}
  /\ ended = {} /\ left = [out |-> {}, rotated |-> {}] /\ void = {}

RequestStep ==
  \E r \in Requests :
    \/ \E t \in Rows : FindSession(r, t) \/ RotateSession(r, t)
    \/ TouchSession(r) \/ Resolve(r) \/ Answer(r) \/ Logout(r) \/ RevokeSession(r)
    \/ \E p \in Proofs :
         \/ \E c \in Commands : IssueStepUpChallenge(r, p, c) \/ ValidateStepUpProof(r, p, c)
         \/ ExecuteProtected(r, p) \/ ReplayProtected(r, p) \/ ProofSpentMeanwhile(r, p)

Next ==
  \/ RequestStep
  \/ \E s \in Rows : CreateSession(s) \/ \E kind \in Kinds : BeginRevocation(kind, s)
  \/ RevokeAll
  \/ \E p \in Proofs : VerifyTotp(p)
  \/ TimePasses \/ AccessGranted

Spec == Init /\ [][Next]_vars

-------------------------------------------------------------------------------
(* What is true of them.                                                   *)

\* Every row, request and proof is well formed, and a grace belongs to a rotation.
SessionTypeOK ==
  /\ row \in [Rows -> Row] /\ request \in [Requests -> Request] /\ proof \in [Proofs -> Proof]
  /\ \A s \in Rows : row[s].grace => row[s].state = "ROTATED"
  /\ out \subseteq Rows /\ ended \subseteq Rows /\ epoch \in 0..MaxEpoch

\* However requests with one token race, a logical session stays one chain and
\* only its last row accepts new work (auth.repository.ts:847).
OneTail ==
  \A l \in {row[s].logical : s \in Used} :
    /\ Cardinality({s \in Chain(l) : ~HasSuccessor(s)}) = 1
    /\ \A s \in Chain(l) : row[s].state = "ACTIVE" => ~HasSuccessor(s)

\* No token of a session that a recovery, an enrollment or an administrator
\* ended is honoured again: a rotation waits for them (auth.repository.ts:870).
RevocationHolds == \A l \in ended : ~Usables(l)

\* A logout ends its session whichever of its tokens asked for it, unless
\* another request rotated it while the logout waited (auth.repository.ts:998).
LogoutHolds == \A l \in left.out \ left.rotated : ~Usables(l)

\* Repeated, raced or proved twice, a protected command is executed once, by a
\* proof given for it (access-authorization.repository.ts:209).
CommandsRunOnce ==
  /\ \A d, e \in done : (d.command = e.command \/ d.proof = e.proof) => d = e
  /\ \A d \in done : proof[d.proof].command = d.command

\* No command runs on a proof from before a recovery or an enrollment, even when
\* its request was admitted before (auth.repository.ts:1036).
ProofsEndWithSecrets == \A d \in done : d.proof \notin void

\* All of it, of one account.
SessionsAreSound ==
  /\ SessionTypeOK /\ OneTail
  /\ RevocationHolds /\ LogoutHolds
  /\ CommandsRunOnce /\ ProofsEndWithSecrets
===============================================================================
