------------------------------ MODULE Credentials ------------------------------
(***************************************************************************)
(* The secrets of one identity account: its password behind a throttle,    *)
(* its authenticator, its recovery code, and the challenges and            *)
(* enrollments that wait for a code.                                       *)
(*                                                                         *)
(* A password attempt is several transactions: it reserves a place in the  *)
(* throttle, reads the account and verifies the password with no lock,     *)
(* then logs in, or starts an enrollment, against the locked account.      *)
(* Requests may die between them.  A code is the pair of the secret and    *)
(* the 30 second counter it was computed from.                             *)
(***************************************************************************)
EXTENDS Integers, FiniteSets

CONSTANTS
  Attempts,       \* password attempts that may be under way together
  Passwords, Secrets, NoSecret,
  Challenges, Enrollments,
  Limit,          \* failures that lock the login: 10 in the code
  DelayFrom,      \* failures from which each delays the next: 5
  CodeLimit,      \* wrong codes a challenge or an enrollment survives: 5
  RecoveryLimit,  \* recoveries tried per window: 5
  MaxTime, MaxVersion, MaxGeneration   \* bounds of the model

CredentialAssumption ==
  /\ Secrets # {} /\ NoSecret \notin Secrets
  /\ Limit \in Nat \ {0} /\ DelayFrom \in 1..Limit
  /\ CodeLimit \in Nat \ {0} /\ RecoveryLimit \in Nat \ {0}
  /\ MaxTime \in Nat /\ MaxVersion \in Nat /\ MaxGeneration \in Nat

VARIABLES
  account,     \* the identity_accounts row
  throttle,    \* the auth_throttle_buckets row of the login
  leases,      \* auth_password_attempt_reservations
  attempt,     \* attempt[a]: the request, and what it has read
  challenge,   \* challenge[c]: an auth_challenges row
  enrollment,  \* enrollment[e]: a totp_enrollment_challenges row
  recovery,    \* the auth_recovery_attempts row
  time,        \* the current 30 second counter
  granted      \* sessions and step-up proofs given, and what proved them

vars == <<account, throttle, leases, attempt, challenge, enrollment, recovery, time, granted>>

Account == [state: {"INVITED", "ACTIVE"}, version: Nat, password: Passwords,
            dated: BOOLEAN,    \* hashed under a former profile
            totp: Secrets \cup {NoSecret}, counter: Int, code: Nat, epoch: Nat,
            privileged: BOOLEAN]

NoCounter == -1

Throttle == [failures: 0..Limit, generation: Nat, delayed: BOOLEAN,
             lock: {"NONE", "LOCKED", "OVER"}]

Lease == [by: Attempts, generation: Nat, live: BOOLEAN]

Attempt == [at: {"IDLE", "RESERVED", "CHECKED", "FAILED"}, kind: {"LOGIN", "ENROLL"},
            guess: Passwords, fresh: Passwords \cup {"none"}, generation: Nat,
            version: Nat, password: Passwords, dated: BOOLEAN]

NoAttempt == [at |-> "IDLE", kind |-> "LOGIN", guess |-> CHOOSE p \in Passwords : TRUE, fresh |-> "none",
              generation |-> 0, version |-> 0, password |-> CHOOSE p \in Passwords : TRUE, dated |-> FALSE]

ChallengeKinds == {"NONE", "LOGIN", "STEP_UP"}

Challenge == [kind: ChallengeKinds, consumed: BOOLEAN, attempts: 0..CodeLimit,
              expired: BOOLEAN, password: Passwords]

Enrollment == [state: {"NONE", "OPEN", "CONSUMED", "EXPIRED", "ATTEMPTS_EXHAUSTED"},
               secret: Secrets, password: Passwords \cup {"none"}, version: Nat,
               attempts: 0..CodeLimit, expired: BOOLEAN]

-------------------------------------------------------------------------------
(* What a code proves.                                                     *)

Code == [secret: Secrets, counter: 0..MaxTime]

NoCode == [secret |-> NoSecret, counter |-> NoCounter]

\* The counters a code may have, newest first, all later than the last one.
Acceptable(last) == {n \in {time, time - 1} : n > last}

VerifyTotp(secret, code, last) == code.secret = secret /\ code.counter \in Acceptable(last)

HasTotp == account.totp # NoSecret

EnrollmentEligible == ~HasTotp

\* An invited account sets its own password with its authenticator.
ModeValid(fresh) == (account.state = "INVITED") <=> fresh # "none"

ChallengeUsable(c) ==
  /\ challenge[c].kind # "NONE" /\ account.state = "ACTIVE"
  /\ ~challenge[c].consumed /\ ~challenge[c].expired
  /\ challenge[c].attempts < CodeLimit

-------------------------------------------------------------------------------
(* The throttle of one login.                                              *)

ActiveLeases(g) == {l \in leases : l.generation = g /\ l.live}

Cleared == [throttle EXCEPT !.failures = 0, !.generation = @ + 1, !.delayed = FALSE, !.lock = "NONE"]

NextThrottle ==
  LET n == throttle.failures + 1
  IN IF n >= Limit
     THEN [throttle EXCEPT !.failures = Limit, !.delayed = FALSE, !.lock = "LOCKED"]
     ELSE [throttle EXCEPT !.failures = n, !.delayed = n >= DelayFrom, !.lock = "NONE"]

\* The bucket as an attempt finds it: a lock that is over is forgotten.
Reopened == IF throttle.lock = "OVER"
            THEN [throttle EXCEPT !.failures = 0, !.generation = @ + 1, !.lock = "NONE"]
            ELSE throttle

\* Faulty variant: the attempts under way are not counted.
HasFailuresLeft(t) == t.failures < Limit

HasPlace(t) == t.failures + Cardinality(ActiveLeases(t.generation)) < Limit

ReservePasswordAttempt(a, kind, guess, fresh) ==
  /\ attempt[a].at = "IDLE"
  /\ kind = "LOGIN" => fresh = "none"
  /\ kind = "ENROLL" => fresh # guess
  /\ throttle.lock # "LOCKED" /\ ~throttle.delayed
  /\ Reopened.generation <= MaxGeneration
  /\ HasPlace(Reopened)
  /\ throttle' = Reopened
  /\ leases' = ActiveLeases(Reopened.generation)
                 \cup {[by |-> a, generation |-> Reopened.generation, live |-> TRUE]}
  /\ attempt' = [attempt EXCEPT ![a].at = "RESERVED", ![a].kind = kind, ![a].guess = guess,
                                ![a].fresh = fresh, ![a].generation = Reopened.generation]
  /\ UNCHANGED <<account, challenge, enrollment, recovery, time, granted>>

Own(a) == {l \in leases : l.by = a /\ l.generation = attempt[a].generation}

\* A failure counts if its lease still runs in the generation it was given in.
FinalizePasswordFailure(a) ==
  /\ attempt[a].at = "FAILED"
  /\ throttle' = IF \E l \in Own(a) : l.live /\ l.generation = throttle.generation
                 THEN NextThrottle ELSE throttle
  /\ leases' = leases \ Own(a)
  /\ attempt' = [attempt EXCEPT ![a] = NoAttempt]
  /\ UNCHANGED <<account, challenge, enrollment, recovery, time, granted>>

\* A request that dies leaves its lease behind.
Die(a) ==
  /\ attempt[a].at # "IDLE"
  /\ attempt' = [attempt EXCEPT ![a] = NoAttempt]
  /\ UNCHANGED <<account, throttle, leases, challenge, enrollment, recovery, time, granted>>

-------------------------------------------------------------------------------
(* Logging in, and starting an enrollment.                                 *)

Admits(a) == IF attempt[a].kind = "LOGIN" THEN account.state = "ACTIVE" ELSE EnrollmentEligible

\* The account is read and the password verified outside any transaction.
CheckPassword(a) ==
  /\ attempt[a].at = "RESERVED"
  /\ LET ok == attempt[a].guess = account.password /\ Admits(a)
     IN attempt' = [attempt EXCEPT ![a].at = IF ok THEN "CHECKED" ELSE "FAILED",
                      ![a].version = account.version, ![a].password = account.password,
                      ![a].dated = account.dated]
  /\ UNCHANGED <<account, throttle, leases, challenge, enrollment, recovery, time, granted>>

\* The locked account is the one that was checked.
Unchanged(a) ==
  /\ attempt[a].version = account.version /\ attempt[a].password = account.password
  /\ attempt[a].dated = account.dated

Rehashed == IF account.dated
            THEN [account EXCEPT !.dated = FALSE, !.version = @ + 1] ELSE account

Release(a) ==
  /\ leases' = leases \ Own(a)
  /\ attempt' = [attempt EXCEPT ![a] = NoAttempt]

Grant(by, assurance, password, code) ==
  [by |-> by, assurance |-> assurance, password |-> password, code |-> code]

NewChallenge(kind, password) ==
  [kind |-> kind, consumed |-> FALSE, attempts |-> 0, expired |-> FALSE, password |-> password]

NeedsCode == account.privileged \/ HasTotp

Login(a) ==
  /\ attempt[a].at = "CHECKED" /\ attempt[a].kind = "LOGIN"
  /\ Unchanged(a) /\ Admits(a)
  /\ Rehashed.version <= MaxVersion /\ throttle.generation < MaxGeneration
  /\ NeedsCode => HasTotp
  /\ account' = Rehashed
  /\ throttle' = Cleared
  /\ leases' = {}
  /\ attempt' = [attempt EXCEPT ![a] = NoAttempt]
  /\ \/ /\ NeedsCode
        /\ \E c \in Challenges :
             /\ challenge[c].kind = "NONE"
             /\ challenge' = [challenge EXCEPT ![c] = NewChallenge("LOGIN", attempt[a].guess)]
        /\ UNCHANGED granted
     \/ /\ ~NeedsCode
        /\ granted' = granted \cup {Grant(a, "PASSWORD", attempt[a].guess, NoCode)}
        /\ UNCHANGED challenge
  /\ UNCHANGED <<enrollment, recovery, time>>

\* The account changed meanwhile: counted as a wrong password.
LoginStale(a) ==
  /\ attempt[a].at = "CHECKED" /\ attempt[a].kind = "LOGIN" /\ ~(Unchanged(a) /\ Admits(a))
  /\ attempt' = [attempt EXCEPT ![a].at = "FAILED"]
  /\ UNCHANGED <<account, throttle, leases, challenge, enrollment, recovery, time, granted>>

\* The transaction is rolled back and the lease returned.
LoginRefused(a) ==
  /\ attempt[a].at = "CHECKED" /\ attempt[a].kind = "LOGIN"
  /\ Unchanged(a) /\ Admits(a) /\ NeedsCode /\ ~HasTotp
  /\ Release(a)
  /\ UNCHANGED <<account, throttle, challenge, enrollment, recovery, time, granted>>

Closed(state) ==
  [e \in Enrollments |-> IF enrollment[e].state = "OPEN"
                         THEN [enrollment[e] EXCEPT !.state = state] ELSE enrollment[e]]

StartTotpEnrollment(a, e, secret) ==
  /\ attempt[a].at = "CHECKED" /\ attempt[a].kind = "ENROLL"
  /\ Unchanged(a) /\ EnrollmentEligible /\ ModeValid(attempt[a].fresh)
  /\ enrollment[e].state = "NONE" /\ throttle.generation < MaxGeneration
  /\ \A f \in Enrollments : enrollment[f].state # "NONE" => enrollment[f].secret # secret
  /\ enrollment' = [Closed("EXPIRED") EXCEPT ![e] =
       [state |-> "OPEN", secret |-> secret, password |-> attempt[a].fresh,
        version |-> account.version, attempts |-> 0, expired |-> FALSE]]
  /\ throttle' = Cleared
  /\ leases' = {}
  /\ attempt' = [attempt EXCEPT ![a] = NoAttempt]
  /\ UNCHANGED <<account, challenge, recovery, time, granted>>

\* A stale account, or a password given or missing where it must not be.
EnrollmentRefused(a) ==
  /\ attempt[a].at = "CHECKED" /\ attempt[a].kind = "ENROLL"
  /\ ~(Unchanged(a) /\ EnrollmentEligible /\ ModeValid(attempt[a].fresh))
  /\ Release(a)
  /\ UNCHANGED <<account, throttle, challenge, enrollment, recovery, time, granted>>

-------------------------------------------------------------------------------
(* Codes.                                                                  *)

IssueStepUpChallenge(c) ==
  /\ account.state = "ACTIVE" /\ HasTotp
  /\ challenge[c].kind = "NONE"
  /\ challenge' = [challenge EXCEPT ![c] = NewChallenge("STEP_UP", account.password)]
  /\ UNCHANGED <<account, throttle, leases, attempt, enrollment, recovery, time, granted>>

VerifyChallenge(c, code) ==
  /\ ChallengeUsable(c) /\ HasTotp
  /\ VerifyTotp(account.totp, code, account.counter)
  /\ account.version < MaxVersion
  /\ challenge' = [challenge EXCEPT ![c].consumed = TRUE]
  /\ account' = [account EXCEPT !.counter = code.counter, !.version = @ + 1]
  /\ granted' = granted \cup {Grant(c, IF challenge[c].kind = "LOGIN" THEN "PASSWORD_TOTP" ELSE "STEP_UP",
                                    challenge[c].password, code)}
  /\ UNCHANGED <<throttle, leases, attempt, enrollment, recovery, time>>

RecordChallengeFailure(c) ==
  /\ ChallengeUsable(c) /\ HasTotp
  /\ challenge' = [challenge EXCEPT ![c].attempts = @ + 1, ![c].consumed = @ \/ challenge[c].attempts + 1 >= CodeLimit]
  /\ UNCHANGED <<account, throttle, leases, attempt, enrollment, recovery, time, granted>>

EnrollmentStands(e) ==
  /\ enrollment[e].state = "OPEN" /\ ~enrollment[e].expired
  /\ enrollment[e].version = account.version
  /\ EnrollmentEligible /\ ModeValid(enrollment[e].password)

\* Faulty variant: only the challenges of logins are closed.
LoginsConsumed == [c \in Challenges |-> [challenge[c] EXCEPT !.consumed = @ \/ challenge[c].kind = "LOGIN"]]

Consumed == [c \in Challenges |-> [challenge[c] EXCEPT !.consumed = @ \/ challenge[c].kind # "NONE"]]

\* The two codes are those of the counters time - 1 and time.
CompleteTotpEnrollment(e) ==
  /\ EnrollmentStands(e) /\ time > 0
  /\ account.version < MaxVersion
  /\ account' = [account EXCEPT
       !.state = "ACTIVE", !.totp = enrollment[e].secret, !.counter = time,
       !.password = IF account.state = "INVITED" THEN enrollment[e].password ELSE @,
       !.dated = IF account.state = "INVITED" THEN FALSE ELSE @,
       !.code = @ + 1, !.epoch = @ + 1, !.version = @ + 1]
  /\ enrollment' = [enrollment EXCEPT ![e].state = "CONSUMED"]
  /\ challenge' = Consumed
  /\ granted' = granted \cup {Grant(e, "ENROLLED", account'.password, [secret |-> enrollment[e].secret, counter |-> time])}
  /\ UNCHANGED <<throttle, leases, attempt, recovery, time>>

EnrollmentCodeWrong(e) ==
  /\ EnrollmentStands(e)
  /\ LET n == enrollment[e].attempts + 1
     IN enrollment' = [enrollment EXCEPT ![e].attempts = n,
                         ![e].state = IF n >= CodeLimit THEN "ATTEMPTS_EXHAUSTED" ELSE @]
  /\ UNCHANGED <<account, throttle, leases, attempt, challenge, recovery, time, granted>>

EnrollmentFallen(e) ==
  /\ enrollment[e].state = "OPEN" /\ ~EnrollmentStands(e)
  /\ enrollment' = [enrollment EXCEPT ![e].state = "EXPIRED"]
  /\ UNCHANGED <<account, throttle, leases, attempt, challenge, recovery, time, granted>>

\* The sweeper that runs every 30 seconds.
SweepEnrollments ==
  /\ \E e \in Enrollments : enrollment[e].state = "OPEN" /\ enrollment[e].expired
  /\ enrollment' = [e \in Enrollments |->
       IF enrollment[e].state = "OPEN" /\ enrollment[e].expired
       THEN [enrollment[e] EXCEPT !.state = "EXPIRED"] ELSE enrollment[e]]
  /\ UNCHANGED <<account, throttle, leases, attempt, challenge, recovery, time, granted>>

-------------------------------------------------------------------------------
(* Recovery of the password.  The attempt is counted first, in a           *)
(* transaction of its own, so a request that dies has spent it.            *)

RecoveryOpen == recovery.live => recovery.attempts < RecoveryLimit

ReserveRecoveryAttempt ==
  /\ RecoveryOpen
  /\ recovery.pending < Cardinality(Attempts)
  /\ recovery' = [recovery EXCEPT !.live = TRUE, !.pending = @ + 1,
                    !.attempts = IF recovery.live THEN @ + 1 ELSE 1]
  /\ UNCHANGED <<account, throttle, leases, attempt, challenge, enrollment, time, granted>>

\* Faulty variant: the current counter recovers, whether or not it served before.
RecoveryWindow(code) == VerifyTotp(account.totp, code, time - 1)

\* Only the current counter recovers, and only once.
RecoveryCounter(code) == VerifyTotp(account.totp, code, IF account.counter > time - 1 THEN account.counter ELSE time - 1)

\* NoCode stands for the recovery code, which only an enrolled account has.
Recover(password, by) ==
  /\ recovery.pending > 0
  /\ IF by = NoCode THEN account.code > 0 ELSE HasTotp /\ RecoveryCounter(by)
  /\ account.state = "ACTIVE" /\ account.version < MaxVersion
  /\ account' = [account EXCEPT !.password = password, !.dated = FALSE, !.code = @ + 1, !.version = @ + 1,
                                !.counter = IF by = NoCode THEN @ ELSE by.counter]
  /\ challenge' = Consumed
  /\ enrollment' = Closed("EXPIRED")
  /\ recovery' = [attempts |-> 0, live |-> FALSE, pending |-> recovery.pending - 1]
  /\ granted' = granted \cup {Grant(account.code, "RECOVERED", password, by)}
  /\ UNCHANGED <<throttle, leases, attempt, time>>

RecoveryFails ==
  /\ recovery.pending > 0
  /\ recovery' = [recovery EXCEPT !.pending = @ - 1]
  /\ UNCHANGED <<account, throttle, leases, attempt, challenge, enrollment, time, granted>>

-------------------------------------------------------------------------------
(* Time, and a grant of access, which moves the account's version.         *)

Tick == /\ time < MaxTime /\ time' = time + 1
        /\ UNCHANGED <<account, throttle, leases, attempt, challenge, enrollment, recovery, granted>>

LeaseRunsOut ==
  /\ \E l \in leases : l.live /\ leases' = (leases \ {l}) \cup {[l EXCEPT !.live = FALSE]}
  /\ UNCHANGED <<account, throttle, attempt, challenge, enrollment, recovery, time, granted>>

WaitIsOver ==
  /\ \/ throttle.delayed /\ throttle' = [throttle EXCEPT !.delayed = FALSE]
     \/ throttle.lock = "LOCKED" /\ throttle' = [throttle EXCEPT !.lock = "OVER"]
  /\ UNCHANGED <<account, leases, attempt, challenge, enrollment, recovery, time, granted>>

ChallengeRunsOut(c) ==
  /\ ChallengeUsable(c)
  /\ challenge' = [challenge EXCEPT ![c].expired = TRUE]
  /\ UNCHANGED <<account, throttle, leases, attempt, enrollment, recovery, time, granted>>

EnrollmentRunsOut(e) ==
  /\ enrollment[e].state = "OPEN" /\ ~enrollment[e].expired
  /\ enrollment' = [enrollment EXCEPT ![e].expired = TRUE]
  /\ UNCHANGED <<account, throttle, leases, attempt, challenge, recovery, time, granted>>

RecoveryWindowOver ==
  /\ recovery.live /\ recovery' = [recovery EXCEPT !.live = FALSE]
  /\ UNCHANGED <<account, throttle, leases, attempt, challenge, enrollment, time, granted>>

AccessGranted ==
  /\ account.version < MaxVersion
  /\ account' = [account EXCEPT !.epoch = @ + 1, !.version = @ + 1]
  /\ UNCHANGED <<throttle, leases, attempt, challenge, enrollment, recovery, time, granted>>

-------------------------------------------------------------------------------
\* A privileged account is created invited; older ones are active without a code.
Init ==
  /\ \E s \in {"INVITED", "ACTIVE"}, p \in Passwords, d \in BOOLEAN, v \in BOOLEAN :
       /\ s = "INVITED" => v
       /\ d => ~v
       /\ account = [state |-> s, version |-> 0, password |-> p, dated |-> d, totp |-> NoSecret,
                     counter |-> NoCounter, code |-> 0, epoch |-> 0, privileged |-> v]
  /\ throttle = [failures |-> 0, generation |-> 0, delayed |-> FALSE, lock |-> "NONE"]
  /\ leases = {} /\ granted = {} /\ time = 0
  /\ attempt = [a \in Attempts |-> NoAttempt]
  /\ challenge = [c \in Challenges |-> [NewChallenge("NONE", account.password) EXCEPT !.consumed = FALSE]]
  /\ enrollment = [e \in Enrollments |-> [state |-> "NONE", secret |-> CHOOSE s \in Secrets : TRUE,
                     password |-> "none", version |-> 0, attempts |-> 0, expired |-> FALSE]]
  /\ recovery = [attempts |-> 0, live |-> FALSE, pending |-> 0]

PasswordStep ==
  \E a \in Attempts :
    \/ \E kind \in {"LOGIN", "ENROLL"}, guess \in Passwords, fresh \in Passwords \cup {"none"} :
         ReservePasswordAttempt(a, kind, guess, fresh)
    \/ CheckPassword(a) \/ Login(a) \/ LoginStale(a) \/ LoginRefused(a)
    \/ \E e \in Enrollments, s \in Secrets : StartTotpEnrollment(a, e, s)
    \/ EnrollmentRefused(a) \/ FinalizePasswordFailure(a) \/ Die(a)

CodeStep ==
  \/ \E c \in Challenges :
       \/ IssueStepUpChallenge(c) \/ RecordChallengeFailure(c) \/ ChallengeRunsOut(c)
       \/ \E code \in Code : VerifyChallenge(c, code)
  \/ \E e \in Enrollments :
       \/ CompleteTotpEnrollment(e) \/ EnrollmentCodeWrong(e)
       \/ EnrollmentFallen(e) \/ EnrollmentRunsOut(e)
  \/ SweepEnrollments

RecoveryStep ==
  \/ ReserveRecoveryAttempt \/ RecoveryFails \/ RecoveryWindowOver
  \/ \E p \in Passwords, by \in Code \cup {NoCode} : Recover(p, by)

Next == PasswordStep \/ CodeStep \/ RecoveryStep
          \/ Tick \/ LeaseRunsOut \/ WaitIsOver \/ AccessGranted

Spec == Init /\ [][Next]_vars

-------------------------------------------------------------------------------
(* What is true of them.                                                   *)

\* Every row is well formed.
CredentialTypeOK ==
  /\ account \in Account /\ throttle \in Throttle
  /\ leases \subseteq Lease /\ attempt \in [Attempts -> Attempt]
  /\ challenge \in [Challenges -> Challenge] /\ enrollment \in [Enrollments -> Enrollment]
  /\ recovery \in [attempts: 0..RecoveryLimit, live: BOOLEAN, pending: Nat] /\ time \in 0..MaxTime

\* However many attempts run together, die or are cleared by a success, those
\* that failed and those that may still fail never exceed the limit, so none
\* is under way once the login is locked (auth.service.ts:859).
FailuresWithinLimit == throttle.failures + Cardinality(ActiveLeases(throttle.generation)) <= Limit

\* Rows are well formed, and the budget of failures holds.
BudgetHolds == CredentialTypeOK /\ FailuresWithinLimit

\* What is granted rests on the password the account has at that moment, and
\* on the password alone only while the account needs no code
\* (auth.service.ts:118 against a recovery or an enrollment in between).
Proved ==
  \A g \in granted' \ granted :
    /\ g.password = account'.password
    /\ g.assurance = "PASSWORD" => ~account'.privileged /\ account'.totp = NoSecret

GrantsAreProved == [][Proved]_vars

\* A code of the authenticator serves once, whichever of the three routes takes
\* it: a challenge, an enrollment or a recovery (auth.service.ts:545).
NoCodeTwice ==
  \A g, h \in granted : g.code = h.code /\ g.code # NoCode => g = h

\* An account enrolls one authenticator, the one of the enrollment started last;
\* nothing it started earlier can still complete (auth.repository.ts:376).
EnrollmentsAreOne ==
  /\ Cardinality({e \in Enrollments : enrollment[e].state = "OPEN"}) <= 1
  /\ \A e \in Enrollments :
       /\ enrollment[e].state = "CONSUMED" => enrollment[e].secret = account.totp
       /\ HasTotp => ~EnrollmentStands(e)

\* A challenge that can still be answered was issued for the password the
\* account has now: a recovery leaves none behind (auth.repository.ts:1013).
ChallengesAreCurrent ==
  \A c \in Challenges : ChallengeUsable(c) => challenge[c].password = account.password

\* What proves a user serves once, and only while it is the account's own.
CodesServeOnce == NoCodeTwice /\ ChallengesAreCurrent /\ EnrollmentsAreOne
===============================================================================
