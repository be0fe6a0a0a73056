--------------------------- MODULE CredentialProofs ---------------------------
(***************************************************************************)
(* What holds of the secrets of an account for any number of attempts,     *)
(* challenges, enrollments, passwords and limits.                          *)
(***************************************************************************)
EXTENDS Credentials, FiniteSetTheorems, TLAPS

-------------------------------------------------------------------------------
(* Types.                                                                  *)

\* An enrollment that is open has codes left.
EnrollmentsTried == \A e \in Enrollments : enrollment[e].state = "OPEN" => enrollment[e].attempts < CodeLimit

Typed == CredentialTypeOK /\ EnrollmentsTried

\* No attempt is an attempt.
LEMMA IdleType ==
  ASSUME Typed
  PROVE  NoAttempt \in Attempt /\ NoAttempt.at = "IDLE"
<1>1. Passwords # {}
  BY DEF Typed, CredentialTypeOK, Account
<1>2. (CHOOSE p \in Passwords : TRUE) \in Passwords
  BY <1>1
<1> QED BY <1>2 DEF NoAttempt, Attempt

\* The throttle stays one, with its failures within the limit.
LEMMA ThrottleTypes ==
  ASSUME CredentialAssumption, Typed
  PROVE  /\ Cleared \in Throttle /\ Cleared.failures = 0 /\ Cleared.generation = throttle.generation + 1
         /\ Reopened \in Throttle
         /\ throttle.failures < Limit => NextThrottle \in Throttle
         /\ NextThrottle.generation = throttle.generation
         /\ throttle.failures < Limit => NextThrottle.failures = throttle.failures + 1
<1> USE DEF CredentialAssumption, Typed, CredentialTypeOK, Throttle
<1>1. throttle \in [failures : 0 .. Limit, generation : Nat, delayed : BOOLEAN, lock : {"NONE", "LOCKED", "OVER"}]
  OBVIOUS
<1>2. 0 \in 0 .. Limit /\ Limit \in 0 .. Limit /\ throttle.generation + 1 \in Nat /\ DelayFrom \in Nat
  BY <1>1
<1>3. Cleared \in Throttle /\ Cleared.failures = 0 /\ Cleared.generation = throttle.generation + 1
  BY <1>1, <1>2 DEF Cleared
<1>4. Reopened \in Throttle
  BY <1>1, <1>2 DEF Reopened
<1>5. ASSUME throttle.failures < Limit
      PROVE  NextThrottle \in Throttle /\ NextThrottle.failures = throttle.failures + 1
  <2>1. throttle.failures + 1 \in 0 .. Limit /\ (throttle.failures + 1 >= DelayFrom) \in BOOLEAN
    BY <1>1, <1>2, <1>5
  <2>2. throttle.failures + 1 >= Limit => throttle.failures + 1 = Limit
    BY <1>1, <1>5
  <2> QED BY <1>1, <1>2, <2>1, <2>2 DEF NextThrottle
<1>6. NextThrottle.generation = throttle.generation
  BY <1>1 DEF NextThrottle
<1> QED BY <1>3, <1>4, <1>5, <1>6

-------------------------------------------------------------------------------
(* The throttle.                                                           *)

\* Places are counted, and those taken do not exceed the limit.
Budgeted == IsFiniteSet(leases) /\ FailuresWithinLimit

\* The leases of a generation are counted by a natural.
LEMMA ActiveFinite ==
  ASSUME IsFiniteSet(leases), NEW g
  PROVE  IsFiniteSet(ActiveLeases(g)) /\ Cardinality(ActiveLeases(g)) \in Nat
<1>1. ActiveLeases(g) \in SUBSET leases
  BY DEF ActiveLeases
<1>2. IsFiniteSet(ActiveLeases(g))
  BY <1>1, FS_Subset
<1> QED BY <1>2, FS_CardinalityType

\* A failure that counts takes the place its lease held.
LEMMA FailureHadPlace ==
  ASSUME CredentialAssumption, Typed, Budgeted, NEW a, NEW l \in Own(a), l.live, l.generation = throttle.generation
  PROVE  /\ throttle.failures < Limit
         /\ Cardinality(ActiveLeases(throttle.generation) \ {l}) + throttle.failures + 1 <= Limit
<1> DEFINE active == ActiveLeases(throttle.generation)
<1>1. l \in active
  BY DEF Own, ActiveLeases
<1>2. IsFiniteSet(active) /\ Cardinality(active) \in Nat
  BY ActiveFinite DEF Budgeted
<1>3. throttle.failures + Cardinality(active) <= Limit
  BY DEF Budgeted, FailuresWithinLimit
<1>4. throttle.failures \in Nat /\ Limit \in Nat
  BY DEF CredentialAssumption, Typed, CredentialTypeOK, Throttle
<1> HIDE DEF active
<1>5. IsFiniteSet(active \ {l}) /\ Cardinality(active \ {l}) = Cardinality(active) - 1
  BY <1>1, <1>2, FS_RemoveElement
<1>6. Cardinality(active \ {l}) \in Nat
  BY <1>5, FS_CardinalityType
<1>7. throttle.failures < Limit /\ Cardinality(active \ {l}) + throttle.failures + 1 <= Limit
  BY <1>2, <1>3, <1>4, <1>5, <1>6
<1> QED BY <1>7 DEF active

\* The places taken in the next state are among those taken in this one.
LEMMA FewerLeases ==
  ASSUME CredentialAssumption, Typed, Typed', Budgeted, IsFiniteSet(leases'),
         throttle'.failures <= throttle.failures,
         ActiveLeases(throttle.generation)' \subseteq ActiveLeases(throttle.generation)
  PROVE  FailuresWithinLimit'
<1> DEFINE active == ActiveLeases(throttle.generation)
           next == ActiveLeases(throttle.generation)'
<1>1. IsFiniteSet(active) /\ Cardinality(active) \in Nat
  BY ActiveFinite DEF Budgeted
<1>2. throttle.failures + Cardinality(active) <= Limit
  BY DEF Budgeted, FailuresWithinLimit
<1>3. throttle.failures \in Nat /\ throttle'.failures \in Nat /\ Limit \in Nat
  BY DEF CredentialAssumption, Typed, CredentialTypeOK, Throttle
<1>4. next \in SUBSET active
  OBVIOUS
<1>5. FailuresWithinLimit' <=> throttle'.failures + Cardinality(next) <= Limit
  BY DEF FailuresWithinLimit
<1> HIDE DEF active, next
<1>6. IsFiniteSet(next) /\ Cardinality(next) <= Cardinality(active)
  BY <1>1, <1>4, FS_Subset
<1>7. Cardinality(next) \in Nat
  BY <1>6, FS_CardinalityType
<1> QED BY <1>1, <1>2, <1>3, <1>5, <1>6, <1>7

\* An attempt that is admitted takes a place that is left.
LEMMA ReserveKeepsBudget ==
  ASSUME CredentialAssumption, Typed, Typed', Budgeted,
         NEW a, NEW kind, NEW guess, NEW fresh, ReservePasswordAttempt(a, kind, guess, fresh)
  PROVE  Budgeted'
<1> DEFINE active == ActiveLeases(Reopened.generation)
           l == [by |-> a, generation |-> Reopened.generation, live |-> TRUE]
<1>1. IsFiniteSet(active) /\ Cardinality(active) \in Nat
  BY ActiveFinite DEF Budgeted
<1>2. Reopened.failures + Cardinality(active) < Limit
  BY DEF ReservePasswordAttempt, HasPlace
<1>3. throttle' = Reopened /\ leases' = active \cup {l}
  BY DEF ReservePasswordAttempt
<1>4. throttle'.failures \in Nat /\ Limit \in Nat
  BY DEF CredentialAssumption, Typed, CredentialTypeOK, Throttle
<1>5. ActiveLeases(throttle.generation)' = active \cup {l}
  BY <1>3 DEF ActiveLeases
<1>6. FailuresWithinLimit' <=> throttle'.failures + Cardinality(active \cup {l}) <= Limit
  BY <1>5 DEF FailuresWithinLimit
<1> HIDE DEF active, l
<1>7. IsFiniteSet(active \cup {l}) /\ Cardinality(active \cup {l}) <= Cardinality(active) + 1
  BY <1>1, FS_AddElement
<1>8. Cardinality(active \cup {l}) \in Nat
  BY <1>7, FS_CardinalityType
<1>9. FailuresWithinLimit'
  BY <1>1, <1>2, <1>3, <1>4, <1>6, <1>7, <1>8
<1> QED BY <1>3, <1>7, <1>9 DEF Budgeted

\* A failure gives up the place it was counted in.
LEMMA FailureKeepsBudget ==
  ASSUME CredentialAssumption, Typed, Typed', Budgeted, NEW a, FinalizePasswordFailure(a)
  PROVE  Budgeted'
<1>1. leases' = leases \ Own(a)
  BY DEF FinalizePasswordFailure
<1>2. IsFiniteSet(leases')
  BY <1>1, FS_Difference DEF Budgeted
<1>3. CASE \E l \in Own(a) : l.live /\ l.generation = throttle.generation
  <2>1. PICK l \in Own(a) : l.live /\ l.generation = throttle.generation
    BY <1>3
  <2>2. /\ throttle.failures < Limit
        /\ Cardinality(ActiveLeases(throttle.generation) \ {l}) + throttle.failures + 1 <= Limit
    BY <2>1, FailureHadPlace
  <2>3. throttle' = NextThrottle
    BY <1>3 DEF FinalizePasswordFailure
  <2>4. throttle'.generation = throttle.generation /\ throttle'.failures = throttle.failures + 1
    BY <2>2, <2>3, ThrottleTypes
  <2> DEFINE rest == ActiveLeases(throttle.generation) \ {l}
             next == ActiveLeases(throttle.generation)'
  <2>5. next \in SUBSET rest
    BY <1>1, <2>1, <2>4 DEF ActiveLeases
  <2>6. IsFiniteSet(rest)
    BY ActiveFinite, FS_Difference DEF Budgeted
  <2>7. FailuresWithinLimit' <=> throttle'.failures + Cardinality(next) <= Limit
    BY DEF FailuresWithinLimit
  <2>8. throttle.failures \in Nat /\ Limit \in Nat
    BY DEF CredentialAssumption, Typed, CredentialTypeOK, Throttle
  <2>9. Cardinality(rest) + throttle.failures + 1 <= Limit
    BY <2>2
  <2> HIDE DEF rest, next
  <2>10. IsFiniteSet(next) /\ Cardinality(next) <= Cardinality(rest)
    BY <2>5, <2>6, FS_Subset
  <2>11. Cardinality(next) \in Nat /\ Cardinality(rest) \in Nat
    BY <2>6, <2>10, FS_CardinalityType
  <2> QED BY <1>2, <2>4, <2>7, <2>8, <2>9, <2>10, <2>11 DEF Budgeted
<1>4. CASE ~\E l \in Own(a) : l.live /\ l.generation = throttle.generation
  <2>1. throttle' = throttle
    BY <1>4 DEF FinalizePasswordFailure
  <2>2. ActiveLeases(throttle.generation)' \subseteq ActiveLeases(throttle.generation)
    BY <1>1, <2>1 DEF ActiveLeases
  <2>3. throttle'.failures <= throttle.failures
    BY <2>1 DEF Typed, CredentialTypeOK, Throttle
  <2> QED BY <1>2, <2>2, <2>3, FewerLeases DEF Budgeted
<1> QED BY <1>3, <1>4

\* A success frees every place.
LEMMA SuccessKeepsBudget ==
  ASSUME CredentialAssumption, Typed, throttle' = Cleared, leases' = {}
  PROVE  Budgeted'
<1>1. throttle'.failures = 0 /\ Limit \in Nat
  BY ThrottleTypes DEF CredentialAssumption
<1>2. ActiveLeases(throttle.generation)' = {}
  BY DEF ActiveLeases
<1>3. IsFiniteSet({}) /\ Cardinality({}) = 0
  BY FS_EmptySet
<1> QED BY <1>1, <1>2, <1>3 DEF Budgeted, FailuresWithinLimit

\* Every other step leaves the failures and gives out no lease.
LEMMA OthersKeepBudget ==
  ASSUME CredentialAssumption, Typed, Typed', Budgeted,
         throttle'.failures = throttle.failures, throttle'.generation = throttle.generation,
         leases' \subseteq leases
  PROVE  Budgeted'
<1>1. IsFiniteSet(leases')
  BY FS_Subset DEF Budgeted
<1>2. ActiveLeases(throttle.generation)' \subseteq ActiveLeases(throttle.generation)
  BY DEF ActiveLeases
<1>3. throttle'.failures <= throttle.failures
  BY DEF Typed, CredentialTypeOK, Throttle
<1> QED BY <1>1, <1>2, <1>3, FewerLeases DEF Budgeted

\* A lease that runs out is still there, and holds no place.
LEMMA ExpiryKeepsBudget ==
  ASSUME CredentialAssumption, Typed, Typed', Budgeted, LeaseRunsOut
  PROVE  Budgeted'
<1>1. PICK l \in leases : l.live /\ leases' = (leases \ {l}) \cup {[l EXCEPT !.live = FALSE]}
  BY DEF LeaseRunsOut
<1>2. PICK m : m = [l EXCEPT !.live = FALSE]
  OBVIOUS
<1>3. IsFiniteSet(leases \ {l})
  BY FS_RemoveElement DEF Budgeted
<1>4. IsFiniteSet((leases \ {l}) \cup {m})
  BY <1>3, FS_AddElement
<1>5. l \in Lease
  BY <1>1 DEF Typed, CredentialTypeOK
<1>6. ~m.live
  BY <1>2, <1>5 DEF Lease
<1>7. throttle' = throttle
  BY DEF LeaseRunsOut
<1>8. ActiveLeases(throttle.generation)' \subseteq ActiveLeases(throttle.generation)
  BY <1>1, <1>2, <1>6, <1>7 DEF ActiveLeases
<1>9. throttle'.failures <= throttle.failures
  BY <1>7 DEF Typed, CredentialTypeOK, Throttle
<1> QED BY <1>1, <1>2, <1>4, <1>8, <1>9, FewerLeases DEF Budgeted

\* No step lets more attempts fail than the limit.
LEMMA BudgetStep ==
  ASSUME CredentialAssumption, Typed, Typed', Budgeted, [Next]_vars
  PROVE  Budgeted'
<1>1. ASSUME NEW a, NEW kind, NEW guess, NEW fresh, ReservePasswordAttempt(a, kind, guess, fresh)
      PROVE  Budgeted'
  BY <1>1, ReserveKeepsBudget
<1>2. ASSUME NEW a, FinalizePasswordFailure(a) PROVE Budgeted'
  BY <1>2, FailureKeepsBudget
<1>3. ASSUME throttle' = Cleared, leases' = {} PROVE Budgeted'
  BY <1>3, SuccessKeepsBudget
<1>4. ASSUME throttle' = throttle, leases' \subseteq leases PROVE Budgeted'
  BY <1>4, OthersKeepBudget
<1>5. ASSUME WaitIsOver PROVE Budgeted'
  <2>1. throttle'.failures = throttle.failures /\ throttle'.generation = throttle.generation
    BY <1>5 DEF WaitIsOver, Typed, CredentialTypeOK, Throttle
  <2>2. leases' \subseteq leases
    BY <1>5 DEF WaitIsOver
  <2> QED BY <2>1, <2>2, OthersKeepBudget
<1>6. ASSUME PasswordStep PROVE Budgeted'
  <2>1. PICK a \in Attempts :
          \/ \E kind \in {"LOGIN", "ENROLL"}, guess \in Passwords, fresh \in Passwords \cup {"none"} :
               ReservePasswordAttempt(a, kind, guess, fresh)
          \/ CheckPassword(a) \/ Login(a) \/ LoginStale(a) \/ LoginRefused(a)
          \/ \E e \in Enrollments, s \in Secrets : StartTotpEnrollment(a, e, s)
          \/ EnrollmentRefused(a) \/ FinalizePasswordFailure(a) \/ Die(a)
    BY <1>6 DEF PasswordStep
  <2>2. CASE Login(a) \/ \E e \in Enrollments, s \in Secrets : StartTotpEnrollment(a, e, s)
    BY <2>2, <1>3 DEF Login, StartTotpEnrollment
  <2>3. CASE CheckPassword(a) \/ LoginStale(a) \/ LoginRefused(a) \/ EnrollmentRefused(a) \/ Die(a)
    BY <2>3, <1>4 DEF CheckPassword, LoginStale, LoginRefused, EnrollmentRefused, Release, Die
  <2> QED BY <2>1, <2>2, <2>3, <1>1, <1>2
<1>7. ASSUME CodeStep PROVE Budgeted'
  BY <1>7, <1>4 DEF CodeStep, IssueStepUpChallenge, RecordChallengeFailure, ChallengeRunsOut, VerifyChallenge,
     CompleteTotpEnrollment, EnrollmentCodeWrong, EnrollmentFallen, EnrollmentRunsOut, SweepEnrollments
<1>8. ASSUME RecoveryStep \/ Tick \/ AccessGranted \/ UNCHANGED vars PROVE Budgeted'
  BY <1>8, <1>4 DEF RecoveryStep, ReserveRecoveryAttempt, RecoveryFails, RecoveryWindowOver, Recover, Tick,
     AccessGranted, vars
<1> QED BY <1>5, <1>6, <1>7, <1>8, ExpiryKeepsBudget DEF Next

-------------------------------------------------------------------------------
(* Every step keeps the types.                                             *)

\* What a command writes of an account keeps its type.
LEMMA AccountTypes ==
  ASSUME NEW old \in Account, NEW v \in Nat, NEW n \in Int, NEW k \in Nat, NEW m \in Nat,
         NEW p \in Passwords, NEW d \in BOOLEAN, NEW s \in Secrets
  PROVE  /\ [old EXCEPT !.dated = FALSE, !.version = v] \in Account
         /\ [old EXCEPT !.counter = n, !.version = v] \in Account
         /\ [old EXCEPT !.epoch = m, !.version = v] \in Account
         /\ [old EXCEPT !.password = p, !.dated = FALSE, !.code = k, !.version = v, !.counter = n] \in Account
         /\ [old EXCEPT !.state = "ACTIVE", !.totp = s, !.counter = n, !.password = p, !.dated = d,
                        !.code = k, !.epoch = m, !.version = v] \in Account
<1> USE DEF Account
<1>1. [old EXCEPT !.dated = FALSE, !.version = v] \in Account
  OBVIOUS
<1>2. [old EXCEPT !.counter = n, !.version = v] \in Account
  OBVIOUS
<1>3. [old EXCEPT !.epoch = m, !.version = v] \in Account
  OBVIOUS
<1>4. [old EXCEPT !.password = p, !.dated = FALSE, !.code = k, !.version = v, !.counter = n] \in Account
  OBVIOUS
<1>5. [old EXCEPT !.state = "ACTIVE", !.totp = s, !.counter = n, !.password = p, !.dated = d,
                 !.code = k, !.epoch = m, !.version = v] \in Account
  OBVIOUS
<1> QED BY <1>1, <1>2, <1>3, <1>4, <1>5

\* The steps of a password attempt.
LEMMA PasswordTypes ==
  ASSUME CredentialAssumption, Typed, Budgeted, PasswordStep
  PROVE  Typed'
<1> USE DEF Typed, CredentialTypeOK
<1>1. NoAttempt \in Attempt
  BY IdleType
<1>2. PICK a \in Attempts :
        \/ \E kind \in {"LOGIN", "ENROLL"}, guess \in Passwords, fresh \in Passwords \cup {"none"} :
             ReservePasswordAttempt(a, kind, guess, fresh)
        \/ CheckPassword(a) \/ Login(a) \/ LoginStale(a) \/ LoginRefused(a)
        \/ \E e \in Enrollments, s \in Secrets : StartTotpEnrollment(a, e, s)
        \/ EnrollmentRefused(a) \/ FinalizePasswordFailure(a) \/ Die(a)
  BY DEF PasswordStep
<1>3. attempt[a] \in Attempt /\ [attempt EXCEPT ![a] = NoAttempt] \in [Attempts -> Attempt]
  BY <1>1
<1>4. ASSUME NEW kind \in {"LOGIN", "ENROLL"}, NEW guess \in Passwords, NEW fresh \in Passwords \cup {"none"},
             ReservePasswordAttempt(a, kind, guess, fresh)
      PROVE  Typed'
  <2>1. throttle' \in Throttle /\ Reopened.generation \in Nat
    BY <1>4, ThrottleTypes DEF ReservePasswordAttempt, Throttle
  <2>2. leases' \subseteq Lease
    <3>1. [by |-> a, generation |-> Reopened.generation, live |-> TRUE] \in Lease
      BY <2>1 DEF Lease
    <3>2. ActiveLeases(Reopened.generation) \subseteq leases
      BY DEF ActiveLeases
    <3> QED BY <1>4, <3>1, <3>2 DEF ReservePasswordAttempt
  <2>3. attempt' \in [Attempts -> Attempt]
    <3>1. PICK t : t = [attempt[a] EXCEPT !.at = "RESERVED", !.kind = kind, !.guess = guess,
                                          !.fresh = fresh, !.generation = Reopened.generation]
      OBVIOUS
    <3>2. t \in Attempt
      BY <1>3, <2>1, <3>1 DEF Attempt
    <3>3. attempt' = [attempt EXCEPT ![a] = t]
      BY <1>4, <3>1 DEF ReservePasswordAttempt
    <3> QED BY <3>2, <3>3
  <2> QED BY <1>4, <2>1, <2>2, <2>3 DEF ReservePasswordAttempt, EnrollmentsTried
<1>5. ASSUME CheckPassword(a) PROVE Typed'
  <2>1. attempt' \in [Attempts -> Attempt]
    <3>1. PICK s \in {"CHECKED", "FAILED"} :
            attempt' = [attempt EXCEPT ![a].at = s, ![a].version = account.version,
                          ![a].password = account.password, ![a].dated = account.dated]
      BY <1>5 DEF CheckPassword
    <3>2. PICK t : t = [attempt[a] EXCEPT !.at = s, !.version = account.version,
                          !.password = account.password, !.dated = account.dated]
      OBVIOUS
    <3>3. account.version \in Nat /\ account.password \in Passwords /\ account.dated \in BOOLEAN
      BY DEF Account
    <3>4. t \in Attempt
      BY <1>3, <3>2, <3>3 DEF Attempt
    <3>5. attempt' = [attempt EXCEPT ![a] = t]
      BY <3>1, <3>2
    <3> QED BY <3>4, <3>5
  <2> QED BY <1>5, <2>1 DEF CheckPassword, EnrollmentsTried
<1>6. ASSUME Login(a) PROVE Typed'
  <2>1. account' \in Account
    <3>1. PICK v \in Nat : v = account.version + 1
      BY DEF Account
    <3>2. [account EXCEPT !.dated = FALSE, !.version = v] \in Account
      BY AccountTypes DEF Account
    <3> QED BY <1>6, <3>1, <3>2 DEF Login, Rehashed
  <2>2. throttle' \in Throttle
    BY <1>6, ThrottleTypes DEF Login
  <2>3. challenge' \in [Challenges -> Challenge]
    <3>1. attempt[a].guess \in Passwords
      BY <1>3 DEF Attempt
    <3>2. NewChallenge("LOGIN", attempt[a].guess) \in Challenge
      BY <3>1 DEF NewChallenge, Challenge, ChallengeKinds, CredentialAssumption
    <3> QED BY <1>6, <3>2 DEF Login
  <2> QED BY <1>3, <1>6, <2>1, <2>2, <2>3 DEF Login, EnrollmentsTried
<1>7. ASSUME LoginStale(a) PROVE Typed'
  <2>1. attempt' \in [Attempts -> Attempt]
    BY <1>3, <1>7 DEF LoginStale, Attempt
  <2> QED BY <1>7, <2>1 DEF LoginStale, EnrollmentsTried
<1>8. ASSUME LoginRefused(a) \/ EnrollmentRefused(a) \/ Die(a) PROVE Typed'
  BY <1>3, <1>8 DEF LoginRefused, EnrollmentRefused, Die, Release, EnrollmentsTried
<1>9. ASSUME NEW e \in Enrollments, NEW s \in Secrets, StartTotpEnrollment(a, e, s) PROVE Typed'
  <2>1. throttle' \in Throttle
    BY <1>9, ThrottleTypes DEF StartTotpEnrollment
  <2> DEFINE opened == [state |-> "OPEN", secret |-> s, password |-> attempt[a].fresh,
                        version |-> account.version, attempts |-> 0, expired |-> FALSE]
  <2>2. opened \in Enrollment /\ opened.attempts < CodeLimit
    BY <1>3 DEF Enrollment, Attempt, Account, CredentialAssumption
  <2>3. Closed("EXPIRED") \in [Enrollments -> Enrollment]
        /\ \A f \in Enrollments : Closed("EXPIRED")[f].state # "OPEN"
    BY DEF Closed, Enrollment
  <2>4. enrollment' = [Closed("EXPIRED") EXCEPT ![e] = opened]
    BY <1>9 DEF StartTotpEnrollment
  <2> HIDE DEF opened
  <2>5. enrollment' \in [Enrollments -> Enrollment] /\ EnrollmentsTried'
    BY <2>2, <2>3, <2>4 DEF EnrollmentsTried
  <2> QED BY <1>3, <1>9, <2>1, <2>5 DEF StartTotpEnrollment
<1>10. ASSUME FinalizePasswordFailure(a) PROVE Typed'
  <2>1. throttle' \in Throttle
    BY <1>10, FailureHadPlace, ThrottleTypes DEF FinalizePasswordFailure
  <2> QED BY <1>3, <1>10, <2>1 DEF FinalizePasswordFailure, EnrollmentsTried
<1> QED BY <1>2, <1>4, <1>5, <1>6, <1>7, <1>8, <1>9, <1>10

\* The steps of challenges and enrollments.
LEMMA CodeTypes ==
  ASSUME CredentialAssumption, Typed, CodeStep
  PROVE  Typed'
<1> USE DEF Typed, CredentialTypeOK
<1>1. ASSUME NEW c \in Challenges, IssueStepUpChallenge(c) PROVE Typed'
  <2>1. NewChallenge("STEP_UP", account.password) \in Challenge
    BY DEF NewChallenge, Challenge, ChallengeKinds, CredentialAssumption, Account
  <2> QED BY <1>1, <2>1 DEF IssueStepUpChallenge, EnrollmentsTried
<1>2. ASSUME NEW c \in Challenges, RecordChallengeFailure(c) PROVE Typed'
  <2>1. challenge[c] \in Challenge /\ challenge[c].attempts + 1 \in 0 .. CodeLimit
    BY <1>2 DEF RecordChallengeFailure, ChallengeUsable, Challenge, CredentialAssumption
  <2>2. challenge' \in [Challenges -> Challenge]
    BY <1>2, <2>1 DEF RecordChallengeFailure, Challenge
  <2> QED BY <1>2, <2>2 DEF RecordChallengeFailure, EnrollmentsTried
<1>3. ASSUME NEW c \in Challenges, ChallengeRunsOut(c) PROVE Typed'
  <2>1. challenge' \in [Challenges -> Challenge]
    BY <1>3 DEF ChallengeRunsOut, Challenge
  <2> QED BY <1>3, <2>1 DEF ChallengeRunsOut, EnrollmentsTried
<1>4. ASSUME NEW c \in Challenges, NEW code \in Code, VerifyChallenge(c, code) PROVE Typed'
  <2>1. account' \in Account
    <3>1. PICK v \in Nat : v = account.version + 1
      BY DEF Account
    <3>2. code.counter \in Int
      BY DEF Code
    <3>3. account' = [account EXCEPT !.counter = code.counter, !.version = v]
      BY <1>4, <3>1 DEF VerifyChallenge
    <3>4. [account EXCEPT !.counter = code.counter, !.version = v] \in Account
      <4>1. \A n \in Int : [account EXCEPT !.counter = n, !.version = v] \in Account
        BY DEF Account
      <4> QED BY <3>2, <4>1
    <3> QED BY <3>3, <3>4
  <2>2. challenge' \in [Challenges -> Challenge]
    BY <1>4 DEF VerifyChallenge, Challenge
  <2> QED BY <1>4, <2>1, <2>2 DEF VerifyChallenge, EnrollmentsTried
<1>5. ASSUME NEW e \in Enrollments, CompleteTotpEnrollment(e) PROVE Typed'
  <2>1. enrollment[e] \in Enrollment
    OBVIOUS
  <2>2. account.state = "INVITED" => enrollment[e].password \in Passwords
    BY <1>5, <2>1 DEF CompleteTotpEnrollment, EnrollmentStands, ModeValid, Enrollment
  <2>3. account' \in Account
    <3>1. /\ enrollment[e].secret \in Secrets /\ time \in Int
          /\ account.version + 1 \in Nat /\ account.code + 1 \in Nat /\ account.epoch + 1 \in Nat
      BY <2>1 DEF Enrollment, Account, CredentialAssumption
    <3>2. PICK s \in Secrets : s = enrollment[e].secret
      BY <3>1
    <3>3. PICK v \in Nat : v = account.version + 1
      BY <3>1
    <3>4. PICK k \in Nat : k = account.code + 1
      BY <3>1
    <3>5. PICK m \in Nat : m = account.epoch + 1
      BY <3>1
    <3>6. PICK p \in Passwords : p = IF account.state = "INVITED" THEN enrollment[e].password ELSE account.password
      BY <2>2 DEF Account
    <3>7. PICK d \in BOOLEAN : d = IF account.state = "INVITED" THEN FALSE ELSE account.dated
      BY DEF Account
    <3>8. account' = [account EXCEPT !.state = "ACTIVE", !.totp = s, !.counter = time, !.password = p, !.dated = d,
                                     !.code = k, !.epoch = m, !.version = v]
      BY <1>5, <3>2, <3>3, <3>4, <3>5, <3>6, <3>7 DEF CompleteTotpEnrollment
    <3> QED BY <3>1, <3>8, AccountTypes
  <2>4. challenge' \in [Challenges -> Challenge]
    BY <1>5 DEF CompleteTotpEnrollment, Consumed, Challenge
  <2>5. enrollment' \in [Enrollments -> Enrollment] /\ EnrollmentsTried'
    BY <1>5 DEF CompleteTotpEnrollment, Enrollment, EnrollmentsTried
  <2> QED BY <1>5, <2>3, <2>4, <2>5 DEF CompleteTotpEnrollment
<1>6. ASSUME NEW e \in Enrollments, EnrollmentCodeWrong(e) PROVE Typed'
  <2>1. enrollment[e] \in Enrollment /\ enrollment[e].attempts + 1 \in 0 .. CodeLimit
    BY <1>6 DEF EnrollmentCodeWrong, EnrollmentStands, EnrollmentsTried, Enrollment, CredentialAssumption
  <2>2. enrollment' \in [Enrollments -> Enrollment]
    BY <1>6, <2>1 DEF EnrollmentCodeWrong, Enrollment
  <2>3. EnrollmentsTried'
    BY <1>6, <2>1 DEF EnrollmentCodeWrong, EnrollmentsTried, Enrollment, CredentialAssumption
  <2> QED BY <1>6, <2>2, <2>3 DEF EnrollmentCodeWrong
<1>7. ASSUME NEW e \in Enrollments, EnrollmentFallen(e) \/ EnrollmentRunsOut(e) PROVE Typed'
  <2>1. /\ [enrollment[e] EXCEPT !.state = "EXPIRED"] \in Enrollment
        /\ [enrollment[e] EXCEPT !.expired = TRUE] \in Enrollment
    BY DEF Enrollment
  <2>2. PICK new \in Enrollment :
          /\ enrollment' = [enrollment EXCEPT ![e] = new]
          /\ new.state = "OPEN" => enrollment[e].state = "OPEN" /\ new.attempts = enrollment[e].attempts
    BY <1>7, <2>1 DEF EnrollmentFallen, EnrollmentRunsOut, Enrollment
  <2>3. enrollment' \in [Enrollments -> Enrollment] /\ EnrollmentsTried'
    BY <2>2 DEF EnrollmentsTried
  <2> QED BY <1>7, <2>3 DEF EnrollmentFallen, EnrollmentRunsOut
<1>8. ASSUME SweepEnrollments PROVE Typed'
  <2>1. enrollment' \in [Enrollments -> Enrollment] /\ EnrollmentsTried'
    BY <1>8 DEF SweepEnrollments, Enrollment, EnrollmentsTried
  <2> QED BY <1>8, <2>1 DEF SweepEnrollments
<1> QED BY <1>1, <1>2, <1>3, <1>4, <1>5, <1>6, <1>7, <1>8 DEF CodeStep

\* The steps of a recovery, of time and of other commands.
LEMMA OtherTypes ==
  ASSUME CredentialAssumption, Typed,
         RecoveryStep \/ Tick \/ LeaseRunsOut \/ WaitIsOver \/ AccessGranted \/ UNCHANGED vars
  PROVE  Typed'
<1> USE DEF Typed, CredentialTypeOK
<1>1. ASSUME ReserveRecoveryAttempt PROVE Typed'
  <2>1. recovery' \in [attempts : 0 .. RecoveryLimit, live : BOOLEAN, pending : Nat]
    <3>1. PICK n \in 0 .. RecoveryLimit : n = IF recovery.live THEN recovery.attempts + 1 ELSE 1
      BY <1>1 DEF ReserveRecoveryAttempt, RecoveryOpen, CredentialAssumption
    <3>2. PICK m \in Nat : m = recovery.pending + 1
      OBVIOUS
    <3>3. recovery' = [recovery EXCEPT !.live = TRUE, !.pending = m, !.attempts = n]
      BY <1>1, <3>1, <3>2 DEF ReserveRecoveryAttempt
    <3> QED BY <3>3
  <2> QED BY <1>1, <2>1 DEF ReserveRecoveryAttempt, EnrollmentsTried
<1>2. ASSUME RecoveryFails \/ RecoveryWindowOver PROVE Typed'
  <2>1. recovery' \in [attempts : 0 .. RecoveryLimit, live : BOOLEAN, pending : Nat]
    <3>1. recovery.pending > 0 => recovery.pending - 1 \in Nat
      OBVIOUS
    <3>2. /\ \A m \in Nat : [recovery EXCEPT !.pending = m] \in [attempts : 0 .. RecoveryLimit, live : BOOLEAN, pending : Nat]
          /\ [recovery EXCEPT !.live = FALSE] \in [attempts : 0 .. RecoveryLimit, live : BOOLEAN, pending : Nat]
      OBVIOUS
    <3>3. CASE RecoveryFails
      <4>1. PICK m \in Nat : m = recovery.pending - 1
        BY <3>1, <3>3 DEF RecoveryFails
      <4>2. recovery' = [recovery EXCEPT !.pending = m]
        BY <3>3, <4>1 DEF RecoveryFails
      <4> QED BY <3>2, <4>2
    <3>4. CASE RecoveryWindowOver
      BY <3>2, <3>4 DEF RecoveryWindowOver
    <3> QED BY <1>2, <3>3, <3>4
  <2> QED BY <1>2, <2>1 DEF RecoveryFails, RecoveryWindowOver, EnrollmentsTried
<1>3. ASSUME NEW p \in Passwords, NEW by \in Code \cup {NoCode}, Recover(p, by) PROVE Typed'
  <2>1. by # NoCode => by \in Code
    OBVIOUS
  <2>2. account' \in Account
    <3>1. account.counter \in Int /\ (by # NoCode => by.counter \in Int)
      BY <2>1 DEF Account, Code
    <3>2. PICK n \in Int : n = IF by = NoCode THEN account.counter ELSE by.counter
      BY <3>1
    <3>3. PICK k \in Nat : k = account.code + 1
      BY DEF Account
    <3>4. PICK v \in Nat : v = account.version + 1
      BY DEF Account
    <3>5. account' = [account EXCEPT !.password = p, !.dated = FALSE, !.code = k, !.version = v, !.counter = n]
      BY <1>3, <3>2, <3>3, <3>4 DEF Recover
    <3> QED BY <3>5 DEF Account
  <2>3. challenge' \in [Challenges -> Challenge]
    BY <1>3 DEF Recover, Consumed, Challenge
  <2>4. enrollment' \in [Enrollments -> Enrollment] /\ EnrollmentsTried'
    BY <1>3 DEF Recover, Closed, Enrollment, EnrollmentsTried
  <2>5. recovery' \in [attempts : 0 .. RecoveryLimit, live : BOOLEAN, pending : Nat]
    BY <1>3 DEF Recover, CredentialAssumption
  <2> QED BY <1>3, <2>2, <2>3, <2>4, <2>5 DEF Recover
<1>4. ASSUME Tick \/ UNCHANGED vars PROVE Typed'
  BY <1>4 DEF Tick, vars, EnrollmentsTried, CredentialAssumption
<1>5. ASSUME LeaseRunsOut PROVE Typed'
  <2>1. leases' \subseteq Lease
    BY <1>5 DEF LeaseRunsOut, Lease
  <2> QED BY <1>5, <2>1 DEF LeaseRunsOut, EnrollmentsTried
<1>6. ASSUME WaitIsOver PROVE Typed'
  <2>1. throttle' \in Throttle
    BY <1>6 DEF WaitIsOver, Throttle
  <2> QED BY <1>6, <2>1 DEF WaitIsOver, EnrollmentsTried
<1>7. ASSUME AccessGranted PROVE Typed'
  <2>1. account' \in Account
    <3>1. PICK m \in Nat : m = account.epoch + 1
      BY DEF Account
    <3>2. PICK v \in Nat : v = account.version + 1
      BY DEF Account
    <3>3. account' = [account EXCEPT !.epoch = m, !.version = v]
      BY <1>7, <3>1, <3>2 DEF AccessGranted
    <3> QED BY <3>3 DEF Account
  <2> QED BY <1>7, <2>1 DEF AccessGranted, EnrollmentsTried
<1> QED BY <1>1, <1>2, <1>3, <1>4, <1>5, <1>6, <1>7 DEF RecoveryStep

\* Every step keeps the types and the budget.
LEMMA CountedStep ==
  ASSUME CredentialAssumption, Typed, Budgeted, [Next]_vars
  PROVE  Typed' /\ Budgeted'
<1>1. Typed'
  BY PasswordTypes, CodeTypes, OtherTypes DEF Next
<1> QED BY <1>1, BudgetStep

\* An account starts with its types, and no attempt under way.
LEMMA CountedInit ==
  ASSUME CredentialAssumption, Init
  PROVE  Typed /\ Budgeted
<1> USE DEF CredentialAssumption
<1>1. account \in Account
  <2>1. PICK s \in {"INVITED", "ACTIVE"}, p \in Passwords, d \in BOOLEAN, v \in BOOLEAN :
          account = [state |-> s, version |-> 0, password |-> p, dated |-> d, totp |-> NoSecret,
                     counter |-> NoCounter, code |-> 0, epoch |-> 0, privileged |-> v]
    BY DEF Init
  <2>2. NoCounter \in Int
    BY DEF NoCounter
  <2> QED BY <2>1, <2>2 DEF Account
<1>2. throttle \in Throttle /\ throttle.failures = 0
  BY DEF Throttle, Init
<1>3. NoAttempt \in Attempt
  <2>1. (CHOOSE p \in Passwords : TRUE) \in Passwords
    BY <1>1 DEF Account
  <2> QED BY <2>1 DEF NoAttempt, Attempt
<1>4. challenge \in [Challenges -> Challenge]
  <2>1. PICK p \in Passwords : p = account.password
    BY <1>1 DEF Account
  <2>2. NewChallenge("NONE", p) \in Challenge
    BY DEF NewChallenge, Challenge, ChallengeKinds
  <2>3. [NewChallenge("NONE", p) EXCEPT !.consumed = FALSE] \in Challenge
    BY <2>2 DEF Challenge
  <2> QED BY <2>1, <2>3 DEF Init
<1>5. enrollment \in [Enrollments -> Enrollment] /\ EnrollmentsTried
  <2>1. PICK s \in Secrets : s = (CHOOSE z \in Secrets : TRUE)
    OBVIOUS
  <2>2. enrollment = [e \in Enrollments |-> [state |-> "NONE", secret |-> s, password |-> "none", version |-> 0,
                                             attempts |-> 0, expired |-> FALSE]]
    BY <2>1 DEF Init
  <2> QED BY <2>2 DEF Enrollment, EnrollmentsTried
<1>6. /\ leases = {} /\ attempt = [a \in Attempts |-> NoAttempt] /\ time = 0
      /\ recovery = [attempts |-> 0, live |-> FALSE, pending |-> 0]
  BY DEF Init
<1>7. Typed
  BY <1>1, <1>2, <1>3, <1>4, <1>5, <1>6 DEF Typed, CredentialTypeOK
<1>8. ActiveLeases(throttle.generation) = {}
  BY <1>6 DEF ActiveLeases
<1>9. IsFiniteSet({}) /\ Cardinality({}) = 0
  BY FS_EmptySet
<1>10. Budgeted
  BY <1>2, <1>6, <1>8, <1>9 DEF Budgeted, FailuresWithinLimit
<1> QED BY <1>7, <1>10

\* However many attempts run together, those that failed and those that may
\* still fail never exceed the limit (auth.service.ts:859).
THEOREM BudgetsHold ==
  ASSUME CredentialAssumption
  PROVE  Spec => []BudgetHolds
<1>1. Init => Typed /\ Budgeted
  BY CountedInit
<1>2. Typed /\ Budgeted /\ [Next]_vars => Typed' /\ Budgeted'
  BY CountedStep
<1>3. Typed /\ Budgeted => BudgetHolds
  BY DEF Typed, Budgeted, BudgetHolds
<1> QED BY <1>1, <1>2, <1>3, PTL DEF Spec

-------------------------------------------------------------------------------
(* What is granted.                                                        *)

\* Of the steps of a password attempt a login changes the account, challenges
\* or grants, and the start of an enrollment the enrollments.
LEMMA AttemptMoves ==
  ASSUME PasswordStep
  PROVE  \E a \in Attempts :
           \/ Login(a)
           \/ /\ \E e \in Enrollments, s \in Secrets : StartTotpEnrollment(a, e, s)
              /\ account' = account /\ challenge' = challenge /\ granted' = granted
           \/ /\ account' = account /\ challenge' = challenge /\ granted' = granted
              /\ enrollment' = enrollment
<1>1. PICK a \in Attempts :
        \/ \E kind \in {"LOGIN", "ENROLL"}, guess \in Passwords, fresh \in Passwords \cup {"none"} :
             ReservePasswordAttempt(a, kind, guess, fresh)
        \/ CheckPassword(a) \/ Login(a) \/ LoginStale(a) \/ LoginRefused(a)
        \/ \E e \in Enrollments, s \in Secrets : StartTotpEnrollment(a, e, s)
        \/ EnrollmentRefused(a) \/ FinalizePasswordFailure(a) \/ Die(a)
  BY DEF PasswordStep
<1>2. \/ Login(a)
      \/ /\ \E e \in Enrollments, s \in Secrets : StartTotpEnrollment(a, e, s)
         /\ account' = account /\ challenge' = challenge /\ granted' = granted
      \/ /\ account' = account /\ challenge' = challenge /\ granted' = granted
         /\ enrollment' = enrollment
  <2> DEFINE Rest == account' = account /\ challenge' = challenge /\ granted' = granted
  <2>1. ASSUME NEW e \in Enrollments, NEW s \in Secrets, StartTotpEnrollment(a, e, s)
        PROVE  Rest
    BY <2>1 DEF StartTotpEnrollment
  <2>2. ASSUME \E kind \in {"LOGIN", "ENROLL"}, guess \in Passwords,
                  fresh \in Passwords \cup {"none"} : ReservePasswordAttempt(a, kind, guess, fresh)
        PROVE  Rest /\ enrollment' = enrollment
    BY <2>2 DEF ReservePasswordAttempt
  <2>3. ASSUME CheckPassword(a) \/ LoginStale(a) \/ LoginRefused(a)
        PROVE  Rest /\ enrollment' = enrollment
    BY <2>3 DEF CheckPassword, LoginStale, LoginRefused
  <2>4. ASSUME EnrollmentRefused(a) \/ FinalizePasswordFailure(a) \/ Die(a)
        PROVE  Rest /\ enrollment' = enrollment
    BY <2>4 DEF EnrollmentRefused, FinalizePasswordFailure, Die
  <2> QED BY <1>1, <2>1, <2>2, <2>3, <2>4
<1> QED BY <1>2

\* The three commands that write more of the account than its version, epoch
\* and profile, and what all others keep.
LEMMA AccountMoves ==
  ASSUME Typed, [Next]_vars
  PROVE  \/ \E e \in Enrollments : CompleteTotpEnrollment(e)
         \/ \E p \in Passwords, by \in Code \cup {NoCode} : Recover(p, by)
         \/ \E c \in Challenges, code \in Code : VerifyChallenge(c, code)
         \/ /\ account'.state = account.state /\ account'.password = account.password
            /\ account'.totp = account.totp /\ account'.counter = account.counter
<1> DEFINE Kept == /\ account'.state = account.state /\ account'.password = account.password
                   /\ account'.totp = account.totp /\ account'.counter = account.counter
<1>1. account \in Account
  BY DEF Typed, CredentialTypeOK
<1>2. ASSUME NEW a, Login(a) PROVE Kept
  <2>1. account' = Rehashed
    BY <1>2 DEF Login
  <2> QED BY <1>1, <2>1 DEF Rehashed, Account
<1>3. ASSUME AccessGranted PROVE Kept
  BY <1>1, <1>3 DEF AccessGranted, Account
<1>4. ASSUME account' = account PROVE Kept
  BY <1>4
<1> HIDE DEF Kept
<1>5. ASSUME PasswordStep PROVE Kept
  BY <1>2, <1>4, <1>5, AttemptMoves
<1>6. ASSUME CodeStep
      PROVE  \/ \E e \in Enrollments : CompleteTotpEnrollment(e)
             \/ \E c \in Challenges, code \in Code : VerifyChallenge(c, code)
             \/ Kept
  BY <1>4, <1>6 DEF CodeStep, IssueStepUpChallenge, RecordChallengeFailure, ChallengeRunsOut,
     EnrollmentCodeWrong, EnrollmentFallen, EnrollmentRunsOut, SweepEnrollments
<1>7. ASSUME RecoveryStep
      PROVE  (\E p \in Passwords, by \in Code \cup {NoCode} : Recover(p, by)) \/ Kept
  BY <1>4, <1>7 DEF RecoveryStep, ReserveRecoveryAttempt, RecoveryFails, RecoveryWindowOver
<1>8. ASSUME Tick \/ LeaseRunsOut \/ WaitIsOver \/ UNCHANGED vars PROVE Kept
  BY <1>4, <1>8 DEF Tick, LeaseRunsOut, WaitIsOver, vars
<1>9. \/ \E e \in Enrollments : CompleteTotpEnrollment(e)
      \/ \E p \in Passwords, by \in Code \cup {NoCode} : Recover(p, by)
      \/ \E c \in Challenges, code \in Code : VerifyChallenge(c, code)
      \/ Kept
  BY <1>3, <1>5, <1>6, <1>7, <1>8 DEF Next
<1> QED BY <1>9 DEF Kept

\* What a verified attempt was tried with is the password it was verified against.
CheckedIsRead == \A a \in Attempts : attempt[a].at = "CHECKED" => attempt[a].guess = attempt[a].password

\* Only the check of a password says so.
LEMMA CheckedStep ==
  ASSUME Typed, CheckedIsRead, [Next]_vars
  PROVE  CheckedIsRead'
<1> USE DEF Typed, CredentialTypeOK, CheckedIsRead
<1>1. ASSUME NEW a \in Attempts, attempt' = [attempt EXCEPT ![a] = NoAttempt] PROVE CheckedIsRead'
  BY <1>1, IdleType
<1>2. ASSUME NEW a \in Attempts, NEW kind \in {"LOGIN", "ENROLL"}, NEW guess \in Passwords,
             NEW fresh \in Passwords \cup {"none"}, ReservePasswordAttempt(a, kind, guess, fresh)
      PROVE  CheckedIsRead'
  <2>1. \A b \in Attempts : IF b = a THEN attempt'[b].at = "RESERVED" ELSE attempt'[b] = attempt[b]
    BY <1>2 DEF ReservePasswordAttempt, Attempt
  <2> QED BY <2>1
<1>3. ASSUME NEW a \in Attempts, CheckPassword(a) PROVE CheckedIsRead'
  <2>1. PICK ok \in BOOLEAN : ok = (attempt[a].guess = account.password /\ Admits(a))
    OBVIOUS
  <2>2. attempt' = [attempt EXCEPT ![a].at = IF ok THEN "CHECKED" ELSE "FAILED",
                      ![a].version = account.version, ![a].password = account.password, ![a].dated = account.dated]
    BY <1>3, <2>1 DEF CheckPassword
  <2>3. /\ attempt'[a].at = IF ok THEN "CHECKED" ELSE "FAILED"
        /\ attempt'[a].guess = attempt[a].guess /\ attempt'[a].password = account.password
        /\ \A b \in Attempts \ {a} : attempt'[b] = attempt[b]
    BY <2>2 DEF Attempt
  <2> QED BY <2>1, <2>3
<1>4. ASSUME NEW a \in Attempts, LoginStale(a) PROVE CheckedIsRead'
  <2>1. \A b \in Attempts : IF b = a THEN attempt'[b].at = "FAILED" ELSE attempt'[b] = attempt[b]
    BY <1>4 DEF LoginStale, Attempt
  <2> QED BY <2>1
<1>5. ASSUME PasswordStep PROVE CheckedIsRead'
  BY <1>1, <1>2, <1>3, <1>4, <1>5 DEF PasswordStep, Login, LoginRefused, StartTotpEnrollment, EnrollmentRefused,
     FinalizePasswordFailure, Die, Release
<1>6. ASSUME attempt' = attempt PROVE CheckedIsRead'
  BY <1>6
<1>7. ASSUME CodeStep PROVE CheckedIsRead'
  BY <1>6, <1>7 DEF CodeStep, IssueStepUpChallenge, RecordChallengeFailure, ChallengeRunsOut, VerifyChallenge,
     CompleteTotpEnrollment, EnrollmentCodeWrong, EnrollmentFallen, EnrollmentRunsOut, SweepEnrollments
<1>8. ASSUME RecoveryStep \/ Tick \/ LeaseRunsOut \/ WaitIsOver \/ AccessGranted \/ UNCHANGED vars
      PROVE  CheckedIsRead'
  BY <1>6, <1>8 DEF RecoveryStep, ReserveRecoveryAttempt, RecoveryFails, RecoveryWindowOver, Recover, Tick,
     LeaseRunsOut, WaitIsOver, AccessGranted, vars
<1> QED BY <1>5, <1>7, <1>8 DEF Next

\* A challenge that is consumed cannot be answered, whatever happens else.
LEMMA ConsumedUnusable ==
  ASSUME Typed, challenge' = Consumed
  PROVE  ChallengesAreCurrent'
<1>1. \A c \in Challenges : challenge'[c].kind # "NONE" => challenge'[c].consumed
  BY DEF Consumed, Typed, CredentialTypeOK, Challenge
<1> QED BY <1>1 DEF ChallengesAreCurrent, ChallengeUsable

\* A step keeps challenges current that keeps the password and its state, and
\* renders no challenge usable but one of that password.
LEMMA CurrentKept ==
  ASSUME ChallengesAreCurrent, account'.password = account.password, account'.state = account.state,
         \A c \in Challenges :
           \/ challenge'[c].password = account.password
           \/ /\ challenge'[c].password = challenge[c].password
              /\ ChallengeUsable(c)' => ChallengeUsable(c)
  PROVE  ChallengesAreCurrent'
BY DEF ChallengesAreCurrent

\* No step leaves a challenge that can be answered of a former password.
LEMMA CurrentStep ==
  ASSUME Typed, CheckedIsRead, ChallengesAreCurrent, [Next]_vars
  PROVE  ChallengesAreCurrent'
<1> USE DEF Typed, CredentialTypeOK
<1> DEFINE Kept == account'.password = account.password /\ account'.state = account.state
<1>1. ASSUME challenge' = challenge, Kept PROVE ChallengesAreCurrent'
  <2>1. \A c \in Challenges : challenge'[c].password = challenge[c].password /\ (ChallengeUsable(c)' => ChallengeUsable(c))
    BY <1>1 DEF ChallengeUsable
  <2> QED BY <1>1, <2>1, CurrentKept
<1>2. ASSUME NEW a \in Attempts, Login(a), Kept PROVE ChallengesAreCurrent'
  <2>1. attempt[a].guess = account.password
    BY <1>2 DEF Login, Unchanged, CheckedIsRead
  <2>2. CASE challenge' = challenge
    BY <1>1, <1>2, <2>2
  <2>3. CASE challenge' # challenge
    <3>1. PICK c \in Challenges : challenge' = [challenge EXCEPT ![c] = NewChallenge("LOGIN", attempt[a].guess)]
      BY <1>2, <2>3 DEF Login
    <3>2. challenge'[c].password = account.password
      BY <2>1, <3>1 DEF NewChallenge
    <3>3. \A b \in Challenges \ {c} : challenge'[b] = challenge[b] /\ (ChallengeUsable(b)' => ChallengeUsable(b))
      BY <1>2, <3>1 DEF ChallengeUsable
    <3> QED BY <1>2, <3>2, <3>3, CurrentKept
  <2> QED BY <2>2, <2>3
<1>3. ASSUME NEW c \in Challenges, IssueStepUpChallenge(c) PROVE ChallengesAreCurrent'
  <2>1. Kept
    BY <1>3 DEF IssueStepUpChallenge
  <2>2. challenge'[c].password = account.password
    BY <1>3 DEF IssueStepUpChallenge, NewChallenge
  <2>3. \A b \in Challenges \ {c} : challenge'[b] = challenge[b] /\ (ChallengeUsable(b)' => ChallengeUsable(b))
    BY <1>3 DEF IssueStepUpChallenge, ChallengeUsable
  <2> QED BY <2>1, <2>2, <2>3, CurrentKept
<1>4. ASSUME NEW c \in Challenges, RecordChallengeFailure(c) \/ ChallengeRunsOut(c), Kept PROVE ChallengesAreCurrent'
  <2>1. /\ ChallengeUsable(c) /\ challenge'[c].password = challenge[c].password
        /\ \A b \in Challenges \ {c} : challenge'[b] = challenge[b]
    BY <1>4 DEF RecordChallengeFailure, ChallengeRunsOut, Challenge
  <2>2. \A b \in Challenges \ {c} : ChallengeUsable(b)' => ChallengeUsable(b)
    BY <1>4, <2>1 DEF ChallengeUsable
  <2> QED BY <1>4, <2>1, <2>2, CurrentKept
<1>5. ASSUME NEW c \in Challenges, NEW code \in Code, VerifyChallenge(c, code) PROVE ChallengesAreCurrent'
  <2>1. Kept
    BY <1>5 DEF VerifyChallenge, Account
  <2>2. /\ ChallengeUsable(c) /\ challenge'[c].password = challenge[c].password
        /\ \A b \in Challenges \ {c} : challenge'[b] = challenge[b]
    BY <1>5 DEF VerifyChallenge, Challenge
  <2>3. \A b \in Challenges \ {c} : ChallengeUsable(b)' => ChallengeUsable(b)
    BY <2>1, <2>2 DEF ChallengeUsable
  <2> QED BY <2>1, <2>2, <2>3, CurrentKept
<1>6. ASSUME NEW e \in Enrollments, CompleteTotpEnrollment(e) PROVE ChallengesAreCurrent'
  BY <1>6, ConsumedUnusable DEF CompleteTotpEnrollment
<1>7. ASSUME NEW p, NEW by, Recover(p, by) PROVE ChallengesAreCurrent'
  BY <1>7, ConsumedUnusable DEF Recover
<1> HIDE DEF Kept
<1>8. \/ \E e \in Enrollments : CompleteTotpEnrollment(e)
      \/ \E p \in Passwords, by \in Code \cup {NoCode} : Recover(p, by)
      \/ \E c \in Challenges, code \in Code : VerifyChallenge(c, code)
      \/ Kept
  BY AccountMoves DEF Kept
<1>9. CASE Kept
  <2>1. ASSUME PasswordStep PROVE ChallengesAreCurrent'
    <3>1. (\E a \in Attempts : Login(a)) \/ challenge' = challenge
      BY <2>1, AttemptMoves
    <3> QED BY <1>1, <1>2, <1>9, <3>1
  <2>2. ASSUME CodeStep PROVE ChallengesAreCurrent'
    BY <1>1, <1>3, <1>4, <1>5, <1>6, <1>9, <2>2 DEF CodeStep, EnrollmentCodeWrong, EnrollmentFallen,
       EnrollmentRunsOut, SweepEnrollments
  <2>3. ASSUME RecoveryStep \/ Tick \/ LeaseRunsOut \/ WaitIsOver \/ AccessGranted \/ UNCHANGED vars
        PROVE  ChallengesAreCurrent'
    BY <1>1, <1>7, <1>9, <2>3 DEF RecoveryStep, ReserveRecoveryAttempt, RecoveryFails, RecoveryWindowOver, Tick,
       LeaseRunsOut, WaitIsOver, AccessGranted, vars
  <2> QED BY <2>1, <2>2, <2>3 DEF Next
<1> QED BY <1>5, <1>6, <1>7, <1>8, <1>9

-------------------------------------------------------------------------------
(* One authenticator, whose codes serve once.                              *)

\* One enrollment is open at a time.
OneIsOpen ==
  \A e, f \in Enrollments : enrollment[e].state = "OPEN" /\ enrollment[f].state = "OPEN" => e = f

\* What was enrolled is the account's.
EnrolledIsTaken ==
  \A e \in Enrollments : enrollment[e].state = "CONSUMED" => enrollment[e].secret = account.totp

\* Other commands open no enrollment and complete none.
LEMMA EnrollmentsKept ==
  ASSUME OneIsOpen, EnrolledIsTaken, account'.totp = account.totp,
         \A e \in Enrollments :
           /\ enrollment'[e].secret = enrollment[e].secret
           /\ enrollment'[e].state \in {"OPEN", "CONSUMED"} => enrollment'[e].state = enrollment[e].state
  PROVE  OneIsOpen' /\ EnrolledIsTaken'
BY DEF OneIsOpen, EnrolledIsTaken

\* An enrollment is completed while the account has no authenticator, so it is
\* the first; and started with all others closed.
LEMMA EnrollmentStep ==
  ASSUME CredentialAssumption, Typed, OneIsOpen, EnrolledIsTaken, [Next]_vars
  PROVE  OneIsOpen' /\ EnrolledIsTaken'
<1> USE DEF Typed, CredentialTypeOK
<1> DEFINE Goal == OneIsOpen' /\ EnrolledIsTaken'
<1>1. ASSUME NEW a \in Attempts, NEW e \in Enrollments, NEW s \in Secrets, StartTotpEnrollment(a, e, s),
             account'.totp = account.totp
      PROVE  Goal
  <2>1. enrollment'[e].state = "OPEN" /\ \A f \in Enrollments \ {e} : enrollment'[f] = Closed("EXPIRED")[f]
    BY <1>1 DEF StartTotpEnrollment, Closed
  <2>2. \A f \in Enrollments :
          /\ Closed("EXPIRED")[f].state # "OPEN" /\ Closed("EXPIRED")[f].secret = enrollment[f].secret
          /\ Closed("EXPIRED")[f].state = "CONSUMED" => enrollment[f].state = "CONSUMED"
    BY DEF Closed, Enrollment
  <2> QED BY <1>1, <2>1, <2>2 DEF OneIsOpen, EnrolledIsTaken
<1>2. ASSUME NEW e \in Enrollments, CompleteTotpEnrollment(e) PROVE Goal
  <2>1. enrollment[e].state = "OPEN" /\ account.totp = NoSecret
    BY <1>2 DEF CompleteTotpEnrollment, EnrollmentStands, EnrollmentEligible, HasTotp
  <2>2. \A f \in Enrollments : enrollment[f].state # "CONSUMED"
    BY <2>1 DEF EnrolledIsTaken, Enrollment, CredentialAssumption
  <2>3. /\ enrollment'[e].state = "CONSUMED" /\ enrollment'[e].secret = enrollment[e].secret
        /\ \A f \in Enrollments \ {e} : enrollment'[f] = enrollment[f]
    BY <1>2 DEF CompleteTotpEnrollment, Enrollment
  <2>4. account'.totp = enrollment[e].secret
    BY <1>2 DEF CompleteTotpEnrollment, Account
  <2> QED BY <2>1, <2>2, <2>3, <2>4 DEF OneIsOpen, EnrolledIsTaken
<1>3. ASSUME NEW p, NEW by, Recover(p, by) PROVE Goal
  <2>1. account'.totp = account.totp
    BY <1>3 DEF Recover, Account
  <2>2. \A f \in Enrollments :
          /\ enrollment'[f].state # "OPEN" /\ enrollment'[f].secret = enrollment[f].secret
          /\ enrollment'[f].state = "CONSUMED" => enrollment[f].state = "CONSUMED"
    BY <1>3 DEF Recover, Closed, Enrollment
  <2> QED BY <2>1, <2>2, EnrollmentsKept
<1>4. ASSUME enrollment' = enrollment, account'.totp = account.totp PROVE Goal
  BY <1>4 DEF OneIsOpen, EnrolledIsTaken
<1>5. ASSUME NEW e \in Enrollments, EnrollmentCodeWrong(e) \/ EnrollmentFallen(e) \/ EnrollmentRunsOut(e) PROVE Goal
  <2>1. account' = account
    BY <1>5 DEF EnrollmentCodeWrong, EnrollmentFallen, EnrollmentRunsOut
  <2>2. PICK new :
          /\ enrollment' = [enrollment EXCEPT ![e] = new] /\ new.secret = enrollment[e].secret
          /\ new.state \in {"OPEN", "CONSUMED"} => new.state = enrollment[e].state
    BY <1>5 DEF EnrollmentCodeWrong, EnrollmentFallen, EnrollmentRunsOut, Enrollment
  <2> QED BY <2>1, <2>2, EnrollmentsKept
<1>6. ASSUME SweepEnrollments PROVE Goal
  <2>1. \A f \in Enrollments :
          /\ enrollment'[f].secret = enrollment[f].secret
          /\ enrollment'[f].state \in {"OPEN", "CONSUMED"} => enrollment'[f].state = enrollment[f].state
    BY <1>6 DEF SweepEnrollments, Enrollment
  <2> QED BY <1>6, <2>1, EnrollmentsKept DEF SweepEnrollments
<1> HIDE DEF Goal
<1>7. ASSUME NEW c \in Challenges, NEW code \in Code, VerifyChallenge(c, code) PROVE Goal
  <2>1. account'.totp = account.totp
    BY <1>7 DEF VerifyChallenge, Account
  <2> QED BY <1>4, <1>7, <2>1 DEF VerifyChallenge
<1>8. ASSUME account'.totp = account.totp PROVE Goal
  <2>1. ASSUME PasswordStep PROVE Goal
    <3>1. (\E a \in Attempts, e \in Enrollments, s \in Secrets : StartTotpEnrollment(a, e, s)) \/ enrollment' = enrollment
      BY <2>1, AttemptMoves DEF Login
    <3> QED BY <1>1, <1>4, <1>8, <3>1
  <2>2. ASSUME CodeStep PROVE Goal
    BY <1>2, <1>4, <1>5, <1>6, <1>7, <1>8, <2>2 DEF CodeStep, IssueStepUpChallenge, RecordChallengeFailure,
       ChallengeRunsOut
  <2>3. ASSUME RecoveryStep \/ Tick \/ LeaseRunsOut \/ WaitIsOver \/ AccessGranted \/ UNCHANGED vars PROVE Goal
    BY <1>3, <1>4, <1>8, <2>3 DEF RecoveryStep, ReserveRecoveryAttempt, RecoveryFails, RecoveryWindowOver, Tick,
       LeaseRunsOut, WaitIsOver, AccessGranted, vars
  <2> QED BY <2>1, <2>2, <2>3 DEF Next
<1>9. Goal
  BY <1>2, <1>3, <1>7, <1>8, AccountMoves
<1> QED BY <1>9 DEF Goal

\* A code that was granted something is one of the account's authenticator, up
\* to the counter that served last.
CodesSpent ==
  \A g \in granted : g.code # NoCode =>
    g.code \in Code /\ g.code.secret = account.totp /\ g.code.counter <= account.counter

\* What a grant says.
LEMMA GrantSays ==
  ASSUME NEW by, NEW assurance, NEW password, NEW code
  PROVE  /\ Grant(by, assurance, password, code).code = code
         /\ Grant(by, assurance, password, code).password = password
         /\ Grant(by, assurance, password, code).assurance = assurance
BY DEF Grant

\* One more grant, by a code that served no grant so far, or by none.
LEMMA OneMoreGrant ==
  ASSUME NoCodeTwice, NEW n, granted' = granted \cup {n},
         n.code # NoCode => \A g \in granted : g.code # n.code
  PROVE  NoCodeTwice'
BY DEF NoCodeTwice

\* Whatever route takes a code, it is later than all that served.
LEMMA CodesStep ==
  ASSUME CredentialAssumption, Typed, CodesSpent, NoCodeTwice, [Next]_vars
  PROVE  CodesSpent' /\ NoCodeTwice'
<1> USE DEF Typed, CredentialTypeOK
<1> DEFINE Goal == CodesSpent' /\ NoCodeTwice'
           Kept == account'.totp = account.totp /\ account'.counter = account.counter
<1>1. ASSUME granted' = granted, Kept PROVE Goal
  BY <1>1 DEF CodesSpent, NoCodeTwice
<1>2. ASSUME NEW n, granted' = granted \cup {n}, n.code = NoCode, Kept PROVE Goal
  BY <1>2, OneMoreGrant DEF CodesSpent
<1>3. ASSUME NEW n, granted' = granted \cup {n}, n.code \in Code, account'.totp = account.totp,
             n.code.secret = account.totp, n.code.counter > account.counter, account'.counter = n.code.counter
      PROVE  Goal
  <2>1. \A g \in granted : g.code # NoCode => g.code.counter < n.code.counter /\ g.code # n.code
    BY <1>3 DEF CodesSpent, Code, Account
  <2>2. n.code # NoCode
    BY <1>3 DEF Code, NoCode, CredentialAssumption
  <2>3. NoCodeTwice'
    BY <1>3, <2>1, <2>2, OneMoreGrant
  <2>4. n.code.counter <= account'.counter /\ \A g \in granted : g.code # NoCode => g.code.counter <= account'.counter
    BY <1>3, <2>1 DEF Code, CodesSpent, Account
  <2>5. CodesSpent'
    BY <1>3, <2>4 DEF CodesSpent
  <2> QED BY <2>3, <2>5
<1>4. ASSUME NEW a \in Attempts, Login(a), Kept PROVE Goal
  <2>1. CASE granted' = granted
    BY <1>1, <1>4, <2>1
  <2>2. CASE granted' = granted \cup {Grant(a, "PASSWORD", attempt[a].guess, NoCode)}
    BY <1>2, <1>4, <2>2, GrantSays
  <2> QED BY <1>4, <2>1, <2>2 DEF Login
<1>5. ASSUME NEW c \in Challenges, NEW code \in Code, VerifyChallenge(c, code) PROVE Goal
  <2>1. account'.totp = account.totp /\ account'.counter = code.counter
    BY <1>5 DEF VerifyChallenge, Account
  <2>2. code.secret = account.totp /\ code.counter > account.counter
    BY <1>5 DEF VerifyChallenge, VerifyTotp, Acceptable
  <2>3. PICK n : granted' = granted \cup {n} /\ n.code = code
    BY <1>5, GrantSays DEF VerifyChallenge
  <2> QED BY <1>3, <2>1, <2>2, <2>3
<1>6. ASSUME NEW e \in Enrollments, CompleteTotpEnrollment(e) PROVE Goal
  <2>1. account.totp = NoSecret
    BY <1>6 DEF CompleteTotpEnrollment, EnrollmentStands, EnrollmentEligible, HasTotp
  <2>2. \A g \in granted : g.code = NoCode
    BY <2>1 DEF CodesSpent, Code, CredentialAssumption
  <2>3. account'.totp = enrollment[e].secret /\ account'.counter = time
    BY <1>6 DEF CompleteTotpEnrollment, Account
  <2>4. PICK n : granted' = granted \cup {n} /\ n.code = [secret |-> enrollment[e].secret, counter |-> time]
    BY <1>6, GrantSays DEF CompleteTotpEnrollment
  <2>5. n.code \in Code /\ n.code # NoCode
    BY <2>4 DEF Code, Enrollment, NoCode, CredentialAssumption
  <2>6. NoCodeTwice'
    BY <2>2, <2>4, <2>5, OneMoreGrant
  <2>7. n.code.secret = account'.totp /\ n.code.counter <= account'.counter
    BY <2>3, <2>4 DEF CredentialAssumption
  <2>8. CodesSpent'
    BY <2>2, <2>4, <2>5, <2>7 DEF CodesSpent
  <2> QED BY <2>6, <2>8
<1>7. ASSUME NEW p \in Passwords, NEW by \in Code \cup {NoCode}, Recover(p, by) PROVE Goal
  <2>1. PICK n : granted' = granted \cup {n} /\ n.code = by
    BY <1>7, GrantSays DEF Recover
  <2>2. account'.totp = account.totp /\ account'.counter = IF by = NoCode THEN account.counter ELSE by.counter
    BY <1>7 DEF Recover, Account
  <2>3. CASE by = NoCode
    BY <1>2, <2>1, <2>2, <2>3
  <2>4. CASE by # NoCode
    <3>1. by \in Code /\ RecoveryCounter(by)
      BY <1>7, <2>4 DEF Recover
    <3>2. by.secret = account.totp /\ by.counter > account.counter
      BY <3>1 DEF RecoveryCounter, VerifyTotp, Acceptable, Code, Account, CredentialAssumption
    <3> QED BY <1>3, <2>1, <2>2, <2>4, <3>1, <3>2
  <2> QED BY <2>3, <2>4
<1> HIDE DEF Goal, Kept
<1>8. ASSUME Kept PROVE Goal
  <2>1. ASSUME PasswordStep PROVE Goal
    <3>1. (\E a \in Attempts : Login(a)) \/ granted' = granted
      BY <2>1, AttemptMoves
    <3> QED BY <1>1, <1>4, <1>8, <3>1
  <2>2. ASSUME CodeStep PROVE Goal
    BY <1>1, <1>5, <1>6, <1>8, <2>2 DEF CodeStep, IssueStepUpChallenge, RecordChallengeFailure, ChallengeRunsOut,
       EnrollmentCodeWrong, EnrollmentFallen, EnrollmentRunsOut, SweepEnrollments
  <2>3. ASSUME RecoveryStep \/ Tick \/ LeaseRunsOut \/ WaitIsOver \/ AccessGranted \/ UNCHANGED vars PROVE Goal
    BY <1>1, <1>7, <1>8, <2>3 DEF RecoveryStep, ReserveRecoveryAttempt, RecoveryFails, RecoveryWindowOver, Tick,
       LeaseRunsOut, WaitIsOver, AccessGranted, vars
  <2> QED BY <2>1, <2>2, <2>3 DEF Next
<1>9. Goal
  BY <1>5, <1>6, <1>7, <1>8, AccountMoves DEF Kept
<1> QED BY <1>9 DEF Goal

-------------------------------------------------------------------------------
(* The theorems.                                                           *)

CredentialInvariant ==
  /\ Typed /\ Budgeted /\ CheckedIsRead /\ ChallengesAreCurrent
  /\ OneIsOpen /\ EnrolledIsTaken /\ CodesSpent /\ NoCodeTwice

\* The invariant of the account holds from its creation on.
LEMMA CredentialInvariantAlways ==
  ASSUME CredentialAssumption
  PROVE  Spec => []CredentialInvariant
<1>1. ASSUME Init PROVE CredentialInvariant
  <2>1. Typed /\ Budgeted
    BY <1>1, CountedInit
  <2>2. /\ \A a \in Attempts : attempt[a].at = "IDLE"
        /\ \A c \in Challenges : challenge[c].kind = "NONE"
        /\ \A e \in Enrollments : enrollment[e].state = "NONE"
        /\ granted = {}
    BY <1>1 DEF Init, NoAttempt, NewChallenge
  <2>3. CheckedIsRead /\ ChallengesAreCurrent /\ OneIsOpen /\ EnrolledIsTaken
    BY <2>2 DEF CheckedIsRead, ChallengesAreCurrent, ChallengeUsable, OneIsOpen, EnrolledIsTaken
  <2>4. CodesSpent /\ NoCodeTwice
    BY <2>2 DEF CodesSpent, NoCodeTwice
  <2> QED BY <2>1, <2>3, <2>4 DEF CredentialInvariant
<1>2. ASSUME CredentialInvariant, [Next]_vars PROVE CredentialInvariant'
  BY <1>2, CountedStep, CheckedStep, CurrentStep, EnrollmentStep, CodesStep DEF CredentialInvariant
<1> QED BY <1>1, <1>2, PTL DEF Spec

\* A code serves once, whichever of the three routes takes it
\* (auth.service.ts:545); a challenge that can be answered is of the password of
\* now (auth.repository.ts:1013); and one enrollment is open, whose secret
\* becomes the account's (auth.repository.ts:376).
THEOREM SecretsServeOnce ==
  ASSUME CredentialAssumption
  PROVE  Spec => []CodesServeOnce
<1>1. ASSUME CredentialInvariant PROVE EnrollmentsAreOne
  <2> DEFINE open == {e \in Enrollments : enrollment[e].state = "OPEN"}
  <2>1. Cardinality(open) <= 1
    <3>1. CASE open = {}
      BY <3>1, FS_EmptySet
    <3>2. CASE open # {}
      <4>1. PICK e : open = {e}
        BY <1>1, <3>2 DEF CredentialInvariant, OneIsOpen
      <4>2. Cardinality({e}) = 1
        BY FS_Singleton
      <4> HIDE DEF open
      <4> QED BY <4>1, <4>2
    <3> QED BY <3>1, <3>2
  <2>2. \A e \in Enrollments : enrollment[e].state = "CONSUMED" => enrollment[e].secret = account.totp
    BY <1>1 DEF CredentialInvariant, EnrolledIsTaken
  <2>3. \A e \in Enrollments : HasTotp => ~EnrollmentStands(e)
    BY DEF EnrollmentStands, EnrollmentEligible
  <2> QED BY <2>1, <2>2, <2>3 DEF EnrollmentsAreOne
<1>2. CredentialInvariant => CodesServeOnce
  BY <1>1 DEF CredentialInvariant, CodesServeOnce
<1> QED BY <1>2, CredentialInvariantAlways, PTL

\* What is granted rests on the password the account has at that moment, and on
\* the password alone only while it needs no code (auth.service.ts:118).
THEOREM GrantsProved ==
  ASSUME CredentialAssumption
  PROVE  Spec => GrantsAreProved
<1>1. ASSUME CredentialInvariant, Next PROVE Proved
  <2> USE <1>1 DEF CredentialInvariant, Typed, CredentialTypeOK
  <2>1. ASSUME granted' = granted PROVE Proved
    BY <2>1 DEF Proved
  <2>2. ASSUME NEW a \in Attempts, Login(a) PROVE Proved
    <3>1. account' = Rehashed /\ attempt[a].guess = account.password
      BY <2>2 DEF Login, Unchanged, CheckedIsRead
    <3>2. /\ account'.password = account.password /\ account'.totp = account.totp
          /\ account'.privileged = account.privileged
      BY <3>1 DEF Rehashed, Account
    <3>3. ASSUME granted' # granted PROVE Proved
      <4>1. granted' = granted \cup {Grant(a, "PASSWORD", attempt[a].guess, NoCode)} /\ ~NeedsCode
        BY <2>2, <3>3 DEF Login
      <4>2. ~account.privileged /\ account.totp = NoSecret
        BY <4>1 DEF NeedsCode, HasTotp
      <4> QED BY <3>1, <3>2, <4>1, <4>2 DEF Proved, Grant
    <3> QED BY <2>1, <3>3
  <2>3. ASSUME NEW c \in Challenges, NEW code \in Code, VerifyChallenge(c, code) PROVE Proved
    <3>1. account'.password = account.password /\ challenge[c].password = account.password
      BY <2>3 DEF VerifyChallenge, Account, ChallengesAreCurrent
    <3>2. PICK n : granted' = granted \cup {n} /\ n.password = challenge[c].password
                   /\ n.assurance \in {"PASSWORD_TOTP", "STEP_UP"}
      BY <2>3, GrantSays DEF VerifyChallenge
    <3> QED BY <3>1, <3>2 DEF Proved
  <2>4. ASSUME NEW e \in Enrollments, CompleteTotpEnrollment(e) PROVE Proved
    <3>1. PICK n : granted' = granted \cup {n} /\ n.password = account'.password /\ n.assurance = "ENROLLED"
      BY <2>4, GrantSays DEF CompleteTotpEnrollment
    <3> QED BY <3>1 DEF Proved
  <2>5. ASSUME NEW p \in Passwords, NEW by, Recover(p, by) PROVE Proved
    <3>1. PICK n : granted' = granted \cup {n} /\ n.password = p /\ n.assurance = "RECOVERED"
      BY <2>5, GrantSays DEF Recover
    <3>2. account'.password = p
      BY <2>5 DEF Recover, Account
    <3> QED BY <3>1, <3>2 DEF Proved
  <2>6. ASSUME PasswordStep PROVE Proved
    <3>1. (\E a \in Attempts : Login(a)) \/ granted' = granted
      BY <2>6, AttemptMoves
    <3> QED BY <2>1, <2>2, <3>1
  <2>7. ASSUME CodeStep PROVE Proved
    BY <2>1, <2>3, <2>4, <2>7 DEF CodeStep, IssueStepUpChallenge, RecordChallengeFailure, ChallengeRunsOut,
       EnrollmentCodeWrong, EnrollmentFallen, EnrollmentRunsOut, SweepEnrollments
  <2>8. ASSUME RecoveryStep \/ Tick \/ LeaseRunsOut \/ WaitIsOver \/ AccessGranted PROVE Proved
    BY <2>1, <2>5, <2>8 DEF RecoveryStep, ReserveRecoveryAttempt, RecoveryFails, RecoveryWindowOver, Tick,
       LeaseRunsOut, WaitIsOver, AccessGranted
  <2> QED BY <2>6, <2>7, <2>8 DEF Next
<1>2. CredentialInvariant /\ [Next]_vars => [Proved]_vars
  BY <1>1
<1> QED BY <1>2, CredentialInvariantAlways, PTL DEF Spec, GrantsAreProved
===============================================================================
