---------------------------- MODULE MCCredentials ----------------------------
(***************************************************************************)
(* One account in three parts, one of which a behaviour is about: two      *)
(* attempts against the throttle, the codes of an authenticator, and two   *)
(* enrollments.  A part is bounded by what its steps may change.           *)
(***************************************************************************)
EXTENDS Credentials, TLC

VARIABLE part

ASSUME BoundsAssumption == CredentialAssumption

\* One attempt at a time, and none that fails, and one recovery.
OneAttempt ==
  /\ Cardinality({a \in Attempts : attempt'[a].at # "IDLE"}) <= 1
  /\ Cardinality(leases') <= 1
  /\ \A l \in leases' : l.live
  /\ throttle'.failures = 0 /\ recovery'.pending <= 1

Started == {e \in Enrollments : enrollment[e].state # "NONE"}

CredentialsInit ==
  /\ Init
  /\ \/ part = "throttle" /\ ~account.privileged
     \/ part \in {"codes", "enrollments"} /\ account.privileged

PartNext ==
  \/ /\ part = "throttle"
     /\ challenge' = challenge /\ enrollment' = enrollment /\ recovery' = recovery /\ time' = time
     /\ account'.version <= 1 /\ throttle'.generation <= 1
  \/ /\ part = "codes"
     /\ OneAttempt
     /\ Cardinality(Started') <= 1
     /\ \A e \in Enrollments :
          /\ enrollment'[e].secret = enrollment[e].secret
          /\ enrollment'[e].attempts = 0 /\ ~enrollment'[e].expired
  \/ /\ part = "enrollments"
     /\ OneAttempt
     /\ challenge' = challenge /\ time' <= 1

CredentialsNext == Next /\ PartNext /\ UNCHANGED part

CredentialsSpec == CredentialsInit /\ [][CredentialsNext]_<<part, vars>>

Symmetric == Permutations(Attempts) \cup Permutations(Enrollments)
===============================================================================
