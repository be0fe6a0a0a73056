---------------------------- MODULE TransactionParts ----------------------------
(***************************************************************************)
(* Transactions that run side by side: commands that are repeated under one *)
(* key, a reversal against the outcomes of its instructions, and commands   *)
(* that lock rows they share.  They share no state, so a behaviour is about *)
(* one part, which is about one of the three.  The others stay as they      *)
(* start.                                                                   *)
(***************************************************************************)
EXTENDS IdempotentCommand, ReverseRace, FiniteSets, Sequences

CONSTANTS
  CommandParts, RaceParts, LockParts,
  LockCommands, Tasks,
  Sources, Allocations, Siblings, Reservations, Reserved,
  GroupOf, Participants, PaymentOf, ReversalOf, Route,
  Unused               \* the value of a variable of the other parts

VARIABLES
  part,
  work, taken, state, locks, waiting    \* RowLocks; work is its task

lockPart == <<work, taken, state, locks, waiting>>
allParts == <<part, vars, raceVars, lockPart>>

Rows == INSTANCE RowLocks WITH Commands <- LockCommands, task <- work

ASSUME PartsAssumption ==
  /\ Rows!TasksAssumption /\ Rows!RowsAssumption
  /\ LockParts \cap (CommandParts \cup RaceParts) = {} /\ CommandParts \cap RaceParts = {}

NoLocks ==
  work = Unused /\ taken = Unused /\ state = Unused /\ locks = Unused /\ waiting = Unused

PartsInit ==
  /\ Init /\ RaceInit
  /\ \/ part \in CommandParts \cup RaceParts /\ NoLocks
     \/ part \in LockParts /\ Rows!Init

PartsNext ==
  \/ part \in CommandParts /\ Next /\ UNCHANGED <<part, raceVars, lockPart>>
  \/ part \in RaceParts /\ RaceNext /\ UNCHANGED <<part, vars, lockPart>>
  \/ part \in LockParts /\ Rows!Next /\ UNCHANGED <<part, vars, raceVars>>

PartsSpec == PartsInit /\ [][PartsNext]_allParts

-------------------------------------------------------------------------------
(* Properties.  ImplementsWriteOnce and ActsAtOnce are those of the modules. *)

\* Locks are held by who may hold them, commands that take theirs in one order
\* never wait in a circle, and a negative outcome waits for the reversal it
\* refers to (transfer.repository.ts:740,
\* bank-instruction-outcome.repository.ts:216).
LocksAreSafe ==
  /\ part \in CommandParts => CommandTypeOK
  /\ part \in RaceParts => RaceTypeOK /\ NegativeIsCorrected
  /\ part \in LockParts => Rows!LockTypeOK /\ Rows!OrderedNeverDeadlock
===============================================================================
