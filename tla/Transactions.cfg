SPECIFICATION MCSpec
CONSTANTS
  ann = ann
  bob = bob
  key = key
  pay = pay
  other = other
  l1 = l1
  l2 = l2
  r1 = r1
  r2 = r2
  c1 = c1
  c2 = c2
  t1 = t1
  t2 = t2
  t3 = t3
  Unused = Unused
  Anyone = Anyone
  None = None
  Commands <- MCCommands
  Attempts <- MCAttempts
  Documents = {d1, d2}
  Actors = {ann, bob}
  Keys = {key}
  Bodies = {pay, other}
  MaxCrashes = 1
  Lines <- MCLines
  Reversers <- MCReversers
  Clerks <- MCClerks
  CommandParts = {"keys", "retries"}
  RaceParts = {"race"}
  LockParts = {"waits", "order"}
  LockCommands <- MCLockCommands
  Tasks <- AllTasks
  Sources <- MCSources
  Allocations <- MCAllocations
  Siblings <- MCSiblings
  Reservations <- MCReservations
  Reserved <- MCReserved
  GroupOf <- MCGroupOf
  Participants <- MCParticipants
  PaymentOf <- MCPaymentOf
  ReversalOf <- MCReversalOf
  Route <- MCRoute
INVARIANTS
  LocksAreSafe
PROPERTIES
  ImplementsWriteOnce
  ActsAtOnce
  EveryCommandEnds
\* A lock that is never given back is for EveryCommandEnds to report.
CHECK_DEADLOCK FALSE
