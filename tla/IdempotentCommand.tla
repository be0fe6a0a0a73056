--------------------------- MODULE IdempotentCommand ---------------------------
(* A command under an Idempotency-Key: one transaction takes the advisory lock *)
(* of the key, looks for the record of an earlier run, and either answers from *)
(* it or does the work and stores the answer. Clients repeat a command until   *)
(* they hear of it, also while an earlier attempt still runs; answers get lost, *)
(* the server crashes, authority comes and goes. Every module of the service   *)
(* has a copy of this code; the copies differ in what helper says.             *)
EXTENDS Naturals

CONSTANTS Commands,     \* what clients ask: [actor, key, body]
          Attempts,     \* <<command, n>>: the n-th attempt that may be under way
          Documents,    \* identities a document can get (randomUUID)
          Actors, Keys, Bodies,
          Anyone,       \* stands for an actor a scope or a digest leaves out
          None,
          MaxCrashes    \* bound: server crashes

ASSUME CommandsAssumption ==
    /\ Commands \subseteq [actor: Actors, key: Keys, body: Bodies]
    /\ Attempts \subseteq Commands \X Nat
ASSUME NoneAssumption ==
    /\ None \notin [digest: (Actors \cup {Anyone}) \X Bodies, response: Documents]
    /\ None \notin Commands

Ids == (Actors \cup {Anyone}) \X Keys
Digests == (Actors \cup {Anyone}) \X Bodies

VARIABLES helper,       \* which copy of the code serves the commands
          at,           \* how far each attempt is
          answer,       \* the document in an attempt's answer, once it is done
          records,      \* committed idempotency_records
          documents,    \* what the commands made
          allowed,      \* actors whose authority and references are in force
          heard,        \* the answers clients got: <<command, document>>
          crashes

vars == <<helper, at, answer, records, documents, allowed, heard, crashes>>

(* ------------------------- the copies of the code ------------------------- *)
Helper == [scopedByActor: BOOLEAN, digestsActor: BOOLEAN, reauthorises: BOOLEAN]

Own == [scopedByActor |-> TRUE, digestsActor |-> TRUE, reauthorises |-> TRUE]
Shared == [scopedByActor |-> FALSE, digestsActor |-> TRUE, reauthorises |-> TRUE]
Trusting == [scopedByActor |-> FALSE, digestsActor |-> TRUE, reauthorises |-> FALSE]
Anonymous == [scopedByActor |-> FALSE, digestsActor |-> FALSE, reauthorises |-> FALSE]

CreatePayment == Own
CreatePaymentRequest == Own
CreateTransfer == Own
CreateSettlement == Own
ReceiptCommands == Own
ReceiptExecutions == Own
ReceiptSubmission == Own
ChequeCommands == Own
PrintTemplateCommands == Own
BankingCommands == Shared
CashboxCommands == Shared
HandoverCommand == Shared
PettyCashCommand == Shared
ExportCommand == Shared
CashboxDayCommands == Trusting
MasterDataCommands == Anonymous
IdentityCommands == Anonymous

Helpers == {CreatePayment, CreatePaymentRequest, CreateTransfer, CreateSettlement,
            ReceiptCommands, ReceiptExecutions, ReceiptSubmission, ChequeCommands,
            PrintTemplateCommands, BankingCommands, CashboxCommands, HandoverCommand,
            PettyCashCommand, ExportCommand, CashboxDayCommands, MasterDataCommands,
            IdentityCommands}

(* The scope and the key name the record; the digest is that of the command.   *)
Id(c) == <<IF helper.scopedByActor THEN c.actor ELSE Anyone, c.key>>
Digest(c) == <<IF helper.digestsActor THEN c.actor ELSE Anyone, c.body>>

(* --------------------------------- states --------------------------------- *)
Stages == {"idle", "sent", "locked", "inserted", "written", "done"}
Holding == {"locked", "inserted", "written"}

Init ==
    /\ helper \in Helpers
    /\ at = [a \in Attempts |-> "idle"]
    /\ answer = [a \in Attempts |-> None]
    /\ records = [i \in Ids |-> None]
    /\ documents = [d \in Documents |-> None]
    /\ allowed \in SUBSET Actors
    /\ heard = {}
    /\ crashes = 0

HasHeard(c) == \E d \in Documents : <<c, d>> \in heard
Goes(a, stage) == at' = [at EXCEPT ![a] = stage]

(* A client sends its command, again and again, until it hears of it.          *)
Send(a) ==
    /\ at[a] = "idle" /\ ~HasHeard(a[1])
    /\ Goes(a, "sent")
    /\ UNCHANGED <<helper, answer, records, documents, allowed, heard, crashes>>

(* pg_advisory_xact_lock over the scope and the key, held to the end.          *)
TakeLock(a) ==
    /\ at[a] = "sent"
    /\ \A b \in Attempts : Id(b[1]) = Id(a[1]) => at[b] \notin Holding
    /\ Goes(a, "locked")
    /\ UNCHANGED <<helper, answer, records, documents, allowed, heard, crashes>>

Record(a) == records[Id(a[1])]
Answers(a) == /\ Record(a).digest = Digest(a[1])
              /\ helper.reauthorises => a[1].actor \in allowed

(* A record is there: its response is the answer, if the command is the same   *)
(* and, in most copies, the actor may still give it.                           *)
Replay(a) ==
    /\ at[a] = "locked" /\ Record(a) # None /\ Answers(a)
    /\ Goes(a, "done")
    /\ answer' = [answer EXCEPT ![a] = Record(a).response]
    /\ UNCHANGED <<helper, records, documents, allowed, heard, crashes>>

(* Otherwise IDEMPOTENCY_CONFLICT or SCOPE_DENIED, and a rollback.             *)
Refuse(a) ==
    /\ at[a] = "locked" /\ Record(a) # None /\ ~Answers(a)
    /\ Goes(a, "idle")
    /\ UNCHANGED <<helper, answer, records, documents, allowed, heard, crashes>>

(* No record: one is inserted without a response, seen by nobody yet.          *)
Insert(a) ==
    /\ at[a] = "locked" /\ Record(a) = None
    /\ Goes(a, "inserted")
    /\ UNCHANGED <<helper, answer, records, documents, allowed, heard, crashes>>

Work(a) ==
    /\ at[a] = "inserted" /\ a[1].actor \in allowed
    /\ Goes(a, "written")
    /\ UNCHANGED <<helper, answer, records, documents, allowed, heard, crashes>>

\* Faulty variant: the record was committed before the work was tried.
RollBackWork(a) ==
    /\ at[a] = "inserted" /\ a[1].actor \notin allowed
    /\ Goes(a, "idle")
    /\ records' = [records EXCEPT ![Id(a[1])] = [digest |-> Digest(a[1]), response |-> None]]
    /\ UNCHANGED <<helper, answer, documents, allowed, heard, crashes>>

(* The work is refused: the rollback takes the record with it.                 *)
RollBack(a) ==
    /\ at[a] = "inserted" /\ a[1].actor \notin allowed
    /\ Goes(a, "idle")
    /\ UNCHANGED <<helper, answer, records, documents, allowed, heard, crashes>>

\* Faulty variant: the record is written on another connection, and lost.
CommitWorkOnly(a, d) ==
    /\ at[a] = "written" /\ documents[d] = None
    /\ documents' = [documents EXCEPT ![d] = a[1]]
    /\ Goes(a, "done")
    /\ answer' = [answer EXCEPT ![a] = d]
    /\ UNCHANGED <<helper, records, allowed, heard, crashes>>

(* COMMIT makes the document and the record with its response visible at once. *)
Commit(a, d) ==
    /\ at[a] = "written" /\ documents[d] = None
    /\ documents' = [documents EXCEPT ![d] = a[1]]
    /\ records' = [records EXCEPT ![Id(a[1])] = [digest |-> Digest(a[1]), response |-> d]]
    /\ Goes(a, "done")
    /\ answer' = [answer EXCEPT ![a] = d]
    /\ UNCHANGED <<helper, allowed, heard, crashes>>

Hear(a) ==
    /\ at[a] = "done"
    /\ heard' = heard \cup {<<a[1], answer[a]>>}
    /\ Goes(a, "idle")
    /\ answer' = [answer EXCEPT ![a] = None]
    /\ UNCHANGED <<helper, records, documents, allowed, crashes>>

Lose(a) ==
    /\ at[a] = "done"
    /\ Goes(a, "idle")
    /\ answer' = [answer EXCEPT ![a] = None]
    /\ UNCHANGED <<helper, records, documents, allowed, heard, crashes>>

(* A crash ends every transaction and every connection.                        *)
Crash ==
    /\ crashes < MaxCrashes
    /\ crashes' = crashes + 1
    /\ at' = [a \in Attempts |-> "idle"]
    /\ answer' = [a \in Attempts |-> None]
    /\ UNCHANGED <<helper, records, documents, allowed, heard>>

Withdraw(u) ==
    /\ u \in allowed
    /\ allowed' = allowed \ {u}
    /\ UNCHANGED <<helper, at, answer, records, documents, heard, crashes>>

Restore(u) ==
    /\ u \notin allowed
    /\ allowed' = allowed \cup {u}
    /\ UNCHANGED <<helper, at, answer, records, documents, heard, crashes>>

Serve(a) == \/ Replay(a) \/ Refuse(a) \/ Insert(a) \/ Work(a) \/ RollBack(a)
            \/ \E d \in Documents : Commit(a, d)

Next ==
    \/ \E a \in Attempts : Send(a) \/ TakeLock(a) \/ Serve(a) \/ Hear(a) \/ Lose(a)
    \/ Crash
    \/ \E u \in Actors : Withdraw(u) \/ Restore(u)

(* Clients retry; the lock queue is served in order; a running transaction     *)
(* ends; not every answer is lost.                                             *)
Fairness ==
    \A a \in Attempts : /\ WF_vars(Send(a)) /\ SF_vars(TakeLock(a))
                        /\ WF_vars(Serve(a)) /\ SF_vars(Hear(a))

Spec == Init /\ [][Next]_vars /\ Fairness

(* ------------------------------- properties ------------------------------- *)
(* Types of the state.                                                         *)
CommandTypeOK ==
    /\ helper \in Helper
    /\ at \in [Attempts -> Stages]
    /\ answer \in [Attempts -> Documents \cup {None}]
    /\ records \in [Ids -> [digest: Digests, response: Documents] \cup {None}]
    /\ documents \in [Documents -> Commands \cup {None}]
    /\ allowed \subseteq Actors
    /\ heard \subseteq Commands \X (Documents \cup {None})
    /\ crashes \in Nat

(* What the service holds a command to be: who asked, where the copy of the    *)
(* code cares, and for what. What was made under a scope and key, by the       *)
(* documents that exist, and what clients were told under it.                  *)
Asked(c) == <<IF helper.digestsActor THEN c.actor ELSE Anyone, c.body>>
DocumentsUnder(i) == {d \in Documents : documents[d] # None /\ Id(documents[d]) = i}
Made == [i \in Ids |-> {<<Asked(documents[d]), d>> : d \in DocumentsUnder(i)}]
Told == {<<Id(h[1]), <<Asked(h[1]), h[2]>>>> : h \in heard}

Once == INSTANCE WriteOnce
            WITH Names <- Ids, Values <- Digests \X Documents, kept <- Made, told <- Told

(* However often a command is sent, at once or after a crash, its key makes    *)
(* one document, and every answer under the key is that document, told only to *)
(* who asked for the same thing (the idempotency lock, record and digest).     *)
ImplementsWriteOnce == Once!Spec

(* A command that is repeated until it is heard of, by an actor who in the end *)
(* keeps the authority, is answered, unless its key was spent on another       *)
(* command: no crash, lost answer or refusal uses a key up.                    *)
KeySpent(c) == records[Id(c)] # None /\ records[Id(c)].digest # Digest(c)
RetriesAreAnswered ==
    \A c \in Commands : <>[](c.actor \in allowed) => <>(HasHeard(c) \/ KeySpent(c))
=============================================================================
