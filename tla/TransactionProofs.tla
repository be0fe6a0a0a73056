--------------------------- MODULE TransactionProofs ---------------------------
(***************************************************************************)
(* What holds of transactions that run at once, for any number of them:    *)
(* commands that are repeated under one key, a reversal against the        *)
(* outcomes of bank instructions, and commands that lock rows they share.  *)
(***************************************************************************)
EXTENDS TransactionParts, Sums, TLAPS

-------------------------------------------------------------------------------
(* IdempotentCommand implements WriteOnce for all commands, attempts, keys *)
(* and any number of crashes.  The argument: attempts under one scope and  *)
(* key hold the lock one at a time; the one that has found no record is    *)
(* the only one that can make one; and documents and records come into     *)
(* being together.                                                         *)

Attempt(a) == Id(a[1])

(* Attempts that hold the lock of one scope and key are the same attempt.      *)
LockExclusive ==
    \A a, b \in Attempts :
        at[a] \in Holding /\ at[b] \in Holding /\ Attempt(a) = Attempt(b) => a = b

(* Who has inserted a record has found none, and none has come since.          *)
FreshIsAbsent ==
    \A a \in Attempts : at[a] \in {"inserted", "written"} => records[Attempt(a)] = None

(* A document and the record of its command point at each other.               *)
DocumentsRecorded ==
    \A d \in Documents : documents[d] # None =>
        records[Id(documents[d])] = [digest |-> Digest(documents[d]), response |-> d]
RecordsPoint ==
    \A i \in Ids : records[i] # None =>
        LET c == documents[records[i].response]
        IN  c # None /\ Id(c) = i /\ records[i].digest = Digest(c)

(* What an attempt is about to answer is what its record says.                 *)
AnswersAreRecorded ==
    \A a \in Attempts : at[a] = "done" =>
        /\ answer[a] \in Documents
        /\ records[Attempt(a)] = [digest |-> Digest(a[1]), response |-> answer[a]]

IInv == /\ CommandTypeOK /\ LockExclusive /\ FreshIsAbsent
        /\ DocumentsRecorded /\ RecordsPoint /\ AnswersAreRecorded

LEMMA AttemptTypes == ASSUME NEW a \in Attempts PROVE a[1] \in Commands
  BY CommandsAssumption

(* A scope with its key names a record.                                        *)
LEMMA IdTypes == ASSUME NEW c \in Commands PROVE Id(c) \in Ids
<1>1. c.actor \in Actors /\ c.key \in Keys
  BY CommandsAssumption
<1> QED
  BY <1>1 DEF Id, Ids

LEMMA DigestTypes == ASSUME NEW c \in Commands PROVE Digest(c) \in Digests
<1>1. c.actor \in Actors /\ c.body \in Bodies
  BY CommandsAssumption
<1> QED
  BY <1>1 DEF Digest, Digests

(* The names of records and what a command is held to be follow the copy of    *)
(* the code, which never changes.                                              *)
LEMMA NamesStay ==
    ASSUME helper' = helper, NEW c PROVE Id(c)' = Id(c) /\ Digest(c)' = Digest(c)
  BY DEF Id, Digest

(* A record is not None.                                                       *)
LEMMA RecordIsSome ==
    ASSUME NEW c \in Commands, NEW d \in Documents
    PROVE [digest |-> Digest(c), response |-> d] # None
  BY DigestTypes, NoneAssumption DEF Digests

(* The initial states satisfy the invariant.                                   *)
LEMMA InitIInv == Init => IInv
<1> SUFFICES ASSUME Init PROVE IInv
  OBVIOUS
<1>1. helper \in {Own, Shared, Trusting, Anonymous}
  BY DEF Init, Helpers, CreatePayment, CreatePaymentRequest, CreateTransfer,
         CreateSettlement, ReceiptCommands, ReceiptExecutions, ReceiptSubmission,
         ChequeCommands, PrintTemplateCommands, BankingCommands, CashboxCommands,
         HandoverCommand, PettyCashCommand, ExportCommand, CashboxDayCommands,
         MasterDataCommands, IdentityCommands
<1>0. helper \in Helper
  <2>1. Own \in Helper /\ Shared \in Helper
    BY DEF Helper, Own, Shared
  <2>2. Trusting \in Helper /\ Anonymous \in Helper
    BY DEF Helper, Trusting, Anonymous
  <2> QED
    BY <2>1, <2>2, <1>1
<1>2. CommandTypeOK
  BY <1>0 DEF Init, CommandTypeOK, Stages
<1>3. \A a \in Attempts : at[a] = "idle"
  BY DEF Init
<1>4. LockExclusive /\ FreshIsAbsent /\ AnswersAreRecorded
  BY <1>3 DEF LockExclusive, FreshIsAbsent, AnswersAreRecorded, Holding
<1>5. (\A d \in Documents : documents[d] = None) /\ (\A i \in Ids : records[i] = None)
  BY DEF Init
<1>6. DocumentsRecorded /\ RecordsPoint
  BY <1>5 DEF DocumentsRecorded, RecordsPoint
<1> QED
  BY <1>2, <1>4, <1>6 DEF IInv

(* An attempt moves on without the lock changing hands and without an answer:  *)
(* the facts about records, documents and answers stay.                        *)
LEMMA MoveIInv ==
    ASSUME IInv, NEW a \in Attempts, NEW stage \in Stages \ {"done"},
           Goes(a, stage), stage \in Holding => at[a] \in Holding,
           stage \in {"inserted", "written"} => records[Attempt(a)] = None,
           UNCHANGED <<helper, records, documents, heard, crashes>>,
           allowed' \in SUBSET Actors,
           answer' \in [Attempts -> Documents \cup {None}],
           \A b \in Attempts : b # a => answer'[b] = answer[b]
    PROVE  IInv'
<1> USE DEF IInv
<1>1. /\ at'[a] = stage
      /\ \A b \in Attempts : b # a => at'[b] = at[b]
      /\ at' \in [Attempts -> Stages]
  BY DEF Goes, CommandTypeOK
<1>2. CommandTypeOK'
  BY <1>1 DEF CommandTypeOK
<1>3. \A b \in Attempts : Attempt(b)' = Attempt(b) /\ Digest(b[1])' = Digest(b[1])
  BY NamesStay DEF Attempt
<1>4. LockExclusive'
  BY <1>1, <1>3 DEF LockExclusive
<1>5. FreshIsAbsent'
  BY <1>1, <1>3 DEF FreshIsAbsent
<1>6. DocumentsRecorded'
  BY NamesStay DEF DocumentsRecorded
<1>7. RecordsPoint'
  BY NamesStay DEF RecordsPoint
<1>8. AnswersAreRecorded'
  BY <1>1, <1>3 DEF AnswersAreRecorded
<1> QED
  BY <1>2, <1>4, <1>5, <1>6, <1>7, <1>8

(* The lock is granted to one attempt only.                                    *)
LEMMA TakeLockIInv == ASSUME IInv, NEW a \in Attempts, TakeLock(a) PROVE IInv'
<1> USE DEF IInv
<1>1. /\ at' = [at EXCEPT ![a] = "locked"]
      /\ UNCHANGED <<helper, answer, records, documents, allowed, heard, crashes>>
      /\ \A b \in Attempts : Attempt(b) = Attempt(a) => at[b] \notin Holding
  BY DEF TakeLock, Goes, Attempt
<1>2. /\ at'[a] = "locked"
      /\ \A b \in Attempts : b # a => at'[b] = at[b]
      /\ at' \in [Attempts -> Stages]
  BY <1>1 DEF CommandTypeOK, Stages
<1>3. \A b \in Attempts : Attempt(b)' = Attempt(b) /\ Digest(b[1])' = Digest(b[1])
  BY <1>1, NamesStay DEF Attempt
<1>4. CommandTypeOK'
  BY <1>1, <1>2 DEF CommandTypeOK
<1>5. LockExclusive'
  BY <1>1, <1>2, <1>3 DEF LockExclusive
<1>6. FreshIsAbsent' /\ AnswersAreRecorded'
  BY <1>1, <1>2, <1>3 DEF FreshIsAbsent, AnswersAreRecorded
<1>7. DocumentsRecorded' /\ RecordsPoint'
  BY <1>1, NamesStay DEF DocumentsRecorded, RecordsPoint
<1> QED
  BY <1>4, <1>5, <1>6, <1>7

(* A replay answers what the record says, if the command is the same.          *)
LEMMA ReplayIInv == ASSUME IInv, NEW a \in Attempts, Replay(a) PROVE IInv'
<1> USE DEF IInv
<1> DEFINE r == records[Attempt(a)]
<1>1. /\ at' = [at EXCEPT ![a] = "done"]
      /\ answer' = [answer EXCEPT ![a] = r.response]
      /\ UNCHANGED <<helper, records, documents, allowed, heard, crashes>>
      /\ r # None /\ r.digest = Digest(a[1])
  BY DEF Replay, Goes, Answers, Record, Attempt
<1>2. r \in [digest: Digests, response: Documents]
  BY <1>1, AttemptTypes, IdTypes DEF CommandTypeOK, Attempt
<1>3. /\ at'[a] = "done" /\ answer'[a] = r.response
      /\ \A b \in Attempts : b # a => at'[b] = at[b] /\ answer'[b] = answer[b]
      /\ at' \in [Attempts -> Stages]
      /\ answer' \in [Attempts -> Documents \cup {None}]
  BY <1>1, <1>2 DEF CommandTypeOK, Stages
<1>4. \A b \in Attempts : Attempt(b)' = Attempt(b) /\ Digest(b[1])' = Digest(b[1])
  BY <1>1, NamesStay DEF Attempt
<1>5. CommandTypeOK'
  BY <1>1, <1>3 DEF CommandTypeOK
<1>6. LockExclusive' /\ FreshIsAbsent'
  BY <1>1, <1>3, <1>4 DEF LockExclusive, FreshIsAbsent, Holding
<1>7. DocumentsRecorded' /\ RecordsPoint'
  BY <1>1, NamesStay DEF DocumentsRecorded, RecordsPoint
<1>8. r = [digest |-> Digest(a[1]), response |-> r.response]
  BY <1>1, <1>2
<1>9. AnswersAreRecorded'
  BY <1>1, <1>2, <1>3, <1>4, <1>8 DEF AnswersAreRecorded
<1> QED
  BY <1>5, <1>6, <1>7, <1>9

(* A commit makes a document and its record under a name that had none.        *)
LEMMA CommitIInv ==
    ASSUME IInv, NEW a \in Attempts, NEW d \in Documents, Commit(a, d) PROVE IInv'
<1> USE DEF IInv
<1> DEFINE c == a[1]
           r == [digest |-> Digest(c), response |-> d]
<1>1. /\ at[a] = "written" /\ documents[d] = None
      /\ at' = [at EXCEPT ![a] = "done"]
      /\ answer' = [answer EXCEPT ![a] = d]
      /\ documents' = [documents EXCEPT ![d] = c]
      /\ records' = [records EXCEPT ![Attempt(a)] = r]
      /\ UNCHANGED <<helper, allowed, heard, crashes>>
  BY DEF Commit, Goes, Attempt
<1>2. c \in Commands /\ Attempt(a) \in Ids /\ r \in [digest: Digests, response: Documents]
  BY AttemptTypes, IdTypes, DigestTypes DEF Attempt
<1>3. /\ at'[a] = "done" /\ answer'[a] = d /\ documents'[d] = c /\ records'[Attempt(a)] = r
      /\ \A b \in Attempts : b # a => at'[b] = at[b] /\ answer'[b] = answer[b]
      /\ \A e \in Documents : e # d => documents'[e] = documents[e]
      /\ \A i \in Ids : i # Attempt(a) => records'[i] = records[i]
  BY <1>1, <1>2 DEF CommandTypeOK
<1>4. records[Attempt(a)] = None
  BY <1>1 DEF FreshIsAbsent
<1>5. \A b \in Attempts : /\ Attempt(b)' = Attempt(b) /\ Digest(b[1])' = Digest(b[1])
                         /\ Attempt(b) \in Ids
  BY <1>1, NamesStay, AttemptTypes, IdTypes DEF Attempt
<1>6. CommandTypeOK'
  BY <1>1, <1>2 DEF CommandTypeOK, Stages
<1>7. LockExclusive'
  BY <1>3, <1>5 DEF LockExclusive, Holding
<1>8. FreshIsAbsent'
  <2> SUFFICES ASSUME NEW b \in Attempts, at'[b] \in {"inserted", "written"}
               PROVE  records'[Attempt(b)] = None
    BY <1>5 DEF FreshIsAbsent
  <2>1. b # a /\ at[b] \in {"inserted", "written"}
    BY <1>3
  <2>2. Attempt(b) # Attempt(a)
    BY <2>1, <1>1 DEF LockExclusive, Holding
  <2> QED
    BY <2>1, <2>2, <1>3, <1>5 DEF FreshIsAbsent
<1>9. DocumentsRecorded'
  <2> SUFFICES ASSUME NEW e \in Documents, documents'[e] # None
               PROVE  records'[Id(documents'[e])] = [digest |-> Digest(documents'[e]), response |-> e]
    BY <1>1, NamesStay DEF DocumentsRecorded
  <2>1. CASE e = d
    BY <2>1, <1>3 DEF Attempt
  <2>2. CASE e # d
    <3>1. documents[e] \in Commands /\ documents'[e] = documents[e]
      BY <2>2, <1>3 DEF CommandTypeOK
    <3>2. records[Id(documents[e])] = [digest |-> Digest(documents[e]), response |-> e]
      BY <3>1, NoneAssumption DEF DocumentsRecorded
    <3>3. Id(documents[e]) # Attempt(a)
      BY <3>1, <3>2, <1>4, RecordIsSome
    <3> QED
      BY <3>1, <3>2, <3>3, <1>3, IdTypes
  <2> QED
    BY <2>1, <2>2
<1>10. RecordsPoint'
  <2> SUFFICES ASSUME NEW i \in Ids, records'[i] # None
               PROVE  LET x == documents'[records'[i].response]
                      IN  x # None /\ Id(x) = i /\ records'[i].digest = Digest(x)
    BY <1>1, NamesStay DEF RecordsPoint
  <2>1. CASE i = Attempt(a)
    BY <2>1, <1>2, <1>3, NoneAssumption DEF Attempt
  <2>2. CASE i # Attempt(a)
    <3>1. records'[i] = records[i] /\ records[i].response \in Documents
      BY <2>2, <1>3 DEF CommandTypeOK
    <3>2. documents[records[i].response] # None
      BY <3>1 DEF RecordsPoint
    <3>3. documents'[records[i].response] = documents[records[i].response]
      BY <3>1, <3>2, <1>1, <1>3
    <3> QED
      BY <3>1, <3>3 DEF RecordsPoint
  <2> QED
    BY <2>1, <2>2
<1>11. AnswersAreRecorded'
  <2> SUFFICES ASSUME NEW b \in Attempts, at'[b] = "done"
               PROVE  /\ answer'[b] \in Documents
                      /\ records'[Attempt(b)] = [digest |-> Digest(b[1]), response |-> answer'[b]]
    BY <1>5 DEF AnswersAreRecorded
  <2>1. CASE b = a
    BY <2>1, <1>3
  <2>2. CASE b # a
    <3>1. /\ answer[b] \in Documents
          /\ records[Attempt(b)] = [digest |-> Digest(b[1]), response |-> answer[b]]
      BY <2>2, <1>3 DEF AnswersAreRecorded
    <3>2. b[1] \in Commands
      BY AttemptTypes
    <3>3. Attempt(b) # Attempt(a)
      BY <3>1, <3>2, <1>4, RecordIsSome
    <3> QED
      BY <3>1, <3>3, <2>2, <1>3, <1>5
  <2> QED
    BY <2>1, <2>2
<1> QED
  BY <1>6, <1>7, <1>8, <1>9, <1>10, <1>11

(* Every step keeps the invariant.                                             *)
LEMMA NextIInv == IInv /\ [Next]_vars => IInv'
<1> SUFFICES ASSUME IInv, [Next]_vars PROVE IInv'
  OBVIOUS
<1>0. CommandTypeOK
  BY DEF IInv
<1>1. ASSUME NEW a \in Attempts, Send(a) PROVE IInv'
  <2>1. Goes(a, "sent") /\ UNCHANGED <<helper, answer, records, documents, allowed, heard, crashes>>
    BY <1>1 DEF Send
  <2> QED
    BY <2>1, <1>0, MoveIInv DEF Stages, Holding, CommandTypeOK
<1>2. ASSUME NEW a \in Attempts, TakeLock(a) PROVE IInv'
  BY <1>2, TakeLockIInv
<1>3. ASSUME NEW a \in Attempts, Replay(a) PROVE IInv'
  BY <1>3, ReplayIInv
<1>4. ASSUME NEW a \in Attempts, Refuse(a) \/ RollBack(a) PROVE IInv'
  <2>1. Goes(a, "idle") /\ UNCHANGED <<helper, answer, records, documents, allowed, heard, crashes>>
    BY <1>4 DEF Refuse, RollBack
  <2> QED
    BY <2>1, <1>0, MoveIInv DEF Stages, Holding, CommandTypeOK
<1>5. ASSUME NEW a \in Attempts, Insert(a) PROVE IInv'
  <2>1. /\ Goes(a, "inserted") /\ at[a] = "locked" /\ records[Attempt(a)] = None
        /\ UNCHANGED <<helper, answer, records, documents, allowed, heard, crashes>>
    BY <1>5 DEF Insert, Record, Attempt
  <2> QED
    BY <2>1, <1>0, MoveIInv DEF Stages, Holding, CommandTypeOK
<1>6. ASSUME NEW a \in Attempts, Work(a) PROVE IInv'
  <2>1. /\ Goes(a, "written") /\ at[a] = "inserted"
        /\ UNCHANGED <<helper, answer, records, documents, allowed, heard, crashes>>
    BY <1>6 DEF Work
  <2>2. records[Attempt(a)] = None
    BY <2>1 DEF IInv, FreshIsAbsent
  <2> QED
    BY <2>1, <2>2, <1>0, MoveIInv DEF Stages, Holding, CommandTypeOK
<1>7. ASSUME NEW a \in Attempts, NEW d \in Documents, Commit(a, d) PROVE IInv'
  BY <1>7, CommitIInv
<1>8. ASSUME NEW a \in Attempts, Hear(a) PROVE IInv'
  <2>1. /\ at' = [at EXCEPT ![a] = "idle"] /\ answer' = [answer EXCEPT ![a] = None]
        /\ heard' = heard \cup {<<a[1], answer[a]>>}
        /\ UNCHANGED <<helper, records, documents, allowed, crashes>>
    BY <1>8 DEF Hear, Goes
  <2>2. CommandTypeOK'
    BY <2>1, <1>0, AttemptTypes DEF CommandTypeOK, Stages
  <2>3. /\ at'[a] = "idle"
        /\ \A b \in Attempts : b # a => at'[b] = at[b] /\ answer'[b] = answer[b]
    BY <2>1, <1>0 DEF CommandTypeOK
  <2>4. \A b \in Attempts : Attempt(b)' = Attempt(b) /\ Digest(b[1])' = Digest(b[1])
    BY <2>1, NamesStay DEF Attempt
  <2>5. LockExclusive' /\ FreshIsAbsent'
    BY <2>1, <2>3, <2>4 DEF IInv, LockExclusive, FreshIsAbsent, Holding
  <2>6. AnswersAreRecorded'
    BY <2>1, <2>3, <2>4 DEF IInv, AnswersAreRecorded
  <2>7. DocumentsRecorded' /\ RecordsPoint'
    BY <2>1, NamesStay DEF IInv, DocumentsRecorded, RecordsPoint
  <2> QED
    BY <2>2, <2>5, <2>6, <2>7 DEF IInv
<1>9. ASSUME NEW a \in Attempts, Lose(a) PROVE IInv'
  <2>1. /\ Goes(a, "idle") /\ answer' = [answer EXCEPT ![a] = None]
        /\ UNCHANGED <<helper, records, documents, allowed, heard, crashes>>
    BY <1>9 DEF Lose
  <2> QED
    BY <2>1, <1>0, MoveIInv DEF Stages, Holding, CommandTypeOK
<1>10. ASSUME Crash PROVE IInv'
  <2>1. /\ at' = [a \in Attempts |-> "idle"] /\ answer' = [a \in Attempts |-> None]
        /\ crashes' = crashes + 1
        /\ UNCHANGED <<helper, records, documents, allowed, heard>>
    BY <1>10 DEF Crash
  <2>2. CommandTypeOK'
    BY <2>1, <1>0 DEF CommandTypeOK, Stages
  <2>3. LockExclusive' /\ FreshIsAbsent' /\ AnswersAreRecorded'
    BY <2>1 DEF LockExclusive, FreshIsAbsent, AnswersAreRecorded, Holding
  <2>4. DocumentsRecorded' /\ RecordsPoint'
    BY <2>1, NamesStay DEF IInv, DocumentsRecorded, RecordsPoint
  <2> QED
    BY <2>2, <2>3, <2>4 DEF IInv
<1>11. ASSUME UNCHANGED <<helper, at, answer, records, documents, heard, crashes>>,
              allowed' \in SUBSET Actors
       PROVE  IInv'
  <2>1. CommandTypeOK'
    BY <1>11, <1>0 DEF CommandTypeOK
  <2>2. \A b \in Attempts : Attempt(b)' = Attempt(b) /\ Digest(b[1])' = Digest(b[1])
    BY <1>11, NamesStay DEF Attempt
  <2>3. LockExclusive' /\ FreshIsAbsent' /\ AnswersAreRecorded'
    BY <1>11, <2>2 DEF IInv, LockExclusive, FreshIsAbsent, AnswersAreRecorded
  <2>4. DocumentsRecorded' /\ RecordsPoint'
    BY <1>11, NamesStay DEF IInv, DocumentsRecorded, RecordsPoint
  <2> QED
    BY <2>1, <2>3, <2>4 DEF IInv
<1>12. ASSUME NEW u \in Actors, Withdraw(u) \/ Restore(u) PROVE IInv'
  BY <1>0, <1>11, <1>12 DEF Withdraw, Restore, CommandTypeOK
<1>13. CASE UNCHANGED vars
  BY <1>0, <1>11, <1>13 DEF vars, CommandTypeOK
<1> QED
  BY <1>1, <1>2, <1>3, <1>4, <1>5, <1>6, <1>7, <1>8, <1>9, <1>10, <1>12, <1>13 DEF Next, Serve

(* The types of the state hold in every behaviour.                             *)
THEOREM CommandTypesAlways == Spec => []CommandTypeOK
<1>1. IInv => CommandTypeOK
  BY DEF IInv
<1> QED
  BY <1>1, InitIInv, NextIInv, PTL DEF Spec

(* What a command is held to is what its digest says.                          *)
LEMMA AskedIsDigest == ASSUME NEW c PROVE Asked(c) = Digest(c)
  BY DEF Asked, Digest

(* Without a new document nothing more is made, and without a new answer       *)
(* nobody is told more.                                                        *)
LEMMA MadeStays == UNCHANGED <<helper, documents>> => UNCHANGED Made
<1> SUFFICES ASSUME UNCHANGED <<helper, documents>> PROVE Made' = Made
  OBVIOUS
<1>1. \A c : Id(c)' = Id(c) /\ Asked(c)' = Asked(c)
  BY DEF Id, Asked
<1>2. \A i : DocumentsUnder(i)' = DocumentsUnder(i)
  BY <1>1 DEF DocumentsUnder, Id
<1> QED
  BY <1>1, <1>2 DEF Made, Asked

LEMMA ToldStays == UNCHANGED <<helper, heard>> => UNCHANGED Told
  BY DEF Told, Id, Asked

(* A commit decides the value of its name, which had none.                     *)
LEMMA CommitDecides ==
    ASSUME IInv, NEW a \in Attempts, NEW d \in Documents, Commit(a, d)
    PROVE  Once!Decide(Id(a[1]), <<Asked(a[1]), d>>)
<1> DEFINE c == a[1]
           n == Id(c)
<1>1. /\ at[a] = "written" /\ documents[d] = None
      /\ documents' = [documents EXCEPT ![d] = c]
      /\ UNCHANGED <<helper, heard>>
  BY DEF Commit
<1>2. c \in Commands /\ n \in Ids /\ c # None
  BY AttemptTypes, IdTypes, NoneAssumption
<1>3. records[n] = None
  BY <1>1 DEF IInv, FreshIsAbsent, Attempt
<1>4. DocumentsUnder(n) = {}
  <2> SUFFICES ASSUME NEW e \in Documents, documents[e] # None, Id(documents[e]) = n PROVE FALSE
    BY DEF DocumentsUnder
  <2>1. documents[e] \in Commands
    BY DEF IInv, CommandTypeOK
  <2>2. records[n] = [digest |-> Digest(documents[e]), response |-> e]
    BY DEF IInv, DocumentsRecorded
  <2> QED
    BY <2>1, <2>2, <1>3, RecordIsSome
<1>5. Made[n] = {}
  BY <1>2, <1>4 DEF Made
<1>6. \A x : Id(x)' = Id(x) /\ Asked(x)' = Asked(x)
  BY <1>1 DEF Id, Asked
<1>7. documents'[d] = c /\ \A e \in Documents : e # d => documents'[e] = documents[e]
  BY <1>1 DEF IInv, CommandTypeOK
<1> DEFINE U(i) == {e \in Documents : documents'[e] # None /\ Id(documents'[e]) = i}
           V(e) == <<Asked(documents'[e]), e>>
<1>8. U(n) = {d}
  <2>1. \A e \in Documents : e # d => ~(documents[e] # None /\ Id(documents[e]) = n)
    BY <1>4 DEF DocumentsUnder
  <2> QED
    BY <2>1, <1>2, <1>7
<1>9. \A i \in Ids : i # n => U(i) = DocumentsUnder(i)
  BY <1>1, <1>7 DEF DocumentsUnder
<1>10. Made' = [i \in Ids |-> {V(e) : e \in U(i)}]
  BY <1>1 DEF Made, DocumentsUnder, Id, Asked
<1>11. Made'[n] = {<<Asked(c), d>>}
  <2>1. V(d) = <<Asked(c), d>>
    BY <1>7
  <2> HIDE DEF U, V
  <2>2. Made'[n] = {V(e) : e \in U(n)}
    BY <1>2, <1>10
  <2> QED
    BY <2>1, <2>2, <1>8
<1>12. ASSUME NEW i \in Ids, i # n PROVE Made'[i] = Made[i]
  <2>1. Made'[i] = {V(e) : e \in DocumentsUnder(i)}
    BY <1>9, <1>10, <1>12
  <2>2. \A e \in DocumentsUnder(i) : documents'[e] = documents[e]
    BY <1>1, <1>7 DEF DocumentsUnder
  <2>3. Made[i] = {<<Asked(documents[e]), e>> : e \in DocumentsUnder(i)}
    BY DEF Made
  <2> QED
    BY <2>1, <2>2, <2>3
<1>13. Made' = [Made EXCEPT ![n] = {<<Asked(c), d>>}]
  BY <1>10, <1>11, <1>12, <1>2 DEF Made
<1> QED
  BY <1>1, <1>5, <1>13, ToldStays DEF Once!Decide

(* Whoever hears, hears what is made under the command's name.                 *)
LEMMA HearTells ==
    ASSUME IInv, NEW a \in Attempts, Hear(a)
    PROVE  /\ answer[a] \in Documents
           /\ Once!Tell(Id(a[1]), <<Asked(a[1]), answer[a]>>)
<1> DEFINE c == a[1]
           d == answer[a]
<1>1. /\ at[a] = "done" /\ heard' = heard \cup {<<c, d>>}
      /\ UNCHANGED <<helper, documents>>
  BY DEF Hear
<1>2. /\ d \in Documents /\ records[Id(c)] = [digest |-> Digest(c), response |-> d]
  BY <1>1 DEF IInv, AnswersAreRecorded, Attempt
<1>3. c \in Commands /\ Id(c) \in Ids /\ records[Id(c)] # None
  BY <1>2, AttemptTypes, IdTypes, RecordIsSome
<1>4. /\ documents[d] # None /\ Id(documents[d]) = Id(c) /\ Digest(documents[d]) = Digest(c)
  BY <1>2, <1>3 DEF IInv, RecordsPoint
<1>5. <<Asked(c), d>> \in Made[Id(c)]
  BY <1>2, <1>3, <1>4, AskedIsDigest DEF Made, DocumentsUnder
<1>6. Told' = Told \cup {<<Id(c), <<Asked(c), d>>>>}
  <2> DEFINE T(h) == <<Id(h[1]), <<Asked(h[1]), h[2]>>>>
  <2>1. Told = {T(h) : h \in heard}
    BY DEF Told
  <2>2. Told' = {T(h) : h \in heard'}
    BY <1>1 DEF Told, Id, Asked
  <2>3. T(<<c, d>>) = <<Id(c), <<Asked(c), d>>>>
    OBVIOUS
  <2> HIDE DEF T
  <2> QED
    BY <2>1, <2>2, <2>3, <1>1
<1> QED
  BY <1>1, <1>2, <1>5, <1>6, MadeStays DEF Once!Tell

(* The idempotency code implements the write-once register: for every key one  *)
(* document, and one answer to everyone who asks for it.                       *)
THEOREM CommandsImplementWriteOnce == Spec => ImplementsWriteOnce
<1>1. Init => Once!Init
  <2> SUFFICES ASSUME Init PROVE Once!Init
    OBVIOUS
  <2>1. heard = {} /\ \A d \in Documents : documents[d] = None
    BY DEF Init
  <2>2. Told = {}
    BY <2>1 DEF Told
  <2>3. \A i \in Ids : DocumentsUnder(i) = {}
    BY <2>1 DEF DocumentsUnder
  <2>4. Made = [i \in Ids |-> {}]
    BY <2>3 DEF Made
  <2> QED
    BY <2>2, <2>4 DEF Once!Init
<1>2. IInv /\ [Next]_vars => [Once!Next]_<<Made, Told>>
  <2> SUFFICES ASSUME IInv, [Next]_vars PROVE [Once!Next]_<<Made, Told>>
    OBVIOUS
  <2>1. ASSUME NEW a \in Attempts, NEW d \in Documents, Commit(a, d) PROVE Once!Next
    <3>1. Once!Decide(Id(a[1]), <<Asked(a[1]), d>>)
      BY <2>1, CommitDecides
    <3>2. Id(a[1]) \in Ids /\ Asked(a[1]) \in Digests
      BY AttemptTypes, IdTypes, DigestTypes, AskedIsDigest
    <3> QED
      BY <3>1, <3>2 DEF Once!Next
  <2>2. ASSUME NEW a \in Attempts, Hear(a) PROVE Once!Next
    <3>1. answer[a] \in Documents /\ Once!Tell(Id(a[1]), <<Asked(a[1]), answer[a]>>)
      BY <2>2, HearTells
    <3>2. Id(a[1]) \in Ids /\ Asked(a[1]) \in Digests
      BY AttemptTypes, IdTypes, DigestTypes, AskedIsDigest
    <3> QED
      BY <3>1, <3>2 DEF Once!Next
  <2>3. ASSUME UNCHANGED <<helper, documents, heard>> PROVE UNCHANGED <<Made, Told>>
    BY <2>3, MadeStays, ToldStays
  <2>4. ASSUME NEW a \in Attempts,
               Send(a) \/ TakeLock(a) \/ Replay(a) \/ Refuse(a) \/ Insert(a) \/ Work(a)
                  \/ RollBack(a) \/ Lose(a)
        PROVE  UNCHANGED <<Made, Told>>
    BY <2>3, <2>4 DEF Send, TakeLock, Replay, Refuse, Insert, Work, RollBack, Lose
  <2>5. ASSUME Crash \/ (\E u \in Actors : Withdraw(u) \/ Restore(u)) \/ UNCHANGED vars
        PROVE  UNCHANGED <<Made, Told>>
    BY <2>3, <2>5 DEF Crash, Withdraw, Restore, vars
  <2> QED
    BY <2>1, <2>2, <2>4, <2>5 DEF Next, Serve
<1> QED
  BY <1>1, <1>2, InitIInv, NextIInv, PTL DEF Spec, ImplementsWriteOnce, Once!Spec

-------------------------------------------------------------------------------
(* A reversal and the outcomes of bank instructions, with their reads and  *)
(* locks as steps, do what they would do one after the other.              *)

\* The invariant holds when no command is under way.
LEMMA RaceStarts == RaceInit => RaceInvariant
  <1> SUFFICES ASSUME RaceInit PROVE RaceInvariant  OBVIOUS
  <1>1. Kinds  BY DEF RaceInit, Kinds, Idle, Outcomes, Negative
  <1>2. \A a \in Racers : task[a].step = "idle"  BY DEF RaceInit, Idle
  <1>3. ReversalsHold  BY <1>2 DEF ReversalsHold, Racers
  <1>4. OutcomesHold  BY <1>2 DEF OutcomesHold, Racers
  <1>5. NegativeIsCorrected  BY DEF RaceInit, NegativeIsCorrected, Negative
  <1> QED  BY <1>1, <1>3, <1>4, <1>5 DEF RaceInvariant

\* A command that ends leaves the locks of all others as they are.
LEMMA EndKeeps ==
  ASSUME RaceInvariant, NEW a \in Racers, End(a)
  PROVE  /\ task' \in [Racers -> [step : {"idle", "asked", "locked", "read", "checked"}, match : Nat,
                                  line : Lines \cup {Nobody}, outcome : Outcomes \cup {Nobody}]]
         /\ lineLock' \in [Lines -> Racers \cup {Nobody}]
         /\ task'[a] = Idle
         /\ \A b \in Racers \ {a} :
              /\ task'[b] = task[b]
              /\ paymentLock = b => paymentLock' = b
              /\ \A l \in Lines : lineLock[l] = b => lineLock'[l] = b
  BY DEF RaceInvariant, Kinds, End, Idle

\* A refused or failing command leaves what is committed, and so the invariant.
LEMMA RefuseKeeps ==
  ASSUME RaceInvariant, NEW a \in Racers, GiveUp(a)
  PROVE  RaceInvariant'
  <1> USE DEF RaceInvariant
  <1>1. End(a) /\ payment' = payment /\ instruction' = instruction  BY DEF GiveUp
  <1>2. Kinds'  BY <1>1, EndKeeps DEF Kinds
  <1>3. ReversalsHold'
    <2> SUFFICES ASSUME NEW r \in Reversers, task'[r].step \in {"locked", "read"}
                 PROVE  paymentLock' = r /\ ~payment'.reversed
      BY DEF ReversalsHold
    <2>1. r # a /\ r \in Racers  BY <1>1, EndKeeps DEF Idle, Racers
    <2> QED  BY <1>1, <2>1, EndKeeps DEF ReversalsHold
  <1>4. OutcomesHold'
    <2> SUFFICES ASSUME NEW c \in Clerks, task'[c].step # "idle"
                 PROVE  /\ task'[c].step # "read"
                        /\ task'[c].line \in Lines /\ task'[c].outcome \in Outcomes
                        /\ task'[c].step \in {"locked", "checked"} =>
                             /\ lineLock'[task'[c].line] = c
                             /\ transition(instruction'[task'[c].line].state, task'[c].outcome)
                        /\ task'[c].step = "checked" => payment'.reversed
      BY DEF OutcomesHold
    <2>1. c # a /\ c \in Racers  BY <1>1, EndKeeps DEF Idle, Racers
    <2>2. task'[c] = task[c] /\ \A l \in Lines : lineLock[l] = c => lineLock'[l] = c
      BY <1>1, <2>1, EndKeeps
    <2> QED  BY <1>1, <2>2 DEF OutcomesHold
  <1>5. NegativeIsCorrected'  BY <1>1 DEF NegativeIsCorrected
  <1> QED  BY <1>2, <1>3, <1>4, <1>5

\* Asking for a command takes no lock and changes nothing that is committed.
LEMMA AskKeeps ==
  ASSUME RaceInvariant, NEW a \in Racers, At(a, "idle"),
         UNCHANGED <<payment, instruction, paymentLock, shares, lineLock>>,
         NEW t \in [step : {"asked"}, match : Nat, line : Lines \cup {Nobody}, outcome : Outcomes \cup {Nobody}],
         a \in Clerks => t.line \in Lines /\ t.outcome \in Outcomes,
         task' = [task EXCEPT ![a] = t]
  PROVE  RaceInvariant'
  <1> USE DEF RaceInvariant
  <1>1. task' \in [Racers -> [step : {"idle", "asked", "locked", "read", "checked"}, match : Nat,
                             line : Lines \cup {Nobody}, outcome : Outcomes \cup {Nobody}]]
    BY DEF Kinds
  <1>2. task'[a] = t /\ \A b \in Racers \ {a} : task'[b] = task[b]
    BY DEF Kinds
  <1>3. Kinds'  BY <1>1 DEF Kinds
  <1>4. ReversalsHold'  BY <1>2 DEF ReversalsHold, Racers
  <1>5. OutcomesHold'  BY <1>2 DEF OutcomesHold, Racers
  <1>6. NegativeIsCorrected'  BY DEF NegativeIsCorrected
  <1> QED  BY <1>3, <1>4, <1>5, <1>6

\* A step of one command keeps the kind of its record and the others' records.
LEMMA GotoMoves ==
  ASSUME Kinds, NEW a \in Racers, NEW step \in {"locked", "read", "checked"}, Goto(a, step)
  PROVE  /\ task' \in [Racers -> [step : {"idle", "asked", "locked", "read", "checked"}, match : Nat,
                                  line : Lines \cup {Nobody}, outcome : Outcomes \cup {Nobody}]]
         /\ task'[a].step = step /\ task'[a].line = task[a].line /\ task'[a].outcome = task[a].outcome
         /\ \A b \in Racers \ {a} : task'[b] = task[b]
  <1>1. task' = [task EXCEPT ![a].step = step]  BY DEF Goto
  <1>2. task \in [Racers -> [step : {"idle", "asked", "locked", "read", "checked"}, match : Nat,
                             line : Lines \cup {Nobody}, outcome : Outcomes \cup {Nobody}]]
    BY DEF Kinds
  <1>3. PICK t : t = [task[a] EXCEPT !.step = step]  OBVIOUS
  <1>4. /\ t \in [step : {"idle", "asked", "locked", "read", "checked"}, match : Nat,
                  line : Lines \cup {Nobody}, outcome : Outcomes \cup {Nobody}]
        /\ t.step = step /\ t.line = task[a].line /\ t.outcome = task[a].outcome
    BY <1>2, <1>3
  <1>5. task' = [task EXCEPT ![a] = t]  BY <1>1, <1>3
  <1>6. task'[a] = t /\ \A b \in Racers \ {a} : task'[b] = task[b]  BY <1>2, <1>5
  <1>7. task' \in [Racers -> [step : {"idle", "asked", "locked", "read", "checked"}, match : Nat,
                             line : Lines \cup {Nobody}, outcome : Outcomes \cup {Nobody}]]
    BY <1>2, <1>4, <1>5
  <1> QED  BY <1>4, <1>6, <1>7

\* The rest of the state keeps its kind where it does not change, or a line is locked.
LEMMA KindsKept ==
  ASSUME Kinds, UNCHANGED <<payment, instruction>>,
         lineLock' \in [Lines -> Racers \cup {Nobody}],
         task' \in [Racers -> [step : {"idle", "asked", "locked", "read", "checked"}, match : Nat,
                              line : Lines \cup {Nobody}, outcome : Outcomes \cup {Nobody}]]
  PROVE  Kinds'
  BY DEF Kinds

\* A reversal that gets its lock, or has read, holds an unreversed payment.
LEMMA ReversalKeeps ==
  ASSUME RaceInvariant, NEW r \in Reversers, Reversal(r)
  PROVE  RaceInvariant'
  <1> USE DEF RaceInvariant
  <1>a. r \in Racers /\ r \notin Clerks  BY RaceAssumption DEF Racers
  <1>1. CASE AskReversal(r)
    <2> DEFINE t == [Idle EXCEPT !.step = "asked", !.match = payment.version]
    <2>1. t \in [step : {"asked"}, match : Nat, line : Lines \cup {Nobody}, outcome : Outcomes \cup {Nobody}]
      BY DEF Kinds, Idle
    <2> QED  BY <1>1, <1>a, <2>1, AskKeeps DEF AskReversal
  <1>2. CASE lockPayment(r) /\ ~GiveUp(r)
    <2>1. /\ Goto(r, "locked") /\ paymentLock' = r
          /\ UNCHANGED <<payment, instruction, shares, lineLock>>
          /\ paymentLock = Nobody /\ ~payment.reversed
      BY <1>2 DEF lockPayment
    <2>2. Kinds'
      <3>1. lineLock' \in [Lines -> Racers \cup {Nobody}]  BY <2>1 DEF Kinds
      <3> HIDE DEF RaceInvariant
      <3>2. Kinds  BY DEF RaceInvariant
      <3> QED  BY <2>1, <1>a, <3>1, <3>2, GotoMoves, KindsKept
    <2>3. \A b \in Racers \ {r} : task'[b] = task[b]  BY <2>1, <1>a, GotoMoves
    <2>4. ReversalsHold'
      BY <2>1, <2>3, RaceAssumption DEF ReversalsHold, Racers
    <2>5. OutcomesHold'  BY <2>1, <2>3, <1>a DEF OutcomesHold, Racers
    <2> QED  BY <2>1, <2>2, <2>4, <2>5 DEF NegativeIsCorrected
  <1>3. CASE effects(r) /\ ~GiveUp(r)
    <2>1. /\ Goto(r, "read") /\ At(r, "locked")
          /\ UNCHANGED <<payment, instruction, paymentLock, shares, lineLock>>
      BY <1>3 DEF effects
    <2>2. Kinds'
      <3>1. lineLock' \in [Lines -> Racers \cup {Nobody}]  BY <2>1 DEF Kinds
      <3> HIDE DEF RaceInvariant
      <3>2. Kinds  BY DEF RaceInvariant
      <3> QED  BY <2>1, <1>a, <3>1, <3>2, GotoMoves, KindsKept
    <2>3. \A b \in Racers \ {r} : task'[b] = task[b]  BY <2>1, <1>a, GotoMoves
    <2>4. ReversalsHold'  BY <2>1, <2>3 DEF ReversalsHold, Racers, At
    <2>5. OutcomesHold'  BY <2>1, <2>3, <1>a DEF OutcomesHold, Racers
    <2> QED  BY <2>1, <2>2, <2>4, <2>5 DEF NegativeIsCorrected
  <1>4. CASE completeReversal(r)
    <2>1. /\ End(r) /\ At(r, "read") /\ UNCHANGED instruction
          /\ payment' = [reversed |-> TRUE, version |-> payment.version + 1]
      BY <1>4 DEF completeReversal
    <2>2. Kinds'  BY <2>1, <1>a, EndKeeps DEF Kinds
    <2>3. paymentLock = r  BY <2>1 DEF ReversalsHold, At
    <2>4. ReversalsHold'
      <3> SUFFICES ASSUME NEW q \in Reversers, task'[q].step \in {"locked", "read"} PROVE FALSE
        BY DEF ReversalsHold
      <3>1. q # r /\ q \in Racers  BY <1>a, <2>1, EndKeeps DEF Idle, Racers
      <3>2. task'[q] = task[q]  BY <1>a, <2>1, <3>1, EndKeeps
      <3> QED  BY <2>3, <3>1, <3>2 DEF ReversalsHold
    <2>5. OutcomesHold'
      <3> SUFFICES ASSUME NEW c \in Clerks
                   PROVE  /\ task'[c] = task[c]
                          /\ \A l \in Lines : lineLock[l] = c => lineLock'[l] = c
        BY <2>1 DEF OutcomesHold
      <3> QED  BY <1>a, <2>1, EndKeeps DEF Racers
    <2> QED  BY <2>1, <2>2, <2>4, <2>5 DEF NegativeIsCorrected
  <1> QED  BY <1>1, <1>2, <1>3, <1>4, <1>a, RefuseKeeps DEF Reversal

\* An outcome goes on from an instruction that is its own, and a negative one only
\* when the payment is reversed, which it stays.
LEMMA OutcomeKeeps ==
  ASSUME RaceInvariant, NEW c \in Clerks, Outcome(c)
  PROVE  RaceInvariant'
  <1> USE DEF RaceInvariant
  <1> DEFINE l == task[c].line
  <1>a. c \in Racers /\ c \notin Reversers  BY RaceAssumption DEF Racers
  <1>1. ASSUME NEW k \in Lines, NEW outcome \in Outcomes, AskOutcome(c, k, outcome)
        PROVE  RaceInvariant'
    <2> DEFINE t == [step |-> "asked", match |-> instruction[k].version, line |-> k, outcome |-> outcome]
    <2>1. t \in [step : {"asked"}, match : Nat, line : Lines \cup {Nobody}, outcome : Outcomes \cup {Nobody}]
      BY DEF Kinds
    <2> QED  BY <1>1, <1>a, <2>1, AskKeeps DEF AskOutcome
  <1>2. CASE lockInstruction(c) /\ ~GiveUp(c)
    <2>1. /\ task' = [task EXCEPT ![c].step = "locked"] /\ At(c, "asked")
          /\ lineLock' = [lineLock EXCEPT ![l] = c] /\ lineLock[l] = Nobody
          /\ transition(instruction[l].state, task[c].outcome)
          /\ UNCHANGED <<payment, instruction, paymentLock, shares>>
      BY <1>2 DEF lockInstruction, Goto
    <2>2. l \in Lines /\ task[c].outcome \in Outcomes  BY <2>1 DEF OutcomesHold, At
    <2>3. Kinds'
      <3>1. lineLock' \in [Lines -> Racers \cup {Nobody}]  BY <2>1, <1>a DEF Kinds
      <3>2. task' \in [Racers -> [step : {"idle", "asked", "locked", "read", "checked"}, match : Nat,
                                 line : Lines \cup {Nobody}, outcome : Outcomes \cup {Nobody}]]
        BY <2>1, <1>a DEF Kinds
      <3> QED  BY <2>1, <3>1, <3>2 DEF Kinds
    <2>4. \A b \in Racers \ {c} : task'[b] = task[b]  BY <2>1 DEF Kinds
    <2>5. ReversalsHold'  BY <2>1, <2>4, <1>a DEF ReversalsHold, Racers
    <2>6. task'[c] = [task[c] EXCEPT !.step = "locked"] /\ lineLock'[l] = c
      BY <2>1, <2>2, <1>a DEF Kinds
    <2>7. \A b \in Racers, k \in Lines : lineLock[k] = b => lineLock'[k] = b
      BY <2>1, RaceAssumption DEF Kinds
    <2>8. ASSUME NEW d \in Clerks
          PROVE  /\ task'[d].step # "read"
                 /\ task'[d].step # "idle" => task'[d].line \in Lines /\ task'[d].outcome \in Outcomes
                 /\ task'[d].step \in {"locked", "checked"} =>
                      /\ lineLock'[task'[d].line] = d
                      /\ transition(instruction'[task'[d].line].state, task'[d].outcome)
                 /\ task'[d].step = "checked" => payment'.reversed
      <3>1. CASE d = c
        <4>1. task'[c].line = l /\ task'[c].outcome = task[c].outcome /\ task'[c].step = "locked"
          BY <2>6, <1>a DEF Kinds
        <4> QED  BY <3>1, <4>1, <2>1, <2>2, <2>6
      <3>2. CASE d # c
        <4>1. task'[d] = task[d] /\ d \in Racers  BY <3>2, <2>4 DEF Racers
        <4> QED  BY <4>1, <2>1, <2>7 DEF OutcomesHold
      <3> QED  BY <3>1, <3>2
    <2>9. OutcomesHold'  BY <2>8 DEF OutcomesHold
    <2> QED  BY <2>1, <2>3, <2>5, <2>9 DEF NegativeIsCorrected
  <1>3. CASE correctionValid(c) /\ ~GiveUp(c)
    <2>1. /\ Goto(c, "checked") /\ At(c, "locked")
          /\ payment.reversed
          /\ UNCHANGED <<payment, instruction, paymentLock, lineLock>>
      BY <1>3 DEF correctionValid
    <2>2. Kinds'
      <3>1. lineLock' \in [Lines -> Racers \cup {Nobody}]  BY <2>1 DEF Kinds
      <3> HIDE DEF RaceInvariant
      <3>2. Kinds  BY DEF RaceInvariant
      <3> QED  BY <2>1, <1>a, <3>1, <3>2, GotoMoves, KindsKept
    <2>3. \A b \in Racers \ {c} : task'[b] = task[b]  BY <2>1, <1>a, GotoMoves
    <2>4. ReversalsHold'  BY <2>1, <2>3, <1>a DEF ReversalsHold, Racers
    <2>5. /\ task'[c].line = l /\ task'[c].outcome = task[c].outcome
          /\ task'[c].step = "checked"
      BY <2>1, <1>a, GotoMoves
    <2>6. OutcomesHold'  BY <2>1, <2>3, <2>5 DEF OutcomesHold, Racers, At
    <2> QED  BY <2>1, <2>2, <2>4, <2>6 DEF NegativeIsCorrected
  <1>4. CASE record(c)
    <2>1. /\ At(c, "checked") \/ (At(c, "locked") /\ task[c].outcome = "CONFIRMED")
          /\ instruction' = [instruction EXCEPT ![l] = [state |-> task[c].outcome, version |-> @.version + 1]]
          /\ End(c) /\ payment' = payment
      BY <1>4 DEF record
    <2>2. l \in Lines /\ task[c].outcome \in Outcomes /\ lineLock[l] = c
      BY <2>1 DEF OutcomesHold, At
    <2>3. Kinds'  BY <2>1, <2>2, <1>a, EndKeeps DEF Kinds
    <2>4. ReversalsHold'
      <3> SUFFICES ASSUME NEW r \in Reversers
                   PROVE  task'[r] = task[r] /\ (paymentLock = r => paymentLock' = r)
        BY <2>1 DEF ReversalsHold
      <3> QED  BY <1>a, <2>1, EndKeeps DEF Racers
    <2>5. OutcomesHold'
      <3> SUFFICES ASSUME NEW d \in Clerks, task'[d].step # "idle"
                   PROVE  /\ task'[d] = task[d]
                          /\ task[d].line \in Lines /\ lineLock[task[d].line] = d =>
                               /\ lineLock'[task[d].line] = d
                               /\ instruction'[task[d].line] = instruction[task[d].line]
        BY <1>a, <2>1, EndKeeps DEF OutcomesHold, Idle
      <3>1. d # c /\ d \in Racers  BY <1>a, <2>1, EndKeeps DEF Idle, Racers
      <3>2. task'[d] = task[d]  BY <1>a, <2>1, <3>1, EndKeeps
      <3>3. ASSUME task[d].line \in Lines, lineLock[task[d].line] = d
            PROVE  /\ lineLock'[task[d].line] = d
                   /\ instruction'[task[d].line] = instruction[task[d].line]
        BY <1>a, <2>1, <2>2, <3>1, <3>3, EndKeeps DEF Kinds
      <3> QED  BY <3>2, <3>3
    <2>6. NegativeIsCorrected'
      <3>1. task[c].outcome \in Negative => payment.reversed
        BY <2>1 DEF OutcomesHold, At, Negative
      <3> QED  BY <2>1, <2>2, <3>1 DEF NegativeIsCorrected, Kinds
    <2> QED  BY <2>3, <2>4, <2>5, <2>6
  <1> QED  BY <1>1, <1>2, <1>3, <1>4, <1>a, RefuseKeeps DEF Outcome

\* Every step of the race keeps the invariant.
LEMMA RaceStep == RaceInvariant /\ [RaceNext]_raceVars => RaceInvariant'
  <1> SUFFICES ASSUME RaceInvariant, [RaceNext]_raceVars PROVE RaceInvariant'  OBVIOUS
  <1>1. CASE UNCHANGED raceVars
    BY <1>1 DEF raceVars, RaceInvariant, Kinds, ReversalsHold, OutcomesHold, NegativeIsCorrected
  <1>2. ASSUME NEW r \in Reversers, Reversal(r) PROVE RaceInvariant'  BY <1>2, ReversalKeeps
  <1>3. ASSUME NEW c \in Clerks, Outcome(c) PROVE RaceInvariant'  BY <1>3, OutcomeKeeps
  <1>4. ASSUME NEW a \in Racers, Fail(a) PROVE RaceInvariant'  BY <1>4, RefuseKeeps DEF Fail
  <1> QED  BY <1>1, <1>2, <1>3, <1>4 DEF RaceNext

\* A negative outcome never comes before the reversal it refers to
\* (bank-instruction-outcome.repository.ts:216).
THEOREM NegativesCorrected == RaceSpec => []NegativeIsCorrected
  <1>1. RaceInvariant => NegativeIsCorrected  BY DEF RaceInvariant
  <1> QED  BY <1>1, RaceStarts, RaceStep, PTL DEF RaceSpec

\* Lines are locked by clerks past their lock, versions count what has been recorded,
\* and nobody shares a payment that a reversal holds.
LinesHeld ==
  \A l \in Lines : lineLock[l] # Nobody =>
    lineLock[l] \in Clerks /\ task[lineLock[l]].step \in {"locked", "checked"}
Recorded(s) ==
  IF s = "PENDING_CONFIRMATION" THEN 0 ELSE IF s = "RETURNED" THEN 2 ELSE 1
VersionsCount ==
  /\ payment.version = IF payment.reversed THEN 1 ELSE 0
  /\ \A l \in Lines : instruction[l].version = Recorded(instruction[l].state)
SharedOrHeld == paymentLock # Nobody => shares = {}

RaceLocks == RaceInvariant /\ LinesHeld /\ VersionsCount /\ SharedOrHeld

LEMMA RaceTyped == ASSUME RaceLocks PROVE RaceTypeOK
  <1>1. \A l \in Lines : instruction[l].state \in Outcomes \cup {"PENDING_CONFIRMATION"}
    BY DEF RaceLocks, RaceInvariant, Kinds
  <1>2. \A l \in Lines : instruction[l].version \in 0..2
    BY DEF RaceLocks, VersionsCount, Recorded
  <1>3. payment.reversed \in BOOLEAN /\ payment.version \in 0..1 /\ (payment.reversed <=> payment.version = 1)
    BY DEF RaceLocks, RaceInvariant, Kinds, VersionsCount
  <1> QED
    BY <1>1, <1>2, <1>3
    DEF RaceTypeOK, RaceLocks, RaceInvariant, LinesHeld, SharedOrHeld, ReversalsHold

LEMMA RaceLocksStart == RaceInit => RaceLocks
  BY RaceStarts DEF RaceInit, RaceLocks, LinesHeld, VersionsCount, Recorded, SharedOrHeld

\* A command that ends gives up its line, and shares nothing.
LEMMA EndUnlocks ==
  ASSUME RaceLocks, NEW a \in Racers, End(a)
  PROVE  LinesHeld' /\ SharedOrHeld'
  <1>1. ASSUME NEW l \in Lines, lineLock'[l] # Nobody
        PROVE  lineLock'[l] \in Clerks /\ task'[lineLock'[l]].step \in {"locked", "checked"}
    <2>1. lineLock'[l] = lineLock[l] /\ lineLock[l] # a  BY <1>1 DEF End
    <2>2. lineLock[l] \in Clerks /\ task[lineLock[l]].step \in {"locked", "checked"}
      BY <1>1, <2>1 DEF RaceLocks, LinesHeld
    <2>3. task'[lineLock[l]] = task[lineLock[l]]
      BY <2>1, <2>2, EndKeeps DEF RaceLocks, Racers
    <2> QED  BY <2>1, <2>2, <2>3
  <1>2. paymentLock' # Nobody => shares' = {}  BY DEF End, RaceLocks, SharedOrHeld
  <1> QED  BY <1>1, <1>2 DEF LinesHeld, SharedOrHeld

\* A command that has not taken its lock, or is not a clerk's, moves no line.
LEMMA OthersMove ==
  ASSUME LinesHeld, NEW a, \A l \in Lines : lineLock[l] # a \/ lineLock[l] = Nobody,
         lineLock' = lineLock, \A b \in Racers \ {a} : task'[b] = task[b]
  PROVE  LinesHeld'
  <1>1. ASSUME NEW l \in Lines, lineLock[l] # Nobody
        PROVE  task'[lineLock[l]] = task[lineLock[l]]
    BY <1>1 DEF LinesHeld, Racers
  <1> QED  BY <1>1 DEF LinesHeld

LEMMA RefuseTyped ==
  ASSUME RaceLocks, NEW a \in Racers, GiveUp(a)
  PROVE  LinesHeld' /\ VersionsCount' /\ SharedOrHeld'
  <1>1. LinesHeld' /\ SharedOrHeld'  BY EndUnlocks DEF GiveUp
  <1> QED  BY <1>1 DEF GiveUp, RaceLocks, VersionsCount

LEMMA ReversalTyped ==
  ASSUME RaceLocks, NEW r \in Reversers, Reversal(r)
  PROVE  LinesHeld' /\ VersionsCount' /\ SharedOrHeld'
  <1>a. r \in Racers /\ r \notin Clerks  BY RaceAssumption DEF Racers
  <1>b. RaceInvariant /\ Kinds /\ LinesHeld /\ VersionsCount /\ SharedOrHeld
    BY DEF RaceLocks, RaceInvariant
  <1>c. \A l \in Lines : lineLock[l] # r \/ lineLock[l] = Nobody  BY <1>a, <1>b DEF LinesHeld
  <1>1. CASE AskReversal(r)
    <2>1. /\ UNCHANGED <<payment, instruction, paymentLock, shares, lineLock>>
          /\ \A b \in Racers \ {r} : task'[b] = task[b]
      BY <1>1, <1>a, <1>b DEF AskReversal, Kinds
    <2>2. LinesHeld'  BY <1>b, <1>c, <2>1, OthersMove
    <2> QED  BY <1>b, <2>1, <2>2 DEF VersionsCount, SharedOrHeld
  <1>2. CASE lockPayment(r) /\ ~GiveUp(r)
    <2>1. /\ Goto(r, "locked") /\ shares = {} /\ shares' = shares
          /\ UNCHANGED <<payment, instruction, lineLock>>
      BY <1>2 DEF lockPayment
    <2>2. \A b \in Racers \ {r} : task'[b] = task[b]  BY <1>a, <1>b, <2>1, GotoMoves
    <2>3. LinesHeld'  BY <1>b, <1>c, <2>1, <2>2, OthersMove
    <2> QED  BY <1>b, <2>1, <2>3 DEF VersionsCount, SharedOrHeld
  <1>3. CASE effects(r) /\ ~GiveUp(r)
    <2>1. Goto(r, "read") /\ UNCHANGED <<payment, instruction, paymentLock, shares, lineLock>>
      BY <1>3 DEF effects
    <2>2. \A b \in Racers \ {r} : task'[b] = task[b]  BY <1>a, <1>b, <2>1, GotoMoves
    <2>3. LinesHeld'  BY <1>b, <1>c, <2>1, <2>2, OthersMove
    <2> QED  BY <1>b, <2>1, <2>3 DEF VersionsCount, SharedOrHeld
  <1>4. CASE completeReversal(r)
    <2>1. /\ End(r) /\ At(r, "read") /\ UNCHANGED instruction
          /\ payment' = [reversed |-> TRUE, version |-> payment.version + 1]
      BY <1>4 DEF completeReversal
    <2>2. ~payment.reversed  BY <1>b, <2>1 DEF RaceInvariant, ReversalsHold, At
    <2>3. payment'.version = 1 /\ payment'.reversed  BY <1>b, <2>1, <2>2 DEF VersionsCount
    <2>4. LinesHeld' /\ SharedOrHeld'  BY <1>a, <2>1, EndUnlocks
    <2> QED  BY <1>b, <2>1, <2>3, <2>4 DEF VersionsCount
  <1> QED  BY <1>1, <1>2, <1>3, <1>4, <1>a, RefuseTyped DEF Reversal

LEMMA OutcomeTyped ==
  ASSUME RaceLocks, NEW c \in Clerks, Outcome(c)
  PROVE  LinesHeld' /\ VersionsCount' /\ SharedOrHeld'
  <1> DEFINE l == task[c].line
  <1>a. c \in Racers /\ c \notin Reversers  BY RaceAssumption DEF Racers
  <1>b. RaceInvariant /\ Kinds /\ LinesHeld /\ VersionsCount /\ SharedOrHeld
    BY DEF RaceLocks, RaceInvariant
  <1>1. ASSUME NEW k \in Lines, NEW outcome \in Outcomes, AskOutcome(c, k, outcome)
        PROVE  LinesHeld' /\ VersionsCount' /\ SharedOrHeld'
    <2>1. /\ UNCHANGED <<payment, instruction, paymentLock, shares, lineLock>> /\ At(c, "idle")
          /\ \A b \in Racers \ {c} : task'[b] = task[b]
      BY <1>1, <1>a, <1>b DEF AskOutcome, Kinds
    <2>2. \A m \in Lines : lineLock[m] # c \/ lineLock[m] = Nobody
      BY <1>b, <2>1 DEF LinesHeld, At
    <2>3. LinesHeld'  BY <1>b, <2>1, <2>2, OthersMove
    <2> QED  BY <1>b, <2>1, <2>3 DEF VersionsCount, SharedOrHeld
  <1>2. CASE lockInstruction(c) /\ ~GiveUp(c)
    <2>1. /\ Goto(c, "locked") /\ At(c, "asked") /\ lineLock' = [lineLock EXCEPT ![l] = c]
          /\ UNCHANGED <<payment, instruction, paymentLock, shares>>
      BY <1>2 DEF lockInstruction
    <2>2. task'[c].step = "locked" /\ \A b \in Racers \ {c} : task'[b] = task[b]
      BY <1>a, <1>b, <2>1, GotoMoves
    <2>3. ASSUME NEW m \in Lines, lineLock'[m] # Nobody
          PROVE  lineLock'[m] \in Clerks /\ task'[lineLock'[m]].step \in {"locked", "checked"}
      <3>1. CASE lineLock'[m] = c  BY <2>2, <3>1
      <3>2. CASE lineLock'[m] # c
        <4>1. lineLock'[m] = lineLock[m]  BY <1>b, <2>1, <3>2 DEF Kinds
        <4>2. lineLock[m] \in Clerks /\ task[lineLock[m]].step \in {"locked", "checked"}
          BY <1>b, <2>3, <4>1 DEF LinesHeld
        <4> QED  BY <2>2, <3>2, <4>1, <4>2 DEF Racers
      <3> QED  BY <3>1, <3>2
    <2> QED  BY <1>b, <2>1, <2>3 DEF LinesHeld, VersionsCount, SharedOrHeld
  <1>3. CASE correctionValid(c) /\ ~GiveUp(c)
    <2>1. /\ Goto(c, "checked") /\ At(c, "locked") /\ paymentLock = Nobody
          /\ UNCHANGED <<payment, instruction, paymentLock, lineLock>>
      BY <1>3 DEF correctionValid
    <2>2. task'[c].step = "checked" /\ \A b \in Racers \ {c} : task'[b] = task[b]
      BY <1>a, <1>b, <2>1, GotoMoves
    <2>3. LinesHeld'
      <3> SUFFICES ASSUME NEW m \in Lines, lineLock[m] # Nobody
                   PROVE  lineLock[m] \in Clerks /\ task'[lineLock[m]].step \in {"locked", "checked"}
        BY <2>1 DEF LinesHeld
      <3> QED  BY <1>b, <2>2 DEF LinesHeld, Racers
    <2> QED  BY <1>b, <2>1, <2>3 DEF VersionsCount, SharedOrHeld
  <1>4. CASE record(c)
    <2> DEFINE outcome == task[c].outcome
    <2>1. /\ At(c, "checked") \/ At(c, "locked")
          /\ instruction' = [instruction EXCEPT ![l] = [state |-> outcome, version |-> @.version + 1]]
          /\ End(c) /\ payment' = payment
      BY <1>4 DEF record
    <2>2. l \in Lines /\ outcome \in Outcomes /\ transition(instruction[l].state, outcome)
      BY <1>b, <2>1 DEF RaceInvariant, OutcomesHold, At
    <2>3. /\ instruction'[l].state = outcome /\ instruction'[l].version = instruction[l].version + 1
          /\ \A m \in Lines : m # l => instruction'[m] = instruction[m]
      BY <1>b, <2>1, <2>2 DEF Kinds
    <2>4. instruction'[l].version = Recorded(outcome)
      BY <1>b, <2>2, <2>3 DEF VersionsCount, Recorded, transition, Outcomes, Negative
    <2>5. \A m \in Lines : instruction'[m].version = Recorded(instruction'[m].state)
      BY <1>b, <2>3, <2>4 DEF VersionsCount
    <2>6. LinesHeld' /\ SharedOrHeld'  BY <1>a, <2>1, EndUnlocks
    <2>7. (\A m \in Lines : instruction[m].version = Recorded(instruction[m].state))'
      BY <2>5 DEF Recorded
    <2> QED  BY <1>b, <2>1, <2>6, <2>7 DEF VersionsCount
  <1> QED  BY <1>1, <1>2, <1>3, <1>4, <1>a, RefuseTyped DEF Outcome

LEMMA RaceLocksStep == RaceLocks /\ [RaceNext]_raceVars => RaceLocks'
  <1> SUFFICES ASSUME RaceLocks, [RaceNext]_raceVars PROVE RaceLocks'  OBVIOUS
  <1>0. RaceInvariant'  BY RaceStep DEF RaceLocks
  <1>1. CASE UNCHANGED raceVars
    BY <1>0, <1>1 DEF raceVars, RaceLocks, LinesHeld, VersionsCount, Recorded, SharedOrHeld
  <1>2. ASSUME NEW r \in Reversers, Reversal(r) PROVE RaceLocks'
    BY <1>0, <1>2, ReversalTyped DEF RaceLocks
  <1>3. ASSUME NEW c \in Clerks, Outcome(c) PROVE RaceLocks'
    BY <1>0, <1>3, OutcomeTyped DEF RaceLocks
  <1>4. ASSUME NEW a \in Racers, Fail(a) PROVE RaceLocks'
    BY <1>0, <1>4, RefuseTyped DEF RaceLocks, Fail
  <1> QED  BY <1>1, <1>2, <1>3, <1>4 DEF RaceNext

\* Locks of the race are held by who may hold them, and what is recorded is counted.
THEOREM RaceTypesAlways == RaceSpec => []RaceTypeOK
  BY RaceTyped, RaceLocksStart, RaceLocksStep, PTL DEF RaceSpec

Reading == \E r \in Reversers : At(r, "read")

\* What shows depends on the instructions and on whether a reversal has read.
LEMMA ShownSame ==
  ASSUME instruction' = instruction, Reading' <=> Reading
  PROVE  Shown' = Shown
  BY DEF Shown, Overlooked, Reading

LEMMA ShownAll ==
  /\ ~Reading => Shown = [l \in Lines |-> instruction[l].state]
  /\ ~Reading' => Shown' = [l \in Lines |-> instruction'[l].state]
  BY DEF Shown, Overlooked, Reading

\* One reversal at a time has read; until it ends the payment is not reversed and
\* nothing is refuted.
LEMMA OneReader ==
  ASSUME RaceInvariant
  PROVE  /\ \A r, q \in Reversers : At(r, "read") /\ At(q, "read") => r = q
         /\ payment.reversed => ~Reading
         /\ Reading => \A l \in Lines : instruction[l].state \in {"PENDING_CONFIRMATION", "CONFIRMED"}
  BY DEF RaceInvariant, Kinds, ReversalsHold, NegativeIsCorrected, At, Outcomes, Negative, Reading

\* The end of the one reversal that has read shows the confirmations it overlooked.
LEMMA ReaderEnds ==
  ASSUME RaceInvariant, NEW r \in Reversers, At(r, "read"), End(r), instruction' = instruction
  PROVE  \E ls \in SUBSET Lines : AtOnce!Confirmed(ls)
  <1> DEFINE ls == {l \in Lines : instruction[l].state = "CONFIRMED"}
  <1>1. ~Reading'
    <2> SUFFICES ASSUME NEW q \in Reversers, At(q, "read")' PROVE FALSE  BY DEF Reading
    <2>1. q \in Racers /\ r \in Racers  BY DEF Racers
    <2>2. q # r  BY <2>1, EndKeeps DEF At, Idle
    <2>3. At(q, "read")  BY <2>1, <2>2, EndKeeps DEF At
    <2> QED  BY <2>2, <2>3, OneReader
  <1>2. Shown' = [l \in Lines |-> instruction[l].state]  BY <1>1, ShownAll
  <1>3. Shown = [l \in Lines |-> IF l \in ls THEN "PENDING_CONFIRMATION" ELSE instruction[l].state]
    BY DEF Shown, Overlooked
  <1>4. AtOnce!Confirmed(ls)  BY <1>2, <1>3 DEF AtOnce!Confirmed
  <1> QED  BY <1>4

\* A refused or failing command shows nothing or, if it was the reversal that had
\* read, confirmations.
LEMMA RefuseShows ==
  ASSUME RaceInvariant, NEW a \in Racers, GiveUp(a)
  PROVE  [AtOnce!Next]_(AtOnce!vars)
  <1>1. End(a) /\ payment' = payment /\ instruction' = instruction  BY DEF GiveUp
  <1>2. CASE a \in Reversers /\ At(a, "read")
    <2>1. AtOnce!Confirm  BY <1>1, <1>2, ReaderEnds DEF AtOnce!Confirm
    <2> QED  BY <2>1 DEF AtOnce!Next
  <1>3. CASE ~(a \in Reversers /\ At(a, "read"))
    <2>1. \A r \in Reversers : At(r, "read")' <=> At(r, "read")
      <3> SUFFICES ASSUME NEW r \in Reversers PROVE At(r, "read")' <=> At(r, "read")
        OBVIOUS
      <3>1. r \in Racers  BY DEF Racers
      <3>2. CASE r = a  BY <1>1, <1>3, <3>2, EndKeeps DEF At, Idle
      <3>3. CASE r # a  BY <1>1, <3>1, <3>3, EndKeeps DEF At
      <3> QED  BY <3>2, <3>3
    <2>2. Shown' = Shown  BY <1>1, <2>1, ShownSame DEF Reading
    <2> QED  BY <1>1, <2>2 DEF AtOnce!vars
  <1> QED  BY <1>2, <1>3

\* A reversal shows nothing before it commits, and then itself and what it overlooked.
LEMMA ReversalShows ==
  ASSUME RaceInvariant, NEW r \in Reversers, Reversal(r)
  PROVE  [AtOnce!Next]_(AtOnce!vars)
  <1>a. r \in Racers  BY DEF Racers
  <1>1. CASE AskReversal(r) \/ (lockPayment(r) /\ ~GiveUp(r))
    <2>1. /\ payment' = payment /\ instruction' = instruction
          /\ ~At(r, "read") /\ ~At(r, "read")'
          /\ \A q \in Racers \ {r} : task'[q] = task[q]
      <3>1. Kinds  BY DEF RaceInvariant
      <3>2. CASE AskReversal(r)
        <4>1. task' = [task EXCEPT ![r] = [Idle EXCEPT !.step = "asked", !.match = payment.version]]
              /\ UNCHANGED <<payment, instruction>> /\ At(r, "idle")
          BY <3>2 DEF AskReversal
        <4> QED  BY <3>1, <4>1, <1>a DEF At, Idle, Kinds
      <3>3. CASE lockPayment(r) /\ ~GiveUp(r)
        <4>1. Goto(r, "locked") /\ UNCHANGED <<payment, instruction>> /\ At(r, "asked")
          BY <3>3 DEF lockPayment
        <4>2. task'[r].step = "locked" /\ \A q \in Racers \ {r} : task'[q] = task[q]
          BY <3>1, <4>1, <1>a, GotoMoves
        <4> QED  BY <4>1, <4>2 DEF At
      <3> QED  BY <1>1, <3>2, <3>3
    <2>2. Reading' <=> Reading  BY <2>1 DEF Reading, At, Racers
    <2> QED  BY <2>1, <2>2, ShownSame DEF AtOnce!vars
  <1>2. CASE effects(r) /\ ~GiveUp(r)
    <2>1. /\ payment' = payment /\ instruction' = instruction
          /\ \A l \in Lines : instruction[l].state # "CONFIRMED"
      BY <1>2 DEF effects, blocks
    <2>2. Shown' = Shown  BY <2>1 DEF Shown, Overlooked
    <2> QED  BY <2>1, <2>2 DEF AtOnce!vars
  <1>3. CASE completeReversal(r)
    <2>1. /\ At(r, "read") /\ End(r) /\ instruction' = instruction
          /\ payment' = [reversed |-> TRUE, version |-> payment.version + 1]
      BY <1>3 DEF completeReversal
    <2>2. ~payment.reversed /\ payment'.reversed = TRUE
      BY <2>1 DEF RaceInvariant, ReversalsHold, At
    <2>3. Reading  BY <2>1 DEF Reading
    <2>4. \A l \in Lines : Shown[l] \notin {"CONFIRMED", "RETURNED"}
      BY <2>3, OneReader DEF Shown, Overlooked, Reading
    <2>5. \E ls \in SUBSET Lines : AtOnce!Confirmed(ls)  BY <2>1, ReaderEnds
    <2>6. AtOnce!Reverse  BY <2>2, <2>4, <2>5 DEF AtOnce!Reverse
    <2> QED  BY <2>6 DEF AtOnce!Next
  <1> QED  BY <1>1, <1>2, <1>3, <1>a, RefuseShows DEF Reversal

\* An outcome shows when it commits, but for a confirmation overlooked.
LEMMA OutcomeShows ==
  ASSUME RaceInvariant, NEW c \in Clerks, Outcome(c)
  PROVE  [AtOnce!Next]_(AtOnce!vars)
  <1> DEFINE l == task[c].line
             outcome == task[c].outcome
  <1>a. c \in Racers /\ \A r \in Reversers : r # c /\ r \in Racers
    BY RaceAssumption DEF Racers
  <1>1. CASE \/ \E k \in Lines, o \in Outcomes : AskOutcome(c, k, o)
             \/ lockInstruction(c) /\ ~GiveUp(c)
             \/ correctionValid(c) /\ ~GiveUp(c)
    <2>1. /\ payment' = payment /\ instruction' = instruction
          /\ \A r \in Reversers : task'[r] = task[r]
      BY <1>1, <1>a DEF AskOutcome, lockInstruction, correctionValid, Goto, RaceInvariant, Kinds
    <2>2. Reading' <=> Reading  BY <2>1 DEF Reading, At
    <2> QED  BY <2>1, <2>2, ShownSame DEF AtOnce!vars
  <1>2. CASE record(c)
    <2>1. /\ At(c, "checked") \/ (At(c, "locked") /\ outcome = "CONFIRMED")
          /\ instruction' = [instruction EXCEPT ![l] = [state |-> outcome, version |-> @.version + 1]]
          /\ End(c) /\ payment' = payment
      BY <1>2 DEF record
    <2>2. /\ l \in Lines /\ outcome \in Outcomes
          /\ transition(instruction[l].state, outcome)
          /\ At(c, "checked") => payment.reversed
      BY <2>1 DEF RaceInvariant, OutcomesHold, At
    <2>3. \A r \in Reversers : task'[r] = task[r]  BY <1>a, <2>1, EndKeeps
    <2>4. Reading' <=> Reading  BY <2>3 DEF Reading, At
    <2>5. /\ instruction'[l].state = outcome
          /\ \A k \in Lines \ {l} : instruction'[k] = instruction[k]
      BY <2>1, <2>2 DEF RaceInvariant, Kinds
    <2>6. CASE Reading
      <3>1. outcome = "CONFIRMED"  BY <2>1, <2>2, <2>6, OneReader
      <3>2. instruction[l].state = "PENDING_CONFIRMATION"  BY <2>2, <3>1 DEF transition
      <3>3. Shown' = Shown  BY <2>4, <2>5, <2>6, <3>1, <3>2 DEF Shown, Overlooked, Reading
      <3> QED  BY <2>1, <3>3 DEF AtOnce!vars
    <2>7. CASE ~Reading
      <3>1. /\ Shown = [k \in Lines |-> instruction[k].state]
            /\ Shown' = [k \in Lines |-> instruction'[k].state]
        BY <2>4, <2>7, ShownAll
      <3>2. CASE outcome = "CONFIRMED"
        <4>1. instruction[l].state = "PENDING_CONFIRMATION"  BY <2>2, <3>2 DEF transition
        <4>2. AtOnce!Confirmed({l})  BY <2>2, <2>5, <3>1, <3>2, <4>1 DEF AtOnce!Confirmed
        <4>3. AtOnce!Confirm  BY <2>1, <2>2, <4>2 DEF AtOnce!Confirm
        <4> QED  BY <4>3 DEF AtOnce!Next
      <3>3. CASE outcome # "CONFIRMED"
        <4>1. payment.reversed /\ outcome \in AtOnce!Negative
          BY <2>1, <2>2, <3>3 DEF Outcomes, Negative, AtOnce!Negative
        <4>2. Shown[l] = IF outcome = "RETURNED" THEN "CONFIRMED" ELSE "PENDING_CONFIRMATION"
          BY <2>2, <3>1, <3>3 DEF transition
        <4>3. Shown' = [Shown EXCEPT ![l] = outcome]  BY <2>2, <2>5, <3>1
        <4>4. AtOnce!Refute(l, outcome)  BY <2>1, <4>1, <4>2, <4>3 DEF AtOnce!Refute
        <4> QED  BY <2>2, <4>1, <4>4 DEF AtOnce!Next
      <3> QED  BY <3>2, <3>3
    <2> QED  BY <2>6, <2>7
  <1> QED  BY <1>1, <1>2, <1>a, RefuseShows DEF Outcome

\* Every result of the race is one that a reversal and outcomes have one after the
\* other, in some order, although neither locks what the other writes
\* (payment-execution.service.ts:219).
THEOREM RaceActsAtOnce == RaceSpec => ActsAtOnce
  <1>1. RaceInit => AtOnce!Init
    <2> SUFFICES ASSUME RaceInit PROVE AtOnce!Init  OBVIOUS
    <2>1. payment.reversed = FALSE /\ Shown = [l \in Lines |-> "PENDING_CONFIRMATION"]
      BY DEF RaceInit, Shown, Overlooked
    <2> QED  BY <2>1 DEF AtOnce!Init
  <1>2. RaceInvariant /\ [RaceNext]_raceVars => [AtOnce!Next]_(AtOnce!vars)
    <2> SUFFICES ASSUME RaceInvariant, [RaceNext]_raceVars PROVE [AtOnce!Next]_(AtOnce!vars)
      OBVIOUS
    <2>1. CASE UNCHANGED raceVars
      <3>1. Shown' = Shown  BY <2>1, ShownSame DEF raceVars, Reading, At
      <3> QED  BY <2>1, <3>1 DEF raceVars, AtOnce!vars
    <2>2. ASSUME NEW r \in Reversers, Reversal(r) PROVE [AtOnce!Next]_(AtOnce!vars)
      BY <2>2, ReversalShows
    <2>3. ASSUME NEW c \in Clerks, Outcome(c) PROVE [AtOnce!Next]_(AtOnce!vars)
      BY <2>3, OutcomeShows
    <2>4. ASSUME NEW a \in Racers, Fail(a) PROVE [AtOnce!Next]_(AtOnce!vars)
      BY <2>4, RefuseShows DEF Fail
    <2> QED  BY <2>1, <2>2, <2>3, <2>4 DEF RaceNext
  <1> QED  BY <1>1, <1>2, RaceStarts, RaceStep, PTL DEF RaceSpec, ActsAtOnce, AtOnce!Spec

-------------------------------------------------------------------------------
(* Commands that lock the rows they share.  The argument: commands that     *)
(* lock in one order ask for rows in the order of their kinds and ids, so   *)
(* that whoever is in the way of a waiting command runs on, asks for a      *)
(* later row, or waited before it for the same one.  None of these leads    *)
(* back to the command.                                                     *)

\* A request for a row.
RowKinds == {"payment", "allocation", "reservation", "source", "group", "instruction",
             "transfer", "user"}
LockRequest == [row : RowKinds \X Nat, mode : {"exclusive", "shared"}]

\* Flattening, as a function of how many sequences have been taken.
IsFlat(ss, f) ==
  f = [i \in 1 .. Len(ss) |-> IF i = 1 THEN ss[i] ELSE f[i - 1] \o ss[i]]

LEMMA FlatExists ==
  ASSUME NEW ss, Len(ss) \in Nat
  PROVE  \E f : IsFlat(ss, f)
<1> DEFINE Flat(m, f) == f = [i \in 1 .. m |-> IF i = 1 THEN ss[i] ELSE f[i - 1] \o ss[i]]
           T == {m \in Nat : ~\E f : Flat(m, f)}
<1>1. T = {}
  <2>1. SUFFICES ASSUME T # {} PROVE FALSE
    OBVIOUS
  <2>2. PICK m \in T : \A n \in T : m <= n
    <3>1. T \in SUBSET Nat
      OBVIOUS
    <3> QED BY <2>1, <3>1, LeastNat
  <2>3. CASE m = 0
    <3>1. Flat(0, [i \in 1 .. 0 |-> ss[i]])
      OBVIOUS
    <3> QED BY <2>2, <2>3, <3>1
  <2>4. CASE m # 0
    <3>0. m \in Nat
      OBVIOUS
    <3>1. m - 1 \in Nat /\ m - 1 \notin T
      <4> HIDE DEF T
      <4> QED BY <2>2, <2>4, <3>0
    <3>2. PICK f : Flat(m - 1, f)
      BY <3>1
    <3> DEFINE g == [i \in 1 .. m |-> IF i < m THEN f[i]
                                      ELSE IF i = 1 THEN ss[i] ELSE f[i - 1] \o ss[i]]
    <3>3. ASSUME NEW i \in 1 .. m
          PROVE  g[i] = IF i = 1 THEN ss[i] ELSE g[i - 1] \o ss[i]
      <4>1. CASE i < m
        <5>1. i \in 1 .. m - 1 /\ g[i] = f[i] /\ (i # 1 => i - 1 \in 1 .. m /\ g[i - 1] = f[i - 1])
          BY <4>1, <2>2
        <5>2. f[i] = IF i = 1 THEN ss[i] ELSE f[i - 1] \o ss[i]
          BY <3>2, <5>1
        <5> HIDE DEF g
        <5> QED BY <5>1, <5>2
      <4>2. CASE i = m
        <5>1. g[i] = IF i = 1 THEN ss[i] ELSE f[i - 1] \o ss[i]
          BY <4>2
        <5>2. i # 1 => i - 1 \in 1 .. m /\ i - 1 < m /\ g[i - 1] = f[i - 1]
          BY <4>2, <2>2
        <5> HIDE DEF g
        <5> QED BY <5>1, <5>2
      <4> QED BY <4>1, <4>2, <2>2
    <3>4. Flat(m, g)
      <4>1. g = [i \in 1 .. m |-> g[i]]
        OBVIOUS
      <4> HIDE DEF g
      <4> QED BY <3>3, <4>1
    <3> QED BY <2>2, <3>4
  <2> QED BY <2>3, <2>4
<1> QED BY <1>1 DEF IsFlat

LEMMA FlattenIs ==
  ASSUME NEW ss, Len(ss) \in Nat \ {0}
  PROVE  \E f : IsFlat(ss, f) /\ Rows!FlattenSeq(ss) = f[Len(ss)]
<1> DEFINE flatten == CHOOSE f : IsFlat(ss, f)
<1>1. IsFlat(ss, flatten)
  BY FlatExists
<1>2. Rows!FlattenSeq(ss) = flatten[Len(ss)]
  BY DEF Rows!FlattenSeq, IsFlat
<1> QED BY <1>1, <1>2

\* A flattened sequence has the elements of its parts.
LEMMA FlattenType ==
  ASSUME NEW S, NEW ss \in Seq(Seq(S))
  PROVE  Rows!FlattenSeq(ss) \in Seq(S)
<1>1. CASE Len(ss) = 0
  <2>1. Rows!FlattenSeq(ss) = ss
    BY <1>1 DEF Rows!FlattenSeq
  <2>2. ss = <<>>
    BY <1>1
  <2> QED BY <2>1, <2>2
<1>2. CASE Len(ss) # 0
  <2>1. PICK f : IsFlat(ss, f) /\ Rows!FlattenSeq(ss) = f[Len(ss)]
    BY <1>2, FlattenIs
  <2> DEFINE T == {i \in 1 .. Len(ss) : f[i] \notin Seq(S)}
  <2>2. T = {}
    <3>1. SUFFICES ASSUME T # {} PROVE FALSE
      OBVIOUS
    <3>2. PICK i \in T : \A j \in T : i <= j
      <4>1. T \in SUBSET Nat
        OBVIOUS
      <4> HIDE DEF T
      <4> QED BY <3>1, <4>1, LeastNat
    <3>3. /\ i \in 1 .. Len(ss) /\ ss[i] \in Seq(S) /\ f[i] \notin Seq(S)
          /\ f[i] = IF i = 1 THEN ss[i] ELSE f[i - 1] \o ss[i]
      <4>1. i \in 1 .. Len(ss) /\ f[i] \notin Seq(S)
        OBVIOUS
      <4>2. ss[i] \in Seq(S)
        BY <4>1
      <4> HIDE DEF T
      <4> QED BY <2>1, <4>1, <4>2 DEF IsFlat
    <3>4. CASE i = 1
      BY <3>3, <3>4
    <3>5. CASE i # 1
      <4>1. i - 1 \in 1 .. Len(ss) /\ i - 1 \notin T
        <5> HIDE DEF T
        <5> QED BY <3>2, <3>3, <3>5
      <4>2. f[i - 1] \in Seq(S)
        BY <4>1
      <4>3. f[i - 1] \o ss[i] \in Seq(S)
        BY <3>3, <4>2
      <4> HIDE DEF T
      <4> QED BY <3>3, <3>5, <4>3
    <3> QED BY <3>4, <3>5
  <2>3. Len(ss) \in 1 .. Len(ss)
    BY <1>2
  <2> QED BY <2>1, <2>2, <2>3
<1> QED BY <1>1, <1>2

\* One request for each row of a sequence.
LEMMA UpdateAllIs ==
  ASSUME NEW kind \in RowKinds, NEW ids \in Seq(Nat)
  PROVE  /\ Rows!UpdateAll(kind, ids) \in Seq(LockRequest)
         /\ Len(Rows!UpdateAll(kind, ids)) = Len(ids)
         /\ \A i \in 1 .. Len(ids) : Rows!UpdateAll(kind, ids)[i] = Rows!Update(kind, ids[i])
<1>1. \A i \in DOMAIN ids : Rows!Update(kind, ids[i]) \in LockRequest
  BY DEF Rows!Update, LockRequest
<1> QED BY <1>1 DEF Rows!UpdateAll

LEMMA UpdateType ==
  ASSUME NEW kind \in RowKinds, NEW id \in Nat
  PROVE  /\ Rows!Update(kind, id) \in LockRequest /\ Rows!Share(kind, id) \in LockRequest
         /\ <<Rows!Update(kind, id)>> \in Seq(LockRequest)
         /\ <<Rows!Share(kind, id)>> \in Seq(LockRequest)
<1>1. Rows!Update(kind, id) \in LockRequest /\ Rows!Share(kind, id) \in LockRequest
  BY DEF Rows!Update, Rows!Share, LockRequest
<1> QED BY <1>1

\* What the assumptions say of the rows of a payment, an outcome and a transfer.
LEMMA PaymentRows ==
  ASSUME NEW p \in Rows!Payments
  PROVE  /\ p \in Nat /\ Sources[p] \in Seq(Nat) /\ Allocations[p] \in Seq(Nat)
         /\ Reservations[p] \in Seq(Nat) /\ Participants[p] \in Seq(Nat) /\ GroupOf[p] \in Nat
         /\ \A i \in 1 .. Len(Allocations[p]) : Siblings[Allocations[p][i]] \in Seq(Nat)
         /\ \A i \in 1 .. Len(Sources[p]) : Reserved[p][Sources[p][i]] \in Seq(Nat)
<1>1. Rows!RowsAssumption
  BY PartsAssumption
<1>2. /\ p \in Nat /\ Sources[p] \in Seq(Nat) /\ Allocations[p] \in Seq(Nat)
      /\ Reservations[p] \in Seq(Nat) /\ Participants[p] \in Seq(Nat) /\ GroupOf[p] \in Nat
  BY <1>1 DEF Rows!RowsAssumption
<1>3. ASSUME NEW i \in 1 .. Len(Allocations[p]) PROVE Siblings[Allocations[p][i]] \in Seq(Nat)
  <2>1. Allocations[p][i] \in Rows!Range(Allocations[p])
    BY <1>2 DEF Rows!Range
  <2> QED BY <1>1, <2>1 DEF Rows!RowsAssumption
<1>4. ASSUME NEW i \in 1 .. Len(Sources[p]) PROVE Reserved[p][Sources[p][i]] \in Seq(Nat)
  <2>1. Sources[p][i] \in Rows!Range(Sources[p])
    BY <1>2 DEF Rows!Range
  <2> QED BY <1>1, <2>1 DEF Rows!RowsAssumption
<1> QED BY <1>2, <1>3, <1>4

LEMMA RouteRows ==
  ASSUME NEW t \in Rows!Transfers
  PROVE  t \in Nat /\ Route[t].from \in Rows!End /\ Route[t].to \in Rows!End
<1>1. Rows!RowsAssumption
  BY PartsAssumption
<1> QED BY <1>1 DEF Rows!RowsAssumption

LEMMA OutcomeRows ==
  ASSUME NEW i \in Rows!Instructions
  PROVE  i \in Nat /\ PaymentOf[i] \in Nat /\ ReversalOf[i] \in Nat /\ PaymentOf[i] < ReversalOf[i]
<1>1. Rows!RowsAssumption
  BY PartsAssumption
<1> QED BY <1>1 DEF Rows!RowsAssumption

\* At most two rows in the order of their ids.
LEMMA FewRows ==
  ASSUME NEW S \in SUBSET Nat, NEW a, NEW b, S \subseteq {a, b}
  PROVE  \/ S = {} /\ Rows!Cardinality(S) = 0
         \/ \E x \in Nat : S = {x} /\ Rows!Cardinality(S) = 1
         \/ \E x \in Nat, y \in Nat : S = {x, y} /\ x < y /\ Rows!Cardinality(S) = 2
<1>1. Rows!Cardinality(S) = Cardinality(S)
  BY DEF Rows!Cardinality, Cardinality
<1>2. CASE S = {}
  BY <1>1, <1>2, FS_EmptySet
<1>3. ASSUME NEW x \in Nat, S = {x} PROVE Rows!Cardinality(S) = 1
  BY <1>1, <1>3, FS_Singleton
<1>4. ASSUME NEW x \in Nat, NEW y \in Nat, S = {x, y}, x < y PROVE Rows!Cardinality(S) = 2
  <2>1. Cardinality({x}) = 1 /\ IsFiniteSet({x})
    BY FS_Singleton
  <2>2. y \notin {x} /\ S = {x} \cup {y}
    BY <1>4
  <2> QED BY <1>1, <2>1, <2>2, FS_AddElement
<1>5. \/ S = {} \/ \E x \in Nat : S = {x}
      \/ \E x \in Nat, y \in Nat : S = {x, y} /\ x < y
  <2>1. CASE S = {a, b} /\ a # b
    BY <2>1
  <2>2. CASE S # {a, b} \/ a = b
    BY <2>2
  <2> QED BY <2>1, <2>2
<1> QED BY <1>2, <1>3, <1>4, <1>5

LEMMA AscendingIs ==
  ASSUME NEW S \in SUBSET Nat, NEW a, NEW b, S \subseteq {a, b}
  PROVE  /\ Rows!Ascending(S) \in Seq(Nat)
         /\ \A i, j \in 1 .. Len(Rows!Ascending(S)) :
              i < j => Rows!Ascending(S)[i] < Rows!Ascending(S)[j]
         /\ \A x \in S : \E i \in 1 .. Len(Rows!Ascending(S)) : Rows!Ascending(S)[i] = x
<1> DEFINE n == Rows!Cardinality(S)
           q == Rows!Ascending(S)
           Sorted(f) == \A i, j \in DOMAIN f : i < j => f[i] < f[j]
<1>1. n \in Nat /\ \E f \in [1 .. n -> S] : Sorted(f)
  <2>1. CASE S = {} /\ n = 0
    <3>1. n \in Nat /\ 1 .. n = {}
      BY <2>1
    <3> HIDE DEF n
    <3>2. [i \in 1 .. n |-> 0] \in [1 .. n -> S] /\ Sorted([i \in 1 .. n |-> 0])
      BY <3>1
    <3> QED BY <3>1, <3>2
  <2>2. ASSUME NEW x \in Nat, S = {x}, n = 1 PROVE n \in Nat /\ \E f \in [1 .. n -> S] : Sorted(f)
    <3> HIDE DEF n
    <3>1. [i \in 1 .. 1 |-> x] \in [1 .. n -> S] /\ Sorted([i \in 1 .. 1 |-> x])
      BY <2>2
    <3> QED BY <2>2, <3>1
  <2>3. ASSUME NEW x \in Nat, NEW y \in Nat, S = {x, y}, x < y, n = 2
        PROVE  n \in Nat /\ \E f \in [1 .. n -> S] : Sorted(f)
    <3> DEFINE f == [i \in 1 .. 2 |-> IF i = 1 THEN x ELSE y]
    <3> HIDE DEF n
    <3>1. f \in [1 .. n -> S] /\ Sorted(f)
      BY <2>3
    <3> QED BY <2>3, <3>1
  <2> HIDE DEF n, Sorted
  <2> QED BY <2>1, <2>2, <2>3, FewRows DEF n
<1>2. q \in [1 .. n -> S] /\ Sorted(q)
  BY <1>1 DEF Rows!Ascending
<1>3. q \in Seq(Nat) /\ Len(q) = n /\ DOMAIN q = 1 .. Len(q) /\ \A i \in 1 .. n : q[i] \in S
  <2>1. n \in Nat /\ q \in [1 .. n -> S]
    BY <1>1, <1>2
  <2> HIDE DEF q, n
  <2>2. DOMAIN q = 1 .. Len(q) /\ Len(q) = n /\ \A i \in 1 .. n : q[i] \in S
    BY <2>1
  <2>3. q \in [1 .. n -> Nat]
    BY <2>1
  <2>4. q \in Seq(Nat)
    BY <2>1, <2>3
  <2> QED BY <2>2, <2>4
<1>4. ASSUME NEW x \in S PROVE \E i \in 1 .. Len(q) : q[i] = x
  <2> HIDE DEF q, n
  <2>1. CASE n = 1 /\ S = {x}
    BY <1>3, <2>1
  <2>2. ASSUME NEW u \in Nat, NEW w \in Nat, S = {u, w}, u < w, n = 2
        PROVE  \E i \in 1 .. Len(q) : q[i] = x
    <3>1. q[1] \in {u, w} /\ q[2] \in {u, w} /\ q[1] < q[2] /\ Len(q) = 2
      BY <1>2, <1>3, <2>2
    <3> QED BY <2>2, <3>1
  <2>3. ASSUME NEW y \in Nat, S = {y}, n = 1 PROVE \E i \in 1 .. Len(q) : q[i] = x
    <3>1. S = {x}
      BY <2>3
    <3> QED BY <2>1, <2>3, <3>1
  <2>4. S # {}
    OBVIOUS
  <2> QED BY <2>2, <2>3, <2>4, FewRows DEF n
<1> QED BY <1>2, <1>3, <1>4

\* The locks on both ends of a transfer.
LEMMA CustodiansAre ==
  ASSUME NEW t \in Rows!Transfers
  PROVE  \E q \in Seq(Nat), u \in Seq(LockRequest) :
           /\ Rows!Custodians(t) = Rows!UpdateAll("source", q) \o u
           /\ \A i, j \in 1 .. Len(q) : i < j => q[i] < q[j]
           /\ \A i \in 1 .. Len(u) : u[i].row[1] = "user" /\ u[i].mode = "shared"
           /\ "cashbox" \in DOMAIN Route[t].from =>
                \E i \in 1 .. Len(q) : q[i] = Route[t].from.cashbox
<1> DEFINE from == Route[t].from
           to == Route[t].to
           boxes == {e \in {from, to} : "cashbox" \in DOMAIN e}
           ids == {e.cashbox : e \in boxes}
           users(e) == IF "user" \in DOMAIN e THEN <<Rows!Share("user", e.user)>> ELSE <<>>
           q == Rows!Ascending(ids)
           u == users(from) \o users(to)
<1>1. from \in Rows!End /\ to \in Rows!End
  BY RouteRows
<1>2. ids \in SUBSET Nat /\ ids \subseteq {from.cashbox, to.cashbox}
  BY <1>1 DEF Rows!End
<1>3. /\ q \in Seq(Nat)
      /\ \A i, j \in 1 .. Len(q) : i < j => q[i] < q[j]
      /\ \A x \in ids : \E i \in 1 .. Len(q) : q[i] = x
  <2> HIDE DEF ids
  <2> QED BY <1>2, AscendingIs
<1>4. ASSUME NEW e \in Rows!End
      PROVE  /\ users(e) \in Seq(LockRequest)
             /\ \A i \in 1 .. Len(users(e)) :
                  users(e)[i].row[1] = "user" /\ users(e)[i].mode = "shared"
  <2>1. CASE "user" \in DOMAIN e
    <3>1. e.user \in Nat
      BY <2>1 DEF Rows!End
    <3>2. <<Rows!Share("user", e.user)>> \in Seq(LockRequest)
      BY <3>1, UpdateType DEF RowKinds
    <3>3. Rows!Share("user", e.user).row[1] = "user" /\ Rows!Share("user", e.user).mode = "shared"
      BY DEF Rows!Share
    <3> QED BY <2>1, <3>2, <3>3
  <2>2. CASE "user" \notin DOMAIN e
    BY <2>2
  <2> QED BY <2>1, <2>2
<1>5. /\ u \in Seq(LockRequest)
      /\ \A i \in 1 .. Len(u) : u[i].row[1] = "user" /\ u[i].mode = "shared"
  <2> HIDE DEF users
  <2> QED BY <1>1, <1>4
<1>6. Rows!UpdateAll("source", q) \in Seq(LockRequest)
  BY <1>3, UpdateAllIs DEF RowKinds
<1>7. Rows!Custodians(t) = Rows!UpdateAll("source", q) \o u
  <2>1. users(from) \in Seq(LockRequest) /\ users(to) \in Seq(LockRequest)
    BY <1>1, <1>4
  <2>2. Rows!Custodians(t) = (Rows!UpdateAll("source", q) \o users(from)) \o users(to)
    BY DEF Rows!Custodians
  <2> HIDE DEF users, q
  <2> QED BY <1>6, <2>1, <2>2
<1>8. "cashbox" \in DOMAIN from => from.cashbox \in ids
  OBVIOUS
<1> HIDE DEF q, u, ids
<1> QED BY <1>3, <1>5, <1>7, <1>8

-------------------------------------------------------------------------------
(* What each command asks for                                               *)

\* Of two rows, the one that commands ask for later.
Rank(row) ==
  IF row[1] \in {"instruction", "transfer"} THEN 0
  ELSE IF row[1] = "payment" THEN 1
  ELSE IF row[1] = "source" THEN 2 ELSE 3
Later(r, s) ==
  \/ Rank(s) < Rank(r)
  \/ r[1] = s[1] /\ r[1] \in {"payment", "source"} /\ s[2] < r[2]

\* What is asked for again has been taken exclusively, if it now has to be; what
\* is asked for anew comes later than what is held, except for users, who are
\* only shared, and reservations, which are locked under their source.
Shape(x, q) ==
  /\ \A k \in 1 .. Len(q) : \A i \in 1 .. k - 1 :
       q[i].row = q[k].row /\ q[k].mode = "exclusive" => q[i].mode = "exclusive"
  /\ \A k \in 1 .. Len(q) :
       \/ \E i \in 1 .. k - 1 : q[i].row = q[k].row
       \/ \A i \in 1 .. k - 1 : \/ Later(q[k].row, q[i].row)
                                \/ q[i].row[1] \in {"user", "reservation"}
  /\ \A k \in 1 .. Len(q) : q[k].row[1] = "user" => q[k].mode = "shared"
  /\ \A k \in 1 .. Len(q) : q[k].row[1] = "reservation" =>
       /\ x.on \in Rows!Payments /\ 2 < k
       /\ \E s \in Rows!Range(Sources[x.on]) :
            /\ q[2] = Rows!Update("source", s)
            /\ q[k].row[2] \in Rows!Range(Reserved[x.on][s])

LEMMA Appended ==
  ASSUME NEW S, NEW a \in Seq(S), NEW b \in Seq(S)
  PROVE  /\ a \o b \in Seq(S) /\ Len(a \o b) = Len(a) + Len(b)
         /\ \A i \in 1 .. Len(a) : (a \o b)[i] = a[i]
         /\ \A i \in Len(a) + 1 .. Len(a) + Len(b) : (a \o b)[i] = b[i - Len(a)]
  OBVIOUS

\* A transfer, its cashboxes by id, its users.
LEMMA FinishIs ==
  ASSUME NEW t \in Rows!Transfers
  PROVE  \E s \in Seq(Nat), u \in Seq(LockRequest) :
           /\ Rows!Finish(t) \in Seq(LockRequest)
           /\ Len(Rows!Finish(t)) = 1 + Len(s) + Len(u)
           /\ Rows!Finish(t)[1] = Rows!Update("transfer", t)
           /\ \A i \in 2 .. 1 + Len(s) : Rows!Finish(t)[i] = Rows!Update("source", s[i - 1])
           /\ \A i \in 2 + Len(s) .. 1 + Len(s) + Len(u) :
                Rows!Finish(t)[i].row[1] = "user" /\ Rows!Finish(t)[i].mode = "shared"
           /\ \A i, j \in 1 .. Len(s) : i < j => s[i] < s[j]
           /\ "cashbox" \in DOMAIN Route[t].from =>
                \E i \in 1 .. Len(s) : s[i] = Route[t].from.cashbox
<1>1. PICK s \in Seq(Nat), u \in Seq(LockRequest) :
           /\ Rows!Custodians(t) = Rows!UpdateAll("source", s) \o u
           /\ \A i, j \in 1 .. Len(s) : i < j => s[i] < s[j]
           /\ \A i \in 1 .. Len(u) : u[i].row[1] = "user" /\ u[i].mode = "shared"
           /\ "cashbox" \in DOMAIN Route[t].from =>
                \E i \in 1 .. Len(s) : s[i] = Route[t].from.cashbox
  BY CustodiansAre
<1> DEFINE boxes == Rows!UpdateAll("source", s)
           first == <<Rows!Update("transfer", t)>>
           q == Rows!Finish(t)
<1>2. /\ boxes \in Seq(LockRequest) /\ Len(boxes) = Len(s)
      /\ \A i \in 1 .. Len(s) : boxes[i] = Rows!Update("source", s[i])
  BY UpdateAllIs DEF RowKinds
<1>3. first \in Seq(LockRequest) /\ Len(first) = 1 /\ first[1] = Rows!Update("transfer", t)
  BY UpdateType, RouteRows DEF RowKinds
<1>4. q = first \o (boxes \o u)
  BY <1>1 DEF Rows!Finish
<1> HIDE DEF boxes, first, q
<1>5. /\ boxes \o u \in Seq(LockRequest) /\ Len(boxes \o u) = Len(s) + Len(u)
      /\ \A i \in 1 .. Len(s) : (boxes \o u)[i] = Rows!Update("source", s[i])
      /\ \A i \in Len(s) + 1 .. Len(s) + Len(u) : (boxes \o u)[i] = u[i - Len(s)]
  <2>1. boxes \in Seq(LockRequest) /\ u \in Seq(LockRequest)
    BY <1>2
  <2>2. /\ boxes \o u \in Seq(LockRequest) /\ Len(boxes \o u) = Len(boxes) + Len(u)
        /\ \A i \in 1 .. Len(boxes) : (boxes \o u)[i] = boxes[i]
        /\ \A i \in Len(boxes) + 1 .. Len(boxes) + Len(u) : (boxes \o u)[i] = u[i - Len(boxes)]
    BY <2>1, Appended
  <2> QED BY <1>2, <2>2
<1>6. /\ q \in Seq(LockRequest) /\ Len(q) = 1 + (Len(s) + Len(u))
      /\ q[1] = Rows!Update("transfer", t)
      /\ \A i \in 2 .. 1 + (Len(s) + Len(u)) : q[i] = (boxes \o u)[i - 1]
  <2> DEFINE b == boxes \o u
  <2>1. b \in Seq(LockRequest) /\ q = first \o b /\ Len(b) = Len(s) + Len(u)
    BY <1>4, <1>5
  <2> HIDE DEF b
  <2>2. /\ q \in Seq(LockRequest) /\ Len(q) = 1 + (Len(s) + Len(u)) /\ q[1] = first[1]
        /\ \A i \in 2 .. 1 + (Len(s) + Len(u)) : q[i] = b[i - 1]
    <3>1. /\ first \o b \in Seq(LockRequest) /\ Len(first \o b) = Len(first) + Len(b)
          /\ \A i \in 1 .. Len(first) : (first \o b)[i] = first[i]
          /\ \A i \in Len(first) + 1 .. Len(first) + Len(b) : (first \o b)[i] = b[i - Len(first)]
      <4>1. first \in Seq(LockRequest) /\ b \in Seq(LockRequest)
        BY <1>3, <2>1
      <4> QED BY <4>1, Appended
    <3>2. Len(s) \in Nat /\ Len(u) \in Nat
      OBVIOUS
    <3> QED BY <1>3, <2>1, <3>1, <3>2
  <2> QED BY <1>3, <2>2 DEF b
<1>7. Len(s) \in Nat /\ Len(u) \in Nat
  OBVIOUS
<1>8. ASSUME NEW i \in 2 .. 1 + Len(s) PROVE q[i] = Rows!Update("source", s[i - 1])
  <2>1. i \in 2 .. 1 + (Len(s) + Len(u)) /\ i - 1 \in 1 .. Len(s)
    BY <1>7
  <2> QED BY <1>5, <1>6, <2>1
<1>9. ASSUME NEW i \in 2 + Len(s) .. 1 + Len(s) + Len(u)
      PROVE  q[i].row[1] = "user" /\ q[i].mode = "shared"
  <2>1. /\ i \in 2 .. 1 + (Len(s) + Len(u)) /\ i - 1 \in Len(s) + 1 .. Len(s) + Len(u)
        /\ (i - 1) - Len(s) \in 1 .. Len(u)
    BY <1>7
  <2>2. q[i] = u[(i - 1) - Len(s)]
    BY <1>5, <1>6, <2>1
  <2> QED BY <1>1, <2>1, <2>2
<1>10. /\ q \in Seq(LockRequest)
       /\ Len(q) = 1 + Len(s) + Len(u)
       /\ q[1] = Rows!Update("transfer", t)
       /\ \A i \in 2 .. 1 + Len(s) : q[i] = Rows!Update("source", s[i - 1])
       /\ \A i \in 2 + Len(s) .. 1 + Len(s) + Len(u) : q[i].row[1] = "user" /\ q[i].mode = "shared"
  BY <1>6, <1>7, <1>8, <1>9
<1> USE DEF q
<1> WITNESS s \in Seq(Nat), u \in Seq(LockRequest)
<1> QED BY <1>1, <1>10

\* A payment, then its source, then what others have reserved of it.
LEMMA PayableIs ==
  ASSUME NEW p \in Rows!Payments, NEW i \in 1 .. Len(Sources[p])
  PROVE  LET s == Sources[p][i]
             q == Rows!Payable(p, s)
         IN  /\ q \in Seq(LockRequest) /\ Len(q) = 1 + Len(Reserved[p][s])
             /\ q[1] = Rows!Update("source", s)
             /\ \A k \in 2 .. Len(q) : q[k] = Rows!Update("reservation", Reserved[p][s][k - 1])
<1> DEFINE s == Sources[p][i]
           ids == Reserved[p][s]
           first == <<Rows!Update("source", s)>>
           rest == Rows!UpdateAll("reservation", ids)
           q == Rows!Payable(p, s)
<1>1. s \in Nat /\ ids \in Seq(Nat)
  BY PaymentRows
<1>2. /\ rest \in Seq(LockRequest) /\ Len(rest) = Len(ids)
      /\ \A k \in 1 .. Len(ids) : rest[k] = Rows!Update("reservation", ids[k])
  <2> HIDE DEF ids
  <2> QED BY <1>1, UpdateAllIs DEF RowKinds
<1>3. first \in Seq(LockRequest) /\ Len(first) = 1 /\ first[1] = Rows!Update("source", s)
  <2> HIDE DEF s
  <2> QED BY <1>1, UpdateType DEF RowKinds
<1>4. q = first \o rest
  BY DEF Rows!Payable
<1> HIDE DEF first, rest, q, ids
<1>5. first \in Seq(LockRequest) /\ rest \in Seq(LockRequest)
  BY <1>2, <1>3
<1>6. /\ first \o rest \in Seq(LockRequest) /\ Len(first \o rest) = Len(first) + Len(rest)
      /\ \A k \in 1 .. Len(first) : (first \o rest)[k] = first[k]
      /\ \A k \in Len(first) + 1 .. Len(first) + Len(rest) :
           (first \o rest)[k] = rest[k - Len(first)]
  BY <1>5, Appended
<1>7. Len(ids) \in Nat
  BY <1>1
<1>8. ASSUME NEW k \in 2 .. 1 + Len(ids) PROVE q[k] = Rows!Update("reservation", ids[k - 1])
  <2>1. k - 1 \in 1 .. Len(ids) /\ k \in Len(first) + 1 .. Len(first) + Len(rest)
    BY <1>2, <1>3, <1>7
  <2> QED BY <1>2, <1>3, <1>4, <1>6, <2>1
<1>9. q \in Seq(LockRequest) /\ Len(q) = 1 + Len(ids) /\ q[1] = Rows!Update("source", s)
  BY <1>2, <1>3, <1>4, <1>6
<1> QED BY <1>8, <1>9 DEF q, ids

\* A row for each element of a sequence.
LEMMA EachIs ==
  ASSUME NEW S, NEW q \in Seq(Nat), NEW f, DOMAIN f = DOMAIN q,
         f = [i \in DOMAIN f |-> f[i]], \A i \in 1 .. Len(q) : f[i] \in S
  PROVE  f \in Seq(S)
<1>1. Len(q) \in Nat /\ DOMAIN q = 1 .. Len(q)
  OBVIOUS
<1>2. f \in [1 .. Len(q) -> S]
  BY <1>1
<1> QED BY <1>1, <1>2

LEMMA PaymentRequests ==
  ASSUME NEW p \in Rows!Payments
  PROVE  /\ Rows!Act(p) \in Seq(LockRequest)
         /\ Rows!ExecutePayment(p) \in Seq(LockRequest)
         /\ Rows!ReversePayment(p) \in Seq(LockRequest)
<1>1. <<Rows!Update("payment", p)>> \in Seq(LockRequest)
  BY PaymentRows, UpdateType DEF RowKinds
<1>2. Rows!LockPayment(p) \in Seq(LockRequest)
  <2>1. /\ Rows!UpdateAll("allocation", Allocations[p]) \in Seq(LockRequest)
        /\ Rows!UpdateAll("reservation", Reservations[p]) \in Seq(LockRequest)
    BY PaymentRows, UpdateAllIs DEF RowKinds
  <2> QED BY <1>1, <2>1 DEF Rows!LockPayment
<1>3. Rows!SiblingAllocations(p) \in Seq(LockRequest)
  <2> DEFINE ss == [i \in DOMAIN Allocations[p] |->
                     Rows!UpdateAll("allocation", Siblings[Allocations[p][i]])]
  <2>0. Allocations[p] \in Seq(Nat) /\ DOMAIN Allocations[p] = 1 .. Len(Allocations[p])
    BY PaymentRows
  <2>1. ASSUME NEW i \in 1 .. Len(Allocations[p]) PROVE ss[i] \in Seq(LockRequest)
    <3>1. Siblings[Allocations[p][i]] \in Seq(Nat)
      BY PaymentRows
    <3>2. Rows!UpdateAll("allocation", Siblings[Allocations[p][i]]) \in Seq(LockRequest)
      BY <3>1, UpdateAllIs DEF RowKinds
    <3> QED BY <2>0, <3>2
  <2>2. ss \in Seq(Seq(LockRequest))
    <3>1. DOMAIN ss = DOMAIN Allocations[p] /\ ss = [i \in DOMAIN ss |-> ss[i]]
      OBVIOUS
    <3> HIDE DEF ss
    <3> QED BY <2>0, <2>1, <3>1, EachIs
  <2>3. Rows!FlattenSeq(ss) \in Seq(LockRequest)
    <3> HIDE DEF ss
    <3> QED BY <2>2, FlattenType
  <2> QED BY <2>3 DEF Rows!SiblingAllocations
<1>4. Rows!CheckSources(p) \in Seq(LockRequest)
  <2> DEFINE ss == [i \in DOMAIN Sources[p] |-> Rows!Payable(p, Sources[p][i])]
  <2>0. Sources[p] \in Seq(Nat) /\ DOMAIN Sources[p] = 1 .. Len(Sources[p])
    BY PaymentRows
  <2>1. ASSUME NEW i \in 1 .. Len(Sources[p]) PROVE ss[i] \in Seq(LockRequest)
    <3>1. Rows!Payable(p, Sources[p][i]) \in Seq(LockRequest)
      BY PayableIs
    <3> QED BY <2>0, <3>1
  <2>2. ss \in Seq(Seq(LockRequest))
    <3>1. DOMAIN ss = DOMAIN Sources[p] /\ ss = [i \in DOMAIN ss |-> ss[i]]
      OBVIOUS
    <3> HIDE DEF ss
    <3> QED BY <2>0, <2>1, <3>1, EachIs
  <2>3. Rows!FlattenSeq(ss) \in Seq(LockRequest)
    <3> HIDE DEF ss
    <3> QED BY <2>2, FlattenType
  <2> QED BY <2>3 DEF Rows!CheckSources
<1>5. Rows!MatchingParticipants(p) \in Seq(LockRequest)
  <2> DEFINE readers == [i \in DOMAIN Participants[p] |-> Rows!Share("payment", Participants[p][i])]
  <2>0. Participants[p] \in Seq(Nat) /\ DOMAIN Participants[p] = 1 .. Len(Participants[p])
    BY PaymentRows
  <2>1. <<Rows!Update("group", GroupOf[p])>> \in Seq(LockRequest)
    BY PaymentRows, UpdateType DEF RowKinds
  <2>2. ASSUME NEW i \in 1 .. Len(Participants[p]) PROVE readers[i] \in LockRequest
    <3>1. Participants[p][i] \in Nat
      BY <2>0
    <3>2. Rows!Share("payment", Participants[p][i]) \in LockRequest
      BY <3>1, UpdateType DEF RowKinds
    <3> QED BY <2>0, <3>2
  <2>3. readers \in Seq(LockRequest)
    <3>1. DOMAIN readers = DOMAIN Participants[p] /\ readers = [i \in DOMAIN readers |-> readers[i]]
      OBVIOUS
    <3> HIDE DEF readers, LockRequest
    <3> QED BY <2>0, <2>2, <3>1, EachIs
  <2> HIDE DEF readers
  <2> QED BY <2>1, <2>3 DEF Rows!MatchingParticipants, readers
<1>6. Rows!UpdateAll("source", Sources[p]) \in Seq(LockRequest)
  BY PaymentRows, UpdateAllIs DEF RowKinds
<1> QED
  <2>1. Rows!Act(p) \in Seq(LockRequest)
    BY <1>1, <1>5 DEF Rows!Act
  <2>2. Rows!ExecutePayment(p) \in Seq(LockRequest)
    BY <1>2, <1>3, <1>4 DEF Rows!ExecutePayment
  <2>3. Rows!ReversePayment(p) \in Seq(LockRequest)
    BY <1>2, <1>6 DEF Rows!ReversePayment
  <2> QED BY <2>1, <2>2, <2>3

LEMMA RequestsTyped ==
  ASSUME NEW x \in Tasks
  PROVE  Rows!RequestsOf(x) \in Seq(LockRequest)
<1>1. \/ x.do \in {"act", "execute", "reverse"} /\ x.on \in Rows!Payments
      \/ x.do = "outcome" /\ x.on \in Rows!Instructions
      \/ x.do \in {"release", "finish"} /\ x.on \in Rows!Transfers
  BY PartsAssumption DEF Rows!TasksAssumption
<1>2. CASE x.do \in {"act", "execute", "reverse"} /\ x.on \in Rows!Payments
  BY <1>2, PaymentRequests DEF Rows!RequestsOf
<1>3. CASE x.do = "outcome" /\ x.on \in Rows!Instructions
  <2>1. /\ Rows!Update("instruction", x.on) \in LockRequest
        /\ Rows!Share("payment", PaymentOf[x.on]) \in LockRequest
        /\ Rows!Share("payment", ReversalOf[x.on]) \in LockRequest
    BY <1>3, OutcomeRows, UpdateType DEF RowKinds
  <2>2. Rows!RecordOutcome(x.on) \in Seq(LockRequest)
    BY <2>1 DEF Rows!RecordOutcome
  <2> QED BY <1>3, <2>2 DEF Rows!RequestsOf
<1>4. CASE x.do \in {"release", "finish"} /\ x.on \in Rows!Transfers
  <2>1. Rows!Finish(x.on) \in Seq(LockRequest)
    BY <1>4, FinishIs
  <2>2. Rows!SourceAvailability(x.on) \in Seq(LockRequest)
    <3> DEFINE from == Route[x.on].from
    <3>1. from \in Rows!End
      BY <1>4, RouteRows
    <3>2. CASE "user" \in DOMAIN from
      <4>1. from.user \in Nat
        BY <3>1, <3>2 DEF Rows!End
      <4>2. <<Rows!Update("user", from.user)>> \in Seq(LockRequest)
        BY <4>1, UpdateType DEF RowKinds
      <4> QED BY <3>2, <4>2 DEF Rows!SourceAvailability
    <3>3. CASE "user" \notin DOMAIN from
      <4>1. from.cashbox \in Nat
        BY <3>1, <3>3 DEF Rows!End
      <4>2. <<Rows!Update("source", from.cashbox)>> \in Seq(LockRequest)
        BY <4>1, UpdateType DEF RowKinds
      <4> QED BY <3>3, <4>2 DEF Rows!SourceAvailability
    <3> QED BY <3>2, <3>3
  <2>3. Rows!Release(x.on) \in Seq(LockRequest)
    BY <2>1, <2>2 DEF Rows!Release
  <2> QED BY <1>4, <2>1, <2>3 DEF Rows!RequestsOf
<1> QED BY <1>1, <1>2, <1>3, <1>4

\* A command that locks in one order has that shape: an outcome,
LEMMA OutcomeShape ==
  ASSUME NEW i \in Rows!Instructions, NEW x
  PROVE  Shape(x, Rows!RecordOutcome(i))
<1> DEFINE q == Rows!RecordOutcome(i)
<1>1. /\ Len(q) = 3 /\ q[1] = Rows!Update("instruction", i)
      /\ q[2] = Rows!Share("payment", PaymentOf[i])
      /\ q[3] = Rows!Share("payment", ReversalOf[i])
  BY DEF Rows!RecordOutcome
<1>2. PaymentOf[i] \in Nat /\ ReversalOf[i] \in Nat /\ PaymentOf[i] < ReversalOf[i]
  BY OutcomeRows
<1> HIDE DEF q
<1>3. /\ q[1].row = <<"instruction", i>> /\ q[2].row = <<"payment", PaymentOf[i]>>
      /\ q[3].row = <<"payment", ReversalOf[i]>>
      /\ q[2].mode = "shared" /\ q[3].mode = "shared"
  BY <1>1 DEF Rows!Update, Rows!Share
<1>4. Later(q[2].row, q[1].row) /\ Later(q[3].row, q[1].row) /\ Later(q[3].row, q[2].row)
  BY <1>2, <1>3 DEF Later, Rank
<1>5. \A k \in 1 .. Len(q) : k \in {1, 2, 3} /\ q[k].row[1] \in {"instruction", "payment"}
  BY <1>1, <1>3
<1>6. ASSUME NEW k \in 1 .. Len(q), NEW j \in 1 .. k - 1
      PROVE  Later(q[k].row, q[j].row) /\ q[k].mode = "shared"
  <2>1. <<j, k>> \in {<<1, 2>>, <<1, 3>>, <<2, 3>>}
    BY <1>1
  <2> QED BY <1>3, <1>4, <2>1
<1>7. \A k \in 1 .. Len(q) : q[k].row[1] # "user" /\ q[k].row[1] # "reservation"
  BY <1>5
<1>8. "shared" # "exclusive"
  OBVIOUS
<1> QED BY <1>6, <1>7, <1>8 DEF Shape, q

\* the acknowledgement and the approval of a transfer,
LEMMA TransferShape ==
  ASSUME NEW t \in Rows!Transfers, NEW x
  PROVE  /\ Shape(x, Rows!Finish(t))
         /\ "cashbox" \in DOMAIN Route[t].from => Shape(x, Rows!Release(t))
<1> DEFINE q == Rows!Finish(t)
           r == Rows!Release(t)
<1>1. PICK s \in Seq(Nat), u \in Seq(LockRequest) :
           /\ q \in Seq(LockRequest)
           /\ Len(q) = 1 + Len(s) + Len(u)
           /\ q[1] = Rows!Update("transfer", t)
           /\ \A i \in 2 .. 1 + Len(s) : q[i] = Rows!Update("source", s[i - 1])
           /\ \A i \in 2 + Len(s) .. 1 + Len(s) + Len(u) :
                q[i].row[1] = "user" /\ q[i].mode = "shared"
           /\ \A i, j \in 1 .. Len(s) : i < j => s[i] < s[j]
           /\ "cashbox" \in DOMAIN Route[t].from =>
                \E i \in 1 .. Len(s) : s[i] = Route[t].from.cashbox
  BY FinishIs
<1> HIDE DEF q, r
<1> DEFINE n == Len(s)
           m == Len(u)
<1>2. n \in Nat /\ m \in Nat /\ Len(q) = 1 + n + m
  BY <1>1
<1>3. /\ q[1].row = <<"transfer", t>> /\ q[1].row[1] = "transfer" /\ q[1].mode = "exclusive"
      /\ Rank(q[1].row) = 0
  BY <1>1 DEF Rows!Update, Rank
<1>4. ASSUME NEW k \in 2 .. 1 + n
      PROVE  /\ q[k].row = <<"source", s[k - 1]>> /\ q[k].row[1] = "source"
             /\ q[k].row[2] = s[k - 1] /\ q[k].mode = "exclusive" /\ Rank(q[k].row) = 2
  <2>1. q[k] = Rows!Update("source", s[k - 1])
    BY <1>1
  <2> QED BY <2>1 DEF Rows!Update, Rank
<1>5. ASSUME NEW k \in 2 + n .. 1 + n + m
      PROVE  q[k].row[1] = "user" /\ q[k].mode = "shared" /\ Rank(q[k].row) = 3
  <2>1. q[k].row[1] = "user" /\ q[k].mode = "shared"
    BY <1>1
  <2> QED BY <2>1 DEF Rank
<1>6. \A k \in 1 .. Len(q) : k = 1 \/ k \in 2 .. 1 + n \/ k \in 2 + n .. 1 + n + m
  BY <1>2
<1>7. ASSUME NEW k \in 1 .. Len(q), NEW i \in 1 .. k - 1
      PROVE  /\ q[k].mode = "exclusive" => q[i].mode = "exclusive" /\ q[i].row # q[k].row
             /\ Later(q[k].row, q[i].row) \/ q[i].row[1] = "user"
  <2>0. k \in Nat /\ i \in Nat /\ i < k /\ 1 <= i
    BY <1>2
  <2>1. CASE k = 1
    BY <2>0, <2>1
  <2>2. CASE k \in 2 .. 1 + n
    <3>1. i = 1 \/ i \in 2 .. 1 + n
      BY <1>2, <2>0, <2>2
    <3>2. CASE i = 1
      <4>1. /\ Rank(q[i].row) = 0 /\ Rank(q[k].row) = 2 /\ q[i].mode = "exclusive"
            /\ q[i].row[1] = "transfer" /\ q[k].row[1] = "source"
        BY <1>3, <1>4, <2>2, <3>2
      <4> QED BY <4>1 DEF Later
    <3>3. CASE i \in 2 .. 1 + n
      <4>1. s[i - 1] < s[k - 1] /\ s[i - 1] \in Nat /\ s[k - 1] \in Nat
        <5> DEFINE a == i - 1
                   c == k - 1
        <5>1. a \in 1 .. Len(s) /\ c \in 1 .. Len(s) /\ a < c
          BY <1>2, <2>0, <2>2, <3>3
        <5> HIDE DEF a, c
        <5>2. s[a] < s[c] /\ s[a] \in Nat /\ s[c] \in Nat
          BY <1>1, <5>1
        <5> QED BY <5>2 DEF a, c
      <4>2. q[i].row[2] = s[i - 1] /\ q[k].row[2] = s[k - 1] /\ q[i].row[1] = "source"
            /\ q[k].row[1] = "source" /\ q[i].mode = "exclusive"
        BY <1>4, <2>2, <3>3
      <4>3. q[i].row # q[k].row /\ Later(q[k].row, q[i].row)
        BY <4>1, <4>2 DEF Later
      <4> QED BY <4>2, <4>3
    <3> QED BY <3>1, <3>2, <3>3
  <2>3. CASE k \in 2 + n .. 1 + n + m
    <3>1. q[k].mode = "shared" /\ Rank(q[k].row) = 3
      BY <1>5, <2>3
    <3>2. i = 1 \/ i \in 2 .. 1 + n \/ i \in 2 + n .. 1 + n + m
      BY <1>2, <1>6, <2>0
    <3>3. Rank(q[i].row) \in {0, 2} \/ q[i].row[1] = "user"
      BY <1>3, <1>4, <1>5, <3>2
    <3> QED BY <3>1, <3>3 DEF Later
  <2> QED BY <1>6, <2>1, <2>2, <2>3
<1>8. ASSUME NEW k \in 1 .. Len(q)
      PROVE  q[k].row[1] # "reservation" /\ (q[k].row[1] = "user" => q[k].mode = "shared")
  BY <1>3, <1>4, <1>5, <1>6
<1>9. Shape(x, q)
  BY <1>7, <1>8 DEF Shape
<1>10. ASSUME "cashbox" \in DOMAIN Route[t].from PROVE Shape(x, r)
  <2> DEFINE box == Route[t].from.cashbox
             last == <<Rows!Update("source", box)>>
  <2>1. PICK b \in 1 .. n : s[b] = box
    BY <1>1, <1>10
  <2>2. "user" \notin DOMAIN Route[t].from
    BY <1>10, RouteRows DEF Rows!End
  <2>3. r = q \o last
    BY <2>2 DEF Rows!Release, Rows!SourceAvailability, q, r
  <2>4. box \in Nat /\ last \in Seq(LockRequest) /\ Len(last) = 1
        /\ last[1] = Rows!Update("source", box)
    <3>1. box \in Nat
      BY <1>1, <2>1
    <3> HIDE DEF box
    <3> QED BY <3>1, UpdateType DEF RowKinds
  <2> DEFINE e == Len(q) + 1
  <2>5. /\ Len(r) = e /\ r[e] = Rows!Update("source", box)
        /\ \A i \in 1 .. Len(q) : r[i] = q[i]
    <3> HIDE DEF last
    <3>0. q \in Seq(LockRequest) /\ last \in Seq(LockRequest)
      BY <1>1, <2>4
    <3>1. /\ Len(q \o last) = Len(q) + Len(last)
          /\ \A i \in 1 .. Len(q) : (q \o last)[i] = q[i]
          /\ \A i \in Len(q) + 1 .. Len(q) + Len(last) : (q \o last)[i] = last[i - Len(q)]
      BY <3>0, Appended
    <3>2. Len(q) \in Nat /\ Len(last) = 1 /\ e \in Len(q) + 1 .. Len(q) + Len(last) /\ e - Len(q) = 1
      BY <1>2, <2>4
    <3> HIDE DEF e
    <3> QED
      <4>1. Len(r) = e
        BY <2>3, <3>1, <3>2 DEF e
      <4>2. r[e] = last[1]
        BY <2>3, <3>1, <3>2
      <4> QED BY <2>3, <2>4, <3>1, <4>1, <4>2
  <2>6. /\ b + 1 \in 1 .. e - 1 /\ b + 1 \in 2 .. 1 + n /\ e \in 2 .. e
        /\ \A i \in 1 .. e : i = e \/ i \in 1 .. Len(q)
    BY <1>2
  <2>7. r[b + 1].row = r[e].row /\ r[e].row[1] = "source"
    <3>1. b + 1 \in 1 .. Len(q) /\ (b + 1) - 1 = b
      BY <2>6
    <3>2. q[b + 1].row = <<"source", s[b]>>
      BY <1>4, <2>6, <3>1
    <3> QED BY <2>1, <2>5, <3>1, <3>2 DEF Rows!Update
  <2>8. ASSUME NEW i \in 1 .. Len(q), r[i].row = r[e].row PROVE r[i].mode = "exclusive"
    <3>1. q[i].row[1] = "source"
      BY <2>5, <2>7, <2>8
    <3>2. i \in 2 .. 1 + n
      BY <1>3, <1>5, <1>6, <3>1
    <3> QED BY <1>4, <2>5, <3>2
  <2> HIDE DEF e
  <2>9. \A i \in 1 .. e - 1 : i \in 1 .. Len(q)
    BY <1>2 DEF e
  <2>10. ASSUME NEW k \in 1 .. Len(q)
         PROVE  r[k] = q[k] /\ \A i \in 1 .. k - 1 : r[i] = q[i]
    <3>1. \A i \in 1 .. k - 1 : i \in 1 .. Len(q)
      BY <1>2
    <3> QED BY <2>5, <3>1
  <2>11. \A k \in 1 .. e : \A i \in 1 .. k - 1 :
           r[i].row = r[k].row /\ r[k].mode = "exclusive" => r[i].mode = "exclusive"
    <3>1. ASSUME NEW k \in 1 .. e, NEW i \in 1 .. k - 1,
                 r[i].row = r[k].row, r[k].mode = "exclusive"
          PROVE  r[i].mode = "exclusive"
      <4>1. CASE k = e
        BY <2>8, <2>9, <3>1, <4>1
      <4>2. CASE k \in 1 .. Len(q)
        <5>1. r[k] = q[k] /\ r[i] = q[i]
          BY <2>10, <4>2
        <5> QED BY <1>7, <3>1, <4>2, <5>1
      <4> QED BY <2>6, <4>1, <4>2
    <3> QED BY <3>1
  <2>12. \A k \in 1 .. e :
           \/ \E i \in 1 .. k - 1 : r[i].row = r[k].row
           \/ \A i \in 1 .. k - 1 : Later(r[k].row, r[i].row) \/ r[i].row[1] \in {"user", "reservation"}
    <3> SUFFICES ASSUME NEW k \in 1 .. e
                 PROVE  \/ \E i \in 1 .. k - 1 : r[i].row = r[k].row
                        \/ \A i \in 1 .. k - 1 :
                             Later(r[k].row, r[i].row) \/ r[i].row[1] \in {"user", "reservation"}
      OBVIOUS
    <3>1. CASE k = e
      BY <2>6, <2>7, <3>1
    <3>2. CASE k \in 1 .. Len(q)
      <4>1. ASSUME NEW i \in 1 .. k - 1 PROVE Later(r[k].row, r[i].row) \/ r[i].row[1] = "user"
        <5>1. r[k] = q[k] /\ r[i] = q[i]
          BY <2>10, <3>2
        <5> QED BY <1>7, <3>2, <5>1
      <4> QED BY <4>1
    <3> QED BY <2>6, <3>1, <3>2
  <2>13. \A k \in 1 .. e : r[k].row[1] # "reservation" /\ (r[k].row[1] = "user" => r[k].mode = "shared")
    BY <1>8, <2>6, <2>7, <2>10
  <2> QED BY <2>5, <2>11, <2>12, <2>13 DEF Shape
<1> QED BY <1>9, <1>10 DEF q, r

\* a payment from one source, or its reversal.
LEMMA PaymentShape ==
  ASSUME NEW x, NEW p \in Rows!Payments, x.on = p,
         Len(Sources[p]) = 1, Allocations[p] = <<>>, Reservations[p] = <<>>
  PROVE  Shape(x, Rows!ExecutePayment(p)) /\ Shape(x, Rows!ReversePayment(p))
<1> DEFINE s == Sources[p][1]
           first == <<Rows!Update("payment", p)>>
           rest == Rows!Payable(p, s)
           q == first \o rest
           r == first \o <<Rows!Update("source", s)>>
           ids == Reserved[p][s]
<1>1. Sources[p] \in Seq(Nat) /\ DOMAIN Sources[p] = 1 .. 1 /\ 1 \in 1 .. Len(Sources[p])
  BY PaymentRows
<1>2. s \in Nat /\ ids \in Seq(Nat) /\ s \in Rows!Range(Sources[p])
  BY <1>1, PaymentRows DEF Rows!Range
<1>3. first \in Seq(LockRequest) /\ Len(first) = 1 /\ first[1] = Rows!Update("payment", p)
  BY PaymentRows, UpdateType DEF RowKinds
<1>4. /\ rest \in Seq(LockRequest) /\ Len(rest) = 1 + Len(ids)
      /\ rest[1] = Rows!Update("source", s)
      /\ \A k \in 2 .. Len(rest) : rest[k] = Rows!Update("reservation", ids[k - 1])
  BY <1>1, PayableIs
<1>5. Rows!UpdateAll("allocation", <<>>) = <<>> /\ Rows!UpdateAll("reservation", <<>>) = <<>>
  BY DEF Rows!UpdateAll
<1>6. Rows!LockPayment(p) = first
  <2> HIDE DEF first
  <2>1. (first \o <<>>) \o <<>> = first
    BY <1>3
  <2> QED BY <1>5, <2>1 DEF Rows!LockPayment, first
<1>7. Rows!SiblingAllocations(p) = <<>>
  <2>1. [i \in DOMAIN Allocations[p] |->
           Rows!UpdateAll("allocation", Siblings[Allocations[p][i]])] = <<>>
    OBVIOUS
  <2>2. Rows!FlattenSeq(<<>>) = <<>>
    BY DEF Rows!FlattenSeq
  <2> QED BY <2>1, <2>2 DEF Rows!SiblingAllocations
<1>8. Rows!CheckSources(p) = rest
  <2> DEFINE ss == [i \in DOMAIN Sources[p] |-> Rows!Payable(p, Sources[p][i])]
  <2>1. Len(ss) = 1 /\ ss[1] = rest
    BY <1>1
  <2>2. Rows!CheckSources(p) = Rows!FlattenSeq(ss)
    BY DEF Rows!CheckSources
  <2> HIDE DEF ss, rest
  <2>3. PICK f : IsFlat(ss, f) /\ Rows!FlattenSeq(ss) = f[Len(ss)]
    <3>1. Len(ss) \in Nat \ {0}
      BY <2>1
    <3> QED BY <3>1, FlattenIs
  <2>4. f[1] = ss[1]
    BY <2>1, <2>3 DEF IsFlat
  <2> QED BY <2>1, <2>2, <2>3, <2>4
<1>9. Rows!ExecutePayment(p) = q
  <2>1. (first \o <<>>) \o rest = q
    <3> HIDE DEF first, rest
    <3> QED BY <1>3
  <2> QED BY <1>6, <1>7, <1>8, <2>1 DEF Rows!ExecutePayment
<1>10. Rows!ReversePayment(p) = r
  <2>1. Rows!UpdateAll("source", Sources[p]) = <<Rows!Update("source", s)>>
    BY <1>1 DEF Rows!UpdateAll
  <2> QED BY <1>6, <2>1 DEF Rows!ReversePayment
<1>11. /\ Len(q) = 2 + Len(ids) /\ q[1] = Rows!Update("payment", p)
       /\ q[2] = Rows!Update("source", s)
       /\ \A k \in 3 .. Len(q) : q[k] = Rows!Update("reservation", ids[k - 2]) /\ k - 2 \in 1 .. Len(ids)
  <2>1. first \in Seq(LockRequest) /\ rest \in Seq(LockRequest)
    BY <1>3, <1>4
  <2> HIDE DEF first, rest, ids, s
  <2>2. /\ Len(first \o rest) = Len(first) + Len(rest)
        /\ \A k \in 1 .. Len(first) : (first \o rest)[k] = first[k]
        /\ \A k \in Len(first) + 1 .. Len(first) + Len(rest) :
             (first \o rest)[k] = rest[k - Len(first)]
    BY <2>1, Appended
  <2>3. Len(ids) \in Nat
    BY <1>2
  <2>4. Len(q) = 2 + Len(ids) /\ q[1] = Rows!Update("payment", p) /\ q[2] = rest[1]
    BY <1>3, <1>4, <2>2, <2>3
  <2>5. ASSUME NEW k \in 3 .. 2 + Len(ids)
        PROVE  q[k] = Rows!Update("reservation", ids[k - 2]) /\ k - 2 \in 1 .. Len(ids)
    <3>1. /\ k \in Len(first) + 1 .. Len(first) + Len(rest) /\ k - Len(first) = k - 1
          /\ k - 1 \in 2 .. Len(rest) /\ (k - 1) - 1 = k - 2 /\ k - 2 \in 1 .. Len(ids)
      BY <1>3, <1>4, <2>3
    <3>2. q[k] = rest[k - 1]
      BY <2>2, <3>1
    <3>3. rest[k - 1] = Rows!Update("reservation", ids[(k - 1) - 1])
      BY <1>4, <3>1
    <3> QED BY <3>1, <3>2, <3>3
  <2> QED BY <1>4, <2>4, <2>5
<1>12. Len(r) = 2 /\ r[1] = Rows!Update("payment", p) /\ r[2] = Rows!Update("source", s)
  OBVIOUS
<1> HIDE DEF q, r
<1>13. Later(Rows!Update("source", s).row, Rows!Update("payment", p).row)
  BY DEF Later, Rank, Rows!Update
<1>14. ASSUME NEW id
       PROVE  /\ Later(Rows!Update("reservation", id).row, Rows!Update("payment", p).row)
              /\ Later(Rows!Update("reservation", id).row, Rows!Update("source", s).row)
  BY DEF Later, Rank, Rows!Update
<1>15. ASSUME NEW kind, NEW id
       PROVE  /\ Rows!Update(kind, id).mode = "exclusive" /\ Rows!Update(kind, id).row[1] = kind
              /\ Rows!Update(kind, id).row[2] = id
  BY DEF Rows!Update
<1>16. Shape(x, Rows!ReversePayment(p))
  <2>1. \A k \in 1 .. 2 : r[k].mode = "exclusive" /\ r[k].row[1] \in {"payment", "source"}
    BY <1>12, <1>15
  <2>2. \A k \in 1 .. 2 : \A i \in 1 .. k - 1 : k = 2 /\ i = 1
    OBVIOUS
  <2>3. Later(r[2].row, r[1].row)
    BY <1>12, <1>13
  <2>4. \A k \in 1 .. 2 : \A i \in 1 .. k - 1 : i \in 1 .. 2
    OBVIOUS
  <2> QED BY <1>10, <1>12, <2>1, <2>2, <2>3, <2>4 DEF Shape
<1>17. Shape(x, Rows!ExecutePayment(p))
  <2>0. Len(ids) \in Nat
    BY <1>2
  <2>1. \A k \in 1 .. Len(q) : k = 1 \/ k = 2 \/ k \in 3 .. Len(q)
    BY <1>11, <2>0
  <2>2. ASSUME NEW k \in 1 .. Len(q)
        PROVE  q[k].mode = "exclusive" /\ q[k].row[1] # "user"
    BY <1>11, <1>15, <2>1
  <2>3. ASSUME NEW k \in 1 .. Len(q), NEW i \in 1 .. k - 1
        PROVE  i \in 1 .. Len(q) /\ (Later(q[k].row, q[i].row) \/ q[i].row[1] = "reservation")
    <3>1. i \in 1 .. Len(q) /\ i < k
      BY <1>11, <2>0
    <3>2. CASE i \in 3 .. Len(q)
      BY <1>11, <1>15, <3>2
    <3>3. CASE k = 2 /\ i = 1
      BY <1>11, <1>13, <3>3
    <3>4. CASE k \in 3 .. Len(q) /\ i = 1
      BY <1>11, <1>14, <3>4
    <3>5. CASE k \in 3 .. Len(q) /\ i = 2
      BY <1>11, <1>14, <3>5
    <3> QED BY <2>1, <3>1, <3>2, <3>3, <3>4, <3>5
  <2>4. ASSUME NEW k \in 1 .. Len(q), q[k].row[1] = "reservation"
        PROVE  2 < k /\ q[k].row[2] \in Rows!Range(ids)
    <3>1. q[1].row[1] = "payment" /\ q[2].row[1] = "source"
      BY <1>11, <1>15
    <3>2. k \in 3 .. Len(q)
      BY <2>1, <2>4, <3>1
    <3>3. q[k].row[2] = ids[k - 2] /\ k - 2 \in DOMAIN ids /\ 2 < k
      BY <1>2, <1>11, <1>15, <3>2
    <3> QED BY <3>3 DEF Rows!Range
  <2>5. q[2] = Rows!Update("source", s)
    BY <1>11
  <2> HIDE DEF s, ids
  <2>6. \A k \in 1 .. Len(q) : \A i \in 1 .. k - 1 : q[i].mode = "exclusive"
    BY <2>2, <2>3
  <2>7. \A k \in 1 .. Len(q) : q[k].row[1] = "reservation" =>
       /\ x.on \in Rows!Payments /\ 2 < k
       /\ \E e \in Rows!Range(Sources[x.on]) :
            /\ q[2] = Rows!Update("source", e)
            /\ q[k].row[2] \in Rows!Range(Reserved[x.on][e])
    BY <1>2, <2>4, <2>5 DEF ids
  <2>8. Shape(x, q)
    BY <2>2, <2>3, <2>6, <2>7 DEF Shape
  <2> QED BY <1>9, <2>8
<1> QED BY <1>16, <1>17

LEMMA OrderedShape ==
  ASSUME NEW x \in Tasks, Rows!InOneOrder(x)
  PROVE  Shape(x, Rows!RequestsOf(x))
<1>1. \/ x.do \in {"act", "execute", "reverse"} /\ x.on \in Rows!Payments
      \/ x.do = "outcome" /\ x.on \in Rows!Instructions
      \/ x.do \in {"release", "finish"} /\ x.on \in Rows!Transfers
  BY PartsAssumption DEF Rows!TasksAssumption
<1>2. CASE x.do = "outcome"
  BY <1>1, <1>2, OutcomeShape DEF Rows!RequestsOf
<1>3. CASE x.do \in {"finish", "release"}
  BY <1>1, <1>3, TransferShape DEF Rows!RequestsOf, Rows!InOneOrder
<1>4. CASE x.do \in {"execute", "reverse"}
  BY <1>1, <1>4, PaymentShape DEF Rows!RequestsOf, Rows!InOneOrder
<1> QED BY <1>2, <1>3, <1>4 DEF Rows!InOneOrder

-------------------------------------------------------------------------------
(* What every state of the lock manager keeps                               *)

\* The i-th lock of c.
Granted(c, i) ==
  [by |-> c, row |-> Rows!Requests(c)[i].row, mode |-> Rows!Requests(c)[i].mode]

\* A command holds the locks it has asked for so far.
LocksTaken ==
  /\ \A c \in LockCommands : state[c] = "running" =>
       \A i \in 1 .. taken[c] : Granted(c, i) \in locks
  /\ \A l \in locks : \E i \in 1 .. taken[l.by] : l = Granted(l.by, i)

\* Who waits has more to ask for, and those before it waited before.
QueueInOrder ==
  \A c \in DOMAIN waiting : Rows!Wants(c) /\ \A d \in waiting[c] : waiting[d] \subseteq waiting[c]

\* A command that locks in one order never waits for a row it holds.
NothingHeldIsAwaited ==
  \A c \in DOMAIN waiting : Rows!InOneOrder(work[c]) =>
    \A l \in locks : l.by = c => l.row # Rows!Request(c).row

LockInvariant == Rows!LockTypeOK /\ LocksTaken /\ QueueInOrder /\ NothingHeldIsAwaited

\* The next request of a command that has more to ask for.
LEMMA NextRequest ==
  ASSUME Rows!LockTypeOK, NEW c \in LockCommands
  PROVE  /\ work[c] \in Tasks /\ taken[c] \in Nat
         /\ Rows!Requests(c) = Rows!RequestsOf(work[c])
         /\ Rows!Requests(c) \in Seq(LockRequest) /\ Len(Rows!Requests(c)) \in Nat
         /\ taken[c] <= Len(Rows!Requests(c))
         /\ Rows!Wants(c) => /\ taken[c] + 1 \in 1 .. Len(Rows!Requests(c))
                             /\ Rows!Request(c) = Rows!Requests(c)[taken[c] + 1]
                             /\ Rows!Request(c).mode \in {"exclusive", "shared"}
<1>1. work[c] \in Tasks /\ taken[c] \in Nat /\ taken[c] <= Len(Rows!Requests(c))
  BY DEF Rows!LockTypeOK
<1>2. Rows!Requests(c) = Rows!RequestsOf(work[c])
  BY DEF Rows!Requests
<1>3. Rows!Requests(c) \in Seq(LockRequest)
  BY <1>1, <1>2, RequestsTyped
<1>4. Len(Rows!Requests(c)) \in Nat
  BY <1>3
<1>5. ASSUME Rows!Wants(c)
      PROVE  /\ taken[c] + 1 \in 1 .. Len(Rows!Requests(c))
             /\ Rows!Request(c) = Rows!Requests(c)[taken[c] + 1]
             /\ Rows!Request(c).mode \in {"exclusive", "shared"}
  <2>1. taken[c] + 1 \in 1 .. Len(Rows!Requests(c))
    BY <1>1, <1>4, <1>5 DEF Rows!Wants
  <2>2. Rows!Requests(c)[taken[c] + 1] \in LockRequest
    <3> DEFINE q == Rows!Requests(c)
               k == taken[c] + 1
    <3> HIDE DEF q, k, LockRequest
    <3>1. q \in Seq(LockRequest) /\ k \in 1 .. Len(q)
      BY <1>3, <2>1 DEF q, k
    <3>2. q[k] \in LockRequest
      BY <3>1
    <3> QED BY <3>2 DEF q, k
  <2> QED BY <2>1, <2>2 DEF Rows!Request, LockRequest
<1> QED BY <1>1, <1>2, <1>3, <1>4, <1>5

\* What has been taken stays what it was.
LEMMA RequestsStay ==
  ASSUME work' = work, NEW c
  PROVE  /\ Rows!Requests(c)' = Rows!Requests(c)
         /\ \A i : Granted(c, i)' = Granted(c, i)
  BY DEF Rows!Requests, Granted

LEMMA InitLocks ==
  ASSUME Rows!Init
  PROVE  LockInvariant
<1>1. /\ work \in [LockCommands -> Tasks] /\ taken = [c \in LockCommands |-> 0]
      /\ state = [c \in LockCommands |-> "running"] /\ locks = {} /\ DOMAIN waiting = {}
  BY DEF Rows!Init
<1>2. \A c \in LockCommands : 0 <= Len(Rows!Requests(c))
  <2> SUFFICES ASSUME NEW c \in LockCommands PROVE 0 <= Len(Rows!Requests(c))
    OBVIOUS
  <2>1. Rows!Requests(c) \in Seq(LockRequest)
    BY <1>1, RequestsTyped DEF Rows!Requests
  <2> QED BY <2>1
<1>3. Rows!LockTypeOK
  BY <1>1, <1>2 DEF Rows!LockTypeOK
<1>4. LocksTaken
  BY <1>1 DEF LocksTaken
<1> QED BY <1>1, <1>3, <1>4 DEF LockInvariant, QueueInOrder, NothingHeldIsAwaited

LEMMA LockStep ==
  ASSUME LockInvariant, NEW c \in LockCommands, Rows!Lock(c)
  PROVE  LockInvariant'
<1> DEFINE new == [by |-> c, row |-> Rows!Request(c).row, mode |-> Rows!Request(c).mode]
<1>0. /\ Rows!LockTypeOK /\ LocksTaken /\ QueueInOrder /\ NothingHeldIsAwaited
      /\ Rows!Wants(c) /\ Rows!Blockers(c) = {}
      /\ locks' = locks \cup {new} /\ taken' = [taken EXCEPT ![c] = @ + 1]
      /\ waiting' = Rows!Left(c) /\ work' = work /\ state' = state
  BY DEF LockInvariant, Rows!Lock
<1>1. /\ taken[c] \in Nat /\ taken[c] + 1 \in 1 .. Len(Rows!Requests(c))
      /\ Len(Rows!Requests(c)) \in Nat /\ new.mode \in {"exclusive", "shared"}
      /\ new = Granted(c, taken[c] + 1)
  BY <1>0, NextRequest DEF Granted
<1>2. \A d : Rows!Requests(d)' = Rows!Requests(d) /\ \A i : Granted(d, i)' = Granted(d, i)
  BY <1>0, RequestsStay
<1>3. /\ taken \in [LockCommands -> Nat] /\ taken' \in [LockCommands -> Nat]
      /\ taken'[c] = taken[c] + 1
      /\ \A d \in LockCommands : d # c => taken'[d] = taken[d]
  BY <1>0, <1>1 DEF Rows!LockTypeOK
<1>4. /\ DOMAIN waiting' = DOMAIN waiting \ {c}
      /\ \A d \in DOMAIN waiting' : waiting'[d] = waiting[d] \ {c}
  BY <1>0 DEF Rows!Left
<1>5. ASSUME NEW k \in locks, k.by # c PROVE ~Rows!Conflict(new, k) /\ ~Rows!Conflict(k, new)
  <2>1. ~Rows!Conflict(Rows!Request(c), k)
    BY <1>0, <1>5 DEF Rows!Blockers
  <2> QED BY <2>1 DEF Rows!Conflict
<1>6. Rows!LockTypeOK'
  <2>1. \A d \in LockCommands : taken'[d] <= Len(Rows!Requests(d)')
    BY <1>0, <1>1, <1>2, <1>3 DEF Rows!LockTypeOK
  <2>2. \A l \in locks' : /\ l.by \in LockCommands /\ l.mode \in {"exclusive", "shared"}
                          /\ state[l.by] = "running"
    BY <1>0, <1>1 DEF Rows!LockTypeOK, Rows!Wants
  <2>3. \A k, l \in locks' : k.by # l.by => ~Rows!Conflict(k, l)
    <3> SUFFICES ASSUME NEW k \in locks', NEW l \in locks', k.by # l.by
                 PROVE  ~Rows!Conflict(k, l)
      OBVIOUS
    <3>1. k \in locks \/ k = new
      BY <1>0
    <3>2. l \in locks \/ l = new
      BY <1>0
    <3>3. new.by = c
      OBVIOUS
    <3> HIDE DEF new
    <3>4. CASE k \in locks /\ l \in locks
      BY <1>0, <3>4 DEF Rows!LockTypeOK
    <3>5. CASE k = new /\ l \in locks
      BY <1>5, <3>3, <3>5
    <3>6. CASE k \in locks /\ l = new
      BY <1>5, <3>3, <3>6
    <3> QED BY <3>1, <3>2, <3>4, <3>5, <3>6
  <2>4. /\ DOMAIN waiting' \subseteq LockCommands
        /\ \A d \in DOMAIN waiting' : waiting'[d] \subseteq DOMAIN waiting' \ {d}
    BY <1>0, <1>4 DEF Rows!LockTypeOK
  <2>5. work' \in [LockCommands -> Tasks] /\ state' \in [LockCommands -> {"running", "committed", "aborted"}]
    BY <1>0 DEF Rows!LockTypeOK
  <2>6. (\A k, l \in locks : k.by # l.by => ~Rows!Conflict(k, l))'
    BY <2>3 DEF Rows!Conflict
  <2>7. (\A l \in locks : state[l.by] = "running")'
    BY <1>0, <2>2
  <2> QED BY <1>3, <2>1, <2>2, <2>4, <2>5, <2>6, <2>7 DEF Rows!LockTypeOK
<1>7. LocksTaken'
  <2>1. ASSUME NEW d \in LockCommands, state[d] = "running", NEW i \in 1 .. taken'[d]
        PROVE  Granted(d, i) \in locks'
    <3>1. CASE i \in 1 .. taken[d]
      BY <1>0, <2>1, <3>1 DEF LocksTaken
    <3>2. CASE i \notin 1 .. taken[d]
      <4>1. d = c /\ i = taken[c] + 1
        BY <1>1, <1>3, <2>1, <3>2
      <4> QED BY <1>0, <1>1, <4>1
    <3> QED BY <3>1, <3>2
  <2>2. ASSUME NEW l \in locks' PROVE \E i \in 1 .. taken'[l.by] : l = Granted(l.by, i)
    <3>1. CASE l \in locks
      <4>1. PICK i \in 1 .. taken[l.by] : l = Granted(l.by, i)
        BY <1>0, <3>1 DEF LocksTaken
      <4>2. l.by \in LockCommands
        BY <1>0, <3>1 DEF Rows!LockTypeOK
      <4>3. i \in 1 .. taken'[l.by]
        BY <1>1, <1>3, <4>1, <4>2
      <4> QED BY <4>1, <4>3
    <3>2. CASE l = new
      <4>1. l.by = c /\ taken[c] + 1 \in 1 .. taken'[c]
        BY <1>1, <1>3, <3>2
      <4> QED BY <1>1, <3>2, <4>1
    <3> QED BY <1>0, <3>1, <3>2
  <2> QED BY <1>0, <1>2, <2>1, <2>2 DEF LocksTaken
<1>8. ASSUME NEW d \in DOMAIN waiting'
      PROVE  /\ d # c /\ d \in DOMAIN waiting /\ d \in LockCommands /\ taken'[d] = taken[d]
             /\ Rows!Wants(d)' = Rows!Wants(d) /\ Rows!Request(d)' = Rows!Request(d)
  <2>1. d # c /\ d \in DOMAIN waiting /\ d \in LockCommands
    BY <1>0, <1>4 DEF Rows!LockTypeOK
  <2> QED BY <1>0, <1>2, <1>3, <2>1 DEF Rows!Wants, Rows!Request
<1>9. QueueInOrder'
  <2>1. ASSUME NEW d \in DOMAIN waiting', NEW e \in waiting'[d] PROVE waiting'[e] \subseteq waiting'[d]
    <3>1. e \in waiting[d] /\ e # c /\ d \in DOMAIN waiting
      BY <1>4, <2>1
    <3>2. e \in DOMAIN waiting /\ waiting[e] \subseteq waiting[d]
      BY <1>0, <3>1 DEF QueueInOrder, Rows!LockTypeOK
    <3> QED BY <1>4, <2>1, <3>1, <3>2
  <2>2. \A d \in DOMAIN waiting' : Rows!Wants(d)'
    BY <1>0, <1>8 DEF QueueInOrder
  <2> QED BY <2>1, <2>2 DEF QueueInOrder
<1>10. NothingHeldIsAwaited'
  <2>1. ASSUME NEW d \in DOMAIN waiting', Rows!InOneOrder(work[d]), NEW l \in locks', l.by = d
        PROVE  l.row # Rows!Request(d)'.row
    <3>1. l \in locks
      BY <1>0, <1>8, <2>1
    <3> QED BY <1>0, <1>8, <2>1, <3>1 DEF NothingHeldIsAwaited
  <2>2. \A d : Rows!InOneOrder(work[d])' = Rows!InOneOrder(work[d])
    BY <1>0 DEF Rows!InOneOrder
  <2> QED BY <2>1, <2>2 DEF NothingHeldIsAwaited
<1> QED BY <1>6, <1>7, <1>9, <1>10 DEF LockInvariant

\* What c waits for is not a row it holds.
LEMMA AwaitedIsNotHeld ==
  ASSUME LockInvariant, NEW c \in LockCommands, Rows!Wants(c), Rows!Blockers(c) # {},
         Rows!InOneOrder(work[c]), NEW l \in locks, l.by = c
  PROVE  l.row # Rows!Request(c).row
<1> SUFFICES ASSUME l.row = Rows!Request(c).row PROVE FALSE
  OBVIOUS
<1> DEFINE q == Rows!Requests(c)
           n == taken[c] + 1
<1>1. /\ Rows!LockTypeOK /\ LocksTaken
      /\ n \in 1 .. Len(q) /\ Rows!Request(c) = q[n] /\ taken[c] \in Nat
  BY NextRequest DEF LockInvariant
<1>2. Shape(work[c], q)
  BY <1>1, NextRequest, OrderedShape
<1>3. PICK i \in 1 .. taken[c] : l = Granted(c, i)
  BY <1>1 DEF LocksTaken
<1>4. l.row = q[i].row /\ l.mode = q[i].mode /\ i \in 1 .. n - 1
  BY <1>1, <1>3 DEF Granted
<1>5. PICK k \in locks : k.by # c /\ Rows!Conflict(Rows!Request(c), k)
  BY DEF Rows!Blockers
<1>6. ~Rows!Conflict(k, l)
  BY <1>1, <1>5 DEF Rows!LockTypeOK
<1>7. k.row = l.row /\ k.mode # "exclusive" /\ l.mode # "exclusive"
  BY <1>5, <1>6 DEF Rows!Conflict
<1>8. q[n].mode = "exclusive" /\ q[n].row = q[i].row
  <2>1. "exclusive" \in {Rows!Request(c).mode, k.mode}
    BY <1>5 DEF Rows!Conflict
  <2> QED BY <1>1, <1>4, <1>7, <2>1
<1>9. q[i].mode = "exclusive"
  <2> HIDE DEF q, n
  <2> QED BY <1>1, <1>2, <1>4, <1>8 DEF Shape
<1> QED BY <1>4, <1>7, <1>9

LEMMA WaitStep ==
  ASSUME LockInvariant, NEW c \in LockCommands, Rows!Wait(c)
  PROVE  LockInvariant'
<1>0. /\ Rows!LockTypeOK /\ LocksTaken /\ QueueInOrder /\ NothingHeldIsAwaited
      /\ Rows!Wants(c) /\ c \notin DOMAIN waiting /\ Rows!Blockers(c) # {}
      /\ locks' = locks /\ taken' = taken /\ work' = work /\ state' = state
  BY DEF LockInvariant, Rows!Wait, Rows!Waits
<1>1. \A d : Rows!Requests(d)' = Rows!Requests(d) /\ \A i : Granted(d, i)' = Granted(d, i)
  BY <1>0, RequestsStay
<1>2. /\ DOMAIN waiting' = DOMAIN waiting \cup {c} /\ waiting'[c] = DOMAIN waiting
      /\ \A d \in DOMAIN waiting : waiting'[d] = waiting[d]
  BY <1>0 DEF Rows!Wait
<1>3. \A d : Rows!Wants(d)' = Rows!Wants(d) /\ Rows!Request(d)' = Rows!Request(d)
  BY <1>0, <1>1 DEF Rows!Wants, Rows!Request
<1>4. Rows!LockTypeOK'
  <2>1. /\ DOMAIN waiting' \subseteq LockCommands
        /\ \A d \in DOMAIN waiting' : waiting'[d] \subseteq DOMAIN waiting' \ {d}
    BY <1>0, <1>2 DEF Rows!LockTypeOK
  <2>2. (\A k, l \in locks : k.by # l.by => ~Rows!Conflict(k, l))'
    BY <1>0 DEF Rows!LockTypeOK, Rows!Conflict
  <2>3. /\ work' \in [LockCommands -> Tasks]
        /\ taken' \in [LockCommands -> Nat]
        /\ \A d \in LockCommands : taken'[d] <= Len(Rows!Requests(d)')
        /\ state' \in [LockCommands -> {"running", "committed", "aborted"}]
        /\ \A l \in locks' : l.by \in LockCommands /\ l.mode \in {"exclusive", "shared"}
        /\ \A l \in locks' : state'[l.by] = "running"
    BY <1>0, <1>1 DEF Rows!LockTypeOK
  <2> QED BY <2>1, <2>2, <2>3 DEF Rows!LockTypeOK
<1>5. LocksTaken'
  BY <1>0, <1>1 DEF LocksTaken
<1>6. QueueInOrder'
  <2>1. ASSUME NEW d \in DOMAIN waiting', NEW e \in waiting'[d] PROVE waiting'[e] \subseteq waiting'[d]
    <3>1. CASE d = c
      BY <1>0, <1>2, <2>1, <3>1 DEF Rows!LockTypeOK
    <3>2. CASE d # c
      <4>1. d \in DOMAIN waiting /\ e \in waiting[d]
        BY <1>2, <2>1, <3>2
      <4>2. e \in DOMAIN waiting /\ waiting[e] \subseteq waiting[d]
        BY <1>0, <4>1 DEF QueueInOrder, Rows!LockTypeOK
      <4> QED BY <1>2, <4>1, <4>2
    <3> QED BY <3>1, <3>2
  <2>2. \A d \in DOMAIN waiting' : Rows!Wants(d)'
    BY <1>0, <1>2, <1>3 DEF QueueInOrder
  <2> QED BY <2>1, <2>2 DEF QueueInOrder
<1>7. NothingHeldIsAwaited'
  <2>1. ASSUME NEW d \in DOMAIN waiting', Rows!InOneOrder(work[d]), NEW l \in locks, l.by = d
        PROVE  l.row # Rows!Request(d).row
    <3>1. CASE d = c
      BY <1>0, <2>1, <3>1, AwaitedIsNotHeld
    <3>2. CASE d # c
      BY <1>0, <1>2, <2>1, <3>2 DEF NothingHeldIsAwaited
    <3> QED BY <3>1, <3>2
  <2>2. \A d : Rows!InOneOrder(work[d])' = Rows!InOneOrder(work[d])
    BY <1>0 DEF Rows!InOneOrder
  <2> QED BY <1>0, <1>3, <2>1, <2>2 DEF NothingHeldIsAwaited
<1> QED BY <1>4, <1>5, <1>6, <1>7 DEF LockInvariant

\* A transaction that ends gives back its locks and leaves the queue.
LEMMA EndStep ==
  ASSUME LockInvariant, NEW c \in LockCommands, Rows!Commit(c) \/ Rows!Abort(c)
  PROVE  LockInvariant'
<1>0. /\ Rows!LockTypeOK /\ LocksTaken /\ QueueInOrder /\ NothingHeldIsAwaited
      /\ locks' = Rows!Released(c) /\ taken' = taken /\ work' = work
  BY DEF LockInvariant, Rows!Commit, Rows!Abort
<1>1. \A d : Rows!Requests(d)' = Rows!Requests(d) /\ \A i : Granted(d, i)' = Granted(d, i)
  BY <1>0, RequestsStay
<1>2. /\ state' \in [LockCommands -> {"running", "committed", "aborted"}]
      /\ state'[c] # "running" /\ \A d \in LockCommands : d # c => state'[d] = state[d]
  BY <1>0 DEF Rows!LockTypeOK, Rows!Commit, Rows!Abort
<1>3. /\ DOMAIN waiting' = DOMAIN waiting \ {c}
      /\ \A d \in DOMAIN waiting' : waiting'[d] = waiting[d] \ {c}
  <2>1. CASE Rows!Commit(c)
    <3>1. ~Rows!Wants(c) /\ waiting' = waiting
      BY <1>0, <2>1, NextRequest DEF Rows!Commit, Rows!Wants
    <3>2. c \notin DOMAIN waiting
      BY <1>0, <3>1 DEF QueueInOrder
    <3> QED BY <1>0, <3>1, <3>2 DEF Rows!LockTypeOK
  <2>2. CASE Rows!Abort(c)
    BY <2>2 DEF Rows!Abort, Rows!Left
  <2> QED BY <2>1, <2>2
<1>4. \A l : l \in locks' <=> l \in locks /\ l.by # c
  BY <1>0 DEF Rows!Released
<1>5. ASSUME NEW d \in DOMAIN waiting'
      PROVE  /\ d # c /\ d \in DOMAIN waiting /\ d \in LockCommands
             /\ Rows!Wants(d)' = Rows!Wants(d) /\ Rows!Request(d)' = Rows!Request(d)
  <2>1. d # c /\ d \in DOMAIN waiting /\ d \in LockCommands
    BY <1>0, <1>3 DEF Rows!LockTypeOK
  <2> QED BY <1>0, <1>1, <1>2, <2>1 DEF Rows!Wants, Rows!Request
<1>6. Rows!LockTypeOK'
  <2>1. /\ DOMAIN waiting' \subseteq LockCommands
        /\ \A d \in DOMAIN waiting' : waiting'[d] \subseteq DOMAIN waiting' \ {d}
    BY <1>0, <1>3 DEF Rows!LockTypeOK
  <2>2. (\A k, l \in locks : k.by # l.by => ~Rows!Conflict(k, l))'
    <3>1. \A k, l \in locks' : k.by # l.by => ~Rows!Conflict(k, l)
      BY <1>0, <1>4 DEF Rows!LockTypeOK
    <3> QED BY <3>1 DEF Rows!Conflict
  <2>3. /\ work' \in [LockCommands -> Tasks]
        /\ taken' \in [LockCommands -> Nat]
        /\ \A d \in LockCommands : taken'[d] <= Len(Rows!Requests(d)')
    BY <1>0, <1>1 DEF Rows!LockTypeOK
  <2>4. /\ \A l \in locks' : l.by \in LockCommands /\ l.mode \in {"exclusive", "shared"}
        /\ \A l \in locks' : state'[l.by] = "running"
    BY <1>0, <1>2, <1>4 DEF Rows!LockTypeOK
  <2> QED BY <1>2, <2>1, <2>2, <2>3, <2>4 DEF Rows!LockTypeOK
<1>7. LocksTaken'
  <2>1. ASSUME NEW d \in LockCommands, state'[d] = "running", NEW i \in 1 .. taken[d]
        PROVE  Granted(d, i) \in locks'
    <3>1. d # c /\ Granted(d, i) \in locks
      BY <1>0, <1>2, <2>1 DEF LocksTaken
    <3> QED BY <1>4, <3>1 DEF Granted
  <2>2. ASSUME NEW l \in locks' PROVE \E i \in 1 .. taken[l.by] : l = Granted(l.by, i)
    BY <1>0, <1>4 DEF LocksTaken
  <2> QED BY <1>0, <1>1, <2>1, <2>2 DEF LocksTaken
<1>8. QueueInOrder'
  <2>1. ASSUME NEW d \in DOMAIN waiting', NEW e \in waiting'[d] PROVE waiting'[e] \subseteq waiting'[d]
    <3>1. e \in waiting[d] /\ e # c /\ d \in DOMAIN waiting
      BY <1>3, <2>1
    <3>2. e \in DOMAIN waiting /\ waiting[e] \subseteq waiting[d]
      BY <1>0, <3>1 DEF QueueInOrder, Rows!LockTypeOK
    <3> QED BY <1>3, <2>1, <3>1, <3>2
  <2>2. \A d \in DOMAIN waiting' : Rows!Wants(d)'
    BY <1>0, <1>5 DEF QueueInOrder
  <2> QED BY <2>1, <2>2 DEF QueueInOrder
<1>9. NothingHeldIsAwaited'
  <2>1. ASSUME NEW d \in DOMAIN waiting', Rows!InOneOrder(work[d]), NEW l \in locks', l.by = d
        PROVE  l.row # Rows!Request(d)'.row
    BY <1>0, <1>4, <1>5, <2>1 DEF NothingHeldIsAwaited
  <2>2. \A d : Rows!InOneOrder(work[d])' = Rows!InOneOrder(work[d])
    BY <1>0 DEF Rows!InOneOrder
  <2> QED BY <2>1, <2>2 DEF NothingHeldIsAwaited
<1> QED BY <1>6, <1>7, <1>8, <1>9 DEF LockInvariant

LEMMA LocksStay ==
  ASSUME LockInvariant, UNCHANGED lockPart
  PROVE  LockInvariant'
<1>1. LocksTaken'
  BY RequestsStay DEF LockInvariant, LocksTaken, lockPart
<1>2. Rows!LockTypeOK'
  <2>1. \A c : Rows!Requests(c)' = Rows!Requests(c)
    BY RequestsStay DEF lockPart
  <2> QED BY <2>1 DEF LockInvariant, Rows!LockTypeOK, Rows!Conflict, lockPart
<1>3. QueueInOrder' /\ NothingHeldIsAwaited'
  <2>1. \A c : Rows!Wants(c)' = Rows!Wants(c) /\ Rows!Request(c)' = Rows!Request(c)
    BY RequestsStay DEF lockPart, Rows!Wants, Rows!Request
  <2>2. \A c : Rows!InOneOrder(work[c])' = Rows!InOneOrder(work[c])
    BY DEF lockPart, Rows!InOneOrder
  <2> QED BY <2>1, <2>2 DEF LockInvariant, QueueInOrder, NothingHeldIsAwaited, lockPart
<1> QED BY <1>1, <1>2, <1>3 DEF LockInvariant

LEMMA LocksNext ==
  ASSUME LockInvariant, Rows!Next
  PROVE  LockInvariant'
<1>1. ASSUME NEW c \in LockCommands, Rows!Lock(c) PROVE LockInvariant'
  BY <1>1, LockStep
<1>2. ASSUME NEW c \in LockCommands, Rows!Wait(c) PROVE LockInvariant'
  BY <1>2, WaitStep
<1>3. ASSUME NEW c \in LockCommands, Rows!Commit(c) \/ Rows!Abort(c) PROVE LockInvariant'
  BY <1>3, EndStep
<1>4. CASE Rows!Done
  <2>1. UNCHANGED lockPart
    BY <1>4 DEF Rows!Done, Rows!vars, lockPart
  <2> QED BY <2>1, LocksStay
<1> QED BY <1>1, <1>2, <1>3, <1>4 DEF Rows!Next

-------------------------------------------------------------------------------
(* Why commands that lock in one order never wait in a circle               *)

\* What d is, where it is in the way of c: it runs on, it asks for a later row than
\* c does, or for the same row, and waited before c.
Ahead(d, c) ==
  \/ ~Rows!Waits(d)
  \/ Later(Rows!Request(d).row, Rows!Request(c).row)
  \/ Rows!Request(d).row = Rows!Request(c).row /\ d \in waiting[c]

\* The sources of two payments that ask for the same reservation are one.
LEMMA OneReserved ==
  ASSUME NEW p \in Rows!Payments, NEW q \in Rows!Payments,
         NEW s \in Rows!Range(Sources[p]), NEW t \in Rows!Range(Sources[q]),
         NEW id, id \in Rows!Range(Reserved[p][s]), id \in Rows!Range(Reserved[q][t])
  PROVE  s = t
<1>1. Rows!RowsAssumption
  BY PartsAssumption
<1>2. s # t => Rows!Range(Reserved[p][s]) \cap Rows!Range(Reserved[q][t]) = {}
  BY <1>1 DEF Rows!RowsAssumption
<1> QED BY <1>2

\* Whom a command waits for is ahead of it.
LEMMA BlockersAreAhead ==
  ASSUME LockInvariant, NEW c \in Rows!Ordered, Rows!Waits(c),
         NEW d \in Rows!Ordered, d \in Rows!Blockers(c)
  PROVE  Ahead(d, c)
<1> SUFFICES ASSUME Rows!Waits(d) PROVE Ahead(d, c)
  BY DEF Ahead
<1> DEFINE qc == Rows!Requests(c)
           qd == Rows!Requests(d)
           m == taken[c] + 1
           n == taken[d] + 1
<1>0. Rows!LockTypeOK /\ LocksTaken /\ QueueInOrder /\ NothingHeldIsAwaited
  BY DEF LockInvariant
<1>1. /\ c \in LockCommands /\ d \in LockCommands /\ c \in DOMAIN waiting /\ d \in DOMAIN waiting
      /\ Rows!InOneOrder(work[c]) /\ Rows!InOneOrder(work[d])
      /\ Rows!Wants(c) /\ Rows!Wants(d)
  BY <1>0 DEF Rows!Ordered, Rows!Waits, QueueInOrder
<1>2. /\ m \in 1 .. Len(qc) /\ Rows!Request(c) = qc[m] /\ taken[c] \in Nat
      /\ n \in 1 .. Len(qd) /\ Rows!Request(d) = qd[n] /\ taken[d] \in Nat
  BY <1>0, <1>1, NextRequest
<1>3. Shape(work[c], qc) /\ Shape(work[d], qd)
  BY <1>0, <1>1, NextRequest, OrderedShape
<1>4. CASE d \in Rows!Earlier(c) /\ Rows!Conflict(Rows!Request(c), Rows!Request(d))
  BY <1>4 DEF Rows!Earlier, Rows!Conflict, Ahead
<1>5. ASSUME NEW l \in locks, l.by = d, d # c, Rows!Conflict(Rows!Request(c), l)
      PROVE  Ahead(d, c)
  <2>1. PICK i \in 1 .. taken[d] : l = Granted(d, i)
    BY <1>0, <1>5 DEF LocksTaken
  <2>2. /\ i \in 1 .. n - 1 /\ i \in 1 .. Len(qd) /\ l.row = qd[i].row /\ l.mode = qd[i].mode
        /\ l.row = qc[m].row /\ "exclusive" \in {qc[m].mode, qd[i].mode}
    BY <1>2, <1>5, <2>1 DEF Granted, Rows!Conflict
  <2> HIDE DEF qc, qd
  <2>3. ~\E j \in 1 .. n - 1 : qd[j].row = qd[n].row
    <3> SUFFICES ASSUME NEW j \in 1 .. n - 1, qd[j].row = qd[n].row PROVE FALSE
      OBVIOUS
    <3>1. j \in 1 .. taken[d] /\ state[d] = "running"
      BY <1>1, <1>2 DEF Rows!Wants
    <3>2. Granted(d, j) \in locks /\ Granted(d, j).by = d /\ Granted(d, j).row = qd[j].row
      BY <1>0, <1>1, <3>1 DEF LocksTaken, Granted, qd
    <3> QED BY <1>0, <1>1, <1>2, <3>2 DEF NothingHeldIsAwaited
  <2>4. Later(qd[n].row, qd[i].row) \/ qd[i].row[1] \in {"user", "reservation"}
    <3> HIDE DEF m, n
    <3> QED BY <1>2, <1>3, <2>2, <2>3 DEF Shape
  <2>5. CASE Later(qd[n].row, qd[i].row)
    BY <1>2, <2>2, <2>5 DEF Ahead
  <2>6. CASE qd[i].row[1] = "user"
    <3> HIDE DEF m, n
    <3>0. qc[m].row[1] = "user"
      BY <2>2, <2>6
    <3>1. qd[i].mode = "shared"
      BY <1>3, <2>2, <2>6 DEF Shape
    <3>2. qc[m].mode = "shared"
      BY <1>2, <1>3, <3>0 DEF Shape
    <3> QED BY <2>2, <3>1, <3>2
  <2>7. CASE qd[i].row[1] = "reservation"
    <3> DEFINE p == work[c].on
               r == work[d].on
    <3>1. /\ p \in Rows!Payments /\ 2 < m
          /\ \E s \in Rows!Range(Sources[p]) :
               qc[2] = Rows!Update("source", s) /\ qc[m].row[2] \in Rows!Range(Reserved[p][s])
      <4> HIDE DEF m, n
      <4> QED BY <1>2, <1>3, <2>2, <2>7 DEF Shape
    <3>2. /\ r \in Rows!Payments /\ 2 < i
          /\ \E t \in Rows!Range(Sources[r]) :
               qd[2] = Rows!Update("source", t) /\ qd[i].row[2] \in Rows!Range(Reserved[r][t])
      <4> HIDE DEF m, n
      <4> QED BY <1>2, <1>3, <2>2, <2>7 DEF Shape
    <3>3. PICK s \in Rows!Range(Sources[p]) :
               qc[2] = Rows!Update("source", s) /\ qc[m].row[2] \in Rows!Range(Reserved[p][s])
      BY <3>1
    <3>4. PICK t \in Rows!Range(Sources[r]) :
               qd[2] = Rows!Update("source", t) /\ qd[i].row[2] \in Rows!Range(Reserved[r][t])
      BY <3>2
    <3>5. s = t
      <4> HIDE DEF p, r
      <4> DEFINE id == qc[m].row[2]
      <4>1. id \in Rows!Range(Reserved[p][s]) /\ id \in Rows!Range(Reserved[r][t])
        BY <2>2, <3>3, <3>4
      <4> HIDE DEF id
      <4> QED BY <3>1, <3>2, <3>3, <3>4, <4>1, OneReserved
    <3>6. 2 \in 1 .. taken[c] /\ 2 \in 1 .. taken[d] /\ state[c] = "running" /\ state[d] = "running"
      BY <1>1, <1>2, <2>2, <3>1, <3>2 DEF Rows!Wants
    <3>7. Granted(c, 2) \in locks /\ Granted(d, 2) \in locks
      BY <1>0, <1>1, <3>6 DEF LocksTaken
    <3>8. /\ Granted(c, 2).by = c /\ Granted(d, 2).by = d
          /\ Granted(c, 2).row = Granted(d, 2).row /\ Granted(c, 2).mode = "exclusive"
      BY <3>3, <3>4, <3>5 DEF Granted, Rows!Update, qc, qd
    <3>9. Rows!Conflict(Granted(c, 2), Granted(d, 2))
      BY <3>8 DEF Rows!Conflict
    <3> QED BY <1>0, <1>5, <3>7, <3>8, <3>9 DEF Rows!LockTypeOK
  <2> QED BY <2>4, <2>5, <2>6, <2>7
<1> QED BY <1>4, <1>5 DEF Rows!Blockers

LEMMA LaterOrder ==
  ASSUME NEW r, NEW s, NEW t, Later(r, s), Later(s, t),
         r[2] \in Nat, s[2] \in Nat, t[2] \in Nat
  PROVE  Later(r, t)
BY DEF Later, Rank

LEMMA NeverInCircle ==
  ASSUME LockInvariant
  PROVE  Rows!OrderedNeverDeadlock
<1> SUFFICES ASSUME NEW c \in Rows!Ordered, Rows!InCircle(c, Rows!Ordered) PROVE FALSE
  BY DEF Rows!OrderedNeverDeadlock
<1> DEFINE S == Rows!Ordered
           T == {d \in S : Ahead(d, c)}
           row(d) == Rows!Request(d).row
<1>0. Rows!LockTypeOK /\ QueueInOrder
  BY DEF LockInvariant
<1>1. Rows!Waits(c)
  BY DEF Rows!InCircle
<1>2. ASSUME NEW d \in S, Rows!Waits(d) PROVE d \in LockCommands /\ row(d)[2] \in Nat
  <2>1. d \in LockCommands /\ d \in DOMAIN waiting /\ Rows!Wants(d)
    BY <1>0, <1>2 DEF QueueInOrder, Rows!Waits, Rows!LockTypeOK
  <2> DEFINE q == Rows!Requests(d)
             k == taken[d] + 1
  <2>2. q \in Seq(LockRequest) /\ k \in 1 .. Len(q) /\ Rows!Request(d) = q[k]
    BY <1>0, <2>1, NextRequest
  <2> HIDE DEF q, k
  <2>3. q[k] \in LockRequest
    BY <2>2
  <2>4. q[k].row[2] \in Nat
    BY <2>3 DEF LockRequest
  <2> QED BY <2>1, <2>2, <2>4
<1>3. c \notin T
  <2>1. ~Later(row(c), row(c))
    BY <1>1, <1>2 DEF Later, Rank
  <2>2. c \notin waiting[c]
    BY <1>0, <1>1 DEF Rows!LockTypeOK, Rows!Waits
  <2> QED BY <1>1, <2>1, <2>2 DEF Ahead
<1>4. Rows!Blockers(c) \cap S \subseteq T
  BY <1>1, BlockersAreAhead
<1>5. ASSUME NEW d \in T, Rows!Waits(d), NEW e \in Rows!Blockers(d) \cap S PROVE e \in T
  <2>1. Ahead(e, d) /\ Ahead(d, c)
    BY <1>5, BlockersAreAhead
  <2>2. CASE ~Rows!Waits(e)
    BY <2>2 DEF Ahead
  <2>3. CASE Rows!Waits(e)
    <3>1. row(c)[2] \in Nat /\ row(d)[2] \in Nat /\ row(e)[2] \in Nat
      BY <1>1, <1>2, <1>5, <2>3
    <3>2. Later(row(d), row(c)) \/ (row(d) = row(c) /\ d \in waiting[c])
      BY <1>5, <2>1 DEF Ahead
    <3>3. Later(row(e), row(d)) \/ (row(e) = row(d) /\ e \in waiting[d])
      BY <2>1, <2>3 DEF Ahead
    <3>4. CASE Later(row(d), row(c)) /\ Later(row(e), row(d))
      BY <3>1, <3>4, LaterOrder DEF Ahead
    <3>5. CASE row(d) = row(c) /\ d \in waiting[c] /\ row(e) = row(d) /\ e \in waiting[d]
      <4>1. waiting[d] \subseteq waiting[c]
        BY <1>0, <1>1, <3>5 DEF QueueInOrder, Rows!Waits
      <4> QED BY <3>5, <4>1 DEF Ahead
    <3>6. CASE Later(row(d), row(c)) /\ row(e) = row(d)
      BY <3>6 DEF Ahead
    <3>7. CASE row(d) = row(c) /\ Later(row(e), row(d))
      BY <3>7 DEF Ahead
    <3> QED BY <3>2, <3>3, <3>4, <3>5, <3>6, <3>7
  <2> QED BY <2>2, <2>3
<1>6. Rows!Follows(T, c, S)
  <2> HIDE DEF T
  <2> QED BY <1>4, <1>5 DEF Rows!Follows
<1>7. T \in SUBSET S
  OBVIOUS
<1> QED BY <1>3, <1>6, <1>7 DEF Rows!InCircle

-------------------------------------------------------------------------------
(* Every part.                                                             *)

\* What every step keeps.  The commands and the race of another part stand still.
PartsInvariant == IInv /\ RaceLocks /\ (part \in LockParts => LockInvariant)

LEMMA PartsStart == ASSUME PartsInit PROVE PartsInvariant
<1>1. part \in LockParts => Rows!Init
  BY PartsAssumption DEF PartsInit
<1> QED BY <1>1, InitIInv, RaceLocksStart, InitLocks DEF PartsInvariant, PartsInit

LEMMA PartsStep == ASSUME PartsInvariant, [PartsNext]_allParts PROVE PartsInvariant'
<1>1. [Next]_vars /\ [RaceNext]_raceVars /\ part' = part
  BY DEF PartsNext, allParts
<1>2. part \in LockParts => Rows!Next \/ UNCHANGED lockPart
  BY PartsAssumption DEF PartsNext, allParts
<1>3. IInv' /\ RaceLocks'
  BY <1>1, NextIInv, RaceLocksStep DEF PartsInvariant
<1>4. part \in LockParts => LockInvariant'
  BY <1>2, LocksNext, LocksStay DEF PartsInvariant
<1> QED BY <1>1, <1>3, <1>4 DEF PartsInvariant

\* Whatever commands run side by side, on any payments, instructions and transfers:
\* no row is held by two commands that conflict, commands that take their locks in one
\* order never wait for each other in a circle, and a negative outcome waits for the
\* reversal it refers to (transfer.repository.ts:740,
\* bank-instruction-outcome.repository.ts:216).
THEOREM TransactionsLockSafely == PartsSpec => []LocksAreSafe
<1>1. PartsInit => PartsInvariant
  BY PartsStart
<1>2. PartsInvariant /\ [PartsNext]_allParts => PartsInvariant'
  BY PartsStep
<1>3. PartsInvariant => LocksAreSafe
  <2> SUFFICES ASSUME PartsInvariant PROVE LocksAreSafe
    OBVIOUS
  <2>1. CommandTypeOK /\ RaceTypeOK /\ NegativeIsCorrected
    BY RaceTyped DEF PartsInvariant, IInv, RaceLocks, RaceInvariant
  <2>2. part \in LockParts => Rows!LockTypeOK /\ Rows!OrderedNeverDeadlock
    BY NeverInCircle DEF PartsInvariant, LockInvariant
  <2> QED BY <2>1, <2>2 DEF LocksAreSafe
<1> QED BY <1>1, <1>2, <1>3, PTL DEF PartsSpec
===============================================================================
