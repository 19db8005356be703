------------------------ MODULE UploadClientsProofs ------------------------
(***************************************************************************)
(* Proofs about the intake of uploads for every number of images, keys,    *)
(* employees, server threads, requests and faults.                         *)
(*                                                                         *)
(* The argument.  The tables only grow: a row that exists keeps its image  *)
(* and its owner, a key that is stored stays, and no object is deleted     *)
(* (TablesGrow).  What a thread has learnt from a look-up therefore stays  *)
(* true until it answers, whoever else is in the critical section and      *)
(* whether or not the lock still holds; what it has learnt from not        *)
(* finding a row may become false, and for that the unique constraints     *)
(* look again when the rows are written.  CallOK says what a thread knows  *)
(* at each stage.                                                          *)
(***************************************************************************)
EXTENDS UploadClients, ReceiptRowsProofs, SequenceTheorems

(* What the requests know and remember.                                    *)
ClientsTypeOK ==
    /\ sends \in Nat
    /\ bound \in [Clients -> SUBSET Nat]
    /\ answers \subseteq [call : Call, bound : SUBSET Nat]

(* A snapshot of an open transaction is one of an existing receipt.        *)
SnapshotOK(t) ==
    /\ t \in Snapshot
    /\ t.of \in Ids
    /\ t.receipt.ownerEmployeeId = receipts[t.of].ownerEmployeeId

(* The answer a call was given, if it accepts the upload.                  *)
AnswerOK(call, known) ==
    /\ call.answer \in Answer
    /\ call.answer.status \in {200, 202} =>
          LET answer == call.answer
          IN  /\ answer.receipt \in Ids
              /\ receipts[answer.receipt].ownerEmployeeId = call.owner
              /\ IF answer.replay THEN [key |-> call.key, receipt |-> answer.receipt] \in keys
                                  ELSE images[answer.receipt] = call.image
              /\ known # {} => answer.receipt \in known

(* What a thread knows at the stage it has reached.                        *)
StageOK(call, known) ==
    /\ call.at \notin {"received", "answered"} => known = {}
    /\ call.at = "stored" => call.image \in objects
    /\ call.at = "marking" =>
          LET t == call.snapshot
          IN  /\ SnapshotOK(t)
              /\ receipts[t.of].ownerEmployeeId = call.owner
              /\ images[t.of] = call.image
    /\ call.at = "answered" => AnswerOK(call, known)

CallOK(c) ==
    calls[c] # None =>
        /\ \A i \in bound[c] : [key |-> calls[c].key, receipt |-> i] \in keys
        /\ StageOK(calls[c], bound[c])

KeysUnique == \A j, k \in keys : j.key = k.key => j = k

TablesOK == OneStoredReceiptPerImage /\ KeysUnique

Inv ==
    /\ IntakeTypeOK
    /\ ClientsTypeOK
    /\ TablesOK
    /\ \A t \in completing : SnapshotOK(t)
    /\ \A c \in Clients : CallOK(c)
    /\ \A a \in answers : AnswerOK(a.call, a.bound)
-----------------------------------------------------------------------------
(* An idempotency record is its key and its receipt.                       *)
LEMMA SameIdempotency ==
    ASSUME NEW ids, NEW j \in [key : Keys, receipt : ids], NEW k \in [key : Keys, receipt : ids],
           j.key = k.key, j.receipt = k.receipt
    PROVE  j = k
OBVIOUS

(* What every step does to the tables and the bucket.                      *)
TablesTypeOK ==
    /\ images \in Seq(Images)
    /\ receipts \in Seq(Receipt)
    /\ jobs \in Seq(Job)
    /\ audit \in Seq(Seq(AuditActions))
    /\ Len(receipts) = Len(images) /\ Len(jobs) = Len(images) /\ Len(audit) = Len(images)
    /\ keys \subseteq [key : Keys, receipt : Ids]
    /\ objects \subseteq Images

TablesGrow ==
    /\ Ids \subseteq Ids'
    /\ \A i \in Ids : /\ images'[i] = images[i]
                      /\ receipts'[i].ownerEmployeeId = receipts[i].ownerEmployeeId
    /\ keys \subseteq keys'
    /\ objects \subseteq objects'

TablesStep == TablesTypeOK' /\ TablesGrow /\ TablesOK'

(* The ids of the receipts are the places of every table.                  *)
LEMMA IdsPlaces ==
    ASSUME TablesTypeOK
    PROVE  /\ Len(receipts) \in Nat
           /\ Ids = 1..Len(receipts)
           /\ \A i \in Ids : /\ receipts[i] \in Receipt
                             /\ jobs[i] \in Job
                             /\ images[i] \in Images
                             /\ i \in 1..Len(jobs) /\ i \in 1..Len(audit)
                             /\ audit[i] \in Seq(AuditActions)
                             /\ i \in Nat
BY LenProperties, ElementOfSeq DEF TablesTypeOK, Ids

(* What is known of rows stays true while the tables grow.                 *)
LEMMA GrowthKeeps ==
    ASSUME TablesGrow
    PROVE  /\ \A t : SnapshotOK(t) => SnapshotOK(t)'
           /\ \A call, known : AnswerOK(call, known) => AnswerOK(call, known)'
           /\ \A call, known : StageOK(call, known) => StageOK(call, known)'
<1>1. ASSUME NEW t, SnapshotOK(t)
      PROVE  SnapshotOK(t)'
  BY <1>1 DEF TablesGrow, SnapshotOK
<1>2. ASSUME NEW call, NEW known, AnswerOK(call, known)
      PROVE  AnswerOK(call, known)'
  BY <1>2 DEF TablesGrow, AnswerOK
<1>3. ASSUME NEW call, NEW known, StageOK(call, known)
      PROVE  StageOK(call, known)'
  <2>1. call.at = "stored" => call.image \in objects'
    BY <1>3 DEF StageOK, TablesGrow
  <2>2. ASSUME call.at = "marking"
        PROVE  /\ SnapshotOK(call.snapshot)'
               /\ receipts'[call.snapshot.of].ownerEmployeeId = call.owner
               /\ images'[call.snapshot.of] = call.image
    BY <1>1, <1>3, <2>2 DEF StageOK, SnapshotOK, TablesGrow
  <2>3. call.at = "answered" => AnswerOK(call, known)'
    BY <1>2, <1>3 DEF StageOK
  <2>4. QED
    BY <1>3, <2>1, <2>2, <2>3 DEF StageOK
<1>4. QED
  BY <1>1, <1>2, <1>3

(* A thread that does not move knows what it knew.                         *)
LEMMA IdleKeeps ==
    ASSUME TablesGrow, NEW c, CallOK(c), calls'[c] = calls[c], bound'[c] = bound[c]
    PROVE  CallOK(c)'
<1>1. StageOK(calls[c], bound[c]) => StageOK(calls[c], bound[c])'
  <2>1. \A call, known : StageOK(call, known) => StageOK(call, known)'
    BY GrowthKeeps
  <2>2. QED
    BY <2>1 DEF StageOK
<1>2. QED
  BY <1>1 DEF CallOK, TablesGrow

(* A step that leaves the tables alone.                                    *)
LEMMA TablesSame ==
    ASSUME TablesTypeOK, TablesOK, UNCHANGED <<rows, objects>>
    PROVE  TablesStep
BY DEF TablesStep, TablesTypeOK, TablesGrow, TablesOK, OneStoredReceiptPerImage, KeysUnique,
       Ids, rows

(* A step that rewrites a job, its receipt and its events, but not whose   *)
(* the receipt is.                                                         *)
LEMMA RowRewritten ==
    ASSUME TablesTypeOK, TablesOK, NEW i \in Ids,
           NEW job \in Job, NEW receipt \in Receipt, NEW events \in Seq(AuditActions),
           receipt.ownerEmployeeId = receipts[i].ownerEmployeeId,
           jobs' = [jobs EXCEPT ![i] = job],
           receipts' = [receipts EXCEPT ![i] = receipt],
           audit' = [audit EXCEPT ![i] = events],
           UNCHANGED <<images, keys, objects>>
    PROVE  TablesStep
<1>1. i \in 1..Len(jobs) /\ i \in 1..Len(receipts) /\ i \in 1..Len(audit)
  BY IdsPlaces
<1>2. jobs' \in Seq(Job) /\ Len(jobs') = Len(jobs)
  BY <1>1, ExceptSeq DEF TablesTypeOK
<1>3. /\ receipts' \in Seq(Receipt) /\ Len(receipts') = Len(receipts)
      /\ \A j \in 1..Len(receipts) : receipts'[j] = IF j = i THEN receipt ELSE receipts[j]
  BY <1>1, ExceptSeq DEF TablesTypeOK
<1>4. audit' \in Seq(Seq(AuditActions)) /\ Len(audit') = Len(audit)
  BY <1>1, ExceptSeq DEF TablesTypeOK
<1>5. Ids' = Ids
  BY <1>3, LenProperties DEF Ids, TablesTypeOK
<1>6. TablesTypeOK'
  BY <1>2, <1>3, <1>4, <1>5 DEF TablesTypeOK
<1>7. TablesGrow
  BY <1>3, <1>5, IdsPlaces DEF TablesGrow
<1>8. TablesOK'
  BY <1>5 DEF TablesOK, OneStoredReceiptPerImage, KeysUnique
<1>9. QED
  BY <1>6, <1>7, <1>8 DEF TablesStep

(* A step that puts images into the bucket.                                *)
LEMMA ObjectsPut ==
    ASSUME TablesTypeOK, TablesOK, UNCHANGED rows,
           objects \subseteq objects', objects' \subseteq Images
    PROVE  TablesStep
BY DEF TablesStep, TablesTypeOK, TablesGrow, TablesOK, OneStoredReceiptPerImage, KeysUnique,
       Ids, rows

(* createQueued writes rows that the unique constraints let in, after the  *)
(* image was put into the bucket.                                          *)
LEMMA RowsCreated ==
    ASSUME TablesTypeOK, TablesOK,
           NEW owner \in Owners, NEW key \in Keys \cup {None}, NEW image \in Images,
           image \in objects,
           \A i \in Ids : images[i] # image,
           \A k \in keys : k.key # key,
           images' = Append(images, image),
           receipts' = Append(receipts, NewReceipt(owner)),
           jobs' = Append(jobs, NewJob),
           audit' = Append(audit, <<"UPLOADED">>),
           keys' = keys \cup [key : {key} \ {None}, receipt : {Len(receipts) + 1}],
           objects' = objects
    PROVE  /\ TablesStep
           /\ Len(receipts) + 1 \in Ids'
           /\ receipts'[Len(receipts) + 1].ownerEmployeeId = owner
           /\ images'[Len(receipts) + 1] = image
<1> DEFINE n == Len(receipts)
           row == NewReceipt(owner)
<1>0. n \in Nat /\ Len(images) = n /\ Len(jobs) = n /\ Len(audit) = n /\ Ids = 1..n
  BY IdsPlaces DEF TablesTypeOK
<1>1. NewJob \in Job /\ row \in Receipt /\ row.ownerEmployeeId = owner
  BY NewRowTypes DEF NewReceipt
<1>2. <<"UPLOADED">> \in Seq(AuditActions)
  <2>1. \A S : \A e \in S : <<e>> \in Seq(S)
    OBVIOUS
  <2>2. "UPLOADED" \in AuditActions
    BY DEF AuditActions
  <2>3. QED
    BY <2>1, <2>2
<1> HIDE DEF row
<1>3. /\ images' \in Seq(Images) /\ Len(images') = n + 1
      /\ \A j \in 1..n : images'[j] = images[j]
      /\ images'[n + 1] = image
  BY <1>0, AppendProperties DEF TablesTypeOK
<1>4. /\ receipts' \in Seq(Receipt) /\ Len(receipts') = n + 1
      /\ \A j \in 1..n : receipts'[j] = receipts[j]
      /\ receipts'[n + 1] = row
  BY <1>0, <1>1, AppendProperties DEF TablesTypeOK, row
<1>5. jobs' \in Seq(Job) /\ Len(jobs') = n + 1
  BY <1>0, <1>1, AppendProperties DEF TablesTypeOK
<1>6. audit' \in Seq(Seq(AuditActions)) /\ Len(audit') = n + 1
  BY <1>0, <1>2, AppendProperties DEF TablesTypeOK
<1>7. Ids' = 1..(n + 1)
  BY <1>4, LenProperties DEF Ids
<1> HIDE DEF n
<1>8. /\ keys \subseteq keys'
      /\ \A k \in keys' : k \in keys \/ (k.key = key /\ k.key \in Keys /\ k.receipt = n + 1)
      /\ keys' \subseteq [key : Keys, receipt : Ids']
  <2>1. keys' = keys \cup [key : {key} \ {None}, receipt : {n + 1}]
    BY DEF n
  <2>2. Ids \subseteq Ids' /\ n + 1 \in Ids'
    BY <1>0, <1>7
  <2>3. keys \subseteq [key : Keys, receipt : Ids]
    BY DEF TablesTypeOK
  <2>4. QED
    BY <2>1, <2>2, <2>3
<1>9. TablesTypeOK'
  BY <1>3, <1>4, <1>5, <1>6, <1>8 DEF TablesTypeOK
<1>10. TablesGrow
  BY <1>0, <1>3, <1>4, <1>7, <1>8 DEF TablesGrow
<1>11. OneStoredReceiptPerImage'
  BY <1>0, <1>3, <1>7 DEF OneStoredReceiptPerImage, TablesOK
<1>12. KeysUnique'
  <2>1. \A k \in keys' : k \in keys \/ (k.key = key /\ k.receipt = n + 1 /\ k \in [key : Keys, receipt : Ids'])
    BY <1>8
  <2>2. ASSUME NEW j \in keys', NEW k \in keys', j.key = k.key
        PROVE  j = k
    <3>1. CASE j \in keys
      BY <2>1, <2>2, <3>1 DEF KeysUnique, TablesOK
    <3>2. CASE k \in keys
      BY <2>1, <2>2, <3>2 DEF KeysUnique, TablesOK
    <3>3. CASE j \notin keys /\ k \notin keys
      BY <2>1, <2>2, <3>3, SameIdempotency
    <3>4. QED
      BY <3>1, <3>2, <3>3
  <2>3. QED
    BY <2>2 DEF KeysUnique
<1>13. QED
  BY <1>0, <1>1, <1>3, <1>4, <1>7, <1>9, <1>10, <1>11, <1>12 DEF TablesStep, TablesOK, n
-----------------------------------------------------------------------------
(* What one thread's step does to its call and to the locks.               *)
ThreadStep(c) ==
    /\ calls' \in [Clients -> Call \cup {None}]
    /\ holder' \in [Images -> Clients \cup {None, Gone}]
    /\ \A d \in Clients : d # c => calls'[d] = calls[d]
    /\ CallOK(c)'

(* Unlocking leaves the locks with threads, with nobody or with the dead.  *)
LEMMA UnlockType ==
    ASSUME IntakeTypeOK, NEW c \in Clients, Unlock(c)
    PROVE  holder' \in [Images -> Clients \cup {None, Gone}]
BY DEF IntakeTypeOK, Unlock

(* An answer, and what it knows, when the rows it speaks of exist.         *)
LEMMA RespondOK ==
    ASSUME IntakeTypeOK, TablesGrow, NEW c \in Clients, calls[c] # None, CallOK(c),
           NEW status \in {200, 202, 409, 502}, NEW receipt \in Nat \cup {None},
           NEW replay \in BOOLEAN,
           Respond(c, status, receipt, replay), bound' = bound,
           status \in {200, 202} =>
               /\ receipt \in Ids'
               /\ receipts'[receipt].ownerEmployeeId = calls[c].owner
               /\ replay => [key |-> calls[c].key, receipt |-> receipt] \in keys'
               /\ ~replay => images'[receipt] = calls[c].image
               /\ bound[c] # {} => receipt \in bound[c]
    PROVE  ThreadStep(c)
<1>1. PICK old \in Call : old = calls[c]
  BY DEF IntakeTypeOK
<1>2. PICK answer : answer = [status |-> status, receipt |-> receipt, replay |-> replay]
  OBVIOUS
<1>3. PICK call : call = [old EXCEPT !.at = "answered", !.snapshot = None, !.answer = answer]
  OBVIOUS
<1>4. /\ answer \in Answer
      /\ answer.status = status /\ answer.receipt = receipt /\ answer.replay = replay
  BY <1>2 DEF Answer
<1>5. /\ call \in Call /\ call.at = "answered" /\ call.answer = answer
      /\ call.owner = calls[c].owner /\ call.key = calls[c].key /\ call.image = calls[c].image
  <2>1. answer \in Answer
    BY <1>4
  <2>2. QED
    BY <2>1, <1>1, <1>3 DEF Call, Stages
<1>6. /\ calls' \in [Clients -> Call \cup {None}]
      /\ \A d \in Clients : d # c => calls'[d] = calls[d]
      /\ calls'[c] = call
  <2>1. calls' = [calls EXCEPT ![c] =
                     [@ EXCEPT !.at = "answered", !.snapshot = None, !.answer = answer]]
    BY <1>2 DEF Respond
  <2>2. calls \in [Clients -> Call \cup {None}]
    BY DEF IntakeTypeOK
  <2>3. QED
    BY <1>1, <1>3, <1>5, <2>1, <2>2
<1>7. holder' \in [Images -> Clients \cup {None, Gone}]
  BY UnlockType DEF Respond
<1>8. AnswerOK(call, bound[c])'
  BY <1>4, <1>5 DEF AnswerOK
<1>9. StageOK(call, bound[c])'
  BY <1>5, <1>8 DEF StageOK
<1>10. \A i \in bound[c] : [key |-> calls[c].key, receipt |-> i] \in keys'
  BY DEF CallOK, TablesGrow
<1>11. CallOK(c)'
  BY <1>5, <1>6, <1>9, <1>10 DEF CallOK
<1>12. QED
  BY <1>6, <1>7, <1>11 DEF ThreadStep

(* A receipt of the sender that was found by its key.                      *)
LEMMA ReplayOK ==
    ASSUME IntakeTypeOK, TablesGrow, NEW c \in Clients, calls[c] # None, CallOK(c),
           NEW i \in Nat, i \in Ids', receipts'[i].ownerEmployeeId = calls[c].owner,
           [key |-> calls[c].key, receipt |-> i] \in keys',
           bound[c] # {} => i \in bound[c],
           Existing(c, i, TRUE), bound' = bound
    PROVE  ThreadStep(c)
<1>1. PICK replay \in BOOLEAN : replay = TRUE
  OBVIOUS
<1>2. Respond(c, 200, i, replay)
  BY <1>1 DEF Existing
<1>3. /\ replay => [key |-> calls[c].key, receipt |-> i] \in keys'
      /\ ~replay => images'[i] = calls[c].image
      /\ bound[c] # {} => i \in bound[c]
  BY <1>1
<1>4. QED
  BY <1>2, <1>3, RespondOK

(* A receipt of the sender that was found by its image, or created.        *)
LEMMA FoundOK ==
    ASSUME IntakeTypeOK, TablesGrow, NEW c \in Clients, calls[c] # None, CallOK(c),
           NEW i \in Nat, i \in Ids', receipts'[i].ownerEmployeeId = calls[c].owner,
           images'[i] = calls[c].image, bound[c] = {},
           Existing(c, i, FALSE) \/ Respond(c, 202, i, FALSE), bound' = bound
    PROVE  ThreadStep(c)
<1>1. PICK replay \in BOOLEAN : replay = FALSE
  OBVIOUS
<1>2. Respond(c, 200, i, replay) \/ Respond(c, 202, i, replay)
  BY <1>1 DEF Existing
<1>3. /\ replay => [key |-> calls[c].key, receipt |-> i] \in keys'
      /\ ~replay => images'[i] = calls[c].image
      /\ bound[c] # {} => i \in bound[c]
  BY <1>1
<1>4. QED
  BY <1>2, <1>3, RespondOK

(* An upload that is not accepted.                                         *)
LEMMA NotAcceptedOK ==
    ASSUME IntakeTypeOK, TablesGrow, NEW c \in Clients, calls[c] # None, CallOK(c),
           Refuse(c) \/ Respond(c, 502, None, FALSE), bound' = bound
    PROVE  ThreadStep(c)
<1>1. PICK replay \in BOOLEAN : replay = FALSE
  OBVIOUS
<1>2. PICK nothing \in Nat \cup {None} : nothing = None
  OBVIOUS
<1>3. Respond(c, 409, nothing, replay) \/ Respond(c, 502, nothing, replay)
  BY <1>1, <1>2 DEF Refuse
<1>4. QED
  BY <1>3, RespondOK

(* Going on to a stage at which nothing but the missing key is known.      *)
LEMMA GoToOK ==
    ASSUME IntakeTypeOK, TablesGrow, NEW c \in Clients, calls[c] # None, CallOK(c),
           NEW stage \in Stages \ {"received", "marking", "answered"},
           bound[c] = {}, bound' = bound,
           stage = "stored" => calls[c].image \in objects',
           GoTo(c, stage), holder' \in [Images -> Clients \cup {None, Gone}]
    PROVE  ThreadStep(c)
<1>1. PICK old \in Call : old = calls[c]
  BY DEF IntakeTypeOK
<1>2. PICK call : call = [old EXCEPT !.at = stage]
  OBVIOUS
<1>3. call \in Call /\ call.at = stage /\ call.image = old.image
  BY <1>1, <1>2 DEF Call
<1>4. /\ calls' \in [Clients -> Call \cup {None}]
      /\ \A d \in Clients : d # c => calls'[d] = calls[d]
      /\ calls'[c] = call
  BY <1>1, <1>2, <1>3 DEF GoTo, IntakeTypeOK
<1>5. StageOK(call, bound[c])'
  BY <1>1, <1>3 DEF StageOK
<1>6. CallOK(c)'
  BY <1>4, <1>5 DEF CallOK
<1>7. QED
  BY <1>4, <1>6 DEF ThreadStep

(* markDuplicate for a receipt of the sender, or what comes instead.       *)
LEMMA OpenMarkOK ==
    ASSUME IntakeTypeOK, TablesGrow, NEW c \in Clients, calls[c] # None, CallOK(c),
           NEW i \in Ids, images[i] = calls[c].image, bound[c] = {}, bound' = bound,
           OpenMark(c, i), UNCHANGED <<rows, objects>>
    PROVE  ThreadStep(c)
<1> USE DEF rows
<1>0. i \in Nat /\ receipts[i] \in Receipt /\ jobs[i] \in Job
  BY IdsPlaces DEF IntakeTypeOK, TablesTypeOK
<1>1. CASE Conflict(c)
  <2>1. holder' \in [Images -> Clients \cup {None, Gone}]
    BY <1>1, UnlockType DEF Conflict
  <2>2. "conflicted" \in Stages \ {"received", "marking", "answered"}
    BY DEF Stages
  <2>3. QED
    BY <1>1, <2>1, <2>2, GoToOK DEF Conflict
<1>2. CASE Owned(c, i) /\ Existing(c, i, FALSE)
  <2>1. i \in Ids'
    BY DEF Ids
  <2>2. receipts'[i].ownerEmployeeId = calls[c].owner /\ images'[i] = calls[c].image
    BY <1>2 DEF Owned
  <2>3. QED
    BY <1>0, <1>2, <2>1, <2>2, FoundOK
<1>3. CASE /\ Owned(c, i)
           /\ calls' = [calls EXCEPT ![c] =
                 [@ EXCEPT !.at = "marking",
                           !.snapshot = [of |-> i, receipt |-> receipts[i],
                                         job |-> jobs[i]]]]
           /\ UNCHANGED holder
  <2>1. PICK old \in Call : old = calls[c]
    BY DEF IntakeTypeOK
  <2>2. PICK t : t = [of |-> i, receipt |-> receipts[i], job |-> jobs[i]]
    OBVIOUS
  <2>3. PICK call : call = [old EXCEPT !.at = "marking", !.snapshot = t]
    OBVIOUS
  <2>4. t \in Snapshot /\ t.of = i /\ t.receipt = receipts[i]
    BY <1>0, <2>2 DEF Snapshot
  <2>5. /\ call \in Call /\ call.at = "marking" /\ call.snapshot = t
        /\ call.owner = old.owner /\ call.image = old.image
    BY <2>3, <2>4 DEF Call, Stages
  <2>6. /\ calls' \in [Clients -> Call \cup {None}]
        /\ \A d \in Clients : d # c => calls'[d] = calls[d]
        /\ calls'[c] = call
    <3>1. calls' = [calls EXCEPT ![c] = [@ EXCEPT !.at = "marking", !.snapshot = t]]
      BY <1>3, <2>2
    <3>2. calls \in [Clients -> Call \cup {None}]
      BY DEF IntakeTypeOK
    <3>3. QED
      BY <2>1, <2>3, <2>5, <3>1, <3>2
  <2>7. SnapshotOK(t)'
    BY <2>4 DEF SnapshotOK, Ids
  <2>8. StageOK(call, bound[c])'
    BY <1>3, <2>1, <2>4, <2>5, <2>7 DEF StageOK, Owned
  <2>9. CallOK(c)'
    BY <2>6, <2>8 DEF CallOK
  <2>10. holder' \in [Images -> Clients \cup {None, Gone}]
    BY <1>3 DEF IntakeTypeOK
  <2>11. QED
    BY <2>6, <2>9, <2>10 DEF ThreadStep
<1>4. QED
  BY <1>1, <1>2, <1>3 DEF OpenMark
-----------------------------------------------------------------------------
(* Writing what is there changes nothing.                                  *)
LEMMA WrittenAgain ==
    ASSUME NEW S, NEW s \in Seq(S), NEW i \in DOMAIN s
    PROVE  s = [s EXCEPT ![i] = s[i]]
OBVIOUS

(* What the look-up of a key tells a thread.                               *)
LEMMA KeyFound ==
    ASSUME Inv, NEW c \in Clients, calls[c] # None, NEW i \in ByKey(c)
    PROVE  /\ i \in Ids /\ i \in Nat
           /\ [key |-> calls[c].key, receipt |-> i] \in keys
           /\ bound[c] # {} => i \in bound[c]
<1>1. PICK k \in keys : k.key = calls[c].key /\ k.receipt = i
  BY DEF ByKey
<1>2. k \in [key : Keys, receipt : Ids]
  BY DEF Inv, IntakeTypeOK
<1>3. i \in Ids /\ i \in Nat
  BY <1>1, <1>2, IdsPlaces DEF Inv, IntakeTypeOK, TablesTypeOK
<1>4. [key |-> calls[c].key, receipt |-> i] = k
  BY <1>1, <1>2
<1>5. ASSUME NEW b \in bound[c]
      PROVE  b = i
  <2>1. PICK j \in keys : j = [key |-> calls[c].key, receipt |-> b]
    BY DEF Inv, CallOK
  <2>2. j = k
    BY <1>1, <2>1 DEF Inv, TablesOK, KeysUnique
  <2>3. QED
    BY <1>1, <2>1, <2>2
<1>6. QED
  BY <1>1, <1>3, <1>4, <1>5

LEMMA KeyNotFound ==
    ASSUME Inv, NEW c \in Clients, calls[c] # None, ByKey(c) = {}
    PROVE  /\ bound[c] = {}
           /\ \A k \in keys : k.key # calls[c].key
<1>1. \A k \in keys : k.key # calls[c].key
  BY DEF ByKey
<1>2. ASSUME NEW b \in bound[c]
      PROVE  FALSE
  <2>1. PICK j \in keys : j = [key |-> calls[c].key, receipt |-> b]
    BY DEF Inv, CallOK
  <2>2. QED
    BY <1>1, <2>1
<1>3. QED
  BY <1>1, <1>2

(* The rows keep what they say while a thread only looks.                  *)
LEMMA OnlyLooking ==
    ASSUME Inv, UNCHANGED <<rows, objects>>
    PROVE  TablesStep /\ TablesGrow /\ Ids' = Ids
BY TablesSame DEF Inv, IntakeTypeOK, TablesTypeOK, TablesStep, Ids, rows

(* The key was found, and its receipt is the sender's.                     *)
LEMMA ReplayFound ==
    ASSUME Inv, NEW c \in Clients, calls[c] # None, NEW i \in ByKey(c), Owned(c, i),
           Existing(c, i, TRUE), bound' = bound, UNCHANGED <<rows, objects>>
    PROVE  ThreadStep(c)
<1>1. /\ i \in Ids /\ i \in Nat
      /\ [key |-> calls[c].key, receipt |-> i] \in keys
      /\ bound[c] # {} => i \in bound[c]
  BY KeyFound
<1>2. TablesGrow /\ i \in Ids'
  BY <1>1, OnlyLooking
<1>3. receipts'[i].ownerEmployeeId = calls[c].owner
  BY DEF Owned, rows
<1>4. [key |-> calls[c].key, receipt |-> i] \in keys'
  BY <1>1 DEF rows
<1>5. IntakeTypeOK /\ CallOK(c)
  BY DEF Inv
<1>6. QED
  BY <1>1, <1>2, <1>3, <1>4, <1>5, ReplayOK

(* The image was found with a receipt of the sender's.                     *)
LEMMA ImageFound ==
    ASSUME Inv, NEW c \in Clients, calls[c] # None, bound[c] = {},
           NEW i \in ByImage(c), Owned(c, i),
           Existing(c, i, FALSE), bound' = bound, UNCHANGED <<rows, objects>>
    PROVE  ThreadStep(c)
<1>1. i \in Ids /\ i \in Nat /\ images[i] = calls[c].image
  BY IdsPlaces DEF ByImage, Inv, IntakeTypeOK, TablesTypeOK
<1>2. TablesGrow /\ i \in Ids'
  BY <1>1, OnlyLooking
<1>3. receipts'[i].ownerEmployeeId = calls[c].owner /\ images'[i] = calls[c].image
  BY <1>1 DEF Owned, rows
<1>4. IntakeTypeOK /\ CallOK(c)
  BY DEF Inv
<1>5. QED
  BY <1>1, <1>2, <1>3, <1>4, FoundOK

LEMMA NotAccepted ==
    ASSUME Inv, NEW c \in Clients, calls[c] # None,
           Refuse(c), bound' = bound, UNCHANGED <<rows, objects>>
    PROVE  ThreadStep(c)
BY OnlyLooking, NotAcceptedOK DEF Inv

LEMMA GoesOn ==
    ASSUME Inv, NEW c \in Clients, calls[c] # None, bound[c] = {},
           NEW stage \in Stages \ {"received", "stored", "marking", "answered"},
           GoTo(c, stage), holder' \in [Images -> Clients \cup {None, Gone}],
           bound' = bound, UNCHANGED <<rows, objects>>
    PROVE  ThreadStep(c)
BY OnlyLooking, GoToOK DEF Inv

LEMMA ConflictOK ==
    ASSUME Inv, NEW c \in Clients, calls[c] # None, bound[c] = {},
           Conflict(c), bound' = bound, UNCHANGED <<rows, objects>>
    PROVE  ThreadStep(c)
<1>1. holder' \in [Images -> Clients \cup {None, Gone}]
  BY UnlockType DEF Conflict, Inv
<1>2. "conflicted" \in Stages \ {"received", "stored", "marking", "answered"}
  BY DEF Stages
<1>3. QED
  BY <1>1, <1>2, GoesOn DEF Conflict
-----------------------------------------------------------------------------
(* The steps of a call, one by one.                                        *)
LEMMA StageKnows ==
    ASSUME Inv, NEW c \in Clients, NEW stage, At(c, stage)
    PROVE  /\ calls[c] # None /\ calls[c] \in Call
           /\ stage \notin {"received", "answered"} => bound[c] = {}
           /\ StageOK(calls[c], bound[c])
BY DEF At, Inv, IntakeTypeOK, CallOK, StageOK

LEMMA FindReplayOK ==
    ASSUME Inv, NEW c \in Clients, FindReplay(c), bound' = bound
    PROVE  TablesStep /\ ThreadStep(c)
<1>1. calls[c] # None
  BY StageKnows DEF FindReplay
<1>2. UNCHANGED <<rows, objects>>
  BY DEF FindReplay
<1>3. CASE ByKey(c) = {} /\ GoTo(c, "keyUnknown") /\ UNCHANGED holder
  <2>1. "keyUnknown" \in Stages \ {"received", "stored", "marking", "answered"}
    BY DEF Stages
  <2>2. holder' \in [Images -> Clients \cup {None, Gone}]
    BY <1>3 DEF Inv, IntakeTypeOK
  <2>3. QED
    BY <1>1, <1>2, <1>3, <2>1, <2>2, KeyNotFound, GoesOn, OnlyLooking
<1>4. CASE \E i \in ByKey(c) : IF Owned(c, i) THEN Existing(c, i, TRUE) ELSE Refuse(c)
  BY <1>1, <1>2, <1>4, ReplayFound, NotAccepted, OnlyLooking
<1>5. QED
  BY <1>3, <1>4 DEF FindReplay

LEMMA FindProcessedOK ==
    ASSUME Inv, NEW c \in Clients, FindProcessed(c), bound' = bound
    PROVE  TablesStep /\ ThreadStep(c)
<1>1. calls[c] # None /\ bound[c] = {}
  BY StageKnows DEF FindProcessed
<1>2. UNCHANGED <<rows, objects>>
  BY DEF FindProcessed
<1>3. ASSUME GoTo(c, "waiting") /\ UNCHANGED holder
      PROVE  ThreadStep(c)
  <2>1. "waiting" \in Stages \ {"received", "stored", "marking", "answered"}
    BY DEF Stages
  <2>2. holder' \in [Images -> Clients \cup {None, Gone}]
    BY <1>3 DEF Inv, IntakeTypeOK
  <2>3. QED
    BY <1>1, <1>2, <1>3, <2>1, <2>2, GoesOn
<1>4. \/ \E i \in ByImage(c) : Refuse(c) \/ (Owned(c, i) /\ Existing(c, i, FALSE))
      \/ GoTo(c, "waiting") /\ UNCHANGED holder
  <2>1. Processed(c, GoTo(c, "waiting") /\ UNCHANGED holder)
    BY DEF FindProcessed
  <2>2. QED
    BY <2>1, Zenon DEF Processed
<1>5. CASE \E i \in ByImage(c) : Refuse(c) \/ (Owned(c, i) /\ Existing(c, i, FALSE))
  BY <1>1, <1>2, <1>5, NotAccepted, ImageFound, OnlyLooking
<1>6. QED
  BY <1>2, <1>3, <1>4, <1>5, OnlyLooking

LEMMA ConvergeOK ==
    ASSUME Inv, NEW c \in Clients, Converge(c), bound' = bound
    PROVE  TablesStep /\ ThreadStep(c)
<1>1. calls[c] # None /\ bound[c] = {}
  BY StageKnows DEF Converge
<1>2. UNCHANGED <<rows, objects>>
  BY DEF Converge
<1>3. CASE Refuse(c)
  BY <1>1, <1>2, <1>3, NotAccepted, OnlyLooking
<1>4. CASE \E i \in ByImage(c) : Owned(c, i) /\ Existing(c, i, FALSE)
  BY <1>1, <1>2, <1>4, ImageFound, OnlyLooking
<1>5. QED
  BY <1>3, <1>4 DEF Converge, Processed

LEMMA TakeLockOK ==
    ASSUME Inv, NEW c \in Clients, TakeLock(c), bound' = bound
    PROVE  TablesStep /\ ThreadStep(c)
<1>1. calls[c] # None /\ bound[c] = {}
  BY StageKnows DEF TakeLock
<1>2. UNCHANGED <<rows, objects>>
  BY DEF TakeLock
<1>3. "locked" \in Stages \ {"received", "stored", "marking", "answered"}
  BY DEF Stages
<1>4. holder' \in [Images -> Clients \cup {None, Gone}]
  BY DEF TakeLock, Inv, IntakeTypeOK
<1>5. QED
  BY <1>1, <1>2, <1>3, <1>4, GoesOn, OnlyLooking DEF TakeLock

LEMMA LockWaitOverOK ==
    ASSUME Inv, NEW c \in Clients, LockWaitOver(c), bound' = bound
    PROVE  TablesStep /\ ThreadStep(c)
<1>1. calls[c] # None /\ bound[c] = {}
  BY StageKnows DEF LockWaitOver
<1>2. QED
  BY <1>1, ConflictOK, OnlyLooking DEF LockWaitOver

LEMMA FindReplayLockedOK ==
    ASSUME Inv, NEW c \in Clients, FindReplayLocked(c), bound' = bound
    PROVE  TablesStep /\ ThreadStep(c)
<1>1. calls[c] # None /\ bound[c] = {}
  BY StageKnows DEF FindReplayLocked
<1>2. UNCHANGED <<rows, objects>>
  BY DEF FindReplayLocked
<1>3. CASE GoTo(c, "keyUnknownLocked") /\ UNCHANGED holder
  <2>1. "keyUnknownLocked" \in Stages \ {"received", "stored", "marking", "answered"}
    BY DEF Stages
  <2>2. holder' \in [Images -> Clients \cup {None, Gone}]
    BY <1>3 DEF Inv, IntakeTypeOK
  <2>3. QED
    BY <1>1, <1>2, <1>3, <2>1, <2>2, GoesOn, OnlyLooking
<1>4. CASE \E i \in ByKey(c) : IF Owned(c, i) THEN Existing(c, i, TRUE) ELSE Conflict(c)
  BY <1>1, <1>2, <1>4, ReplayFound, ConflictOK, OnlyLooking
<1>5. QED
  BY <1>3, <1>4 DEF FindReplayLocked

LEMMA FindSameImageOK ==
    ASSUME Inv, NEW c \in Clients, FindSameImage(c), bound' = bound
    PROVE  TablesStep /\ ThreadStep(c)
<1>1. calls[c] # None /\ bound[c] = {}
  BY StageKnows DEF FindSameImage
<1>2. UNCHANGED <<rows, objects>>
  BY DEF FindSameImage
<1>3. PICK i \in Ids : images[i] = calls[c].image /\ OpenMark(c, i)
  BY DEF FindSameImage, ByImage
<1>4. TablesStep /\ TablesGrow /\ IntakeTypeOK /\ CallOK(c)
  BY <1>2, OnlyLooking DEF Inv
<1>5. QED
  BY <1>1, <1>2, <1>3, <1>4, OpenMarkOK

LEMMA StoreImageOK ==
    ASSUME Inv, NEW c \in Clients, StoreImage(c), bound' = bound
    PROVE  TablesStep /\ ThreadStep(c)
<1>1. calls[c] # None /\ bound[c] = {} /\ calls[c].image \in Images
  BY StageKnows DEF StoreImage, Call
<1>2. UNCHANGED rows /\ objects' = objects \cup {calls[c].image} /\ GoTo(c, "stored")
  BY DEF StoreImage
<1>3. TablesTypeOK /\ TablesOK /\ IntakeTypeOK /\ CallOK(c)
  BY DEF Inv, IntakeTypeOK, TablesTypeOK
<1>4. TablesStep
  BY <1>1, <1>2, <1>3, ObjectsPut DEF TablesTypeOK
<1>5. "stored" \in Stages \ {"received", "marking", "answered"}
  BY DEF Stages
<1>6. holder' \in [Images -> Clients \cup {None, Gone}]
  BY DEF StoreImage, Inv, IntakeTypeOK
<1>7. TablesGrow /\ calls[c].image \in objects'
  BY <1>2, <1>4 DEF TablesStep
<1>8. QED
  BY <1>1, <1>2, <1>3, <1>4, <1>5, <1>6, <1>7, GoToOK

LEMMA ConstraintViolatedOK ==
    ASSUME Inv, NEW c \in Clients, ConstraintViolated(c), bound' = bound
    PROVE  TablesStep /\ ThreadStep(c)
<1>1. calls[c] # None /\ bound[c] = {}
  BY StageKnows DEF ConstraintViolated
<1>2. UNCHANGED <<rows, objects>> /\ GoTo(c, "resolving")
  BY DEF ConstraintViolated
<1>3. "resolving" \in Stages \ {"received", "stored", "marking", "answered"}
  BY DEF Stages
<1>4. holder' \in [Images -> Clients \cup {None, Gone}]
  BY DEF ConstraintViolated, Inv, IntakeTypeOK
<1>5. QED
  BY <1>1, <1>2, <1>3, <1>4, GoesOn, OnlyLooking

LEMMA ResolveOK ==
    ASSUME Inv, NEW c \in Clients, Resolve(c), bound' = bound
    PROVE  TablesStep /\ ThreadStep(c)
<1>1. calls[c] # None /\ bound[c] = {}
  BY StageKnows DEF Resolve
<1>2. UNCHANGED <<rows, objects>>
  BY DEF Resolve
<1>3. TablesStep /\ TablesGrow /\ IntakeTypeOK /\ CallOK(c)
  BY <1>2, OnlyLooking DEF Inv
<1>4. CASE \E i \in ByKey(c) : IF Owned(c, i) THEN Existing(c, i, TRUE) ELSE Conflict(c)
  BY <1>1, <1>2, <1>3, <1>4, ReplayFound, ConflictOK
<1>5. CASE \E i \in ByImage(c) : OpenMark(c, i)
  <2>1. PICK i \in Ids : images[i] = calls[c].image /\ OpenMark(c, i)
    BY <1>5 DEF ByImage
  <2>2. QED
    BY <1>1, <1>2, <1>3, <2>1, OpenMarkOK
<1>6. QED
  BY <1>4, <1>5 DEF Resolve

LEMMA MarkConflictOK ==
    ASSUME Inv, NEW c \in Clients, MarkConflict(c), bound' = bound
    PROVE  TablesStep /\ ThreadStep(c)
<1>1. calls[c] # None
  BY StageKnows DEF MarkConflict
<1>2. QED
  BY <1>1, NotAccepted, OnlyLooking DEF MarkConflict

LEMMA CreateQueuedOK ==
    ASSUME Inv, NEW c \in Clients, CreateQueued(c), bound' = bound
    PROVE  TablesStep /\ ThreadStep(c)
<1> DEFINE n == Len(receipts) + 1
<1>1. /\ calls[c] # None /\ calls[c] \in Call /\ bound[c] = {}
      /\ calls[c].image \in objects
  BY StageKnows DEF CreateQueued, At, StageOK
<1>2. PICK owner \in Owners, key \in Keys \cup {None}, image \in Images :
          owner = calls[c].owner /\ key = calls[c].key /\ image = calls[c].image
  BY <1>1 DEF Call
<1>3. \A k \in keys : k.key # key
  BY <1>1, <1>2, KeyNotFound DEF CreateQueued, IsUnique
<1>4. \A i \in Ids : images[i] # image
  BY <1>2 DEF CreateQueued, IsUnique, ByImage
<1>5. TablesTypeOK /\ TablesOK /\ IntakeTypeOK /\ CallOK(c)
  BY DEF Inv, IntakeTypeOK, TablesTypeOK
<1>6. /\ images' = Append(images, image)
      /\ receipts' = Append(receipts, NewReceipt(owner))
      /\ jobs' = Append(jobs, NewJob)
      /\ audit' = Append(audit, <<"UPLOADED">>)
      /\ keys' = keys \cup [key : {key} \ {None}, receipt : {Len(receipts) + 1}]
      /\ objects' = objects
  BY <1>2 DEF CreateQueued
<1>7. /\ TablesStep
      /\ n \in Ids'
      /\ receipts'[n].ownerEmployeeId = owner
      /\ images'[n] = image
  <2>1. image \in objects
    BY <1>1, <1>2
  <2>2. QED
    BY <1>3, <1>4, <1>5, <1>6, <2>1, RowsCreated
<1>8. n \in Nat
  BY <1>5, IdsPlaces
<1>9. Respond(c, 202, n, FALSE)
  BY DEF CreateQueued
<1> HIDE DEF n
<1>10. QED
  BY <1>1, <1>2, <1>5, <1>7, <1>8, <1>9, FoundOK DEF TablesStep

LEMMA CommitMarkOK ==
    ASSUME Inv, NEW c \in Clients, CommitMark(c), bound' = bound
    PROVE  TablesStep /\ ThreadStep(c)
<1>1. PICK t : t = calls[c].snapshot
  OBVIOUS
<1>2. /\ calls[c] # None /\ bound[c] = {}
      /\ t \in Snapshot /\ t.of \in Ids
      /\ t.receipt.ownerEmployeeId = receipts[t.of].ownerEmployeeId
      /\ receipts[t.of].ownerEmployeeId = calls[c].owner
      /\ images[t.of] = calls[c].image
  BY <1>1, StageKnows DEF CommitMark, At, StageOK, SnapshotOK
<1>3. TablesTypeOK /\ TablesOK /\ IntakeTypeOK /\ CallOK(c)
  BY DEF Inv, IntakeTypeOK, TablesTypeOK
<1>4. PICK i \in Ids : i = t.of
  BY <1>2
<1>5. /\ i \in Nat /\ receipts[i] \in Receipt
      /\ i \in DOMAIN receipts /\ i \in DOMAIN audit
      /\ audit[i] \in Seq(AuditActions)
  BY <1>3, <1>4, IdsPlaces, LenProperties DEF TablesTypeOK
<1>6. t.receipt \in Receipt /\ t.job \in Job
  BY <1>2 DEF Snapshot
<1>7. PICK job \in Job : job = Saved(MarkJobDuplicate(t.job))
  BY <1>6, JobMethodTypes
<1>8. PICK receipt \in Receipt :
          /\ receipt = IF LeftAloneByDuplicate(t.receipt) THEN receipts[i]
                       ELSE Saved(RevalidatedAsDuplicate(t.receipt))
          /\ receipt.ownerEmployeeId = receipts[i].ownerEmployeeId
  <2>1. CASE LeftAloneByDuplicate(t.receipt)
    BY <1>5, <2>1
  <2>2. CASE ~LeftAloneByDuplicate(t.receipt)
    <3>1. PICK new \in Receipt : new = RevalidatedAsDuplicate(t.receipt)
      BY <1>6, <2>2, ReceiptMethodTypes DEF LeftAloneByDuplicate
    <3>2. new.ownerEmployeeId = t.receipt.ownerEmployeeId
      BY <1>6, <3>1 DEF RevalidatedAsDuplicate, UpdateData, Receipt
    <3>3. Saved(new) \in Receipt /\ Saved(new).ownerEmployeeId = new.ownerEmployeeId
      BY ReceiptMethodTypes DEF Saved, Receipt
    <3>4. QED
      BY <1>2, <1>4, <2>2, <3>1, <3>2, <3>3
  <2>3. QED
    BY <2>1, <2>2
<1>9. PICK events \in Seq(AuditActions) :
          events = IF t.receipt.status = None \/ ~LeftAloneByDuplicate(t.receipt)
                   THEN Append(audit[i], "DUPLICATE_DETECTED") ELSE audit[i]
  <2>1. Append(audit[i], "DUPLICATE_DETECTED") \in Seq(AuditActions)
    BY <1>5, AppendProperties DEF AuditActions
  <2>2. QED
    BY <1>5, <2>1
<1>10. jobs' = [jobs EXCEPT ![i] = job]
  BY <1>1, <1>4, <1>7 DEF CommitMark
<1>11. receipts' = [receipts EXCEPT ![i] = receipt]
  <2>1. receipts' = IF LeftAloneByDuplicate(t.receipt) THEN receipts
                    ELSE [receipts EXCEPT ![i] = Saved(RevalidatedAsDuplicate(t.receipt))]
    BY <1>1, <1>4 DEF CommitMark
  <2>2. receipts = [receipts EXCEPT ![i] = receipts[i]]
    BY <1>3, <1>5, WrittenAgain DEF TablesTypeOK
  <2>3. QED
    BY <1>8, <2>1, <2>2
<1>12. audit' = [audit EXCEPT ![i] = events]
  <2>1. audit' = IF t.receipt.status = None \/ ~LeftAloneByDuplicate(t.receipt)
                 THEN [audit EXCEPT ![i] = Append(@, "DUPLICATE_DETECTED")]
                 ELSE audit
    BY <1>1, <1>4 DEF CommitMark
  <2>2. audit = [audit EXCEPT ![i] = audit[i]]
    BY <1>3, <1>5, WrittenAgain DEF TablesTypeOK
  <2>3. QED
    BY <1>9, <2>1, <2>2
<1>13. UNCHANGED <<images, keys, objects>> /\ Existing(c, i, FALSE)
  BY <1>1, <1>4 DEF CommitMark
<1>14. TablesStep
  BY <1>3, <1>8, <1>10, <1>11, <1>12, <1>13, RowRewritten
<1>15. /\ i \in Ids'
       /\ receipts'[i].ownerEmployeeId = calls[c].owner
       /\ images'[i] = calls[c].image
  BY <1>2, <1>4, <1>14 DEF TablesStep, TablesGrow
<1>16. QED
  BY <1>2, <1>3, <1>5, <1>13, <1>14, <1>15, FoundOK DEF TablesStep
-----------------------------------------------------------------------------
(* The steps of the extraction leave every call as it is.                  *)
ExtractionOK ==
    /\ TablesStep
    /\ executing' \subseteq Ids'
    /\ \A t \in completing' : SnapshotOK(t)'
    /\ UNCHANGED <<holder, calls, faults>>

(* A step that changes a job alone and writes one event.                   *)
LEMMA JobRewritten ==
    ASSUME Inv, NEW i \in Ids, NEW job \in Job, NEW event \in AuditActions,
           jobs' = [jobs EXCEPT ![i] = job],
           audit' = [audit EXCEPT ![i] = Append(@, event)],
           UNCHANGED <<images, receipts, keys, objects>>
    PROVE  TablesStep
<1>1. TablesTypeOK /\ TablesOK
  BY DEF Inv, IntakeTypeOK, TablesTypeOK
<1>2. /\ receipts[i] \in Receipt /\ audit[i] \in Seq(AuditActions)
      /\ i \in DOMAIN receipts
  BY <1>1, IdsPlaces DEF Ids
<1>3. PICK events \in Seq(AuditActions) : events = Append(audit[i], event)
  BY <1>2, AppendProperties
<1>4. receipts' = [receipts EXCEPT ![i] = receipts[i]]
  BY <1>1, <1>2, WrittenAgain DEF TablesTypeOK
<1>5. audit' = [audit EXCEPT ![i] = events]
  BY <1>3
<1>6. QED
  BY <1>1, <1>2, <1>4, <1>5, RowRewritten

(* Open transactions and claims keep what they know.                       *)
LEMMA SnapshotsKept ==
    ASSUME Inv, TablesStep
    PROVE  /\ executing \subseteq Ids'
           /\ \A t \in completing : SnapshotOK(t)'
BY GrowthKeeps DEF Inv, IntakeTypeOK, TablesStep, TablesGrow

LEMMA ClaimOK ==
    ASSUME Inv, NEW i \in Ids, Claim(i)
    PROVE  ExtractionOK
<1>1. jobs[i] \in Job
  BY IdsPlaces DEF Inv, IntakeTypeOK, TablesTypeOK
<1>2. PICK w \in Workers :
          jobs' = [jobs EXCEPT ![i] = Saved(ClaimJob(@, w, @.attemptCount + 1))]
  BY DEF Claim
<1>3. PICK claimed \in Job : claimed = ClaimJob(jobs[i], w, jobs[i].attemptCount + 1)
  <2>1. jobs[i].attemptCount + 1 \in Nat
    BY <1>1 DEF Job
  <2>2. QED
    BY <1>1, <2>1, JobMethodTypes
<1>4. PICK job \in Job : job = Saved(claimed)
  BY JobMethodTypes
<1>5. jobs' = [jobs EXCEPT ![i] = job]
  BY <1>2, <1>3, <1>4
<1>6. "EXTRACTION_JOB_CLAIMED" \in AuditActions
  BY DEF AuditActions
<1>7. TablesStep
  BY <1>5, <1>6, JobRewritten DEF Claim
<1>8. i \in Ids'
  BY <1>7 DEF TablesStep, TablesGrow
<1>9. QED
  BY <1>7, <1>8, SnapshotsKept DEF Claim, ExtractionOK

LEMMA RecoverLeaseOK ==
    ASSUME Inv, NEW i \in Ids, RecoverLease(i)
    PROVE  ExtractionOK
<1>1. jobs[i] \in Job
  BY IdsPlaces DEF Inv, IntakeTypeOK, TablesTypeOK
<1>2. PICK recovered \in Job : recovered = RecoverExpiredLease(jobs[i])
  BY <1>1, JobMethodTypes
<1>3. PICK job \in Job : job = Saved(recovered)
  BY JobMethodTypes
<1>4. jobs' = [jobs EXCEPT ![i] = job]
  BY <1>2, <1>3 DEF RecoverLease
<1>5. "EXTRACTION_JOB_RECOVERED" \in AuditActions
  BY DEF AuditActions
<1>6. TablesStep
  BY <1>4, <1>5, JobRewritten DEF RecoverLease
<1>7. QED
  BY <1>6, SnapshotsKept DEF RecoverLease, ExtractionOK, extraction

LEMMA OpenCompleteOK ==
    ASSUME Inv, NEW i \in Ids, OpenComplete(i)
    PROVE  ExtractionOK
<1>1. TablesStep /\ Ids' = Ids
  BY OnlyLooking DEF OpenComplete
<1>2. PICK t : t = [of |-> i, receipt |-> receipts[i], job |-> jobs[i]]
  OBVIOUS
<1>3. i \in Nat /\ receipts[i] \in Receipt /\ jobs[i] \in Job
  BY IdsPlaces DEF Inv, IntakeTypeOK, TablesTypeOK
<1>4. t \in Snapshot /\ t.of = i /\ t.receipt = receipts[i]
  BY <1>2, <1>3 DEF Snapshot
<1>5. SnapshotOK(t)'
  BY <1>1, <1>4 DEF SnapshotOK, OpenComplete, rows
<1>6. completing' = completing \cup {t}
  BY <1>2 DEF OpenComplete
<1>7. QED
  BY <1>1, <1>5, <1>6, SnapshotsKept DEF OpenComplete, ExtractionOK

LEMMA CompleteConflictOK ==
    ASSUME Inv, NEW t \in completing, CompleteConflict(t)
    PROVE  ExtractionOK
<1>1. TablesStep
  BY OnlyLooking DEF CompleteConflict
<1>2. QED
  BY <1>1, SnapshotsKept DEF CompleteConflict, ExtractionOK

LEMMA CompleteOK ==
    ASSUME Inv, NEW t \in completing, Complete(t)
    PROVE  ExtractionOK
<1>1. PICK results \in SUBSET RuleResult : results = Validate(FakeData, t.job.duplicateDetected)
  BY ValidateType
<1>2. PICK next \in ReceiptStatuses : next = Route(FakeData, results)
  BY RouteType DEF ReceiptStatuses
<1>3. /\ t \in Snapshot /\ t.of \in Ids
      /\ t.receipt.ownerEmployeeId = receipts[t.of].ownerEmployeeId
  BY DEF Inv, SnapshotOK
<1>4. PICK i \in Ids : i = t.of
  BY <1>3
<1>5. TablesTypeOK /\ TablesOK
  BY DEF Inv, IntakeTypeOK, TablesTypeOK
<1>6. t.receipt \in Receipt /\ t.job \in Job
  BY <1>3 DEF Snapshot
<1>7. PICK completed \in Receipt :
          completed = CompleteExtraction(t.receipt, FakeData, results, next)
  BY <1>6, ReceiptMethodTypes, FakeDataAssumption
<1>8. PICK receipt \in Receipt : receipt = Saved(completed)
  BY ReceiptMethodTypes
<1>9. receipt.ownerEmployeeId = receipts[i].ownerEmployeeId
  <2>1. completed.ownerEmployeeId = t.receipt.ownerEmployeeId
    BY <1>6, <1>7 DEF CompleteExtraction, Receipt
  <2>2. receipt.ownerEmployeeId = completed.ownerEmployeeId
    BY <1>8 DEF Saved, Receipt
  <2>3. QED
    BY <1>3, <1>4, <2>1, <2>2
<1>10. PICK finished \in Job : finished = CompleteJob(t.job)
  BY <1>6, JobMethodTypes
<1>11. PICK job \in Job : job = Saved(finished)
  BY JobMethodTypes
<1>12. PICK events \in Seq(AuditActions) :
           events = audit[i] \o <<"EXTRACTION_COMPLETED", "VALIDATION_COMPLETED">>
  <2>1. \A S : \A d, e \in S : <<d, e>> \in Seq(S)
    OBVIOUS
  <2>2. <<"EXTRACTION_COMPLETED", "VALIDATION_COMPLETED">> \in Seq(AuditActions)
    BY <2>1 DEF AuditActions
  <2>3. audit[i] \in Seq(AuditActions)
    BY <1>5, IdsPlaces
  <2>4. QED
    BY <2>2, <2>3, ConcatProperties
<1>13. /\ receipts' = [receipts EXCEPT ![i] = receipt]
       /\ jobs' = [jobs EXCEPT ![i] = job]
       /\ audit' = [audit EXCEPT ![i] = events]
       /\ UNCHANGED <<images, keys, objects>>
  BY <1>1, <1>2, <1>4, <1>7, <1>8, <1>10, <1>11, <1>12 DEF Complete
<1>14. TablesStep
  BY <1>5, <1>9, <1>13, RowRewritten
<1>15. QED
  BY <1>14, SnapshotsKept DEF Complete, ExtractionOK

LEMMA ExtractionStepOK ==
    ASSUME Inv, ExtractionStep \/ (\E t \in completing : CompleteConflict(t))
    PROVE  ExtractionOK
BY ClaimOK, OpenCompleteOK, RecoverLeaseOK, CompleteOK, CompleteConflictOK DEF ExtractionStep
-----------------------------------------------------------------------------
(* Putting a step together again.                                          *)
LEMMA Assembled ==
    ASSUME TablesStep,
           calls' \in [Clients -> Call \cup {None}],
           holder' \in [Images -> Clients \cup {None, Gone}],
           executing' \subseteq Ids',
           \A t \in completing' : SnapshotOK(t)',
           faults' \in 0..MaxFaults,
           ClientsTypeOK',
           \A c \in Clients : CallOK(c)',
           \A a \in answers' : AnswerOK(a.call, a.bound)'
    PROVE  Inv'
<1>1. completing' \subseteq Snapshot
  BY DEF SnapshotOK
<1>2. IntakeTypeOK'
  BY <1>1 DEF IntakeTypeOK, TablesStep, TablesTypeOK
<1>3. QED
  BY <1>2 DEF Inv, TablesStep

(* The answers given so far stay right.                                    *)
LEMMA AnswersKept ==
    ASSUME Inv, TablesStep
    PROVE  \A a \in answers : AnswerOK(a.call, a.bound)'
<1>1. \A call, known : AnswerOK(call, known) => AnswerOK(call, known)'
  BY GrowthKeeps DEF TablesStep
<1>2. QED
  BY <1>1 DEF Inv

LEMMA ThreadKeepsInv ==
    ASSUME Inv, NEW c \in Clients, TablesStep, ThreadStep(c),
           UNCHANGED <<extraction, sends, bound, answers>>,
           faults' \in 0..MaxFaults
    PROVE  Inv'
<1>1. \A d \in Clients : CallOK(d)'
  <2>1. ASSUME NEW d \in Clients, d # c
        PROVE  CallOK(d)'
    <3>1. CallOK(d) /\ calls'[d] = calls[d] /\ bound'[d] = bound[d] /\ TablesGrow
      BY <2>1 DEF Inv, ThreadStep, TablesStep
    <3>2. QED
      BY <3>1, IdleKeeps
  <2>2. QED
    BY <2>1 DEF ThreadStep
<1>2. ClientsTypeOK'
  BY DEF Inv, ClientsTypeOK
<1>3. \A a \in answers' : AnswerOK(a.call, a.bound)'
  BY AnswersKept
<1>4. executing' \subseteq Ids' /\ \A t \in completing' : SnapshotOK(t)'
  BY SnapshotsKept DEF extraction
<1>5. QED
  BY <1>1, <1>2, <1>3, <1>4, Assembled DEF ThreadStep

(* A step that leaves every call that is still in hand as it is.           *)
LEMMA OthersKeepInv ==
    ASSUME Inv, TablesStep,
           \A c \in Clients : calls'[c] \in {calls[c], None},
           calls' \in [Clients -> Call \cup {None}],
           holder' \in [Images -> Clients \cup {None, Gone}],
           executing' \subseteq Ids',
           \A t \in completing' : SnapshotOK(t)',
           faults' \in 0..MaxFaults,
           UNCHANGED <<sends, bound, answers>>
    PROVE  Inv'
<1>1. ASSUME NEW c \in Clients
      PROVE  CallOK(c)'
  <2>1. CASE calls'[c] = calls[c]
    BY <2>1, IdleKeeps DEF Inv, TablesStep
  <2>2. CASE calls'[c] = None
    BY <2>2 DEF CallOK
  <2>3. QED
    BY <2>1, <2>2
<1>2. ClientsTypeOK'
  BY DEF Inv, ClientsTypeOK
<1>3. \A a \in answers' : AnswerOK(a.call, a.bound)'
  BY AnswersKept
<1>4. QED
  BY <1>1, <1>2, <1>3, Assembled

LEMMA CallStepKeepsInv ==
    ASSUME Inv, NEW c \in Clients, CallStep(c) \/ LockWaitOver(c) \/ MarkConflict(c),
           UNCHANGED <<sends, bound, answers>>
    PROVE  Inv'
<1>1. TablesStep /\ ThreadStep(c)
  BY FindReplayOK, FindProcessedOK, TakeLockOK, ConvergeOK, FindReplayLockedOK,
     FindSameImageOK, StoreImageOK, CreateQueuedOK, ConstraintViolatedOK, ResolveOK,
     CommitMarkOK, LockWaitOverOK, MarkConflictOK DEF CallStep
<1>2. UNCHANGED <<extraction, faults>>
  BY DEF CallStep, FindReplay, FindProcessed, TakeLock, Converge, FindReplayLocked,
         FindSameImage, StoreImage, CreateQueued, ConstraintViolated, Resolve, CommitMark,
         LockWaitOver, MarkConflict
<1>3. faults' \in 0..MaxFaults
  BY <1>2 DEF Inv, IntakeTypeOK
<1>4. QED
  BY <1>1, <1>2, <1>3, ThreadKeepsInv

LEMMA ExtractionKeepsInv ==
    ASSUME Inv, ExtractionStep \/ (\E t \in completing : CompleteConflict(t)),
           UNCHANGED <<sends, bound, answers>>
    PROVE  Inv'
<1>1. ExtractionOK
  BY ExtractionStepOK
<1>2. /\ calls' \in [Clients -> Call \cup {None}]
      /\ holder' \in [Images -> Clients \cup {None, Gone}]
      /\ faults' \in 0..MaxFaults
  BY <1>1 DEF ExtractionOK, Inv, IntakeTypeOK
<1>3. QED
  BY <1>1, <1>2, OthersKeepInv DEF ExtractionOK

(* Locks that lapse or run out, a failing put, a dying server.             *)
LEMMA FaultKeepsInv ==
    ASSUME Inv, FaultStep \/ LockStep, UNCHANGED <<sends, bound, answers>>
    PROVE  Inv'
<1>0. faults' = faults \/ SpendFault => faults' \in 0..MaxFaults
  BY FaultsAssumption DEF Inv, IntakeTypeOK, SpendFault
<1>1. ASSUME NEW m \in Images, LockLapses(m) \/ LockExpires(m)
      PROVE  Inv'
  <2>1. UNCHANGED <<rows, objects, calls, extraction>>
    BY <1>1 DEF LockLapses, LockExpires
  <2>2. /\ holder' \in [Images -> Clients \cup {None, Gone}]
        /\ calls' \in [Clients -> Call \cup {None}]
        /\ faults' \in 0..MaxFaults
    BY <1>0, <1>1, <2>1 DEF LockLapses, LockExpires, Inv, IntakeTypeOK
  <2>3. TablesStep
    BY <2>1, OnlyLooking
  <2>4. executing' \subseteq Ids' /\ \A t \in completing' : SnapshotOK(t)'
    BY <2>1, <2>3, SnapshotsKept DEF extraction
  <2>5. QED
    BY <2>1, <2>2, <2>3, <2>4, OthersKeepInv
<1>2. ASSUME NEW c \in Clients, StorageFails(c)
      PROVE  Inv'
  <2>1. calls[c] # None /\ calls[c].image \in Images
    BY <1>2, StageKnows DEF StorageFails, Call
  <2>2. UNCHANGED rows /\ objects \subseteq objects' /\ objects' \subseteq Images
    BY <1>2, <2>1 DEF StorageFails, Inv, IntakeTypeOK
  <2>3. TablesTypeOK /\ TablesOK /\ IntakeTypeOK /\ CallOK(c)
    BY DEF Inv, IntakeTypeOK, TablesTypeOK
  <2>4. TablesStep
    BY <2>2, <2>3, ObjectsPut
  <2>5. ThreadStep(c)
    BY <1>2, <2>1, <2>3, <2>4, NotAcceptedOK DEF StorageFails, TablesStep
  <2>6. QED
    BY <1>0, <1>2, <2>4, <2>5, ThreadKeepsInv DEF StorageFails
<1>3. ASSUME ServerDies
      PROVE  Inv'
  <2>1. TablesStep
    BY <1>3, OnlyLooking DEF ServerDies
  <2>2. /\ \A c \in Clients : calls'[c] \in {calls[c], None}
        /\ calls' \in [Clients -> Call \cup {None}]
        /\ holder' \in [Images -> Clients \cup {None, Gone}]
        /\ executing' = {} /\ completing' = {}
    BY <1>3 DEF ServerDies, Inv, IntakeTypeOK
  <2>3. QED
    BY <1>0, <1>3, <2>1, <2>2, OthersKeepInv DEF ServerDies
<1>4. QED
  BY <1>1, <1>2, <1>3 DEF FaultStep, LockStep

(* A request is sent, and what its key names is noted with it.             *)
LEMMA SubmitKeepsInv ==
    ASSUME Inv, NEW c \in Clients, Submit(c)
    PROVE  Inv'
<1>1. UNCHANGED <<rows, objects, holder, extraction, faults, answers>>
  BY DEF Submit
<1>2. PICK owner \in Owners, key \in Keys \cup {None}, image \in Images :
          /\ Send(c, owner, key, image)
          /\ bound' = [bound EXCEPT ![c] = {row.receipt : row \in {k \in keys : k.key = key}}]
  BY DEF Submit
<1>3. PICK call : call = [owner |-> owner, key |-> key, image |-> image,
                          at |-> "received", snapshot |-> None, answer |-> None]
  OBVIOUS
<1>4. call \in Call /\ call.at = "received" /\ call.key = key
  BY <1>3 DEF Call, Stages
<1>5. /\ calls' \in [Clients -> Call \cup {None}]
      /\ \A d \in Clients : d # c => calls'[d] = calls[d]
      /\ calls'[c] = call
  BY <1>2, <1>3, <1>4 DEF Send, Inv, IntakeTypeOK
<1>6. keys \subseteq [key : Keys, receipt : Ids] /\ \A i \in Ids : i \in Nat
  BY IdsPlaces DEF Inv, IntakeTypeOK, TablesTypeOK
<1>7. PICK known \in SUBSET Nat : known = {row.receipt : row \in {k \in keys : k.key = key}}
  BY <1>6
<1>8. /\ bound' \in [Clients -> SUBSET Nat]
      /\ \A d \in Clients : d # c => bound'[d] = bound[d]
      /\ bound'[c] = known
  BY <1>2, <1>7 DEF Inv, ClientsTypeOK
<1>9. ASSUME NEW i \in known
      PROVE  [key |-> key, receipt |-> i] \in keys
  <2>1. PICK k \in keys : k.key = key /\ k.receipt = i
    BY <1>7, <1>9
  <2>2. k = [key |-> key, receipt |-> i]
    BY <1>6, <2>1
  <2>3. QED
    BY <2>1, <2>2
<1>10. TablesStep /\ TablesGrow
  BY <1>1, OnlyLooking
<1>11. ASSUME NEW d \in Clients
       PROVE  CallOK(d)'
  <2>1. CASE d = c
    <3>1. StageOK(call, known)'
      BY <1>4 DEF StageOK
    <3>2. \A i \in known : [key |-> call.key, receipt |-> i] \in keys'
      BY <1>1, <1>4, <1>9 DEF rows
    <3>3. QED
      BY <1>5, <1>8, <2>1, <3>1, <3>2 DEF CallOK
  <2>2. CASE d # c
    BY <1>5, <1>8, <1>10, <2>2, IdleKeeps DEF Inv
  <2>3. QED
    BY <2>1, <2>2
<1>12. ClientsTypeOK'
  BY <1>1, <1>8 DEF Submit, Inv, ClientsTypeOK
<1>13. executing' \subseteq Ids' /\ \A t \in completing' : SnapshotOK(t)'
  BY <1>1, <1>10, SnapshotsKept DEF extraction
<1>14. \A a \in answers' : AnswerOK(a.call, a.bound)'
  BY <1>1, <1>10, AnswersKept
<1>15. /\ holder' \in [Images -> Clients \cup {None, Gone}]
       /\ faults' \in 0..MaxFaults
  BY <1>1 DEF Inv, IntakeTypeOK
<1>16. QED
  BY <1>5, <1>10, <1>11, <1>12, <1>13, <1>14, <1>15, Assembled

(* An answer is remembered with what the key named when it was asked.      *)
LEMMA TakeAnswerKeepsInv ==
    ASSUME Inv, NEW c \in Clients, TakeAnswer(c)
    PROVE  Inv'
<1>1. UNCHANGED <<rows, objects, holder, extraction, faults, sends>>
  BY DEF TakeAnswer
<1>2. calls[c] \in Call /\ StageOK(calls[c], bound[c]) /\ calls[c].at = "answered"
  BY StageKnows DEF TakeAnswer, At
<1>3. PICK a : a = [call |-> calls[c], bound |-> bound[c]]
  OBVIOUS
<1>4. a \in [call : Call, bound : SUBSET Nat] /\ a.call = calls[c] /\ a.bound = bound[c]
  BY <1>2, <1>3 DEF Inv, ClientsTypeOK
<1>5. AnswerOK(a.call, a.bound)
  BY <1>2, <1>4 DEF StageOK
<1>6. TablesStep /\ TablesGrow
  BY <1>1, OnlyLooking
<1>7. answers' = answers \cup {a}
  BY <1>3 DEF TakeAnswer
<1>8. \A b \in answers' : AnswerOK(b.call, b.bound)'
  <2>1. AnswerOK(a.call, a.bound)'
    BY <1>5, <1>6, GrowthKeeps
  <2>2. QED
    BY <1>6, <1>7, <2>1, AnswersKept
<1>9. /\ calls' \in [Clients -> Call \cup {None}]
      /\ calls'[c] = None
      /\ bound' \in [Clients -> SUBSET Nat]
      /\ \A d \in Clients : d # c => calls'[d] = calls[d] /\ bound'[d] = bound[d]
  BY DEF TakeAnswer, Inv, IntakeTypeOK, ClientsTypeOK
<1>10. ASSUME NEW d \in Clients
       PROVE  CallOK(d)'
  <2>1. CASE d = c
    BY <1>9, <2>1 DEF CallOK
  <2>2. CASE d # c
    BY <1>6, <1>9, <2>2, IdleKeeps DEF Inv
  <2>3. QED
    BY <2>1, <2>2
<1>11. ClientsTypeOK'
  BY <1>1, <1>4, <1>7, <1>9 DEF Inv, ClientsTypeOK
<1>12. executing' \subseteq Ids' /\ \A t \in completing' : SnapshotOK(t)'
  BY <1>1, <1>6, SnapshotsKept DEF extraction
<1>13. /\ holder' \in [Images -> Clients \cup {None, Gone}]
       /\ faults' \in 0..MaxFaults
  BY <1>1 DEF Inv, IntakeTypeOK
<1>14. QED
  BY <1>6, <1>8, <1>9, <1>10, <1>11, <1>12, <1>13, Assembled

LEMMA RestKeepsInv ==
    ASSUME Inv, UNCHANGED vars
    PROVE  Inv'
<1>1. TablesStep /\ TablesGrow
  BY OnlyLooking DEF vars, intakeVars
<1>2. QED
  BY <1>1, OthersKeepInv, SnapshotsKept DEF vars, intakeVars, extraction, Inv, IntakeTypeOK
-----------------------------------------------------------------------------
LEMMA InitInv == Init => Inv
<1> SUFFICES ASSUME Init
             PROVE  Inv
  OBVIOUS
<1>1. /\ images = <<>> /\ receipts = <<>> /\ jobs = <<>> /\ audit = <<>>
      /\ keys = {} /\ objects = {} /\ executing = {} /\ completing = {} /\ faults = 0
      /\ holder = [m \in Images |-> None]
      /\ calls = [c \in Clients |-> None]
      /\ sends = 0 /\ bound = [c \in Clients |-> {}] /\ answers = {}
  BY DEF Init, IntakeInit
<1>2. IntakeTypeOK
  BY <1>1, EmptySeq, FaultsAssumption DEF IntakeTypeOK
<1>3. ClientsTypeOK
  BY <1>1 DEF ClientsTypeOK
<1>4. TablesOK
  BY <1>1 DEF TablesOK, OneStoredReceiptPerImage, KeysUnique, Ids
<1>5. \A c \in Clients : CallOK(c)
  BY <1>1 DEF CallOK
<1>6. QED
  BY <1>1, <1>2, <1>3, <1>4, <1>5 DEF Inv

LEMMA NextInv == Inv /\ [Next]_vars => Inv'
<1> SUFFICES ASSUME Inv, [Next]_vars
             PROVE  Inv'
  OBVIOUS
<1>1. CASE \E c \in Clients : Submit(c) \/ TakeAnswer(c)
  BY <1>1, SubmitKeepsInv, TakeAnswerKeepsInv
<1>2. CASE /\ \E c \in Clients : CallStep(c) \/ LockWaitOver(c) \/ MarkConflict(c)
           /\ UNCHANGED <<sends, bound, answers>>
  BY <1>2, CallStepKeepsInv
<1>3. CASE /\ ExtractionStep \/ (\E t \in completing : CompleteConflict(t))
           /\ UNCHANGED <<sends, bound, answers>>
  BY <1>3, ExtractionKeepsInv
<1>4. CASE /\ FaultStep \/ LockStep
           /\ UNCHANGED <<sends, bound, answers>>
  BY <1>4, FaultKeepsInv
<1>5. CASE Rest \/ UNCHANGED vars
  BY <1>5, RestKeepsInv DEF Rest
<1>6. QED
  BY <1>1, <1>2, <1>3, <1>4, <1>5 DEF Next

LEMMA AlwaysInv == Spec => []Inv
BY InitInv, NextInv, PTL DEF Spec

(* Rows, keys, locks, calls and open transactions keep their types, for    *)
(* any images, keys, employees, threads, requests and faults.              *)
THEOREM IntakeTypeCorrect == Spec => []IntakeTypeOK
<1>1. Inv => IntakeTypeOK
  BY DEF Inv
<1>2. QED
  BY <1>1, AlwaysInv, PTL

(* However many uploads of an image race, and whether or not the lock      *)
(* holds, the image has one receipt and is in the bucket.                  *)
THEOREM OneReceipt == Spec => []OneStoredReceiptPerImage
<1>1. Inv => OneStoredReceiptPerImage
  BY DEF Inv, TablesOK
<1>2. QED
  BY <1>1, AlwaysInv, PTL

(* Whoever is told that an upload is accepted is told of an own receipt,   *)
(* of the image that was sent or of the key it was sent with.              *)
THEOREM SenderAnswered == Spec => []AnswersTheSender
<1>1. Inv => AnswersTheSender
  BY DEF Inv, AnswersTheSender, Accepted, AnswerOK
<1>2. QED
  BY <1>1, AlwaysInv, PTL

(* A key that has created a receipt answers this receipt or nothing, and   *)
(* never creates another.                                                  *)
THEOREM KeyStaysBound == Spec => []CreatedKeyIsBound
<1>1. Inv => CreatedKeyIsBound
  BY DEF Inv, TablesOK, KeysUnique, CreatedKeyIsBound, Accepted, AnswerOK
<1>2. QED
  BY <1>1, AlwaysInv, PTL
=============================================================================
