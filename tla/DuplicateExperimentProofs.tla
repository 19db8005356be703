---------------------- MODULE DuplicateExperimentProofs ----------------------
(***************************************************************************)
(* Two theorems about the duplicate experiment, for any number of virtual  *)
(* users and any data the fake extraction returns: no lost race hides      *)
(* behind the verdict `passed`, and where no race is lost the verdict is   *)
(* `passed`.                                                               *)
(*                                                                         *)
(* The argument for the first.  Every race that is lost leaves a trace     *)
(* nothing wipes out before the verifier looks.  A lost result leaves its  *)
(* job either unfinished, with an attempt that was counted, or claimed a   *)
(* second time (Unrewarded): a job that is completed after one attempt,    *)
(* which the verifier asks for, lost no result.  A rolled back mark was    *)
(* answered with 409 although the employee owns a receipt (Refused), and   *)
(* the answer stays in the call until the phase records it.                *)
(*                                                                         *)
(* The argument for the second.  The lock lets one upload at a time decide *)
(* whether the image is known, so one receipt is created, by one upload    *)
(* (Creator).  What every other upload is told follows from its employee,  *)
(* its key and the flag (AsExpected), and stays what the verifier expects  *)
(* because a flag is never taken back.  The commits of the mark and of the *)
(* extraction each find the other's work in their snapshot or not done yet *)
(* (Fresh), so the row, the job and the history agree at every step        *)
(* (ReceiptQuiet, JobQuiet, AuditQuiet), in either order.                  *)
(***************************************************************************)
EXTENDS DuplicateExperiment, ReceiptRowsProofs, SequenceTheorems, FiniteSetTheorems

CallFields == {"owner", "key", "image", "at", "snapshot", "answer"}

RowsOK ==
    /\ receipts \in Seq(Receipt) /\ jobs \in Seq(Job)
    /\ Len(jobs) = Len(receipts)

(* A snapshot is one of an existing receipt, and stale if versions differ. *)
SnapshotOK(t) ==
    /\ t \in Snapshot
    /\ t.of \in Ids
    /\ t.receipt.ownerEmployeeId = receipts[t.of].ownerEmployeeId
    /\ t.job.version <= jobs[t.of].version
    /\ t.job.version = jobs[t.of].version => t.job = jobs[t.of]

CallOK(c) ==
    calls[c] # None =>
        /\ c \in Users /\ phase \in Phases
        /\ DOMAIN calls[c] = CallFields
        /\ calls[c].owner = EmployeeOf(c)
        /\ calls[c].at = "marking" =>
              /\ SnapshotOK(calls[c].snapshot)
              /\ receipts[calls[c].snapshot.of].ownerEmployeeId = calls[c].owner

CallsOK == DOMAIN calls = Clients /\ \A c \in Clients : CallOK(c)

ClaimOK(i) == i \in Ids /\ jobs[i].status = "PROCESSING" /\ jobs[i].attemptCount >= 1

ResultOK(t) == SnapshotOK(t) /\ t.of \in executing

ExtractionOK ==
    /\ \A i \in executing : ClaimOK(i)
    /\ \A t \in completing : ResultOK(t)
    /\ \A t, u \in completing : t.of = u.of => t = u

(* The trace of a lost result.                                             *)
Unrewarded(i) ==
    \/ jobs[i].attemptCount >= 2
    \/ jobs[i].attemptCount >= 1 /\ jobs[i].status # "COMPLETED" /\ i \notin executing

ResultLost == \E i \in Ids : Unrewarded(i)

(* The trace of a rolled back mark.                                        *)
Refused(answer, c) ==
    answer.status = 409 /\ \E i \in Ids : receipts[i].ownerEmployeeId = EmployeeOf(c)

Recorded(p) ==
    \/ phase \in {"verifying", "verified"}
    \/ p = "initial" /\ phase \in {"waiting", "after-completion", "aborted"}

MarkLost ==
    \/ phase \in Phases
       /\ \E c \in Users : calls[c].at = "answered" /\ Refused(calls[c].answer, c)
    \/ \E p \in Phases : Recorded(p) /\ \E c \in Users : Refused(responses[p][c], c)

Traced == /\ "result" \in races => ResultLost
          /\ "mark" \in races => MarkLost

PlanOK ==
    /\ phase \in Phases \cup {"planned", "waiting", "verifying", "verified", "aborted"}
    /\ case.vus \in Nat /\ Users \subseteq Clients
    /\ DOMAIN responses = Phases
    /\ races \subseteq {"lockWait", "mark", "result"}

Inv == RowsOK /\ CallsOK /\ ExtractionOK /\ PlanOK /\ Traced /\ PassedCaseLostNothing
-----------------------------------------------------------------------------
(* The ids of the receipts are the places of both tables.                  *)
LEMMA IdsPlaces ==
    ASSUME RowsOK
    PROVE  /\ Len(receipts) \in Nat
           /\ Ids = 1..Len(receipts)
           /\ \A i \in Ids : /\ receipts[i] \in Receipt /\ jobs[i] \in Job
                             /\ i \in 1..Len(jobs) /\ i \in Nat
BY LenProperties, ElementOfSeq DEF RowsOK, Ids

(* There are two employees at least, as duplicates.js demands, and every   *)
(* virtual user acts for one of them.                                      *)
LEMMA EmployeeType ==
    ASSUME NEW c \in Nat
    PROVE  EmployeeOf(c) \in Owners
<1> DEFINE n == Cardinality(Owners)
           user == SetToSeq(Owners)
<1>1. n \in Nat /\ n >= 2 /\ ExistsBijection(1..n, Owners)
  BY EmployeesAssumption, FS_CardinalityType
<1>2. \E f \in [1..n -> Owners] : IsInjective(f)
  BY <1>1 DEF ExistsBijection, Bijection, Injection, IsInjective
<1>3. user \in [1..n -> Owners]
  BY <1>2 DEF SetToSeq
<1>4. 1 \in 1..n /\ 2 \in 1..n
  BY <1>1
<1>5. (c - 1) % 2 \in {0, 1}
  OBVIOUS
<1>6. 1 + ((c - 1) % 2) \in 1..n
  BY <1>4, <1>5
<1> QED
  BY <1>3, <1>4, <1>6 DEF EmployeeOf

(* What every step of the service does to the rows: none disappears, none  *)
(* changes its owner, and a job that changes gets a new version.           *)
RowsGrow ==
    /\ Ids \subseteq Ids'
    /\ \A i \in Ids :
          /\ receipts'[i].ownerEmployeeId = receipts[i].ownerEmployeeId
          /\ jobs'[i].version >= jobs[i].version
          /\ jobs'[i].version = jobs[i].version => jobs'[i] = jobs[i]
          /\ jobs'[i].attemptCount >= jobs[i].attemptCount

RowsStep == RowsOK' /\ RowsGrow

LEMMA RowsSame ==
    ASSUME RowsOK, UNCHANGED rows
    PROVE  RowsStep
<1>1. \A i \in Ids : jobs[i].version \in Nat /\ jobs[i].attemptCount \in Nat
  BY IdsPlaces DEF Job
<1> QED
  BY <1>1 DEF RowsStep, RowsOK, RowsGrow, Ids, rows

(* What is known of the rows stays true.                                   *)
LEMMA GrowthKeeps ==
    ASSUME RowsOK, RowsStep
    PROVE  \A t : SnapshotOK(t) => SnapshotOK(t)'
<1> SUFFICES ASSUME NEW t, SnapshotOK(t)
             PROVE  SnapshotOK(t)'
  OBVIOUS
<1>1. t.of \in Ids /\ t.of \in Ids'
  BY DEF SnapshotOK, RowsStep, RowsGrow
<1>2. t.job.version \in Nat /\ jobs[t.of].version \in Nat /\ jobs'[t.of].version \in Nat
  <2>1. t.job.version \in Nat
    BY DEF SnapshotOK, Snapshot, Job
  <2>2. jobs[t.of].version \in Nat
    BY <1>1, IdsPlaces DEF Job
  <2>3. RowsOK' => \A i \in Ids' : jobs'[i] \in Job
    BY LenProperties, ElementOfSeq DEF RowsOK, Ids
  <2> QED
    BY <1>1, <2>1, <2>2, <2>3 DEF RowsStep, Job
<1> QED
  BY <1>1, <1>2 DEF SnapshotOK, RowsStep, RowsGrow

(* A step that rewrites a job and perhaps its receipt.                     *)
LEMMA RowRewritten ==
    ASSUME RowsOK, NEW i \in Ids, NEW job \in Job, NEW receipt \in Receipt,
           job.version = jobs[i].version + 1,
           job.attemptCount >= jobs[i].attemptCount,
           receipt.ownerEmployeeId = receipts[i].ownerEmployeeId,
           jobs' = [jobs EXCEPT ![i] = job],
           receipts' = receipts \/ receipts' = [receipts EXCEPT ![i] = receipt]
    PROVE  RowsStep /\ Ids' = Ids
<1>1. i \in 1..Len(jobs) /\ i \in 1..Len(receipts)
  BY IdsPlaces
<1>2. /\ jobs' \in Seq(Job) /\ Len(jobs') = Len(jobs)
      /\ \A j \in 1..Len(jobs) : jobs'[j] = IF j = i THEN job ELSE jobs[j]
  BY <1>1, ExceptSeq DEF RowsOK
<1>3. /\ receipts' \in Seq(Receipt) /\ Len(receipts') = Len(receipts)
      /\ \A j \in 1..Len(receipts) :
            receipts'[j].ownerEmployeeId = receipts[j].ownerEmployeeId
  <2>1. CASE receipts' = receipts
    BY <2>1 DEF RowsOK
  <2>2. CASE receipts' = [receipts EXCEPT ![i] = receipt]
    BY <1>1, <2>2, ExceptSeq DEF RowsOK
  <2> QED
    BY <2>1, <2>2
<1>4. Ids' = Ids
  BY <1>3, LenProperties DEF Ids, RowsOK
<1>5. RowsOK'
  BY <1>2, <1>3 DEF RowsOK
<1>6. \A j \in Ids : /\ jobs[j].version \in Nat /\ jobs[j].attemptCount \in Nat
                     /\ j \in 1..Len(jobs) /\ j \in 1..Len(receipts)
  BY IdsPlaces DEF Job
<1>7. RowsGrow
  BY <1>2, <1>3, <1>4, <1>6 DEF RowsGrow
<1> QED
  BY <1>4, <1>5, <1>7 DEF RowsStep

(* A call that does not move, while others change the rows.                *)
LEMMA CallKept ==
    ASSUME NEW d, RowsOK, RowsStep, CallOK(d), calls'[d] = calls[d], UNCHANGED <<case, phase>>
    PROVE  CallOK(d)'
<1>1. PICK call : call = calls[d]
  OBVIOUS
<1>2. calls'[d] = call
  BY <1>1
<1>4. SnapshotOK(call.snapshot) =>
         /\ SnapshotOK(call.snapshot)'
         /\ receipts'[call.snapshot.of].ownerEmployeeId =
               receipts[call.snapshot.of].ownerEmployeeId
  BY GrowthKeeps DEF RowsStep, RowsGrow, SnapshotOK
<1>5. /\ d \in Users' <=> d \in Users
      /\ phase' = phase /\ EmployeeOf(d)' = EmployeeOf(d)
  BY DEF Users, EmployeeOf
<1>6. CASE call = None
  BY <1>2, <1>6 DEF CallOK
<1>7. CASE call # None
  <2>1. /\ d \in Users' /\ phase' \in Phases
        /\ DOMAIN call = CallFields /\ call.owner = EmployeeOf(d)'
    BY <1>1, <1>5, <1>7 DEF CallOK
  <2>2. call.at = "marking" => /\ SnapshotOK(call.snapshot)'
                               /\ receipts'[call.snapshot.of].ownerEmployeeId = call.owner
    BY <1>1, <1>4, <1>7 DEF CallOK
  <2> QED
    BY <1>2, <2>1, <2>2 DEF CallOK, SnapshotOK
<1> QED
  BY <1>6, <1>7

(* The trace of a rolled back mark outlives it, and a call that has been   *)
(* answered does not move.                                                 *)
LEMMA MarkKept ==
    ASSUME RowsStep, MarkLost, UNCHANGED <<case, phase, responses>>,
           \A d \in Users : calls[d].at = "answered" => calls'[d] = calls[d]
    PROVE  MarkLost'
<1>1. \A answer, d : Refused(answer, d) =>
         answer.status = 409 /\ \E i \in Ids' : receipts'[i].ownerEmployeeId = EmployeeOf(d)
  BY DEF Refused, RowsStep, RowsGrow
<1>2. /\ Users' = Users /\ phase' = phase /\ responses' = responses
      /\ \A d : EmployeeOf(d)' = EmployeeOf(d)
      /\ \A p : Recorded(p)' <=> Recorded(p)
  BY DEF Users, EmployeeOf, Recorded
<1>3. ASSUME phase \in Phases, NEW d \in Users, calls[d].at = "answered",
             Refused(calls[d].answer, d)
      PROVE  MarkLost'
  <2>1. calls'[d] = calls[d]
    BY <1>3
  <2>2. Refused(calls[d].answer, d)'
    BY <1>1, <1>2, <1>3, <2>1 DEF Refused
  <2> QED
    BY <1>2, <1>3, <2>1, <2>2 DEF MarkLost
<1>4. ASSUME NEW p \in Phases, Recorded(p), NEW d \in Users, Refused(responses[p][d], d)
      PROVE  MarkLost'
  <2>1. Refused(responses[p][d], d)'
    BY <1>1, <1>2, <1>4 DEF Refused
  <2> QED
    BY <1>2, <1>4, <2>1 DEF MarkLost
<1> QED
  BY <1>3, <1>4 DEF MarkLost
-----------------------------------------------------------------------------
(* What a service step must keep.                                          *)
Served ==
    /\ RowsOK' /\ CallsOK' /\ ExtractionOK'
    /\ ResultLost => ResultLost'
    /\ MarkLost => MarkLost'

(* The situation of a step: an unfinished call moves.                      *)
Moving(c) ==
    /\ RowsOK /\ CallsOK /\ ExtractionOK /\ PlanOK
    /\ c \in Clients
    /\ calls[c] # None /\ calls[c].at # "answered"
    /\ UNCHANGED <<extraction, case, phase, responses>>

(* What the step does to the call.                                         *)
Moved(c) ==
    /\ DOMAIN calls' = Clients
    /\ \A d \in Clients \ {c} : calls'[d] = calls[d]
    /\ DOMAIN calls'[c] = CallFields
    /\ calls'[c].owner = calls[c].owner
    /\ calls'[c].at = "marking" =>
          \E t : /\ t = calls'[c].snapshot /\ SnapshotOK(t)'
                 /\ receipts'[t.of].ownerEmployeeId = calls[c].owner

LEMMA MovedOK ==
    ASSUME NEW c, Moving(c), Moved(c), RowsStep,
           \A i \in Ids : jobs'[i].status = jobs[i].status
    PROVE  Served
<1>1. \A t : SnapshotOK(t) => SnapshotOK(t)'
  BY GrowthKeeps DEF Moving
<1>2. CallsOK'
  <2>1. CallOK(c)'
    <3>1. CallOK(c)
      BY DEF Moving, CallsOK
    <3>2. PICK call : call = calls'[c]
      OBVIOUS
    <3>3. /\ c \in Users' /\ phase' \in Phases
          /\ DOMAIN call = CallFields /\ call.owner = EmployeeOf(c)'
      BY <3>1, <3>2 DEF Moving, Moved, CallOK, Users, EmployeeOf
    <3>4. call.at = "marking" => /\ SnapshotOK(call.snapshot)'
                                 /\ receipts'[call.snapshot.of].ownerEmployeeId = call.owner
      BY <3>2 DEF Moved
    <3> QED
      BY <3>2, <3>3, <3>4 DEF CallOK, SnapshotOK
  <2>2. ASSUME NEW d \in Clients, d # c
        PROVE  CallOK(d)'
    BY <2>2, CallKept DEF Moving, Moved, CallsOK
  <2> QED
    BY <2>1, <2>2 DEF CallsOK, Moved
<1>3. ExtractionOK'
  <2>1. ASSUME NEW i \in executing
        PROVE  ClaimOK(i)'
    <3>1. i \in Ids /\ ClaimOK(i)
      BY DEF Moving, ExtractionOK, ClaimOK
    <3>2. i \in Ids' /\ jobs'[i] \in Job
      BY <3>1, LenProperties, ElementOfSeq DEF RowsStep, RowsGrow, RowsOK, Ids
    <3>3. jobs[i].attemptCount \in Nat /\ jobs'[i].attemptCount \in Nat
      BY <3>1, <3>2, IdsPlaces DEF Moving, Job
    <3> QED
      BY <3>1, <3>2, <3>3 DEF ClaimOK, RowsStep, RowsGrow
  <2>2. ASSUME NEW t \in completing
        PROVE  ResultOK(t)'
    <3>1. SnapshotOK(t) /\ t.of \in executing
      BY DEF Moving, ExtractionOK, ResultOK
    <3> QED
      BY <1>1, <3>1 DEF ResultOK, Moving, extraction
  <2> QED
    BY <2>1, <2>2 DEF ExtractionOK, Moving, extraction
<1>4. ASSUME ResultLost
      PROVE  ResultLost'
  <2>1. PICK i \in Ids : Unrewarded(i)
    BY <1>4 DEF ResultLost
  <2>2. i \in Ids' /\ jobs'[i] \in Job
    BY LenProperties, ElementOfSeq DEF RowsStep, RowsGrow, RowsOK, Ids
  <2>3. jobs[i].attemptCount \in Nat /\ jobs'[i].attemptCount \in Nat
    BY <2>2, IdsPlaces DEF Moving, Job
  <2> QED
    BY <2>1, <2>2, <2>3 DEF ResultLost, Unrewarded, RowsStep, RowsGrow, Moving, extraction
<1>5. MarkLost => MarkLost'
  BY MarkKept DEF Moving, Moved, PlanOK
<1> QED
  BY <1>2, <1>3, <1>4, <1>5 DEF Served, RowsStep

(* The ways a call moves.                                                  *)
LEMMA MoveOn ==
    ASSUME NEW c, Moving(c), NEW stage \in Stages, stage # "marking", GoTo(c, stage)
    PROVE  Moved(c)
BY DEF Moving, Moved, GoTo, CallsOK, CallOK, CallFields

LEMMA MoveToAnswer ==
    ASSUME NEW c, Moving(c), NEW status, NEW receipt, NEW replay,
           Respond(c, status, receipt, replay)
    PROVE  /\ Moved(c)
           /\ calls'[c].at = "answered" /\ calls'[c].answer.status = status
<1>1. PICK old : old = calls[c]
  OBVIOUS
<1>2. PICK answer : answer = [status |-> status, receipt |-> receipt, replay |-> replay]
  OBVIOUS
<1>3. calls' = [calls EXCEPT ![c] =
                   [@ EXCEPT !.at = "answered", !.snapshot = None, !.answer = answer]]
  BY <1>2 DEF Respond
<1>4. DOMAIN calls = Clients /\ c \in Clients /\ DOMAIN old = CallFields
  BY <1>1 DEF Moving, CallsOK, CallOK
<1>5. calls'[c] = [old EXCEPT !.at = "answered", !.snapshot = None, !.answer = answer]
  BY <1>1, <1>3, <1>4
<1>6. calls'[c].at = "answered" /\ calls'[c].answer = answer /\ calls'[c].owner = old.owner
      /\ DOMAIN calls'[c] = CallFields
  BY <1>4, <1>5 DEF CallFields
<1> QED
  BY <1>1, <1>2, <1>3, <1>4, <1>6 DEF Moved

LEMMA MoveToMark ==
    ASSUME NEW c, Moving(c), UNCHANGED rows, NEW i \in Ids, OpenMark(c, i)
    PROVE  Moved(c)
<1>1. CASE Conflict(c)
  BY <1>1, MoveOn DEF Conflict, Stages
<1>2. CASE Existing(c, i, FALSE)
  BY <1>2, MoveToAnswer DEF Existing
<1>3. ASSUME Owned(c, i),
             calls' = [calls EXCEPT ![c] =
                [@ EXCEPT !.at = "marking",
                          !.snapshot = [of |-> i, receipt |-> receipts[i], job |-> jobs[i]]]]
      PROVE  Moved(c)
  <2>1. PICK t : t = [of |-> i, receipt |-> receipts[i], job |-> jobs[i]]
    OBVIOUS
  <2>2. SnapshotOK(t)
    BY <2>1, IdsPlaces DEF Moving, SnapshotOK, Snapshot, Job
  <2>3. SnapshotOK(t)' /\ receipts'[t.of].ownerEmployeeId = calls[c].owner
    BY <1>3, <2>1, <2>2 DEF SnapshotOK, rows, Ids, Owned
  <2>4. PICK old : old = calls[c]
    OBVIOUS
  <2>5. DOMAIN calls = Clients /\ c \in Clients /\ DOMAIN old = CallFields
    BY <2>4 DEF Moving, CallsOK, CallOK
  <2>6. calls' = [calls EXCEPT ![c] = [@ EXCEPT !.at = "marking", !.snapshot = t]]
    BY <1>3, <2>1
  <2>7. /\ calls'[c].snapshot = t /\ calls'[c].owner = old.owner
        /\ DOMAIN calls'[c] = CallFields
    BY <2>4, <2>5, <2>6 DEF CallFields
  <2> QED
    BY <2>3, <2>4, <2>5, <2>6, <2>7 DEF Moved
<1> QED
  BY <1>1, <1>2, <1>3 DEF OpenMark

(* findProcessedDuplicate answers, or the call goes on.                    *)
LEMMA MoveProcessed ==
    ASSUME NEW c, Moving(c), NEW stage \in Stages, stage # "marking",
           \/ Processed(c, GoTo(c, stage) /\ UNCHANGED holder)
           \/ Processed(c, Refuse(c))
    PROVE  Moved(c)
<1>1. ASSUME Refuse(c) PROVE Moved(c)
  BY <1>1, MoveToAnswer DEF Refuse
<1>2. ASSUME NEW i, Existing(c, i, FALSE) PROVE Moved(c)
  BY <1>2, MoveToAnswer DEF Existing
<1>3. ASSUME GoTo(c, stage) PROVE Moved(c)
  BY <1>3, MoveOn
<1> QED
  BY <1>1, <1>2, <1>3 DEF Processed

(* A step of a call that leaves the rows alone.                            *)
LEMMA LookUpMoves ==
    ASSUME NEW c, Moving(c), UNCHANGED rows,
           \/ FindReplay(c) \/ FindProcessed(c) \/ TakeLock(c) \/ LockWaitOver(c)
           \/ Converge(c) \/ FindReplayLocked(c) \/ FindSameImage(c) \/ StoreImage(c)
           \/ ConstraintViolated(c) \/ Resolve(c) \/ MarkConflict(c)
    PROVE  Moved(c)
<1>1. ASSUME NEW stage \in {"keyUnknown", "locked", "keyUnknownLocked", "stored", "resolving",
                            "conflicted"}, GoTo(c, stage)
      PROVE  Moved(c)
  BY <1>1, MoveOn DEF Stages
<1>2. ASSUME NEW i, NEW replay, Existing(c, i, replay) PROVE Moved(c)
  BY <1>2, MoveToAnswer DEF Existing
<1>3. ASSUME Refuse(c) PROVE Moved(c)
  BY <1>3, MoveToAnswer DEF Refuse
<1>4. ASSUME Conflict(c) PROVE Moved(c)
  BY <1>1, <1>4 DEF Conflict
<1>5. ASSUME NEW i \in ByImage(c), OpenMark(c, i) PROVE Moved(c)
  BY <1>5, MoveToMark DEF ByImage
<1>6. CASE FindReplay(c)
  BY <1>1, <1>2, <1>3, <1>6 DEF FindReplay
<1>7. CASE FindProcessed(c)
  BY <1>7, MoveProcessed DEF FindProcessed, Stages
<1>8. CASE TakeLock(c)
  BY <1>1, <1>8 DEF TakeLock
<1>9. CASE LockWaitOver(c)
  BY <1>4, <1>9 DEF LockWaitOver
<1>10. CASE Converge(c)
  BY <1>10, MoveProcessed DEF Converge, Stages
<1>11. CASE FindReplayLocked(c)
  BY <1>1, <1>2, <1>4, <1>11 DEF FindReplayLocked
<1>12. CASE FindSameImage(c)
  BY <1>5, <1>12 DEF FindSameImage
<1>13. CASE StoreImage(c)
  BY <1>1, <1>13 DEF StoreImage
<1>14. CASE ConstraintViolated(c)
  BY <1>1, <1>14 DEF ConstraintViolated
<1>15. CASE Resolve(c)
  BY <1>2, <1>4, <1>5, <1>15 DEF Resolve
<1>16. CASE MarkConflict(c)
  BY <1>3, <1>16 DEF MarkConflict
<1> QED
  BY <1>6, <1>7, <1>8, <1>9, <1>10, <1>11, <1>12, <1>13, <1>14, <1>15, <1>16

(* createQueued appends a row to both tables.                              *)
LEMMA CreateServed ==
    ASSUME NEW c, Moving(c), CreateQueued(c)
    PROVE  Served
<1>1. Moved(c)
  BY MoveToAnswer DEF CreateQueued
<1>2. PICK n, row, job :
         n = Len(receipts) /\ row = NewReceipt(calls[c].owner) /\ job = NewJob
  OBVIOUS
<1>3. calls[c].owner \in Owners
  BY EmployeeType DEF Moving, CallsOK, CallOK, Users
<1>4. row \in Receipt /\ job \in Job
  BY <1>2, <1>3, NewRowTypes
<1>5. receipts \in Seq(Receipt) /\ jobs \in Seq(Job) /\ Len(jobs) = n /\ Ids = 1..n /\ n \in Nat
  BY <1>2, IdsPlaces DEF Moving, RowsOK
<1>6. /\ receipts' \in Seq(Receipt) /\ Len(receipts') = n + 1
      /\ \A i \in 1..n : receipts'[i] = receipts[i]
  <2>1. receipts' = Append(receipts, row)
    BY <1>2 DEF CreateQueued
  <2> QED
    BY <1>2, <1>4, <1>5, <2>1, AppendProperties
<1>7. /\ jobs' \in Seq(Job) /\ Len(jobs') = n + 1
      /\ \A i \in 1..n : jobs'[i] = jobs[i]
  <2>1. jobs' = Append(jobs, job)
    BY <1>2 DEF CreateQueued
  <2> QED
    BY <1>4, <1>5, <2>1, AppendProperties
<1>8. Ids' = 1..(n + 1)
  BY <1>6, LenProperties DEF Ids
<1>9. \A i \in Ids : jobs[i].version \in Nat /\ jobs[i].attemptCount \in Nat
  BY IdsPlaces DEF Moving, Job
<1>10. RowsOK'
  BY <1>6, <1>7 DEF RowsOK
<1>11. Ids \subseteq Ids' /\ \A i \in Ids : receipts'[i] = receipts[i] /\ jobs'[i] = jobs[i]
  BY <1>5, <1>6, <1>7, <1>8
<1>12. RowsStep
  BY <1>9, <1>10, <1>11 DEF RowsStep, RowsGrow
<1> QED
  BY <1>1, <1>11, <1>12, MovedOK

(* markDuplicate commits on the rows of its snapshot.                      *)
LEMMA MarkServed ==
    ASSUME NEW c, Moving(c), CommitMark(c)
    PROVE  Served
<1>1. Moved(c)
  BY MoveToAnswer DEF CommitMark, Existing
<1>2. PICK t : t = calls[c].snapshot /\ SnapshotOK(t)
  BY DEF Moving, CallsOK, CallOK, CommitMark, At
<1>3. PICK i : i = t.of
  OBVIOUS
<1>4. /\ i \in Ids /\ t.job = jobs[i] /\ t.job \in Job /\ t.receipt \in Receipt
      /\ t.receipt.ownerEmployeeId = receipts[i].ownerEmployeeId
  BY <1>2, <1>3 DEF SnapshotOK, Snapshot, CommitMark, IsFresh
<1>5. PICK job : job = Saved(MarkJobDuplicate(t.job))
  OBVIOUS
<1>6. /\ job \in Job /\ job.version = jobs[i].version + 1
      /\ job.attemptCount = jobs[i].attemptCount /\ job.status = jobs[i].status
  <2>1. MarkJobDuplicate(t.job) \in Job
    BY <1>4, JobMethodTypes
  <2>2. job \in Job
    BY <1>5, <2>1, JobMethodTypes
  <2> QED
    BY <1>4, <1>5, <2>2 DEF Saved, MarkJobDuplicate, Job
<1>7. jobs' = [jobs EXCEPT ![i] = job]
  BY <1>2, <1>3, <1>5 DEF CommitMark
<1>8. \E receipt \in Receipt :
         /\ receipt.ownerEmployeeId = receipts[i].ownerEmployeeId
         /\ receipts' = receipts \/ receipts' = [receipts EXCEPT ![i] = receipt]
  <2>1. CASE LeftAloneByDuplicate(t.receipt)
    BY <1>2, <1>4, <2>1, IdsPlaces DEF CommitMark, Moving
  <2>2. CASE ~LeftAloneByDuplicate(t.receipt)
    <3>1. PICK receipt : receipt = Saved(RevalidatedAsDuplicate(t.receipt))
      OBVIOUS
    <3>2. RevalidatedAsDuplicate(t.receipt) \in Receipt
      BY <1>4, <2>2, ReceiptMethodTypes DEF LeftAloneByDuplicate
    <3>3. receipt \in Receipt
      BY <3>1, <3>2, ReceiptMethodTypes
    <3>4. receipt.ownerEmployeeId = t.receipt.ownerEmployeeId
      <4>1. RevalidatedAsDuplicate(t.receipt).ownerEmployeeId = t.receipt.ownerEmployeeId
        BY <1>4 DEF RevalidatedAsDuplicate, UpdateData, Receipt
      <4> QED
        BY <3>1, <3>2, <4>1 DEF Saved, Receipt
    <3>5. receipts' = [receipts EXCEPT ![i] = receipt]
      BY <1>2, <1>3, <2>2, <3>1 DEF CommitMark
    <3> QED
      BY <1>4, <3>3, <3>4, <3>5
  <2> QED
    BY <2>1, <2>2
<1>9. job.attemptCount >= jobs[i].attemptCount
  <2>1. jobs[i].attemptCount \in Nat
    BY <1>4 DEF Job
  <2> QED
    BY <1>6, <2>1
<1>10. RowsStep
  <2>1. PICK receipt \in Receipt :
           /\ receipt.ownerEmployeeId = receipts[i].ownerEmployeeId
           /\ receipts' = receipts \/ receipts' = [receipts EXCEPT ![i] = receipt]
    BY <1>8
  <2>2. RowsOK
    BY DEF Moving
  <2> QED
    BY <1>4, <1>6, <1>7, <1>9, <2>1, <2>2, RowRewritten
<1>11. \A j \in Ids : jobs'[j].status = jobs[j].status
  BY <1>6, <1>7, IdsPlaces, ExceptSeq DEF Moving, RowsOK
<1> QED
  BY <1>1, <1>10, <1>11, MovedOK

(* A step of a call.                                                       *)
LEMMA CallServed ==
    ASSUME Inv, NEW c \in Clients, CallStep(c) \/ LockWaitOver(c) \/ MarkConflict(c),
           UNCHANGED <<case, phase, responses>>
    PROVE  Served
<1>1. Moving(c)
  BY DEF Inv, Moving, CallStep, LockWaitOver, MarkConflict, FindReplay, FindProcessed, TakeLock,
         Converge, FindReplayLocked, FindSameImage, StoreImage, CreateQueued,
         ConstraintViolated, Resolve, CommitMark, At, extraction
<1>2. CASE CreateQueued(c)
  BY <1>1, <1>2, CreateServed
<1>3. CASE CommitMark(c)
  BY <1>1, <1>3, MarkServed
<1>4. CASE ~CreateQueued(c) /\ ~CommitMark(c)
  <2>1. UNCHANGED rows
    BY <1>4 DEF CallStep, LockWaitOver, MarkConflict, FindReplay, FindProcessed, TakeLock,
         Converge, FindReplayLocked, FindSameImage, StoreImage, ConstraintViolated, Resolve
  <2>2. Moved(c)
    BY <1>1, <1>4, <2>1, LookUpMoves DEF CallStep
  <2>3. RowsStep /\ \A i \in Ids : jobs'[i].status = jobs[i].status
    BY <2>1, RowsSame DEF Inv, rows
  <2> QED
    BY <1>1, <2>2, <2>3, MovedOK
<1> QED
  BY <1>2, <1>3, <1>4

(* The 409 of a rolled back mark is a trace of it.                         *)
LEMMA MarkConflictTraced ==
    ASSUME Inv, NEW c \in Clients, MarkConflict(c), UNCHANGED <<case, phase, responses>>
    PROVE  MarkLost'
<1>1. Moving(c) /\ calls[c].at = "marking"
  BY DEF Inv, Moving, MarkConflict, At, extraction
<1>2. calls'[c].at = "answered" /\ calls'[c].answer.status = 409
  <2>1. PICK status, replay : status = 409 /\ replay = FALSE
    OBVIOUS
  <2>2. Respond(c, status, None, replay)
    BY <2>1 DEF MarkConflict, Refuse
  <2>3. calls'[c].at = "answered" /\ calls'[c].answer.status = status
    BY <1>1, <2>2, MoveToAnswer
  <2> QED
    BY <2>1, <2>3
<1>3. PICK i \in Ids : receipts[i].ownerEmployeeId = EmployeeOf(c)
  BY <1>1 DEF Moving, CallsOK, CallOK, SnapshotOK
<1>4. c \in Users /\ phase \in Phases
  BY <1>1 DEF Moving, CallsOK, CallOK
<1>5. /\ i \in Ids' /\ receipts'[i].ownerEmployeeId = EmployeeOf(c)'
      /\ c \in Users' /\ phase' \in Phases
  BY <1>3, <1>4 DEF MarkConflict, rows, Ids, Users, EmployeeOf
<1> QED
  BY <1>2, <1>5 DEF MarkLost, Refused
-----------------------------------------------------------------------------
(* The calls while the extraction moves.                                   *)
LEMMA CallsKept ==
    ASSUME Inv, RowsStep, UNCHANGED <<calls, case, phase, responses>>
    PROVE  CallsOK' /\ (MarkLost => MarkLost')
<1>1. \A d \in Clients : CallOK(d)'
  BY CallKept DEF Inv, CallsOK
<1> QED
  BY <1>1, MarkKept DEF Inv, CallsOK

(* A job of the table gets a new row, its receipt perhaps too.             *)
JobRewritten(i, job) ==
    /\ RowsStep /\ Ids' = Ids
    /\ jobs'[i] = job
    /\ \A j \in Ids \ {i} : jobs'[j] = jobs[j]

LEMMA ClaimServed ==
    ASSUME Inv, NEW i \in Ids, Claim(i), UNCHANGED <<case, phase, responses>>
    PROVE  Served
<1>1. PICK w \in Workers : jobs' = [jobs EXCEPT ![i] =
                                       Saved(ClaimJob(jobs[i], w, jobs[i].attemptCount + 1))]
  BY DEF Claim
<1>2. PICK job : job = Saved(ClaimJob(jobs[i], w, jobs[i].attemptCount + 1))
  OBVIOUS
<1>3. RowsOK /\ ExtractionOK /\ jobs[i] \in Job /\ receipts[i] \in Receipt /\ i \in 1..Len(jobs)
      /\ jobs \in Seq(Job)
  BY IdsPlaces DEF Inv, RowsOK
<1>4. jobs[i].attemptCount \in Nat /\ jobs[i].version \in Nat
  BY <1>3 DEF Job
<1>5. /\ job \in Job /\ job.version = jobs[i].version + 1
      /\ job.attemptCount = jobs[i].attemptCount + 1 /\ job.status = "PROCESSING"
  <2>1. PICK claimed : claimed = ClaimJob(jobs[i], w, jobs[i].attemptCount + 1)
    OBVIOUS
  <2>2. claimed \in Job
    <3>1. PICK n : n = jobs[i].attemptCount + 1
      OBVIOUS
    <3>2. n \in Nat /\ claimed = ClaimJob(jobs[i], w, n)
      BY <1>4, <2>1, <3>1
    <3> QED
      BY <1>3, <3>2, JobMethodTypes
  <2>3. /\ claimed.version = jobs[i].version /\ claimed.status = "PROCESSING"
        /\ claimed.attemptCount = jobs[i].attemptCount + 1
    BY <1>3, <2>1 DEF ClaimJob, Job
  <2>4. job = Saved(claimed)
    BY <1>2, <2>1
  <2>5. job \in Job
    BY <2>2, <2>4, JobMethodTypes
  <2> QED
    BY <2>2, <2>3, <2>4, <2>5 DEF Saved, Job
<1>6. jobs' = [jobs EXCEPT ![i] = job]
  BY <1>1, <1>2
<1>7. JobRewritten(i, job)
  <2>1. RowsStep /\ Ids' = Ids
    <3>1. receipts' = receipts /\ job.attemptCount >= jobs[i].attemptCount
      BY <1>4, <1>5 DEF Claim
    <3> QED
      BY <1>3, <1>5, <1>6, <3>1, RowRewritten
  <2>2. \A j \in Ids : j \in 1..Len(jobs)
    BY <1>3, IdsPlaces
  <2> QED
    BY <1>3, <1>6, <2>1, <2>2, ExceptSeq DEF JobRewritten
<1>8. CallsOK' /\ (MarkLost => MarkLost')
  BY <1>7, CallsKept DEF Claim, JobRewritten
<1>9. ExtractionOK'
  <2>1. \A t : SnapshotOK(t) => SnapshotOK(t)'
    BY <1>3, <1>7, GrowthKeeps DEF JobRewritten
  <2>2. executing' = executing \cup {i} /\ completing' = completing
    BY DEF Claim
  <2>3. ASSUME NEW j \in executing' PROVE ClaimOK(j)'
    BY <1>3, <1>4, <1>5, <1>7, <2>2 DEF ClaimOK, ExtractionOK, JobRewritten
  <2>4. ASSUME NEW t \in completing' PROVE ResultOK(t)'
    <3>1. SnapshotOK(t) /\ t.of \in executing
      BY <1>3, <2>2 DEF ExtractionOK, ResultOK
    <3> QED
      BY <2>1, <2>2, <3>1 DEF ResultOK
  <2> QED
    BY <1>3, <2>2, <2>3, <2>4 DEF ExtractionOK
<1>10. ASSUME ResultLost PROVE ResultLost'
  <2>1. PICK r \in Ids : Unrewarded(r)
    BY <1>10 DEF ResultLost
  <2>2. Unrewarded(r)'
    BY <1>4, <1>5, <1>7, <2>1 DEF Unrewarded, JobRewritten, Claim
  <2> QED
    BY <1>7, <2>2 DEF ResultLost, JobRewritten
<1> QED
  BY <1>7, <1>8, <1>9, <1>10 DEF Served, JobRewritten, RowsStep

LEMMA RecoverServed ==
    ASSUME Inv, NEW i \in Ids, RecoverLease(i), UNCHANGED <<case, phase, responses>>
    PROVE  Served
<1>2. PICK job : job = Saved(RecoverExpiredLease(jobs[i]))
  OBVIOUS
<1>3. RowsOK /\ ExtractionOK /\ jobs[i] \in Job /\ receipts[i] \in Receipt /\ i \in 1..Len(jobs)
      /\ jobs \in Seq(Job)
  BY IdsPlaces DEF Inv, RowsOK
<1>4. jobs[i].attemptCount \in Nat /\ jobs[i].version \in Nat
  BY <1>3 DEF Job
<1>5. /\ job \in Job /\ job.version = jobs[i].version + 1
      /\ job.attemptCount = jobs[i].attemptCount /\ job.status = "QUEUED"
  <2>1. PICK freed : freed = RecoverExpiredLease(jobs[i])
    OBVIOUS
  <2>2. freed \in Job
    BY <1>3, <2>1, JobMethodTypes
  <2>3. /\ freed.version = jobs[i].version /\ freed.status = "QUEUED"
        /\ freed.attemptCount = jobs[i].attemptCount
    BY <1>3, <2>1 DEF RecoverExpiredLease, Unclaimed, Job
  <2>4. job = Saved(freed)
    BY <1>2, <2>1
  <2>5. job \in Job
    BY <2>2, <2>4, JobMethodTypes
  <2> QED
    BY <2>2, <2>3, <2>4, <2>5 DEF Saved, Job
<1>6. jobs' = [jobs EXCEPT ![i] = job]
  BY <1>2 DEF RecoverLease
<1>7. JobRewritten(i, job)
  <2>1. RowsStep /\ Ids' = Ids
    <3>1. receipts' = receipts /\ job.attemptCount >= jobs[i].attemptCount
      BY <1>4, <1>5 DEF RecoverLease
    <3> QED
      BY <1>3, <1>5, <1>6, <3>1, RowRewritten
  <2>2. \A j \in Ids : j \in 1..Len(jobs)
    BY <1>3, IdsPlaces
  <2> QED
    BY <1>3, <1>6, <2>1, <2>2, ExceptSeq DEF JobRewritten
<1>8. CallsOK' /\ (MarkLost => MarkLost')
  BY <1>7, CallsKept DEF RecoverLease, JobRewritten
<1>9. ExtractionOK'
  <2>1. \A t : SnapshotOK(t) => SnapshotOK(t)'
    BY <1>3, <1>7, GrowthKeeps DEF JobRewritten
  <2>2. executing' = executing /\ completing' = completing /\ i \notin executing
    BY DEF RecoverLease, extraction
  <2>3. ASSUME NEW j \in executing' PROVE ClaimOK(j)'
    BY <1>3, <1>7, <2>2 DEF ClaimOK, ExtractionOK, JobRewritten
  <2>4. ASSUME NEW t \in completing' PROVE ResultOK(t)'
    <3>1. SnapshotOK(t) /\ t.of \in executing
      BY <1>3, <2>2 DEF ExtractionOK, ResultOK
    <3> QED
      BY <2>1, <2>2, <3>1 DEF ResultOK
  <2> QED
    BY <1>3, <2>2, <2>3, <2>4 DEF ExtractionOK
<1>10. ASSUME ResultLost PROVE ResultLost'
  <2>1. PICK r \in Ids : Unrewarded(r)
    BY <1>10 DEF ResultLost
  <2>2. Unrewarded(r)'
    BY <1>4, <1>5, <1>7, <2>1 DEF Unrewarded, JobRewritten, RecoverLease, extraction
  <2> QED
    BY <1>7, <2>2 DEF ResultLost, JobRewritten
<1> QED
  BY <1>7, <1>8, <1>9, <1>10 DEF Served, JobRewritten, RowsStep

LEMMA CompleteServed ==
    ASSUME Inv, NEW t \in completing, Complete(t), UNCHANGED <<case, phase, responses>>
    PROVE  Served
<1>1. PICK i : i = t.of
  OBVIOUS
<1>2. PICK job, receipt :
         /\ job = Saved(CompleteJob(t.job))
         /\ receipt = Saved(CompleteExtraction(t.receipt, FakeData,
                               Validate(FakeData, t.job.duplicateDetected),
                               Route(FakeData, Validate(FakeData, t.job.duplicateDetected))))
  OBVIOUS
<1>3. /\ RowsOK /\ ExtractionOK /\ SnapshotOK(t) /\ i \in executing
      /\ i \in Ids /\ t.job = jobs[i] /\ t.job \in Job /\ t.receipt \in Receipt
      /\ t.receipt.ownerEmployeeId = receipts[i].ownerEmployeeId
  BY <1>1 DEF Inv, ExtractionOK, ResultOK, SnapshotOK, Snapshot, Complete, IsFresh
<1>4. jobs[i].attemptCount \in Nat /\ jobs[i].version \in Nat /\ i \in 1..Len(jobs)
      /\ jobs \in Seq(Job)
  BY <1>3, IdsPlaces DEF Job, RowsOK
<1>5. /\ job \in Job /\ job.version = jobs[i].version + 1
      /\ job.attemptCount = jobs[i].attemptCount
  <2>1. PICK done : done = CompleteJob(t.job)
    OBVIOUS
  <2>2. done \in Job
    BY <1>3, <2>1, JobMethodTypes
  <2>3. done.version = jobs[i].version /\ done.attemptCount = jobs[i].attemptCount
    BY <1>3, <2>1 DEF CompleteJob, Unclaimed, Job
  <2>4. job = Saved(done)
    BY <1>2, <2>1
  <2>5. job \in Job
    BY <2>2, <2>4, JobMethodTypes
  <2> QED
    BY <2>2, <2>3, <2>4, <2>5 DEF Saved, Job
<1>6. receipt \in Receipt /\ receipt.ownerEmployeeId = receipts[i].ownerEmployeeId
  <2>1. PICK results, next :
           /\ results = Validate(FakeData, t.job.duplicateDetected)
           /\ next = Route(FakeData, results)
    OBVIOUS
  <2>2. results \in SUBSET RuleResult /\ next \in ReceiptStatuses
    BY <2>1, ValidateType, RouteType DEF ReceiptStatuses
  <2>3. PICK read : read = CompleteExtraction(t.receipt, FakeData, results, next)
    OBVIOUS
  <2>4. read \in Receipt
    BY <1>3, <2>2, <2>3, FakeDataAssumption, ReceiptMethodTypes
  <2>5. read.ownerEmployeeId = receipts[i].ownerEmployeeId
    BY <1>3, <2>3 DEF CompleteExtraction, Receipt
  <2>6. receipt = Saved(read)
    BY <1>2, <2>1, <2>3
  <2>7. receipt \in Receipt
    BY <2>4, <2>6, ReceiptMethodTypes
  <2> QED
    BY <2>4, <2>5, <2>6, <2>7 DEF Saved, Receipt
<1>7. jobs' = [jobs EXCEPT ![i] = job] /\ receipts' = [receipts EXCEPT ![i] = receipt]
  BY <1>1, <1>2 DEF Complete
<1>8. JobRewritten(i, job)
  <2>1. RowsStep /\ Ids' = Ids
    <3>1. job.attemptCount >= jobs[i].attemptCount
      BY <1>4, <1>5
    <3> QED
      BY <1>3, <1>5, <1>6, <1>7, <3>1, RowRewritten
  <2>2. \A j \in Ids : j \in 1..Len(jobs)
    BY <1>3, IdsPlaces
  <2> QED
    BY <1>4, <1>5, <1>7, <2>1, <2>2, ExceptSeq DEF JobRewritten
<1>9. CallsOK' /\ (MarkLost => MarkLost')
  BY <1>8, CallsKept DEF Complete, JobRewritten
<1>10. executing' = executing \ {i} /\ completing' = completing \ {t}
  BY <1>1 DEF Complete
<1>11. ExtractionOK'
  <2>1. \A u : SnapshotOK(u) => SnapshotOK(u)'
    BY <1>3, <1>8, GrowthKeeps DEF JobRewritten
  <2>2. ASSUME NEW j \in executing' PROVE ClaimOK(j)'
    BY <1>3, <1>8, <1>10, <2>2 DEF ClaimOK, ExtractionOK, JobRewritten
  <2>3. ASSUME NEW u \in completing' PROVE ResultOK(u)'
    <3>1. SnapshotOK(u) /\ u.of \in executing /\ u.of # i
      BY <1>1, <1>3, <1>10 DEF ExtractionOK, ResultOK
    <3> QED
      BY <1>10, <2>1, <3>1 DEF ResultOK
  <2> QED
    BY <1>3, <1>10, <2>2, <2>3 DEF ExtractionOK
<1>12. ASSUME ResultLost PROVE ResultLost'
  <2>1. PICK r \in Ids : Unrewarded(r)
    BY <1>12 DEF ResultLost
  <2>2. Unrewarded(r)'
    BY <1>3, <1>4, <1>5, <1>8, <1>10, <2>1 DEF Unrewarded, JobRewritten
  <2> QED
    BY <1>8, <2>2 DEF ResultLost, JobRewritten
<1> QED
  BY <1>8, <1>9, <1>11, <1>12 DEF Served, JobRewritten, RowsStep

LEMMA OpenCompleteServed ==
    ASSUME Inv, NEW i \in Ids, OpenComplete(i), UNCHANGED <<case, phase, responses>>
    PROVE  Served
<1>1. PICK t : t = [of |-> i, receipt |-> receipts[i], job |-> jobs[i]]
  OBVIOUS
<1>2. RowsOK /\ ExtractionOK /\ UNCHANGED rows
  BY DEF Inv, OpenComplete
<1>3. SnapshotOK(t) /\ t.of = i
  BY <1>1, <1>2, IdsPlaces DEF SnapshotOK, Snapshot, Job
<1>4. RowsStep
  BY <1>2, RowsSame
<1>5. CallsOK' /\ (MarkLost => MarkLost')
  BY <1>4, CallsKept DEF OpenComplete
<1>6. /\ completing' = completing \cup {t} /\ executing' = executing /\ i \in executing
      /\ \A u \in completing : u.of # i
  BY <1>1 DEF OpenComplete
<1>7. \A u : SnapshotOK(u) => SnapshotOK(u)'
  BY <1>2, <1>4, GrowthKeeps
<1>8. \A j \in executing : ClaimOK(j)'
  BY <1>2 DEF ExtractionOK, ClaimOK, rows, Ids
<1>9. \A u \in completing' : ResultOK(u)'
  BY <1>2, <1>3, <1>6, <1>7 DEF ExtractionOK, ResultOK
<1>10. ExtractionOK'
  BY <1>2, <1>3, <1>6, <1>8, <1>9 DEF ExtractionOK
<1>11. ResultLost => ResultLost'
  BY <1>2, <1>6 DEF ResultLost, Unrewarded, rows, Ids
<1> QED
  BY <1>4, <1>5, <1>10, <1>11 DEF Served, RowsStep

(* The lost result leaves its trace.                                       *)
LEMMA CompleteConflictServed ==
    ASSUME Inv, NEW t \in completing, CompleteConflict(t), UNCHANGED <<case, phase, responses>>
    PROVE  Served /\ ResultLost'
<1>1. PICK i : i = t.of
  OBVIOUS
<1>2. RowsOK /\ ExtractionOK /\ UNCHANGED rows
  BY DEF Inv, CompleteConflict
<1>3. /\ i \in executing /\ i \in Ids
      /\ jobs[i].status = "PROCESSING" /\ jobs[i].attemptCount >= 1
  BY <1>1, <1>2 DEF ExtractionOK, ResultOK, ClaimOK
<1>4. RowsStep
  BY <1>2, RowsSame
<1>5. CallsOK' /\ (MarkLost => MarkLost')
  BY <1>4, CallsKept DEF CompleteConflict
<1>6. executing' = executing \ {i} /\ completing' = completing \ {t}
  BY <1>1 DEF CompleteConflict
<1>7. \A u : SnapshotOK(u) => SnapshotOK(u)'
  BY <1>2, <1>4, GrowthKeeps
<1>8. \A j \in executing' : ClaimOK(j)'
  BY <1>2, <1>6 DEF ExtractionOK, ClaimOK, rows, Ids
<1>9. ASSUME NEW u \in completing' PROVE ResultOK(u)'
  <2>1. SnapshotOK(u) /\ u.of \in executing /\ u.of # i
    BY <1>1, <1>2, <1>6 DEF ExtractionOK, ResultOK
  <2> QED
    BY <1>6, <1>7, <2>1 DEF ResultOK
<1>10. ExtractionOK'
  BY <1>2, <1>6, <1>8, <1>9 DEF ExtractionOK
<1>11. ResultLost'
  BY <1>2, <1>3, <1>6 DEF ResultLost, Unrewarded, rows, Ids
<1> QED
  BY <1>4, <1>5, <1>10, <1>11 DEF Served, RowsStep

(* A step of the service keeps the invariant.                              *)
LEMMA ServiceKeeps ==
    ASSUME Inv, ServiceStep, phase \notin {"verified", "aborted"}
    PROVE  Inv'
<1>1. UNCHANGED <<case, phase, responses>> /\ PlanOK'
  BY DEF ServiceStep, Lose, runner, Inv, PlanOK, Users
<1>2. Served /\ Traced'
  <2>1. ASSUME NEW c \in Clients, CallStep(c), UNCHANGED runner PROVE Served /\ Traced'
    BY <1>1, <2>1, CallServed DEF Served, Inv, Traced, runner
  <2>2. ASSUME NEW c \in Clients, LockWaitOver(c), Lose("lockWait") PROVE Served /\ Traced'
    BY <1>1, <2>2, CallServed DEF Served, Inv, Traced, Lose
  <2>3. ASSUME NEW c \in Clients, MarkConflict(c), Lose("mark") PROVE Served /\ Traced'
    BY <1>1, <2>3, CallServed, MarkConflictTraced DEF Served, Inv, Traced, Lose
  <2>4. ASSUME NEW t \in completing, CompleteConflict(t), Lose("result")
        PROVE  Served /\ Traced'
    BY <1>1, <2>4, CompleteConflictServed DEF Served, Inv, Traced, Lose
  <2>5. ASSUME ExtractionStep, UNCHANGED runner PROVE Served /\ Traced'
    BY <1>1, <2>5, ClaimServed, OpenCompleteServed, RecoverServed, CompleteServed
       DEF ExtractionStep, Served, Inv, Traced, runner
  <2>6. ASSUME LockStep, UNCHANGED runner PROVE Served /\ Traced'
    <3>1. UNCHANGED <<rows, calls, extraction>>
      BY <2>6 DEF LockStep, LockExpires
    <3>2. RowsStep /\ CallsOK' /\ (MarkLost => MarkLost')
      BY <1>1, <3>1, RowsSame, CallsKept DEF Inv
    <3>3. ExtractionOK' /\ (ResultLost => ResultLost')
      BY <3>1 DEF Inv, ExtractionOK, ClaimOK, ResultOK, SnapshotOK, ResultLost, Unrewarded,
                  rows, extraction, Ids
    <3> QED
      BY <2>6, <3>2, <3>3 DEF Served, RowsStep, Inv, Traced, runner
  <2> QED
    BY <2>1, <2>2, <2>3, <2>4, <2>5, <2>6 DEF ServiceStep
<1>3. PassedCaseLostNothing'
  BY <1>1 DEF PassedCaseLostNothing, Passed
<1> QED
  BY <1>1, <1>2, <1>3 DEF Inv, Served
-----------------------------------------------------------------------------
(* The runner.  It leaves the rows and the extraction alone.               *)
LEMMA RunnerRows ==
    ASSUME Inv, UNCHANGED <<rows, extraction>>
    PROVE  /\ RowsOK' /\ ExtractionOK'
           /\ ResultLost => ResultLost'
BY DEF Inv, RowsOK, ExtractionOK, ClaimOK, ResultOK, SnapshotOK, ResultLost, Unrewarded,
       rows, extraction, Ids

(* An answer that has been recorded stays recorded.                        *)
LEMMA RecordKept ==
    ASSUME NEW p \in Phases, NEW d \in Users, Recorded(p), Refused(responses[p][d], d),
           Recorded(p)', responses'[p] = responses[p], UNCHANGED <<rows, case>>
    PROVE  MarkLost'
<1>1. d \in Users' /\ EmployeeOf(d)' = EmployeeOf(d)
  BY DEF Users, EmployeeOf
<1>2. Refused(responses[p][d], d)'
  BY <1>1 DEF Refused, rows, Ids
<1> QED
  BY <1>1, <1>2 DEF MarkLost

LEMMA StartKeeps ==
    ASSUME Inv, StartInitial \/ SeeFinished
    PROVE  Inv'
<1>1. /\ UNCHANGED <<rows, extraction, case, responses, errors, races>>
      /\ \/ phase = "planned" /\ phase' = "initial"
         \/ phase = "waiting" /\ phase' = "after-completion"
  BY DEF StartInitial, SeeFinished, StartPhase
<1>2. phase \notin Phases /\ phase' \in Phases
  BY <1>1 DEF Phases
<1>3. PlanOK' /\ PassedCaseLostNothing'
  BY <1>1, <1>2 DEF Inv, PlanOK, Users, PassedCaseLostNothing, Passed
<1>4. CallsOK'
  <2>1. calls' = [c \in Clients |->
                    IF c \in Users
                    THEN [owner |-> EmployeeOf(c), key |-> KeyOf(c), image |-> Image,
                          at |-> "received", snapshot |-> None, answer |-> None]
                    ELSE None]
    BY DEF StartInitial, SeeFinished, StartPhase
  <2>2. \A c : (c \in Users' <=> c \in Users) /\ EmployeeOf(c)' = EmployeeOf(c)
    BY <1>1 DEF Users, EmployeeOf
  <2>3. ASSUME NEW c \in Clients PROVE CallOK(c)'
    <3>1. CASE c \in Users
      <4>1. PICK call : call = [owner |-> EmployeeOf(c), key |-> KeyOf(c), image |-> Image,
                                at |-> "received", snapshot |-> None, answer |-> None]
        OBVIOUS
      <4>2. calls'[c] = call
        BY <2>1, <3>1, <4>1
      <4>3. DOMAIN call = CallFields /\ call.owner = EmployeeOf(c) /\ call.at = "received"
        BY <4>1 DEF CallFields
      <4> QED
        BY <1>2, <2>2, <3>1, <4>2, <4>3 DEF CallOK
    <3>2. CASE c \notin Users
      BY <2>1, <3>2 DEF CallOK
    <3> QED
      BY <3>1, <3>2
  <2> QED
    BY <2>1, <2>3 DEF CallsOK
<1>5. ASSUME MarkLost PROVE MarkLost'
  <2>1. PICK p \in Phases, d \in Users : Recorded(p) /\ Refused(responses[p][d], d)
    BY <1>2, <1>5 DEF MarkLost
  <2>2. Recorded(p)'
    BY <1>1, <2>1 DEF Recorded
  <2> QED
    BY <1>1, <2>1, <2>2, RecordKept
<1> QED
  BY <1>1, <1>3, <1>4, <1>5, RunnerRows DEF Inv, Traced

LEMMA EndKeeps ==
    ASSUME Inv, EndPhase("initial", "waiting") \/ EndPhase("after-completion", "verifying")
    PROVE  Inv'
<1>1. PICK p \in Phases :
         /\ phase = p
         /\ \/ p = "initial" /\ phase' = "waiting"
            \/ p = "after-completion" /\ phase' = "verifying"
         /\ responses' = [responses EXCEPT ![p] = [c \in Users |-> calls[c].answer]]
         /\ calls' = [c \in Clients |-> None]
         /\ UNCHANGED <<rows, extraction, case, errors, races>>
  BY DEF EndPhase, Phases
<1>2. PlanOK' /\ PassedCaseLostNothing'
  BY <1>1 DEF Inv, PlanOK, Users, PassedCaseLostNothing, Passed
<1>3. CallsOK'
  BY <1>1 DEF CallsOK, CallOK
<1>4. Recorded(p)' /\ ~Recorded(p)
  BY <1>1 DEF Recorded
<1>5. ASSUME MarkLost PROVE MarkLost'
  <2>1. ASSUME NEW d \in Users, Refused(calls[d].answer, d)
        PROVE  MarkLost'
    <3>1. responses'[p][d] = calls[d].answer
      BY <1>1 DEF Inv, PlanOK
    <3>2. d \in Users' /\ EmployeeOf(d)' = EmployeeOf(d)
      BY <1>1 DEF Users, EmployeeOf
    <3>3. Refused(responses[p][d], d)'
      BY <1>1, <2>1, <3>1, <3>2 DEF Refused, rows, Ids
    <3> QED
      BY <1>4, <3>2, <3>3 DEF MarkLost
  <2>2. ASSUME NEW q \in Phases, NEW d \in Users, Recorded(q), Refused(responses[q][d], d)
        PROVE  MarkLost'
    <3>1. q # p /\ responses'[q] = responses[q]
      BY <1>1, <1>4, <2>2 DEF Inv, PlanOK
    <3>2. Recorded(q)'
      BY <1>1, <2>2 DEF Recorded, Phases
    <3> QED
      BY <1>1, <2>2, <3>1, <3>2, RecordKept
  <2> QED
    BY <1>5, <2>1, <2>2 DEF MarkLost
<1> QED
  BY <1>1, <1>2, <1>3, <1>5, RunnerRows DEF Inv, Traced

LEMMA DeadlineKeeps ==
    ASSUME Inv, DeadlinePasses
    PROVE  Inv'
<1>1. /\ UNCHANGED <<rows, extraction, calls, case, responses, errors, races>>
      /\ phase = "waiting" /\ phase' = "aborted"
  BY DEF DeadlinePasses, intakeVars
<1>2. PlanOK' /\ PassedCaseLostNothing'
  BY <1>1 DEF Inv, PlanOK, Users, PassedCaseLostNothing, Passed
<1>3. CallsOK'
  BY <1>1 DEF Inv, CallsOK, CallOK, Phases
<1>4. ASSUME MarkLost PROVE MarkLost'
  <2>1. PICK p \in Phases, d \in Users : Recorded(p) /\ Refused(responses[p][d], d)
    BY <1>1, <1>4 DEF MarkLost, Phases
  <2>2. Recorded(p)'
    BY <1>1, <2>1 DEF Recorded
  <2> QED
    BY <1>1, <2>1, <2>2, RecordKept
<1> QED
  BY <1>1, <1>2, <1>3, <1>4, RunnerRows DEF Inv, Traced

(* What an empty list of errors says about a case.                         *)
LEMMA CleanCase ==
    ASSUME CaseErrors = {}
    PROVE  /\ before = Tables
           /\ jobs[1].status = "COMPLETED" /\ jobs[1].attemptCount = 1
<1>1. "changed" \notin CaseErrors => before = Tables
  BY DEF CaseErrors
<1>2. "attempts" \notin CaseErrors => jobs[1].status = "COMPLETED" /\ jobs[1].attemptCount = 1
  BY DEF CaseErrors
<1> QED
  BY <1>1, <1>2

LEMMA CleanResponses ==
    ASSUME NEW p, ResponseErrors(p) = {}, NEW d \in Users,
           EmployeeOf(d) = before.receipts[1].ownerEmployeeId
    PROVE  responses[p][d].status \in {200, 202}
<1>1. "owner" \notin ResponseErrors(p) => Accepted(responses[p][d])
  BY DEF ResponseErrors
<1> QED
  BY <1>1 DEF Accepted

LEMMA VerifyKeeps ==
    ASSUME Inv, VerifyCase
    PROVE  Inv'
<1>1. /\ UNCHANGED <<rows, extraction, calls, case, responses, races>>
      /\ phase = "verifying" /\ phase' = "verified"
  BY DEF VerifyCase, intakeVars
<1>2. PlanOK'
  BY <1>1 DEF Inv, PlanOK, Users
<1>3. CallsOK'
  BY <1>1 DEF Inv, CallsOK, CallOK, Phases
<1>4. ASSUME MarkLost
      PROVE  \E p \in Phases, d \in Users : Recorded(p) /\ Refused(responses[p][d], d)
  BY <1>1, <1>4 DEF MarkLost, Phases
<1>5. ASSUME MarkLost PROVE MarkLost'
  <2>1. PICK p \in Phases, d \in Users : Recorded(p) /\ Refused(responses[p][d], d)
    BY <1>4, <1>5
  <2>2. Recorded(p)'
    BY <1>1 DEF Recorded
  <2> QED
    BY <1>1, <2>1, <2>2, RecordKept
<1>6. ASSUME errors' = {} PROVE ~ResultLost /\ ~MarkLost
  <2>1. /\ Len(receipts) = 1 /\ CaseErrors = {}
        /\ ResponseErrors("initial") = {} /\ ResponseErrors("after-completion") = {}
    BY <1>6 DEF VerifyCase
  <2>2. Ids = {1}
    BY <2>1, IdsPlaces DEF Inv
  <2>3. before = Tables /\ jobs[1].status = "COMPLETED" /\ jobs[1].attemptCount = 1
    BY <2>1, CleanCase
  <2>4. ~ResultLost
    BY <2>2, <2>3 DEF ResultLost, Unrewarded
  <2>5. ASSUME MarkLost PROVE FALSE
    <3>1. PICK p \in Phases, d \in Users : Refused(responses[p][d], d)
      BY <1>4, <2>5
    <3>2. EmployeeOf(d) = before.receipts[1].ownerEmployeeId
      BY <2>2, <2>3, <3>1 DEF Refused, Tables
    <3>3. responses[p][d].status \in {200, 202}
      BY <2>1, <3>2, CleanResponses DEF Phases
    <3> QED
      BY <3>1, <3>3 DEF Refused
  <2> QED
    BY <2>4, <2>5
<1>7. PassedCaseLostNothing'
  BY <1>1, <1>6 DEF PassedCaseLostNothing, Passed, Inv, PlanOK, Traced
<1> QED
  BY <1>1, <1>2, <1>3, <1>5, <1>7, RunnerRows DEF Inv, Traced
-----------------------------------------------------------------------------
LEMMA InitInv == Init => Inv
<1> SUFFICES ASSUME Init
             PROVE  Inv
  OBVIOUS
<1>1. RowsOK
  <2>1. receipts = <<>> /\ jobs = <<>>
    BY DEF Init, IntakeInit
  <2> QED
    BY <2>1, EmptySeq DEF RowsOK
<1>2. CallsOK /\ ExtractionOK
  BY DEF Init, IntakeInit, CallsOK, CallOK, ExtractionOK
<1>3. PlanOK
  <2>1. case.vus \in Sizes
    BY DEF Init
  <2>2. case.vus \in Nat /\ 1..case.vus \subseteq Clients
    BY <2>1, SizesAssumption, ClientsAreNumbers
  <2> QED
    BY <2>2 DEF Init, PlanOK, Users
<1> QED
  BY <1>1, <1>2, <1>3 DEF Inv, Init, Traced, PassedCaseLostNothing, Passed

LEMMA NextInv == Inv /\ [Next]_vars => Inv'
<1> SUFFICES ASSUME Inv, [Next]_vars
             PROVE  Inv'
  OBVIOUS
<1>1. CASE phase \notin {"verified", "aborted"} /\ RunnerStep
  BY <1>1, StartKeeps, EndKeeps, DeadlineKeeps, VerifyKeeps DEF RunnerStep
<1>2. CASE phase \notin {"verified", "aborted"} /\ ServiceStep
  BY <1>2, ServiceKeeps
<1>3. CASE UNCHANGED vars
  <2>1. UNCHANGED <<rows, extraction, calls, case, phase, responses, errors, races>>
    BY <1>3 DEF vars, intakeVars, runner
  <2>2. CallsOK'
    BY <2>1 DEF Inv, CallsOK, CallOK, SnapshotOK, rows, Ids, Users, EmployeeOf
  <2>3. MarkLost => MarkLost'
    BY <2>1 DEF MarkLost, Refused, Recorded, rows, Ids, Users, EmployeeOf
  <2>4. PlanOK' /\ PassedCaseLostNothing'
    BY <2>1 DEF Inv, PlanOK, Users, PassedCaseLostNothing, Passed
  <2> QED
    BY <2>1, <2>2, <2>3, <2>4, RunnerRows DEF Inv, Traced
<1> QED
  BY <1>1, <1>2, <1>3 DEF Next, Over

(* verify_case and check_responses of run-duplicates.py: a case that       *)
(* passes lost no result of the extraction and rolled back no commit of an *)
(* upload, however many virtual users and in whatever order.               *)
THEOREM NoRaceIsHidden == Spec => []PassedCaseLostNothing
<1>1. Inv => PassedCaseLostNothing
  BY DEF Inv
<1> QED
  BY <1>1, InitInv, NextInv, PTL DEF Spec
-----------------------------------------------------------------------------
(***************************************************************************)
(* No false alarm.  While no race is lost there is one receipt at most,    *)
(* and who created it, what it is marked as and what every other upload is *)
(* told are determined by the mode and the number of virtual users alone.  *)
(***************************************************************************)
Inside == {"locked", "keyUnknownLocked", "stored", "marking"}

Created == Len(receipts) = 1

Owner == receipts[1].ownerEmployeeId

Flagged == jobs[1].duplicateDetected

SavedKeys == {row.key : row \in keys}

KeysOf(c) == [key : {KeyOf(c)} \ {None}, receipt : {1}]

(* What an upload is told that finds the receipt.                          *)
AsExpected(answer, c) ==
    /\ Created
    /\ EmployeeOf(c) # Owner => answer.status = 409 /\ answer.receipt = None
    /\ EmployeeOf(c) = Owner =>
          /\ answer.status = 200 /\ answer.receipt = 1
          /\ answer.replay = (KeyOf(c) \in SavedKeys)
          /\ answer.replay \/ Flagged

(* The answers of the first phase, while they come in and afterwards.      *)
Answered(c) == phase = "initial" => calls[c].at = "answered"
FirstAnswer(c) == IF phase = "initial" THEN calls[c].answer ELSE responses["initial"][c]

Creator(c) ==
    /\ c \in Users
    /\ Owner = EmployeeOf(c) /\ keys = KeysOf(c)
    /\ Answered(c) /\ FirstAnswer(c).status = 202 /\ FirstAnswer(c).receipt = 1
    /\ \A d \in Users \ {c} : Answered(d) => AsExpected(FirstAnswer(d), d)

(* The tables: at most one receipt, of the one image.                      *)
OneRow ==
    /\ Len(receipts) \in {0, 1}
    /\ images = IF Created THEN <<Image>> ELSE <<>>
    /\ audit \in Seq(Seq(AuditActions)) /\ Len(audit) = Len(receipts)
    /\ objects \in {{}, {Image}} /\ DOMAIN holder = Images
    /\ ~Created => keys = {}
    /\ Created => objects = {Image} /\ \E c \in Users : Creator(c)

(* The extraction and the mark, in either order.                           *)
JobQuiet ==
    /\ jobs[1].status \in {"QUEUED", "PROCESSING", "COMPLETED"}
    /\ jobs[1].attemptCount = IF jobs[1].status = "QUEUED" THEN 0 ELSE 1
    /\ 1 \in executing <=> jobs[1].status = "PROCESSING"
    /\ Flagged => ExpectDuplicate

ReceiptQuiet ==
    IF jobs[1].status = "COMPLETED"
    THEN /\ receipts[1].status = IF Flagged THEN "NEEDS_REVIEW" ELSE "AUTO_APPROVED"
         /\ receipts[1].currentData = FakeData
         /\ MarkedDuplicate(receipts[1].ruleResults) <=> Flagged
    ELSE receipts[1].status = None

Claims == {k \in DOMAIN audit[1] : audit[1][k] = "EXTRACTION_JOB_CLAIMED"}

EventsDue ==
    {"UPLOADED"}
        \cup (IF jobs[1].status = "QUEUED" THEN {} ELSE {"EXTRACTION_JOB_CLAIMED"})
        \cup (IF jobs[1].status = "COMPLETED"
              THEN {"EXTRACTION_COMPLETED", "VALIDATION_COMPLETED"} ELSE {})
        \cup (IF Flagged THEN {"DUPLICATE_DETECTED"} ELSE {})

AuditQuiet ==
    /\ ToSet(audit[1]) = EventsDue
    /\ Len(audit[1]) = 1 + (IF jobs[1].status = "QUEUED" THEN 0 ELSE 1)
                         + (IF jobs[1].status = "COMPLETED" THEN 2 ELSE 0)
                         + (IF Flagged THEN 1 ELSE 0)
    /\ jobs[1].status # "QUEUED" => \E k \in DOMAIN audit[1] : Claims = {k}

(* A snapshot whose job is current has the current receipt as well.        *)
Fresh(t) ==
    /\ t.of = 1 /\ t.job.version \in Nat /\ t.job.version <= jobs[1].version
    /\ t.job.version = jobs[1].version => t.receipt = receipts[1]

(* What an unanswered or answered upload knows.                            *)
CallQuiet(c) ==
    LET call == calls[c]
    IN  /\ call.image = Image /\ call.key = KeyOf(c)
        /\ \/ call.at \in {"received", "keyUnknown", "answered"}
           \/ phase = "initial" /\ call.at \in Inside \cup {"waiting", "conflicted"}
        /\ call.at \in Inside => holder[Image] = c
        /\ call.at \in {"keyUnknownLocked", "stored", "marking"} => KeyOf(c) \notin SavedKeys
        /\ call.at = "keyUnknown" /\ phase = "after-completion" => KeyOf(c) \notin SavedKeys
        /\ call.at = "stored" => ~Created /\ objects = {Image}
        /\ call.at = "conflicted" => Created /\ EmployeeOf(c) # Owner
        /\ call.at = "marking" =>
              Fresh(call.snapshot) /\ ~call.snapshot.job.duplicateDetected /\ ExpectDuplicate
        /\ call.at = "answered" =>
              Created /\ (phase = "after-completion" => AsExpected(call.answer, c))

(* What the runner may rely on, phase by phase.                            *)
PhaseQuiet ==
    /\ case.vus >= 2 /\ case.vus % 2 = 0
    /\ errors = {}
    /\ phase = "planned" => ~Created
    /\ phase \notin {"planned", "initial"} => Created /\ (Flagged <=> ExpectDuplicate)
    /\ phase \in {"after-completion", "verifying", "verified"} =>
          before = Tables /\ jobs[1].status = "COMPLETED"
    /\ phase \in {"verifying", "verified"} =>
          \A c \in Users : AsExpected(responses["after-completion"][c], c)

Calling(c) == calls[c] # None \/ (c \in Users /\ phase \in Phases)

Quiet ==
    /\ OneRow
    /\ Created => JobQuiet /\ ReceiptQuiet /\ AuditQuiet
    /\ \A t \in completing : Fresh(t)
    /\ \A c \in Clients : Calling(c) => CallQuiet(c)
    /\ PhaseQuiet

QuietInv == races = {} => Quiet
-----------------------------------------------------------------------------
(* Modes, keys and employees.                                              *)
CaseOK ==
    /\ case.vus \in Nat /\ case.vus >= 2 /\ case.vus % 2 = 0
    /\ Users \subseteq Clients

LEMMA CaseFacts ==
    ASSUME Inv, Quiet
    PROVE  CaseOK /\ \A c \in Users : c \in Nat /\ c >= 1 /\ c <= case.vus
<1>1. CaseOK
  BY DEF CaseOK, Inv, PlanOK, Quiet, PhaseQuiet
<1> QED
  BY <1>1 DEF CaseOK, Users

LEMMA KeyFacts ==
    ASSUME CaseOK, NEW c \in Users
    PROVE  /\ case.mode = "no-key" => KeyOf(c) = None
           /\ case.mode # "no-key" => KeyOf(c) # None
           /\ case.mode = "same-key" => KeyOf(c) = 1
           /\ case.mode \notin {"no-key", "same-key"} => KeyOf(c) = c
<1>1. 1 \in Users
  BY DEF CaseOK, Users
<1>2. 1 # None /\ c # None
  BY <1>1, ClientsAreNumbers DEF CaseOK
<1> QED
  BY <1>2 DEF KeyOf

(* Which uploads find their key once c0 has created the receipt.           *)
LEMMA SavedIff ==
    ASSUME CaseOK, NEW c0 \in Users, keys = KeysOf(c0), NEW d \in Users
    PROVE  KeyOf(d) \in SavedKeys <=>
              case.mode # "no-key" /\ (case.mode = "same-key" \/ d = c0)
<1>1. SavedKeys = {KeyOf(c0)} \ {None}
  <2>1. PICK k : k = KeyOf(c0)
    OBVIOUS
  <2>2. {row.key : row \in [key : {k} \ {None}, receipt : {1}]} = {k} \ {None}
    <3>1. \A row \in [key : {k} \ {None}, receipt : {1}] : row.key \in {k} \ {None}
      OBVIOUS
    <3>2. k # None => [key |-> k, receipt |-> 1] \in [key : {k} \ {None}, receipt : {1}]
      OBVIOUS
    <3>3. k # None => k \in {row.key : row \in [key : {k} \ {None}, receipt : {1}]}
      BY <3>2
    <3> QED
      BY <3>1, <3>3
  <2> QED
    BY <2>1, <2>2 DEF SavedKeys, KeysOf
<1> QED
  BY <1>1, KeyFacts

(* The session's employees: two in turn when owners cross, one otherwise.  *)
LEMMA EmployeeFacts ==
    ASSUME CaseOK, NEW c \in Users, NEW d \in Users
    PROVE  /\ case.mode # "cross-owner" => EmployeeOf(c) = EmployeeOf(d)
           /\ case.mode = "cross-owner" => (EmployeeOf(c) = EmployeeOf(d) <=> c % 2 = d % 2)
<1> DEFINE n == Cardinality(Owners)
           user == SetToSeq(Owners)
<1>1. n \in Nat /\ n >= 2 /\ ExistsBijection(1..n, Owners)
  BY EmployeesAssumption, FS_CardinalityType
<1>2. \E f \in [1..n -> Owners] : IsInjective(f)
  BY <1>1 DEF ExistsBijection, Bijection, Injection, IsInjective
<1>3. IsInjective(user) /\ user \in [1..n -> Owners]
  BY <1>2 DEF SetToSeq
<1>4. user[1] # user[2]
  BY <1>1, <1>3 DEF IsInjective
<1>5. c \in Nat /\ d \in Nat /\ c >= 1 /\ d >= 1
  BY DEF CaseOK, Users
<1>6. \A x \in Nat : x >= 1 => (x - 1) % 2 = 1 - (x % 2) /\ x % 2 \in {0, 1}
  OBVIOUS
<1> HIDE DEF user
<1>7. case.mode = "cross-owner" =>
         /\ EmployeeOf(c) = user[1 + ((c - 1) % 2)]
         /\ EmployeeOf(d) = user[1 + ((d - 1) % 2)]
  BY DEF EmployeeOf, user
<1>8. CASE case.mode = "cross-owner"
  BY <1>4, <1>5, <1>6, <1>7, <1>8
<1>9. CASE case.mode # "cross-owner"
  BY <1>9 DEF EmployeeOf
<1> QED
  BY <1>8, <1>9

(* An owner's upload under a key that created nothing is a duplicate the   *)
(* verifier expects, and where it expects one, nobody but the creator has  *)
(* such a key.                                                             *)
LEMMA UnsavedIsExpected ==
    ASSUME CaseOK, NEW c0 \in Users, keys = KeysOf(c0), NEW d \in Users,
           EmployeeOf(d) = EmployeeOf(c0), KeyOf(d) \notin SavedKeys
    PROVE  ExpectDuplicate
<1>1. c0 \in 1..case.vus /\ d \in 1..case.vus
  BY DEF Users
<1>2. case.mode = "no-key" \/ (case.mode # "same-key" /\ d # c0)
  BY SavedIff
<1>3. ASSUME case.mode = "cross-owner", case.vus = 2, d # c0 PROVE FALSE
  <2>1. c0 % 2 = d % 2
    BY <1>3, EmployeeFacts
  <2> QED
    BY <1>1, <1>3, <2>1
<1> QED
  BY <1>2, <1>3 DEF ExpectDuplicate

LEMMA ExpectedIsUnsaved ==
    ASSUME CaseOK, NEW c0 \in Users, keys = KeysOf(c0), NEW d \in Users,
           ExpectDuplicate, d # c0
    PROVE  KeyOf(d) \notin SavedKeys
BY SavedIff DEF ExpectDuplicate

(* Where a duplicate is expected, the creator's employee sends another.    *)
LEMMA Companion ==
    ASSUME CaseOK, NEW c0 \in Users, ExpectDuplicate
    PROVE  \E d \in Users : d # c0 /\ EmployeeOf(d) = EmployeeOf(c0)
<1>1. c0 \in Nat /\ c0 >= 1 /\ c0 <= case.vus /\ case.vus \in Nat /\ case.vus >= 2
      /\ case.vus % 2 = 0
  BY DEF CaseOK, Users
<1>2. CASE case.mode # "cross-owner"
  <2>1. PICK d \in Users : d # c0
    <3>1. 1 \in Users /\ 2 \in Users
      BY <1>1 DEF Users
    <3> QED
      BY <3>1
  <2> QED
    BY <1>2, <2>1, EmployeeFacts
<1>3. CASE case.mode = "cross-owner"
  <2>1. case.vus >= 4
    BY <1>1, <1>3 DEF ExpectDuplicate
  <2>2. PICK d : d = IF c0 <= 2 THEN c0 + 2 ELSE c0 - 2
    OBVIOUS
  <2>3. d \in Users /\ d # c0 /\ d % 2 = c0 % 2
    BY <1>1, <2>1, <2>2 DEF Users
  <2> QED
    BY <1>3, <2>3, EmployeeFacts
<1> QED
  BY <1>2, <1>3
-----------------------------------------------------------------------------
(* What the look-ups of an upload find.                                    *)
LEMMA QuietRows ==
    ASSUME Inv, Quiet
    PROVE  /\ Ids = IF Created THEN {1} ELSE {}
           /\ Created => receipts[1] \in Receipt /\ jobs[1] \in Job
<1>1. Len(receipts) \in {0, 1} /\ Ids = 1..Len(receipts)
  BY IdsPlaces DEF Inv, Quiet, OneRow
<1>2. Created => Ids = {1}
  BY <1>1 DEF Created
<1>3. ~Created => Ids = {}
  BY <1>1 DEF Created
<1> QED
  BY <1>2, <1>3, IdsPlaces DEF Inv

LEMMA SavedKeysOf ==
    ASSUME Inv, Quiet
    PROVE  /\ ~Created => SavedKeys = {}
           /\ \A row \in keys : row.receipt = 1 /\ row.key \in SavedKeys /\ Created
           /\ \A k \in SavedKeys : \E row \in keys : row.key = k
<1>1. ~Created => keys = {}
  BY DEF Quiet, OneRow
<1>2. ASSUME Created PROVE \A row \in keys : row.receipt = 1
  <2>1. PICK c0 \in Users : keys = KeysOf(c0)
    BY <1>2 DEF Quiet, OneRow, Creator
  <2> QED
    BY <2>1 DEF KeysOf
<1> QED
  BY <1>1, <1>2 DEF SavedKeys

LEMMA Found ==
    ASSUME Inv, Quiet, NEW c \in Clients, calls[c] # None
    PROVE  /\ c \in Users /\ phase \in Phases
           /\ calls[c].image = Image /\ calls[c].key = KeyOf(c)
           /\ calls[c].owner = EmployeeOf(c)
           /\ ByKey(c) = (IF KeyOf(c) \in SavedKeys THEN {1} ELSE {})
           /\ KeyOf(c) \in SavedKeys => Created
           /\ ByImage(c) = Ids
           /\ Created => (Owned(c, 1) <=> EmployeeOf(c) = Owner)
<1>1. c \in Users /\ phase \in Phases /\ calls[c].owner = EmployeeOf(c)
  BY DEF Inv, CallsOK, CallOK
<1>2. calls[c].image = Image /\ calls[c].key = KeyOf(c)
  BY DEF Quiet, Calling, CallQuiet
<1>3. PICK k : k = KeyOf(c)
  OBVIOUS
<1>4. ByKey(c) = {row.receipt : row \in {r \in keys : r.key = k}}
  BY <1>2, <1>3 DEF ByKey
<1>5. CASE k \in SavedKeys
  <2>1. PICK row \in keys : row.key = k
    BY <1>5, SavedKeysOf
  <2>2. ByKey(c) = {1} /\ Created
    BY <1>4, <2>1, SavedKeysOf
  <2>3. ByKey(c) = (IF KeyOf(c) \in SavedKeys THEN {1} ELSE {})
    BY <1>3, <1>5, <2>2
  <2>4. ByImage(c) = Ids /\ (Created => (Owned(c, 1) <=> EmployeeOf(c) = Owner))
    BY <1>1, <1>2, QuietRows DEF ByImage, Owned, Owner, Quiet, OneRow
  <2> QED
    BY <1>1, <1>2, <2>2, <2>3, <2>4
<1>6. CASE k \notin SavedKeys
  <2>1. ByKey(c) = {}
    BY <1>4, <1>6, SavedKeysOf
  <2>2. ByKey(c) = (IF KeyOf(c) \in SavedKeys THEN {1} ELSE {})
    BY <1>3, <1>6, <2>1
  <2>3. ByImage(c) = Ids /\ (Created => (Owned(c, 1) <=> EmployeeOf(c) = Owner))
    BY <1>1, <1>2, QuietRows DEF ByImage, Owned, Owner, Quiet, OneRow
  <2> QED
    BY <1>1, <1>2, <1>3, <1>6, <2>2, <2>3
<1> QED
  BY <1>5, <1>6

(* A receipt somebody has created; while the first phase lasts not by an   *)
(* upload that has no answer yet.                                          *)
LEMMA CreatorKnown ==
    ASSUME Inv, Quiet, Created
    PROVE  \E c0 \in Users : Creator(c0) /\ keys = KeysOf(c0) /\ Owner = EmployeeOf(c0)
              /\ (phase = "initial" => calls[c0].at = "answered")
BY DEF Quiet, OneRow, Creator, Answered

(* What an upload learns that finds the receipt when it has none yet.      *)
LEMMA FlaggedKnown ==
    ASSUME Inv, Quiet, Created, NEW c \in Clients, calls[c] # None,
           calls[c].at # "answered", EmployeeOf(c) = Owner
    PROVE  /\ KeyOf(c) \notin SavedKeys => ExpectDuplicate
           /\ Flagged /\ phase = "initial" => KeyOf(c) \notin SavedKeys
           /\ ~Flagged /\ phase # "initial" => KeyOf(c) \in SavedKeys
<1>1. CaseOK /\ c \in Users /\ phase \in Phases
  BY CaseFacts, Found
<1>2. PICK c0 \in Users : keys = KeysOf(c0) /\ Owner = EmployeeOf(c0)
                          /\ (phase = "initial" => calls[c0].at = "answered")
  BY CreatorKnown
<1>3. KeyOf(c) \notin SavedKeys => ExpectDuplicate
  BY <1>1, <1>2, UnsavedIsExpected
<1>4. Flagged /\ phase = "initial" => KeyOf(c) \notin SavedKeys
  BY <1>1, <1>2, ExpectedIsUnsaved DEF Quiet, JobQuiet
<1>5. ~Flagged /\ phase # "initial" => ~ExpectDuplicate
  BY <1>1 DEF Quiet, PhaseQuiet, Phases
<1> QED
  BY <1>3, <1>4, <1>5
-----------------------------------------------------------------------------
(* A state function of the tables and the case alone.                      *)
LEMMA ExpectedSame ==
    ASSUME UNCHANGED <<rows, case>>
    PROVE  /\ Created' = Created /\ Owner' = Owner /\ Flagged' = Flagged
           /\ SavedKeys' = SavedKeys /\ Users' = Users
           /\ ExpectDuplicate' = ExpectDuplicate
           /\ \A c : EmployeeOf(c)' = EmployeeOf(c) /\ KeyOf(c)' = KeyOf(c)
                     /\ KeysOf(c)' = KeysOf(c)
           /\ \A a, c : AsExpected(a, c)' <=> AsExpected(a, c)
           /\ \A t : Fresh(t)' <=> Fresh(t)
<1>1. /\ Created' = Created /\ Owner' = Owner /\ Flagged' = Flagged
      /\ SavedKeys' = SavedKeys /\ Users' = Users /\ ExpectDuplicate' = ExpectDuplicate
  BY DEF Created, Owner, Flagged, SavedKeys, Users, ExpectDuplicate, rows
<1>2. \A c : EmployeeOf(c)' = EmployeeOf(c) /\ KeyOf(c)' = KeyOf(c) /\ KeysOf(c)' = KeysOf(c)
  BY DEF EmployeeOf, KeyOf, KeysOf
<1>3. \A a, c : AsExpected(a, c)' <=> AsExpected(a, c)
  BY <1>1, <1>2 DEF AsExpected
<1>4. \A t : Fresh(t)' <=> Fresh(t)
  BY DEF Fresh, rows
<1> QED
  BY <1>1, <1>2, <1>3, <1>4

(* The tables stay what they are, whoever reads them.                      *)
LEMMA TablesSame ==
    ASSUME Inv, Quiet, UNCHANGED <<rows, extraction, case>>
    PROVE  /\ (Created => JobQuiet /\ ReceiptQuiet /\ AuditQuiet)'
           /\ (\A t \in completing : Fresh(t))'
<1>1. Created => JobQuiet /\ ReceiptQuiet /\ AuditQuiet
  BY DEF Quiet
<1>2. /\ jobs' = jobs /\ receipts' = receipts /\ audit' = audit /\ executing' = executing
      /\ Flagged' = Flagged /\ ExpectDuplicate' = ExpectDuplicate /\ Created' = Created
  BY ExpectedSame DEF rows, extraction
<1>4. JobQuiet' <=> JobQuiet
  BY <1>2 DEF JobQuiet
<1>5. ReceiptQuiet' <=> ReceiptQuiet
  BY <1>2 DEF ReceiptQuiet
<1>6. EventsDue' = EventsDue /\ Claims' = Claims
  BY <1>2 DEF EventsDue, Claims
<1>7. AuditQuiet' <=> AuditQuiet
  BY <1>2, <1>6 DEF AuditQuiet
<1>3. (\A t \in completing : Fresh(t))'
  BY ExpectedSame DEF Quiet, extraction
<1> QED
  BY <1>1, <1>2, <1>3, <1>4, <1>5, <1>7

(* A call that stands still while another one moves.                       *)
LEMMA QuietKept ==
    ASSUME Quiet, UNCHANGED <<rows, case, phase>>, NEW d \in Clients,
           Calling(d), calls'[d] = calls[d],
           holder[Image] = d => holder'[Image] = d,
           calls[d].at = "stored" => objects' = objects
    PROVE  CallQuiet(d)'
<1>1. PICK call : call = calls[d]
  OBVIOUS
<1>2. calls'[d] = call /\ CallQuiet(d)
  BY <1>1 DEF Quiet
<1>3. phase' = phase
  OBVIOUS
<1> QED
  BY <1>1, <1>2, <1>3, ExpectedSame DEF CallQuiet

(* The creator remains, and the answers so far.                            *)
LEMMA CreatorKept ==
    ASSUME NEW c0, Creator(c0), UNCHANGED <<rows, case, phase, responses>>,
           \A d \in Users : calls[d].at = "answered" => calls'[d] = calls[d],
           \A d \in Users : phase = "initial" /\ calls[d].at # "answered"
                               /\ calls'[d].at = "answered" => AsExpected(calls'[d].answer, d)
    PROVE  Creator(c0)'
<1>1. /\ Users' = Users /\ phase' = phase /\ responses' = responses
      /\ c0 \in Users /\ Owner' = EmployeeOf(c0)' /\ keys' = KeysOf(c0)'
  BY ExpectedSame DEF Creator, rows
<1>2. CASE phase = "initial"
  <2>1. /\ calls[c0].at = "answered" /\ calls[c0].answer.status = 202
        /\ calls[c0].answer.receipt = 1
        /\ \A d \in Users \ {c0} : calls[d].at = "answered" => AsExpected(calls[d].answer, d)
    BY <1>2 DEF Creator, Answered, FirstAnswer
  <2>2. calls'[c0] = calls[c0]
    BY <1>1, <2>1
  <2>3. ASSUME NEW d \in Users \ {c0}, calls'[d].at = "answered"
        PROVE  AsExpected(calls'[d].answer, d)
    BY <1>2, <2>1, <2>3
  <2>4. PICK answer : answer = [d \in Users |-> calls'[d].answer]
    OBVIOUS
  <2>5. \A d \in Users \ {c0} : calls'[d].at = "answered" => AsExpected(answer[d], d)'
    <3>1. ASSUME NEW d \in Users \ {c0}, calls'[d].at = "answered" PROVE AsExpected(answer[d], d)'
      <4>1. PICK a : a = calls'[d].answer
        OBVIOUS
      <4>2. AsExpected(a, d)
        BY <2>3, <3>1, <4>1
      <4>3. AsExpected(a, d)'
        BY <4>2, ExpectedSame
      <4>4. a = answer[d]
        BY <2>4, <4>1
      <4> QED
        BY <4>3, <4>4
    <3> QED
      BY <3>1
  <2> QED
    BY <1>1, <1>2, <2>1, <2>2, <2>4, <2>5 DEF Creator, Answered, FirstAnswer
<1>3. CASE phase # "initial"
  <2>1. /\ responses["initial"][c0].status = 202 /\ responses["initial"][c0].receipt = 1
        /\ \A d \in Users \ {c0} : AsExpected(responses["initial"][d], d)
    BY <1>3 DEF Creator, Answered, FirstAnswer
  <2>2. \A d \in Users \ {c0} : AsExpected(responses["initial"][d], d)'
    <3>1. PICK r : r = responses["initial"]
      OBVIOUS
    <3>2. \A d \in Users \ {c0} : AsExpected(r[d], d)'
      BY <2>1, <3>1, ExpectedSame
    <3> QED
      BY <1>1, <3>1, <3>2
  <2> QED
    BY <1>1, <1>3, <2>1, <2>2 DEF Creator, Answered, FirstAnswer
<1> QED
  BY <1>2, <1>3

(* An upload that moves without writing to the tables.                     *)
QuietMoving(c) ==
    /\ Inv /\ Quiet
    /\ c \in Clients /\ calls[c] # None /\ calls[c].at # "answered"
    /\ UNCHANGED <<rows, extraction, runner>>

QuietMoved(c) ==
    /\ \A d \in Clients \ {c} : calls'[d] = calls[d]
    /\ DOMAIN holder' = Images
    /\ \A d \in Clients \ {c} : holder[Image] = d => holder'[Image] = d
    /\ objects' = objects \/ objects' = {Image}
    /\ CallQuiet(c)'
    /\ calls'[c].at = "answered" => AsExpected(calls'[c].answer, c)

LEMMA MoveKeepsQuiet ==
    ASSUME NEW c, QuietMoving(c), QuietMoved(c)
    PROVE  Quiet'
<1>1. Inv /\ Quiet /\ c \in Clients /\ CaseOK /\ UNCHANGED <<case, phase, responses, before, errors>>
  BY CaseFacts DEF QuietMoving, runner
<1>2. UNCHANGED <<rows, extraction>> /\ Users' = Users /\ Created' = Created
      /\ Flagged' = Flagged /\ ExpectDuplicate' = ExpectDuplicate /\ Tables' = Tables
      /\ jobs' = jobs
  BY ExpectedSame DEF QuietMoving, runner, rows, Tables
<1>3. (\E c0 \in Users : Creator(c0)) => (\E c0 \in Users : Creator(c0))'
  <2>1. \A d \in Users : calls[d].at = "answered" => calls'[d] = calls[d]
    BY <1>1 DEF QuietMoving, QuietMoved, CaseOK
  <2>2. \A d \in Users : calls[d].at # "answered" /\ calls'[d].at = "answered"
                            => AsExpected(calls'[d].answer, d)
    BY <1>1 DEF QuietMoving, QuietMoved, CaseOK
  <2> QED
    BY <1>1, <1>2, <2>1, <2>2, CreatorKept
<1>4. OneRow'
  BY <1>1, <1>2, <1>3 DEF Quiet, OneRow, QuietMoved, rows, Created
<1>5. ASSUME NEW d \in Clients, Calling(d)' PROVE CallQuiet(d)'
  <2>1. CASE d = c
    BY <2>1 DEF QuietMoved
  <2>2. CASE d # c
    <3>0. Calling(d) /\ calls'[d] = calls[d]
      BY <1>1, <1>2, <1>5, <2>2 DEF QuietMoved, Calling
    <3>1. calls[d].at = "stored" => objects' = objects
      BY <1>1, <3>0 DEF QuietMoved, Quiet, CallQuiet
    <3> QED
      BY <1>1, <1>2, <2>2, <3>0, <3>1, QuietKept DEF QuietMoved
  <2> QED
    BY <2>1, <2>2
<1>6. PhaseQuiet'
  <2>2. PICK r : r = responses
    OBVIOUS
  <2>3. phase \in {"verifying", "verified"} =>
           \A d \in Users : AsExpected(r["after-completion"][d], d)'
    BY <1>1, <1>2, <2>2, ExpectedSame DEF Quiet, PhaseQuiet
  <2> QED
    BY <1>1, <1>2, <2>2, <2>3 DEF Quiet, PhaseQuiet
<1> QED
  BY <1>1, <1>2, <1>4, <1>5, <1>6, TablesSame DEF Quiet

(* The ways an upload moves.                                               *)
LEMMA QuietSteps ==
    ASSUME NEW c, QuietMoving(c)
    PROVE  /\ \A stage : GoTo(c, stage) =>
                 /\ \A d \in Clients \ {c} : calls'[d] = calls[d]
                 /\ calls'[c].at = stage
                 /\ calls'[c].image = Image /\ calls'[c].key = KeyOf(c)'
                 /\ calls'[c].snapshot = calls[c].snapshot
           /\ \A status, receipt, replay : Respond(c, status, receipt, replay) =>
                 /\ \A d \in Clients \ {c} : calls'[d] = calls[d]
                 /\ calls'[c].at = "answered"
                 /\ calls'[c].image = Image /\ calls'[c].key = KeyOf(c)'
                 /\ calls'[c].answer =
                       [status |-> status, receipt |-> receipt, replay |-> replay]
           /\ Unlock(c) => /\ DOMAIN holder' = Images
                           /\ \A d \in Clients \ {c} : holder[Image] = d => holder'[Image] = d
           /\ Image \in Images
<1>1. PICK call : call = calls[c]
  OBVIOUS
<1>2. /\ DOMAIN calls = Clients /\ c \in Clients /\ DOMAIN call = CallFields
      /\ call.image = Image /\ call.key = KeyOf(c) /\ KeyOf(c)' = KeyOf(c)
  <2>1. Inv /\ Quiet /\ c \in Clients /\ calls[c] # None /\ UNCHANGED case
    BY DEF QuietMoving, runner
  <2> QED
    BY <1>1, <2>1, Found DEF Inv, CallsOK, CallOK, KeyOf
<1>3. ASSUME NEW stage, GoTo(c, stage)
      PROVE  /\ \A d \in Clients \ {c} : calls'[d] = calls[d]
             /\ calls'[c].at = stage
             /\ calls'[c].image = Image /\ calls'[c].key = KeyOf(c)'
             /\ calls'[c].snapshot = calls[c].snapshot
  <2>1. calls' = [calls EXCEPT ![c] = [call EXCEPT !.at = stage]]
    BY <1>1, <1>3 DEF GoTo
  <2> QED
    BY <1>1, <1>2, <2>1 DEF CallFields
<1>4. ASSUME NEW status, NEW receipt, NEW replay, Respond(c, status, receipt, replay)
      PROVE  /\ \A d \in Clients \ {c} : calls'[d] = calls[d]
             /\ calls'[c].at = "answered"
             /\ calls'[c].image = Image /\ calls'[c].key = KeyOf(c)'
             /\ calls'[c].answer = [status |-> status, receipt |-> receipt, replay |-> replay]
  <2>1. PICK answer : answer = [status |-> status, receipt |-> receipt, replay |-> replay]
    OBVIOUS
  <2>2. calls' = [calls EXCEPT ![c] =
                    [call EXCEPT !.at = "answered", !.snapshot = None, !.answer = answer]]
    BY <1>1, <1>4, <2>1 DEF Respond
  <2>3. /\ \A d \in Clients \ {c} : calls'[d] = calls[d]
        /\ calls'[c].at = "answered" /\ calls'[c].answer = answer
        /\ calls'[c].image = call.image /\ calls'[c].key = call.key
    BY <1>2, <2>2 DEF CallFields
  <2> QED
    BY <1>2, <2>1, <2>3
<1>5. Image \in Images
  BY ImagesAssumption DEF Image
<1>6. Unlock(c) => /\ DOMAIN holder' = Images
                   /\ \A d \in Clients \ {c} : holder[Image] = d => holder'[Image] = d
  BY <1>5 DEF Unlock
<1> QED
  BY <1>3, <1>4, <1>5, <1>6

(* An upload that is answered as the verifier expects.                     *)
LEMMA QuietAnswer ==
    ASSUME NEW c, QuietMoving(c), NEW status, NEW receipt, NEW replay,
           Respond(c, status, receipt, replay), UNCHANGED objects,
           AsExpected([status |-> status, receipt |-> receipt, replay |-> replay], c)
    PROVE  QuietMoved(c)
<1>1. PICK answer : answer = [status |-> status, receipt |-> receipt, replay |-> replay]
  OBVIOUS
<1>2. AsExpected(answer, c) /\ UNCHANGED <<rows, case, phase>>
  BY <1>1 DEF QuietMoving, runner
<1>3. AsExpected(answer, c)' /\ Created'
  BY <1>2, ExpectedSame DEF AsExpected
<1>4. /\ \A d \in Clients \ {c} : calls'[d] = calls[d]
      /\ calls'[c].at = "answered" /\ calls'[c].answer = answer
      /\ calls'[c].image = Image /\ calls'[c].key = KeyOf(c)'
  BY <1>1, QuietSteps
<1>5. /\ DOMAIN holder' = Images
      /\ \A d \in Clients \ {c} : holder[Image] = d => holder'[Image] = d
  BY QuietSteps DEF Respond
<1>6. CallQuiet(c)'
  BY <1>3, <1>4 DEF CallQuiet, Inside
<1> QED
  BY <1>2, <1>4, <1>5, <1>6 DEF QuietMoved

(* The four answers of an upload that finds the receipt.                   *)
LEMMA QuietAnswers ==
    ASSUME NEW c, QuietMoving(c), Created, UNCHANGED objects
    PROVE  /\ EmployeeOf(c) # Owner /\ Refuse(c) => QuietMoved(c)
           /\ EmployeeOf(c) = Owner /\ KeyOf(c) \in SavedKeys /\ Existing(c, 1, TRUE)
                 => QuietMoved(c)
           /\ EmployeeOf(c) = Owner /\ KeyOf(c) \notin SavedKeys /\ Flagged
                 /\ Existing(c, 1, FALSE) => QuietMoved(c)
<1>1. ASSUME EmployeeOf(c) # Owner, Refuse(c) PROVE QuietMoved(c)
  <2>1. AsExpected([status |-> 409, receipt |-> None, replay |-> FALSE], c)
    BY <1>1 DEF AsExpected
  <2> QED
    BY <1>1, <2>1, QuietAnswer DEF Refuse
<1>2. ASSUME EmployeeOf(c) = Owner, KeyOf(c) \in SavedKeys, Existing(c, 1, TRUE)
      PROVE  QuietMoved(c)
  <2>1. AsExpected([status |-> 200, receipt |-> 1, replay |-> TRUE], c)
    BY <1>2 DEF AsExpected
  <2> QED
    BY <1>2, <2>1, QuietAnswer DEF Existing
<1>3. ASSUME EmployeeOf(c) = Owner, KeyOf(c) \notin SavedKeys, Flagged, Existing(c, 1, FALSE)
      PROVE  QuietMoved(c)
  <2>1. PICK answer : answer = [status |-> 200, receipt |-> 1, replay |-> FALSE]
    OBVIOUS
  <2>2. answer.replay = (KeyOf(c) \in SavedKeys)
    <3>1. answer.replay = FALSE /\ (KeyOf(c) \in SavedKeys) = FALSE
      BY <1>3, <2>1
    <3> QED
      BY <3>1
  <2>3. AsExpected(answer, c)
    BY <1>3, <2>1, <2>2 DEF AsExpected
  <2> QED
    BY <1>3, <2>1, <2>3, QuietAnswer DEF Existing
<1> QED
  BY <1>1, <1>2, <1>3

LEMMA FindReplayQuiet ==
    ASSUME NEW c, QuietMoving(c), FindReplay(c)
    PROVE  QuietMoved(c)
<1>1. Inv /\ Quiet /\ c \in Clients /\ calls[c] # None /\ calls[c].at = "received"
      /\ UNCHANGED <<rows, case, phase, objects>>
  BY DEF QuietMoving, FindReplay, At, runner
<1>2. ASSUME NEW i \in ByKey(c), IF Owned(c, i) THEN Existing(c, i, TRUE) ELSE Refuse(c)
      PROVE  QuietMoved(c)
  <2>1. i = 1 /\ Created /\ KeyOf(c) \in SavedKeys
    BY <1>1, <1>2, Found
  <2> QED
    BY <1>1, <1>2, <2>1, Found, QuietAnswers
<1>3. ASSUME ByKey(c) = {}, GoTo(c, "keyUnknown"), UNCHANGED holder
      PROVE  QuietMoved(c)
  <2>1. KeyOf(c) \notin SavedKeys
    BY <1>1, <1>3, Found
  <2>2. KeyOf(c)' \notin SavedKeys'
    BY <1>1, <2>1, ExpectedSame
  <2>3. CallQuiet(c)'
    BY <1>3, <2>2, QuietSteps DEF CallQuiet, Inside
  <2> QED
    BY <1>1, <1>3, <2>3, QuietSteps DEF QuietMoved, Quiet, OneRow
<1> QED
  BY <1>2, <1>3 DEF FindReplay

LEMMA FindProcessedQuiet ==
    ASSUME NEW c, QuietMoving(c), FindProcessed(c)
    PROVE  QuietMoved(c)
<1>1. Inv /\ Quiet /\ c \in Clients /\ calls[c] # None /\ calls[c].at = "keyUnknown"
      /\ UNCHANGED <<rows, case, phase, objects>>
  BY DEF QuietMoving, FindProcessed, At, runner
<1>2. phase \in Phases /\ (phase # "initial" => KeyOf(c) \notin SavedKeys)
  BY <1>1, Found DEF Quiet, Calling, CallQuiet, Phases
<1>3. ASSUME GoTo(c, "waiting"), UNCHANGED holder, phase = "initial"
      PROVE  QuietMoved(c)
  <2>1. CallQuiet(c)'
    BY <1>1, <1>3, QuietSteps DEF CallQuiet, Inside
  <2> QED
    BY <1>1, <1>3, <2>1, QuietSteps DEF QuietMoved, Quiet, OneRow
<1>4. ASSUME NEW i \in ByImage(c)
      PROVE  /\ i = 1 /\ Created /\ (Owned(c, i) <=> EmployeeOf(c) = Owner)
             /\ (jobs[i].duplicateDetected <=> Flagged)
  <2>1. i \in Ids
    BY <1>1, <1>4, Found
  <2>2. i = 1 /\ Created
    BY <1>1, <2>1, QuietRows
  <2> QED
    BY <1>1, <2>2, Found DEF Flagged
<1>5. ASSUME NEW i \in ByImage(c), ~Owned(c, i), Refuse(c) PROVE QuietMoved(c)
  BY <1>1, <1>4, <1>5, QuietAnswers
<1>6. ASSUME NEW i \in ByImage(c), Owned(c, i), jobs[i].duplicateDetected, Existing(c, i, FALSE)
      PROVE  QuietMoved(c)
  <2>1. KeyOf(c) \notin SavedKeys
    BY <1>1, <1>2, <1>4, <1>6, FlaggedKnown
  <2> QED
    BY <1>1, <1>4, <1>6, <2>1, QuietAnswers
<1>7. ASSUME NEW i \in ByImage(c), Owned(c, i), ~jobs[i].duplicateDetected,
             GoTo(c, "waiting"), UNCHANGED holder
      PROVE  QuietMoved(c)
  <2>1. phase = "initial"
    BY <1>1, <1>2, <1>4, <1>7, FlaggedKnown
  <2> QED
    BY <1>3, <1>7, <2>1
<1>8. ASSUME ByImage(c) = {}, GoTo(c, "waiting"), UNCHANGED holder PROVE QuietMoved(c)
  <2>1. ~Created
    BY <1>1, <1>8, Found, QuietRows
  <2>2. phase = "initial"
    BY <1>1, <1>2, <2>1 DEF Quiet, PhaseQuiet, Phases
  <2> QED
    BY <1>3, <1>8, <2>2
<1> QED
  BY <1>5, <1>6, <1>7, <1>8 DEF FindProcessed, Processed

LEMMA TakeLockQuiet ==
    ASSUME NEW c, QuietMoving(c), TakeLock(c)
    PROVE  QuietMoved(c)
<1>1. Inv /\ Quiet /\ c \in Clients /\ calls[c] # None /\ calls[c].at = "waiting"
      /\ UNCHANGED <<rows, case, phase, objects>>
  BY DEF QuietMoving, TakeLock, At, runner
<1>2. phase = "initial" /\ calls[c].image = Image
  BY <1>1 DEF Quiet, Calling, CallQuiet
<1>3. /\ holder[Image] = None
      /\ holder' = [holder EXCEPT ![Image] = c] /\ GoTo(c, "locked")
      /\ DOMAIN holder = Images /\ Image \in Images
  BY <1>1, <1>2, QuietSteps DEF TakeLock, Quiet, OneRow
<1>4. DOMAIN holder' = Images /\ holder'[Image] = c
  BY <1>3
<1>5. \A d \in Clients : holder[Image] # d
  BY <1>3, ClientsAreNumbers
<1>6. CallQuiet(c)'
  BY <1>1, <1>2, <1>3, <1>4, QuietSteps DEF CallQuiet, Inside
<1> QED
  BY <1>1, <1>3, <1>4, <1>5, <1>6, QuietSteps DEF QuietMoved

(* Only what belongs to another employee is in conflict.                   *)
LEMMA ConflictQuiet ==
    ASSUME NEW c, QuietMoving(c), UNCHANGED objects, Conflict(c), phase = "initial",
           Created, EmployeeOf(c) # Owner
    PROVE  QuietMoved(c)
<1>1. UNCHANGED <<rows, case, phase>>
  BY DEF QuietMoving, runner
<1>2. Created' /\ EmployeeOf(c)' # Owner' /\ phase' = "initial"
  BY <1>1, ExpectedSame
<1>3. CallQuiet(c)'
  BY <1>2, QuietSteps DEF Conflict, CallQuiet, Inside
<1> QED
  BY <1>3, QuietSteps DEF Conflict, QuietMoved

LEMMA ConvergeQuiet ==
    ASSUME NEW c, QuietMoving(c), Converge(c)
    PROVE  QuietMoved(c)
<1>1. Inv /\ Quiet /\ c \in Clients /\ calls[c] # None /\ calls[c].at = "conflicted"
      /\ UNCHANGED <<rows, case, phase, objects>>
  BY DEF QuietMoving, Converge, At, runner
<1>2. Created /\ EmployeeOf(c) # Owner
  BY <1>1 DEF Quiet, Calling, CallQuiet
<1>3. \A i \in ByImage(c) : ~Owned(c, i)
  BY <1>1, <1>2, Found, QuietRows
<1>4. ByImage(c) # {}
  BY <1>1, <1>2, Found, QuietRows
<1>5. Refuse(c)
  BY <1>3, <1>4 DEF Converge, Processed
<1> QED
  BY <1>1, <1>2, <1>5, QuietAnswers

LEMMA FindReplayLockedQuiet ==
    ASSUME NEW c, QuietMoving(c), FindReplayLocked(c)
    PROVE  QuietMoved(c)
<1>1. Inv /\ Quiet /\ c \in Clients /\ calls[c] # None /\ calls[c].at = "locked"
      /\ UNCHANGED <<rows, case, phase, objects>>
  BY DEF QuietMoving, FindReplayLocked, At, runner
<1>2. phase = "initial" /\ holder[Image] = c
  BY <1>1 DEF Quiet, Calling, CallQuiet, Inside
<1>3. ASSUME NEW i \in ByKey(c), IF Owned(c, i) THEN Existing(c, i, TRUE) ELSE Conflict(c)
      PROVE  QuietMoved(c)
  <2>1. i = 1 /\ Created /\ KeyOf(c) \in SavedKeys
    BY <1>1, <1>3, Found
  <2> QED
    BY <1>1, <1>2, <1>3, <2>1, Found, QuietAnswers, ConflictQuiet
<1>4. ASSUME ByKey(c) = {}, GoTo(c, "keyUnknownLocked"), UNCHANGED holder
      PROVE  QuietMoved(c)
  <2>1. KeyOf(c) \notin SavedKeys
    BY <1>1, <1>4, Found
  <2>2. KeyOf(c)' \notin SavedKeys'
    BY <1>1, <2>1, ExpectedSame
  <2>3. CallQuiet(c)'
    BY <1>1, <1>2, <1>4, <2>2, QuietSteps DEF CallQuiet, Inside
  <2> QED
    BY <1>1, <1>4, <2>3, QuietSteps DEF QuietMoved, Quiet, OneRow
<1> QED
  BY <1>3, <1>4 DEF FindReplayLocked

(* The employee's own upload whose key is new opens a mark.                *)
LEMMA FindSameImageQuiet ==
    ASSUME NEW c, QuietMoving(c), FindSameImage(c)
    PROVE  QuietMoved(c)
<1>1. Inv /\ Quiet /\ c \in Clients /\ calls[c] # None /\ calls[c].at = "keyUnknownLocked"
      /\ UNCHANGED <<rows, case, phase, objects>>
  BY DEF QuietMoving, FindSameImage, At, runner
<1>2. phase = "initial" /\ holder[Image] = c /\ KeyOf(c) \notin SavedKeys
  BY <1>1 DEF Quiet, Calling, CallQuiet, Inside
<1>3. PICK i \in ByImage(c) : OpenMark(c, i)
  BY DEF FindSameImage
<1>4. i = 1 /\ Created /\ (Owned(c, i) <=> EmployeeOf(c) = Owner)
      /\ (jobs[i].duplicateDetected <=> Flagged)
  <2>1. i \in Ids
    BY <1>1, <1>3, Found
  <2>2. i = 1 /\ Created
    BY <1>1, <2>1, QuietRows
  <2> QED
    BY <1>1, <2>2, Found DEF Flagged
<1>5. CASE ~Owned(c, i) /\ Conflict(c)
  BY <1>1, <1>2, <1>4, <1>5, ConflictQuiet
<1>6. CASE Owned(c, i) /\ jobs[i].duplicateDetected /\ Existing(c, i, FALSE)
  BY <1>1, <1>2, <1>4, <1>6, QuietAnswers
<1>7. ASSUME Owned(c, i), ~jobs[i].duplicateDetected, UNCHANGED holder,
             calls' = [calls EXCEPT ![c] =
                [@ EXCEPT !.at = "marking",
                          !.snapshot = [of |-> i, receipt |-> receipts[i], job |-> jobs[i]]]]
      PROVE  QuietMoved(c)
  <2>1. PICK t : t = [of |-> i, receipt |-> receipts[i], job |-> jobs[i]]
    OBVIOUS
  <2>2. PICK call : call = calls[c]
    OBVIOUS
  <2>3. DOMAIN calls = Clients /\ DOMAIN call = CallFields
        /\ call.image = Image /\ call.key = KeyOf(c)
    BY <1>1, <2>2, Found DEF Inv, CallsOK, CallOK
  <2>4. calls' = [calls EXCEPT ![c] = [call EXCEPT !.at = "marking", !.snapshot = t]]
    BY <1>7, <2>1, <2>2
  <2>5. /\ \A d \in Clients \ {c} : calls'[d] = calls[d]
        /\ calls'[c].at = "marking" /\ calls'[c].snapshot = t
        /\ calls'[c].image = Image /\ calls'[c].key = KeyOf(c)
    BY <1>1, <2>3, <2>4 DEF CallFields
  <2>6. ExpectDuplicate
    BY <1>1, <1>2, <1>4, <1>7, FlaggedKnown
  <2>7. Fresh(t) /\ ~t.job.duplicateDetected
    BY <1>1, <1>4, <1>7, <2>1, QuietRows DEF Fresh, Job
  <2>8. Fresh(t)' /\ ExpectDuplicate' /\ KeyOf(c)' = KeyOf(c) /\ KeyOf(c)' \notin SavedKeys'
    BY <1>1, <1>2, <2>6, <2>7, ExpectedSame
  <2>9. CallQuiet(c)'
    BY <1>1, <1>2, <1>7, <2>5, <2>7, <2>8 DEF CallQuiet, Inside
  <2> QED
    BY <1>1, <1>7, <2>5, <2>9 DEF QuietMoved, Quiet, OneRow
<1> QED
  BY <1>3, <1>5, <1>6, <1>7 DEF OpenMark

LEMMA StoreImageQuiet ==
    ASSUME NEW c, QuietMoving(c), StoreImage(c)
    PROVE  QuietMoved(c)
<1>1. Inv /\ Quiet /\ c \in Clients /\ calls[c] # None /\ calls[c].at = "keyUnknownLocked"
      /\ UNCHANGED <<rows, case, phase, holder>> /\ GoTo(c, "stored")
      /\ ByImage(c) = {} /\ objects' = objects \cup {calls[c].image}
  BY DEF QuietMoving, StoreImage, At, runner
<1>2. phase = "initial" /\ holder[Image] = c /\ KeyOf(c) \notin SavedKeys
  BY <1>1 DEF Quiet, Calling, CallQuiet, Inside
<1>3. ~Created
  BY <1>1, Found, QuietRows
<1>4. objects' = {Image}
  <2>1. objects \in {{}, {Image}} /\ calls[c].image = Image
    BY <1>1, Found DEF Quiet, OneRow
  <2> QED
    BY <1>1, <2>1
<1>5. KeyOf(c)' \notin SavedKeys' /\ ~Created'
  BY <1>1, <1>2, <1>3, ExpectedSame
<1>6. CallQuiet(c)'
  BY <1>1, <1>2, <1>4, <1>5, QuietSteps DEF CallQuiet, Inside
<1> QED
  BY <1>1, <1>4, <1>6, QuietSteps DEF QuietMoved, Quiet, OneRow

(* Nothing is in the way of the first upload that gets the lock.           *)
LEMMA UniqueWhenStored ==
    ASSUME Inv, Quiet, NEW c \in Clients, At(c, "stored")
    PROVE  IsUnique(c)
<1>1. ~Created /\ KeyOf(c) \notin SavedKeys
  BY DEF Quiet, Calling, CallQuiet, At
<1> QED
  BY <1>1, Found, QuietRows DEF IsUnique, At

(* createQueued: only the upload that holds the lock can create, and the   *)
(* others have not come further than the lock.                             *)
LEMMA CreateQuiet ==
    ASSUME NEW c \in Clients, Inv, Quiet, CreateQueued(c), UNCHANGED runner
    PROVE  Quiet'
<1>1. /\ calls[c] # None /\ calls[c].at = "stored" /\ c \in Users
      /\ phase = "initial" /\ holder[Image] = c /\ ~Created /\ objects = {Image} /\ keys = {}
      /\ calls[c].image = Image /\ calls[c].key = KeyOf(c) /\ calls[c].owner = EmployeeOf(c)
  <2>1. calls[c] # None /\ calls[c].at = "stored"
    BY DEF CreateQueued, At
  <2> QED
    BY <2>1, Found DEF Quiet, Calling, CallQuiet, OneRow, Inside
<1>2. /\ UNCHANGED <<case, phase, responses, before, errors, objects, executing, completing>>
      /\ \A d : KeyOf(d)' = KeyOf(d) /\ EmployeeOf(d)' = EmployeeOf(d)
      /\ Users' = Users
  BY DEF CreateQueued, runner, extraction, KeyOf, EmployeeOf, Users
<1>3. Len(receipts) = 0 /\ receipts = <<>> /\ jobs = <<>> /\ audit = <<>> /\ images = <<>>
  <2>1. Len(receipts) = 0
    BY <1>1 DEF Quiet, OneRow, Created
  <2>2. Len(jobs) = 0 /\ Len(audit) = 0 /\ images = <<>>
    BY <1>1, <2>1 DEF Inv, RowsOK, Quiet, OneRow
  <2>3. receipts = <<>> /\ jobs = <<>> /\ audit = <<>>
    BY <2>1, <2>2, EmptySeq DEF Inv, RowsOK, Quiet, OneRow
  <2> QED
    BY <2>1, <2>2, <2>3
<1>4. executing = {} /\ completing = {}
  <2>1. Ids = {}
    BY <1>1, QuietRows
  <2> QED
    BY <2>1 DEF Inv, ExtractionOK, ClaimOK, ResultOK
<1>5. /\ images' = <<Image>> /\ receipts' = <<NewReceipt(EmployeeOf(c))>>
      /\ jobs' = <<NewJob>> /\ audit' = << <<"UPLOADED">> >>
      /\ keys' = KeysOf(c)
  BY <1>1, <1>3 DEF CreateQueued, KeysOf
<1>6. Created' /\ Owner' = EmployeeOf(c) /\ jobs'[1] = NewJob /\ receipts'[1].status = None
      /\ audit'[1] = <<"UPLOADED">> /\ Flagged' = FALSE
  BY <1>5 DEF Created, Owner, NewReceipt, Flagged, NewJob
<1>7. /\ \A d \in Clients \ {c} : calls'[d] = calls[d]
      /\ calls'[c].at = "answered" /\ calls'[c].image = Image /\ calls'[c].key = KeyOf(c)
      /\ calls'[c].answer.status = 202 /\ calls'[c].answer.receipt = 1
  <2>1. PICK answer : answer = [status |-> 202, receipt |-> Len(receipts) + 1, replay |-> FALSE]
    OBVIOUS
  <2>2. PICK call : call = calls[c]
    OBVIOUS
  <2>3. calls' = [calls EXCEPT ![c] =
                    [call EXCEPT !.at = "answered", !.snapshot = None, !.answer = answer]]
    BY <2>1, <2>2 DEF CreateQueued, Respond
  <2>4. DOMAIN calls = Clients /\ DOMAIN call = CallFields
    BY <1>1, <2>2 DEF Inv, CallsOK, CallOK
  <2>5. answer.status = 202 /\ answer.receipt = 1
    BY <1>3, <2>1
  <2> QED
    BY <1>1, <2>2, <2>3, <2>4, <2>5 DEF CallFields
<1>8. \A d \in Clients \ {c} : Calling(d) =>
         calls[d].at \in {"received", "keyUnknown", "waiting"}
  BY <1>1 DEF Quiet, CallQuiet, Inside
<1>9. Creator(c)'
  <2>1. \A d \in Users \ {c} : calls'[d] = calls[d] /\ calls[d].at # "answered"
    <3>1. ASSUME NEW d \in Users \ {c} PROVE calls'[d] = calls[d] /\ calls[d].at # "answered"
      <4>1. d \in Clients \ {c}
        BY <3>1 DEF Inv, PlanOK
      <4>2. calls'[d] = calls[d]
        BY <1>7, <4>1
      <4>3. Calling(d)
        BY <1>1 DEF Calling, Phases
      <4> QED
        BY <1>8, <4>1, <4>2, <4>3
    <3> QED
      BY <3>1
  <2> QED
    <3>1. c \in Users' /\ Owner' = EmployeeOf(c)' /\ keys' = KeysOf(c)' /\ phase' = "initial"
      BY <1>1, <1>2, <1>5, <1>6 DEF KeysOf
    <3>2. Answered(c)' /\ FirstAnswer(c)'.status = 202 /\ FirstAnswer(c)'.receipt = 1
      BY <1>7, <3>1 DEF Answered, FirstAnswer
    <3>3. \A d \in Users' \ {c} : ~Answered(d)'
      BY <1>2, <2>1, <3>1 DEF Answered
    <3> QED
      BY <3>1, <3>2, <3>3 DEF Creator
<1>10. OneRow'
  <2>1. DOMAIN holder' = Images
    BY DEF CreateQueued, Respond, Unlock
  <2>2. <<"UPLOADED">> \in Seq(AuditActions)
    BY DEF AuditActions
  <2>3. audit' \in Seq(Seq(AuditActions)) /\ Len(audit') = Len(receipts')
    BY <1>5, <2>2
  <2> QED
    BY <1>1, <1>2, <1>5, <1>6, <1>9, <2>1, <2>3 DEF OneRow, Created
<1>11. JobQuiet' /\ ReceiptQuiet'
  BY <1>2, <1>4, <1>6 DEF JobQuiet, ReceiptQuiet, NewJob
<1>12. AuditQuiet'
  <2>1. PICK events : events = <<"UPLOADED">>
    OBVIOUS
  <2>2. ToSet(events) = {"UPLOADED"} /\ Len(events) = 1
    BY <2>1 DEF ToSet
  <2>3. EventsDue' = {"UPLOADED"} /\ jobs'[1].status = "QUEUED"
    BY <1>6 DEF EventsDue, NewJob
  <2> QED
    BY <1>6, <2>1, <2>2, <2>3 DEF AuditQuiet
<1>13. ASSUME NEW d \in Clients, Calling(d)' PROVE CallQuiet(d)'
  <2>1. CASE d = c
    BY <1>1, <1>2, <1>6, <1>7, <2>1 DEF CallQuiet, Inside
  <2>2. CASE d # c
    <3>1. Calling(d) /\ calls'[d] = calls[d]
      BY <1>2, <1>7, <1>13, <2>2 DEF Calling
    <3> QED
      BY <1>1, <1>2, <1>8, <2>2, <3>1 DEF Quiet, CallQuiet, Inside
  <2> QED
    BY <2>1, <2>2
<1>14. PhaseQuiet'
  BY <1>1, <1>2 DEF Quiet, PhaseQuiet
<1> QED
  BY <1>2, <1>4, <1>10, <1>11, <1>12, <1>13, <1>14 DEF Quiet
-----------------------------------------------------------------------------
(* A commit that rewrites the job: before the second phase, with a flag    *)
(* that is only ever set, and that in the first phase; the snapshots taken *)
(* before it are out of date.                                              *)
Writing ==
    /\ Inv /\ Quiet /\ Created
    /\ phase \notin {"after-completion", "verifying", "verified"}
    /\ UNCHANGED <<images, keys, objects, runner>>
    /\ Len(receipts') = 1 /\ Owner' = Owner
    /\ audit' \in Seq(Seq(AuditActions)) /\ Len(audit') = 1
    /\ jobs'[1].version = jobs[1].version + 1
    /\ Flagged => Flagged'
    /\ phase = "initial" \/ Flagged' = Flagged
    /\ JobQuiet' /\ ReceiptQuiet' /\ AuditQuiet'
    /\ completing' \subseteq completing

LEMMA WritingFacts ==
    ASSUME Writing
    PROVE  /\ Created' /\ Ids = {1} /\ Users' = Users
           /\ SavedKeys' = SavedKeys /\ ExpectDuplicate' = ExpectDuplicate
           /\ \A d : EmployeeOf(d)' = EmployeeOf(d) /\ KeyOf(d)' = KeyOf(d)
                     /\ KeysOf(d)' = KeysOf(d)
           /\ \A a, d : AsExpected(a, d) => AsExpected(a, d)'
           /\ \A t : Fresh(t) => Fresh(t)'
<1>1. /\ Created' /\ Ids = {1} /\ Users' = Users
      /\ SavedKeys' = SavedKeys /\ ExpectDuplicate' = ExpectDuplicate
  BY QuietRows DEF Writing, Created, Users, SavedKeys, ExpectDuplicate, runner
<1>2. \A d : EmployeeOf(d)' = EmployeeOf(d) /\ KeyOf(d)' = KeyOf(d) /\ KeysOf(d)' = KeysOf(d)
  BY DEF Writing, runner, EmployeeOf, KeyOf, KeysOf
<1>3. \A a, d : AsExpected(a, d) => AsExpected(a, d)'
  BY <1>1, <1>2 DEF Writing, AsExpected
<1>4. jobs[1].version \in Nat
  BY QuietRows DEF Writing, Job
<1>5. ASSUME NEW t, Fresh(t) PROVE Fresh(t)'
  BY <1>4, <1>5 DEF Fresh, Writing
<1> QED
  BY <1>1, <1>2, <1>3, <1>5

(* Every call stands still, but for one that commits its mark.             *)
Marks(d) ==
    /\ phase = "initial" /\ calls[d].at = "marking"
    /\ calls'[d].at = "answered" /\ calls'[d].image = Image /\ calls'[d].key = KeyOf(d)
    /\ AsExpected(calls[d].answer, d)'

Stands(d) == calls'[d] = calls[d] /\ (holder[Image] = d => holder'[Image] = d)

LEMMA WriteKeepsQuiet ==
    ASSUME Writing, DOMAIN holder' = Images, \A d \in Clients : Stands(d) \/ Marks(d)
    PROVE  Quiet'
<1>1. Inv /\ Quiet /\ Created /\ CaseOK
      /\ UNCHANGED <<images, keys, objects, case, phase, responses, before, errors>>
  BY CaseFacts DEF Writing, runner
<1>2. PICK c0 \in Users : Creator(c0)
  BY <1>1 DEF Quiet, OneRow
<1>3. Creator(c0)'
  <2>1. c0 \in Users' /\ Owner' = EmployeeOf(c0)' /\ keys' = KeysOf(c0)'
    BY <1>1, <1>2, WritingFacts DEF Creator, Writing
  <2>2. CASE phase = "initial"
    <3>1. PICK answer : answer = [d \in Users |-> calls'[d].answer]
      OBVIOUS
    <3>2. calls'[c0] = calls[c0] /\ calls[c0].at = "answered"
          /\ calls[c0].answer.status = 202 /\ calls[c0].answer.receipt = 1
      BY <1>1, <1>2, <2>2 DEF Creator, Answered, FirstAnswer, Stands, Marks, CaseOK
    <3>3. ASSUME NEW d \in Users \ {c0}, calls'[d].at = "answered"
          PROVE  AsExpected(answer[d], d)'
      <4>1. PICK a : a = answer[d]
        OBVIOUS
      <4>2. d \in Clients /\ a = calls'[d].answer
        BY <1>1, <3>1, <4>1 DEF CaseOK
      <4>3. CASE Stands(d)
        <5>1. AsExpected(a, d)
          BY <1>2, <2>2, <3>3, <4>2, <4>3 DEF Creator, Answered, FirstAnswer, Stands
        <5> QED
          BY <4>1, <5>1, WritingFacts
      <4>4. CASE Marks(d)
        <5>1. AsExpected(a, d)'
          BY <4>2, <4>4 DEF Marks
        <5> QED
          BY <4>1, <5>1
      <4> QED
        BY <4>2, <4>3, <4>4
    <3>4. Answered(c0)' /\ FirstAnswer(c0)'.status = 202 /\ FirstAnswer(c0)'.receipt = 1
      BY <1>1, <2>2, <3>2 DEF Answered, FirstAnswer
    <3>5. \A d \in Users' \ {c0} : Answered(d)' => AsExpected(FirstAnswer(d), d)'
      BY <1>1, <2>2, <3>1, <3>3, WritingFacts DEF Answered, FirstAnswer
    <3> QED
      BY <2>1, <3>4, <3>5 DEF Creator
  <2>3. CASE phase # "initial"
    <3>1. PICK r : r = responses["initial"]
      OBVIOUS
    <3>2. r[c0].status = 202 /\ r[c0].receipt = 1 /\ \A d \in Users \ {c0} : AsExpected(r[d], d)
      BY <1>2, <2>3, <3>1 DEF Creator, Answered, FirstAnswer
    <3>3. \A d \in Users \ {c0} : AsExpected(r[d], d)'
      BY <3>2, WritingFacts
    <3>4. r = responses'["initial"] /\ phase' # "initial" /\ Users' = Users
      BY <1>1, <2>3, <3>1, WritingFacts
    <3> QED
      BY <2>1, <3>2, <3>3, <3>4 DEF Creator, Answered, FirstAnswer
  <2> QED
    BY <2>2, <2>3
<1>4. OneRow'
  BY <1>1, <1>2, <1>3, WritingFacts DEF Quiet, OneRow, Writing, Creator
<1>5. \A t \in completing' : Fresh(t)'
  BY WritingFacts DEF Writing, Quiet
<1>6. ASSUME NEW d \in Clients, Calling(d)' PROVE CallQuiet(d)'
  <2>1. CASE Marks(d)
    BY <1>1, <2>1, WritingFacts DEF Marks, CallQuiet, Inside
  <2>2. CASE Stands(d)
    <3>1. PICK call : call = calls[d]
      OBVIOUS
    <3>2. Calling(d) /\ calls'[d] = call
      BY <1>1, <1>6, <2>2, <3>1, WritingFacts DEF Stands, Calling
    <3>3. CallQuiet(d)
      BY <1>1, <3>2 DEF Quiet
    <3>4. call.at = "marking" => Fresh(call.snapshot)'
      BY <3>1, <3>3, WritingFacts DEF CallQuiet
    <3> QED
      BY <1>1, <2>2, <3>1, <3>2, <3>3, <3>4, WritingFacts DEF Stands, CallQuiet, Inside, Writing
  <2> QED
    BY <2>1, <2>2
<1>7. PhaseQuiet'
  BY <1>1, WritingFacts DEF Quiet, PhaseQuiet, Writing
<1> QED
  BY <1>4, <1>5, <1>6, <1>7 DEF Quiet, Writing
-----------------------------------------------------------------------------
(* One more event in a history: which there are, and where.                *)
LEMMA Appended ==
    ASSUME NEW S, NEW s \in Seq(S), NEW e \in S
    PROVE  /\ Append(s, e) \in Seq(S)
           /\ Len(s) \in Nat /\ Len(Append(s, e)) = Len(s) + 1
           /\ ToSet(Append(s, e)) = ToSet(s) \cup {e}
           /\ \A x : {k \in DOMAIN Append(s, e) : Append(s, e)[k] = x}
                     = {k \in DOMAIN s : s[k] = x}
                          \cup (IF x = e THEN {Len(s) + 1} ELSE {})
<1>1. PICK t : t = Append(s, e)
  OBVIOUS
<1>2. /\ t \in Seq(S) /\ Len(t) = Len(s) + 1 /\ Len(s) \in Nat
      /\ \A k \in 1..Len(s) : t[k] = s[k]
      /\ t[Len(s) + 1] = e
  BY <1>1, AppendProperties, LenProperties
<1>3. DOMAIN s = 1..Len(s) /\ DOMAIN t = 1..(Len(s) + 1)
  BY <1>2, LenProperties
<1>4. DOMAIN t = DOMAIN s \cup {Len(s) + 1}
  BY <1>2, <1>3
<1>5. ToSet(t) = ToSet(s) \cup {e}
  <2>1. \A x : x \in ToSet(t) <=> \E k \in DOMAIN t : t[k] = x
    BY <1>3, <1>2 DEF ToSet
  <2>2. \A x : x \in ToSet(s) <=> \E k \in DOMAIN s : s[k] = x
    BY <1>3, <1>2 DEF ToSet
  <2> QED
    BY <1>2, <1>3, <1>4, <2>1, <2>2
<1>6. \A x : {k \in DOMAIN t : t[k] = x}
                = {k \in DOMAIN s : s[k] = x} \cup (IF x = e THEN {Len(s) + 1} ELSE {})
  BY <1>2, <1>3, <1>4
<1> QED
  BY <1>1, <1>2, <1>5, <1>6

LEMMA AppendedTwice ==
    ASSUME NEW S, NEW s \in Seq(S), NEW d \in S, NEW e \in S
    PROVE  s \o <<d, e>> = Append(Append(s, d), e)
<1>1. PICK two, t, u : two = <<d, e>> /\ t = Append(s, d) /\ u = Append(t, e)
  OBVIOUS
<1>2. two \in Seq(S) /\ Len(two) = 2 /\ two[1] = d /\ two[2] = e
  BY <1>1
<1>3. /\ t \in Seq(S) /\ u \in Seq(S) /\ Len(s) \in Nat
      /\ Len(t) = Len(s) + 1 /\ Len(u) = Len(s) + 2
      /\ \A i \in 1..Len(s) : t[i] = s[i]
      /\ t[Len(s) + 1] = d
      /\ \A i \in 1..Len(t) : u[i] = t[i]
      /\ u[Len(t) + 1] = e
  BY <1>1, AppendProperties, LenProperties
<1>4. \A i \in 1..(Len(s) + 2) :
         u[i] = IF i <= Len(s) THEN s[i] ELSE IF i = Len(s) + 1 THEN d ELSE e
  BY <1>3
<1>5. /\ s \o two \in Seq(S) /\ Len(s \o two) = Len(s) + 2
      /\ \A i \in 1..(Len(s) + 2) :
            (s \o two)[i] = IF i <= Len(s) THEN s[i] ELSE two[i - Len(s)]
  <2>1. PICK n : n = Len(two)
    OBVIOUS
  <2>2. /\ s \o two \in Seq(S) /\ Len(s \o two) = Len(s) + n
        /\ \A i \in 1..(Len(s) + n) :
              (s \o two)[i] = IF i <= Len(s) THEN s[i] ELSE two[i - Len(s)]
    BY <1>2, <2>1, ConcatProperties
  <2>3. n = 2
    BY <1>2, <2>1
  <2> QED
    BY <2>2, <2>3
<1>6. \A i \in 1..(Len(s) + 2) : (s \o two)[i] = u[i]
  BY <1>2, <1>3, <1>4, <1>5
<1> QED
  BY <1>1, <1>3, <1>5, <1>6, SeqEqual

(* The history of the one receipt, before and after it is rewritten.       *)
LEMMA HistoryType ==
    ASSUME Quiet, Created
    PROVE  audit[1] \in Seq(AuditActions)
<1>1. PICK Histories : Histories = Seq(AuditActions)
  OBVIOUS
<1>2. audit \in Seq(Histories) /\ 1 \in 1..Len(audit)
  BY <1>1 DEF Quiet, OneRow, Created
<1> QED
  BY <1>1, <1>2, ElementOfSeq

LEMMA HistoryReplaced ==
    ASSUME Quiet, Created, NEW t \in Seq(AuditActions), audit' = [audit EXCEPT ![1] = t]
    PROVE  /\ audit' \in Seq(Seq(AuditActions)) /\ Len(audit') = 1 /\ audit'[1] = t
           /\ DOMAIN t = 1..Len(t) /\ DOMAIN audit[1] = 1..Len(audit[1])
<1>1. PICK Histories : Histories = Seq(AuditActions)
  OBVIOUS
<1>2. audit \in Seq(Histories) /\ Len(audit) = 1 /\ 1 \in 1..Len(audit) /\ t \in Histories
  BY <1>1 DEF Quiet, OneRow, Created
<1>3. audit' \in Seq(Histories) /\ Len(audit') = 1 /\ audit'[1] = t
  BY <1>2, ExceptSeq
<1> QED
  BY <1>1, <1>3, HistoryType, LenProperties

(* The history of the one receipt grows by an event.                       *)
LEMMA EventAdded ==
    ASSUME Quiet, Created, NEW event \in AuditActions,
           audit' = [audit EXCEPT ![1] = Append(@, event)]
    PROVE  /\ audit' \in Seq(Seq(AuditActions)) /\ Len(audit') = 1
           /\ Len(audit[1]) \in Nat /\ Len(audit'[1]) = Len(audit[1]) + 1
           /\ ToSet(audit'[1]) = ToSet(audit[1]) \cup {event}
           /\ Claims' = Claims \cup (IF event = "EXTRACTION_JOB_CLAIMED"
                                     THEN {Len(audit[1]) + 1} ELSE {})
           /\ DOMAIN audit'[1] = 1..(Len(audit[1]) + 1)
           /\ DOMAIN audit[1] = 1..Len(audit[1])
<1>1. PICK s : s = audit[1] /\ s \in Seq(AuditActions)
  BY HistoryType
<1>2. PICK t : t = Append(s, event) /\ t \in Seq(AuditActions)
  BY <1>1, Appended
<1>3. audit' = [audit EXCEPT ![1] = t]
  BY <1>1, <1>2
<1>4. /\ audit' \in Seq(Seq(AuditActions)) /\ Len(audit') = 1 /\ audit'[1] = t
      /\ DOMAIN t = 1..Len(t) /\ DOMAIN s = 1..Len(s)
  BY <1>1, <1>2, <1>3, HistoryReplaced
<1>5. /\ Len(s) \in Nat /\ Len(t) = Len(s) + 1 /\ ToSet(t) = ToSet(s) \cup {event}
      /\ {k \in DOMAIN t : t[k] = "EXTRACTION_JOB_CLAIMED"}
            = {k \in DOMAIN s : s[k] = "EXTRACTION_JOB_CLAIMED"}
                 \cup (IF "EXTRACTION_JOB_CLAIMED" = event THEN {Len(s) + 1} ELSE {})
  BY <1>1, <1>2, Appended
<1> QED
  BY <1>1, <1>4, <1>5 DEF Claims

(* The two events of a completed extraction.                               *)
LEMMA ResultAdded ==
    ASSUME Quiet, Created,
           audit' = [audit EXCEPT ![1] = @ \o <<"EXTRACTION_COMPLETED", "VALIDATION_COMPLETED">>]
    PROVE  /\ audit' \in Seq(Seq(AuditActions)) /\ Len(audit') = 1
           /\ Len(audit[1]) \in Nat /\ Len(audit'[1]) = Len(audit[1]) + 2
           /\ ToSet(audit'[1]) =
                 ToSet(audit[1]) \cup {"EXTRACTION_COMPLETED", "VALIDATION_COMPLETED"}
           /\ Claims' = Claims
           /\ DOMAIN audit'[1] = 1..(Len(audit[1]) + 2)
           /\ DOMAIN audit[1] = 1..Len(audit[1])
<1>1. PICK s : s = audit[1] /\ s \in Seq(AuditActions)
  BY HistoryType
<1>2. PICK d, e : d = "EXTRACTION_COMPLETED" /\ e = "VALIDATION_COMPLETED"
  OBVIOUS
<1>3. d \in AuditActions /\ e \in AuditActions /\ d # "EXTRACTION_JOB_CLAIMED"
      /\ e # "EXTRACTION_JOB_CLAIMED"
  BY <1>2 DEF AuditActions
<1>4. PICK t : t = Append(s, d) /\ t \in Seq(AuditActions)
  BY <1>1, <1>3, Appended
<1>5. PICK u : u = Append(t, e) /\ u \in Seq(AuditActions)
  BY <1>3, <1>4, Appended
<1>6. audit' = [audit EXCEPT ![1] = u]
  <2>1. s \o <<d, e>> = u
    BY <1>1, <1>3, <1>4, <1>5, AppendedTwice
  <2> QED
    BY <1>1, <1>2, <2>1
<1>7. /\ audit' \in Seq(Seq(AuditActions)) /\ Len(audit') = 1 /\ audit'[1] = u
      /\ DOMAIN u = 1..Len(u) /\ DOMAIN s = 1..Len(s)
  BY <1>1, <1>5, <1>6, HistoryReplaced
<1>8. /\ Len(s) \in Nat /\ Len(t) = Len(s) + 1 /\ ToSet(t) = ToSet(s) \cup {d}
      /\ {k \in DOMAIN t : t[k] = "EXTRACTION_JOB_CLAIMED"}
            = {k \in DOMAIN s : s[k] = "EXTRACTION_JOB_CLAIMED"}
  BY <1>1, <1>3, <1>4, Appended
<1>9. /\ Len(u) = Len(t) + 1 /\ ToSet(u) = ToSet(t) \cup {e}
      /\ {k \in DOMAIN u : u[k] = "EXTRACTION_JOB_CLAIMED"}
            = {k \in DOMAIN t : t[k] = "EXTRACTION_JOB_CLAIMED"}
  <2>1. /\ Len(Append(t, e)) = Len(t) + 1 /\ ToSet(Append(t, e)) = ToSet(t) \cup {e}
        /\ \A x : {k \in DOMAIN Append(t, e) : Append(t, e)[k] = x}
                  = {k \in DOMAIN t : t[k] = x} \cup (IF x = e THEN {Len(t) + 1} ELSE {})
    <3>1. t \in Seq(AuditActions) /\ e \in AuditActions
      BY <1>3, <1>4
    <3> QED
      BY <3>1, Appended
  <2> QED
    BY <1>3, <1>5, <2>1
<1>10. /\ Len(u) = Len(s) + 2 /\ ToSet(u) = ToSet(s) \cup {d, e}
       /\ {k \in DOMAIN u : u[k] = "EXTRACTION_JOB_CLAIMED"}
            = {k \in DOMAIN s : s[k] = "EXTRACTION_JOB_CLAIMED"}
  BY <1>8, <1>9
<1>11. Claims' = Claims
  BY <1>1, <1>7, <1>10 DEF Claims
<1> QED
  BY <1>1, <1>2, <1>7, <1>8, <1>10, <1>11
-----------------------------------------------------------------------------
(* The extraction.  A queued job is claimed once.                          *)
LEMMA ClaimQuiet ==
    ASSUME Inv, Quiet, NEW i \in Ids, Claim(i), UNCHANGED runner
    PROVE  Quiet'
<1>1. i = 1 /\ Created /\ jobs[1] \in Job /\ JobQuiet /\ ReceiptQuiet /\ AuditQuiet
  <2>1. i = 1 /\ Created
    BY QuietRows
  <2> QED
    BY <2>1, QuietRows DEF Quiet
<1>2. jobs[1].status = "QUEUED" /\ jobs[1].attemptCount = 0 /\ 1 \notin executing
  BY <1>1 DEF Claim, IsClaimable, JobQuiet
<1>3. PICK w : jobs' = [jobs EXCEPT ![1] =
                           Saved(ClaimJob(jobs[1], w, jobs[1].attemptCount + 1))]
  BY <1>1 DEF Claim
<1>4. PICK job : job = Saved(ClaimJob(jobs[1], w, jobs[1].attemptCount + 1))
  OBVIOUS
<1>5. /\ job.status = "PROCESSING" /\ job.attemptCount = 1
      /\ job.version = jobs[1].version + 1
      /\ job.duplicateDetected = jobs[1].duplicateDetected
  BY <1>1, <1>2, <1>4 DEF Job, ClaimJob, Saved
<1>6. jobs'[1] = job
  <2>1. jobs \in Seq(Job) /\ 1 \in 1..Len(jobs)
    BY <1>1, IdsPlaces DEF Inv, RowsOK
  <2> QED
    BY <1>3, <1>4, <2>1, LenProperties
<1>7. /\ UNCHANGED <<images, receipts, keys, objects, holder, calls, completing, runner>>
      /\ executing' = executing \cup {1}
      /\ audit' = [audit EXCEPT ![1] = Append(@, "EXTRACTION_JOB_CLAIMED")]
  BY <1>1 DEF Claim
<1>8. Flagged' = Flagged /\ ExpectDuplicate' = ExpectDuplicate /\ Owner' = Owner
      /\ jobs[1].version + 1 = jobs'[1].version
  BY <1>5, <1>6, <1>7 DEF Flagged, ExpectDuplicate, Owner, runner
<1>9. JobQuiet' /\ ReceiptQuiet'
  BY <1>1, <1>2, <1>5, <1>6, <1>7, <1>8 DEF JobQuiet, ReceiptQuiet
<1>10. /\ audit' \in Seq(Seq(AuditActions)) /\ Len(audit') = 1
       /\ Len(audit[1]) \in Nat /\ Len(audit'[1]) = Len(audit[1]) + 1
       /\ ToSet(audit'[1]) = ToSet(audit[1]) \cup {"EXTRACTION_JOB_CLAIMED"}
       /\ Claims' = Claims \cup {Len(audit[1]) + 1}
       /\ DOMAIN audit'[1] = 1..(Len(audit[1]) + 1)
       /\ DOMAIN audit[1] = 1..Len(audit[1])
  <2>1. PICK event : event = "EXTRACTION_JOB_CLAIMED" /\ event \in AuditActions
    BY DEF AuditActions
  <2> QED
    BY <1>1, <1>7, <2>1, EventAdded
<1>11. AuditQuiet'
  <2>1. Claims = {}
    <3>1. "EXTRACTION_JOB_CLAIMED" \notin ToSet(audit[1])
      BY <1>1, <1>2 DEF AuditQuiet, EventsDue
    <3> QED
      BY <1>10, <3>1 DEF Claims, ToSet
  <2>2. EventsDue' = EventsDue \cup {"EXTRACTION_JOB_CLAIMED"}
    BY <1>2, <1>5, <1>6, <1>8 DEF EventsDue
  <2>3. \E k \in DOMAIN audit'[1] : Claims' = {k}
    <3>1. PICK n : n = Len(audit[1]) + 1
      OBVIOUS
    <3>2. Claims' = {n} /\ n \in DOMAIN audit'[1]
      BY <1>10, <2>1, <3>1
    <3> QED
      BY <3>2
  <2> QED
    BY <1>1, <1>2, <1>5, <1>6, <1>8, <1>10, <2>2, <2>3 DEF AuditQuiet
<1>12. phase \notin {"after-completion", "verifying", "verified"}
  BY <1>2 DEF Quiet, PhaseQuiet
<1>13. Writing
  BY <1>1, <1>7, <1>8, <1>9, <1>10, <1>11, <1>12 DEF Writing, Created
<1> QED
  BY <1>7, <1>13, WriteKeepsQuiet DEF Stands, Quiet, OneRow

(* Nothing written, nobody moves; new snapshots are current ones.          *)
LEMMA StandingQuiet ==
    ASSUME Inv, Quiet,
           UNCHANGED <<rows, objects, calls, executing, case, phase, responses, before, errors>>,
           DOMAIN holder' = Images,
           \A d \in Clients : holder[Image] = d => holder'[Image] = d,
           \A t \in completing' : Fresh(t)
    PROVE  Quiet'
<1>1. /\ Created' = Created /\ Users' = Users /\ Flagged' = Flagged
      /\ ExpectDuplicate' = ExpectDuplicate /\ Tables' = Tables /\ jobs' = jobs
  BY ExpectedSame DEF rows, Tables
<1>2. \A t \in completing' : Fresh(t)'
  BY ExpectedSame
<1>3. (Created => JobQuiet /\ ReceiptQuiet /\ AuditQuiet)'
  BY <1>1 DEF Quiet, JobQuiet, ReceiptQuiet, AuditQuiet, EventsDue, Claims, rows
<1>4. \A d \in Clients : Calling(d)' => CallQuiet(d)'
  BY <1>1, QuietKept DEF Calling
<1>5. OneRow'
  <2>1. (\E c0 \in Users : Creator(c0)) => (\E c0 \in Users : Creator(c0))'
    BY <1>1, CreatorKept
  <2> QED
    BY <1>1, <2>1 DEF Quiet, OneRow, rows, Created
<1>6. PhaseQuiet'
  <2>1. PICK r : r = responses
    OBVIOUS
  <2>2. phase \in {"verifying", "verified"} =>
           \A d \in Users : AsExpected(r["after-completion"][d], d)'
    BY <1>1, <2>1, ExpectedSame DEF Quiet, PhaseQuiet
  <2> QED
    BY <1>1, <2>1, <2>2 DEF Quiet, PhaseQuiet
<1> QED
  BY <1>2, <1>3, <1>4, <1>5, <1>6 DEF Quiet

LEMMA OpenCompleteQuiet ==
    ASSUME Inv, Quiet, NEW i \in Ids, OpenComplete(i), UNCHANGED runner
    PROVE  Quiet'
<1>1. i = 1 /\ Created /\ jobs[1] \in Job
  BY QuietRows
<1>2. PICK t : t = [of |-> 1, receipt |-> receipts[1], job |-> jobs[1]]
  OBVIOUS
<1>3. Fresh(t)
  BY <1>1, <1>2 DEF Fresh, Job
<1>4. /\ completing' = completing \cup {t}
      /\ UNCHANGED <<rows, objects, holder, calls, executing, case, phase, responses,
                     before, errors>>
  BY <1>1, <1>2 DEF OpenComplete, runner
<1> QED
  BY <1>3, <1>4, StandingQuiet DEF Quiet, OneRow

(* The fake extractor's receipt is approved unless it is a duplicate.      *)
LEMMA FakeRouted ==
    ASSUME NEW flag \in BOOLEAN
    PROVE  /\ Route(FakeData, Validate(FakeData, flag)) =
                 IF flag THEN "NEEDS_REVIEW" ELSE "AUTO_APPROVED"
           /\ MarkedDuplicate(Validate(FakeData, flag)) <=> flag
<1>1. Route(FakeData, Validate(FakeData, FALSE)) = "AUTO_APPROVED"
  BY FakeDataAssumption, CleanAssumption, ApprovedIffApprovable
<1>2. Route(FakeData, Validate(FakeData, TRUE)) = "NEEDS_REVIEW"
  BY <1>1, DuplicateTightensAlways DEF DuplicateTightens
<1>3. MarkedDuplicate(Validate(FakeData, flag)) <=> flag
  BY MarkedAsTold
<1>4. CASE flag = TRUE
  BY <1>2, <1>3, <1>4
<1>5. CASE flag = FALSE
  BY <1>1, <1>3, <1>5
<1> QED
  BY <1>4, <1>5

(* The result goes by the flag of the snapshot, which is the current one.  *)
LEMMA CompleteQuiet ==
    ASSUME Inv, Quiet, NEW t \in completing, Complete(t), UNCHANGED runner
    PROVE  Quiet'
<1>1. /\ SnapshotOK(t) /\ t.of \in executing /\ jobs[t.of].status = "PROCESSING"
      /\ t.of \in Ids /\ Fresh(t)
  BY DEF Inv, ExtractionOK, ResultOK, ClaimOK, Quiet
<1>2. t.of = 1 /\ Created /\ jobs[1] \in Job /\ receipts[1] \in Receipt
      /\ JobQuiet /\ ReceiptQuiet /\ AuditQuiet
  <2>1. t.of = 1 /\ Created
    BY <1>1, QuietRows
  <2> QED
    BY <2>1, QuietRows DEF Quiet
<1>3. t.job = jobs[1] /\ t.receipt = receipts[1] /\ jobs[1].status = "PROCESSING"
  BY <1>1, <1>2 DEF Complete, IsFresh, SnapshotOK, Fresh
<1>4. PICK flag, results, next :
         /\ flag = jobs[1].duplicateDetected
         /\ results = Validate(FakeData, flag) /\ next = Route(FakeData, results)
  OBVIOUS
<1>5. /\ flag \in BOOLEAN /\ (flag <=> Flagged)
      /\ next = IF flag THEN "NEEDS_REVIEW" ELSE "AUTO_APPROVED"
      /\ MarkedDuplicate(results) <=> flag
  BY <1>2, <1>4, FakeRouted DEF Job, Flagged
<1>6. PICK job, receipt :
         /\ job = Saved(CompleteJob(jobs[1]))
         /\ receipt = Saved(CompleteExtraction(receipts[1], FakeData, results, next))
  OBVIOUS
<1>7. /\ job.status = "COMPLETED" /\ job.attemptCount = jobs[1].attemptCount
      /\ job.version = jobs[1].version + 1 /\ job.duplicateDetected = flag
  BY <1>2, <1>4, <1>6 DEF Job, CompleteJob, Unclaimed, Saved
<1>8. /\ receipt.status = next /\ receipt.currentData = FakeData
      /\ receipt.ruleResults = results
      /\ receipt.ownerEmployeeId = receipts[1].ownerEmployeeId
  BY <1>2, <1>6 DEF Receipt, CompleteExtraction, Saved
<1>9. /\ jobs' = [jobs EXCEPT ![1] = job] /\ receipts' = [receipts EXCEPT ![1] = receipt]
      /\ audit' = [audit EXCEPT ![1] = @ \o <<"EXTRACTION_COMPLETED", "VALIDATION_COMPLETED">>]
      /\ executing' = executing \ {1} /\ completing' = completing \ {t}
      /\ UNCHANGED <<images, keys, objects, holder, calls>>
  BY <1>2, <1>3, <1>4, <1>6 DEF Complete
<1>10. jobs'[1] = job /\ receipts'[1] = receipt /\ Len(receipts') = 1
  <2>1. /\ jobs \in Seq(Job) /\ 1 \in 1..Len(jobs)
        /\ receipts \in Seq(Receipt) /\ 1 \in 1..Len(receipts) /\ Len(receipts) = 1
    BY <1>2, IdsPlaces DEF Inv, RowsOK, Created
  <2> QED
    BY <1>9, <2>1, LenProperties
<1>11. /\ Flagged' = flag /\ (Flagged' <=> Flagged) /\ Owner' = Owner
       /\ ExpectDuplicate' = ExpectDuplicate
  BY <1>5, <1>7, <1>8, <1>10 DEF Flagged, Owner, ExpectDuplicate, runner
<1>12. JobQuiet'
  BY <1>2, <1>3, <1>7, <1>9, <1>10, <1>11 DEF JobQuiet
<1>13. ReceiptQuiet'
  BY <1>5, <1>7, <1>8, <1>10, <1>11 DEF ReceiptQuiet
<1>14. /\ audit' \in Seq(Seq(AuditActions)) /\ Len(audit') = 1
       /\ Len(audit[1]) \in Nat /\ Len(audit'[1]) = Len(audit[1]) + 2
       /\ ToSet(audit'[1]) = ToSet(audit[1]) \cup {"EXTRACTION_COMPLETED", "VALIDATION_COMPLETED"}
       /\ Claims' = Claims
       /\ DOMAIN audit'[1] = 1..(Len(audit[1]) + 2)
       /\ DOMAIN audit[1] = 1..Len(audit[1])
  BY <1>2, <1>9, ResultAdded
<1>15. AuditQuiet'
  <2>1. EventsDue' = EventsDue \cup {"EXTRACTION_COMPLETED", "VALIDATION_COMPLETED"}
    BY <1>3, <1>7, <1>10, <1>11 DEF EventsDue
  <2>2. \E k \in DOMAIN audit'[1] : Claims' = {k}
    BY <1>2, <1>3, <1>14 DEF AuditQuiet
  <2>3. Len(audit'[1]) = 1 + 1 + 2 + (IF Flagged' THEN 1 ELSE 0)
    BY <1>2, <1>3, <1>11, <1>14 DEF AuditQuiet
  <2> QED
    BY <1>2, <1>7, <1>10, <1>14, <2>1, <2>2, <2>3 DEF AuditQuiet
<1>16. phase \notin {"after-completion", "verifying", "verified"}
  BY <1>3 DEF Quiet, PhaseQuiet
<1>17. Flagged' = Flagged
  BY <1>4, <1>11 DEF Flagged
<1>18. Writing
  BY <1>2, <1>7, <1>9, <1>10, <1>11, <1>12, <1>13, <1>14, <1>15, <1>16, <1>17 DEF Writing
<1> QED
  BY <1>9, <1>18, WriteKeepsQuiet DEF Stands, Quiet, OneRow

(* The mark finds the flag down and the receipt as the extraction left it. *)
LEMMA MarkQuiet ==
    ASSUME Inv, Quiet, NEW c \in Clients, CommitMark(c), UNCHANGED runner
    PROVE  Quiet'
<1>1. PICK t : t = calls[c].snapshot
  OBVIOUS
<1>2. calls[c] # None /\ calls[c].at = "marking" /\ phase = "initial"
      /\ SnapshotOK(t) /\ Fresh(t) /\ ~t.job.duplicateDetected /\ ExpectDuplicate
      /\ KeyOf(c) \notin SavedKeys /\ receipts[t.of].ownerEmployeeId = calls[c].owner
      /\ calls[c].image = Image /\ calls[c].key = KeyOf(c) /\ calls[c].owner = EmployeeOf(c)
  <2>1. calls[c] # None /\ calls[c].at = "marking"
    BY DEF CommitMark, At
  <2>2. SnapshotOK(t) /\ receipts[t.of].ownerEmployeeId = calls[c].owner
    BY <1>1, <2>1 DEF Inv, CallsOK, CallOK
  <2>3. phase = "initial" /\ Fresh(t) /\ ~t.job.duplicateDetected /\ ExpectDuplicate
        /\ KeyOf(c) \notin SavedKeys
    BY <1>1, <2>1 DEF Quiet, Calling, CallQuiet
  <2> QED
    BY <2>1, <2>2, <2>3, Found
<1>3. t.of = 1 /\ Created /\ jobs[1] \in Job /\ receipts[1] \in Receipt
      /\ JobQuiet /\ ReceiptQuiet /\ AuditQuiet
  <2>1. t.of = 1 /\ Created
    BY <1>2, QuietRows DEF SnapshotOK
  <2> QED
    BY <2>1, QuietRows DEF Quiet
<1>4. t.job = jobs[1] /\ t.receipt = receipts[1] /\ ~Flagged /\ Owner = EmployeeOf(c)
  <2>1. t.job.version = jobs[1].version
    BY <1>1, <1>3 DEF CommitMark, IsFresh
  <2> QED
    BY <1>2, <1>3, <2>1 DEF SnapshotOK, Fresh, Flagged, Owner
<1>5. PICK rerouted \in BOOLEAN : rerouted <=> ~LeftAloneByDuplicate(receipts[1])
  OBVIOUS
<1>6. /\ rerouted <=> jobs[1].status = "COMPLETED"
      /\ rerouted => receipts[1].status = "AUTO_APPROVED" /\ receipts[1].currentData = FakeData
      /\ ~rerouted => receipts[1].status = None
  BY <1>3, <1>4, <1>5, BlankAssumption DEF ReceiptQuiet, LeftAloneByDuplicate, ReceiptStatuses
<1>7. PICK job, receipt :
         /\ job = Saved(MarkJobDuplicate(jobs[1]))
         /\ receipt = Saved(RevalidatedAsDuplicate(receipts[1]))
  OBVIOUS
<1>8. /\ job.status = jobs[1].status /\ job.attemptCount = jobs[1].attemptCount
      /\ job.version = jobs[1].version + 1 /\ job.duplicateDetected = TRUE
  BY <1>3, <1>7 DEF Job, MarkJobDuplicate, Saved
<1>9. rerouted => /\ receipt.status = "NEEDS_REVIEW" /\ receipt.currentData = FakeData
                  /\ MarkedDuplicate(receipt.ruleResults)
                  /\ receipt.ownerEmployeeId = receipts[1].ownerEmployeeId
  <2>1. PICK results, next :
           results = Validate(FakeData, TRUE) /\ next = Route(FakeData, results)
    OBVIOUS
  <2>2. next = "NEEDS_REVIEW" /\ MarkedDuplicate(results)
    BY <2>1, FakeRouted
  <2>3. ASSUME rerouted PROVE receipt = Saved(UpdateData(receipts[1], FakeData, results, next))
    BY <1>6, <1>7, <2>1, <2>3 DEF RevalidatedAsDuplicate, IsTerminal
  <2>4. ASSUME rerouted
        PROVE  /\ receipt.status = next /\ receipt.currentData = FakeData
               /\ receipt.ruleResults = results
               /\ receipt.ownerEmployeeId = receipts[1].ownerEmployeeId
    BY <1>3, <2>3, <2>4 DEF UpdateData, Receipt, Saved
  <2> QED
    BY <2>2, <2>4
<1>10. /\ jobs' = [jobs EXCEPT ![1] = job]
       /\ receipts' = IF rerouted THEN [receipts EXCEPT ![1] = receipt] ELSE receipts
       /\ audit' = [audit EXCEPT ![1] = Append(@, "DUPLICATE_DETECTED")]
       /\ UNCHANGED <<images, keys, objects, executing, completing>>
       /\ Respond(c, 200, 1, FALSE)
  BY <1>1, <1>3, <1>4, <1>5, <1>6, <1>7 DEF CommitMark, Existing, extraction
<1>11. /\ jobs'[1] = job /\ Len(receipts') = 1
       /\ receipts'[1] = IF rerouted THEN receipt ELSE receipts[1]
  <2>1. /\ jobs \in Seq(Job) /\ 1 \in 1..Len(jobs)
        /\ receipts \in Seq(Receipt) /\ 1 \in 1..Len(receipts) /\ Len(receipts) = 1
    BY <1>3, IdsPlaces DEF Inv, RowsOK, Created
  <2> QED
    BY <1>10, <2>1, LenProperties
<1>12. /\ Flagged' = TRUE /\ Owner' = Owner /\ ExpectDuplicate' = ExpectDuplicate
       /\ SavedKeys' = SavedKeys /\ KeyOf(c)' = KeyOf(c) /\ EmployeeOf(c)' = EmployeeOf(c)
       /\ Created'
  BY <1>8, <1>9, <1>10, <1>11
     DEF Flagged, Owner, ExpectDuplicate, SavedKeys, KeyOf, EmployeeOf, Created, runner
<1>13. JobQuiet'
  BY <1>2, <1>3, <1>8, <1>10, <1>11, <1>12 DEF JobQuiet
<1>14. ReceiptQuiet'
  BY <1>6, <1>8, <1>9, <1>11, <1>12 DEF ReceiptQuiet
<1>15. /\ audit' \in Seq(Seq(AuditActions)) /\ Len(audit') = 1
       /\ Len(audit[1]) \in Nat /\ Len(audit'[1]) = Len(audit[1]) + 1
       /\ ToSet(audit'[1]) = ToSet(audit[1]) \cup {"DUPLICATE_DETECTED"}
       /\ Claims' = Claims
       /\ DOMAIN audit'[1] = 1..(Len(audit[1]) + 1)
       /\ DOMAIN audit[1] = 1..Len(audit[1])
  <2>1. PICK event : event = "DUPLICATE_DETECTED" /\ event \in AuditActions
                        /\ event # "EXTRACTION_JOB_CLAIMED"
    BY DEF AuditActions
  <2> QED
    BY <1>3, <1>10, <2>1, EventAdded
<1>16. AuditQuiet'
  <2>1. EventsDue' = EventsDue \cup {"DUPLICATE_DETECTED"}
    BY <1>4, <1>8, <1>11, <1>12 DEF EventsDue
  <2>2. jobs'[1].status # "QUEUED" => \E k \in DOMAIN audit'[1] : Claims' = {k}
    BY <1>3, <1>8, <1>11, <1>15 DEF AuditQuiet
  <2>3. Len(audit'[1]) = 1 + (IF jobs'[1].status = "QUEUED" THEN 0 ELSE 1)
                           + (IF jobs'[1].status = "COMPLETED" THEN 2 ELSE 0) + 1
    BY <1>3, <1>4, <1>8, <1>11, <1>15 DEF AuditQuiet
  <2> QED
    BY <1>3, <1>12, <1>15, <2>1, <2>2, <2>3 DEF AuditQuiet
<1>17. Writing
  BY <1>2, <1>3, <1>4, <1>8, <1>10, <1>11, <1>12, <1>13, <1>14, <1>15, <1>16
     DEF Writing, Created
<1>18. /\ \A d \in Clients \ {c} : calls'[d] = calls[d]
       /\ calls'[c].at = "answered" /\ calls'[c].image = Image /\ calls'[c].key = KeyOf(c)
       /\ calls'[c].answer.status = 200 /\ calls'[c].answer.receipt = 1
       /\ calls'[c].answer.replay = FALSE
  <2>1. PICK answer : answer = [status |-> 200, receipt |-> 1, replay |-> FALSE]
    OBVIOUS
  <2>2. PICK call : call = calls[c]
    OBVIOUS
  <2>3. calls' = [calls EXCEPT ![c] =
                    [call EXCEPT !.at = "answered", !.snapshot = None, !.answer = answer]]
    BY <1>10, <2>1, <2>2 DEF Respond
  <2>4. DOMAIN calls = Clients /\ DOMAIN call = CallFields
    BY <1>2, <2>2 DEF Inv, CallsOK, CallOK
  <2> QED
    BY <1>2, <2>1, <2>2, <2>3, <2>4 DEF CallFields
<1>19. Marks(c)
  <2>1. PICK a : a = calls'[c].answer
    OBVIOUS
  <2>2. a.replay = (KeyOf(c) \in SavedKeys)
    <3>1. a.replay = FALSE /\ (KeyOf(c) \in SavedKeys) = FALSE
      BY <1>2, <1>18, <2>1
    <3> QED
      BY <3>1
  <2>3. AsExpected(a, c)'
    BY <1>4, <1>12, <1>18, <2>1, <2>2 DEF AsExpected
  <2> QED
    BY <1>2, <1>18, <2>1, <2>3 DEF Marks
<1>20. DOMAIN holder' = Images /\ \A d \in Clients \ {c} : Stands(d)
  <2>1. Image \in Images
    BY ImagesAssumption DEF Image
  <2> QED
    BY <1>10, <1>18, <2>1 DEF Respond, Unlock, Stands
<1> QED
  BY <1>17, <1>19, <1>20, WriteKeepsQuiet

(* No lease runs out while its worker is at work.                          *)
LEMMA NothingToRecover ==
    ASSUME Inv, Quiet, NEW i \in Ids, RecoverLease(i)
    PROVE  FALSE
BY QuietRows DEF RecoverLease, Quiet, JobQuiet

LEMMA LockStepQuiet ==
    ASSUME Inv, Quiet, LockStep, UNCHANGED runner
    PROVE  Quiet'
<1>1. PICK m \in Images : LockExpires(m)
  BY DEF LockStep
<1>2. /\ UNCHANGED <<rows, objects, calls, executing, completing, case, phase, responses,
                     before, errors>>
      /\ holder[m] = Gone /\ holder' = [holder EXCEPT ![m] = None]
  BY <1>1 DEF LockExpires, extraction, runner
<1>3. DOMAIN holder = Images /\ \A t \in completing : Fresh(t)
  BY DEF Quiet, OneRow
<1>4. \A d \in Clients : holder[Image] = d => holder'[Image] = d
  BY <1>2, <1>3, GoneAssumption
<1>5. DOMAIN holder' = Images /\ \A t \in completing' : Fresh(t)
  BY <1>2, <1>3
<1> QED
  BY <1>2, <1>4, <1>5, StandingQuiet

LEMMA CallStepQuiet ==
    ASSUME Inv, Quiet, NEW c \in Clients, CallStep(c), UNCHANGED runner
    PROVE  Quiet'
<1>1. CASE CreateQueued(c)
  BY <1>1, CreateQuiet
<1>2. CASE CommitMark(c)
  BY <1>2, MarkQuiet
<1>3. CASE ConstraintViolated(c)
  BY <1>3, UniqueWhenStored DEF ConstraintViolated
<1>4. CASE Resolve(c)
  BY <1>4 DEF Resolve, At, Quiet, Calling, CallQuiet, Inside
<1>5. ASSUME \/ FindReplay(c) \/ FindProcessed(c) \/ TakeLock(c) \/ Converge(c)
             \/ FindReplayLocked(c) \/ FindSameImage(c) \/ StoreImage(c)
      PROVE  Quiet'
  <2>1. QuietMoving(c)
    BY <1>5 DEF QuietMoving, FindReplay, FindProcessed, TakeLock, Converge, FindReplayLocked,
                FindSameImage, StoreImage, At
  <2>2. QuietMoved(c)
    BY <1>5, <2>1, FindReplayQuiet, FindProcessedQuiet, TakeLockQuiet, ConvergeQuiet,
       FindReplayLockedQuiet, FindSameImageQuiet, StoreImageQuiet
  <2> QED
    BY <2>1, <2>2, MoveKeepsQuiet
<1> QED
  BY <1>1, <1>2, <1>3, <1>4, <1>5 DEF CallStep

(* A step of the service; to lose a race is beyond what is claimed.        *)
LEMMA ServiceStepQuiet ==
    ASSUME Inv, QuietInv, ServiceStep
    PROVE  QuietInv'
<1>1. ASSUME NEW race, Lose(race) PROVE QuietInv'
  BY <1>1 DEF Lose, QuietInv
<1>2. ASSUME UNCHANGED runner, races = {} PROVE Quiet
  BY <1>2 DEF QuietInv
<1>3. ASSUME (\E c \in Clients : CallStep(c)) \/ LockStep \/ ExtractionStep,
             UNCHANGED runner, races = {}
      PROVE  Quiet'
  BY <1>2, <1>3, CallStepQuiet, LockStepQuiet, ClaimQuiet, OpenCompleteQuiet, NothingToRecover,
     CompleteQuiet DEF ExtractionStep
<1> QED
  BY <1>1, <1>3 DEF ServiceStep, QuietInv, runner
-----------------------------------------------------------------------------
(* The runner leaves the tables alone.                                     *)
LEMMA RunnerQuiet ==
    ASSUME Inv, Quiet, UNCHANGED <<rows, objects, holder, extraction, case>>,
           Created => (\E c \in Users : Creator(c))',
           \A d \in Clients : Calling(d)' => CallQuiet(d)',
           PhaseQuiet'
    PROVE  Quiet'
<1>1. OneRow'
  <2>1. Created' = Created
    BY ExpectedSame
  <2> QED
    BY <2>1 DEF Quiet, OneRow, rows
<1> QED
  BY <1>1, TablesSame DEF Quiet

(* When everybody has been answered, the answers are the creator's proof.  *)
LEMMA CreatorRecorded ==
    ASSUME NEW c0, Creator(c0), UNCHANGED <<rows, case>>, phase' # "initial",
           \A d \in Users : Answered(d) /\ responses'["initial"][d] = FirstAnswer(d)
    PROVE  Creator(c0)'
<1>1. PICK r : r = responses'["initial"]
  OBVIOUS
<1>2. c0 \in Users' /\ Owner' = EmployeeOf(c0)' /\ keys' = KeysOf(c0)' /\ Users' = Users
  BY ExpectedSame DEF Creator, rows
<1>3. r[c0].status = 202 /\ r[c0].receipt = 1 /\ \A d \in Users \ {c0} : AsExpected(r[d], d)
  <2>1. \A d \in Users : r[d] = FirstAnswer(d)
    BY <1>1
  <2> QED
    BY <2>1 DEF Creator
<1>4. \A d \in Users \ {c0} : AsExpected(r[d], d)'
  BY <1>3, ExpectedSame
<1> QED
  BY <1>1, <1>2, <1>3, <1>4 DEF Creator, Answered, FirstAnswer

LEMMA StartPhaseQuiet ==
    ASSUME Inv, Quiet, NEW from, NEW to \in Phases, StartPhase(from, to)
    PROVE  \A d \in Clients : Calling(d)' => CallQuiet(d)'
<1> SUFFICES ASSUME NEW d \in Clients, Calling(d)'
             PROVE  CallQuiet(d)'
  OBVIOUS
<1>1. UNCHANGED <<rows, case>> /\ phase' = to /\ Users' = Users /\ KeyOf(d)' = KeyOf(d)
  BY ExpectedSame DEF StartPhase
<1>2. PICK call : call = [owner |-> EmployeeOf(d), key |-> KeyOf(d), image |-> Image,
                          at |-> "received", snapshot |-> None, answer |-> None]
  OBVIOUS
<1>3. calls'[d] = IF d \in Users THEN call ELSE None
  BY <1>2 DEF StartPhase
<1>4. d \in Users
  BY <1>1, <1>3 DEF Calling
<1>5. calls'[d].image = Image /\ calls'[d].key = KeyOf(d)' /\ calls'[d].at = "received"
  BY <1>1, <1>2, <1>3, <1>4
<1> QED
  BY <1>5 DEF CallQuiet, Inside

LEMMA StartInitialQuiet ==
    ASSUME Inv, Quiet, StartInitial
    PROVE  Quiet'
<1>1. /\ UNCHANGED <<rows, objects, holder, extraction, case, errors>>
      /\ phase = "planned" /\ phase' = "initial" /\ ~Created
  BY DEF StartInitial, StartPhase, Quiet, PhaseQuiet
<1>2. \A d \in Clients : Calling(d)' => CallQuiet(d)'
  BY StartPhaseQuiet DEF StartInitial, Phases
<1>3. PhaseQuiet'
  BY <1>1 DEF Quiet, PhaseQuiet
<1> QED
  BY <1>1, <1>2, <1>3, RunnerQuiet

(* The runner sees the job finished, which is to say completed.            *)
LEMMA SeeFinishedQuiet ==
    ASSUME Inv, Quiet, SeeFinished
    PROVE  Quiet'
<1>1. /\ UNCHANGED <<rows, objects, holder, extraction, case, responses, errors>>
      /\ phase = "waiting" /\ phase' = "after-completion" /\ before' = Tables
  BY DEF SeeFinished, StartPhase
<1>2. Created /\ (Flagged <=> ExpectDuplicate)
  BY <1>1 DEF Quiet, PhaseQuiet
<1>3. jobs[1].status = "COMPLETED"
  BY <1>2, QuietRows DEF SeeFinished, Finished, IsFinished, Quiet, JobQuiet
<1>4. \A d \in Clients : Calling(d)' => CallQuiet(d)'
  BY StartPhaseQuiet DEF SeeFinished, Phases
<1>5. PhaseQuiet'
  <2>1. Created' /\ (Flagged' <=> ExpectDuplicate') /\ before' = Tables'
        /\ jobs'[1].status = "COMPLETED"
    BY <1>1, <1>2, <1>3, ExpectedSame DEF Tables, rows
  <2> QED
    BY <1>1, <2>1 DEF Quiet, PhaseQuiet
<1>6. (\E c \in Users : Creator(c))'
  <2>1. PICK c0 \in Users : Creator(c0)
    BY <1>2 DEF Quiet, OneRow
  <2>2. Creator(c0)'
    BY <1>1, <2>1, CreatorRecorded DEF Answered, FirstAnswer
  <2> QED
    BY <2>2 DEF Creator
<1> QED
  BY <1>1, <1>4, <1>5, <1>6, RunnerQuiet

LEMMA DeadlineQuiet ==
    ASSUME Inv, Quiet, DeadlinePasses
    PROVE  Quiet'
<1>1. /\ UNCHANGED <<rows, objects, holder, calls, extraction, case, responses, errors>>
      /\ phase = "waiting" /\ phase' = "aborted"
  BY DEF DeadlinePasses, intakeVars
<1>2. Created /\ (Flagged <=> ExpectDuplicate)
  BY <1>1 DEF Quiet, PhaseQuiet
<1>3. \A d \in Clients : ~Calling(d)'
  BY <1>1 DEF Calling, Inv, CallsOK, CallOK, Phases
<1>4. PhaseQuiet'
  <2>1. Created' /\ (Flagged' <=> ExpectDuplicate')
    BY <1>1, <1>2, ExpectedSame
  <2> QED
    BY <1>1, <2>1 DEF Quiet, PhaseQuiet
<1>5. (\E c \in Users : Creator(c))'
  <2>1. PICK c0 \in Users : Creator(c0)
    BY <1>2 DEF Quiet, OneRow
  <2>2. Creator(c0)'
    BY <1>1, <2>1, CreatorRecorded DEF Answered, FirstAnswer
  <2> QED
    BY <2>2 DEF Creator
<1> QED
  BY <1>1, <1>3, <1>4, <1>5, RunnerQuiet

(* Where the first phase should leave a duplicate it does: the creator's   *)
(* employee has sent another, and was told that it was one.                *)
LEMMA EndInitialQuiet ==
    ASSUME Inv, Quiet, EndPhase("initial", "waiting")
    PROVE  Quiet'
<1>1. /\ UNCHANGED <<rows, objects, holder, extraction, case, errors>>
      /\ phase = "initial" /\ phase' = "waiting"
      /\ \A c \in Users : calls[c].at = "answered"
      /\ calls' = [c \in Clients |-> None]
      /\ responses' = [responses EXCEPT !["initial"] = [c \in Users |-> calls[c].answer]]
  BY DEF EndPhase, At
<1>2. CaseOK /\ DOMAIN responses = Phases
  BY CaseFacts DEF Inv, PlanOK
<1>3. Created
  <2>1. 1 \in Users /\ 1 \in Clients
    BY <1>2 DEF CaseOK, Users
  <2>2. CallQuiet(1)
    BY <1>1, <2>1 DEF Quiet, Calling, Phases
  <2> QED
    BY <1>1, <2>1, <2>2 DEF CallQuiet
<1>4. PICK c0 \in Users : Creator(c0)
  BY <1>3 DEF Quiet, OneRow
<1>5. ASSUME ExpectDuplicate PROVE Flagged
  <2>1. PICK d \in Users : d # c0 /\ EmployeeOf(d) = EmployeeOf(c0)
    BY <1>2, <1>5, Companion
  <2>2. KeyOf(d) \notin SavedKeys
    BY <1>2, <1>4, <1>5, <2>1, ExpectedIsUnsaved DEF Creator
  <2>3. AsExpected(calls[d].answer, d) /\ Owner = EmployeeOf(c0)
    BY <1>1, <1>4, <2>1 DEF Creator, Answered, FirstAnswer
  <2> QED
    BY <2>1, <2>2, <2>3 DEF AsExpected
<1>6. Flagged <=> ExpectDuplicate
  BY <1>3, <1>5 DEF Quiet, JobQuiet
<1>7. Creator(c0)'
  BY <1>1, <1>2, <1>4, CreatorRecorded DEF Answered, FirstAnswer, Phases
<1>8. \A d \in Clients : ~Calling(d)'
  BY <1>1 DEF Calling, Phases
<1>9. PhaseQuiet'
  <2>1. Created' /\ (Flagged' <=> ExpectDuplicate')
    BY <1>1, <1>3, <1>6, ExpectedSame
  <2> QED
    BY <1>1, <2>1 DEF Quiet, PhaseQuiet
<1> QED
  BY <1>1, <1>7, <1>8, <1>9, RunnerQuiet DEF Creator

LEMMA EndAfterCompletionQuiet ==
    ASSUME Inv, Quiet, EndPhase("after-completion", "verifying")
    PROVE  Quiet'
<1>1. /\ UNCHANGED <<rows, objects, holder, extraction, case, before, errors>>
      /\ phase = "after-completion" /\ phase' = "verifying"
      /\ \A c \in Users : calls[c].at = "answered"
      /\ calls' = [c \in Clients |-> None]
      /\ responses' = [responses EXCEPT !["after-completion"] = [c \in Users |-> calls[c].answer]]
  BY DEF EndPhase, At
<1>2. CaseOK /\ DOMAIN responses = Phases
  BY CaseFacts DEF Inv, PlanOK
<1>3. /\ Created /\ (Flagged <=> ExpectDuplicate)
      /\ before = Tables /\ jobs[1].status = "COMPLETED"
  BY <1>1 DEF Quiet, PhaseQuiet
<1>4. /\ responses'["initial"] = responses["initial"]
      /\ responses'["after-completion"] = [c \in Users |-> calls[c].answer]
  BY <1>1, <1>2 DEF Phases
<1>5. PICK c0 \in Users : Creator(c0)
  BY <1>3 DEF Quiet, OneRow
<1>6. Creator(c0)'
  BY <1>1, <1>4, <1>5, CreatorRecorded DEF Answered, FirstAnswer
<1>7. \A d \in Clients : ~Calling(d)'
  BY <1>1 DEF Calling, Phases
<1>8. PhaseQuiet'
  <2>1. PICK r : r = [c \in Users |-> calls[c].answer]
    OBVIOUS
  <2>2. ASSUME NEW d \in Users PROVE AsExpected(r[d], d)
    <3>1. CallQuiet(d)
      BY <1>1, <1>2, <2>2 DEF Quiet, Calling, Phases, CaseOK
    <3> QED
      BY <1>1, <2>1, <2>2, <3>1 DEF CallQuiet
  <2>3. \A d \in Users' : AsExpected(r[d], d)'
    BY <1>1, <2>2, ExpectedSame
  <2>4. /\ Created' /\ (Flagged' <=> ExpectDuplicate') /\ before' = Tables'
        /\ jobs'[1].status = "COMPLETED"
    BY <1>1, <1>3, ExpectedSame DEF Tables, rows
  <2> QED
    BY <1>1, <1>4, <2>1, <2>3, <2>4 DEF Quiet, PhaseQuiet
<1> QED
  BY <1>1, <1>6, <1>7, <1>8, RunnerQuiet DEF Creator
-----------------------------------------------------------------------------
(* check_responses finds nothing to complain of.                           *)
LEMMA NoResponseErrors ==
    ASSUME NEW p \in Phases, CaseOK, Created, before = Tables,
           NEW c0 \in Users, Owner = EmployeeOf(c0),
           \A c \in Users : IF p = "initial" /\ c = c0
                            THEN responses[p][c].status = 202 /\ responses[p][c].receipt = 1
                            ELSE AsExpected(responses[p][c], c)
    PROVE  ResponseErrors(p) = {}
<1>1. PICK samples : samples = responses[p]
  OBVIOUS
<1>2. before.receipts[1].ownerEmployeeId = Owner /\ {row.key : row \in before.keys} = SavedKeys
  BY DEF Tables, Owner, SavedKeys
<1>3. ASSUME NEW c \in Users
      PROVE  /\ samples[c].status \in {200, 202, 409}
             /\ samples[c].status = 202 <=> p = "initial" /\ c = c0
             /\ EmployeeOf(c) # Owner =>
                   samples[c].status = 409 /\ samples[c].receipt = None
             /\ EmployeeOf(c) = Owner =>
                   /\ samples[c].status \in {200, 202} /\ samples[c].receipt = 1
                   /\ samples[c].status = 200 =>
                         samples[c].replay = (KeyOf(c) \in SavedKeys)
             /\ EmployeeOf(c) # Owner => case.mode = "cross-owner"
  <2>1. EmployeeOf(c) # Owner => case.mode = "cross-owner"
    BY EmployeeFacts
  <2>2. CASE p = "initial" /\ c = c0
    BY <1>1, <2>1, <2>2
  <2>3. CASE ~(p = "initial" /\ c = c0)
    BY <1>1, <2>1, <2>3 DEF AsExpected
  <2> QED
    BY <2>2, <2>3
<1>4. "thresholds" \notin ResponseErrors(p)
  <2>1. ThresholdsMet(p)
    BY <1>1, <1>3 DEF ThresholdsMet
  <2> QED
    BY <2>1 DEF ResponseErrors
<1>5. "created" \notin ResponseErrors(p)
  <2>1. {c \in Users : responses[p][c].status = 202} = IF p = "initial" THEN {c0} ELSE {}
    BY <1>1, <1>3
  <2>2. Cardinality({c0}) = 1 /\ Cardinality({}) = 0
    BY FS_Singleton, FS_EmptySet
  <2>3. Cardinality({c \in Users : responses[p][c].status = 202})
           = IF p = "initial" THEN 1 ELSE 0
    BY <2>1, <2>2
  <2> QED
    BY <2>3 DEF ResponseErrors
<1>6. "foreign" \notin ResponseErrors(p)
  <2>1. \A c \in {vu \in Users : EmployeeOf(vu) # before.receipts[1].ownerEmployeeId} :
           responses[p][c].status = 409 /\ responses[p][c].receipt = None
    BY <1>1, <1>2, <1>3
  <2> QED
    BY <2>1 DEF ResponseErrors
<1>7. "owner" \notin ResponseErrors(p)
  <2>1. \A c \in Users \ {vu \in Users : EmployeeOf(vu) # before.receipts[1].ownerEmployeeId} :
           Accepted(responses[p][c]) /\ responses[p][c].receipt = 1
    BY <1>1, <1>2, <1>3 DEF Accepted
  <2> QED
    BY <2>1 DEF ResponseErrors
<1>8. "replay" \notin ResponseErrors(p)
  <2>1. \A c \in Users \ {vu \in Users : EmployeeOf(vu) # before.receipts[1].ownerEmployeeId} :
           responses[p][c].status = 200 =>
              responses[p][c].replay = (KeyOf(c) \in {row.key : row \in before.keys})
    BY <1>1, <1>2, <1>3
  <2> QED
    BY <2>1 DEF ResponseErrors
<1>9. ResponseErrors(p) \subseteq {"thresholds", "created", "foreign", "owner", "replay"}
  BY DEF ResponseErrors
<1> QED
  BY <1>4, <1>5, <1>6, <1>7, <1>8, <1>9

(* The history is as long as it has different events.                      *)
LEMMA AuditCounted ==
    Cardinality(ExpectedAudit) = IF ExpectDuplicate THEN 5 ELSE 4
<1> DEFINE A == {"UPLOADED"}
           B == A \cup {"EXTRACTION_JOB_CLAIMED"}
           C == B \cup {"EXTRACTION_COMPLETED"}
           D == C \cup {"VALIDATION_COMPLETED"}
           E == D \cup {"DUPLICATE_DETECTED"}
<1>1. IsFiniteSet(A) /\ Cardinality(A) = 1
  BY FS_Singleton
<1>2. IsFiniteSet(B) /\ Cardinality(B) = 2
  BY <1>1, FS_AddElement
<1>3. IsFiniteSet(C) /\ Cardinality(C) = 3
  BY <1>2, FS_AddElement
<1>4. IsFiniteSet(D) /\ Cardinality(D) = 4
  BY <1>3, FS_AddElement
<1>5. Cardinality(E) = 5
  BY <1>4, FS_AddElement
<1>6. ExpectedAudit = IF ExpectDuplicate THEN E ELSE D
  BY DEF ExpectedAudit
<1> HIDE DEF D, E
<1> QED
  BY <1>4, <1>5, <1>6

(* Nor does verify_case.                                                   *)
LEMMA NoCaseErrors ==
    ASSUME CaseOK, Created, OneRow, JobQuiet, ReceiptQuiet, AuditQuiet,
           Flagged <=> ExpectDuplicate, before = Tables, jobs[1].status = "COMPLETED",
           jobs[1] \in Job, NEW c0 \in Users, keys = KeysOf(c0)
    PROVE  CaseErrors = {}
<1>1. Flagged = ExpectDuplicate /\ MarkedDuplicate(receipts[1].ruleResults) = ExpectDuplicate
  <2>1. Flagged \in BOOLEAN /\ ExpectDuplicate \in BOOLEAN
        /\ MarkedDuplicate(receipts[1].ruleResults) \in BOOLEAN
    BY DEF Flagged, Job, ExpectDuplicate, MarkedDuplicate
  <2>2. MarkedDuplicate(receipts[1].ruleResults) <=> Flagged
    BY DEF ReceiptQuiet
  <2> QED
    BY <2>1, <2>2
<1>2. PICK detail : detail = Detail(Owner)
  OBVIOUS
<1>3. /\ detail.status = 200 /\ detail.jobStatus = "COMPLETED" /\ detail.currentData = FakeData
      /\ detail.ruleResults = receipts[1].ruleResults
      /\ \A o : o # Owner => Detail(o).status = 404
  BY <1>2 DEF Detail, Owner, ReceiptQuiet
<1>4. "changed" \notin CaseErrors
  BY DEF CaseErrors
<1>5. "attempts" \notin CaseErrors
  BY DEF CaseErrors, JobQuiet
<1>6. "flag" \notin CaseErrors
  BY <1>1 DEF CaseErrors, Flagged
<1>7. "status" \notin CaseErrors
  BY <1>1 DEF CaseErrors, ReceiptQuiet
<1>8. "audit" \notin CaseErrors
  <2>1. ToSet(audit[1]) = ExpectedAudit
    BY <1>1 DEF AuditQuiet, EventsDue, ExpectedAudit
  <2>2. Len(audit[1]) = Cardinality(ExpectedAudit)
    BY <1>1, AuditCounted DEF AuditQuiet
  <2> QED
    BY <2>1, <2>2 DEF CaseErrors
<1>9. "keys" \notin CaseErrors
  <2>1. PICK k : k = KeyOf(c0)
    OBVIOUS
  <2>2. case.mode = "no-key" <=> k = None
    BY <2>1, KeyFacts
  <2>3. keys = IF k = None THEN {} ELSE {[key |-> k, receipt |-> 1]}
    <3>1. keys = [key : {k} \ {None}, receipt : {1}]
      BY <2>1 DEF KeysOf
    <3>2. CASE k = None
      <4>1. {k} \ {None} = {}
        BY <3>2
      <4> QED
        BY <3>1, <3>2, <4>1
    <3>3. CASE k # None
      <4>1. {k} \ {None} = {k}
        BY <3>3
      <4>2. [key : {k}, receipt : {1}] = {[key |-> k, receipt |-> 1]}
        <5>1. \A row \in [key : {k}, receipt : {1}] : row = [key |-> k, receipt |-> 1]
          OBVIOUS
        <5>2. [key |-> k, receipt |-> 1] \in [key : {k}, receipt : {1}]
          OBVIOUS
        <5> QED
          BY <5>1, <5>2
      <4> QED
        BY <3>1, <3>3, <4>1, <4>2
    <3> QED
      BY <3>2, <3>3
  <2>4. Cardinality(keys) = IF case.mode = "no-key" THEN 0 ELSE 1
    BY <2>2, <2>3, FS_Singleton, FS_EmptySet
  <2> QED
    BY <2>4 DEF CaseErrors
<1>10. "detail" \notin CaseErrors
  BY <1>2, <1>3 DEF CaseErrors, Owner
<1>11. "rule" \notin CaseErrors
  BY <1>1, <1>2, <1>3 DEF CaseErrors, Owner
<1>12. "foreignDetail" \notin CaseErrors
  BY <1>3 DEF CaseErrors, Owner
<1>13. "starts" \notin CaseErrors
  <2>1. PICK k : Claims = {k}
    BY DEF AuditQuiet
  <2>2. Cardinality(Claims) = 1
    BY <2>1, FS_Singleton
  <2> QED
    BY <2>2 DEF CaseErrors, Claims
<1>14. "objects" \notin CaseErrors
  BY DEF CaseErrors, OneRow
<1>15. CaseErrors \subseteq {"changed", "attempts", "flag", "status", "audit", "keys", "detail",
                             "rule", "foreignDetail", "starts", "objects"}
  BY DEF CaseErrors
<1> QED
  BY <1>4, <1>5, <1>6, <1>7, <1>8, <1>9, <1>10, <1>11, <1>12, <1>13, <1>14, <1>15

LEMMA VerifyQuiet ==
    ASSUME Inv, Quiet, VerifyCase
    PROVE  Quiet'
<1>1. /\ UNCHANGED <<rows, objects, holder, calls, extraction, case, responses, before>>
      /\ phase = "verifying" /\ phase' = "verified"
  BY DEF VerifyCase, intakeVars
<1>2. CaseOK /\ OneRow /\ PhaseQuiet
  BY CaseFacts DEF Quiet
<1>3. /\ Created /\ (Flagged <=> ExpectDuplicate) /\ before = Tables
      /\ jobs[1].status = "COMPLETED" /\ jobs[1] \in Job
      /\ JobQuiet /\ ReceiptQuiet /\ AuditQuiet
      /\ \A c \in Users : AsExpected(responses["after-completion"][c], c)
  BY <1>1, QuietRows DEF Quiet, PhaseQuiet
<1>4. PICK c0 \in Users : Creator(c0)
  BY <1>2, <1>3 DEF OneRow
<1>5. /\ Owner = EmployeeOf(c0) /\ keys = KeysOf(c0)
      /\ responses["initial"][c0].status = 202 /\ responses["initial"][c0].receipt = 1
      /\ \A c \in Users \ {c0} : AsExpected(responses["initial"][c], c)
  BY <1>1, <1>4 DEF Creator, Answered, FirstAnswer
<1>6. errors' = {}
  <2>1. ResponseErrors("initial") = {}
    BY <1>2, <1>3, <1>5, NoResponseErrors DEF Phases
  <2>2. ResponseErrors("after-completion") = {}
    BY <1>2, <1>3, <1>5, NoResponseErrors DEF Phases
  <2>3. CaseErrors = {}
    BY <1>2, <1>3, <1>5, NoCaseErrors
  <2>4. Len(before.receipts) = 1 /\ Len(receipts) = 1
    BY <1>3 DEF Created, Tables
  <2> QED
    BY <2>1, <2>2, <2>3, <2>4 DEF VerifyCase
<1>7. Creator(c0)'
  BY <1>1, <1>4, CreatorRecorded DEF Answered, FirstAnswer
<1>8. \A d \in Clients : ~Calling(d)'
  BY <1>1 DEF Calling, Inv, CallsOK, CallOK, Phases
<1>9. PhaseQuiet'
  <2>1. PICK r : r = responses["after-completion"]
    OBVIOUS
  <2>2. \A c \in Users' : AsExpected(r[c], c)'
    BY <1>1, <1>3, <2>1, ExpectedSame
  <2>3. /\ Created' /\ (Flagged' <=> ExpectDuplicate') /\ before' = Tables'
        /\ jobs'[1].status = "COMPLETED"
    BY <1>1, <1>3, ExpectedSame DEF Tables, rows
  <2> QED
    BY <1>1, <1>2, <1>6, <2>1, <2>2, <2>3 DEF PhaseQuiet
<1> QED
  BY <1>1, <1>7, <1>8, <1>9, RunnerQuiet DEF Creator
-----------------------------------------------------------------------------
LEMMA InitQuiet == Init => QuietInv
<1> SUFFICES ASSUME Init
             PROVE  Quiet
  BY DEF QuietInv
<1>1. /\ images = <<>> /\ receipts = <<>> /\ audit = <<>> /\ keys = {} /\ objects = {}
      /\ holder = [m \in Images |-> None] /\ calls = [c \in Clients |-> None]
      /\ completing = {} /\ phase = "planned" /\ errors = {}
  BY DEF Init, IntakeInit
<1>2. ~Created /\ Len(receipts) = 0 /\ Len(audit) = 0
  BY <1>1 DEF Created
<1>3. OneRow
  BY <1>1, <1>2, EmptySeq DEF OneRow
<1>4. PhaseQuiet
  <2>1. case.vus \in Sizes
    BY DEF Init
  <2> QED
    BY <1>1, <1>2, <2>1, SizesAssumption DEF PhaseQuiet
<1>5. \A c \in Clients : ~Calling(c)
  BY <1>1 DEF Calling, Phases
<1> QED
  BY <1>1, <1>2, <1>3, <1>4, <1>5 DEF Quiet

LEMMA NextQuiet == Inv /\ QuietInv /\ [Next]_vars => QuietInv'
<1> SUFFICES ASSUME Inv, QuietInv, [Next]_vars
             PROVE  QuietInv'
  OBVIOUS
<1>1. CASE RunnerStep
  <2>1. UNCHANGED races
    BY <1>1 DEF RunnerStep, StartInitial, SeeFinished, StartPhase, EndPhase, DeadlinePasses,
                VerifyCase
  <2>2. ASSUME Quiet PROVE Quiet'
    BY <1>1, <2>2, StartInitialQuiet, EndInitialQuiet, SeeFinishedQuiet, DeadlineQuiet,
       EndAfterCompletionQuiet, VerifyQuiet DEF RunnerStep
  <2> QED
    BY <2>1, <2>2 DEF QuietInv
<1>2. CASE ServiceStep
  BY <1>2, ServiceStepQuiet
<1>3. CASE UNCHANGED vars
  <2>1. /\ UNCHANGED <<rows, objects, calls, executing, case, phase, responses, before, errors>>
        /\ UNCHANGED <<holder, completing, races>>
    BY <1>3 DEF vars, intakeVars, extraction, runner
  <2>2. ASSUME Quiet PROVE Quiet'
    BY <2>1, <2>2, StandingQuiet DEF Quiet, OneRow
  <2> QED
    BY <2>1, <2>2 DEF QuietInv
<1> QED
  BY <1>1, <1>2, <1>3 DEF Next, Over

(* verify_case and check_responses of run-duplicates.py against the        *)
(* service: a case in which the service lost no race has no error, however *)
(* many virtual users send the image, in whichever mode, and however their *)
(* uploads interleave with each other and with the extraction.             *)
THEOREM NoFalseAlarm == Spec => []QuietCasePasses
<1>1. QuietInv => QuietCasePasses
  BY DEF QuietInv, Quiet, PhaseQuiet, QuietCasePasses
<1> QED
  BY <1>1, InitInv, NextInv, InitQuiet, NextQuiet, PTL DEF Spec
=============================================================================
