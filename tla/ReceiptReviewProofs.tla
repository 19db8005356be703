------------------------- MODULE ReceiptReviewProofs -------------------------
(***************************************************************************)
(* Proofs about the review of a receipt for any employees, owners, roles,  *)
(* uploads, extracted data and corrections.                                *)
(***************************************************************************)
EXTENDS ReceiptReviewProperties, ReceiptRowsProofs, SequenceTheorems

(* Data as received, before blank texts become null.                       *)
RawData ==
    [shopName : Text \cup {Blank},
     date : Int \cup {None},
     totalAmount : Int \cup {None},
     businessRegistrationNumber : Seq(Character) \cup {Blank, None},
     paymentMethod : Text \cup {Blank},
     lineItems : Seq(Int \cup {None})]

(* Blank texts become null.                                                *)
LEMMA NormalizeType ==
    ASSUME NEW raw \in RawData
    PROVE  Normalize(raw) \in ReceiptData
<1>1. /\ NonBlank(raw.shopName) \in Text
      /\ NonBlank(raw.businessRegistrationNumber) \in Seq(Character) \cup {None}
      /\ NonBlank(raw.paymentMethod) \in Text
  BY DEF RawData, NonBlank, Text
<1>2. Normalize(raw) = [raw EXCEPT !.shopName = NonBlank(raw.shopName),
                                   !.businessRegistrationNumber =
                                       NonBlank(raw.businessRegistrationNumber),
                                   !.paymentMethod = NonBlank(raw.paymentMethod)]
  BY DEF Normalize, RawData
<1>3. QED
  BY <1>1, <1>2 DEF RawData, ReceiptData

(* A correction applied to a receipt's data yields a receipt's data.       *)
LEMMA ApplyToType ==
    ASSUME NEW c \in FieldCorrections, NEW data \in ReceiptData \cup {None}
    PROVE  ApplyTo(c, data) \in ReceiptData
<1> DEFINE base == IF data = None THEN EmptyData ELSE data
           merged == [field \in Fields |->
                         IF field \in c.clearFields THEN Cleared(field)
                         ELSE IF c.values[field] # None THEN c.values[field]
                         ELSE base[field]]
<1>1. EmptyData \in ReceiptData
  BY DEF EmptyData, ReceiptData, Text
<1>2. base \in ReceiptData
  BY <1>1
<1> HIDE DEF base
<1>3. /\ merged.shopName \in Text \cup {Blank}
      /\ merged.paymentMethod \in Text \cup {Blank}
      /\ merged.date \in Int \cup {None}
      /\ merged.totalAmount \in Int \cup {None}
      /\ merged.businessRegistrationNumber \in Seq(Character) \cup {Blank, None}
      /\ merged.lineItems \in Seq(Int \cup {None})
  BY <1>2 DEF ReceiptData, FieldCorrections, Fields, Cleared, Text
<1>4. merged = [shopName |-> merged.shopName, date |-> merged.date,
                totalAmount |-> merged.totalAmount,
                businessRegistrationNumber |-> merged.businessRegistrationNumber,
                paymentMethod |-> merged.paymentMethod,
                lineItems |-> merged.lineItems]
  BY DEF Fields
<1>5. ApplyTo(c, data) = Normalize(merged)
  BY DEF ApplyTo, base
<1> HIDE DEF merged
<1>6. merged \in RawData
  <2> DEFINE copy == [shopName |-> merged.shopName, date |-> merged.date,
                      totalAmount |-> merged.totalAmount,
                      businessRegistrationNumber |-> merged.businessRegistrationNumber,
                      paymentMethod |-> merged.paymentMethod,
                      lineItems |-> merged.lineItems]
  <2>1. copy \in RawData
    BY <1>3 DEF RawData
  <2>2. QED
    BY <1>4, <2>1
<1>7. QED
  BY <1>5, <1>6, NormalizeType
-----------------------------------------------------------------------------
(* What a correction and a decision write is a row.                        *)
LEMMA ChangedRowTypes ==
    ASSUME NEW row \in Receipt
    PROVE  /\ \A data \in ReceiptData, results \in SUBSET RuleResult,
                 next \in ReceiptStatuses :
                 UpdateData(row, data, results, next) \in Receipt
           /\ \A next \in ReceiptStatuses : ChangeStatus(row, next) \in Receipt
BY DEF UpdateData, ChangeStatus, Receipt

(* A trail followed by further events keeps both in their order.           *)
LEMMA Followed ==
    ASSUME NEW s \in Seq(Event), NEW t \in Seq(Event)
    PROVE  /\ s \o t \in Seq(Event)
           /\ Len(s \o t) = Len(s) + Len(t)
           /\ \A i \in 1..Len(s) : (s \o t)[i] = s[i]
           /\ \A i \in 1..Len(t) : (s \o t)[Len(s) + i] = t[i]
<1>1. Len(s) \in Nat /\ Len(t) \in Nat
  OBVIOUS
<1>2. /\ s \o t \in Seq(Event)
      /\ Len(s \o t) = Len(s) + Len(t)
      /\ \A i \in 1..Len(s) + Len(t) :
            (s \o t)[i] = IF i <= Len(s) THEN s[i] ELSE t[i - Len(s)]
  BY ConcatProperties
<1>3. \A i \in 1..Len(s) : (s \o t)[i] = s[i]
  BY <1>1, <1>2
<1>4. ASSUME NEW i \in 1..Len(t)
      PROVE  (s \o t)[Len(s) + i] = t[i]
  <2>1. /\ Len(s) + i \in 1..Len(s) + Len(t)
        /\ ~(Len(s) + i <= Len(s))
        /\ (Len(s) + i) - Len(s) = i
    BY <1>1
  <2>2. QED
    BY <1>2, <2>1
<1>5. QED
  BY <1>2, <1>3, <1>4

(* The events that an extraction writes, one or two.                       *)
SettledEvents(actions, status) ==
    [i \in 1..Len(actions) |->
        Occurred("system", actions[i], None, IF i = Len(actions) THEN status ELSE None)]

(* They are events of their own, one for each action.                      *)
LEMMA SettledEventsType ==
    ASSUME NEW status \in ReceiptStatuses \cup {None}, NEW actions \in Seq(AuditActions)
    PROVE  /\ SettledEvents(actions, status) \in Seq(Event)
           /\ Len(SettledEvents(actions, status)) = Len(actions)
<1>1. Len(actions) \in Nat /\ \A i \in 1..Len(actions) : actions[i] \in AuditActions
  OBVIOUS
<1>2. \A i \in 1..Len(actions) : SettledEvents(actions, status)[i] \in Event
  BY <1>1 DEF SettledEvents, Occurred, Event
<1>3. QED
  BY <1>1, <1>2 DEF SettledEvents

(* A verdict keeps rows and trail typed.                                   *)
LEMMA SettleType ==
    ASSUME TypeOK, NEW next \in Receipt, NEW finished \in Job,
           NEW actions \in Seq(AuditActions), Settle(next, finished, actions)
    PROVE  TypeOK'
<1>1. Saved(next) \in Receipt /\ Saved(finished) \in Job
  BY ReceiptMethodTypes, JobMethodTypes
<1>2. next.status \in ReceiptStatuses \cup {None}
  BY DEF Receipt
<1>3. trail' = trail \o SettledEvents(actions, next.status)
  BY DEF Settle, SettledEvents
<1>5. trail' \in Seq(Event)
  BY <1>2, <1>3, SettledEventsType, Followed DEF TypeOK
<1>4. QED
  BY <1>1, <1>5 DEF Settle, TypeOK

(* A verdict is a row with a status.                                       *)
LEMMA ExtractionType ==
    ASSUME TypeOK, Extraction
    PROVE  TypeOK'
<1>0. receipt \in Receipt /\ job \in Job
  BY DEF TypeOK
<1>1. CASE QualityRejected
  <2>1. PICK status \in {"NEEDS_RECAPTURE", "UNREADABLE"} :
            Settle(CompleteExtraction(receipt, None, {}, status), CompleteJob(job),
                   <<"QUALITY_REJECTED">>)
    BY <1>1 DEF QualityRejected
  <2>2. CompleteExtraction(receipt, None, {}, status) \in Receipt
    BY <1>0, ReceiptMethodTypes DEF ReceiptStatuses
  <2>3. CompleteJob(job) \in Job /\ <<"QUALITY_REJECTED">> \in Seq(AuditActions)
    BY <1>0, JobMethodTypes DEF AuditActions
  <2>4. QED
    BY <2>1, <2>2, <2>3, SettleType
<1>2. CASE Extracted
  <2>1. PICK data \in Extractions :
            LET results == Validate(data, job.duplicateDetected)
            IN  Settle(CompleteExtraction(receipt, data, results, Route(data, results)),
                       CompleteJob(job),
                       <<"EXTRACTION_COMPLETED", "VALIDATION_COMPLETED">>)
    BY <1>2 DEF Extracted
  <2> DEFINE results == Validate(data, job.duplicateDetected)
  <2>2. /\ results \in SUBSET RuleResult
        /\ Route(data, results) \in ReceiptStatuses
        /\ data \in ReceiptData \cup {None}
    BY ValidateType, RouteType, InputsAssumption DEF ReceiptStatuses
  <2>3. CompleteExtraction(receipt, data, results, Route(data, results)) \in Receipt
    BY <1>0, <2>2, ReceiptMethodTypes
  <2>4. /\ CompleteJob(job) \in Job
        /\ <<"EXTRACTION_COMPLETED", "VALIDATION_COMPLETED">> \in Seq(AuditActions)
    BY <1>0, JobMethodTypes DEF AuditActions
  <2>5. QED
    BY <2>1, <2>3, <2>4, SettleType
<1>3. CASE ExtractionFailed
  <2>1. CompleteExtraction(receipt, None, {}, "MANUAL_ENTRY") \in Receipt
    BY <1>0, ReceiptMethodTypes DEF ReceiptStatuses
  <2>2. FailJob(job) \in Job /\ <<"EXTRACTION_FAILED">> \in Seq(AuditActions)
    BY <1>0, JobMethodTypes DEF AuditActions
  <2>3. QED
    BY <1>3, <2>1, <2>2, SettleType DEF ExtractionFailed
<1>4. QED
  BY <1>1, <1>2, <1>3 DEF Extraction

(* A duplicate upload keeps rows, trail and snapshots typed.               *)
LEMMA SubmitterType ==
    ASSUME TypeOK, NEW u \in Submitters, SubmitterStep(u)
    PROVE  TypeOK'
<1>0. receipt \in Receipt /\ job \in Job
  BY DEF TypeOK
<1>1. CASE OpenMarkDuplicate(u)
  BY <1>0, <1>1 DEF OpenMarkDuplicate, TypeOK, Upload
<1>2. CASE CommitMarkDuplicate(u)
  <2> DEFINE t == uploads[u]
             next == RevalidatedAsDuplicate(t.receipt)
  <2>1. t \in Upload /\ t.receipt \in Receipt /\ t.job \in Job
    BY <1>2 DEF CommitMarkDuplicate, TypeOK, Upload
  <2>2. Saved(MarkJobDuplicate(t.job)) \in Job
    BY <2>1, JobMethodTypes
  <2>3. t.receipt.status \in ReceiptStatuses \cup {None}
    BY <2>1 DEF Receipt
  <2>4. CASE LeftAloneByDuplicate(t.receipt)
    <3>1. Occurred("system", "DUPLICATE_DETECTED", None, None) \in Event
      BY DEF Occurred, Event, AuditActions
    <3>2. \/ trail' = trail
          \/ trail' = Append(trail, Occurred("system", "DUPLICATE_DETECTED", None, None))
      BY <1>2, <2>4 DEF CommitMarkDuplicate
    <3>3. trail' \in Seq(Event)
      BY <3>1, <3>2 DEF TypeOK
    <3>4. QED
      BY <1>2, <2>2, <2>4, <3>3 DEF CommitMarkDuplicate, TypeOK
  <2>5. CASE ~LeftAloneByDuplicate(t.receipt)
    <3>1. next \in Receipt
      BY <2>1, <2>5, ReceiptMethodTypes DEF LeftAloneByDuplicate
    <3>2. Saved(next) \in Receipt /\ next.status \in ReceiptStatuses \cup {None}
      BY <3>1, ReceiptMethodTypes DEF Receipt
    <3> HIDE DEF next
    <3>3. Occurred("system", "DUPLICATE_DETECTED", t.receipt.status, next.status)
              \in Event
      BY <2>3, <3>2 DEF Occurred, Event, AuditActions
    <3>4. trail' \in Seq(Event)
      BY <1>2, <2>5, <3>3 DEF CommitMarkDuplicate, TypeOK, next
    <3>5. QED
      BY <1>2, <2>2, <2>5, <3>2, <3>4 DEF CommitMarkDuplicate, TypeOK, next
  <2>6. QED
    BY <2>4, <2>5
<1>3. CASE AbandonMarkDuplicate(u)
  BY <1>3 DEF AbandonMarkDuplicate, TypeOK
<1>4. QED
  BY <1>1, <1>2, <1>3 DEF SubmitterStep

(* What a request opens is a change.                                       *)
LEMMA OpenType ==
    ASSUME TypeOK, NEW e \in Employees, NEW row \in Receipt, NEW action \in AuditActions,
           views[e] # None, Open(e, row, action)
    PROVE  TypeOK'
<1> DEFINE opened == [snapshot |-> receipt, row |-> row, seen |-> views[e],
                      event |-> Occurred(e, action, receipt.status, row.status)]
<1>1. /\ receipt \in Receipt
      /\ views[e] \in Receipt
      /\ receipt.status \in ReceiptStatuses \cup {None}
      /\ row.status \in ReceiptStatuses \cup {None}
  BY DEF TypeOK, Receipt
<1>2. Occurred(e, action, receipt.status, row.status) \in Event
  BY <1>1 DEF Occurred, Event
<1>3. opened \in Change
  BY <1>1, <1>2 DEF Change
<1>4. QED
  BY <1>3 DEF Open, TypeOK

(* What an employee does keeps rows, trail, views and changes typed.       *)
LEMMA EmployeeType ==
    ASSUME TypeOK, NEW e \in Employees, EmployeeStep(e)
    PROVE  TypeOK'
<1>0. receipt \in Receipt
  BY DEF TypeOK
<1>1. CASE Display(e)
  BY <1>0, <1>1 DEF Display, TypeOK
<1>2. ASSUME NEW corrections \in Corrections, OpenCorrection(e, corrections)
      PROVE  TypeOK'
  <2> DEFINE data == ApplyTo(corrections, receipt.currentData)
             results == Validate(data, MarkedDuplicate(receipt.ruleResults))
             next == CorrectedStatus(e, data, results)
  <2>1. data \in ReceiptData
    BY <1>0, ApplyToType, InputsAssumption DEF Receipt
  <2>2. results \in SUBSET RuleResult
    BY ValidateType
  <2>3. next \in ReceiptStatuses
    BY RouteType DEF CorrectedStatus, ReceiptStatuses
  <2> HIDE DEF data, results, next
  <2>4. UpdateData(receipt, data, results, next) \in Receipt
    BY <1>0, <2>1, <2>2, <2>3, ChangedRowTypes
  <2>5. /\ Open(e, UpdateData(receipt, data, results, next), "FIELDS_CORRECTED")
        /\ views[e] # None
    BY <1>2 DEF OpenCorrection, IsCurrent, data, results, next
  <2>6. "FIELDS_CORRECTED" \in AuditActions
    BY DEF AuditActions
  <2>7. QED
    BY <2>4, <2>5, <2>6, OpenType
<1>3. ASSUME NEW decision \in Decisions, OpenDecision(e, decision)
      PROVE  TypeOK'
  <2>1. /\ ChangeStatus(receipt, "APPROVED") \in Receipt
        /\ ChangeStatus(receipt, "REJECTED") \in Receipt
        /\ "REVIEW_APPROVED" \in AuditActions
        /\ "REVIEW_REJECTED" \in AuditActions
    BY <1>0, ChangedRowTypes DEF ReceiptStatuses, AuditActions
  <2>2. QED
    BY <1>3, <2>1, OpenType DEF OpenDecision, IsCurrent
<1>4. CASE CommitChange(e)
  <2>1. changes[e] \in Change /\ changes[e].row \in Receipt /\ changes[e].event \in Event
    BY <1>4 DEF CommitChange, TypeOK, Change
  <2>2. receipt' \in Receipt
    BY <1>4, <2>1, ReceiptMethodTypes DEF CommitChange
  <2>3. trail' \in Seq(Event)
    BY <1>4, <2>1 DEF CommitChange, TypeOK
  <2>4. QED
    BY <1>4, <2>2, <2>3 DEF CommitChange, TypeOK
<1>5. CASE RollBackChange(e)
  BY <1>5 DEF RollBackChange, TypeOK
<1>6. QED
  BY <1>1, <1>2, <1>3, <1>4, <1>5 DEF EmployeeStep

(* Types are inductive.                                                    *)
LEMMA TypesInductive ==
    /\ Init => TypeOK
    /\ TypeOK /\ [Next]_vars => TypeOK'
<1>1. ASSUME Init
      PROVE  TypeOK
  <2>1. PICK owner \in Owners \cup {None} :
            /\ receipt = NewReceipt(owner)
            /\ trail = <<Occurred(IF owner = None THEN "system" ELSE owner,
                                  "UPLOADED", None, None)>>
    BY <1>1 DEF Init
  <2>2. receipt \in Receipt
    BY <2>1 DEF NewReceipt, Receipt
  <2>3. Occurred(IF owner = None THEN "system" ELSE owner, "UPLOADED", None, None)
            \in Event
    BY RolesAssumption DEF Occurred, Event, AuditActions
  <2>4. trail \in Seq(Event)
    BY <2>1, <2>3
  <2>5. QED
    BY <1>1, <2>2, <2>4, NewRowTypes DEF Init, TypeOK
<1>2. ASSUME TypeOK, [Next]_vars
      PROVE  TypeOK'
  <2>1. CASE UNCHANGED vars
    BY <1>2, <2>1 DEF vars, TypeOK
  <2>2. QED
    BY <1>2, <2>1, ExtractionType, SubmitterType, EmployeeType DEF Next
<1>3. QED
  BY <1>1, <1>2

(* Type correctness: the rows, the trail, the screens and the open         *)
(* requests have the shapes the entities and DTOs declare, whatever        *)
(* corrections are sent.                                                   *)
THEOREM ReviewTypeCorrect == Spec => []TypeOK
BY TypesInductive, PTL DEF Spec
-----------------------------------------------------------------------------
(* A row that was read: it is the current one as long as the versions      *)
(* agree.                                                                  *)
IsSnapshotOf(row, current) ==
    /\ row.version <= current.version
    /\ row.version = current.version => row = current

(* What a request that passed its checks will write, in terms of the row   *)
(* it read.                                                                *)
CorrectedBy(e, c) ==
    /\ c.event.action = "FIELDS_CORRECTED"
    /\ c.row.currentData \in ReceiptData
    /\ \E duplicate \in BOOLEAN :
          c.row.ruleResults = Validate(c.row.currentData, duplicate)
    /\ LET routed == Route(c.row.currentData, c.row.ruleResults)
       IN  \/ /\ c.row.status = routed
              /\ routed = "AUTO_APPROVED" =>
                     RoleOf[e] # "EMPLOYEE" /\ ~IsOwner(e, c.snapshot)
           \/ routed = "AUTO_APPROVED" /\ c.row.status = "NEEDS_REVIEW"

ApprovedBy(e, c) ==
    /\ c.event.action = "REVIEW_APPROVED"
    /\ MayReview(e, c.snapshot)
    /\ MayApprove(c.snapshot)
    /\ c.row = ChangeStatus(c.snapshot, "APPROVED")

RejectedBy(e, c) ==
    /\ c.event.action = "REVIEW_REJECTED"
    /\ c.row = ChangeStatus(c.snapshot, "REJECTED")

ChangeBy(e, c) ==
    /\ c.event.actor = e
    /\ c.event.previous = c.snapshot.status
    /\ c.event.next = c.row.status
    /\ c.row.version = c.snapshot.version
    /\ c.row.ownerEmployeeId = c.snapshot.ownerEmployeeId
    /\ MayModify(e, c.snapshot)
    /\ CorrectedBy(e, c) \/ ApprovedBy(e, c) \/ RejectedBy(e, c)

(* Whatever was read is the current row or has an older version, and an    *)
(* upload that found no verdict finds the job as it was only before there  *)
(* is one.                                                                 *)
ReadsCurrent ==
    /\ \A e \in Employees : views[e] # None => IsSnapshotOf(views[e], receipt)
    /\ \A e \in Employees : changes[e] # None =>
          /\ IsSnapshotOf(changes[e].snapshot, receipt)
          /\ changes[e].seen = changes[e].snapshot
          /\ ChangeBy(e, changes[e])
    /\ \A u \in Submitters : uploads[u] # None =>
          /\ IsSnapshotOf(uploads[u].receipt, receipt)
          /\ uploads[u].job.version <= job.version
          /\ uploads[u].job.version = job.version /\ uploads[u].receipt.status = None =>
                 receipt.status = None
-----------------------------------------------------------------------------
(* The steps as the rows see them: a verdict, a duplicate that waits for   *)
(* the verdict or changes the row, and a request that commits.             *)
SettledStep ==
    /\ receipt.status = None
    /\ job'.version = job.version + 1
    /\ \E next \in Receipt, actions \in Seq(AuditActions) :
          /\ next.version = receipt.version
          /\ next.ownerEmployeeId = receipt.ownerEmployeeId
          /\ \/ next.ruleResults = {} /\ next.status \notin {"AUTO_APPROVED", "APPROVED"}
             \/ /\ \E duplicate \in BOOLEAN :
                      next.ruleResults = Validate(next.currentData, duplicate)
                /\ next.status = Route(next.currentData, next.ruleResults)
          /\ ~IsTerminal(next.status)
          /\ Len(actions) > 0
          /\ \A i \in 1..Len(actions) : actions[i] \notin
                 {"FIELDS_CORRECTED", "REVIEW_APPROVED", "REVIEW_REJECTED"}
          /\ receipt' = Saved(next)
          /\ trail' = trail \o SettledEvents(actions, next.status)

DeferredStep ==
    /\ receipt.status = None
    /\ receipt' = receipt
    /\ trail' = Append(trail, Occurred("system", "DUPLICATE_DETECTED", None, None))

FlaggedStep ==
    LET next == RevalidatedAsDuplicate(receipt)
    IN  /\ receipt.status # None
        /\ receipt' = Saved(next)
        /\ trail' = Append(trail, Occurred("system", "DUPLICATE_DETECTED",
                                           receipt.status, next.status))

ChangedStep(e) ==
    /\ changes[e] # None
    /\ changes[e].snapshot = receipt
    /\ changes[e].seen = receipt
    /\ ChangeBy(e, changes[e])
    /\ receipt' = Saved(changes[e].row)
    /\ trail' = Append(trail, changes[e].event)
    /\ changes'[e] = None

ReviewStep ==
    \/ receipt' = receipt /\ trail' = trail
    \/ SettledStep
    \/ DeferredStep
    \/ FlaggedStep
    \/ \E e \in Employees : ChangedStep(e)

(* A verdict is a step of the extraction.                                  *)
LEMMA ExtractionSteps ==
    ASSUME TypeOK, Extraction
    PROVE  SettledStep
<1>0. /\ receipt \in Receipt /\ job \in Job
      /\ job.version \in Nat
      /\ job.duplicateDetected \in BOOLEAN
  BY DEF TypeOK, Job
<1>1. /\ Saved(CompleteJob(job)).version = job.version + 1
      /\ Saved(FailJob(job)).version = job.version + 1
  BY <1>0 DEF Job, Saved, CompleteJob, FailJob, Unclaimed
<1>2. ASSUME NEW data \in ReceiptData \cup {None}, NEW results \in SUBSET RuleResult,
             NEW status \in ReceiptStatuses
      PROVE  LET next == CompleteExtraction(receipt, data, results, status)
             IN  /\ next \in Receipt
                 /\ next.version = receipt.version
                 /\ next.ownerEmployeeId = receipt.ownerEmployeeId
                 /\ next.currentData = data
                 /\ next.ruleResults = results
                 /\ next.status = status
  BY <1>0 DEF CompleteExtraction, Receipt
<1>3. CASE QualityRejected
  <2>1. PICK status \in {"NEEDS_RECAPTURE", "UNREADABLE"} :
            Settle(CompleteExtraction(receipt, None, {}, status), CompleteJob(job),
                   <<"QUALITY_REJECTED">>)
    BY <1>3 DEF QualityRejected
  <2> DEFINE next == CompleteExtraction(receipt, None, {}, status)
             actions == <<"QUALITY_REJECTED">>
  <2>2. /\ next \in Receipt
        /\ next.version = receipt.version
        /\ next.ownerEmployeeId = receipt.ownerEmployeeId
        /\ next.ruleResults = {}
        /\ next.status = status
    BY <1>2 DEF ReceiptStatuses
  <2>3. /\ actions \in Seq(AuditActions)
        /\ Len(actions) = 1
        /\ actions[1] = "QUALITY_REJECTED"
    BY DEF AuditActions
  <2> HIDE DEF next, actions
  <2>4. /\ receipt.status = None
        /\ job' = Saved(CompleteJob(job))
        /\ receipt' = Saved(next)
        /\ trail' = trail \o SettledEvents(actions, next.status)
    BY <2>1 DEF Settle, SettledEvents, next, actions
  <2>5. /\ \A i \in 1..Len(actions) : actions[i] \notin
               {"FIELDS_CORRECTED", "REVIEW_APPROVED", "REVIEW_REJECTED"}
        /\ Len(actions) > 0
    BY <2>3
  <2>6. ~IsTerminal(next.status) /\ next.status \notin {"AUTO_APPROVED", "APPROVED"}
    BY <2>1, <2>2 DEF IsTerminal
  <2>7. /\ next \in Receipt /\ actions \in Seq(AuditActions)
        /\ job'.version = job.version + 1
    BY <1>1, <2>2, <2>3, <2>4
  <2>8. QED
    BY <2>2, <2>4, <2>5, <2>6, <2>7 DEF SettledStep
<1>4. CASE Extracted
  <2>1. PICK data \in Extractions :
            LET results == Validate(data, job.duplicateDetected)
            IN  Settle(CompleteExtraction(receipt, data, results, Route(data, results)),
                       CompleteJob(job),
                       <<"EXTRACTION_COMPLETED", "VALIDATION_COMPLETED">>)
    BY <1>4 DEF Extracted
  <2> DEFINE results == Validate(data, job.duplicateDetected)
             status == Route(data, results)
             next == CompleteExtraction(receipt, data, results, status)
             actions == <<"EXTRACTION_COMPLETED", "VALIDATION_COMPLETED">>
  <2>2. /\ results \in SUBSET RuleResult
        /\ status \in {"MANUAL_ENTRY", "NEEDS_REVIEW", "AUTO_APPROVED"}
        /\ status \in ReceiptStatuses
        /\ data \in ReceiptData \cup {None}
    BY ValidateType, RouteType, InputsAssumption DEF ReceiptStatuses
  <2>3. /\ next \in Receipt
        /\ next.version = receipt.version
        /\ next.ownerEmployeeId = receipt.ownerEmployeeId
        /\ next.currentData = data
        /\ next.ruleResults = results
        /\ next.status = status
    BY <1>2, <2>2
  <2>4. /\ actions \in Seq(AuditActions)
        /\ Len(actions) = 2
        /\ actions[1] = "EXTRACTION_COMPLETED"
        /\ actions[2] = "VALIDATION_COMPLETED"
    BY DEF AuditActions
  <2> HIDE DEF next, actions
  <2>5. /\ receipt.status = None
        /\ job' = Saved(CompleteJob(job))
        /\ receipt' = Saved(next)
        /\ trail' = trail \o SettledEvents(actions, next.status)
    BY <2>1 DEF Settle, SettledEvents, next, actions
  <2>6. /\ \E duplicate \in BOOLEAN :
              next.ruleResults = Validate(next.currentData, duplicate)
        /\ next.status = Route(next.currentData, next.ruleResults)
    BY <1>0, <2>3
  <2>7. \A i \in 1..Len(actions) : actions[i] \notin
            {"FIELDS_CORRECTED", "REVIEW_APPROVED", "REVIEW_REJECTED"}
    BY <2>4
  <2>8. ~IsTerminal(next.status) /\ Len(actions) > 0
    BY <2>2, <2>3, <2>4 DEF IsTerminal
  <2>9. /\ next \in Receipt /\ actions \in Seq(AuditActions)
        /\ job'.version = job.version + 1
    BY <1>1, <2>3, <2>4, <2>5
  <2>10. QED
    BY <2>3, <2>5, <2>6, <2>7, <2>8, <2>9 DEF SettledStep
<1>5. CASE ExtractionFailed
  <2> DEFINE next == CompleteExtraction(receipt, None, {}, "MANUAL_ENTRY")
             actions == <<"EXTRACTION_FAILED">>
  <2>2. /\ next \in Receipt
        /\ next.version = receipt.version
        /\ next.ownerEmployeeId = receipt.ownerEmployeeId
        /\ next.ruleResults = {}
        /\ next.status = "MANUAL_ENTRY"
    BY <1>2 DEF ReceiptStatuses
  <2>3. /\ actions \in Seq(AuditActions)
        /\ Len(actions) = 1
        /\ actions[1] = "EXTRACTION_FAILED"
    BY DEF AuditActions
  <2> HIDE DEF next, actions
  <2>4. /\ receipt.status = None
        /\ job' = Saved(FailJob(job))
        /\ receipt' = Saved(next)
        /\ trail' = trail \o SettledEvents(actions, next.status)
    BY <1>5 DEF ExtractionFailed, Settle, SettledEvents, next, actions
  <2>5. /\ \A i \in 1..Len(actions) : actions[i] \notin
               {"FIELDS_CORRECTED", "REVIEW_APPROVED", "REVIEW_REJECTED"}
        /\ Len(actions) > 0
    BY <2>3
  <2>6. ~IsTerminal(next.status) /\ next.status \notin {"AUTO_APPROVED", "APPROVED"}
    BY <2>2 DEF IsTerminal
  <2>7. /\ next \in Receipt /\ actions \in Seq(AuditActions)
        /\ job'.version = job.version + 1
    BY <1>1, <2>2, <2>3, <2>4
  <2>8. QED
    BY <2>2, <2>4, <2>5, <2>6, <2>7 DEF SettledStep
<1>6. QED
  BY <1>3, <1>4, <1>5 DEF Extraction

(* An upload whose versions agree has the current row before it.           *)
LEMMA SubmitterSteps ==
    ASSUME TypeOK, ReadsCurrent, NEW u \in Submitters, SubmitterStep(u)
    PROVE  ReviewStep
<1>1. CASE CommitMarkDuplicate(u)
  <2> DEFINE t == uploads[u]
  <2>1. /\ uploads[u] # None
        /\ job.version = t.job.version
        /\ ~LeftAloneByDuplicate(t.receipt) => receipt.version = t.receipt.version
    BY <1>1 DEF CommitMarkDuplicate, IsFreshUpload
  <2>2. /\ IsSnapshotOf(t.receipt, receipt)
        /\ t.receipt.status = None => receipt.status = None
    BY <2>1 DEF ReadsCurrent
  <2>3. CASE LeftAloneByDuplicate(t.receipt)
    BY <1>1, <2>2, <2>3 DEF CommitMarkDuplicate, ReviewStep, DeferredStep
  <2>4. CASE ~LeftAloneByDuplicate(t.receipt)
    <3>1. t.receipt = receipt
      BY <2>1, <2>2, <2>4 DEF IsSnapshotOf
    <3>2. receipt.status # None
      BY <2>4, <3>1 DEF LeftAloneByDuplicate
    <3>3. FlaggedStep
      BY <1>1, <2>4, <3>1, <3>2 DEF CommitMarkDuplicate, FlaggedStep
    <3>4. QED
      BY <3>3 DEF ReviewStep
  <2>5. QED
    BY <2>3, <2>4
<1>2. CASE OpenMarkDuplicate(u) \/ AbandonMarkDuplicate(u)
  BY <1>2 DEF OpenMarkDuplicate, AbandonMarkDuplicate, ReviewStep
<1>3. QED
  BY <1>1, <1>2 DEF SubmitterStep

(* So has a request whose version agrees.                                  *)
LEMMA EmployeeSteps ==
    ASSUME TypeOK, ReadsCurrent, NEW e \in Employees, EmployeeStep(e)
    PROVE  ReviewStep
<1>1. CASE CommitChange(e)
  <2>1. /\ changes[e] # None
        /\ receipt.version = changes[e].snapshot.version
    BY <1>1 DEF CommitChange, IsFreshChange
  <2>2. /\ IsSnapshotOf(changes[e].snapshot, receipt)
        /\ changes[e].seen = changes[e].snapshot
        /\ ChangeBy(e, changes[e])
    BY <2>1 DEF ReadsCurrent
  <2>3. changes[e].snapshot = receipt /\ changes[e].seen = receipt
    BY <2>1, <2>2 DEF IsSnapshotOf
  <2>4. changes'[e] = None
    BY <1>1 DEF CommitChange, TypeOK
  <2>5. ChangedStep(e)
    BY <1>1, <2>1, <2>2, <2>3, <2>4 DEF CommitChange, ChangedStep
  <2>6. QED
    BY <2>5 DEF ReviewStep
<1>2. CASE ~CommitChange(e)
  <2>1. receipt' = receipt /\ trail' = trail
    BY <1>2 DEF EmployeeStep, Display, OpenCorrection, OpenDecision, Open, RollBackChange
  <2>2. QED
    BY <2>1 DEF ReviewStep
<1>3. QED
  BY <1>1, <1>2

(* Every step of the system is one of these.                               *)
LEMMA ReviewSteps ==
    ASSUME TypeOK, ReadsCurrent, [Next]_vars
    PROVE  ReviewStep
<1>1. CASE UNCHANGED vars
  BY <1>1 DEF vars, ReviewStep
<1>2. CASE Extraction
  BY <1>2, ExtractionSteps DEF ReviewStep
<1>3. QED
  BY <1>1, <1>2, SubmitterSteps, EmployeeSteps DEF Next
-----------------------------------------------------------------------------
(* A request leaves a business status.                                     *)
LEMMA ChangeHasStatus ==
    ASSUME NEW e, NEW c \in Change, ChangeBy(e, c)
    PROVE  /\ c.row \in Receipt
           /\ c.row.status # None
           /\ c.row.status \in ReceiptStatuses
<1>1. c.snapshot \in Receipt /\ c.row \in Receipt
  BY DEF Change
<1>2. ChangeStatus(c.snapshot, "APPROVED").status = "APPROVED"
  BY <1>1 DEF ChangeStatus, Receipt
<1>3. ChangeStatus(c.snapshot, "REJECTED").status = "REJECTED"
  BY <1>1 DEF ChangeStatus, Receipt
<1>4. CorrectedBy(e, c) =>
          c.row.status \in {"MANUAL_ENTRY", "NEEDS_REVIEW", "AUTO_APPROVED"}
  BY RouteType DEF CorrectedBy
<1>5. c.row.status \in ReceiptStatuses
  BY <1>2, <1>3, <1>4 DEF ChangeBy, ApprovedBy, RejectedBy, ReceiptStatuses
<1>6. QED
  BY <1>1, <1>5, ReviewNoneAssumption

(* A new duplicate keeps version, owner and data, and a final decision.    *)
LEMMA FlaggedRow ==
    ASSUME NEW row \in Receipt, row.status # None
    PROVE  LET next == RevalidatedAsDuplicate(row)
           IN  /\ next \in Receipt
               /\ next.version = row.version
               /\ next.ownerEmployeeId = row.ownerEmployeeId
               /\ next.currentData = row.currentData
               /\ next.ruleResults = Validate(row.currentData, TRUE)
               /\ IsTerminal(row.status) => next.status = row.status
               /\ ~IsTerminal(row.status) =>
                      next.status = Route(row.currentData, next.ruleResults)
<1>1. RevalidatedAsDuplicate(row) \in Receipt
  BY ReceiptMethodTypes
<1>2. QED
  BY <1>1 DEF RevalidatedAsDuplicate, UpdateData, Receipt

(* Saving changes the version and nothing else.                            *)
LEMMA SavedRow ==
    ASSUME NEW row \in Receipt
    PROVE  /\ Saved(row).version = row.version + 1
           /\ Saved(row).ownerEmployeeId = row.ownerEmployeeId
           /\ Saved(row).currentData = row.currentData
           /\ Saved(row).ruleResults = row.ruleResults
           /\ Saved(row).status = row.status
BY DEF Saved, Receipt

(* A step leaves the row or counts its version up, never changes its owner *)
(* and never takes back a status.                                          *)
LEMMA RowMoves ==
    ASSUME TypeOK, ReviewStep
    PROVE  /\ receipt' = receipt \/ receipt'.version = receipt.version + 1
           /\ receipt'.ownerEmployeeId = receipt.ownerEmployeeId
           /\ receipt.status # None => receipt'.status # None
<1>0. receipt \in Receipt
  BY DEF TypeOK
<1>1. CASE receipt' = receipt
  BY <1>1
<1>2. CASE SettledStep
  BY <1>2, SavedRow DEF SettledStep
<1>3. CASE FlaggedStep
  <2> DEFINE next == RevalidatedAsDuplicate(receipt)
  <2>1. receipt.status # None /\ receipt' = Saved(next)
    BY <1>3 DEF FlaggedStep
  <2>2. /\ next \in Receipt
        /\ next.version = receipt.version
        /\ next.ownerEmployeeId = receipt.ownerEmployeeId
        /\ next.status = receipt.status \/
           next.status = Route(receipt.currentData, next.ruleResults)
    BY <1>0, <2>1, FlaggedRow
  <2> HIDE DEF next
  <2>3. next.status # None
    BY <2>1, <2>2, RouteType, ReviewNoneAssumption DEF ReceiptStatuses
  <2>4. QED
    BY <2>1, <2>2, <2>3, SavedRow
<1>4. ASSUME NEW e \in Employees, ChangedStep(e)
      PROVE  /\ receipt'.version = receipt.version + 1
             /\ receipt'.ownerEmployeeId = receipt.ownerEmployeeId
             /\ receipt'.status # None
  <2>1. /\ changes[e] \in Change
        /\ changes[e].snapshot = receipt
        /\ ChangeBy(e, changes[e])
        /\ receipt' = Saved(changes[e].row)
    BY <1>4 DEF ChangedStep, TypeOK
  <2>2. /\ changes[e].row \in Receipt
        /\ changes[e].row.status # None
        /\ changes[e].row.version = receipt.version
        /\ changes[e].row.ownerEmployeeId = receipt.ownerEmployeeId
    BY <2>1, ChangeHasStatus DEF ChangeBy
  <2>3. QED
    BY <2>1, <2>2, SavedRow
<1>5. QED
  BY <1>1, <1>2, <1>3, <1>4 DEF ReviewStep, DeferredStep

(* A snapshot stays one when the row moves on.                             *)
LEMMA SnapshotStays ==
    ASSUME NEW row \in Receipt, NEW current \in Receipt, NEW next \in Receipt,
           IsSnapshotOf(row, current),
           next = current \/ next.version = current.version + 1
    PROVE  IsSnapshotOf(row, next)
<1>1. /\ row.version \in Nat /\ current.version \in Nat /\ next.version \in Nat
  BY DEF Receipt
<1>2. QED
  BY <1>1 DEF IsSnapshotOf

(* What a request opens on the current row is a change of that row.        *)
LEMMA OpenedChange ==
    ASSUME TypeOK, ReadsCurrent, NEW e \in Employees,
           (\E corrections \in Corrections : OpenCorrection(e, corrections))
               \/ (\E decision \in Decisions : OpenDecision(e, decision))
    PROVE  \E c \in Change :
              /\ changes' = [changes EXCEPT ![e] = c]
              /\ c.snapshot = receipt
              /\ c.seen = receipt
              /\ ChangeBy(e, c)
<1>0. receipt \in Receipt
  BY DEF TypeOK
<1>1. /\ MayModify(e, receipt)
      /\ views[e] # None
      /\ views[e].version = receipt.version
  BY DEF OpenCorrection, OpenDecision, IsCurrent, MayReview
<1>2. views[e] = receipt
  BY <1>1 DEF ReadsCurrent, IsSnapshotOf
<1>3. ASSUME NEW row \in Receipt, NEW action \in AuditActions, Open(e, row, action)
      PROVE  \E c \in Change :
                /\ changes' = [changes EXCEPT ![e] = c]
                /\ c.snapshot = receipt
                /\ c.seen = receipt
                /\ c.row = row
                /\ c.event.actor = e
                /\ c.event.action = action
                /\ c.event.previous = receipt.status
                /\ c.event.next = row.status
  <2> DEFINE event == Occurred(e, action, receipt.status, row.status)
             c == [snapshot |-> receipt, row |-> row, seen |-> views[e], event |-> event]
  <2>1. /\ event \in Event
        /\ event.actor = e
        /\ event.action = action
        /\ event.previous = receipt.status
        /\ event.next = row.status
    BY <1>0 DEF Occurred, Event, Receipt
  <2>2. changes' = [changes EXCEPT ![e] = c]
    BY <1>3 DEF Open
  <2> HIDE DEF event
  <2>3. c \in Change
    BY <1>0, <1>2, <2>1 DEF Change
  <2>4. /\ c.snapshot = receipt /\ c.seen = receipt /\ c.row = row /\ c.event = event
    BY <1>2
  <2> HIDE DEF c
  <2>5. QED
    BY <2>1, <2>2, <2>3, <2>4
<1>4. ASSUME NEW corrections \in Corrections, OpenCorrection(e, corrections)
      PROVE  \E c \in Change :
                /\ changes' = [changes EXCEPT ![e] = c]
                /\ c.snapshot = receipt
                /\ c.seen = receipt
                /\ ChangeBy(e, c)
  <2> DEFINE data == ApplyTo(corrections, receipt.currentData)
             results == Validate(data, MarkedDuplicate(receipt.ruleResults))
             next == CorrectedStatus(e, data, results)
             row == UpdateData(receipt, data, results, next)
  <2>1. data \in ReceiptData
    BY <1>0, ApplyToType, InputsAssumption DEF Receipt
  <2>2. results \in SUBSET RuleResult
    BY ValidateType
  <2>3. \E duplicate \in BOOLEAN : results = Validate(data, duplicate)
    <3>1. MarkedDuplicate(receipt.ruleResults) \in BOOLEAN
      BY DEF MarkedDuplicate
    <3> HIDE DEF data
    <3>2. results = Validate(data, MarkedDuplicate(receipt.ruleResults))
      OBVIOUS
    <3> HIDE DEF results
    <3>3. QED
      BY <3>1, <3>2
  <2>4. /\ \/ /\ next = Route(data, results)
              /\ Route(data, results) = "AUTO_APPROVED" =>
                     RoleOf[e] # "EMPLOYEE" /\ ~IsOwner(e, receipt)
           \/ Route(data, results) = "AUTO_APPROVED" /\ next = "NEEDS_REVIEW"
        /\ next \in ReceiptStatuses
    BY RouteType DEF CorrectedStatus, ReceiptStatuses
  <2>5. Open(e, row, "FIELDS_CORRECTED")
    BY <1>4 DEF OpenCorrection
  <2> HIDE DEF data, results, next
  <2>6. row \in Receipt
    BY <1>0, <2>1, <2>2, <2>4, ChangedRowTypes
  <2>7. /\ row.version = receipt.version
        /\ row.ownerEmployeeId = receipt.ownerEmployeeId
        /\ row.currentData = data
        /\ row.ruleResults = results
        /\ row.status = next
    BY <1>0 DEF UpdateData, Receipt
  <2> HIDE DEF row
  <2>8. PICK c \in Change :
            /\ changes' = [changes EXCEPT ![e] = c]
            /\ c.snapshot = receipt
            /\ c.seen = receipt
            /\ c.row = row
            /\ c.event.actor = e
            /\ c.event.action = "FIELDS_CORRECTED"
            /\ c.event.previous = receipt.status
            /\ c.event.next = row.status
    <3>1. "FIELDS_CORRECTED" \in AuditActions
      BY DEF AuditActions
    <3>2. QED
      BY <1>3, <2>5, <2>6, <3>1
  <2>9. CorrectedBy(e, c)
    BY <2>1, <2>3, <2>4, <2>7, <2>8 DEF CorrectedBy
  <2>10. ChangeBy(e, c)
    BY <1>1, <2>7, <2>8, <2>9 DEF ChangeBy
  <2>11. QED
    BY <2>8, <2>10
<1>5. ASSUME NEW decision \in Decisions, OpenDecision(e, decision)
      PROVE  \E c \in Change :
                /\ changes' = [changes EXCEPT ![e] = c]
                /\ c.snapshot = receipt
                /\ c.seen = receipt
                /\ ChangeBy(e, c)
  <2>1. /\ ChangeStatus(receipt, "APPROVED") \in Receipt
        /\ ChangeStatus(receipt, "REJECTED") \in Receipt
        /\ "REVIEW_APPROVED" \in AuditActions
        /\ "REVIEW_REJECTED" \in AuditActions
    BY <1>0, ChangedRowTypes DEF ReceiptStatuses, AuditActions
  <2>2. \A next : /\ ChangeStatus(receipt, next).version = receipt.version
                  /\ ChangeStatus(receipt, next).ownerEmployeeId = receipt.ownerEmployeeId
    BY <1>0 DEF ChangeStatus, Receipt
  <2>3. CASE decision = "APPROVE"
    <3>1. /\ Open(e, ChangeStatus(receipt, "APPROVED"), "REVIEW_APPROVED")
          /\ MayReview(e, receipt)
          /\ MayApprove(receipt)
      BY <1>5, <2>3 DEF OpenDecision
    <3>2. PICK c \in Change :
              /\ changes' = [changes EXCEPT ![e] = c]
              /\ c.snapshot = receipt
              /\ c.seen = receipt
              /\ c.row = ChangeStatus(receipt, "APPROVED")
              /\ c.event.actor = e
              /\ c.event.action = "REVIEW_APPROVED"
              /\ c.event.previous = receipt.status
              /\ c.event.next = ChangeStatus(receipt, "APPROVED").status
      BY <1>3, <2>1, <3>1
    <3>3. ChangeBy(e, c)
      BY <1>1, <2>2, <3>1, <3>2 DEF ChangeBy, ApprovedBy
    <3>4. QED
      BY <3>2, <3>3
  <2>4. CASE decision # "APPROVE"
    <3>1. Open(e, ChangeStatus(receipt, "REJECTED"), "REVIEW_REJECTED")
      BY <1>5, <2>4 DEF OpenDecision
    <3>2. PICK c \in Change :
              /\ changes' = [changes EXCEPT ![e] = c]
              /\ c.snapshot = receipt
              /\ c.seen = receipt
              /\ c.row = ChangeStatus(receipt, "REJECTED")
              /\ c.event.actor = e
              /\ c.event.action = "REVIEW_REJECTED"
              /\ c.event.previous = receipt.status
              /\ c.event.next = ChangeStatus(receipt, "REJECTED").status
      BY <1>3, <2>1, <3>1
    <3>3. ChangeBy(e, c)
      BY <1>1, <2>2, <3>2 DEF ChangeBy, RejectedBy
    <3>4. QED
      BY <3>2, <3>3
  <2>5. QED
    BY <2>3, <2>4
<1>6. QED
  BY <1>4, <1>5

(* Reads stay current.                                                     *)
LEMMA ReadsInductive ==
    ASSUME TypeOK, TypeOK', ReadsCurrent, [Next]_vars
    PROVE  ReadsCurrent'
<1>0. /\ receipt \in Receipt /\ receipt' \in Receipt
      /\ job \in Job /\ job' \in Job
      /\ job.version \in Nat /\ job'.version \in Nat
  BY DEF TypeOK, Job
<1>1. /\ receipt' = receipt \/ receipt'.version = receipt.version + 1
      /\ receipt.status # None => receipt'.status # None
  BY ReviewSteps, RowMoves
<1>2. \A row \in Receipt : IsSnapshotOf(row, receipt) => IsSnapshotOf(row, receipt')
  BY <1>0, <1>1, SnapshotStays
<1>3. \A u \in Submitters : uploads[u] # None =>
          /\ uploads[u].receipt \in Receipt
          /\ uploads[u].job.version \in Nat
          /\ uploads[u].receipt.status \in ReceiptStatuses \cup {None}
  BY DEF TypeOK, Upload, Job, Receipt
<1>4. \A e \in Employees :
          /\ views[e] # None => views[e] \in Receipt
          /\ changes[e] # None => changes[e].snapshot \in Receipt
  BY DEF TypeOK, Change
<1>5. views' = views =>
          \A e \in Employees : views'[e] # None => IsSnapshotOf(views'[e], receipt')
  BY <1>2, <1>4 DEF ReadsCurrent
<1>6. \A e \in Employees : changes'[e] = changes[e] /\ changes'[e] # None =>
          /\ IsSnapshotOf(changes'[e].snapshot, receipt')
          /\ changes'[e].seen = changes'[e].snapshot
          /\ ChangeBy(e, changes'[e])
  BY <1>2, <1>4 DEF ReadsCurrent
<1>7. \A u \in Submitters : uploads'[u] = uploads[u] /\ uploads'[u] # None =>
          IsSnapshotOf(uploads'[u].receipt, receipt')
  BY <1>2, <1>3 DEF ReadsCurrent
<1>8. job'.version = job.version + 1 =>
          \A u \in Submitters : uploads'[u] = uploads[u] /\ uploads'[u] # None =>
              uploads'[u].job.version <= job'.version /\ uploads'[u].job.version # job'.version
  BY <1>0, <1>3 DEF ReadsCurrent
<1>9. CASE UNCHANGED vars
  BY <1>9 DEF vars, ReadsCurrent
<1>10. CASE Extraction
  <2>1. job'.version = job.version + 1
    BY <1>10, ExtractionSteps DEF SettledStep
  <2>2. UNCHANGED <<views, changes, uploads>>
    BY <1>10 DEF Extraction, QualityRejected, Extracted, ExtractionFailed, Settle
  <2>3. QED
    BY <1>5, <1>6, <1>7, <1>8, <2>1, <2>2 DEF ReadsCurrent
<1>11. ASSUME NEW u \in Submitters, OpenMarkDuplicate(u)
       PROVE  ReadsCurrent'
  <2>1. /\ UNCHANGED <<receipt, job, trail, views, changes>>
        /\ uploads' = [uploads EXCEPT ![u] = [receipt |-> receipt, job |-> job]]
    BY <1>11 DEF OpenMarkDuplicate
  <2>2. /\ uploads'[u].receipt = receipt /\ uploads'[u].job = job
        /\ \A v \in Submitters : v # u => uploads'[v] = uploads[v]
    BY <2>1 DEF TypeOK
  <2>3. IsSnapshotOf(receipt, receipt)
    BY <1>0 DEF IsSnapshotOf, Receipt
  <2>4. \A v \in Submitters : uploads'[v] # None =>
            /\ IsSnapshotOf(uploads'[v].receipt, receipt)
            /\ uploads'[v].job.version <= job.version
            /\ uploads'[v].job.version = job.version /\ uploads'[v].receipt.status = None =>
                   receipt.status = None
    BY <1>0, <2>2, <2>3 DEF ReadsCurrent
  <2>5. QED
    BY <1>5, <1>6, <2>1, <2>4 DEF ReadsCurrent
<1>12. ASSUME NEW u \in Submitters, CommitMarkDuplicate(u)
       PROVE  ReadsCurrent'
  <2>1. /\ UNCHANGED <<views, changes>>
        /\ uploads' = [uploads EXCEPT ![u] = None]
        /\ job' = Saved(MarkJobDuplicate(uploads[u].job))
        /\ uploads[u] # None
        /\ job.version = uploads[u].job.version
    BY <1>12 DEF CommitMarkDuplicate, IsFreshUpload
  <2>2. \A v \in Submitters : uploads'[v] # None => uploads'[v] = uploads[v]
    BY <2>1 DEF TypeOK
  <2>3. job'.version = job.version + 1
    <3>1. uploads[u].job \in Job
      BY <2>1 DEF TypeOK, Upload
    <3>2. QED
      BY <2>1, <3>1 DEF Job, Saved, MarkJobDuplicate
  <2>4. QED
    BY <1>5, <1>6, <1>7, <1>8, <2>1, <2>2, <2>3 DEF ReadsCurrent
<1>13. ASSUME NEW u \in Submitters, AbandonMarkDuplicate(u)
       PROVE  ReadsCurrent'
  <2>1. /\ UNCHANGED <<receipt, job, trail, views, changes>>
        /\ uploads' = [uploads EXCEPT ![u] = None]
    BY <1>13 DEF AbandonMarkDuplicate
  <2>2. \A v \in Submitters : uploads'[v] # None => uploads'[v] = uploads[v]
    BY <2>1 DEF TypeOK
  <2>3. QED
    BY <1>5, <1>6, <2>1, <2>2 DEF ReadsCurrent
<1>14. \A u \in Submitters : job' = job /\ uploads' = uploads /\ uploads'[u] # None =>
          /\ IsSnapshotOf(uploads'[u].receipt, receipt')
          /\ uploads'[u].job.version <= job'.version
          /\ \/ receipt' = receipt
             \/ receipt.status # None /\ receipt'.status # None
             => (uploads'[u].job.version = job'.version /\ uploads'[u].receipt.status = None
                     => receipt'.status = None)
  BY <1>1, <1>7 DEF ReadsCurrent
<1>15. ASSUME NEW e \in Employees, Display(e)
       PROVE  ReadsCurrent'
  <2>1. /\ UNCHANGED <<receipt, job, trail, changes, uploads>>
        /\ views' = [views EXCEPT ![e] = receipt]
    BY <1>15 DEF Display
  <2>2. IsSnapshotOf(receipt, receipt)
    BY <1>0 DEF IsSnapshotOf, Receipt
  <2>3. \A f \in Employees : views'[f] # None => IsSnapshotOf(views'[f], receipt')
    BY <2>1, <2>2 DEF ReadsCurrent, TypeOK
  <2>4. QED
    BY <1>6, <1>14, <2>1, <2>3 DEF ReadsCurrent
<1>16. ASSUME NEW e \in Employees,
              \/ \E corrections \in Corrections : OpenCorrection(e, corrections)
              \/ \E decision \in Decisions : OpenDecision(e, decision)
       PROVE  ReadsCurrent'
  <2>1. UNCHANGED <<receipt, job, trail, views, uploads>>
    BY <1>16 DEF OpenCorrection, OpenDecision, Open
  <2>2. PICK c \in Change :
            /\ changes' = [changes EXCEPT ![e] = c]
            /\ c.snapshot = receipt
            /\ c.seen = receipt
            /\ ChangeBy(e, c)
    BY <1>16, OpenedChange
  <2>3. IsSnapshotOf(receipt, receipt)
    BY <1>0 DEF IsSnapshotOf, Receipt
  <2>4. /\ changes'[e] = c
        /\ \A f \in Employees : f # e => changes'[f] = changes[f]
    BY <2>2 DEF TypeOK
  <2>5. \A f \in Employees : changes'[f] # None =>
            /\ IsSnapshotOf(changes'[f].snapshot, receipt')
            /\ changes'[f].seen = changes'[f].snapshot
            /\ ChangeBy(f, changes'[f])
    BY <1>6, <2>1, <2>2, <2>3, <2>4
  <2>6. QED
    BY <1>5, <1>14, <2>1, <2>5 DEF ReadsCurrent
<1>17. ASSUME NEW e \in Employees, CommitChange(e)
       PROVE  ReadsCurrent'
  <2>1. /\ UNCHANGED <<job, uploads>>
        /\ views' = [views EXCEPT ![e] = receipt'] \/ views' = views
        /\ changes' = [changes EXCEPT ![e] = None]
        /\ changes[e] # None
        /\ receipt.version = changes[e].snapshot.version
    BY <1>17 DEF CommitChange, IsFreshChange
  <2>2. receipt = changes[e].snapshot /\ MayModify(e, changes[e].snapshot)
    BY <2>1 DEF ReadsCurrent, IsSnapshotOf, ChangeBy
  <2>3. receipt.status # None /\ receipt'.status # None
    BY <1>1, <2>2 DEF MayModify
  <2>4. IsSnapshotOf(receipt', receipt')
    BY <1>0 DEF IsSnapshotOf, Receipt
  <2>5. \A f \in Employees : views'[f] # None => IsSnapshotOf(views'[f], receipt')
    BY <1>2, <1>4, <2>1, <2>4 DEF ReadsCurrent, TypeOK
  <2>6. \A f \in Employees : changes'[f] # None => changes'[f] = changes[f]
    BY <2>1 DEF TypeOK
  <2>7. QED
    BY <1>6, <1>14, <2>1, <2>3, <2>5, <2>6 DEF ReadsCurrent
<1>18. ASSUME NEW e \in Employees, RollBackChange(e)
       PROVE  ReadsCurrent'
  <2>1. /\ UNCHANGED <<receipt, job, trail, views, uploads>>
        /\ changes' = [changes EXCEPT ![e] = None]
    BY <1>18 DEF RollBackChange
  <2>2. \A f \in Employees : changes'[f] # None => changes'[f] = changes[f]
    BY <2>1 DEF TypeOK
  <2>3. QED
    BY <1>5, <1>6, <1>14, <2>1, <2>2 DEF ReadsCurrent
<1>19. QED
  BY <1>9, <1>10, <1>11, <1>12, <1>13, <1>15, <1>16, <1>17, <1>18
     DEF Next, SubmitterStep, EmployeeStep
-----------------------------------------------------------------------------
(* Data that can be paid: a shop, a date and a positive amount.            *)
Complete(data) ==
    /\ data # None
    /\ data.shopName # None
    /\ data.date # None
    /\ data.totalAmount # None
    /\ data.totalAmount > 0

(* Data that fails no rule can be paid.                                    *)
LEMMA CleanIsComplete ==
    ASSUME NEW data \in ReceiptData \cup {None}, NEW duplicate,
           ~AnyFailed(Validate(data, duplicate))
    PROVE  Complete(data)
<1> DEFINE given == IF data = None THEN EmptyData ELSE data
<1>1. \A c \in RuleCodes : OutcomeOf(c, given, duplicate) # "FAIL"
  <2> SUFFICES ASSUME NEW c \in RuleCodes
               PROVE  OutcomeOf(c, given, duplicate) # "FAIL"
    OBVIOUS
  <2> DEFINE result == [code |-> c, outcome |-> OutcomeOf(c, given, duplicate)]
  <2>1. result \in Validate(data, duplicate)
    BY DEF Validate
  <2>2. result.outcome # "FAIL"
    BY <2>1 DEF AnyFailed
  <2>3. QED
    BY <2>2
<1>2. /\ "SHOP_NAME_REQUIRED" \in RuleCodes
      /\ "DATE_REQUIRED" \in RuleCodes
      /\ "TOTAL_AMOUNT_REQUIRED" \in RuleCodes
      /\ "TOTAL_AMOUNT_POSITIVE" \in RuleCodes
  BY DEF RuleCodes
<1>3. /\ OutcomeOf("SHOP_NAME_REQUIRED", given, duplicate) = Required(given.shopName)
      /\ OutcomeOf("DATE_REQUIRED", given, duplicate) = Required(given.date)
      /\ OutcomeOf("TOTAL_AMOUNT_REQUIRED", given, duplicate) = Required(given.totalAmount)
      /\ OutcomeOf("TOTAL_AMOUNT_POSITIVE", given, duplicate) = AmountRule(given.totalAmount)
  BY DEF OutcomeOf
<1>4. /\ Required(given.shopName) # "FAIL"
      /\ Required(given.date) # "FAIL"
      /\ Required(given.totalAmount) # "FAIL"
      /\ AmountRule(given.totalAmount) # "FAIL"
  BY <1>1, <1>2, <1>3
<1>5. given.shopName # None /\ given.date # None /\ given.totalAmount # None
  BY <1>4 DEF Required, PassIf
<1>6. given.totalAmount > 0
  BY <1>4, <1>5 DEF AmountRule, PassIf
<1>7. data # None /\ given = data
  BY <1>5 DEF EmptyData
<1>8. QED
  BY <1>5, <1>6, <1>7 DEF Complete

(* A row whose rules, data and status agree.                               *)
RowOK(row) ==
    /\ row.ruleResults # {} =>
          /\ \E duplicate \in BOOLEAN :
                row.ruleResults = Validate(row.currentData, duplicate)
          /\ row.status = "AUTO_APPROVED" => ~AnyFailed(row.ruleResults)
          /\ row.status = "MANUAL_ENTRY" <=>
                Unusable(row.currentData) /\ ~IsTerminal(row.status)
    /\ row.status = "AUTO_APPROVED" => row.ruleResults # {}
    /\ row.status = "APPROVED" => Complete(row.currentData)

(* What the router decides agrees, also when a person is asked instead of  *)
(* an automatic approval.                                                  *)
LEMMA RoutedRowOK ==
    ASSUME NEW row \in Receipt,
           \E duplicate \in BOOLEAN :
               row.ruleResults = Validate(row.currentData, duplicate),
           \/ row.status = Route(row.currentData, row.ruleResults)
           \/ /\ Route(row.currentData, row.ruleResults) = "AUTO_APPROVED"
              /\ row.status = "NEEDS_REVIEW"
    PROVE  RowOK(row)
<1>1. row.ruleResults # {}
  BY DEF Validate, RuleCodes
<1>2. row.status \in {"MANUAL_ENTRY", "NEEDS_REVIEW", "AUTO_APPROVED"}
  BY RouteType
<1>3. /\ row.status = "AUTO_APPROVED" => ~AnyFailed(row.ruleResults)
      /\ row.status = "MANUAL_ENTRY" <=> Unusable(row.currentData)
  BY DEF Route
<1>4. QED
  BY <1>1, <1>2, <1>3 DEF RowOK, IsTerminal

(* Only the version of a row changes when it is saved.                     *)
LEMMA SavedRowOK ==
    ASSUME NEW row \in Receipt, RowOK(row)
    PROVE  RowOK(Saved(row))
BY SavedRow DEF RowOK

(* Rows that agree go on agreeing.                                         *)
LEMMA RowStaysOK ==
    ASSUME TypeOK, RowOK(receipt), ReviewStep
    PROVE  RowOK(receipt')
<1>0. receipt \in Receipt
  BY DEF TypeOK
<1>1. CASE receipt' = receipt
  BY <1>1
<1>2. CASE SettledStep
  <2>1. PICK next \in Receipt :
            /\ \/ next.ruleResults = {} /\ next.status \notin {"AUTO_APPROVED", "APPROVED"}
               \/ /\ \E duplicate \in BOOLEAN :
                        next.ruleResults = Validate(next.currentData, duplicate)
                  /\ next.status = Route(next.currentData, next.ruleResults)
            /\ receipt' = Saved(next)
    BY <1>2 DEF SettledStep
  <2>2. RowOK(next)
    <3>1. CASE next.ruleResults = {} /\ next.status \notin {"AUTO_APPROVED", "APPROVED"}
      BY <3>1 DEF RowOK
    <3>2. QED
      BY <2>1, <3>1, RoutedRowOK
  <2>3. QED
    BY <2>1, <2>2, SavedRowOK
<1>3. CASE FlaggedStep
  <2> DEFINE next == RevalidatedAsDuplicate(receipt)
  <2>1. receipt.status # None /\ receipt' = Saved(next)
    BY <1>3 DEF FlaggedStep
  <2>2. /\ next \in Receipt
        /\ next.currentData = receipt.currentData
        /\ next.ruleResults = Validate(receipt.currentData, TRUE)
        /\ IsTerminal(receipt.status) => next.status = receipt.status
        /\ ~IsTerminal(receipt.status) =>
               next.status = Route(receipt.currentData, next.ruleResults)
    BY <1>0, <2>1, FlaggedRow
  <2> HIDE DEF next
  <2>3. CASE ~IsTerminal(receipt.status)
    <3>1. RowOK(next)
      BY <2>2, <2>3, RoutedRowOK
    <3>2. QED
      BY <2>1, <2>2, <3>1, SavedRowOK
  <2>4. CASE IsTerminal(receipt.status)
    <3>1. RowOK(next)
      BY <2>2, <2>4 DEF RowOK, IsTerminal
    <3>2. QED
      BY <2>1, <2>2, <3>1, SavedRowOK
  <2>5. QED
    BY <2>3, <2>4
<1>4. ASSUME NEW e \in Employees, ChangedStep(e)
      PROVE  RowOK(receipt')
  <2> DEFINE c == changes[e]
  <2>1. /\ c \in Change
        /\ c.snapshot = receipt
        /\ ChangeBy(e, c)
        /\ receipt' = Saved(c.row)
    BY <1>4 DEF ChangedStep, TypeOK
  <2>2. c.row \in Receipt
    BY <2>1 DEF Change
  <2> HIDE DEF c
  <2>3. CASE CorrectedBy(e, c)
    <3>1. RowOK(c.row)
      BY <2>2, <2>3, RoutedRowOK DEF CorrectedBy
    <3>2. QED
      BY <2>1, <2>2, <3>1, SavedRowOK
  <2>4. \A status : /\ ChangeStatus(receipt, status).status = status
                    /\ ChangeStatus(receipt, status).currentData = receipt.currentData
                    /\ ChangeStatus(receipt, status).ruleResults = receipt.ruleResults
    BY <1>0 DEF ChangeStatus, Receipt
  <2>5. receipt.status # None /\ ~IsTerminal(receipt.status)
    BY <2>1 DEF ChangeBy, MayModify
  <2>6. CASE ApprovedBy(e, c)
    <3>1. Complete(receipt.currentData)
      BY <2>1, <2>6 DEF ApprovedBy, MayApprove, Complete
    <3>2. c.row = ChangeStatus(receipt, "APPROVED")
      BY <2>1, <2>6 DEF ApprovedBy
    <3>3. RowOK(c.row)
      BY <2>4, <3>1, <3>2 DEF RowOK, IsTerminal
    <3>4. QED
      BY <2>1, <2>2, <3>3, SavedRowOK
  <2>7. CASE RejectedBy(e, c)
    <3>1. c.row = ChangeStatus(receipt, "REJECTED")
      BY <2>1, <2>7 DEF RejectedBy
    <3>2. RowOK(c.row)
      BY <2>4, <3>1 DEF RowOK, IsTerminal
    <3>3. QED
      BY <2>1, <2>2, <3>2, SavedRowOK
  <2>8. QED
    BY <2>1, <2>3, <2>6, <2>7 DEF ChangeBy
<1>5. QED
  BY <1>1, <1>2, <1>3, <1>4 DEF ReviewStep, DeferredStep

(* A row that agrees can be paid once it is approved.                      *)
LEMMA RowOKComplete ==
    ASSUME NEW row \in Receipt, RowOK(row), row.status \in {"APPROVED", "AUTO_APPROVED"}
    PROVE  Complete(row.currentData)
<1>1. CASE row.status = "APPROVED"
  BY <1>1 DEF RowOK
<1>2. CASE row.status = "AUTO_APPROVED"
  <2>1. PICK duplicate \in BOOLEAN :
            /\ row.ruleResults = Validate(row.currentData, duplicate)
            /\ ~AnyFailed(row.ruleResults)
    BY <1>2 DEF RowOK
  <2>2. row.currentData \in ReceiptData \cup {None}
    BY DEF Receipt
  <2>3. QED
    BY <2>1, <2>2, CleanIsComplete
<1>3. QED
  BY <1>1, <1>2
-----------------------------------------------------------------------------
(* The events of a verdict are a chain from no status to the one they      *)
(* leave, and none of them is a person's.                                  *)
LEMMA SettledChain ==
    ASSUME NEW status \in ReceiptStatuses \cup {None},
           NEW actions \in Seq(AuditActions), Len(actions) > 0,
           \A i \in 1..Len(actions) : actions[i] \notin
               {"FIELDS_CORRECTED", "REVIEW_APPROVED", "REVIEW_REJECTED"}
    PROVE  LET events == SettledEvents(actions, status)
           IN  /\ \A i \in 1..Len(actions) : events[i].previous = None
               /\ \A i \in 1..Len(actions) : i < Len(actions) => events[i].next = None
               /\ events[Len(actions)].next = status
               /\ \A i \in 1..Len(actions) : ~IsByPerson(events[i])
<1>1. Len(actions) \in Nat
  OBVIOUS
<1>2. \A i \in 1..Len(actions) :
          SettledEvents(actions, status)[i] =
              Occurred("system", actions[i], None, IF i = Len(actions) THEN status ELSE None)
  BY DEF SettledEvents
<1>3. \A i \in 1..Len(actions) :
          /\ SettledEvents(actions, status)[i].previous = None
          /\ SettledEvents(actions, status)[i].next =
                 IF i = Len(actions) THEN status ELSE None
          /\ SettledEvents(actions, status)[i].action = actions[i]
  <2>1. \A actor, action, previous, next :
            LET event == Occurred(actor, action, previous, next)
            IN  /\ event.action = action
                /\ event.previous = previous
                /\ event.next = next
    BY DEF Occurred
  <2>2. QED
    BY <1>2, <2>1
<1>4. QED
  BY <1>1, <1>3 DEF IsByPerson

(* The trail tells the history of the status, no person is in it before    *)
(* the verdict, and an approval after a person's change is a reviewer's.   *)
TrailOK ==
    /\ Len(trail) > 0
    /\ TrailIsChain
    /\ receipt.status = None => \A i \in 1..Len(trail) : ~IsByPerson(trail[i])
    /\ FourEyes

(* A trail that grows by one event is a chain if the event starts from the *)
(* status the trail left.                                                  *)
LEMMA TrailAppended ==
    ASSUME TypeOK, TrailOK, NEW event \in Event, trail' = Append(trail, event),
           event.previous = receipt.status, event.next = receipt'.status
    PROVE  /\ Len(trail') = Len(trail) + 1
           /\ \A i \in 1..Len(trail) : trail'[i] = trail[i]
           /\ trail'[Len(trail')] = event
           /\ TrailIsChain'
<1>1. trail \in Seq(Event) /\ Len(trail) \in Nat /\ Len(trail) > 0
  BY DEF TypeOK, TrailOK
<1>2. /\ Len(trail') = Len(trail) + 1
      /\ \A i \in 1..Len(trail) : trail'[i] = trail[i]
      /\ trail'[Len(trail) + 1] = event
  BY <1>1
<1>3. ASSUME NEW i \in 1..Len(trail') - 1
      PROVE  trail'[i].next = trail'[i + 1].previous
  <2>1. CASE i = Len(trail)
    <3>1. trail'[i] = trail[Len(trail)] /\ trail'[i + 1] = event
      BY <1>1, <1>2, <2>1
    <3>2. QED
      BY <3>1 DEF TrailOK, TrailIsChain
  <2>2. CASE i # Len(trail)
    <3>1. i \in 1..Len(trail) - 1 /\ i \in 1..Len(trail) /\ i + 1 \in 1..Len(trail)
      BY <1>1, <1>2, <2>2
    <3>2. trail'[i] = trail[i] /\ trail'[i + 1] = trail[i + 1]
      BY <1>2, <3>1
    <3>3. QED
      BY <3>1, <3>2 DEF TrailOK, TrailIsChain
  <2>3. QED
    BY <2>1, <2>2
<1>4. trail'[Len(trail')] = event
  BY <1>1, <1>2
<1>5. QED
  BY <1>2, <1>3, <1>4 DEF TrailIsChain

(* An event of the system leaves the last change by a person where it was. *)
LEMMA SystemEventKeepsEyes ==
    ASSUME TypeOK, TrailOK, Len(trail') = Len(trail) + 1,
           \A i \in 1..Len(trail) : trail'[i] = trail[i],
           ~IsByPerson(trail'[Len(trail')]),
           receipt'.ownerEmployeeId = receipt.ownerEmployeeId,
           receipt'.status \in {"APPROVED", "AUTO_APPROVED"} =>
               receipt.status \in {"APPROVED", "AUTO_APPROVED"}
    PROVE  FourEyes'
<1>1. Len(trail) \in Nat /\ Len(trail') \in Nat
  BY DEF TypeOK
<1>2. SUFFICES ASSUME receipt'.status \in {"APPROVED", "AUTO_APPROVED"},
                      NEW i \in 1..Len(trail'), IsLastByPerson(i)'
               PROVE  trail'[i].actor # Owner' /\ RoleOf[trail'[i].actor] # "EMPLOYEE"
  BY DEF FourEyes
<1>3. i \in 1..Len(trail) /\ trail'[i] = trail[i]
  BY <1>1, <1>2 DEF IsLastByPerson
<1>4. IsLastByPerson(i)
  <2>1. ASSUME NEW j \in 1..Len(trail), j > i
        PROVE  ~IsByPerson(trail[j])
    <3>1. j \in 1..Len(trail') /\ trail'[j] = trail[j]
      BY <1>1
    <3>2. QED
      BY <1>2, <2>1, <3>1 DEF IsLastByPerson
  <2>2. QED
    BY <1>2, <1>3, <2>1 DEF IsLastByPerson
<1>5. QED
  BY <1>2, <1>3, <1>4 DEF TrailOK, FourEyes, Owner

(* The trail stays a chain, and four eyes stay four.                       *)
LEMMA TrailStaysOK ==
    ASSUME TypeOK, TypeOK', RowOK(receipt), RowOK(receipt'), TrailOK, ReviewStep
    PROVE  TrailOK'
<1>0. /\ receipt \in Receipt /\ receipt' \in Receipt
      /\ receipt.status \in ReceiptStatuses \cup {None}
      /\ receipt'.status \in ReceiptStatuses \cup {None}
      /\ trail \in Seq(Event) /\ Len(trail) \in Nat /\ Len(trail) > 0
      /\ trail' \in Seq(Event)
  BY DEF TypeOK, Receipt, TrailOK
<1>1. /\ receipt'.ownerEmployeeId = receipt.ownerEmployeeId
      /\ receipt.status # None => receipt'.status # None
  BY RowMoves
<1>2. CASE receipt' = receipt /\ trail' = trail
  BY <1>2 DEF TrailOK, TrailIsChain, FourEyes, IsLastByPerson, Owner
<1>3. CASE SettledStep
  <2>1. PICK next \in Receipt, actions \in Seq(AuditActions) :
            /\ Len(actions) > 0
            /\ \A i \in 1..Len(actions) : actions[i] \notin
                   {"FIELDS_CORRECTED", "REVIEW_APPROVED", "REVIEW_REJECTED"}
            /\ receipt' = Saved(next)
            /\ trail' = trail \o SettledEvents(actions, next.status)
    BY <1>3 DEF SettledStep
  <2> DEFINE events == SettledEvents(actions, next.status)
  <2>2. /\ next.status \in ReceiptStatuses \cup {None}
        /\ receipt'.status = next.status
        /\ receipt.status = None
    BY <1>3, <2>1, SavedRow DEF SettledStep, Receipt
  <2>3. /\ events \in Seq(Event)
        /\ Len(events) = Len(actions)
        /\ Len(actions) \in Nat
    BY <2>2, SettledEventsType
  <2>4. /\ \A i \in 1..Len(actions) : events[i].previous = None
        /\ \A i \in 1..Len(actions) : i < Len(actions) => events[i].next = None
        /\ events[Len(actions)].next = next.status
        /\ \A i \in 1..Len(actions) : ~IsByPerson(events[i])
    BY <2>1, <2>2, SettledChain
  <2> HIDE DEF events
  <2>5. trail' = trail \o events
    BY <2>1 DEF events
  <2>6. /\ Len(trail') = Len(trail) + Len(actions)
        /\ \A i \in 1..Len(trail) : trail'[i] = trail[i]
        /\ \A i \in 1..Len(actions) : trail'[Len(trail) + i] = events[i]
    <3>1. /\ Len(trail \o events) = Len(trail) + Len(events)
          /\ \A i \in 1..Len(trail) : (trail \o events)[i] = trail[i]
          /\ \A i \in 1..Len(events) : (trail \o events)[Len(trail) + i] = events[i]
      BY <1>0, <2>3, Followed
    <3>2. QED
      BY <2>3, <2>5, <3>1
  <2>7. \A i \in 1..Len(trail') : i <= Len(trail) => i \in 1..Len(trail)
    BY <1>0, <2>3, <2>6
  <2>8. \A i \in 1..Len(trail') : ~(i <= Len(trail)) =>
            i - Len(trail) \in 1..Len(actions) /\ Len(trail) + (i - Len(trail)) = i
    BY <1>0, <2>3, <2>6
  <2>9. \A i \in 1..Len(trail') : ~IsByPerson(trail'[i])
    <3> SUFFICES ASSUME NEW i \in 1..Len(trail')
                 PROVE  ~IsByPerson(trail'[i])
      OBVIOUS
    <3>1. CASE i <= Len(trail)
      BY <2>2, <2>6, <2>7, <3>1 DEF TrailOK
    <3>2. CASE ~(i <= Len(trail))
      <4>1. trail'[i] = events[i - Len(trail)] /\ i - Len(trail) \in 1..Len(actions)
        BY <2>6, <2>8, <3>2
      <4>2. QED
        BY <2>4, <4>1
    <3>3. QED
      BY <3>1, <3>2
  <2>10. FourEyes'
    BY <2>9 DEF FourEyes, IsLastByPerson
  <2>11. trail'[Len(trail')].next = receipt'.status
    <3>1. Len(actions) \in 1..Len(actions)
      BY <2>1, <2>3
    <3>2. trail'[Len(trail')] = events[Len(actions)]
      BY <2>6, <3>1
    <3>3. QED
      BY <2>2, <2>4, <3>2
  <2>12. ASSUME NEW i \in 1..Len(trail') - 1
         PROVE  trail'[i].next = trail'[i + 1].previous
    <3>1. /\ i \in 1..Len(trail') /\ i + 1 \in 1..Len(trail')
      BY <1>0, <2>3, <2>6
    <3>2. CASE i < Len(trail)
      <4>1. i \in 1..Len(trail) - 1 /\ i \in 1..Len(trail) /\ i + 1 \in 1..Len(trail)
        BY <1>0, <3>2
      <4>2. trail'[i] = trail[i] /\ trail'[i + 1] = trail[i + 1]
        BY <2>6, <4>1
      <4>3. QED
        BY <4>1, <4>2 DEF TrailOK, TrailIsChain
    <3>3. CASE i = Len(trail)
      <4>1. trail'[i] = trail[Len(trail)] /\ trail[Len(trail)].next = None
        BY <1>0, <2>2, <2>6, <3>3 DEF TrailOK, TrailIsChain
      <4>2. 1 \in 1..Len(actions) /\ trail'[i + 1] = events[1]
        BY <2>1, <2>3, <2>6, <3>3
      <4>3. QED
        BY <2>4, <4>1, <4>2
    <3>4. CASE i > Len(trail)
      <4> DEFINE k == i - Len(trail)
      <4>1. /\ k \in 1..Len(actions) /\ k + 1 \in 1..Len(actions) /\ k < Len(actions)
            /\ Len(trail) + k = i /\ Len(trail) + (k + 1) = i + 1
        BY <1>0, <2>3, <2>6, <3>4
      <4> HIDE DEF k
      <4>2. trail'[i] = events[k] /\ trail'[i + 1] = events[k + 1]
        BY <2>6, <4>1
      <4>3. QED
        BY <2>4, <4>1, <4>2
    <3>5. QED
      BY <1>0, <3>2, <3>3, <3>4
  <2>13. Len(trail') > 0
    BY <1>0, <2>3, <2>6
  <2>14. QED
    BY <2>9, <2>10, <2>11, <2>12, <2>13 DEF TrailOK, TrailIsChain
<1>4. CASE DeferredStep
  <2> DEFINE event == Occurred("system", "DUPLICATE_DETECTED", None, None)
  <2>1. /\ event \in Event
        /\ event.previous = None /\ event.next = None
        /\ ~IsByPerson(event)
    BY DEF Occurred, Event, AuditActions, IsByPerson
  <2>2. /\ trail' = Append(trail, event)
        /\ receipt' = receipt
        /\ receipt.status = None
    BY <1>4 DEF DeferredStep
  <2> HIDE DEF event
  <2>3. /\ Len(trail') = Len(trail) + 1
        /\ \A i \in 1..Len(trail) : trail'[i] = trail[i]
        /\ trail'[Len(trail')] = event
        /\ TrailIsChain'
    BY <2>1, <2>2, TrailAppended
  <2>4. FourEyes'
    BY <1>1, <2>1, <2>2, <2>3, SystemEventKeepsEyes
  <2>5. \A i \in 1..Len(trail') : ~IsByPerson(trail'[i])
    <3>1. \A i \in 1..Len(trail') : i \in 1..Len(trail) \/ i = Len(trail')
      BY <1>0, <2>3
    <3>2. QED
      BY <2>1, <2>2, <2>3, <3>1 DEF TrailOK
  <2>6. QED
    BY <1>0, <2>3, <2>4, <2>5 DEF TrailOK
<1>5. CASE FlaggedStep
  <2> DEFINE next == RevalidatedAsDuplicate(receipt)
             event == Occurred("system", "DUPLICATE_DETECTED", receipt.status, next.status)
  <2>1. /\ receipt.status # None
        /\ receipt' = Saved(next)
        /\ trail' = Append(trail, event)
    BY <1>5 DEF FlaggedStep
  <2>2. /\ next \in Receipt
        /\ next.status \in ReceiptStatuses \cup {None}
        /\ next.ruleResults = Validate(receipt.currentData, TRUE)
        /\ IsTerminal(receipt.status) => next.status = receipt.status
        /\ ~IsTerminal(receipt.status) =>
               next.status = Route(receipt.currentData, next.ruleResults)
    BY <1>0, <2>1, FlaggedRow DEF Receipt
  <2> HIDE DEF next
  <2>3. receipt'.status = next.status
    BY <2>1, <2>2, SavedRow
  <2>4. /\ event \in Event
        /\ event.previous = receipt.status /\ event.next = receipt'.status
        /\ ~IsByPerson(event)
    BY <1>0, <2>2, <2>3 DEF Occurred, Event, AuditActions, IsByPerson
  <2> HIDE DEF event
  <2>5. /\ Len(trail') = Len(trail) + 1
        /\ \A i \in 1..Len(trail) : trail'[i] = trail[i]
        /\ trail'[Len(trail')] = event
        /\ TrailIsChain'
    BY <2>1, <2>4, TrailAppended
  <2>6. receipt'.status \in {"APPROVED", "AUTO_APPROVED"} =>
            receipt.status \in {"APPROVED", "AUTO_APPROVED"}
    <3>1. MarkedDuplicate(next.ruleResults)
      BY <2>2, MarkedAsTold
    <3>2. Route(receipt.currentData, next.ruleResults) \in {"NEEDS_REVIEW", "MANUAL_ENTRY"}
      BY <3>1, MarkedGoesToAPerson
    <3>3. QED
      BY <2>2, <2>3, <3>2
  <2>7. FourEyes'
    BY <1>1, <2>4, <2>5, <2>6, SystemEventKeepsEyes
  <2>8. QED
    BY <1>0, <1>1, <2>1, <2>5, <2>7 DEF TrailOK
<1>6. ASSUME NEW e \in Employees, ChangedStep(e)
      PROVE  TrailOK'
  <2> DEFINE c == changes[e]
  <2>1. /\ c \in Change
        /\ c.snapshot = receipt
        /\ ChangeBy(e, c)
        /\ receipt' = Saved(c.row)
        /\ trail' = Append(trail, c.event)
    BY <1>6 DEF ChangedStep, TypeOK
  <2> HIDE DEF c
  <2>2. /\ c.row \in Receipt
        /\ c.event \in Event
        /\ c.row.status # None
        /\ receipt'.status = c.row.status
    BY <2>1, ChangeHasStatus, SavedRow DEF Change
  <2>3. /\ c.event.previous = receipt.status /\ c.event.next = receipt'.status
        /\ c.event.actor = e
        /\ IsByPerson(c.event)
    BY <2>1, <2>2 DEF ChangeBy, CorrectedBy, ApprovedBy, RejectedBy, IsByPerson
  <2>4. /\ Len(trail') = Len(trail) + 1
        /\ trail'[Len(trail')] = c.event
        /\ TrailIsChain'
    BY <2>1, <2>2, <2>3, TrailAppended
  <2>5. receipt'.status \in {"APPROVED", "AUTO_APPROVED"} =>
            RoleOf[e] # "EMPLOYEE" /\ ~IsOwner(e, receipt)
    <3>1. ChangeStatus(receipt, "REJECTED").status = "REJECTED"
      BY <1>0 DEF ChangeStatus, Receipt
    <3>2. CASE CorrectedBy(e, c)
      BY <2>1, <2>2, <3>2, RouteType DEF CorrectedBy
    <3>3. CASE ApprovedBy(e, c)
      BY <2>1, <3>3 DEF ApprovedBy, MayReview
    <3>4. CASE RejectedBy(e, c)
      BY <2>1, <2>2, <3>1, <3>4 DEF RejectedBy
    <3>5. QED
      BY <2>1, <3>2, <3>3, <3>4 DEF ChangeBy
  <2>6. FourEyes'
    <3> SUFFICES ASSUME receipt'.status \in {"APPROVED", "AUTO_APPROVED"},
                        NEW i \in 1..Len(trail'), IsLastByPerson(i)'
                 PROVE  trail'[i].actor # Owner' /\ RoleOf[trail'[i].actor] # "EMPLOYEE"
      BY DEF FourEyes
    <3>1. i = Len(trail')
      <4>1. Len(trail') \in 1..Len(trail') /\ (i = Len(trail') \/ Len(trail') > i)
        BY <1>0, <2>4
      <4>2. IsByPerson(trail'[Len(trail')])
        BY <2>3, <2>4
      <4>3. QED
        BY <4>1, <4>2 DEF IsLastByPerson
    <3>2. trail'[i].actor = e
      BY <2>3, <2>4, <3>1
    <3>3. QED
      BY <1>1, <2>5, <3>2 DEF IsOwner, Owner
  <2>7. QED
    BY <1>0, <2>2, <2>4, <2>6 DEF TrailOK
<1>7. QED
  BY <1>2, <1>3, <1>4, <1>5, <1>6 DEF ReviewStep
-----------------------------------------------------------------------------
(* What holds of rows, trail, screens and open requests together.          *)
ReviewInvariant == TypeOK /\ ReadsCurrent /\ RowOK(receipt) /\ TrailOK

(* It is inductive.                                                        *)
LEMMA ReviewInductive ==
    /\ Init => ReviewInvariant
    /\ ReviewInvariant /\ [Next]_vars => ReviewInvariant' /\ ReviewStep
<1>1. ASSUME Init
      PROVE  ReviewInvariant
  <2>1. TypeOK
    BY <1>1, TypesInductive
  <2>2. PICK owner \in Owners \cup {None} :
            /\ receipt = NewReceipt(owner)
            /\ trail = <<Occurred(IF owner = None THEN "system" ELSE owner,
                                  "UPLOADED", None, None)>>
    BY <1>1 DEF Init
  <2>3. receipt.status = None /\ receipt.ruleResults = {}
    BY <2>2 DEF NewReceipt
  <2>4. ReadsCurrent
    BY <1>1 DEF Init, ReadsCurrent
  <2>5. RowOK(receipt)
    BY <2>3, ReviewNoneAssumption DEF RowOK, ReceiptStatuses
  <2>6. /\ Len(trail) = 1
        /\ trail[1].next = None
        /\ ~IsByPerson(trail[1])
    <3>1. \A actor : /\ Occurred(actor, "UPLOADED", None, None).next = None
                     /\ ~IsByPerson(Occurred(actor, "UPLOADED", None, None))
      BY DEF Occurred, IsByPerson
    <3>2. QED
      BY <2>2, <3>1
  <2>7. TrailOK
    BY <2>3, <2>6 DEF TrailOK, TrailIsChain, FourEyes, IsLastByPerson
  <2>8. QED
    BY <2>1, <2>4, <2>5, <2>7 DEF ReviewInvariant
<1>2. ASSUME ReviewInvariant, [Next]_vars
      PROVE  ReviewInvariant' /\ ReviewStep
  <2>1. TypeOK /\ ReadsCurrent /\ RowOK(receipt) /\ TrailOK
    BY <1>2 DEF ReviewInvariant
  <2>2. TypeOK'
    BY <1>2, <2>1, TypesInductive
  <2>3. ReviewStep
    BY <1>2, <2>1, ReviewSteps
  <2>4. ReadsCurrent'
    BY <1>2, <2>1, <2>2, ReadsInductive
  <2>5. RowOK(receipt')
    BY <2>1, <2>3, RowStaysOK
  <2>6. TrailOK'
    BY <2>1, <2>2, <2>3, <2>5, TrailStaysOK
  <2>7. QED
    BY <2>2, <2>3, <2>4, <2>5, <2>6 DEF ReviewInvariant
<1>3. QED
  BY <1>1, <1>2
-----------------------------------------------------------------------------
(* The audit trail is a gapless history of the status, whatever requests   *)
(* and uploads are open at the same time.                                  *)
THEOREM TrailAlwaysChain == Spec => []TrailIsChain
<1>1. ReviewInvariant => TrailIsChain
  BY DEF ReviewInvariant, TrailOK
<1>2. QED
  BY <1>1, ReviewInductive, PTL DEF Spec

(* Whatever is approved can be paid: a decision on data that was corrected *)
(* meanwhile is rolled back by the version.                                *)
THEOREM ApprovedCanBePaid == Spec => []ApprovedIsComplete
<1>1. ReviewInvariant => ApprovedIsComplete
  BY RowOKComplete DEF ReviewInvariant, TypeOK, ApprovedIsComplete, Complete
<1>2. QED
  BY <1>1, ReviewInductive, PTL DEF Spec

(* Rules, data and status of a row were written together.                  *)
THEOREM RulesAlwaysMatch == Spec => []RulesMatchData
<1>1. ReviewInvariant => RulesMatchData
  BY DEF ReviewInvariant, RowOK, RulesMatchData
<1>2. QED
  BY <1>1, ReviewInductive, PTL DEF Spec

(* Four eyes, for any number of people and any roles.                      *)
THEOREM FourEyesAlways == Spec => []FourEyes
<1>1. ReviewInvariant => FourEyes
  BY DEF ReviewInvariant, TrailOK
<1>2. QED
  BY <1>1, ReviewInductive, PTL DEF Spec

(* A decision is made on what the decider saw.                             *)
THEOREM DecisionsAsSeen == Spec => DecidedAsSeen
<1>1. ASSUME ReviewInvariant, ReviewStep, receipt'.status # receipt.status,
             IsTerminal(receipt'.status)
      PROVE  \E e \in Employees :
                /\ changes[e] # None
                /\ changes'[e] = None
                /\ changes[e].seen = receipt
  <2>0. receipt \in Receipt
    BY <1>1 DEF ReviewInvariant, TypeOK
  <2>1. ~SettledStep
    BY <1>1, SavedRow DEF SettledStep
  <2>2. ~FlaggedStep
    <3>1. SUFFICES ASSUME FlaggedStep
                   PROVE  FALSE
      OBVIOUS
    <3> DEFINE next == RevalidatedAsDuplicate(receipt)
    <3>2. receipt.status # None /\ receipt' = Saved(next)
      BY <3>1 DEF FlaggedStep
    <3>3. /\ next \in Receipt
          /\ \/ next.status = receipt.status
             \/ next.status = Route(receipt.currentData, next.ruleResults)
      BY <2>0, <3>2, FlaggedRow
    <3> HIDE DEF next
    <3>4. receipt'.status = next.status
      BY <3>2, <3>3, SavedRow
    <3>5. QED
      BY <1>1, <3>3, <3>4, RouteType DEF IsTerminal
  <2>3. PICK e \in Employees : ChangedStep(e)
    BY <1>1, <2>1, <2>2 DEF ReviewStep, DeferredStep
  <2>4. QED
    BY <2>3 DEF ChangedStep
<1>2. ReviewInvariant /\ [Next]_vars =>
          [receipt'.status # receipt.status /\ IsTerminal(receipt'.status) =>
              \E e \in Employees :
                  /\ changes[e] # None
                  /\ changes'[e] = None
                  /\ changes[e].seen = receipt]_vars
  BY <1>1, ReviewInductive
<1>3. QED
  BY <1>2, ReviewInductive, PTL DEF Spec, DecidedAsSeen

(* A final decision stands.                                                *)
THEOREM DecisionsAreFinal == Spec => DecisionIsFinal
<1>1. ASSUME ReviewInvariant, ReviewStep, IsTerminal(receipt.status)
      PROVE  /\ receipt'.status = receipt.status
             /\ receipt'.currentData = receipt.currentData
  <2>0. receipt \in Receipt /\ receipt.status # None
    BY <1>1, ReviewNoneAssumption DEF ReviewInvariant, TypeOK, IsTerminal, ReceiptStatuses
  <2>1. ~SettledStep
    BY <2>0 DEF SettledStep
  <2>2. ASSUME NEW e \in Employees
        PROVE  ~ChangedStep(e)
    BY <1>1 DEF ChangedStep, ChangeBy, MayModify
  <2>3. CASE FlaggedStep
    <3> DEFINE next == RevalidatedAsDuplicate(receipt)
    <3>1. receipt' = Saved(next)
      BY <2>3 DEF FlaggedStep
    <3>2. /\ next \in Receipt
          /\ next.status = receipt.status
          /\ next.currentData = receipt.currentData
      BY <1>1, <2>0, FlaggedRow
    <3> HIDE DEF next
    <3>3. QED
      BY <3>1, <3>2, SavedRow
  <2>4. QED
    BY <1>1, <2>1, <2>2, <2>3 DEF ReviewStep, DeferredStep
<1>2. ReviewInvariant /\ [Next]_vars =>
          [IsTerminal(receipt.status) =>
              /\ receipt'.status = receipt.status
              /\ receipt'.currentData = receipt.currentData]_vars
  BY <1>1, ReviewInductive
<1>3. QED
  BY <1>2, ReviewInductive, PTL DEF Spec, DecisionIsFinal

(* Every change of the data is an audited correction of the data that was  *)
(* there.                                                                  *)
THEOREM NoCorrectionIsLost == Spec => ChangesAreAudited
<1>1. ASSUME ReviewInvariant, ReviewInvariant', ReviewStep, receipt.status # None,
             receipt'.currentData # receipt.currentData
      PROVE  LET event == trail'[Len(trail')]
             IN  /\ trail' # trail
                 /\ event.action = "FIELDS_CORRECTED"
                 /\ changes[event.actor] # None
                 /\ changes[event.actor].seen.currentData = receipt.currentData
  <2>0. /\ receipt \in Receipt /\ trail \in Seq(Event)
    BY <1>1 DEF ReviewInvariant, TypeOK
  <2>1. ~SettledStep
    BY <1>1 DEF SettledStep
  <2>2. ~FlaggedStep
    <3>1. SUFFICES ASSUME FlaggedStep
                   PROVE  FALSE
      OBVIOUS
    <3> DEFINE next == RevalidatedAsDuplicate(receipt)
    <3>2. receipt' = Saved(next)
      BY <3>1 DEF FlaggedStep
    <3>3. next \in Receipt /\ next.currentData = receipt.currentData
      BY <1>1, <2>0, FlaggedRow
    <3> HIDE DEF next
    <3>4. QED
      BY <1>1, <3>2, <3>3, SavedRow
  <2>3. PICK e \in Employees : ChangedStep(e)
    BY <1>1, <2>1, <2>2 DEF ReviewStep, DeferredStep
  <2> DEFINE c == changes[e]
  <2>4. /\ c \in Change /\ c # None
        /\ c.seen = receipt /\ c.snapshot = receipt
        /\ ChangeBy(e, c)
        /\ receipt' = Saved(c.row)
        /\ trail' = Append(trail, c.event)
    BY <1>1, <2>3 DEF ChangedStep, ReviewInvariant, TypeOK
  <2>5. c.row \in Receipt /\ c.event \in Event
    BY <2>4 DEF Change
  <2> HIDE DEF c
  <2>6. receipt'.currentData = c.row.currentData
    BY <2>4, <2>5, SavedRow
  <2>7. \A status : ChangeStatus(receipt, status).currentData = receipt.currentData
    BY <2>0 DEF ChangeStatus, Receipt
  <2>8. CorrectedBy(e, c)
    BY <1>1, <2>4, <2>6, <2>7 DEF ChangeBy, ApprovedBy, RejectedBy
  <2>9. trail' # trail /\ trail'[Len(trail')] = c.event
    BY <2>0, <2>4, <2>5
  <2>10. c.event.actor = e /\ c.event.action = "FIELDS_CORRECTED"
    BY <2>4, <2>8 DEF ChangeBy, CorrectedBy
  <2>11. QED
    BY <2>4, <2>9, <2>10 DEF c
<1>2. ReviewInvariant /\ [Next]_vars =>
          [receipt.status # None /\ receipt'.currentData # receipt.currentData =>
              LET event == trail'[Len(trail')]
              IN  /\ trail' # trail
                  /\ event.action = "FIELDS_CORRECTED"
                  /\ changes[event.actor] # None
                  /\ changes[event.actor].seen.currentData = receipt.currentData]_vars
  BY <1>1, ReviewInductive
<1>3. QED
  BY <1>2, ReviewInductive, PTL DEF Spec, ChangesAreAudited
=============================================================================
