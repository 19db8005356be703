---------------------------- MODULE ReceiptReview ----------------------------
(***************************************************************************)
(* The life of one receipt between people: corrections by its owner and    *)
(* by reviewers, approvals and rejections, and the uploads that report a   *)
(* duplicate meanwhile.  Receipts are independent of each other here, so   *)
(* one is enough; what the extraction worker does to it is one step, the   *)
(* commit of a verdict (ExtractionQueue says how that comes about).        *)
(*                                                                         *)
(* A person acts on what the screen shows: the request carries the version *)
(* of the row that was displayed.  The transaction that handles it reads   *)
(* the row without a lock, checks, and commits under @Version: a step that *)
(* opens it with its snapshot and a step that commits or rolls back.       *)
(***************************************************************************)
EXTENDS ReceiptRows

CONSTANTS Employees,    \* employees logged in
          RoleOf,       \* their roles
          Submitters,   \* threads that handle a second upload of the image
          Extractions,  \* the data the extractor may return
          Corrections,  \* what people may send to PATCH /fields
          MaxVersion    \* bound: a row of this version is not corrected again

Roles == {"EMPLOYEE", "REVIEWER", "ADMIN"}
Decisions == {"APPROVE", "REJECT"}

ASSUME RolesAssumption ==
    Owners \subseteq Employees /\ RoleOf \in [Employees -> Roles]
ASSUME InputsAssumption ==
    /\ Extractions \subseteq ReceiptData \cup {None}
    /\ Corrections \subseteq FieldCorrections

VARIABLES receipt,  \* the row of table receipts
          job,      \* the row of table receipt_extraction_jobs
          trail,    \* its audit_events in the order of their commits
          views,    \* the row each employee's client displays, or None
          changes,  \* the open transaction of an employee's request, or None
          uploads   \* the open markDuplicate of a submitter, or None

vars == <<receipt, job, trail, views, changes, uploads>>
-----------------------------------------------------------------------------
AuditActions ==
    {"UPLOADED", "QUALITY_REJECTED", "EXTRACTION_COMPLETED", "VALIDATION_COMPLETED",
     "EXTRACTION_FAILED", "DUPLICATE_DETECTED", "FIELDS_CORRECTED",
     "REVIEW_APPROVED", "REVIEW_REJECTED"}

Event ==
    [actor : Employees \cup {"system"}, action : AuditActions,
     previous : ReceiptStatuses \cup {None}, next : ReceiptStatuses \cup {None}]

(* The snapshot a request works on, the row it will write, its event and,  *)
(* for the properties, the row the sender saw.                             *)
Change == [snapshot : Receipt, row : Receipt, event : Event, seen : Receipt]

Upload == [receipt : Receipt, job : Job]

(* null is none of the values it stands beside.                            *)
ASSUME ReviewNoneAssumption ==
    /\ None \notin Receipt \cup Change \cup Upload
    /\ None \notin Employees \cup ReceiptStatuses

(* Every variable has its type: the rows of one receipt, its audit trail   *)
(* and what clients and requests have read of them.                        *)
TypeOK ==
    /\ receipt \in Receipt
    /\ job \in Job
    /\ trail \in Seq(Event)
    /\ views \in [Employees -> Receipt \cup {None}]
    /\ changes \in [Employees -> Change \cup {None}]
    /\ uploads \in [Submitters -> Upload \cup {None}]

Occurred(actor, action, previous, next) ==
    [actor |-> actor, action |-> action, previous |-> previous, next |-> next]

(* An accepted upload; a receipt from before the employee accounts has no  *)
(* owner.                                                                  *)
Init ==
    /\ \E owner \in Owners \cup {None} :
          /\ receipt = NewReceipt(owner)
          /\ trail = <<Occurred(IF owner = None THEN "system" ELSE owner,
                                "UPLOADED", None, None)>>
    /\ job = NewJob
    /\ views = [e \in Employees |-> None]
    /\ changes = [e \in Employees |-> None]
    /\ uploads = [u \in Submitters |-> None]
-----------------------------------------------------------------------------
(* The extraction's verdict, validated with the duplicate flag of the job. *)
Settle(next, finished, actions) ==
    /\ receipt.status = None
    /\ receipt' = Saved(next)
    /\ job' = Saved(finished)
    /\ trail' = trail \o [i \in 1..Len(actions) |->
                            Occurred("system", actions[i], None,
                                     IF i = Len(actions) THEN next.status ELSE None)]
    /\ UNCHANGED <<views, changes, uploads>>

QualityRejected ==
    \E status \in {"NEEDS_RECAPTURE", "UNREADABLE"} :
        Settle(CompleteExtraction(receipt, None, {}, status), CompleteJob(job),
               <<"QUALITY_REJECTED">>)

Extracted ==
    \E data \in Extractions :
        LET results == Validate(data, job.duplicateDetected)
        IN  Settle(CompleteExtraction(receipt, data, results, Route(data, results)),
                   CompleteJob(job), <<"EXTRACTION_COMPLETED", "VALIDATION_COMPLETED">>)

ExtractionFailed ==
    Settle(CompleteExtraction(receipt, None, {}, "MANUAL_ENTRY"), FailJob(job),
           <<"EXTRACTION_FAILED">>)
-----------------------------------------------------------------------------
(* A second upload of the image by the same owner; ensureOwner turns every *)
(* other one away, and all of them when there is no owner.                 *)
OpenMarkDuplicate(u) ==
    /\ uploads[u] = None
    /\ receipt.ownerEmployeeId # None
    /\ ~job.duplicateDetected
    /\ uploads' = [uploads EXCEPT ![u] = [receipt |-> receipt, job |-> job]]
    /\ UNCHANGED <<receipt, job, trail, views, changes>>

(* Mutant of IsFreshUpload: the version of the receipt is not compared.    *)
IsFreshUploadJobOnly(t) == job.version = t.job.version

IsFreshUpload(t) ==
    /\ job.version = t.job.version
    /\ ~LeftAloneByDuplicate(t.receipt) => receipt.version = t.receipt.version

CommitMarkDuplicate(u) ==
    /\ uploads[u] # None
    /\ IsFreshUpload(uploads[u])
    /\ LET t == uploads[u]
           next == RevalidatedAsDuplicate(t.receipt)
           told == Occurred("system", "DUPLICATE_DETECTED", t.receipt.status, next.status)
           deferred == Occurred("system", "DUPLICATE_DETECTED", None, None)
       IN  /\ job' = Saved(MarkJobDuplicate(t.job))
           /\ IF LeftAloneByDuplicate(t.receipt)
              THEN /\ UNCHANGED receipt
                   /\ trail' = IF t.receipt.status = None
                               THEN Append(trail, deferred) ELSE trail
              ELSE /\ receipt' = Saved(next)
                   /\ trail' = Append(trail, told)
    /\ uploads' = [uploads EXCEPT ![u] = None]
    /\ UNCHANGED <<views, changes>>

AbandonMarkDuplicate(u) ==
    /\ uploads[u] # None
    /\ uploads' = [uploads EXCEPT ![u] = None]
    /\ UNCHANGED <<receipt, job, trail, views, changes>>
-----------------------------------------------------------------------------
IsOwner(e, row) == row.ownerEmployeeId = e

(* validateReadPermission                                                  *)
MayRead(e, row) ==
    IF row.ownerEmployeeId = None THEN RoleOf[e] = "ADMIN"
    ELSE RoleOf[e] = "EMPLOYEE" => IsOwner(e, row)

EmployeeEditable == {"NEEDS_REVIEW", "NEEDS_RECAPTURE", "UNREADABLE", "MANUAL_ENTRY"}

(* validateModifyPermission and validateEditableStatus                     *)
MayModify(e, row) ==
    /\ row.ownerEmployeeId # None
    /\ RoleOf[e] = "EMPLOYEE" => IsOwner(e, row) /\ row.status \in EmployeeEditable
    /\ row.status # None
    /\ ~IsTerminal(row.status)

(* Mutant of MayReview: reviewers may decide on their own receipts.        *)
MayReviewAny(e, row) == RoleOf[e] # "EMPLOYEE" /\ MayModify(e, row)

(* validateReviewPermission                                                *)
MayReview(e, row) ==
    /\ RoleOf[e] # "EMPLOYEE"
    /\ MayModify(e, row)
    /\ ~IsOwner(e, row)

(* Mutant of MayApprove: the stored data is not looked at again.           *)
MayApproveBlindly(row) == row.status \notin {"NEEDS_RECAPTURE", "UNREADABLE"}

(* validateApproval: what is stored now, not what was extracted.           *)
MayApprove(row) ==
    /\ row.status \notin {"NEEDS_RECAPTURE", "UNREADABLE"}
    /\ row.currentData # None
    /\ row.currentData.shopName # None
    /\ row.currentData.date # None
    /\ row.currentData.totalAmount # None
    /\ row.currentData.totalAmount > 0

(* Mutant of IsCurrent: the version the sender saw is not compared.        *)
IsCurrentAlways(e) == views[e] # None

(* ensureVersion                                                           *)
IsCurrent(e) == views[e] # None /\ views[e].version = receipt.version
-----------------------------------------------------------------------------
Display(e) ==
    /\ MayRead(e, receipt)
    /\ views' = [views EXCEPT ![e] = receipt]
    /\ UNCHANGED <<receipt, job, trail, changes, uploads>>

Open(e, row, action) ==
    /\ changes' = [changes EXCEPT ![e] =
                      [snapshot |-> receipt, row |-> row, seen |-> views[e],
                       event |-> Occurred(e, action, receipt.status, row.status)]]
    /\ UNCHANGED <<receipt, job, trail, views, uploads>>

(* Mutant of CorrectedStatus: the router's answer as it is.                *)
CorrectedStatusAsRouted(e, data, results) == Route(data, results)

(* A correction that passes every rule is still not approved automatically *)
(* when an employee or the owner made it.                                  *)
CorrectedStatus(e, data, results) ==
    LET routed == Route(data, results)
    IN  IF routed = "AUTO_APPROVED" /\ (RoleOf[e] = "EMPLOYEE" \/ IsOwner(e, receipt))
        THEN "NEEDS_REVIEW" ELSE routed

(* correctFields up to its commit.                                         *)
OpenCorrection(e, corrections) ==
    /\ changes[e] = None
    /\ MayModify(e, receipt)
    /\ IsCurrent(e)
    /\ receipt.version < MaxVersion
    /\ LET data == ApplyTo(corrections, receipt.currentData)
           results == Validate(data, MarkedDuplicate(receipt.ruleResults))
       IN  Open(e, UpdateData(receipt, data, results, CorrectedStatus(e, data, results)),
                "FIELDS_CORRECTED")

(* decide up to its commit.                                                *)
OpenDecision(e, decision) ==
    /\ changes[e] = None
    /\ MayReview(e, receipt)
    /\ IsCurrent(e)
    /\ decision = "APPROVE" => MayApprove(receipt)
    /\ IF decision = "APPROVE"
       THEN Open(e, ChangeStatus(receipt, "APPROVED"), "REVIEW_APPROVED")
       ELSE Open(e, ChangeStatus(receipt, "REJECTED"), "REVIEW_REJECTED")

(* Mutant of IsFreshChange: the receipt has no @Version.                   *)
IsFreshChangeAlways(t) == TRUE

IsFreshChange(t) == receipt.version = t.snapshot.version

(* The response carries the row just written; it may not arrive.           *)
CommitChange(e) ==
    /\ changes[e] # None
    /\ IsFreshChange(changes[e])
    /\ receipt' = Saved(changes[e].row)
    /\ trail' = Append(trail, changes[e].event)
    /\ views' = [views EXCEPT ![e] = receipt'] \/ UNCHANGED views
    /\ changes' = [changes EXCEPT ![e] = None]
    /\ UNCHANGED <<job, uploads>>

(* 409 for a version that moved on, or the request is cut off.             *)
RollBackChange(e) ==
    /\ changes[e] # None
    /\ changes' = [changes EXCEPT ![e] = None]
    /\ UNCHANGED <<receipt, job, trail, views, uploads>>
-----------------------------------------------------------------------------
Extraction == QualityRejected \/ Extracted \/ ExtractionFailed

SubmitterStep(u) ==
    OpenMarkDuplicate(u) \/ CommitMarkDuplicate(u) \/ AbandonMarkDuplicate(u)

EmployeeStep(e) ==
    \/ Display(e)
    \/ \E corrections \in Corrections : OpenCorrection(e, corrections)
    \/ \E decision \in Decisions : OpenDecision(e, decision)
    \/ CommitChange(e)
    \/ RollBackChange(e)

Next ==
    \/ Extraction
    \/ \E u \in Submitters : SubmitterStep(u)
    \/ \E e \in Employees : EmployeeStep(e)

Spec == Init /\ [][Next]_vars
=============================================================================
