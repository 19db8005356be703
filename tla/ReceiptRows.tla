----------------------------- MODULE ReceiptRows -----------------------------
(***************************************************************************)
(* The two entities whose rows carry the state of a submission, and the    *)
(* methods that change them, as operators from row to row:                 *)
(*   Receipt               the business record (table receipts)            *)
(*   ReceiptExtractionJob  the work item      (receipt_extraction_jobs)    *)
(* A receipt has exactly one job, so both are indexed by the receipt.      *)
(*                                                                         *)
(* Both rows carry a JPA @Version.  Saved(row) is the UPDATE the commit    *)
(* issues for a changed entity: it writes every column and adds one to the *)
(* version.  Timestamps of record are left out; available_at and           *)
(* lease_until, which decide what may be claimed, are modelled where the   *)
(* clock is (ExtractionQueue).                                             *)
(***************************************************************************)
EXTENDS ReceiptRules

CONSTANTS Owners,   \* employees that may own a receipt
          Workers   \* worker identities, the values of locked_by

JobStatuses == {"QUEUED", "PROCESSING", "RETRY_WAIT", "COMPLETED", "FAILED"}

Receipt ==
    [version : Nat,
     ownerEmployeeId : Owners \cup {None},
     originalData : ReceiptData \cup {None},
     currentData : ReceiptData \cup {None},
     status : ReceiptStatuses \cup {None},
     ruleResults : SUBSET RuleResult]

(* A claim token is a fresh UUID; tokens are numbered per job in the order *)
(* they are drawn, which keeps them as distinct as UUIDs.                  *)
Job ==
    [version : Nat,
     status : JobStatuses,
     duplicateDetected : BOOLEAN,
     attemptCount : Nat,
     lockedBy : Workers \cup {None},
     claimToken : Nat \cup {None}]

Saved(row) == [row EXCEPT !.version = @ + 1]
-----------------------------------------------------------------------------
NewReceipt(owner) ==
    [version |-> 0, ownerEmployeeId |-> owner, originalData |-> None,
     currentData |-> None, status |-> None, ruleResults |-> {}]

UpdateData(receipt, data, results, next) ==
    [receipt EXCEPT !.currentData = data, !.ruleResults = results, !.status = next]

CompleteExtraction(receipt, data, results, next) ==
    [receipt EXCEPT !.originalData = data, !.currentData = data,
                    !.ruleResults = results, !.status = next]

ChangeStatus(receipt, next) == [receipt EXCEPT !.status = next]
-----------------------------------------------------------------------------
(* Mutant of NewJob: a status outside the enumeration.                     *)
NewJobUnnamed ==
    [version |-> 0, status |-> "NEW", duplicateDetected |-> FALSE,
     attemptCount |-> 0, lockedBy |-> None, claimToken |-> None]

NewJob ==
    [version |-> 0, status |-> "QUEUED", duplicateDetected |-> FALSE,
     attemptCount |-> 0, lockedBy |-> None, claimToken |-> None]

(* Mutant of IsClaimable: failed jobs are tried again.                     *)
IsClaimableOrFailed(job) == job.status \in {"QUEUED", "RETRY_WAIT", "FAILED"}

IsClaimable(job) == job.status \in {"QUEUED", "RETRY_WAIT"}

IsFinished(job) == job.status \in {"COMPLETED", "FAILED"}

(* Mutant of IsOwnedBy: the worker's identity alone, no claim token.       *)
IsOwnedByWorker(job, worker, token) ==
    job.status = "PROCESSING" /\ job.lockedBy = worker

IsOwnedBy(job, worker, token) ==
    /\ job.status = "PROCESSING"
    /\ job.lockedBy = worker
    /\ job.claimToken = token

(* Mutant of ClaimJob: only the first claim is counted as an attempt.      *)
ClaimJobUncounted(job, worker, token) ==
    [job EXCEPT !.status = "PROCESSING", !.lockedBy = worker,
                !.claimToken = token, !.attemptCount = 1]

ClaimJob(job, worker, token) ==
    [job EXCEPT !.status = "PROCESSING", !.lockedBy = worker,
                !.claimToken = token, !.attemptCount = @ + 1]

(* Every way out of PROCESSING clears the owner, the lease and the token.  *)
Unclaimed(job, next) ==
    [job EXCEPT !.status = next, !.lockedBy = None, !.claimToken = None]

(* Mutant of FailJob: the owner and the token survive the failure.         *)
FailJobKeepingOwner(job) == [job EXCEPT !.status = "FAILED"]

CompleteJob(job)       == Unclaimed(job, "COMPLETED")
FailJob(job)           == Unclaimed(job, "FAILED")
ScheduleRetry(job)     == Unclaimed(job, "RETRY_WAIT")
RecoverExpiredLease(job) == Unclaimed(job, "QUEUED")
ReleaseClaim(job)      == Unclaimed(job, "QUEUED")

MarkJobDuplicate(job) == [job EXCEPT !.duplicateDetected = TRUE]
-----------------------------------------------------------------------------
(* The receipt that ReceiptPersistenceService.markDuplicate writes.  While *)
(* the status is null the validation is deferred, and a receipt whose      *)
(* rules already carry the duplicate failure is left alone.                *)
LeftAloneByDuplicate(receipt) ==
    receipt.status = None \/ MarkedDuplicate(receipt.ruleResults)

(* Mutant of RevalidatedAsDuplicate: new rules, but the status is kept.    *)
RevalidatedInPlace(receipt) ==
    UpdateData(receipt, receipt.currentData,
               Validate(receipt.currentData, TRUE), receipt.status)

RevalidatedAsDuplicate(receipt) ==
    LET results == Validate(receipt.currentData, TRUE)
        next == IF IsTerminal(receipt.status) THEN receipt.status
                ELSE Route(receipt.currentData, results)
    IN  UpdateData(receipt, receipt.currentData, results, next)
=============================================================================
