---------------------- MODULE ExtractionQueueProperties ----------------------
(***************************************************************************)
(* What the extraction queue must guarantee, stated over ExtractionQueue.  *)
(***************************************************************************)
EXTENDS ExtractionQueue

Jobs == {r \in Receipts : Uploaded(r)}

IsProcessing(r) == jobs[r].status = "PROCESSING"

VerdictEvents(r) ==
    audit[r]["QUALITY_REJECTED"] + audit[r]["VALIDATION_COMPLETED"]
        + audit[r]["EXTRACTION_FAILED"]
-----------------------------------------------------------------------------
(* A job has an owner and a token exactly while it is being processed, and *)
(* only then is there a lease that can be overdue.  Every way out of       *)
(* PROCESSING must clear them, or a late worker would still be the owner.  *)
OwnerIffProcessing ==
    \A r \in Jobs :
        /\ IsProcessing(r) <=> jobs[r].lockedBy # None
        /\ IsProcessing(r) <=> jobs[r].claimToken # None
        /\ r \in overdue => IsProcessing(r)

(* The receipt has a business status exactly when its job is finished: no  *)
(* crash, stale commit or retry separates the two rows.                    *)
VerdictIffFinished ==
    \A r \in Jobs : receipts[r].status # None <=> IsFinished(jobs[r])

(* A finished job left exactly one verdict in the audit trail, an          *)
(* unfinished one none: a worker that lost its lease never adds a second.  *)
OneVerdict ==
    \A r \in Jobs : VerdictEvents(r) = IF IsFinished(jobs[r]) THEN 1 ELSE 0

(* At most one claim in any worker's memory is the one the job recognises, *)
(* also when a worker claims again a job it already lost.                  *)
SingleOwner ==
    \A s, t \in Slots :
        Owns(s) /\ Owns(t) /\ claims[s].receipt = claims[t].receipt => s = t

(* A receipt known to be a duplicate is not left automatically approved,   *)
(* whichever of the extraction and the second upload commits first.        *)
DuplicateNeverAutoApproved ==
    \A r \in Jobs :
        jobs[r].duplicateDetected => receipts[r].status # "AUTO_APPROVED"

(* However many uploads report the duplicate at once, it is recorded once. *)
DuplicateAuditedOnce ==
    \A r \in Jobs :
        audit[r]["DUPLICATE_DETECTED"] = IF jobs[r].duplicateDetected THEN 1 ELSE 0

(* Every claim ends in exactly one way: a retry, a recovery, a release or  *)
(* a verdict.  attemptCount is the number of claims, and the audit trail   *)
(* plus the unaudited releases account for each of them.                   *)
ClaimLedger ==
    \A r \in Jobs :
        /\ jobs[r].attemptCount = audit[r]["EXTRACTION_JOB_CLAIMED"]
        /\ audit[r]["EXTRACTION_JOB_CLAIMED"] =
               audit[r]["EXTRACTION_RETRY_SCHEDULED"]
             + audit[r]["EXTRACTION_JOB_RECOVERED"]
             + released[r] + VerdictEvents(r)
             + (IF IsProcessing(r) THEN 1 ELSE 0)

(* A failing extraction is retried fewer than MaxAttempts times, also when *)
(* leases expire and claims are released in between.                       *)
RetriesBounded ==
    \A r \in Jobs : audit[r]["EXTRACTION_RETRY_SCHEDULED"] < MaxAttempts
-----------------------------------------------------------------------------
(* The flag of a duplicate is never overwritten by a worker that read the  *)
(* job before the duplicate was reported.                                  *)
DuplicateFlagKept ==
    [][\A r \in Jobs : jobs[r].duplicateDetected => jobs'[r].duplicateDetected]_vars

(* A finished job is never claimed, retried or recovered again and the     *)
(* data the extraction proposed stays what it was.                         *)
FinishedIsFinal ==
    [][\A r \in Jobs : IsFinished(jobs[r]) =>
          /\ jobs'[r].status = jobs[r].status
          /\ jobs'[r].attemptCount = jobs[r].attemptCount
          /\ receipts'[r].originalData = receipts[r].originalData]_vars

(* Only the slot that holds the current claim finishes a job or schedules  *)
(* its retry; the late result of an earlier claim changes nothing.         *)
OnlyOwnerSettles ==
    [][\A r \in Jobs :
          IsProcessing(r) /\ jobs'[r].status \in {"COMPLETED", "FAILED", "RETRY_WAIT"}
              => \E s \in Slots : Owns(s) /\ claims[s].receipt = r
                                  /\ stage[s] = "running" /\ claims'[s] = None]_vars
-----------------------------------------------------------------------------
Promise ==
    INSTANCE ReceiptPromise WITH
        Undecided <- None,
        accepted <- Jobs,
        flagged <- {r \in Jobs : jobs[r].duplicateDetected},
        verdict <- [r \in Receipts |->
                       IF Uploaded(r) THEN receipts[r].status ELSE None]

(* The queue does what ReceiptPromise says: leases, claims, retries,       *)
(* crashes and version conflicts are invisible in a receipt's verdict.     *)
PromiseKept == Promise!SafeSpec

(* The same with the promise that a verdict comes.                         *)
PromiseKeptInTime == Promise!Spec
-----------------------------------------------------------------------------
(* What the proofs need beyond the properties above: which rows exist,     *)
(* what a slot's stage means for its claim and transaction, that tokens    *)
(* are never shared, and that a snapshot whose job version is still        *)
(* current is the current content of both rows: no receipt changes without *)
(* its job.                                                                *)
RowsPresent ==
    /\ \A r \in Receipts : receipts[r] = None <=> jobs[r] = None
    /\ ripe \subseteq Jobs
    /\ overdue \subseteq Jobs
    /\ \A s \in Slots : claims[s] # None => claims[s].receipt \in Jobs
    /\ \A c \in Clients : tx[c] # None => tx[c].of \in Jobs

SlotsCoherent ==
    /\ \A s \in Slots : stage[s] = "idle" <=> claims[s] = None
    /\ \A s \in Slots : tx[s] # None =>
          /\ claims[s] # None
          /\ tx[s].of = claims[s].receipt
          /\ tx[s].call \in WorkerCalls
          /\ tx[s].call # "release" => stage[s] = "running"
          /\ IsOwnedBy(tx[s].job, claims[s].worker, claims[s].token)
    /\ \A u \in Submitters : tx[u] # None =>
          tx[u].call = "markDuplicate" /\ ~tx[u].job.duplicateDetected

SnapshotsCurrent ==
    \A c \in Clients : tx[c] # None =>
        /\ tx[c].job.version <= jobs[tx[c].of].version
        /\ tx[c].job.version = jobs[tx[c].of].version =>
              tx[c].job = jobs[tx[c].of] /\ tx[c].receipt = receipts[tx[c].of]

TokensDistinct ==
    /\ \A r \in Jobs : jobs[r].claimToken # None => jobs[r].claimToken <= drawn[r]
    /\ \A s \in Slots : claims[s] # None => claims[s].token <= drawn[claims[s].receipt]
    /\ \A s, t \in Slots :
          /\ claims[s] # None
          /\ claims[t] # None
          /\ claims[s].receipt = claims[t].receipt
          /\ claims[s].token = claims[t].token
          => s = t

(* What the extraction left behind agrees with its status.                 *)
VerdictsRouted ==
    \A r \in Jobs :
        /\ receipts[r].status \notin {"APPROVED", "REJECTED"}
        /\ MarkedDuplicate(receipts[r].ruleResults) =>
              /\ receipts[r].status \in {"NEEDS_REVIEW", "MANUAL_ENTRY"}
              /\ jobs[r].duplicateDetected

WellFormed == TypeOK /\ RowsPresent /\ SlotsCoherent
=============================================================================
