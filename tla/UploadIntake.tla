---------------------------- MODULE UploadIntake ----------------------------
(***************************************************************************)
(* Accepting an upload: ReceiptUploadService.upload with the look-ups it   *)
(* makes before it waits for the image's Redis lock, what it does while it *)
(* holds the lock, and how it converges when the lock or a unique          *)
(* constraint tells it that somebody else was first.                       *)
(*                                                                         *)
(* A call is one request in one server thread.  Every look-up, the write   *)
(* to S3 and every transaction is a step of its own, except that a look-up *)
(* of rows that never change (a receipt's image and owner) is joined with  *)
(* the step that uses it.  markDuplicate is a snapshot and a commit, as in *)
(* ExtractionQueue.  Of the extraction only what an upload can meet is     *)
(* here: claim, result, lost commit and recovered lease of a fake          *)
(* extraction that always returns the same data.                           *)
(*                                                                         *)
(* A receipt's id is its place in the table.                               *)
(***************************************************************************)
EXTENDS ReceiptRows, SequencesExt

CONSTANTS Images,    \* contents of files, told apart by their SHA-256
          Keys,      \* values of the header Idempotency-Key
          Clients,   \* server threads that handle uploads
          Gone,      \* the holder of a lock whose thread died with the server
          FakeData,  \* what FakeReceiptExtractor returns
          MaxFaults  \* bound on lapsed locks, failing puts and dying processes

ASSUME GoneAssumption == Gone \notin Clients \cup {None}
ASSUME FaultsAssumption == MaxFaults \in Nat
ASSUME FakeDataAssumption == FakeData \in ReceiptData

VARIABLES images,     \* receipts.image_sha256
          receipts,   \* the other columns of table receipts
          jobs,       \* table receipt_extraction_jobs
          audit,      \* the actions of a receipt's audit_events
          keys,       \* table idempotency_records
          objects,    \* images stored in S3
          holder,     \* who holds receipt:duplicate:<company>:<sha256>
          calls,      \* the upload each thread handles, or None
          executing,  \* receipts whose claim a worker holds
          completing, \* the open completeExtraction of a receipt
          faults      \* how many of the MaxFaults have been spent

rows       == <<images, receipts, jobs, audit, keys>>
extraction == <<executing, completing>>
intakeVars == <<rows, objects, holder, calls, extraction, faults>>
-----------------------------------------------------------------------------
Stages ==
    {"received", "keyUnknown", "waiting", "locked", "keyUnknownLocked", "stored",
     "resolving", "marking", "conflicted", "answered"}

Ids == DOMAIN receipts

AuditActions ==
    {"UPLOADED", "DUPLICATE_DETECTED", "EXTRACTION_JOB_CLAIMED", "EXTRACTION_JOB_RECOVERED",
     "EXTRACTION_COMPLETED", "VALIDATION_COMPLETED"}

Snapshot == [of : Nat, receipt : Receipt, job : Job]

Answer == [status : {200, 202, 409, 502}, receipt : Nat \cup {None}, replay : BOOLEAN]

Call ==
    [owner : Owners, key : Keys \cup {None}, image : Images, at : Stages,
     snapshot : Snapshot \cup {None}, answer : Answer \cup {None}]

(* Every variable has its type: a receipt, its image, its job and its      *)
(* events are written together, a key names a receipt, and a call holds    *)
(* at most one snapshot and one answer.                                    *)
IntakeTypeOK ==
    /\ images \in Seq(Images)
    /\ receipts \in Seq(Receipt)
    /\ jobs \in Seq(Job)
    /\ audit \in Seq(Seq(AuditActions))
    /\ Len(receipts) = Len(images) /\ Len(jobs) = Len(images) /\ Len(audit) = Len(images)
    /\ keys \subseteq [key : Keys, receipt : Ids]
    /\ objects \subseteq Images
    /\ holder \in [Images -> Clients \cup {None, Gone}]
    /\ calls \in [Clients -> Call \cup {None}]
    /\ executing \subseteq Ids
    /\ completing \subseteq Snapshot
    /\ faults \in 0..MaxFaults

IntakeInit ==
    /\ images = <<>> /\ receipts = <<>> /\ jobs = <<>> /\ audit = <<>>
    /\ keys = {}
    /\ objects = {}
    /\ holder = [m \in Images |-> None]
    /\ calls = [c \in Clients |-> None]
    /\ executing = {} /\ completing = {}
    /\ faults = 0
-----------------------------------------------------------------------------
At(c, stage) == calls[c] # None /\ calls[c].at = stage

(* The rows the look-ups of call c find, and its permission to see them.   *)
ByKey(c)   == {row.receipt : row \in {k \in keys : k.key = calls[c].key}}
ByImage(c) == {i \in Ids : images[i] = calls[c].image}

(* Mutant of Owned: whoever sends the image gets the receipt's ids.        *)
OwnedByAnyone(c, i) == TRUE

Owned(c, i) == receipts[i].ownerEmployeeId = calls[c].owner

Send(c, owner, key, image) ==
    calls' = [calls EXCEPT ![c] = [owner |-> owner, key |-> key, image |-> image,
                                   at |-> "received", snapshot |-> None,
                                   answer |-> None]]

GoTo(c, stage) == calls' = [calls EXCEPT ![c].at = stage]

(* Leaving the critical section, by a result or an exception: finally      *)
(* unlocks what this thread still holds.                                   *)
Unlock(c) == holder' = [m \in Images |-> IF holder[m] = c THEN None ELSE holder[m]]

Respond(c, status, receipt, replay) ==
    /\ calls' = [calls EXCEPT ![c] =
          [@ EXCEPT !.at = "answered", !.snapshot = None,
                    !.answer = [status |-> status, receipt |-> receipt, replay |-> replay]]]
    /\ Unlock(c)

Existing(c, i, replay) == Respond(c, 200, i, replay)
Refuse(c)              == Respond(c, 409, None, FALSE)

(* A ReceiptConflictException inside the lock is caught by upload, which   *)
(* looks for a processed duplicate once more.                              *)
Conflict(c) == GoTo(c, "conflicted") /\ Unlock(c)
-----------------------------------------------------------------------------
(* findIdempotentReplay before the lock.                                   *)
FindReplay(c) ==
    /\ At(c, "received")
    /\ \/ \E i \in ByKey(c) : IF Owned(c, i) THEN Existing(c, i, TRUE) ELSE Refuse(c)
       \/ ByKey(c) = {} /\ GoTo(c, "keyUnknown") /\ UNCHANGED holder
    /\ UNCHANGED <<rows, objects, extraction, faults>>

(* findProcessedDuplicate: a receipt that is flagged already needs no lock.*)
Processed(c, otherwise) ==
    \/ \E i \in ByImage(c) :
          \/ ~Owned(c, i) /\ Refuse(c)
          \/ Owned(c, i) /\ jobs[i].duplicateDetected /\ Existing(c, i, FALSE)
          \/ Owned(c, i) /\ ~jobs[i].duplicateDetected /\ otherwise
    \/ ByImage(c) = {} /\ otherwise

FindProcessed(c) ==
    /\ At(c, "keyUnknown")
    /\ Processed(c, GoTo(c, "waiting") /\ UNCHANGED holder)
    /\ UNCHANGED <<rows, objects, extraction, faults>>

TakeLock(c) ==
    /\ At(c, "waiting")
    /\ holder[calls[c].image] = None
    /\ holder' = [holder EXCEPT ![calls[c].image] = c]
    /\ GoTo(c, "locked")
    /\ UNCHANGED <<rows, objects, extraction, faults>>

(* tryLock waits three seconds for another holder.                         *)
LockWaitOver(c) ==
    /\ At(c, "waiting")
    /\ holder[calls[c].image] # None
    /\ Conflict(c)
    /\ UNCHANGED <<rows, objects, extraction, faults>>

Converge(c) ==
    /\ At(c, "conflicted")
    /\ Processed(c, Refuse(c))
    /\ UNCHANGED <<rows, objects, extraction, faults>>
-----------------------------------------------------------------------------
(* acceptWhileLocked: the key once more, then the image.                   *)
FindReplayLocked(c) ==
    /\ At(c, "locked")
    /\ \/ \E i \in ByKey(c) : IF Owned(c, i) THEN Existing(c, i, TRUE) ELSE Conflict(c)
       \/ ByKey(c) = {} /\ GoTo(c, "keyUnknownLocked") /\ UNCHANGED holder
    /\ UNCHANGED <<rows, objects, extraction, faults>>

(* The same image exists: markDuplicate opens with a snapshot, or returns  *)
(* at once because the job is flagged.                                     *)
OpenMark(c, i) ==
    \/ ~Owned(c, i) /\ Conflict(c)
    \/ Owned(c, i) /\ jobs[i].duplicateDetected /\ Existing(c, i, FALSE)
    \/ /\ Owned(c, i) /\ ~jobs[i].duplicateDetected
       /\ calls' = [calls EXCEPT ![c] =
             [@ EXCEPT !.at = "marking",
                       !.snapshot = [of |-> i, receipt |-> receipts[i], job |-> jobs[i]]]]
       /\ UNCHANGED holder

FindSameImage(c) ==
    /\ At(c, "keyUnknownLocked")
    /\ \E i \in ByImage(c) : OpenMark(c, i)
    /\ UNCHANGED <<rows, objects, extraction, faults>>

(* Mutant of StoreImage: the put is left for later.                        *)
StoreImageLater(c) ==
    /\ At(c, "keyUnknownLocked")
    /\ ByImage(c) = {}
    /\ GoTo(c, "stored")
    /\ UNCHANGED <<rows, objects, holder, extraction, faults>>

StoreImage(c) ==
    /\ At(c, "keyUnknownLocked")
    /\ ByImage(c) = {}
    /\ objects' = objects \cup {calls[c].image}
    /\ GoTo(c, "stored")
    /\ UNCHANGED <<rows, holder, extraction, faults>>

(* Mutants of IsUnique: one of the two unique constraints is missing.      *)
IsUniqueKey(c)   == ByKey(c) = {}
IsUniqueImage(c) == ByImage(c) = {}

(* uk_receipts_company_image_hash and uk_idempotency_company_key.          *)
IsUnique(c) == ByImage(c) = {} /\ ByKey(c) = {}

(* createQueued: receipt, job, key and event in one transaction.           *)
CreateQueued(c) ==
    /\ At(c, "stored")
    /\ IsUnique(c)
    /\ images' = Append(images, calls[c].image)
    /\ receipts' = Append(receipts, NewReceipt(calls[c].owner))
    /\ jobs' = Append(jobs, NewJob)
    /\ audit' = Append(audit, <<"UPLOADED">>)
    /\ keys' = keys \cup [key : {calls[c].key} \ {None}, receipt : {Len(receipts) + 1}]
    /\ Respond(c, 202, Len(receipts) + 1, FALSE)
    /\ UNCHANGED <<objects, extraction, faults>>

ConstraintViolated(c) ==
    /\ At(c, "stored")
    /\ ~IsUnique(c)
    /\ GoTo(c, "resolving")
    /\ UNCHANGED <<rows, objects, holder, extraction, faults>>

(* resolveConstraintConflict: whose row was in the way; rows of these two  *)
(* tables are never deleted, so there is one.                              *)
Resolve(c) ==
    /\ At(c, "resolving")
    /\ \/ \E i \in ByKey(c) : IF Owned(c, i) THEN Existing(c, i, TRUE) ELSE Conflict(c)
       \/ ByKey(c) = {} /\ \E i \in ByImage(c) : OpenMark(c, i)
    /\ UNCHANGED <<rows, objects, extraction, faults>>

(* Mutant of IsFresh: the extraction and the upload overwrite each other.  *)
IsFreshAlways(t, writesReceipt) == TRUE

IsFresh(t, writesReceipt) ==
    /\ jobs[t.of].version = t.job.version
    /\ writesReceipt => receipts[t.of].version = t.receipt.version

CommitMark(c) ==
    /\ At(c, "marking")
    /\ LET t == calls[c].snapshot
           rerouted == ~LeftAloneByDuplicate(t.receipt)
       IN  /\ IsFresh(t, rerouted)
           /\ jobs' = [jobs EXCEPT ![t.of] = Saved(MarkJobDuplicate(t.job))]
           /\ receipts' = IF rerouted
                          THEN [receipts EXCEPT ![t.of] =
                                   Saved(RevalidatedAsDuplicate(t.receipt))]
                          ELSE receipts
           /\ audit' = IF t.receipt.status = None \/ rerouted
                       THEN [audit EXCEPT ![t.of] = Append(@, "DUPLICATE_DETECTED")]
                       ELSE audit
           /\ Existing(c, t.of, FALSE)
    /\ UNCHANGED <<images, keys, objects, extraction, faults>>

(* ObjectOptimisticLockingFailureException is answered with 409.           *)
MarkConflict(c) ==
    /\ At(c, "marking")
    /\ LET t == calls[c].snapshot
       IN  ~IsFresh(t, ~LeftAloneByDuplicate(t.receipt))
    /\ Refuse(c)
    /\ UNCHANGED <<rows, objects, extraction, faults>>
-----------------------------------------------------------------------------
(* The extraction as far as an upload meets it.                            *)
Claim(i) ==
    /\ IsClaimable(jobs[i])
    /\ \E w \in Workers :
          jobs' = [jobs EXCEPT ![i] = Saved(ClaimJob(@, w, @.attemptCount + 1))]
    /\ audit' = [audit EXCEPT ![i] = Append(@, "EXTRACTION_JOB_CLAIMED")]
    /\ executing' = executing \cup {i}
    /\ UNCHANGED <<images, receipts, keys, objects, holder, calls, completing, faults>>

OpenComplete(i) ==
    /\ i \in executing
    /\ \A t \in completing : t.of # i
    /\ completing' = completing \cup {[of |-> i, receipt |-> receipts[i], job |-> jobs[i]]}
    /\ UNCHANGED <<rows, objects, holder, calls, executing, faults>>

Complete(t) ==
    LET results == Validate(FakeData, t.job.duplicateDetected)
    IN  /\ IsFresh(t, TRUE)
        /\ receipts' = [receipts EXCEPT ![t.of] =
                           Saved(CompleteExtraction(t.receipt, FakeData, results,
                                                    Route(FakeData, results)))]
        /\ jobs' = [jobs EXCEPT ![t.of] = Saved(CompleteJob(t.job))]
        /\ audit' = [audit EXCEPT ![t.of] =
                        @ \o <<"EXTRACTION_COMPLETED", "VALIDATION_COMPLETED">>]
        /\ executing' = executing \ {t.of}
        /\ completing' = completing \ {t}
        /\ UNCHANGED <<images, keys, objects, holder, calls, faults>>

(* The result is lost; the job waits for its lease to run out.             *)
CompleteConflict(t) ==
    /\ ~IsFresh(t, TRUE)
    /\ executing' = executing \ {t.of}
    /\ completing' = completing \ {t}
    /\ UNCHANGED <<rows, objects, holder, calls, faults>>

RecoverLease(i) ==
    /\ jobs[i].status = "PROCESSING"
    /\ i \notin executing
    /\ jobs' = [jobs EXCEPT ![i] = Saved(RecoverExpiredLease(@))]
    /\ audit' = [audit EXCEPT ![i] = Append(@, "EXTRACTION_JOB_RECOVERED")]
    /\ UNCHANGED <<images, receipts, keys, objects, holder, calls, extraction, faults>>
-----------------------------------------------------------------------------
(* Faults, at most MaxFaults of them.                                      *)
SpendFault == faults < MaxFaults /\ faults' = faults + 1

(* Redis restarts or the watchdog is late: another thread may enter.       *)
LockLapses(m) ==
    /\ holder[m] \in Clients
    /\ SpendFault
    /\ holder' = [holder EXCEPT ![m] = None]
    /\ UNCHANGED <<rows, objects, calls, extraction>>

(* S3 cannot be reached; the object may have been written all the same.    *)
StorageFails(c) ==
    /\ At(c, "keyUnknownLocked")
    /\ ByImage(c) = {}
    /\ SpendFault
    /\ objects' \in {objects, objects \cup {calls[c].image}}
    /\ Respond(c, 502, None, FALSE)
    /\ UNCHANGED <<rows, extraction>>

(* The server dies between two steps: its open transactions roll back, no  *)
(* answer is sent, its claims and locks are left to run out.               *)
ServerDies ==
    /\ SpendFault
    /\ calls' = [c \in Clients |-> IF At(c, "answered") THEN calls[c] ELSE None]
    /\ holder' = [m \in Images |-> IF holder[m] = None THEN None ELSE Gone]
    /\ executing' = {} /\ completing' = {}
    /\ UNCHANGED <<rows, objects>>

(* The lease of a dead holder runs out; nobody renews it.                  *)
LockExpires(m) ==
    /\ holder[m] = Gone
    /\ holder' = [holder EXCEPT ![m] = None]
    /\ UNCHANGED <<rows, objects, calls, extraction, faults>>
-----------------------------------------------------------------------------
(* A step that makes progress, and one that loses a race.                  *)
CallStep(c) ==
    \/ FindReplay(c) \/ FindProcessed(c) \/ TakeLock(c) \/ Converge(c)
    \/ FindReplayLocked(c) \/ FindSameImage(c) \/ StoreImage(c)
    \/ CreateQueued(c) \/ ConstraintViolated(c) \/ Resolve(c) \/ CommitMark(c)

LockStep == \E m \in Images : LockExpires(m)

ExtractionStep ==
    \/ \E i \in Ids : Claim(i) \/ OpenComplete(i) \/ RecoverLease(i)
    \/ \E t \in completing : Complete(t)

FaultStep ==
    \/ \E m \in Images : LockLapses(m)
    \/ \E c \in Clients : StorageFails(c)
    \/ ServerDies
=============================================================================
