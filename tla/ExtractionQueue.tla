--------------------------- MODULE ExtractionQueue ---------------------------
(***************************************************************************)
(* The durable extraction queue: receipts and their jobs in MySQL, the     *)
(* workers that claim, execute and settle jobs, the recovery of expired    *)
(* leases, and the uploads that report a duplicate while all this runs.    *)
(*                                                                         *)
(* A slot is one permit of a worker's semaphore together with the claim it *)
(* pays for: a job waiting in the executor's queue or being executed.      *)
(*                                                                         *)
(* Transactions.  Claiming and recovering select their rows FOR UPDATE     *)
(* SKIP LOCKED and are one step.  Every other transaction reads its rows   *)
(* without a lock and writes them at commit guarded by @Version, so it is  *)
(* two steps: one that takes the snapshot, one that commits the rows made  *)
(* from the snapshot or rolls back because a version has moved on.         *)
(*                                                                         *)
(* Time.  available_at and lease_until are compared with the clock only,   *)
(* so the model keeps the outcome of the comparison: ripe is the set of    *)
(* receipts whose job's available_at has come, overdue the set of those    *)
(* whose lease_until has passed.  The order among ripe jobs is left open.  *)
(***************************************************************************)
EXTENDS ReceiptRows

CONSTANTS Receipts,     \* receipts that may be uploaded
          Slots,        \* job permits of all workers
          HostOf,       \* the worker a slot belongs to
          Submitters,   \* threads that handle a second upload of an image
          Extractions,  \* the data the extractor may return
          MaxAttempts,  \* ReceiptExtractionProcessor.MAX_ATTEMPTS
          BatchSize,    \* receipt.worker.batch-size
          MaxFaults     \* bound on crashes, stops, errors and outlived leases

ASSUME HostsAssumption == HostOf \in [Slots -> Workers]
ASSUME LimitsAssumption ==
    MaxAttempts \in Nat \ {0} /\ BatchSize \in Nat \ {0} /\ MaxFaults \in Nat
ASSUME ExtractionsAssumption == Extractions \subseteq ReceiptData \cup {None}
ASSUME ThreadsAssumption == Slots \cap Submitters = {}

VARIABLES receipts,   \* table receipts, None for a receipt not uploaded yet
          jobs,       \* table receipt_extraction_jobs
          audit,      \* how many audit_events rows of each action a receipt has
          ripe,       \* available_at <= now
          overdue,    \* lease_until < now
          stopped,    \* ReceiptExtractionWorker.stopped
          claims,     \* the ClaimedReceiptJob a slot holds, or None
          stage,      \* what the slot does with it
          tx,         \* the open transaction of a slot or a submitter, or None
          faults      \* how many of the MaxFaults have been spent

(* History variables: no action is guarded by them.                        *)
VARIABLES drawn,      \* claim tokens drawn for a job
          runs,       \* executions started for a job
          released    \* claims given back before they were executed

tables  == <<receipts, jobs, audit>>
clock   == <<ripe, overdue>>
workers == <<stopped, claims, stage>>
history == <<drawn, runs, released>>
vars    == <<tables, clock, workers, tx, faults, history>>
-----------------------------------------------------------------------------
Clients == Slots \cup Submitters

Verdicts == {"QUALITY_REJECTED", "VALIDATION_COMPLETED", "EXTRACTION_FAILED"}

AuditActions ==
    Verdicts \cup {"UPLOADED", "EXTRACTION_JOB_CLAIMED", "EXTRACTION_JOB_RECOVERED",
                   "EXTRACTION_RETRY_SCHEDULED", "EXTRACTION_COMPLETED",
                   "DUPLICATE_DETECTED"}

NoEvents == [a \in AuditActions |-> 0]

Logged(log, actions) ==
    [a \in AuditActions |-> IF a \in actions THEN log[a] + 1 ELSE log[a]]

(* ClaimedReceiptJob, what the worker remembers of the claimed row.        *)
Claim == [receipt : Receipts, worker : Workers, token : Nat, attemptCount : Nat,
          duplicateDetected : BOOLEAN]

Stages == {"idle", "claimed", "running"}

(* The lifecycle method a slot's transaction executes; giveUp and fail     *)
(* both call failExtraction, after the last attempt or a permanent error.  *)
WorkerCalls == {"release", "reject", "complete", "retry", "giveUp", "fail"}

Transaction ==
    [of : Receipts, call : WorkerCalls \cup {"markDuplicate"},
     job : Job, receipt : Receipt]

(* null is none of the values it stands beside.                            *)
ASSUME NullAssumption ==
    /\ None \notin Receipt \cup Job \cup Claim \cup Transaction
    /\ None \notin Workers \cup ReceiptStatuses \cup Nat

Uploaded(r) == jobs[r] # None

Owns(s) ==
    /\ claims[s] # None
    /\ IsOwnedBy(jobs[claims[s].receipt], claims[s].worker, claims[s].token)

IsLive(r) == \E s \in Slots : Owns(s) /\ claims[s].receipt = r

Claimable == {r \in ripe : IsClaimable(jobs[r])}

Expired == {r \in overdue : jobs[r].status = "PROCESSING"}

IdleSlots(w) == {s \in Slots : HostOf[s] = w /\ stage[s] = "idle"}
-----------------------------------------------------------------------------
(* Every variable has its type: the rows are entities or absent, audit and *)
(* history are counters, a slot holds at most one claim and one open       *)
(* transaction, and no more than MaxFaults faults have happened.           *)
TypeOK ==
    /\ receipts \in [Receipts -> Receipt \cup {None}]
    /\ jobs \in [Receipts -> Job \cup {None}]
    /\ audit \in [Receipts -> [AuditActions -> Nat]]
    /\ ripe \subseteq Receipts
    /\ overdue \subseteq Receipts
    /\ stopped \in [Workers -> BOOLEAN]
    /\ claims \in [Slots -> Claim \cup {None}]
    /\ stage \in [Slots -> Stages]
    /\ tx \in [Clients -> Transaction \cup {None}]
    /\ faults \in 0..MaxFaults
    /\ drawn \in [Receipts -> Nat]
    /\ runs \in [Receipts -> Nat]
    /\ released \in [Receipts -> Nat]

Init ==
    /\ receipts = [r \in Receipts |-> None]
    /\ jobs = [r \in Receipts |-> None]
    /\ audit = [r \in Receipts |-> NoEvents]
    /\ ripe = {}
    /\ overdue = {}
    /\ stopped = [w \in Workers |-> FALSE]
    /\ claims = [s \in Slots |-> None]
    /\ stage = [s \in Slots |-> "idle"]
    /\ tx = [c \in Clients |-> None]
    /\ faults = 0
    /\ drawn = [r \in Receipts |-> 0]
    /\ runs = [r \in Receipts |-> 0]
    /\ released = [r \in Receipts |-> 0]
-----------------------------------------------------------------------------
(* Intake: receipt, job and the UPLOADED event in one transaction.         *)
CreateQueued(r, owner) ==
    /\ ~Uploaded(r)
    /\ receipts' = [receipts EXCEPT ![r] = NewReceipt(owner)]
    /\ jobs' = [jobs EXCEPT ![r] = NewJob]
    /\ audit' = [audit EXCEPT ![r] = Logged(@, {"UPLOADED"})]
    /\ ripe' = ripe \cup {r}
    /\ UNCHANGED <<overdue, workers, tx, faults, history>>

(* Mutant of OpenMarkDuplicate: without the early return of a flagged job. *)
OpenMarkDuplicateAgain(u, r) ==
    /\ tx[u] = None
    /\ Uploaded(r)
    /\ tx' = [tx EXCEPT ![u] = [of |-> r, call |-> "markDuplicate",
                                job |-> jobs[r], receipt |-> receipts[r]]]
    /\ UNCHANGED <<tables, clock, workers, faults, history>>

(* A second upload of the image: markDuplicate takes its snapshot.  If the *)
(* job is flagged already it returns and nothing changes.  Uploads of one  *)
(* image normally queue for a Redis lock; the model does not rely on it.   *)
OpenMarkDuplicate(u, r) ==
    /\ tx[u] = None
    /\ Uploaded(r)
    /\ ~jobs[r].duplicateDetected
    /\ tx' = [tx EXCEPT ![u] = [of |-> r, call |-> "markDuplicate",
                                job |-> jobs[r], receipt |-> receipts[r]]]
    /\ UNCHANGED <<tables, clock, workers, faults, history>>

WritesReceipt(t) ==
    \/ t.call \in {"reject", "complete", "giveUp", "fail"}
    \/ t.call = "markDuplicate" /\ ~LeftAloneByDuplicate(t.receipt)

(* Mutants of IsFresh: no @Version on the job, and on neither entity.      *)
IsFreshReceipt(t) ==
    WritesReceipt(t) => receipts[t.of].version = t.receipt.version
IsFreshAlways(t) == TRUE

(* The versioned UPDATEs of a transaction find the versions it read.       *)
IsFresh(t) ==
    /\ jobs[t.of].version = t.job.version
    /\ WritesReceipt(t) => receipts[t.of].version = t.receipt.version

CommitMarkDuplicate(u) ==
    /\ tx[u] # None
    /\ IsFresh(tx[u])
    /\ LET t == tx[u]
           untold == t.receipt.status # None /\ MarkedDuplicate(t.receipt.ruleResults)
       IN  /\ jobs' = [jobs EXCEPT ![t.of] = Saved(MarkJobDuplicate(t.job))]
           /\ receipts' = IF WritesReceipt(t)
                          THEN [receipts EXCEPT ![t.of] =
                                   Saved(RevalidatedAsDuplicate(t.receipt))]
                          ELSE receipts
           /\ audit' = IF untold THEN audit
                       ELSE [audit EXCEPT ![t.of] = Logged(@, {"DUPLICATE_DETECTED"})]
    /\ tx' = [tx EXCEPT ![u] = None]
    /\ UNCHANGED <<clock, workers, faults, history>>

(* The upload fails: a version moved on, the request was cut off, ...      *)
AbandonMarkDuplicate(u) ==
    /\ tx[u] # None
    /\ tx' = [tx EXCEPT ![u] = None]
    /\ UNCHANGED <<tables, clock, workers, faults, history>>
-----------------------------------------------------------------------------
(* The clock.  A lease that passes while its holder is still at work is a  *)
(* fault; one whose claim nobody holds any more simply runs out.           *)
BecomeRipe(r) ==
    /\ Uploaded(r)
    /\ jobs[r].status = "RETRY_WAIT"
    /\ r \notin ripe
    /\ ripe' = ripe \cup {r}
    /\ UNCHANGED <<tables, overdue, workers, tx, faults, history>>

LeaseExpires(r) ==
    /\ Uploaded(r)
    /\ jobs[r].status = "PROCESSING"
    /\ r \notin overdue
    /\ overdue' = overdue \cup {r}
    /\ IF IsLive(r)
       THEN faults < MaxFaults /\ faults' = faults + 1
       ELSE UNCHANGED faults
    /\ UNCHANGED <<tables, ripe, workers, tx, history>>
-----------------------------------------------------------------------------
(* ReceiptJobClaimService.claimAvailable: worker w has taken the permits   *)
(* `free` and the query returned the jobs `pick` assigns to them; SKIP     *)
(* LOCKED may leave claimable jobs out.  All claims commit together.       *)
ClaimAvailable(w, pick) ==
    LET free == DOMAIN pick
        taken == {pick[s] : s \in free}
    IN  /\ ~stopped[w]
        /\ free # {}
        /\ Cardinality(free) <= BatchSize
        /\ \A s, t \in free : pick[s] = pick[t] => s = t
        /\ jobs' = [r \in Receipts |->
                       IF r \in taken THEN Saved(ClaimJob(jobs[r], w, drawn[r] + 1))
                                      ELSE jobs[r]]
        /\ drawn' = [r \in Receipts |-> IF r \in taken THEN drawn[r] + 1 ELSE drawn[r]]
        /\ audit' = [r \in Receipts |->
                        IF r \in taken THEN Logged(audit[r], {"EXTRACTION_JOB_CLAIMED"})
                                       ELSE audit[r]]
        /\ claims' = [s \in Slots |->
                         IF s \in free
                         THEN [receipt |-> pick[s], worker |-> w,
                               token |-> drawn[pick[s]] + 1,
                               attemptCount |-> jobs[pick[s]].attemptCount + 1,
                               duplicateDetected |-> jobs[pick[s]].duplicateDetected]
                         ELSE claims[s]]
        /\ stage' = [s \in Slots |-> IF s \in free THEN "claimed" ELSE stage[s]]
        /\ overdue' = overdue \ taken
        /\ UNCHANGED <<receipts, ripe, stopped, tx, faults, runs, released>>

(* ExpiredJobRecoveryService.recoverExpired, the first half of poll.       *)
RecoverExpired(w, lost) ==
    /\ ~stopped[w]
    /\ lost # {}
    /\ Cardinality(lost) <= BatchSize
    /\ jobs' = [r \in Receipts |->
                   IF r \in lost THEN Saved(RecoverExpiredLease(jobs[r])) ELSE jobs[r]]
    /\ audit' = [r \in Receipts |->
                    IF r \in lost THEN Logged(audit[r], {"EXTRACTION_JOB_RECOVERED"})
                                  ELSE audit[r]]
    /\ ripe' = ripe \cup lost
    /\ overdue' = overdue \ lost
    /\ UNCHANGED <<receipts, workers, tx, faults, history>>
-----------------------------------------------------------------------------
(* An executor thread picks the claimed job up.                            *)
StartProcessing(s) ==
    /\ stage[s] = "claimed"
    /\ stage' = [stage EXCEPT ![s] = "running"]
    /\ runs' = [runs EXCEPT ![claims[s].receipt] = @ + 1]
    /\ UNCHANGED <<tables, clock, stopped, claims, tx, faults, drawn, released>>

(* Mutant of MayCall: a retry whatever the number of attempts.             *)
MayCallAgain(s, call) ==
    IF call = "release" THEN stage[s] = "claimed" /\ stopped[HostOf[s]]
                        ELSE stage[s] = "running"

(* Which lifecycle method a slot may come to call: release when the worker *)
(* was stopped before the job was submitted, otherwise what image load,    *)
(* quality inspection and extractor led to.                                *)
MayCall(s, call) ==
    CASE call = "release" -> stage[s] = "claimed" /\ stopped[HostOf[s]]
      [] call = "retry"   -> stage[s] = "running" /\ claims[s].attemptCount < MaxAttempts
      [] call = "giveUp"  -> stage[s] = "running" /\ claims[s].attemptCount >= MaxAttempts
      [] OTHER            -> stage[s] = "running"

(* findOwnedJob succeeds and the transaction holds its snapshot.           *)
OpenCall(s, call) ==
    /\ tx[s] = None
    /\ MayCall(s, call)
    /\ Owns(s)
    /\ LET r == claims[s].receipt
       IN  tx' = [tx EXCEPT ![s] = [of |-> r, call |-> call,
                                    job |-> jobs[r], receipt |-> receipts[r]]]
    /\ UNCHANGED <<tables, clock, workers, faults, history>>

(* Mutant of FreeSlot: the permit is not returned.                         *)
FreeSlotLeaking(s) ==
    tx' = [tx EXCEPT ![s] = None] /\ UNCHANGED <<claims, stage>>

(* The permit returns to the semaphore, the claim in memory is dropped.    *)
FreeSlot(s) ==
    /\ claims' = [claims EXCEPT ![s] = None]
    /\ stage' = [stage EXCEPT ![s] = "idle"]
    /\ tx' = [tx EXCEPT ![s] = None]

(* findOwnedJob fails: JobOwnershipLostException, the result is ignored.   *)
OwnershipLost(s) ==
    /\ tx[s] = None
    /\ stage[s] = "running" \/ (stage[s] = "claimed" /\ stopped[HostOf[s]])
    /\ ~Owns(s)
    /\ FreeSlot(s)
    /\ UNCHANGED <<tables, clock, stopped, faults, history>>

Committing(s, calls) ==
    /\ tx[s] # None
    /\ tx[s].call \in calls
    /\ IsFresh(tx[s])

(* A verdict: receipt, job and audit events commit together.               *)
Settle(s, receipt, job, events) ==
    LET r == tx[s].of
    IN  /\ receipts' = [receipts EXCEPT ![r] = Saved(receipt)]
        /\ jobs' = [jobs EXCEPT ![r] = Saved(job)]
        /\ audit' = [audit EXCEPT ![r] = Logged(@, events)]
        /\ overdue' = overdue \ {r}
        /\ FreeSlot(s)
        /\ UNCHANGED <<ripe, stopped, faults, history>>

CompleteQualityRejection(s) ==
    /\ Committing(s, {"reject"})
    /\ \E next \in {"NEEDS_RECAPTURE", "UNREADABLE"} :
          Settle(s, CompleteExtraction(tx[s].receipt, None, {}, next),
                 CompleteJob(tx[s].job), {"QUALITY_REJECTED"})

(* Mutant of CompleteWithData: the duplicate flag seen when claiming.      *)
CompleteWithDataAsClaimed(s) ==
    /\ Committing(s, {"complete"})
    /\ \E data \in Extractions :
          LET results == Validate(data, claims[s].duplicateDetected)
          IN  Settle(s, CompleteExtraction(tx[s].receipt, data, results,
                                           Route(data, results)),
                     CompleteJob(tx[s].job),
                     {"EXTRACTION_COMPLETED", "VALIDATION_COMPLETED"})

(* The duplicate flag is the job's own, not the one seen when claiming.    *)
CompleteWithData(s) ==
    /\ Committing(s, {"complete"})
    /\ \E data \in Extractions :
          LET results == Validate(data, tx[s].job.duplicateDetected)
          IN  Settle(s, CompleteExtraction(tx[s].receipt, data, results,
                                           Route(data, results)),
                     CompleteJob(tx[s].job),
                     {"EXTRACTION_COMPLETED", "VALIDATION_COMPLETED"})

(* Mutant of FailExtraction: the job fails, the receipt is left undecided. *)
FailJobOnly(s) ==
    /\ Committing(s, {"giveUp", "fail"})
    /\ Settle(s, tx[s].receipt, FailJob(tx[s].job), {"EXTRACTION_FAILED"})

FailExtraction(s) ==
    /\ Committing(s, {"giveUp", "fail"})
    /\ Settle(s, CompleteExtraction(tx[s].receipt, None, {}, "MANUAL_ENTRY"),
              FailJob(tx[s].job), {"EXTRACTION_FAILED"})

(* The job goes back to the queue and the receipt stays undecided.         *)
RetryLater(s) ==
    /\ Committing(s, {"retry"})
    /\ LET r == tx[s].of
       IN  /\ jobs' = [jobs EXCEPT ![r] = Saved(ScheduleRetry(tx[s].job))]
           /\ audit' = [audit EXCEPT ![r] = Logged(@, {"EXTRACTION_RETRY_SCHEDULED"})]
           /\ ripe' = ripe \ {r}
           /\ overdue' = overdue \ {r}
    /\ FreeSlot(s)
    /\ UNCHANGED <<receipts, stopped, faults, history>>

ReturnUnstarted(s) ==
    /\ Committing(s, {"release"})
    /\ LET r == tx[s].of
       IN  /\ jobs' = [jobs EXCEPT ![r] = Saved(ReleaseClaim(tx[s].job))]
           /\ ripe' = ripe \cup {r}
           /\ overdue' = overdue \ {r}
           /\ released' = [released EXCEPT ![r] = @ + 1]
    /\ FreeSlot(s)
    /\ UNCHANGED <<receipts, audit, stopped, faults, drawn, runs>>

(* A version moved on: the whole transaction rolls back and processJob     *)
(* only logs it; the job stays PROCESSING until its lease is recovered.    *)
CommitConflict(s) ==
    /\ tx[s] # None
    /\ ~IsFresh(tx[s])
    /\ FreeSlot(s)
    /\ UNCHANGED <<tables, clock, stopped, faults, history>>
-----------------------------------------------------------------------------
(* Faults, at most MaxFaults of them.                                      *)
SpendFault == faults < MaxFaults /\ faults' = faults + 1

(* Any other RuntimeException while executing, returning or committing.    *)
UnexpectedError(s) ==
    /\ stage[s] # "idle"
    /\ SpendFault
    /\ FreeSlot(s)
    /\ UNCHANGED <<tables, clock, stopped, history>>

(* stopPolling: the application context is closing.                        *)
StopPolling(w) ==
    /\ ~stopped[w]
    /\ SpendFault
    /\ stopped' = [stopped EXCEPT ![w] = TRUE]
    /\ UNCHANGED <<tables, clock, claims, stage, tx, history>>

(* The process ends, after a stop or by a crash, and is started again.     *)
(* Its executor's queue and its open transactions are gone.                *)
Restart(w) ==
    LET own == {s \in Slots : HostOf[s] = w}
    IN  /\ IF stopped[w] THEN UNCHANGED faults ELSE SpendFault
        /\ stopped' = [stopped EXCEPT ![w] = FALSE]
        /\ claims' = [s \in Slots |-> IF s \in own THEN None ELSE claims[s]]
        /\ stage' = [s \in Slots |-> IF s \in own THEN "idle" ELSE stage[s]]
        /\ tx' = [c \in Clients |-> IF c \in own THEN None ELSE tx[c]]
        /\ UNCHANGED <<tables, clock, history>>
-----------------------------------------------------------------------------
ClaimSome(w) ==
    \E free \in SUBSET IdleSlots(w) : \E pick \in [free -> Claimable] :
        ClaimAvailable(w, pick)

RecoverSome(w) == \E lost \in SUBSET Expired : RecoverExpired(w, lost)

SlotStep(s) ==
    \/ StartProcessing(s)
    \/ \E call \in WorkerCalls : OpenCall(s, call)
    \/ OwnershipLost(s)
    \/ CompleteQualityRejection(s)
    \/ CompleteWithData(s)
    \/ FailExtraction(s)
    \/ RetryLater(s)
    \/ ReturnUnstarted(s)
    \/ CommitConflict(s)

SubmitterStep(u) ==
    \/ \E r \in Receipts : OpenMarkDuplicate(u, r)
    \/ CommitMarkDuplicate(u)
    \/ AbandonMarkDuplicate(u)

WorkerStep(w) == ClaimSome(w) \/ RecoverSome(w) \/ StopPolling(w) \/ Restart(w)

ClockStep(r) == BecomeRipe(r) \/ LeaseExpires(r)

(* Nothing is left to do: the state in which the system may rest.          *)
AllSettled ==
    /\ \A r \in Receipts : Uploaded(r) /\ IsFinished(jobs[r])
    /\ UNCHANGED vars

Next ==
    \/ \E r \in Receipts, owner \in Owners : CreateQueued(r, owner)
    \/ \E u \in Submitters : SubmitterStep(u)
    \/ \E r \in Receipts : ClockStep(r)
    \/ \E w \in Workers : WorkerStep(w)
    \/ \E s \in Slots : SlotStep(s) \/ UnexpectedError(s)
    \/ AllSettled

Spec == Init /\ [][Next]_vars

(* poll runs at a fixed delay, executor threads run, calls out of the      *)
(* process are bounded by timeouts, time passes and a stopped process is   *)
(* started again.                                                          *)
Fairness ==
    /\ \A w \in Workers : /\ WF_vars(ClaimSome(w))
                          /\ WF_vars(RecoverSome(w))
                          /\ WF_vars(stopped[w] /\ Restart(w))
    /\ \A s \in Slots : WF_vars(SlotStep(s))
    /\ \A r \in Receipts : WF_vars(ClockStep(r))

FairSpec == Spec /\ Fairness
=============================================================================
