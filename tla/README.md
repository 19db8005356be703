# A verified model of the receipt expense review service

TLA+ models of the receipt service in `src/`, the TLC configurations that check them on small
instances, and proofs, checked by TLAPS, that hold for every instance. Java paths below are relative to
`src/src/main/java/com/example/receipt/`.

An employee uploads a photo of a receipt. The service stores the image, answers 202, and a worker later
reads the receipt, checks it against eight rules and gives it a business status. People then correct it
and approve or reject it. Everything that matters is in two MySQL rows per submission, the receipt and
its extraction job, which many threads on many hosts read without locks and write under JPA's `@Version`.
Beside the service the repository holds a load laboratory, `src/load/`: Python scripts that put the service
under load, check what it answers, and run experiments that last for hours and must survive being killed.
Both are modelled.

## 1. Inventory

| Component | State | Operations | Talks to |
|---|---|---|---|
| Extraction queue (`domain/extraction/service/*`, `entity`, `repository`) | job row: status, attempts, owner, claim token, lease, `available_at`, duplicate flag, version; receipt row; audit events | claim a batch, recover expired leases, complete, reject for quality, fail, schedule a retry, release a claim | MySQL; called by worker and processor |
| Extraction processor (`ReceiptExtractionProcessor`) | none (the claim it was handed) | execute one claimed job and choose the lifecycle call | S3, extractor, queue |
| Extraction worker (`ReceiptExtractionWorker`) | permits, executor queue, `stopped` | poll, submit, stop, return permits | queue, processor |
| Rules (`domain/receipt/validation`, `model`, `dto/FieldCorrections`) | none | validate, route, checksum, apply corrections | pure |
| Correction and review (`ReceiptCommandService`) | receipt row, audit trail | correct fields, decide | MySQL; the client's screen gives the expected version |
| Upload intake (`ReceiptUploadService`, `ReceiptPersistenceService`) | idempotency keys, image hashes, receipts | create queued, mark duplicate, replay a key | Redis lock, S3, MySQL constraints |
| Duplicate lock (`global/lock/RedisDuplicateReceiptLock`) | a Redis lock per company and image hash | run under the lock, wait, watchdog | Redis |
| Receipt queries (`ReceiptQueryService`) | none | detail, lists, review queue, trail, image | MySQL, S3 |
| Employee accounts (`EmployeeService`, `AdminBootstrap`) | employee row: role, active, setup token, session version | issue, reissue, set password, activate, deactivate, bootstrap | MySQL row lock |
| Login and sessions (`domain/employee/security`) | session in Redis with a session version | login, logout, validate per request | Redis, employee row |
| Extractors, image quality | none | extract, inspect | AI service, decoder |
| Image storage (`global/storage`) | objects in S3 | put, get, retry | S3 |
| Browser client (`static/assets/receipt-app.js`) | screen, selected file, upload key | upload, poll, correct, decide | HTTP API |
| Duplicate experiment (`load/run-duplicates.py`, `load/k6/duplicates.js`) | answers of two k6 phases, a snapshot of the tables | per mode: upload at once, poll, upload again, compare | HTTP API, MySQL, S3 |
| Load run (`load/run.py`, `load/resource_monitor.py`) | two events, three observer threads, a list of errors | start observers and k6, stop, verify, exit code | k6, docker stats, InfluxDB, MySQL |
| Review experiments (`load/review-baseline.py`, `review-optimized.py`, `review-index-ablation.py`) | `experiment.json`, a result file per load, profile files, the deployed image and its database | seed, copy, profile, measure, note, resume, restore | one loadtest stack |
| Read experiment, reports, verification of results | result files | read, format | - |
| HTTP layer, migrations, deployment | - | - | - |

### What is hard

* **Stale snapshots.** Only claiming and recovering lock their rows (`FOR UPDATE SKIP LOCKED`). Every
  other transaction reads a row, does something, and commits under `@Version`; between the two anything
  can happen: the lease is recovered, the job is claimed again (even by the same worker), a duplicate is
  reported, a reviewer decides.
* **At-least-once execution.** A worker may crash at any point, be stopped, or outlive its lease. Results
  of an earlier claim arrive late. A commit that conflicts is only logged.
* **Two rows, one truth.** The duplicate flag lives in the job, the rules' verdict in the receipt.
* **People.** Requests are decided on screens of any age; an owner may also be a reviewer.
* **Outside the database.** Redis locks may be lost, S3 is written before the rows, uploads are retried.
* **Accounts.** A login compares the password with one version of the row and saves its session later;
  a token is looked up before the row is locked; `active` reads without a lock.
* **Verdicts about races.** The duplicate experiment expects exact tables after a race it provokes on purpose.
* **Threads and Ctrl-C.** The observers of a load run are no daemons; each must see its event or its child's end.
* **Kill and resume.** A session of an experiment can end between any two of: the load starts, its result is
  written, the result is judged, the result is noted.

### What makes each part correct

* Queue: an accepted receipt gets exactly one verdict, by the owner of the current claim; receipt and job
  agree; nothing is claimed after it finished; every claim is accounted for; a verdict eventually comes.
* Duplicates: a flagged receipt is never left automatically approved; the flag is never lost and is told once.
* Review: a decision is made on what the decider saw, stands for good, only on complete data, and never by
  the owner; nobody's correction is lost; rules and data belong together.
* Rules: automatic approval exactly for clean receipts that are no duplicates.
* Intake: one receipt per company and image, given to its owner only, a key that created a receipt is bound to it,
  no row without its image.
* Accounts: a password is set once and with the last token, no login from before a deactivation is admitted after it.
* Duplicate experiment: no false alarm where no race was lost, and no lost race behind the verdict "passed".
* Load run: exit code 0 only for a clean run; a run that has started its load ends.
* Review experiments: no load is repeated, no noted run is lost, "completed" is true when it is written.

`PROJECT.json` lists the hazards of the code line by line with the properties that catch them.

## 2. The modules

```
ReceiptRules            rules, router, checksum, corrections (pure operators)
  ReceiptRows           the two entities and their methods, row -> row
    ReceiptRowsProofs   lemmas the proofs share; what the rules do with any data (TLAPS)
    ExtractionQueue     claims, leases, execution, crashes, duplicate uploads
      ExtractionQueueProperties     properties, refinement of ReceiptPromise
        MCExtractionQueue           instances for TLC
        ExtractionQueueProofs       all of the queue's safety, the refinement included (TLAPS)
    ReceiptReview       corrections, decisions, duplicates, one receipt
      ReceiptReviewProperties
        MCReceiptReview             instances for TLC
        ReceiptReviewProofs         every property that holds (TLAPS)
    UploadIntake        uploads, keys, lock, put, constraints, and the extraction they meet
      UploadClients     clients that send anything, and the intake's properties
        MCUploadClients
        UploadClientsProofs         types, one receipt, answers, keys (TLAPS)
      DuplicateExperiment           run-duplicates.py against the intake
        MCDuplicateExperiment
        DuplicateExperimentProofs   no lost race behind "passed", no false alarm (TLAPS)
  MCReceiptRules        tables of bounded inputs for the rules
ReceiptPromise          what a submitter is promised (abstract)
EmployeeAccounts        invitations, activation, logins, sessions
  MCEmployeeAccounts
  EmployeeAccountsProofs            types, invitations, sessions (TLAPS)
LoadRun                 run.py and its observers
  MCLoadRun
  LoadRunProofs         exit code 0 is clean (TLAPS)
ReviewBaseline          review-baseline.py, the stack, and what happens to any session
  ReviewOptimized       review-optimized.py
    ReviewIndexAblation review-index-ablation.py, the three together, and their properties
      MCReviewIndexAblation
      ReviewIndexAblationProofs     no load twice, noted runs stay, completion is earned (TLAPS)
```

### ReceiptRules, ReceiptRows

Strings are abstracted to what the rules tell apart: a shop name is a value, `Blank`, or `None` (null);
dates are day numbers; a registration number is a sequence of digits and `NonDigit`. `Validate`, `Route`,
`ApplyTo`, `IsValidBusinessNumber` follow `ValidationEngine`, `ReceiptStatusRouter`, `FieldCorrections` and
`BusinessRegistrationNumberValidator`. `Saved(row)` is the versioned UPDATE: every column from the row in
memory, and the version plus one. Claim tokens are UUIDs in the code; the model numbers them per job in the
order they are drawn, which keeps them as distinct as UUIDs.

### ExtractionQueue

| Variable | Code |
|---|---|
| `receipts`, `jobs`, `audit` | the tables; `audit` counts the events of each action |
| `ripe`, `overdue` | the outcomes of `available_at <= now` and `lease_until < now` |
| `stopped` | `ReceiptExtractionWorker.stopped` |
| `claims`, `stage` | per permit of a worker: the `ClaimedReceiptJob` it pays for, waiting in the executor or executed |
| `tx` | the open transaction of an executor thread or of an upload: the rows it read and the method it runs |
| `faults` | faults spent, see below |
| `drawn`, `runs`, `released` | history, read by no guard except that `drawn` numbers the tokens |

| Actions | Code |
|---|---|
| `CreateQueued` | `ReceiptPersistenceService.createQueued` |
| `OpenMarkDuplicate`, `CommitMarkDuplicate`, `AbandonMarkDuplicate` | `markDuplicate`, snapshot, commit, rollback |
| `ClaimAvailable` | `ReceiptJobClaimService.claimAvailable`, one locked transaction per batch |
| `RecoverExpired` | `ExpiredJobRecoveryService.recoverExpired` |
| `StartProcessing` | an executor thread takes the job |
| `OpenCall`, `OwnershipLost` | `findOwnedJob` succeeds or throws |
| `CompleteQualityRejection`, `CompleteWithData`, `FailExtraction`, `RetryLater`, `ReturnUnstarted` | the commits of the lifecycle methods |
| `CommitConflict` | `@Version` refuses the commit; the job waits for lease recovery |
| `BecomeRipe`, `LeaseExpires` | time |
| `UnexpectedError`, `StopPolling`, `Restart` | faults |

A transaction that reads without locks is two steps. Since the write is one UPDATE of all columns guarded by
the version, the model needs no finer grain: what happens between the read and the commit is visible in the
rows' versions alone. The Redis lock that normally keeps two uploads of an image apart is deliberately
absent: it may be lost, and `resolveConstraintConflict` reaches `markDuplicate` without relying on it.

A lease that runs out although its holder is still working is a fault (configuration leaves 60 s for a call
bounded by the extractor's and S3's timeouts, but executor queueing, image loading and commit run on the same
lease, so it can happen). A lease of which nobody holds the claim any more simply runs out.

### ReceiptReview

One receipt: `receipt`, `job`, its audit `trail` in commit order, the row each client displays (`views`), the
open transactions of requests (`changes`) and of duplicate uploads (`uploads`). A request carries the version
of the row on the screen. `OpenCorrection` and `OpenDecision` are `correctFields` and `decide` up to their
commits, with the permission, version, editable-status and approval checks in the code's words; `CommitChange`
and `RollBackChange` end them. The extraction's verdict is one step here, as `ExtractionQueue` justifies.

### UploadIntake, UploadClients

| Variable | Code |
|---|---|
| `images`, `receipts`, `jobs`, `audit`, `keys` | the tables; `images` and `keys` carry the two unique constraints |
| `objects` | the S3 bucket |
| `holder` | the Redis lock of an image: a thread, `Gone` (its server died), or nobody |
| `calls` | the request of each server thread and the stage it is at in `ReceiptUploadService.upload` |
| `executing`, `completing` | what of the extraction an upload can meet: a held claim, an open `completeExtraction` |
| `faults` | lapsed locks, failing puts and dying servers so far |

Each look-up, the put, each transaction and each operation on the lock is a step. Two receipts of the same image
cannot exist, so the id of a receipt is its place in the table. `UploadClients` adds clients that send any image
under any key, and remembers what was answered together with what the key was bound to when it was asked.

### DuplicateExperiment

The runner of `run-duplicates.py` as one more actor beside the server threads of `UploadIntake`: all virtual
users released at once, answers collected, tables polled, the image sent again, and `check_responses` and
`verify_case` as sets of errors. `races` is history: the races the service lost in this case.

### EmployeeAccounts

| Variable | Code |
|---|---|
| `employees`, `expired` | table `employees`; the tokens whose `setup_expires_at` is over |
| `sessions` | the `EmployeePrincipal` that Redis keeps for a browser |
| `requests` | the request in hand: admitted with its actor, a login that has compared the password, a `setPassword` that has found its token, an `active` that has read its row |
| `drawn`, `sets`, `ended` | history: tokens handed out, tokens that set a password, deactivations; `drawn` numbers the tokens |

`Admit` and `RejectAuthentication` are the filter, `Authenticate` and `SaveSession` the two ends of a login,
`FindByToken` and `SetPassword` the two look-ups of a token, `OpenActive` and `CommitActive` a read without a lock and
a commit under `@Version`. A request that fails at any of these simply ends (`Answer`). A browser sends one request at
a time; sessions that end on another tab or by timeout are `SessionExpires`.

### LoadRun

`main` is where the main thread of `run.py` is, `watchers` where the three observers are, `k6` and `stats` are the child
processes, `stop` and `stopAll` the two events. A sample is taken, fails with an exception the code catches, or with one it
does not catch. `Interrupt` is Ctrl-C, which the terminal also sends to the children. A k6 that passes has written
its summary.

### ReviewBaseline, ReviewOptimized, ReviewIndexAblation

One stack (`tag`, `app`, `data`), one session at a time (`script`, `place`, `work`) with `experiment.json` in memory
(`memory`) and on disk (`saved`), the result files (`results`), the profile files (`files`) and, as history, the loads of the ablation in
order (`loads`). Any session can be killed (`Kill`), raise anywhere in its try block (`Raise`), or fail in its
finally block (`RestoreFails`); rows can be changed from outside (`ChangeRows`); the stack can be brought up by hand
with another image (`Deploy`). Each experiment has one folder. A load is sound or not; what a response or a plan
contains is left out, except that changed rows may or may not answer as expected.

### ReceiptPromise

What remains when workers, leases, retries and versions are forgotten: a receipt is accepted, decided once,
perhaps flagged; a flagged one is never decided to automatic approval, and flagging a decided one sends it to a
person. `ExtractionQueueProperties` instantiates it with a refinement mapping (`accepted <- Jobs`,
`flagged <-` jobs with the duplicate flag, `verdict <-` receipt status), checked as `PromiseKept` (safety) and
`PromiseKeptInTime` (with `WF(Decide)`).

## 3. What is model-checked

Deadlock is checked in every run. `ExtractionQueue` may rest only in a state in which every receipt is uploaded
and finished (`AllSettled`), the intake when everything sent is answered (`Rest`), the load run when its process has
ended; a duplicate experiment when it has its verdict.

| Run | Shows | Instance, distinct states |
|---|---|---|
| `leases` | one claim owns a job; one verdict; every claim ends once and is accounted for; owner and token exactly while PROCESSING; retries bounded; finished jobs stay; only the owner settles | 1 job, 2 workers, 3 slots, 3 attempts, 2 faults, 1 duplicate upload; about 600 000 |
| `duplicates` | the flag is neither lost nor told twice, no flagged receipt ends AUTO_APPROVED, refinement of the promise | 1 job, 2 workers, 2 uploads of the duplicate, 2 faults; about 250 000 |
| `promise_in_time` | the promise with its liveness | 2 slots; 2 receipts and 1 fault, or 1 receipt, 1 duplicate upload and 2 faults; 134 502 |
| `review_races` | the trail is a chain; only complete receipts are approved and never by their owners; rules belong to data; decisions are on what was seen and final; no correction lost | owner, reviewer, administrator, 1 upload, one correction; about 370 000 |
| `review_duplicates` | a violation, finding 1 | as `review_races` |
| `rules` | automatic approval iff clean; a duplicate only tightens; a correction applied twice is a correction applied once; every single wrong digit is detected | about 18 500 inputs |
| `uploads` | one stored receipt per image, answers to the sender only, keys stay bound | 3 uploads in 2 threads, 2 images, 1 key or none, 2 employees, 1 fault; about 346 000 |
| `duplicate_experiment` | no false alarm, no hidden loss | every mode, 2 or 4 simultaneous uploads, each sent twice; about 137 000 |
| `owners_answered` | a violation, finding 2 | 2 uploads of one employee |
| `accounts` | a password is set once with the last token; deactivation ends sessions | 2 employees, 3 browsers, 2 tokens each, 2 changes of `active`; 385 741 up to symmetry |
| `load_run` | exit code 0 is clean; the run ends | with and without resources and Grafana, 2 errors, 2 Ctrl-C; about 321 000 |
| `campaign` | no load twice, noted runs stay, completion is earned | 1 database, 2 scenarios, 2 pages, 3 images, 1 fault; 1 056 666 |

Why these bounds are enough to be interesting. Receipts do not share state except the permits and the batch,
so one receipt suffices for everything but batching, for which `promise_in_time` has two. It joins two instances
in one run (`LiveSpec`): with two receipts nothing is duplicated and one fault may happen; with one, two faults and a duplicate.
The restriction takes away no step that fairness promises. Two workers are
needed for a claim to move, and two slots on one worker for the same worker to claim a job it lost, where only
the token tells the claims apart: `leases` has both (`OneAndTheOthers`). Three attempts are the code's
`MAX_ATTEMPTS`. Two faults allow a fault during the recovery from a fault, such as a crash of the worker that
claimed after an outlived lease. `Samples` holds a flawless receipt, one that fails a rule and one without usable data, the
three ways the router can go. `MaxVersion` bounds corrections in `ReceiptReview`: a row that has reached that
version is not corrected again; decisions and duplicates are not bounded (they are finite anyway).
`AbandonMarkDuplicate` lets any number of duplicate uploads come and go without a bound.

In `uploads` the third upload meets what two racing ones left behind, in whatever way they converged; one key against
two images is the smallest case in which the key and the image lead to different receipts. In `duplicate_experiment`
two and four virtual users are the smallest numbers for which `cross-owner` expects no duplicate and a duplicate. In `accounts`
two administrators can act on each other and a third browser holds a login or a token meanwhile; two tokens and two changes of
`active` allow a reissue, and a deactivation followed by an activation, while something old is in flight. In `load_run` two Ctrl-C let the second meet
the handling of the first. In `campaign` one fault suffices for each property's mutants; with two the run does not finish in
minutes. There the proofs take over: the three theorems about it hold for any number of faults.

Every property has a mutant in `PROJECT.json`: a small change of one definition, such as a dropped version
check or a permit that is not returned, under which TLC finds the property violated. Mutated forms stand
beside the definitions they are forms of and are used nowhere else.

### Fairness

`FairSpec` assumes that each worker's claim and recovery happen if they stay possible (poll is scheduled with
a fixed delay), that a slot with something to do eventually does something (executor threads
run, and every call out of the process has a timeout), that time passes, and that a stopped process is started
again (deployment restarts the container). Nothing is assumed of uploads: a duplicate report may stay open for
ever, commit at the worst moment, or be abandoned. No strong fairness is needed. Faults are bounded by
`MaxFaults`: without a bound liveness would be false, since lease recovery ignores the number of attempts
and a job that always kills its worker is claimed for ever. Since a fault bounds only interference, the
property says: once faults stop, a verdict comes.

`LoadRun` assumes that threads run and that every call out of the process ends: each HTTP call, join and wait in
`run.py` and `resource_monitor.py` has a timeout, `docker stats` prints lines or ends, and k6's scenarios have a
duration. Nothing is assumed of Ctrl-C. The other modules state no liveness: a request may stay unanswered and a session of
an experiment may stop.

## 4. What is proved

TLAPS checks these for every value of the constants: every set of receipts, workers, slots and submitters, every set
of extracted data and every limit; every set of employees with any roles, and every set of corrections they may send; every set of
browsers; every set of images, keys and server threads; every number of virtual users, failing samples and interrupts; every
list of databases and pages, every number of repetitions and of faults.

| Theorem | Property |
|---|---|
| `TypeCorrect` (`ExtractionQueueProofs`) | `Spec => []TypeOK` |
| `OwnerCleared` | `Spec => []OwnerIffProcessing` |
| `VerdictWithJob` | `Spec => []VerdictIffFinished` |
| `DuplicateHeldBack` | `Spec => []DuplicateNeverAutoApproved` |
| `FlagKept` | `Spec => DuplicateFlagKept` |
| `FinishedStays` | `Spec => FinishedIsFinal` |
| `OneOwner` | `Spec => []SingleOwner` |
| `OwnerAloneSettles` | `Spec => OnlyOwnerSettles` |
| `VerdictOnce` | `Spec => []OneVerdict` |
| `DuplicateToldOnce` | `Spec => []DuplicateAuditedOnce` |
| `ClaimsBalance` | `Spec => []ClaimLedger` |
| `RetriesLimited` | `Spec => []RetriesBounded` |
| `QueueKeepsPromise` | `Spec => PromiseKept`, the refinement of `ReceiptPromise` |
| `ReviewTypeCorrect` (`ReceiptReviewProofs`) | `Spec => []TypeOK` |
| `TrailAlwaysChain` | `Spec => []TrailIsChain` |
| `ApprovedCanBePaid` | `Spec => []ApprovedIsComplete` |
| `RulesAlwaysMatch` | `Spec => []RulesMatchData` |
| `FourEyesAlways` | `Spec => []FourEyes` |
| `DecisionsAsSeen` | `Spec => DecidedAsSeen` |
| `DecisionsAreFinal` | `Spec => DecisionIsFinal` |
| `NoCorrectionIsLost` | `Spec => ChangesAreAudited` |
| `AccountsTypeCorrect` (`EmployeeAccountsProofs`) | `Spec => []AccountsTypeOK` |
| `InvitationOnce` | `Spec => []LastInvitationSets` |
| `SessionsEnd` | `Spec => DeactivationEndsSessions` |
| `IntakeTypeCorrect` (`UploadClientsProofs`) | `Spec => []IntakeTypeOK` |
| `OneReceipt` | `Spec => []OneStoredReceiptPerImage` |
| `SenderAnswered` | `Spec => []AnswersTheSender` |
| `KeyStaysBound` | `Spec => []CreatedKeyIsBound` |
| `NoRaceIsHidden` (`DuplicateExperimentProofs`) | `Spec => []PassedCaseLostNothing` |
| `NoFalseAlarm` | `Spec => []QuietCasePasses` |
| `CleanExit` (`LoadRunProofs`) | `Spec => []ExitZeroIsClean` |
| `NeverLoadedTwice` (`ReviewIndexAblationProofs`) | `Spec => []LoadedOnce` |
| `NothingNotedIsLost` | `Spec => NotedRunsStay` |
| `CompleteIsComplete` | `Spec => CompletionIsEarned` |
| `ApprovedIffApprovable` (`ReceiptRowsProofs`) | for all data: approved without a person iff `Approvable` and no duplicate |
| `DuplicateTightensAlways` | for all data: `DuplicateTightens`, what the run `rules` checks on tables |
| `CorrectsOnceAlways` | for all data and corrections: `CorrectsOnce`, likewise |
| `WrongDigitDetected` | for all valid numbers of ten digits: any other digit in any place makes the number invalid |

Assumptions on the constants, each named where the constant is declared and evaluated by TLC in the runs:
`HostsAssumption` (each slot has a worker), `LimitsAssumption` (limits are positive), `ExtractionsAssumption`
(the extractor returns receipt data or nothing), `ThreadsAssumption` (slots and submitters are different
threads), `NullAssumption` (null is not a row, a worker, a status or a number), `TodayIsADay`,
`RolesAssumption` (owners are employees, employees have a role), `InputsAssumption` (what is extracted and what is sent to
`PATCH /fields` has the types the DTOs declare), `ReviewNoneAssumption` (null is not a row, a request, an employee or a status),
`AccountsNoneAssumption` (null is not an employee, a row, a principal or a number), `AccountsBoundsAssumption`,
`VariantsAssumption` (the two variants are different images), `CountsAssumption` (the databases' sizes are numbers),
`BlankAssumption` (null is neither receipt data nor a business status, a blank text is not a name in use), `GoneAssumption`, `FaultsAssumption`,
`FakeDataAssumption` (the fake extractor returns receipt data), `ClientsAreNumbers` (null is none), `ImagesAssumption` (a case has an
image), `CleanAssumption` (the fake extractor's receipt passes every rule), `SizesAssumption` and `EmployeesAssumption` (an even
number of virtual users, at least two; at least two employees, which `duplicates.js:17` demands), `BoundsAssumption`.

The argument for the queue.

1. `WellFormed` is inductive: types, which rows exist, and what a slot's stage says about its claim and its
   transaction. Type correctness alone is not, because an action that writes `tx[s].of` must know that this
   receipt has rows. The proof has one lemma per group of actions.
2. `Snapshots` (`WellFormed /\ SnapshotsCurrent`) is inductive: a transaction whose job version is still
   current holds the current content of *both* rows. It holds because no receipt changes without the
   version of its job (`VersionMoves`). It is what makes checking one row's version enough to protect the other.
3. Hence a commit that passes the check changes the rows as they are *now*, and `RowSteps` reduces any step of the
   whole system to one of six steps of a single receipt (`RowStep`): same, created, claimed, returned, settled,
   flagged.
4. The invariants of a receipt, and both action properties, are proved from `RowStep` alone. `VerdictsRouted` is the
   strengthening `DuplicateNeverAutoApproved` needs: a receipt that already carries the duplicate failure is left
   alone by a second report, so it must be known to be in a status for a person.

5. `TokensDistinct` is inductive on top of it: only `ClaimAvailable` hands out claims, each with a token above all
   earlier ones of its job; every other step drops claims at most (`ClaimsSteps`). A job recognises one token, so it has one owner.
   That only the owner settles follows from step 3: the job read with the claim's token is the job as it is now.
6. `LedgerSteps` says of any step what it does to one job *and* its audit events. From it the balance of claims, the single
   verdict and the single duplicate event (`RowLedger`) are inductive. The bound on retries also needs `AttemptsKnown`: the
   number of attempts an executor compares with the limit is the job's own as long as its claim is current, and is below the
   limit while the transaction of a retry is open.
7. For the refinement, a step is seen of one receipt at most (`SeenOfOne`): a batch of claims or recoveries changes many
   rows but neither a flag nor a status. For that receipt creation is `Accept`, a verdict `Decide`, a report of a duplicate `Flag`;
   everything else stutters. `DuplicateHeldBack` and `VerdictIffFinished` give the guards of the promise.

The rules themselves. `AnyFailedIff` unfolds the eight results, from which the routing follows; `CorrectsOnceAlways` needs only that
a corrected field is given, cleared or kept, and that normalising a text twice is normalising it once.

The rules enter the queue only through three lemmas (`ValidateType`, `MarkedAsTold`, `MarkedGoesToAPerson`), so these proofs do
not depend on what the other seven rules compute.

The argument for the review. `ReviewInvariant` is inductive, and its heart is `ReadsCurrent`: whatever a screen, a request or an
upload has read is the current row or has an older version, and what a request is about to write is known in terms of the row it read
(`ChangeBy`: who may, from which status, to which row). A commit that passes the version check therefore works on the current row, and any
step is one of five (`ReviewStep`): nothing, a verdict, a deferred duplicate, a flagged duplicate, a person's change.
`RowOK` (rules, data and status agree; an approval is complete) and `TrailOK` (the trail is a chain, no person
is in it before the verdict, four eyes) are proved from these five alone. The three action properties follow from `ReviewStep` too.
Completeness of automatic approvals uses four of the rules (`CleanIsComplete`). An upload that read a receipt before its verdict
is stopped by the version of the *job*, which `ReadsCurrent` states as well.

The argument for the accounts. `Accounts` is inductive: a row's session version is the number of its deactivations,
its token is the last one handed out and goes with a missing password (`RowOK`); a principal, in a session or in a login under way,
has the session version the row had after as many deactivations (`PrincipalOK`); and the row an open `active` has read is
the row as it is, if the version still is (`SnapshotOK`). Only two kinds of steps have to be examined, one that
changes what a browser has (`BrowserStep`) and one that changes one row (`RowStep`); each action is an instance. A session the filter accepts has the row's
session version, hence comes from after the last deactivation.

The argument for the uploads. Rows, keys and objects only grow, and a row keeps its image and its owner (`TablesGrow`). What a thread
learnt from finding something therefore stays true until it answers, whoever else has entered the section under the lock; what it learnt from
*not* finding something may become false, and for that the unique constraints look again (`RowsCreated`). `StageOK` says what a thread
knows at each stage; the lock occurs in none of it.

The argument for the duplicate experiment. Each lost race leaves a trace that no step of the service wipes out. A lost result leaves its job
unfinished with an attempt counted, or claimed a second time (`Unrewarded`), and the verifier asks for a job completed after one attempt. A rolled
back mark was answered with 409 although the employee owns a receipt (`Refused`); the answer stays in the call until the phase records it. The
invariant also needs that a snapshot whose job version is current holds the current job, and that each open result belongs to a held claim.

The converse, that a case without a lost race passes, has an invariant of its own (`Quiet`, as long as `races` is empty), since the verifier compares
everything. One upload at a time is inside the section under the lock, so one upload creates the receipt (`Creator`), and no other finds the image
unknown there. What every later answer says is determined by the employee, the key and the flag (`AsExpected`), and none of the three changes back.
A snapshot whose job is current holds the current receipt too (`Fresh`), so whichever of the mark and the extraction commits second
works on what the first left: job, receipt and history agree at every step (`JobQuiet`, `ReceiptQuiet`, `AuditQuiet`). That a duplicate
*is* flagged by the end of the first phase where the case expects it uses that the number of users is even: the creator has a companion,
another upload of the same employee under a key not saved yet, which finds the receipt and is answered only after its mark was committed.

The argument for the load run. An observer that outlives its join is an error, so whoever could still find one after the code is
chosen is over by then (`Joined`); the last sample of the queue follows the event, which follows the end of k6 (`LastSample`). Liveness is
not involved.

The argument for the review experiments. `Ledger` is inductive: every started load has a result or is the one written down
in `experiment.json` (`WrittenDown`), the session knows it too (`Known`), and the load at hand is in neither place until it starts
and written down before that (`AtHand`). A session that finds a load written down without a result refuses. For the other two properties `Books` says for
each script and each place of it what the session's memory, `experiment.json` and the result files have to do with each other: what
was noted has its result file, what is in memory is what is on disk or one step ahead of it, and what will be noted next is not noted yet. Saving a
memory that had fallen behind is what would lose a run.

Only model-checked:

* Liveness under fairness: `PromiseKeptInTime`, `RunEnds`.
* What the rules compute from a sequence of any length needs induction over data: in `AutoApprovedIffClean` that the items' rule
  fails on the right sums, in `SingleDigitErrorDetected` that separators are ignored. What follows once the rules have spoken is
  proved (`ApprovedIffApprovable`), and so is the checksum of the ten digits themselves (`WrongDigitDetected`): the weights 1, 3 and 7 are
  invertible modulo 10, and the carry makes the weight 5 of the ninth digit so. `DuplicateOnlyTightens` and `CorrectionIsIdempotent`
  state for the tables of the run what `DuplicateTightensAlways` and `CorrectsOnceAlways` state for all data.

## 5. Findings

1. *A duplicate is forgotten* (`review_duplicates`). A duplicate reported before the extraction ends is kept
   in the job only. If the extraction then ends without rule results (quality rejection or failure), `correctFields`,
   which reads the duplicate from the receipt's stored rule results (`ReceiptCommandService.java:69`), does
   not see it, and a reviewer's correction makes the receipt AUTO_APPROVED. `DuplicateNeverAutoApproved` in the
   queue is not contradicted: there the extraction and the uploads are the only writers.
2. *Owners are refused* (`owners_answered`). `upload` catches `ReceiptConflictException` alone. When `markDuplicate`
   reads the job, the extraction claims or completes it, and `markDuplicate` commits, the lost version reaches the client
   as 409, which `src/README.md:155` reserves for other owners. The duplicate experiment would report it (`PassedCaseLostNothing`).

Differences between words and code that were met while modelling and need no run:

* `MAX_ATTEMPTS` is described as the number of executions (`ReceiptExtractionProcessor.java:28`), but `attemptCount`
  counts claims, also those released or lost before they were executed (`:63`).
* `src/README.md:136` has unreadable receipts decided only after their fields were completed; rejecting them without is
  possible and intended according to `ReceiptCommandService.java:102`.
* Two administrators who deactivate each other at once both succeed; `bootstrap` then refuses, because employees exist.
* `run.py`: `watch_queue` (`:105`) does not catch every exception a broken connection raises; its thread then ends and the run may still exit
  with 0, which is why `ExitZeroIsClean` speaks of a watcher that did not die. A Ctrl-C before the try block, or in the finally block's joins, leaves observer threads behind
  that nobody stops; hence `RunEnds` excludes it.
* `review-baseline.py`: a run that was rejected when it was measured is admitted by `--resume`; opening a folder again
  without `--resume` after a first result that was not yet noted measures the combination again, and from then on `--resume` refuses
  the two results (`:291`); a session killed before its dataset was noted cannot be resumed (`:329`); a baseline whose profile was cut short
  completes, and its followers then lack the fixture files.
* `review-optimized.py`: a session that was killed while profiling leaves the database's statement counters enabled (`:299-357`).
* Deliberate dead ends, not faults: an interrupted `--prepare-controls` begins a new folder; an ablation whose load was
  started and left no result stays closed.

## 6. What is not modelled, and why

* Extractors, image inspection, S3: their outcomes are choices. Which S3 error is retried is a table.
* Exception-to-status mapping (except where an upload meets it), security filter chain, CSRF, cookies, migrations,
  deployment scripts: declarative, or run once.
* Lists, paging and the review queue's filter: single SELECTs whose result the database defines.
* The semaphore's accounting inside `startNextJobs`: what is not used is given back in the same method, before
  anybody else can tell; a slot of `ExtractionQueue` is a permit with its claim. That model takes the check of `stopped` and the
  claim that follows it as one step; a claim that commits just after a stop is seen there as the claim followed by the stop.
* Clocks are modelled by the comparisons made with them; the display order of the audit trail by
  `occurredAt`, which comes from several clocks, is left open.
* A request that was admitted before a deactivation is finished with the rights it had: the code reads the employee once
  per request, and no property claims otherwise.
* Of the review experiments: hashes of sources and environment, the contents of fixtures, the classification of SQL and the
  deltas of its counters, the index check on the baseline's database. Two sessions at once are not modelled; nothing in the scripts prevents them.
* `run-reads.py` starts `run.py` for a list of cases and continues with `--resume` as the review experiments do in stricter forms; the
  reports and verification scripts read finished files and keep no state.
