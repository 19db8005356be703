------------------------ MODULE ExtractionQueueProofs ------------------------
(***************************************************************************)
(* Proofs about ExtractionQueue for every number of receipts, workers,     *)
(* slots and submitters and every bound on attempts and faults, in four    *)
(* parts: types, what happens to one receipt, who owns a job, and what an  *)
(* outsider can rely on.                                                   *)
(***************************************************************************)
EXTENDS ExtractionQueueProperties, ReceiptRowsProofs

(* Writing audit events keeps the counters natural numbers.                *)
LEMMA LoggedType ==
    ASSUME NEW log \in [AuditActions -> Nat], NEW actions
    PROVE  Logged(log, actions) \in [AuditActions -> Nat]
BY DEF Logged
-----------------------------------------------------------------------------
(* Well-formedness: types, which rows exist, what a slot's stage means.    *)
LEMMA InitWellFormed == Init => WellFormed
<1> SUFFICES ASSUME Init
             PROVE  WellFormed
  OBVIOUS
<1> USE DEF Init
<1>1. TypeOK
  BY LimitsAssumption DEF TypeOK, NoEvents, Stages
<1>2. RowsPresent
  BY DEF RowsPresent, Clients
<1>3. SlotsCoherent
  BY DEF SlotsCoherent, Clients
<1>4. QED
  BY <1>1, <1>2, <1>3 DEF WellFormed

(* Freeing a slot leaves the slots coherent and the other parts typed.     *)
LEMMA FreeSlotFacts ==
    ASSUME WellFormed, NEW s \in Slots, FreeSlot(s)
    PROVE  /\ claims' \in [Slots -> Claim \cup {None}]
           /\ stage' \in [Slots -> Stages]
           /\ tx' \in [Clients -> Transaction \cup {None}]
           /\ \A t \in Slots : claims'[t] = IF t = s THEN None ELSE claims[t]
           /\ \A t \in Slots : stage'[t] = IF t = s THEN "idle" ELSE stage[t]
           /\ \A c \in Clients : tx'[c] = IF c = s THEN None ELSE tx[c]
BY DEF WellFormed, TypeOK, FreeSlot, Stages, Clients

(* A slot that was freed is idle, without claim and without transaction.   *)
LEMMA FreeSlotCoherent ==
    ASSUME WellFormed, NEW s \in Slots, FreeSlot(s)
    PROVE  SlotsCoherent'
BY FreeSlotFacts, ThreadsAssumption DEF WellFormed, SlotsCoherent, Clients

(* The rows a step works on are there and have their types.                *)
LEMMA RowFacts ==
    ASSUME WellFormed
    PROVE  /\ \A r \in Jobs : jobs[r] \in Job /\ receipts[r] \in Receipt
           /\ \A c \in Clients : tx[c] # None =>
                 /\ tx[c] \in Transaction
                 /\ tx[c].of \in Jobs
                 /\ tx[c].job \in Job
                 /\ tx[c].receipt \in Receipt
           /\ \A s \in Slots : claims[s] # None =>
                 /\ claims[s] \in Claim
                 /\ claims[s].receipt \in Jobs
<1>1. \A r \in Jobs : jobs[r] \in Job /\ receipts[r] \in Receipt
  BY DEF WellFormed, TypeOK, RowsPresent, Jobs, Uploaded
<1>2. \A c \in Clients : tx[c] # None => tx[c] \in Transaction /\ tx[c].of \in Jobs
  BY DEF WellFormed, TypeOK, RowsPresent
<1>3. \A t \in Transaction : t.job \in Job /\ t.receipt \in Receipt
  BY DEF Transaction
<1>4. \A s \in Slots : claims[s] # None =>
          claims[s] \in Claim /\ claims[s].receipt \in Jobs
  BY DEF WellFormed, TypeOK, RowsPresent
<1>5. QED
  BY <1>1, <1>2, <1>3, <1>4

(* Replacing rows of uploaded receipts by rows keeps the tables typed and  *)
(* the set of uploaded receipts as it is.                                  *)
LEMMA RowUpdate ==
    ASSUME WellFormed, NEW r \in Jobs, NEW job \in Job,
           jobs' = [jobs EXCEPT ![r] = job]
    PROVE  /\ jobs' \in [Receipts -> Job \cup {None}]
           /\ Jobs' = Jobs
           /\ \A q \in Receipts : jobs'[q] = None <=> jobs[q] = None
BY NullAssumption DEF WellFormed, TypeOK, Jobs, Uploaded

(* Replacing the counters of one receipt keeps the audit table typed.      *)
LEMMA AuditUpdate ==
    ASSUME WellFormed, NEW r \in Receipts, NEW actions,
           audit' = [audit EXCEPT ![r] = Logged(@, actions)]
    PROVE  audit' \in [Receipts -> [AuditActions -> Nat]]
<1>1. audit \in [Receipts -> [AuditActions -> Nat]]
  BY DEF WellFormed, TypeOK
<1>2. Logged(audit[r], actions) \in [AuditActions -> Nat]
  BY <1>1, LoggedType
<1>3. QED
  BY <1>1, <1>2
-----------------------------------------------------------------------------
(* Each group of actions keeps the state well-formed.                      *)
LEMMA IntakeWellFormed ==
    ASSUME WellFormed, NEW r \in Receipts, NEW owner \in Owners,
           CreateQueued(r, owner)
    PROVE  WellFormed'
<1> USE DEF CreateQueued, Jobs, Uploaded
<1>1. NewJob # None /\ NewReceipt(owner) # None
  BY NewRowTypes, NullAssumption
<1>2. TypeOK'
  <2>1. audit' \in [Receipts -> [AuditActions -> Nat]]
    BY AuditUpdate
  <2>2. QED
    BY <2>1, NewRowTypes DEF WellFormed, TypeOK, workers, history
<1>3. RowsPresent'
  BY <1>1 DEF WellFormed, TypeOK, RowsPresent, workers
<1>4. SlotsCoherent'
  BY DEF WellFormed, SlotsCoherent, workers
<1>5. QED
  BY <1>2, <1>3, <1>4 DEF WellFormed

(* A duplicate upload keeps the state well-formed.                         *)
LEMMA SubmitterWellFormed ==
    ASSUME WellFormed, NEW u \in Submitters, SubmitterStep(u)
    PROVE  WellFormed'
<1>0. u \in Clients /\ u \notin Slots
  BY ThreadsAssumption DEF Clients
<1>1. ASSUME NEW r \in Receipts, OpenMarkDuplicate(u, r)
      PROVE  WellFormed'
  <2> USE <1>0, <1>1 DEF OpenMarkDuplicate, tables, clock, workers, history
  <2> DEFINE opened == [of |-> r, call |-> "markDuplicate",
                        job |-> jobs[r], receipt |-> receipts[r]]
  <2>1. r \in Jobs
    BY DEF Jobs
  <2>2. opened \in Transaction
    BY <2>1, RowFacts DEF Transaction
  <2>3. TypeOK'
    BY <2>2 DEF WellFormed, TypeOK
  <2>4. RowsPresent'
    BY <2>1 DEF WellFormed, TypeOK, RowsPresent, Jobs, Uploaded
  <2>5. SlotsCoherent'
    BY DEF WellFormed, TypeOK, SlotsCoherent, Clients
  <2>6. QED
    BY <2>3, <2>4, <2>5 DEF WellFormed
<1>2. ASSUME CommitMarkDuplicate(u)
      PROVE  WellFormed'
  <2> USE <1>0
  <2> DEFINE t == tx[u]
  <2>1. /\ t \in Transaction
        /\ t.of \in Jobs
        /\ t.of \in Receipts
        /\ Saved(MarkJobDuplicate(t.job)) \in Job
    BY <1>2, RowFacts, JobMethodTypes DEF CommitMarkDuplicate, Jobs
  <2>2. /\ jobs' \in [Receipts -> Job \cup {None}]
        /\ Jobs' = Jobs
        /\ \A q \in Receipts : jobs'[q] = None <=> jobs[q] = None
    BY <1>2, <2>1, RowUpdate DEF CommitMarkDuplicate
  <2>3. /\ receipts' \in [Receipts -> Receipt \cup {None}]
        /\ \A q \in Receipts : receipts'[q] = None <=> receipts[q] = None
    <3>1. CASE WritesReceipt(t)
      <4>1. t.receipt \in Receipt /\ t.receipt.status # None
        BY <1>2, <3>1, RowFacts DEF CommitMarkDuplicate, WritesReceipt,
                                    LeftAloneByDuplicate, WellFormed, SlotsCoherent
      <4>2. Saved(RevalidatedAsDuplicate(t.receipt)) \in Receipt
        BY <4>1, ReceiptMethodTypes
      <4>3. receipts[t.of] # None
        BY <2>1, RowFacts, NullAssumption
      <4>4. QED
        BY <1>2, <2>1, <3>1, <4>2, <4>3, NullAssumption
           DEF CommitMarkDuplicate, WellFormed, TypeOK
    <3>2. CASE ~WritesReceipt(t)
      BY <1>2, <3>2 DEF CommitMarkDuplicate, WellFormed, TypeOK
    <3>3. QED
      BY <3>1, <3>2
  <2>4. audit' \in [Receipts -> [AuditActions -> Nat]]
    BY <1>2, <2>1, AuditUpdate DEF CommitMarkDuplicate, WellFormed, TypeOK
  <2>5. TypeOK'
    BY <1>2, <2>2, <2>3, <2>4
       DEF CommitMarkDuplicate, WellFormed, TypeOK, clock, workers, history
  <2>6. RowsPresent'
    BY <1>2, <2>2, <2>3 DEF CommitMarkDuplicate, WellFormed, TypeOK, RowsPresent, clock, workers
  <2>7. SlotsCoherent'
    BY <1>2 DEF CommitMarkDuplicate, WellFormed, TypeOK, SlotsCoherent, Clients, workers
  <2>8. QED
    BY <2>5, <2>6, <2>7 DEF WellFormed
<1>3. ASSUME AbandonMarkDuplicate(u)
      PROVE  WellFormed'
  <2> USE <1>0, <1>3 DEF AbandonMarkDuplicate, tables, clock, workers, history
  <2>1. TypeOK'
    BY DEF WellFormed, TypeOK
  <2>2. RowsPresent'
    BY DEF WellFormed, TypeOK, RowsPresent, Jobs, Uploaded
  <2>3. SlotsCoherent'
    BY DEF WellFormed, TypeOK, SlotsCoherent, Clients
  <2>4. QED
    BY <2>1, <2>2, <2>3 DEF WellFormed
<1>4. QED
  BY <1>1, <1>2, <1>3 DEF SubmitterStep

(* The passing of time keeps the state well-formed.                        *)
LEMMA ClockWellFormed ==
    ASSUME WellFormed, NEW r \in Receipts, ClockStep(r)
    PROVE  WellFormed'
<1> USE DEF ClockStep, BecomeRipe, LeaseExpires, tables, workers, history
<1>1. TypeOK'
  BY LimitsAssumption DEF WellFormed, TypeOK
<1>2. RowsPresent'
  BY DEF WellFormed, RowsPresent, Jobs, Uploaded
<1>3. SlotsCoherent'
  BY DEF WellFormed, SlotsCoherent
<1>4. QED
  BY <1>1, <1>2, <1>3 DEF WellFormed

(* Claiming a batch keeps the state well-formed: the claims taken into     *)
(* memory are those written to the rows.                                   *)
LEMMA ClaimWellFormed ==
    ASSUME WellFormed, NEW w \in Workers, ClaimSome(w)
    PROVE  WellFormed'
<1>0. PICK free \in SUBSET IdleSlots(w) :
          \E pick \in [free -> Claimable] : ClaimAvailable(w, pick)
  BY DEF ClaimSome
<1>1. PICK pick \in [free -> Claimable] : ClaimAvailable(w, pick)
  BY <1>0
<1> DEFINE taken == {pick[s] : s \in free}
<1>2. /\ DOMAIN pick = free
      /\ free \subseteq Slots
      /\ \A s \in free : pick[s] \in taken /\ stage[s] = "idle"
  BY <1>1 DEF IdleSlots
<1>3. /\ taken \subseteq Jobs
      /\ Jobs \subseteq Receipts
  BY <1>1 DEF Claimable, WellFormed, RowsPresent, Jobs
<1>4. /\ jobs' = [r \in Receipts |->
                     IF r \in taken THEN Saved(ClaimJob(jobs[r], w, drawn[r] + 1))
                                    ELSE jobs[r]]
      /\ claims' = [s \in Slots |->
                       IF s \in free
                       THEN [receipt |-> pick[s], worker |-> w,
                             token |-> drawn[pick[s]] + 1,
                             attemptCount |-> jobs[pick[s]].attemptCount + 1,
                             duplicateDetected |-> jobs[pick[s]].duplicateDetected]
                       ELSE claims[s]]
      /\ stage' = [s \in Slots |-> IF s \in free THEN "claimed" ELSE stage[s]]
      /\ drawn' = [r \in Receipts |-> IF r \in taken THEN drawn[r] + 1 ELSE drawn[r]]
      /\ overdue' = overdue \ taken
      /\ UNCHANGED <<receipts, ripe, stopped, tx, faults, runs, released>>
  BY <1>1, <1>2 DEF ClaimAvailable
<1>5. audit' \in [Receipts -> [AuditActions -> Nat]]
  BY <1>1, LoggedType DEF ClaimAvailable, WellFormed, TypeOK
<1> HIDE DEF taken
<1>6. \A r \in Receipts : drawn[r] \in Nat /\ drawn[r] + 1 \in Nat
  BY DEF WellFormed, TypeOK
<1>7. \A r \in taken : Saved(ClaimJob(jobs[r], w, drawn[r] + 1)) \in Job
  BY <1>3, <1>6, RowFacts, JobMethodTypes
<1>8. /\ jobs' \in [Receipts -> Job \cup {None}]
      /\ \A r \in Receipts : jobs'[r] = None <=> jobs[r] = None
      /\ Jobs' = Jobs
  <2>1. \A r \in taken : jobs[r] # None /\ jobs'[r] # None /\ jobs'[r] \in Job
    BY <1>3, <1>4, <1>7, NullAssumption DEF Jobs, Uploaded
  <2>2. \A r \in Receipts \ taken : jobs'[r] = jobs[r] /\ jobs'[r] \in Job \cup {None}
    BY <1>4 DEF WellFormed, TypeOK
  <2>3. QED
    BY <1>4, <2>1, <2>2 DEF Jobs, Uploaded
<1>9. \A s \in free : /\ claims'[s] \in Claim
                      /\ claims'[s] # None
                      /\ claims'[s].receipt \in Jobs
  <2>1. \A j \in Job : j.attemptCount + 1 \in Nat /\ j.duplicateDetected \in BOOLEAN
    BY DEF Job
  <2> SUFFICES ASSUME NEW s \in free
               PROVE  /\ claims'[s] \in Claim
                      /\ claims'[s] # None
                      /\ claims'[s].receipt \in Jobs
    OBVIOUS
  <2>2. pick[s] \in Jobs /\ pick[s] \in Receipts /\ jobs[pick[s]] \in Job
    BY <1>2, <1>3, RowFacts
  <2>3. claims'[s] \in Claim /\ claims'[s].receipt = pick[s]
    BY <1>2, <1>4, <1>6, <2>1, <2>2 DEF Claim
  <2>4. QED
    BY <2>2, <2>3, NullAssumption
<1>10. \A s \in Slots \ free : claims'[s] = claims[s] /\ stage'[s] = stage[s]
  BY <1>4
<1>11. \A s \in Slots : tx[s] # None => s \notin free
  BY <1>2 DEF WellFormed, SlotsCoherent
<1>12. TypeOK'
  <2>1. claims' \in [Slots -> Claim \cup {None}]
    BY <1>4, <1>9, <1>10 DEF WellFormed, TypeOK
  <2>2. stage' \in [Slots -> Stages]
    BY <1>4 DEF WellFormed, TypeOK, Stages
  <2>3. drawn' \in [Receipts -> Nat]
    BY <1>4, <1>6
  <2>4. QED
    BY <1>4, <1>5, <1>8, <2>1, <2>2, <2>3 DEF WellFormed, TypeOK
<1>13. RowsPresent'
  BY <1>4, <1>8, <1>9, <1>10 DEF WellFormed, RowsPresent
<1>14. SlotsCoherent'
  <2>1. \A s \in Slots : stage'[s] = "idle" <=> claims'[s] = None
    BY <1>2, <1>4, <1>9, <1>10 DEF WellFormed, SlotsCoherent
  <2>2. QED
    BY <1>4, <1>10, <1>11, <2>1 DEF WellFormed, SlotsCoherent
<1>15. QED
  BY <1>12, <1>13, <1>14 DEF WellFormed

(* Recovering expired leases keeps the state well-formed.                  *)
LEMMA RecoverWellFormed ==
    ASSUME WellFormed, NEW w \in Workers, RecoverSome(w)
    PROVE  WellFormed'
<1>1. PICK lost \in SUBSET Expired : RecoverExpired(w, lost)
  BY DEF RecoverSome
<1>2. /\ lost \subseteq Jobs
      /\ Jobs \subseteq Receipts
  BY DEF Expired, WellFormed, RowsPresent, Jobs
<1>3. \A r \in lost : Saved(RecoverExpiredLease(jobs[r])) \in Job
  BY <1>2, RowFacts, JobMethodTypes
<1>4. /\ jobs' \in [Receipts -> Job \cup {None}]
      /\ \A r \in Receipts : jobs'[r] = None <=> jobs[r] = None
      /\ Jobs' = Jobs
  <2>1. \A r \in lost : jobs[r] # None /\ jobs'[r] # None /\ jobs'[r] \in Job
    BY <1>1, <1>2, <1>3, NullAssumption DEF RecoverExpired, Jobs, Uploaded
  <2>2. \A r \in Receipts \ lost : jobs'[r] = jobs[r] /\ jobs'[r] \in Job \cup {None}
    BY <1>1 DEF RecoverExpired, WellFormed, TypeOK
  <2>3. QED
    BY <1>1, <2>1, <2>2 DEF RecoverExpired, Jobs, Uploaded
<1>5. audit' \in [Receipts -> [AuditActions -> Nat]]
  BY <1>1, LoggedType DEF RecoverExpired, WellFormed, TypeOK
<1>6. TypeOK'
  BY <1>1, <1>2, <1>4, <1>5 DEF RecoverExpired, WellFormed, TypeOK, workers, history
<1>7. RowsPresent'
  BY <1>1, <1>2, <1>4 DEF RecoverExpired, WellFormed, RowsPresent, workers
<1>8. SlotsCoherent'
  BY <1>1 DEF RecoverExpired, WellFormed, SlotsCoherent, workers
<1>9. QED
  BY <1>6, <1>7, <1>8 DEF WellFormed

(* A slot step that ends by freeing the slot: what is left to show is that *)
(* the tables, the clock and the counters keep their types and rows.       *)
LEMMA FreedWellFormed ==
    ASSUME WellFormed, NEW s \in Slots, FreeSlot(s),
           jobs' \in [Receipts -> Job \cup {None}],
           \A r \in Receipts : jobs'[r] = None <=> jobs[r] = None,
           receipts' \in [Receipts -> Receipt \cup {None}],
           \A r \in Receipts : receipts'[r] = None <=> receipts[r] = None,
           audit' \in [Receipts -> [AuditActions -> Nat]],
           ripe' \subseteq Jobs, overdue' \subseteq Jobs, stopped' = stopped,
           faults' \in 0..MaxFaults,
           drawn' = drawn, runs' = runs, released' \in [Receipts -> Nat]
    PROVE  WellFormed'
<1>1. Jobs' = Jobs /\ Jobs \subseteq Receipts
  BY DEF Jobs, Uploaded
<1>2. TypeOK'
  BY <1>1, FreeSlotFacts DEF WellFormed, TypeOK
<1>3. RowsPresent'
  BY <1>1, FreeSlotFacts DEF WellFormed, RowsPresent
<1>4. QED
  BY <1>2, <1>3, FreeSlotCoherent DEF WellFormed

(* A committing slot holds a typed transaction on an uploaded receipt.     *)
LEMMA CommittingFacts ==
    ASSUME WellFormed, NEW s \in Slots, tx[s] # None
    PROVE  /\ tx[s].of \in Jobs
           /\ tx[s].of \in Receipts
           /\ tx[s].job \in Job
           /\ tx[s].receipt \in Receipt
BY RowFacts DEF Clients, Jobs

(* Committing a verdict keeps the state well-formed.                       *)
LEMMA SettleWellFormed ==
    ASSUME WellFormed, NEW s \in Slots, tx[s] # None,
           NEW receipt \in Receipt, NEW job \in Job, NEW events,
           Settle(s, receipt, job, events)
    PROVE  WellFormed'
<1> DEFINE r == tx[s].of
<1>1. r \in Jobs /\ r \in Receipts /\ receipts[r] # None
  BY CommittingFacts, RowFacts, NullAssumption
<1>2. Saved(receipt) \in Receipt /\ Saved(job) \in Job
  BY ReceiptMethodTypes, JobMethodTypes
<1>3. /\ jobs' \in [Receipts -> Job \cup {None}]
      /\ \A q \in Receipts : jobs'[q] = None <=> jobs[q] = None
  BY <1>1, <1>2, RowUpdate DEF Settle
<1>4. /\ receipts' \in [Receipts -> Receipt \cup {None}]
      /\ \A q \in Receipts : receipts'[q] = None <=> receipts[q] = None
  BY <1>1, <1>2, NullAssumption DEF Settle, WellFormed, TypeOK
<1>5. audit' \in [Receipts -> [AuditActions -> Nat]]
  BY <1>1, AuditUpdate DEF Settle
<1>6. QED
  BY <1>3, <1>4, <1>5, FreedWellFormed
     DEF Settle, WellFormed, TypeOK, RowsPresent, history

(* So does a commit that changes only the job: a retry or a release.       *)
LEMMA JobOnlyWellFormed ==
    ASSUME WellFormed, NEW s \in Slots, RetryLater(s) \/ ReturnUnstarted(s)
    PROVE  WellFormed'
<1> DEFINE r == tx[s].of
<1>1. /\ tx[s] # None
      /\ FreeSlot(s)
      /\ receipts' = receipts /\ stopped' = stopped /\ faults' = faults
      /\ drawn' = drawn /\ runs' = runs
  BY DEF RetryLater, ReturnUnstarted, Committing, history
<1>2. r \in Jobs /\ r \in Receipts
  BY <1>1, CommittingFacts
<1>3. Saved(ScheduleRetry(tx[s].job)) \in Job /\ Saved(ReleaseClaim(tx[s].job)) \in Job
  BY <1>1, CommittingFacts, JobMethodTypes
<1>4. /\ jobs' \in [Receipts -> Job \cup {None}]
      /\ \A q \in Receipts : jobs'[q] = None <=> jobs[q] = None
  BY <1>2, <1>3, RowUpdate DEF RetryLater, ReturnUnstarted
<1>5. audit' \in [Receipts -> [AuditActions -> Nat]]
  BY <1>2, AuditUpdate DEF RetryLater, ReturnUnstarted, WellFormed, TypeOK
<1>6. released' \in [Receipts -> Nat]
  BY <1>2 DEF RetryLater, ReturnUnstarted, WellFormed, TypeOK, history
<1>7. ripe' \subseteq Jobs /\ overdue' \subseteq Jobs
  BY <1>2 DEF RetryLater, ReturnUnstarted, WellFormed, RowsPresent
<1>8. QED
  BY <1>1, <1>4, <1>5, <1>6, <1>7, FreedWellFormed DEF WellFormed, TypeOK

(* The tables stay as they are and the claim is dropped.                   *)
LEMMA DropWellFormed ==
    ASSUME WellFormed, NEW s \in Slots,
           OwnershipLost(s) \/ CommitConflict(s) \/ UnexpectedError(s)
    PROVE  WellFormed'
<1>1. /\ FreeSlot(s)
      /\ UNCHANGED <<tables, clock, stopped, history>>
      /\ faults' \in 0..MaxFaults
  BY LimitsAssumption
     DEF OwnershipLost, CommitConflict, UnexpectedError, SpendFault, WellFormed, TypeOK
<1>2. QED
  BY <1>1, FreedWellFormed
     DEF tables, clock, history, WellFormed, TypeOK, RowsPresent

(* Every step of a slot keeps the state well-formed.                       *)
LEMMA SlotWellFormed ==
    ASSUME WellFormed, NEW s \in Slots, SlotStep(s) \/ UnexpectedError(s)
    PROVE  WellFormed'
<1>0. s \in Clients /\ s \notin Submitters
  BY ThreadsAssumption DEF Clients
<1>1. ASSUME StartProcessing(s)
      PROVE  WellFormed'
  <2>1. claims[s] # None /\ claims[s].receipt \in Receipts
    BY <1>1, RowFacts DEF StartProcessing, WellFormed, SlotsCoherent, Jobs
  <2>2. TypeOK'
    BY <1>1, <2>1 DEF StartProcessing, WellFormed, TypeOK, tables, clock, Stages
  <2>3. RowsPresent'
    BY <1>1 DEF StartProcessing, WellFormed, RowsPresent, tables, clock, Jobs, Uploaded
  <2>4. SlotsCoherent'
    BY <1>1, <2>1 DEF StartProcessing, WellFormed, TypeOK, SlotsCoherent
  <2>5. QED
    BY <2>2, <2>3, <2>4 DEF WellFormed
<1>2. ASSUME NEW call \in WorkerCalls, OpenCall(s, call)
      PROVE  WellFormed'
  <2> USE <1>0, <1>2 DEF OpenCall, tables, clock, workers, history
  <2> DEFINE r == claims[s].receipt
             opened == [of |-> r, call |-> call, job |-> jobs[r],
                        receipt |-> receipts[r]]
  <2>1. claims[s] # None /\ r \in Jobs /\ r \in Receipts
    BY RowFacts DEF Owns, Jobs
  <2>2. opened \in Transaction
    BY <2>1, RowFacts DEF Transaction
  <2>3. tx' = [tx EXCEPT ![s] = opened]
    OBVIOUS
  <2>4. TypeOK'
    BY <2>2 DEF WellFormed, TypeOK
  <2>5. RowsPresent'
    BY <2>1 DEF WellFormed, TypeOK, RowsPresent, Jobs, Uploaded
  <2>6. SlotsCoherent'
    <3>1. call # "release" => stage[s] = "running"
      BY DEF MayCall, WorkerCalls
    <3>2. IsOwnedBy(jobs[r], claims[s].worker, claims[s].token)
      BY DEF Owns
    <3>3. /\ opened.of = r /\ opened.call = call /\ opened.job = jobs[r]
          /\ claims' = claims /\ stage' = stage
      OBVIOUS
    <3>4. \A c \in Clients : tx'[c] = IF c = s THEN opened ELSE tx[c]
      BY <2>3 DEF WellFormed, TypeOK
    <3> HIDE DEF OpenCall, opened, r
    <3>5. \A t \in Slots : tx'[t] # None =>
              /\ claims'[t] # None
              /\ tx'[t].of = claims'[t].receipt
              /\ tx'[t].call \in WorkerCalls
              /\ tx'[t].call # "release" => stage'[t] = "running"
              /\ IsOwnedBy(tx'[t].job, claims'[t].worker, claims'[t].token)
      BY <2>1, <3>1, <3>2, <3>3, <3>4 DEF WellFormed, SlotsCoherent, Clients, r
    <3>6. \A u \in Submitters : tx'[u] = tx[u]
      BY <3>4 DEF Clients
    <3>7. QED
      BY <3>3, <3>5, <3>6 DEF WellFormed, SlotsCoherent
  <2>7. QED
    BY <2>4, <2>5, <2>6 DEF WellFormed
<1>3. ASSUME CompleteQualityRejection(s)
      PROVE  WellFormed'
  <2>1. PICK next \in {"NEEDS_RECAPTURE", "UNREADABLE"} :
            Settle(s, CompleteExtraction(tx[s].receipt, None, {}, next),
                   CompleteJob(tx[s].job), {"QUALITY_REJECTED"})
    BY <1>3 DEF CompleteQualityRejection
  <2>2. tx[s] # None
    BY <1>3 DEF CompleteQualityRejection, Committing
  <2>3. /\ CompleteExtraction(tx[s].receipt, None, {}, next) \in Receipt
        /\ CompleteJob(tx[s].job) \in Job
    BY <2>2, CommittingFacts, ReceiptMethodTypes, JobMethodTypes DEF ReceiptStatuses
  <2>4. QED
    BY <2>1, <2>2, <2>3, SettleWellFormed
<1>4. ASSUME CompleteWithData(s)
      PROVE  WellFormed'
  <2>1. tx[s] # None
    BY <1>4 DEF CompleteWithData, Committing
  <2>2. PICK data \in Extractions :
            LET results == Validate(data, tx[s].job.duplicateDetected)
            IN  Settle(s, CompleteExtraction(tx[s].receipt, data, results,
                                             Route(data, results)),
                       CompleteJob(tx[s].job),
                       {"EXTRACTION_COMPLETED", "VALIDATION_COMPLETED"})
    BY <1>4 DEF CompleteWithData
  <2> DEFINE results == Validate(data, tx[s].job.duplicateDetected)
  <2>3. /\ results \in SUBSET RuleResult
        /\ Route(data, results) \in ReceiptStatuses
        /\ data \in ReceiptData \cup {None}
    BY ValidateType, RouteType, ExtractionsAssumption DEF ReceiptStatuses
  <2>4. /\ CompleteExtraction(tx[s].receipt, data, results, Route(data, results))
               \in Receipt
        /\ CompleteJob(tx[s].job) \in Job
    BY <2>1, <2>3, CommittingFacts, ReceiptMethodTypes, JobMethodTypes
  <2>5. QED
    BY <2>1, <2>2, <2>4, SettleWellFormed
<1>5. ASSUME FailExtraction(s)
      PROVE  WellFormed'
  <2>1. tx[s] # None
    BY <1>5 DEF FailExtraction, Committing
  <2>2. /\ CompleteExtraction(tx[s].receipt, None, {}, "MANUAL_ENTRY") \in Receipt
        /\ FailJob(tx[s].job) \in Job
    BY <2>1, CommittingFacts, ReceiptMethodTypes, JobMethodTypes DEF ReceiptStatuses
  <2>3. QED
    BY <1>5, <2>1, <2>2, SettleWellFormed DEF FailExtraction
<1>6. QED
  BY <1>1, <1>2, <1>3, <1>4, <1>5, JobOnlyWellFormed, DropWellFormed DEF SlotStep

(* Stopping and restarting a worker keeps the state well-formed.           *)
LEMMA StopRestartWellFormed ==
    ASSUME WellFormed, NEW w \in Workers, StopPolling(w) \/ Restart(w)
    PROVE  WellFormed'
<1>1. TypeOK'
  <2>1. faults' \in 0..MaxFaults
    BY LimitsAssumption DEF StopPolling, Restart, SpendFault, WellFormed, TypeOK
  <2>2. /\ claims' \in [Slots -> Claim \cup {None}]
        /\ stage' \in [Slots -> Stages]
    BY DEF StopPolling, Restart, WellFormed, TypeOK, Stages
  <2>3. tx' \in [Clients -> Transaction \cup {None}]
    BY DEF StopPolling, Restart, WellFormed, TypeOK
  <2>4. QED
    BY <2>1, <2>2, <2>3
       DEF StopPolling, Restart, WellFormed, TypeOK, tables, clock, history
<1>2. RowsPresent'
  BY DEF StopPolling, Restart, WellFormed, RowsPresent, tables, clock, Jobs, Uploaded
<1>3. SlotsCoherent'
  BY ThreadsAssumption DEF StopPolling, Restart, WellFormed, SlotsCoherent, Clients
<1>4. QED
  BY <1>1, <1>2, <1>3 DEF WellFormed

(* Every step keeps the state well-formed.                                 *)
LEMMA NextWellFormed == WellFormed /\ [Next]_vars => WellFormed'
<1> SUFFICES ASSUME WellFormed, [Next]_vars
             PROVE  WellFormed'
  OBVIOUS
<1>1. CASE UNCHANGED vars
  BY <1>1 DEF vars, tables, clock, workers, history, WellFormed, TypeOK, RowsPresent,
              SlotsCoherent, Jobs, Uploaded
<1>2. ASSUME NEW w \in Workers, WorkerStep(w)
      PROVE  WellFormed'
  BY <1>2, ClaimWellFormed, RecoverWellFormed, StopRestartWellFormed DEF WorkerStep
<1>3. QED
  BY <1>1, <1>2, IntakeWellFormed, SubmitterWellFormed, ClockWellFormed, SlotWellFormed
     DEF Next, AllSettled

(* Type correctness: the tables, the claims in memory and the open         *)
(* transactions have the shapes the entities and DTOs declare.             *)
THEOREM TypeCorrect == Spec => []TypeOK
<1>1. Spec => []WellFormed
  BY InitWellFormed, NextWellFormed, PTL DEF Spec
<1>2. WellFormed => TypeOK
  BY DEF WellFormed
<1>3. QED
  BY <1>1, <1>2, PTL
-----------------------------------------------------------------------------
(***************************************************************************)
(* Proofs of what ExtractionQueue guarantees for one receipt and its job:  *)
(* they change together, a duplicate is never approved automatically and   *)
(* a finished job stays finished.                                          *)
(*                                                                         *)
(* The argument.  A snapshot whose job version is still current is the     *)
(* current content of both rows (SnapshotsCurrent), because no receipt     *)
(* changes without its job and no job without its version.  So a commit    *)
(* that passes the version check changes the rows as they are now, and     *)
(* what a step of the whole system does to one receipt is one of the few   *)
(* steps of RowStep, whatever workers, slots and uploads are doing.  The   *)
(* invariants of a receipt then follow from RowStep alone.                 *)
(***************************************************************************)
RowSame(r) ==
    /\ jobs'[r] = jobs[r]
    /\ receipts'[r] = receipts[r]
    /\ r \in overdue' => r \in overdue \/ IsProcessing(r)

RowCreated(r) ==
    /\ ~Uploaded(r)
    /\ r \notin overdue'
    /\ jobs'[r] = NewJob
    /\ \E owner \in Owners : receipts'[r] = NewReceipt(owner)

RowClaimed(r) ==
    /\ IsClaimable(jobs[r])
    /\ receipts'[r] = receipts[r]
    /\ \E w \in Workers, token \in Nat :
          /\ token = drawn[r] + 1
          /\ drawn'[r] = token
          /\ jobs'[r] = Saved(ClaimJob(jobs[r], w, token))

RowReturned(r) ==
    /\ IsProcessing(r)
    /\ r \notin overdue'
    /\ receipts'[r] = receipts[r]
    /\ \E next \in {"QUEUED", "RETRY_WAIT"} : jobs'[r] = Saved(Unclaimed(jobs[r], next))

RowSettled(r) ==
    /\ IsProcessing(r)
    /\ r \notin overdue'
    /\ \E next \in {"COMPLETED", "FAILED"} : jobs'[r] = Saved(Unclaimed(jobs[r], next))
    /\ \E data, results, status :
          /\ receipts'[r] = Saved(CompleteExtraction(receipts[r], data, results, status))
          /\ \/ /\ results = {}
                /\ status \in {"NEEDS_RECAPTURE", "UNREADABLE", "MANUAL_ENTRY"}
             \/ /\ results = Validate(data, jobs[r].duplicateDetected)
                /\ status = Route(data, results)

RowFlagged(r) ==
    /\ jobs'[r] = Saved(MarkJobDuplicate(jobs[r]))
    /\ receipts'[r] = IF LeftAloneByDuplicate(receipts[r]) THEN receipts[r]
                      ELSE Saved(RevalidatedAsDuplicate(receipts[r]))
    /\ r \in overdue' => r \in overdue

RowStep(r) ==
    \/ RowSame(r)
    \/ RowCreated(r)
    \/ Uploaded(r) /\ (RowClaimed(r) \/ RowReturned(r) \/ RowSettled(r) \/ RowFlagged(r))

Snapshots == WellFormed /\ SnapshotsCurrent
-----------------------------------------------------------------------------
(* A commit that passes the version check of the job works on the current  *)
(* rows.                                                                   *)
LEMMA FreshSnapshot ==
    ASSUME Snapshots, NEW c \in Clients, tx[c] # None, IsFresh(tx[c])
    PROVE  /\ tx[c].of \in Jobs
           /\ tx[c].job = jobs[tx[c].of]
           /\ tx[c].receipt = receipts[tx[c].of]
BY DEF Snapshots, SnapshotsCurrent, IsFresh, WellFormed, RowsPresent

(* A slot that commits does so for a job that is being processed.          *)
LEMMA CommittingOwner ==
    ASSUME Snapshots, NEW s \in Slots, NEW calls, Committing(s, calls)
    PROVE  /\ tx[s].of \in Jobs
           /\ tx[s].job = jobs[tx[s].of]
           /\ tx[s].receipt = receipts[tx[s].of]
           /\ IsProcessing(tx[s].of)
<1>1. /\ tx[s] # None
      /\ IsFresh(tx[s])
      /\ s \in Clients
  BY DEF Committing, Clients
<1>2. tx[s].job.status = "PROCESSING"
  BY <1>1 DEF Snapshots, WellFormed, SlotsCoherent, IsOwnedBy
<1>3. QED
  BY <1>1, <1>2, FreshSnapshot DEF IsProcessing

(* An upload is received: one new pair of rows.                            *)
LEMMA IntakeRows ==
    ASSUME Snapshots, NEW q \in Receipts, NEW owner \in Owners, CreateQueued(q, owner),
           NEW r \in Receipts
    PROVE  RowStep(r)
<1>1. /\ jobs \in [Receipts -> Job \cup {None}]
      /\ receipts \in [Receipts -> Receipt \cup {None}]
      /\ overdue \subseteq Jobs
  BY DEF Snapshots, WellFormed, TypeOK, RowsPresent
<1>2. CASE r = q
  BY <1>1, <1>2 DEF CreateQueued, RowStep, RowCreated, Jobs
<1>3. CASE r # q
  BY <1>1, <1>3 DEF CreateQueued, RowStep, RowSame
<1>4. QED
  BY <1>2, <1>3

(* Duplicate uploads: the flag, and the receipt as it is now revalidated.  *)
LEMMA SubmitterRows ==
    ASSUME Snapshots, NEW u \in Submitters, SubmitterStep(u), NEW r \in Receipts
    PROVE  RowStep(r)
<1>1. CASE CommitMarkDuplicate(u)
  <2>1. /\ tx[u] # None
        /\ IsFresh(tx[u])
        /\ u \in Clients
        /\ overdue' = overdue
    BY <1>1 DEF CommitMarkDuplicate, Clients, clock
  <2>2. /\ tx[u].of \in Jobs
        /\ tx[u].job = jobs[tx[u].of]
        /\ tx[u].receipt = receipts[tx[u].of]
    BY <2>1, FreshSnapshot
  <2>3. tx[u].call = "markDuplicate"
    BY <2>1 DEF Snapshots, WellFormed, SlotsCoherent
  <2>4. WritesReceipt(tx[u]) <=> ~LeftAloneByDuplicate(receipts[tx[u].of])
    BY <2>2, <2>3 DEF WritesReceipt
  <2>5. /\ jobs' = [jobs EXCEPT ![tx[u].of] = Saved(MarkJobDuplicate(jobs[tx[u].of]))]
        /\ receipts' = IF LeftAloneByDuplicate(receipts[tx[u].of]) THEN receipts
                       ELSE [receipts EXCEPT ![tx[u].of] =
                                Saved(RevalidatedAsDuplicate(receipts[tx[u].of]))]
    BY <1>1, <2>2, <2>4 DEF CommitMarkDuplicate
  <2>6. /\ jobs \in [Receipts -> Job \cup {None}]
        /\ receipts \in [Receipts -> Receipt \cup {None}]
    BY DEF Snapshots, WellFormed, TypeOK
  <2>7. CASE r = tx[u].of
    BY <2>1, <2>2, <2>5, <2>6, <2>7 DEF RowStep, RowFlagged, Jobs
  <2>8. CASE r # tx[u].of
    BY <2>1, <2>5, <2>6, <2>8 DEF RowStep, RowSame
  <2>9. QED
    BY <2>7, <2>8
<1>2. CASE (\E q \in Receipts : OpenMarkDuplicate(u, q)) \/ AbandonMarkDuplicate(u)
  BY <1>2 DEF OpenMarkDuplicate, AbandonMarkDuplicate, tables, clock, RowStep, RowSame
<1>3. QED
  BY <1>1, <1>2 DEF SubmitterStep

(* Time passes: a lease becomes overdue only while its job is processed.   *)
LEMMA ClockRows ==
    ASSUME NEW q \in Receipts, ClockStep(q), NEW r \in Receipts
    PROVE  RowStep(r)
BY DEF ClockStep, BecomeRipe, LeaseExpires, tables, RowStep, RowSame, IsProcessing

(* Every job of a batch is claimed, every other one is left alone.         *)
LEMMA ClaimRows ==
    ASSUME Snapshots, NEW w \in Workers, ClaimSome(w), NEW r \in Receipts
    PROVE  RowStep(r)
<1>1. PICK free \in SUBSET IdleSlots(w) : \E pick \in [free -> Claimable] :
          ClaimAvailable(w, pick)
  BY DEF ClaimSome
<1>2. PICK pick \in [free -> Claimable] : ClaimAvailable(w, pick)
  BY <1>1
<1> DEFINE taken == {pick[s] : s \in free}
<1>3. /\ taken \subseteq Claimable
      /\ receipts' = receipts
      /\ overdue' = overdue \ taken
      /\ jobs' = [q \in Receipts |->
                     IF q \in taken THEN Saved(ClaimJob(jobs[q], w, drawn[q] + 1))
                                    ELSE jobs[q]]
      /\ drawn' = [q \in Receipts |-> IF q \in taken THEN drawn[q] + 1 ELSE drawn[q]]
  BY <1>2 DEF ClaimAvailable
<1>4. /\ drawn[r] + 1 \in Nat
      /\ Claimable \subseteq Jobs
  BY DEF Snapshots, WellFormed, TypeOK, RowsPresent, Claimable
<1> HIDE DEF taken
<1>5. CASE r \in taken
  BY <1>3, <1>4, <1>5 DEF Claimable, RowStep, RowClaimed, Jobs
<1>6. CASE r \notin taken
  BY <1>3, <1>6 DEF RowStep, RowSame
<1>7. QED
  BY <1>5, <1>6

(* Every job whose lease is recovered was being processed.                 *)
LEMMA RecoverRows ==
    ASSUME Snapshots, NEW w \in Workers, RecoverSome(w), NEW r \in Receipts
    PROVE  RowStep(r)
<1>1. PICK lost \in SUBSET Expired : RecoverExpired(w, lost)
  BY DEF RecoverSome
<1>2. Expired \subseteq Jobs
  BY DEF Snapshots, WellFormed, RowsPresent, Expired
<1>3. /\ receipts' = receipts
      /\ overdue' = overdue \ lost
      /\ jobs' = [q \in Receipts |->
                     IF q \in lost THEN Saved(RecoverExpiredLease(jobs[q])) ELSE jobs[q]]
  BY <1>1 DEF RecoverExpired
<1>4. CASE r \in lost
  BY <1>1, <1>2, <1>3, <1>4
     DEF Expired, RowStep, RowReturned, IsProcessing, RecoverExpiredLease, Jobs
<1>5. CASE r \notin lost
  BY <1>3, <1>5 DEF RowStep, RowSame
<1>6. QED
  BY <1>4, <1>5

(* A slot that commits a verdict settles its own job and no other.         *)
LEMMA SettleRows ==
    ASSUME Snapshots, NEW s \in Slots, NEW calls, Committing(s, calls),
           NEW next \in {"COMPLETED", "FAILED"}, NEW events,
           NEW data, NEW results, NEW status,
           Settle(s, CompleteExtraction(tx[s].receipt, data, results, status),
                  Unclaimed(tx[s].job, next), events),
           \/ /\ results = {}
              /\ status \in {"NEEDS_RECAPTURE", "UNREADABLE", "MANUAL_ENTRY"}
           \/ /\ results = Validate(data, tx[s].job.duplicateDetected)
              /\ status = Route(data, results),
           NEW r \in Receipts
    PROVE  RowStep(r)
<1> DEFINE q == tx[s].of
<1>1. /\ q \in Jobs
      /\ tx[s].job = jobs[q]
      /\ tx[s].receipt = receipts[q]
      /\ IsProcessing(q)
  BY CommittingOwner
<1>2. /\ jobs' = [jobs EXCEPT ![q] = Saved(Unclaimed(jobs[q], next))]
      /\ receipts' = [receipts EXCEPT ![q] =
                         Saved(CompleteExtraction(receipts[q], data, results, status))]
      /\ overdue' = overdue \ {q}
  BY <1>1 DEF Settle
<1>3. /\ jobs \in [Receipts -> Job \cup {None}]
      /\ receipts \in [Receipts -> Receipt \cup {None}]
  BY DEF Snapshots, WellFormed, TypeOK
<1>4. \/ /\ results = {}
         /\ status \in {"NEEDS_RECAPTURE", "UNREADABLE", "MANUAL_ENTRY"}
      \/ /\ results = Validate(data, jobs[q].duplicateDetected)
         /\ status = Route(data, results)
  BY <1>1
<1> HIDE DEF q
<1>5. CASE r = q
  <2>1. RowSettled(q)
    BY <1>1, <1>2, <1>3, <1>4 DEF RowSettled, Jobs
  <2>2. QED
    BY <1>1, <1>5, <2>1 DEF RowStep, Jobs
<1>6. CASE r # q
  BY <1>2, <1>3, <1>6 DEF RowStep, RowSame
<1>7. QED
  BY <1>5, <1>6

(* A slot that gives its job back returns it to the queue.                 *)
LEMMA ReturnRows ==
    ASSUME Snapshots, NEW s \in Slots, RetryLater(s) \/ ReturnUnstarted(s),
           NEW r \in Receipts
    PROVE  RowStep(r)
<1> DEFINE q == tx[s].of
<1>1. /\ q \in Jobs
      /\ tx[s].job = jobs[q]
      /\ IsProcessing(q)
  BY CommittingOwner DEF RetryLater, ReturnUnstarted
<1>2. PICK next \in {"QUEUED", "RETRY_WAIT"} :
          /\ jobs' = [jobs EXCEPT ![q] = Saved(Unclaimed(jobs[q], next))]
          /\ receipts' = receipts
          /\ overdue' = overdue \ {q}
  BY <1>1 DEF RetryLater, ReturnUnstarted, ScheduleRetry, ReleaseClaim
<1>3. jobs \in [Receipts -> Job \cup {None}]
  BY DEF Snapshots, WellFormed, TypeOK
<1> HIDE DEF q
<1>4. CASE r = q
  BY <1>1, <1>2, <1>3, <1>4 DEF RowStep, RowReturned, Jobs
<1>5. CASE r # q
  BY <1>2, <1>3, <1>5 DEF RowStep, RowSame
<1>6. QED
  BY <1>4, <1>5

(* Every step of a slot.                                                   *)
LEMMA SlotRows ==
    ASSUME Snapshots, NEW s \in Slots, SlotStep(s), NEW r \in Receipts
    PROVE  RowStep(r)
<1>1. CASE CompleteQualityRejection(s)
  <2>1. PICK next \in {"NEEDS_RECAPTURE", "UNREADABLE"} :
            Settle(s, CompleteExtraction(tx[s].receipt, None, {}, next),
                   CompleteJob(tx[s].job), {"QUALITY_REJECTED"})
    BY <1>1 DEF CompleteQualityRejection
  <2>2. Committing(s, {"reject"})
    BY <1>1 DEF CompleteQualityRejection
  <2>3. QED
    BY <2>1, <2>2, SettleRows DEF CompleteJob
<1>2. CASE CompleteWithData(s)
  <2>1. PICK data \in Extractions :
            Settle(s, CompleteExtraction(tx[s].receipt, data,
                         Validate(data, tx[s].job.duplicateDetected),
                         Route(data, Validate(data, tx[s].job.duplicateDetected))),
                   CompleteJob(tx[s].job), {"EXTRACTION_COMPLETED", "VALIDATION_COMPLETED"})
    BY <1>2 DEF CompleteWithData
  <2>2. Committing(s, {"complete"})
    BY <1>2 DEF CompleteWithData
  <2>3. QED
    BY <2>1, <2>2, SettleRows DEF CompleteJob
<1>3. CASE FailExtraction(s)
  <2>1. /\ Committing(s, {"giveUp", "fail"})
        /\ Settle(s, CompleteExtraction(tx[s].receipt, None, {}, "MANUAL_ENTRY"),
                  FailJob(tx[s].job), {"EXTRACTION_FAILED"})
    BY <1>3 DEF FailExtraction
  <2>2. QED
    BY <2>1, SettleRows DEF FailJob
<1>4. CASE RetryLater(s) \/ ReturnUnstarted(s)
  BY <1>4, ReturnRows
<1>5. CASE \/ StartProcessing(s)
           \/ \E call \in WorkerCalls : OpenCall(s, call)
           \/ OwnershipLost(s)
           \/ CommitConflict(s)
  BY <1>5 DEF StartProcessing, OpenCall, OwnershipLost, CommitConflict, tables, clock,
              RowStep, RowSame
<1>6. QED
  BY <1>1, <1>2, <1>3, <1>4, <1>5 DEF SlotStep

(* What any step of the system does to the rows of one receipt.            *)
LEMMA RowSteps == Snapshots /\ [Next]_vars => \A r \in Receipts : RowStep(r)
<1> SUFFICES ASSUME Snapshots, [Next]_vars, NEW r \in Receipts
             PROVE  RowStep(r)
  OBVIOUS
<1>1. CASE UNCHANGED vars
  BY <1>1 DEF vars, tables, clock, RowStep, RowSame
<1>2. CASE \E q \in Receipts, owner \in Owners : CreateQueued(q, owner)
  BY <1>2, IntakeRows
<1>3. CASE \E u \in Submitters : SubmitterStep(u)
  BY <1>3, SubmitterRows
<1>4. CASE \E q \in Receipts : ClockStep(q)
  BY <1>4, ClockRows
<1>5. CASE \E w \in Workers : WorkerStep(w)
  <2>1. PICK w \in Workers : WorkerStep(w)
    BY <1>5
  <2>2. CASE StopPolling(w) \/ Restart(w)
    BY <2>2 DEF StopPolling, Restart, tables, clock, RowStep, RowSame
  <2>3. QED
    BY <2>1, <2>2, ClaimRows, RecoverRows DEF WorkerStep
<1>6. CASE \E s \in Slots : SlotStep(s) \/ UnexpectedError(s)
  <2>1. PICK s \in Slots : SlotStep(s) \/ UnexpectedError(s)
    BY <1>6
  <2>2. CASE UnexpectedError(s)
    BY <2>2 DEF UnexpectedError, tables, clock, RowStep, RowSame
  <2>3. QED
    BY <2>1, <2>2, SlotRows
<1>7. CASE AllSettled
  BY <1>1, <1>7 DEF AllSettled
<1>8. QED
  BY <1>1, <1>2, <1>3, <1>4, <1>5, <1>6, <1>7 DEF Next
-----------------------------------------------------------------------------
(* A row changes only together with the version of its job.                *)
LEMMA VersionMoves ==
    ASSUME Snapshots, NEW r \in Jobs, RowStep(r)
    PROVE  \/ jobs'[r] = jobs[r] /\ receipts'[r] = receipts[r]
           \/ jobs'[r].version = jobs[r].version + 1
<1>1. jobs[r] \in Job
  BY RowFacts DEF Snapshots
<1>2. CASE RowSame(r) \/ RowCreated(r)
  BY <1>2 DEF RowSame, RowCreated, Jobs
<1>3. CASE RowClaimed(r)
  BY <1>1, <1>3 DEF RowClaimed, Saved, ClaimJob, Job
<1>4. CASE RowReturned(r) \/ RowSettled(r)
  BY <1>1, <1>4 DEF RowReturned, RowSettled, Saved, Unclaimed, Job
<1>5. CASE RowFlagged(r)
  BY <1>1, <1>5 DEF RowFlagged, Saved, MarkJobDuplicate, Job
<1>6. QED
  BY <1>2, <1>3, <1>4, <1>5 DEF RowStep

(* A transaction goes on, ends, or is opened on the rows as they are.      *)
SnapshotTaken(c) ==
    \/ tx'[c] = None
    \/ tx'[c] = tx[c]
    \/ /\ tx'[c].job = jobs[tx'[c].of]
       /\ tx'[c].receipt = receipts[tx'[c].of]
       /\ jobs' = jobs
       /\ receipts' = receipts

(* No transaction holds a snapshot of anything but the rows as they were   *)
(* when it was opened.                                                     *)
LEMMA SnapshotsTaken ==
    ASSUME WellFormed, [Next]_vars, NEW c \in Clients
    PROVE  SnapshotTaken(c)
<1>0. tx \in [Clients -> Transaction \cup {None}]
  BY DEF WellFormed, TypeOK
<1>1. CASE UNCHANGED vars
  BY <1>1 DEF vars, SnapshotTaken
<1>2. CASE \E q \in Receipts, owner \in Owners : CreateQueued(q, owner)
  BY <1>2 DEF CreateQueued, SnapshotTaken
<1>3. CASE \E u \in Submitters : SubmitterStep(u)
  BY <1>0, <1>3 DEF SubmitterStep, OpenMarkDuplicate, CommitMarkDuplicate,
                    AbandonMarkDuplicate, tables, SnapshotTaken
<1>4. CASE \E q \in Receipts : ClockStep(q)
  BY <1>4 DEF ClockStep, BecomeRipe, LeaseExpires, SnapshotTaken
<1>5. CASE \E w \in Workers : WorkerStep(w)
  BY <1>5 DEF WorkerStep, ClaimSome, ClaimAvailable, RecoverSome, RecoverExpired,
              StopPolling, Restart, SnapshotTaken
<1>6. CASE \E s \in Slots : SlotStep(s) \/ UnexpectedError(s)
  <2>1. PICK s \in Slots : SlotStep(s) \/ UnexpectedError(s)
    BY <1>6
  <2>2. CASE FreeSlot(s)
    BY <1>0, <2>2 DEF FreeSlot, SnapshotTaken
  <2>3. CASE StartProcessing(s)
    BY <2>3 DEF StartProcessing, SnapshotTaken
  <2>4. CASE \E call \in WorkerCalls : OpenCall(s, call)
    BY <1>0, <2>4 DEF OpenCall, tables, SnapshotTaken
  <2>5. QED
    BY <2>1, <2>2, <2>3, <2>4
       DEF SlotStep, OwnershipLost, CompleteQualityRejection, CompleteWithData,
           FailExtraction, Settle, RetryLater, ReturnUnstarted, CommitConflict,
           UnexpectedError
<1>7. CASE AllSettled
  BY <1>1, <1>7 DEF AllSettled
<1>8. QED
  BY <1>1, <1>2, <1>3, <1>4, <1>5, <1>6, <1>7 DEF Next

(* Snapshots that pass the version check are current, before and after     *)
(* every step.                                                             *)
LEMMA SnapshotsInductive ==
    /\ Init => Snapshots
    /\ Snapshots /\ [Next]_vars => Snapshots'
<1>1. Init => Snapshots
  BY InitWellFormed DEF Init, Snapshots, SnapshotsCurrent
<1>2. ASSUME Snapshots, [Next]_vars
      PROVE  Snapshots'
  <2>1. WellFormed'
    BY <1>2, NextWellFormed DEF Snapshots
  <2>2. SUFFICES ASSUME NEW c \in Clients, (tx[c] # None)'
                 PROVE  /\ tx'[c].job.version <= jobs'[tx'[c].of].version
                        /\ tx'[c].job.version = jobs'[tx'[c].of].version =>
                              /\ tx'[c].job = jobs'[tx'[c].of]
                              /\ tx'[c].receipt = receipts'[tx'[c].of]
    BY <2>1 DEF Snapshots, SnapshotsCurrent
  <2>3. /\ tx'[c].of \in Jobs'
        /\ jobs'[tx'[c].of].version \in Nat
    <3>1. (/\ \A r \in Jobs : jobs[r] \in Job
           /\ \A d \in Clients : tx[d] # None => tx[d].of \in Jobs)'
      BY <2>1 DEF WellFormed, TypeOK, RowsPresent, Jobs, Uploaded
    <3>2. QED
      BY <2>2, <3>1 DEF Job
  <2>4. CASE tx'[c] = tx[c]
    <3> DEFINE q == tx[c].of
    <3>1. /\ q \in Jobs
          /\ tx[c].job \in Job
          /\ jobs[q] \in Job
      BY <1>2, <2>2, <2>4, RowFacts DEF Snapshots
    <3>2. \/ jobs'[q] = jobs[q] /\ receipts'[q] = receipts[q]
          \/ jobs'[q].version = jobs[q].version + 1
      BY <1>2, <3>1, RowSteps, VersionMoves DEF Jobs
    <3>3. /\ tx[c].job.version <= jobs[q].version
          /\ tx[c].job.version = jobs[q].version =>
                tx[c].job = jobs[q] /\ tx[c].receipt = receipts[q]
      BY <1>2, <2>2, <2>4 DEF Snapshots, SnapshotsCurrent
    <3>4. tx[c].job.version \in Nat /\ jobs[q].version \in Nat
      BY <3>1 DEF Job
    <3> HIDE DEF q
    <3>5. QED
      BY <2>4, <3>2, <3>3, <3>4 DEF q
  <2>5. CASE /\ tx'[c].job = jobs[tx'[c].of]
             /\ tx'[c].receipt = receipts[tx'[c].of]
             /\ jobs' = jobs
             /\ receipts' = receipts
    BY <2>3, <2>5
  <2>6. QED
    BY <1>2, <2>2, <2>4, <2>5, SnapshotsTaken DEF Snapshots, SnapshotTaken
<1>3. QED
  BY <1>1, <1>2
-----------------------------------------------------------------------------
(* What a verdict of a slot or a report of a duplicate leaves in the       *)
(* receipt: a status, and if the rules carry the duplicate failure or the  *)
(* job its flag, one that is not the automatic approval.                   *)
LEMMA SettledRoute ==
    ASSUME NEW data, NEW results, NEW status, NEW duplicate \in BOOLEAN,
           \/ /\ results = {}
              /\ status \in {"NEEDS_RECAPTURE", "UNREADABLE", "MANUAL_ENTRY"}
           \/ /\ results = Validate(data, duplicate)
              /\ status = Route(data, results)
    PROVE  /\ status \notin {None, "APPROVED", "REJECTED"}
           /\ duplicate => status # "AUTO_APPROVED"
           /\ MarkedDuplicate(results) =>
                 status \in {"NEEDS_REVIEW", "MANUAL_ENTRY"} /\ duplicate
<1>1. CASE results = {} /\ status \in {"NEEDS_RECAPTURE", "UNREADABLE", "MANUAL_ENTRY"}
  BY <1>1, NullAssumption DEF MarkedDuplicate, ReceiptStatuses
<1>2. CASE results = Validate(data, duplicate) /\ status = Route(data, results)
  <2>1. MarkedDuplicate(results) <=> duplicate
    BY <1>2, MarkedAsTold
  <2>2. status \in {"MANUAL_ENTRY", "NEEDS_REVIEW", "AUTO_APPROVED"}
    BY <1>2, RouteType
  <2>3. duplicate => status \in {"NEEDS_REVIEW", "MANUAL_ENTRY"}
    BY <1>2, <2>1, MarkedGoesToAPerson
  <2>4. QED
    BY <2>1, <2>2, <2>3, NullAssumption DEF ReceiptStatuses
<1>3. QED
  BY <1>1, <1>2
-----------------------------------------------------------------------------
(* A row that exists after a step was created by it or existed before, and *)
(* has its type on both sides.                                             *)
LEMMA RowOrigin ==
    ASSUME Snapshots, NEW r \in Receipts, RowStep(r), jobs'[r] # None
    PROVE  \/ RowCreated(r)
           \/ /\ r \in Jobs
              /\ jobs[r] \in Job
              /\ receipts[r] \in Receipt
              /\ RowSame(r) \/ RowClaimed(r) \/ RowReturned(r)
                 \/ RowSettled(r) \/ RowFlagged(r)
<1>1. r \in Jobs => jobs[r] \in Job /\ receipts[r] \in Receipt
  BY RowFacts DEF Snapshots
<1>2. CASE RowSame(r)
  BY <1>1, <1>2 DEF RowSame, Jobs, Uploaded
<1>3. CASE ~RowSame(r)
  BY <1>1, <1>3 DEF RowStep, Jobs
<1>4. QED
  BY <1>2, <1>3
-----------------------------------------------------------------------------
(* An owner and a token come with PROCESSING and go with it.               *)
LEMMA OwnerIffProcessingInductive ==
    /\ Init => OwnerIffProcessing
    /\ Snapshots /\ OwnerIffProcessing /\ [Next]_vars => OwnerIffProcessing'
<1>1. Init => OwnerIffProcessing
  BY DEF Init, OwnerIffProcessing, Jobs, Uploaded
<1>2. ASSUME Snapshots, OwnerIffProcessing, [Next]_vars
      PROVE  OwnerIffProcessing'
  <2> SUFFICES ASSUME NEW r \in Receipts, jobs'[r] # None
               PROVE  /\ jobs'[r].status = "PROCESSING" <=> jobs'[r].lockedBy # None
                      /\ jobs'[r].status = "PROCESSING" <=> jobs'[r].claimToken # None
                      /\ r \in overdue' => jobs'[r].status = "PROCESSING"
    BY DEF OwnerIffProcessing, Jobs, Uploaded, IsProcessing
  <2>1. RowStep(r)
    BY <1>2, RowSteps
  <2>2. r \in Jobs => /\ jobs[r].status = "PROCESSING" <=> jobs[r].lockedBy # None
                      /\ jobs[r].status = "PROCESSING" <=> jobs[r].claimToken # None
                      /\ r \in overdue => jobs[r].status = "PROCESSING"
    BY <1>2 DEF OwnerIffProcessing, IsProcessing
  <2>3. CASE RowCreated(r)
    BY <2>3 DEF RowCreated, NewJob
  <2>4. CASE r \in Jobs /\ jobs[r] \in Job /\ RowSame(r)
    BY <2>2, <2>4 DEF RowSame, IsProcessing
  <2>5. CASE r \in Jobs /\ jobs[r] \in Job /\ RowClaimed(r)
    <3>1. PICK w \in Workers, token \in Nat :
              jobs'[r] = Saved(ClaimJob(jobs[r], w, token))
      BY <2>5 DEF RowClaimed
    <3>2. /\ jobs'[r].status = "PROCESSING"
          /\ jobs'[r].lockedBy = w
          /\ jobs'[r].claimToken = token
      BY <2>5, <3>1 DEF Saved, ClaimJob, Job
    <3>3. w # None /\ token # None
      BY NullAssumption
    <3>4. QED
      BY <3>2, <3>3
  <2>6. CASE r \in Jobs /\ jobs[r] \in Job /\ (RowReturned(r) \/ RowSettled(r))
    BY <2>6 DEF RowReturned, RowSettled, Saved, Unclaimed, Job
  <2>7. CASE r \in Jobs /\ jobs[r] \in Job /\ RowFlagged(r)
    <3>1. /\ jobs'[r].status = jobs[r].status
          /\ jobs'[r].lockedBy = jobs[r].lockedBy
          /\ jobs'[r].claimToken = jobs[r].claimToken
          /\ r \in overdue' => r \in overdue
      BY <2>7 DEF RowFlagged, Saved, MarkJobDuplicate, Job
    <3>2. QED
      BY <2>2, <2>7, <3>1
  <2>8. QED
    BY <1>2, <2>1, <2>3, <2>4, <2>5, <2>6, <2>7, RowOrigin
<1>3. QED
  BY <1>1, <1>2

(* Rules and status of a receipt, the flag and the progress of its job.    *)
RowVerdict(receipt, job) ==
    /\ receipt.status # None <=> IsFinished(job)
    /\ receipt.status \notin {"APPROVED", "REJECTED"}
    /\ job.duplicateDetected => receipt.status # "AUTO_APPROVED"
    /\ MarkedDuplicate(receipt.ruleResults) =>
          /\ receipt.status \in {"NEEDS_REVIEW", "MANUAL_ENTRY"}
          /\ job.duplicateDetected

(* A report of a duplicate keeps them in step, whatever the receipt's      *)
(* verdict was.                                                            *)
LEMMA FlaggedVerdict ==
    ASSUME NEW r \in Receipts, jobs[r] \in Job, receipts[r] \in Receipt,
           RowVerdict(receipts[r], jobs[r]), RowFlagged(r)
    PROVE  RowVerdict(receipts'[r], jobs'[r])
<1>1. /\ jobs'[r].status = jobs[r].status
      /\ jobs'[r].duplicateDetected = TRUE
  BY DEF RowFlagged, Saved, MarkJobDuplicate, Job
<1>2. CASE receipts[r].status = None
  <2>1. receipts'[r] = receipts[r]
    BY <1>2 DEF RowFlagged, LeftAloneByDuplicate
  <2>2. None # "AUTO_APPROVED"
    BY NullAssumption DEF ReceiptStatuses
  <2>3. QED
    BY <1>1, <1>2, <2>1, <2>2 DEF RowVerdict, IsFinished
<1>3. CASE MarkedDuplicate(receipts[r].ruleResults)
  <2>1. receipts'[r] = receipts[r]
    BY <1>3 DEF RowFlagged, LeftAloneByDuplicate
  <2>2. receipts[r].status \in {"NEEDS_REVIEW", "MANUAL_ENTRY"}
    BY <1>3 DEF RowVerdict
  <2>3. QED
    BY <1>1, <2>1, <2>2 DEF RowVerdict, IsFinished
<1>4. CASE receipts[r].status # None /\ ~MarkedDuplicate(receipts[r].ruleResults)
  <2> DEFINE data == receipts[r].currentData
             results == Validate(data, TRUE)
  <2>1. receipts'[r] = Saved(RevalidatedAsDuplicate(receipts[r]))
    BY <1>4 DEF RowFlagged, LeftAloneByDuplicate
  <2>2. ~IsTerminal(receipts[r].status)
    BY DEF RowVerdict, IsTerminal
  <2>3. /\ receipts'[r].ruleResults = results
        /\ receipts'[r].status = Route(data, results)
    BY <2>1, <2>2 DEF Saved, RevalidatedAsDuplicate, UpdateData, Receipt
  <2>4. MarkedDuplicate(results)
    BY MarkedAsTold
  <2>5. Route(data, results) \in {"NEEDS_REVIEW", "MANUAL_ENTRY"}
    BY <2>4, MarkedGoesToAPerson
  <2> HIDE DEF results
  <2>6. receipts'[r].status \in {"NEEDS_REVIEW", "MANUAL_ENTRY"}
    BY <2>3, <2>5
  <2>7. receipts'[r].status # None
    BY <2>6, NullAssumption DEF ReceiptStatuses
  <2>8. IsFinished(jobs'[r])
    BY <1>1, <1>4 DEF RowVerdict, IsFinished
  <2>9. QED
    BY <1>1, <2>6, <2>7, <2>8 DEF RowVerdict
<1>5. QED
  BY <1>2, <1>3, <1>4

(* Every step of a receipt keeps its verdict in step with its job.         *)
LEMMA RowVerdictKept ==
    ASSUME Snapshots, NEW r \in Receipts, RowStep(r), jobs'[r] # None,
           r \in Jobs => RowVerdict(receipts[r], jobs[r])
    PROVE  RowVerdict(receipts'[r], jobs'[r])
<1>1. CASE RowCreated(r)
  <2>1. /\ jobs'[r].status = "QUEUED"
        /\ jobs'[r].duplicateDetected = FALSE
        /\ receipts'[r].status = None
        /\ receipts'[r].ruleResults = {}
    BY <1>1 DEF RowCreated, NewJob, NewReceipt
  <2>2. None \notin {"APPROVED", "REJECTED"}
    BY NullAssumption DEF ReceiptStatuses
  <2>3. QED
    BY <2>1, <2>2 DEF RowVerdict, IsFinished, MarkedDuplicate
<1>2. ASSUME r \in Jobs, jobs[r] \in Job, receipts[r] \in Receipt,
             RowSame(r) \/ RowClaimed(r) \/ RowReturned(r)
             \/ RowSettled(r) \/ RowFlagged(r)
      PROVE  RowVerdict(receipts'[r], jobs'[r])
  <2>1. CASE RowSame(r)
    BY <1>2, <2>1 DEF RowSame
  <2>2. CASE RowClaimed(r) \/ RowReturned(r)
    <3>1. /\ receipts'[r] = receipts[r]
          /\ jobs'[r].duplicateDetected = jobs[r].duplicateDetected
          /\ ~IsFinished(jobs'[r])
          /\ ~IsFinished(jobs[r])
      BY <1>2, <2>2 DEF RowClaimed, RowReturned, Saved, ClaimJob, Unclaimed, Job,
                        IsProcessing, IsClaimable, IsFinished
    <3>2. QED
      BY <1>2, <3>1 DEF RowVerdict
  <2>3. CASE RowSettled(r)
    <3>1. PICK data, results, status :
              /\ receipts'[r] = Saved(CompleteExtraction(receipts[r], data, results, status))
              /\ \/ /\ results = {}
                    /\ status \in {"NEEDS_RECAPTURE", "UNREADABLE", "MANUAL_ENTRY"}
                 \/ /\ results = Validate(data, jobs[r].duplicateDetected)
                    /\ status = Route(data, results)
      BY <2>3 DEF RowSettled
    <3>2. /\ receipts'[r].status = status
          /\ receipts'[r].ruleResults = results
      BY <1>2, <3>1 DEF Saved, CompleteExtraction, Receipt
    <3>3. /\ IsFinished(jobs'[r])
          /\ jobs'[r].duplicateDetected = jobs[r].duplicateDetected
      BY <1>2, <2>3 DEF RowSettled, Saved, Unclaimed, Job, IsFinished
    <3>4. jobs[r].duplicateDetected \in BOOLEAN
      BY <1>2 DEF Job
    <3>5. /\ status \notin {None, "APPROVED", "REJECTED"}
          /\ jobs[r].duplicateDetected => status # "AUTO_APPROVED"
          /\ MarkedDuplicate(results) =>
                /\ status \in {"NEEDS_REVIEW", "MANUAL_ENTRY"}
                /\ jobs[r].duplicateDetected
      BY <3>1, <3>4, SettledRoute
    <3>6. QED
      BY <3>2, <3>3, <3>5, Zenon DEF RowVerdict
  <2>4. CASE RowFlagged(r)
    BY <1>2, <2>4, FlaggedVerdict
  <2>5. QED
    BY <1>2, <2>1, <2>2, <2>3, <2>4
<1>3. QED
  BY <1>1, <1>2, RowOrigin
-----------------------------------------------------------------------------
VerdictInvariant ==
    /\ Snapshots
    /\ OwnerIffProcessing
    /\ VerdictIffFinished
    /\ VerdictsRouted
    /\ DuplicateNeverAutoApproved

(* The three properties of the verdict, receipt by receipt.                *)
LEMMA VerdictByRow ==
    VerdictIffFinished /\ VerdictsRouted /\ DuplicateNeverAutoApproved
        <=> \A r \in Jobs : RowVerdict(receipts[r], jobs[r])
BY DEF VerdictIffFinished, VerdictsRouted, DuplicateNeverAutoApproved, RowVerdict

(* The invariant of one receipt and its job is inductive.                  *)
LEMMA VerdictInductive ==
    /\ Init => VerdictInvariant
    /\ VerdictInvariant /\ [Next]_vars => VerdictInvariant'
<1>1. Init => VerdictIffFinished /\ VerdictsRouted /\ DuplicateNeverAutoApproved
  BY DEF Init, VerdictIffFinished, VerdictsRouted, DuplicateNeverAutoApproved, Jobs,
         Uploaded
<1>2. ASSUME VerdictInvariant, [Next]_vars
      PROVE  (VerdictIffFinished /\ VerdictsRouted /\ DuplicateNeverAutoApproved)'
  <2>1. \A r \in Jobs : RowVerdict(receipts[r], jobs[r])
    BY <1>2, VerdictByRow DEF VerdictInvariant
  <2>2. ASSUME NEW r \in Receipts, jobs'[r] # None
        PROVE  RowVerdict(receipts'[r], jobs'[r])
    BY <1>2, <2>1, <2>2, RowSteps, RowVerdictKept DEF VerdictInvariant
  <2>3. (\A r \in Jobs : RowVerdict(receipts[r], jobs[r]))'
    BY <2>2 DEF Jobs, Uploaded, RowVerdict, IsFinished
  <2>4. QED
    BY <2>3 DEF VerdictIffFinished, VerdictsRouted, DuplicateNeverAutoApproved,
                RowVerdict, Jobs, Uploaded
<1>3. QED
  BY <1>1, <1>2, SnapshotsInductive, OwnerIffProcessingInductive DEF VerdictInvariant

(* In every reachable state the properties of a receipt and its job hold.  *)
LEMMA VerdictAlways == Spec => []VerdictInvariant
BY VerdictInductive, PTL DEF Spec

(* Every way out of PROCESSING clears owner, token and lease, whatever the *)
(* number of workers, slots and faults.                                    *)
THEOREM OwnerCleared == Spec => []OwnerIffProcessing
<1>1. VerdictInvariant => OwnerIffProcessing
  BY DEF VerdictInvariant
<1>2. QED
  BY <1>1, VerdictAlways, PTL

(* Receipt and job never disagree on whether there is a verdict.           *)
THEOREM VerdictWithJob == Spec => []VerdictIffFinished
<1>1. VerdictInvariant => VerdictIffFinished
  BY DEF VerdictInvariant
<1>2. QED
  BY <1>1, VerdictAlways, PTL

(* A known duplicate is never left automatically approved, whichever of    *)
(* the extraction and the second upload commits first.                     *)
THEOREM DuplicateHeldBack == Spec => []DuplicateNeverAutoApproved
<1>1. VerdictInvariant => DuplicateNeverAutoApproved
  BY DEF VerdictInvariant
<1>2. QED
  BY <1>1, VerdictAlways, PTL

(* No worker overwrites the duplicate flag with an older snapshot.         *)
THEOREM FlagKept == Spec => DuplicateFlagKept
<1>1. VerdictInvariant /\ [Next]_vars =>
          [\A r \in Jobs : jobs[r].duplicateDetected => jobs'[r].duplicateDetected]_vars
  <2> SUFFICES ASSUME VerdictInvariant, [Next]_vars, NEW r \in Jobs,
                      jobs[r].duplicateDetected
               PROVE  jobs'[r].duplicateDetected
    OBVIOUS
  <2>1. jobs[r] \in Job /\ ~RowCreated(r)
    BY RowFacts DEF VerdictInvariant, Snapshots, RowCreated, Jobs
  <2>2. RowStep(r)
    BY RowSteps DEF VerdictInvariant, Jobs
  <2>3. CASE RowFlagged(r)
    BY <2>1, <2>3 DEF RowFlagged, Saved, MarkJobDuplicate, Job
  <2>4. CASE RowSame(r)
    BY <2>4 DEF RowSame
  <2>5. CASE RowClaimed(r)
    BY <2>1, <2>5 DEF RowClaimed, Saved, ClaimJob, Job
  <2>6. CASE RowReturned(r) \/ RowSettled(r)
    <3>1. PICK next \in JobStatuses : jobs'[r] = Saved(Unclaimed(jobs[r], next))
      BY <2>6 DEF RowReturned, RowSettled, JobStatuses
    <3>2. QED
      BY <2>1, <3>1 DEF Saved, Unclaimed, Job
  <2>7. QED
    BY <2>1, <2>2, <2>3, <2>4, <2>5, <2>6 DEF RowStep
<1>2. QED
  BY <1>1, VerdictAlways, PTL DEF Spec, DuplicateFlagKept

(* A finished job is never claimed, retried or recovered again.            *)
THEOREM FinishedStays == Spec => FinishedIsFinal
<1>1. VerdictInvariant /\ [Next]_vars =>
          [\A r \in Jobs : IsFinished(jobs[r]) =>
              /\ jobs'[r].status = jobs[r].status
              /\ jobs'[r].attemptCount = jobs[r].attemptCount
              /\ receipts'[r].originalData = receipts[r].originalData]_vars
  <2> SUFFICES ASSUME VerdictInvariant, [Next]_vars, NEW r \in Jobs,
                      IsFinished(jobs[r])
               PROVE  /\ jobs'[r].status = jobs[r].status
                      /\ jobs'[r].attemptCount = jobs[r].attemptCount
                      /\ receipts'[r].originalData = receipts[r].originalData
    OBVIOUS
  <2>1. jobs[r] \in Job /\ receipts[r] \in Receipt
    BY RowFacts DEF VerdictInvariant, Snapshots
  <2>2. RowStep(r)
    BY RowSteps DEF VerdictInvariant, Jobs
  <2>3. RowSame(r) \/ RowFlagged(r)
    BY <2>2 DEF RowStep, RowCreated, RowClaimed, RowReturned, RowSettled, IsFinished,
                IsClaimable, IsProcessing, Jobs
  <2>4. CASE RowSame(r)
    BY <2>4 DEF RowSame
  <2>5. CASE RowFlagged(r)
    BY <2>1, <2>5 DEF RowFlagged, Saved, MarkJobDuplicate, RevalidatedAsDuplicate,
                      UpdateData, Job, Receipt
  <2>6. QED
    BY <2>3, <2>4, <2>5
<1>2. QED
  BY <1>1, VerdictAlways, PTL DEF Spec, FinishedIsFinal
-----------------------------------------------------------------------------
(***************************************************************************)
(* Proofs that a job has one owner and that only the owner settles it.     *)
(*                                                                         *)
(* The argument.  A token is drawn once per claim and numbers above all    *)
(* earlier ones, so two claims of one job never share it, not even when    *)
(* the same worker claims again a job whose lease it lost (TokensDistinct). *)
(* The job recognises one token only.  And a commit that passes the        *)
(* version check is made by the slot that holds it: the job that was read  *)
(* with that token is the job as it is now (CommittingOwner).              *)
(***************************************************************************)
(* No step but a claim hands out claims or draws tokens.                   *)
ClaimsDropped ==
    /\ drawn' = drawn
    /\ \A s \in Slots : claims'[s] \in {claims[s], None}

(* A slot is freed without a claim handed to anybody.                      *)
LEMMA FreedDropsClaims ==
    ASSUME WellFormed, NEW s \in Slots, FreeSlot(s), drawn' = drawn
    PROVE  ClaimsDropped
BY FreeSlotFacts DEF ClaimsDropped

(* Every step of a worker's slots, of uploads and of the clock drops       *)
(* claims at most; only claimAvailable makes new ones.                     *)
LEMMA ClaimsSteps ==
    ASSUME WellFormed, [Next]_vars
    PROVE  \/ ClaimsDropped
           \/ \E w \in Workers : ClaimSome(w)
<1>0. claims \in [Slots -> Claim \cup {None}]
  BY DEF WellFormed, TypeOK
<1>1. CASE UNCHANGED vars
  BY <1>1 DEF vars, workers, history, ClaimsDropped
<1>2. CASE \E q \in Receipts, owner \in Owners : CreateQueued(q, owner)
  BY <1>2 DEF CreateQueued, workers, history, ClaimsDropped
<1>3. CASE \E u \in Submitters : SubmitterStep(u)
  BY <1>3 DEF SubmitterStep, OpenMarkDuplicate, CommitMarkDuplicate,
              AbandonMarkDuplicate, workers, history, ClaimsDropped
<1>4. CASE \E q \in Receipts : ClockStep(q)
  BY <1>4 DEF ClockStep, BecomeRipe, LeaseExpires, workers, history, ClaimsDropped
<1>5. CASE \E w \in Workers : WorkerStep(w)
  BY <1>0, <1>5 DEF WorkerStep, RecoverSome, RecoverExpired, StopPolling, Restart,
                    workers, history, ClaimsDropped
<1>6. CASE \E s \in Slots : SlotStep(s) \/ UnexpectedError(s)
  <2>1. PICK s \in Slots : SlotStep(s) \/ UnexpectedError(s)
    BY <1>6
  <2>2. CASE StartProcessing(s) \/ \E call \in WorkerCalls : OpenCall(s, call)
    BY <2>2 DEF StartProcessing, OpenCall, workers, history, ClaimsDropped
  <2>3. CASE FreeSlot(s) /\ drawn' = drawn
    BY <2>3, FreedDropsClaims
  <2>4. QED
    BY <2>1, <2>2, <2>3
       DEF SlotStep, OwnershipLost, CompleteQualityRejection, CompleteWithData,
           FailExtraction, Settle, RetryLater, ReturnUnstarted, CommitConflict,
           UnexpectedError, history
<1>7. CASE AllSettled
  BY <1>1, <1>7 DEF AllSettled
<1>8. QED
  BY <1>1, <1>2, <1>3, <1>4, <1>5, <1>6, <1>7 DEF Next

(* The token a job recognises is one that was drawn for it.                *)
LEMMA JobTokens ==
    ASSUME Snapshots, TokensDistinct, [Next]_vars,
           NEW r \in Receipts, jobs'[r] # None, jobs'[r].claimToken # None,
           drawn'[r] \in Nat, drawn'[r] >= drawn[r]
    PROVE  jobs'[r].claimToken <= drawn'[r]
<1>1. RowStep(r)
  BY RowSteps
<1>2. r \in Jobs /\ jobs[r].claimToken # None => jobs[r].claimToken <= drawn[r]
  BY DEF TokensDistinct
<1>3. drawn[r] \in Nat
  BY DEF Snapshots, WellFormed, TypeOK
<1>4. CASE RowCreated(r)
  BY <1>4 DEF RowCreated, NewJob
<1>5. CASE r \in Jobs /\ jobs[r] \in Job /\ jobs'[r].claimToken = jobs[r].claimToken
  <2>1. jobs[r].claimToken \in Nat
    BY <1>5 DEF Job
  <2>2. QED
    BY <1>2, <1>3, <1>5, <2>1
<1>6. CASE r \in Jobs /\ jobs[r] \in Job /\ (RowSame(r) \/ RowFlagged(r))
  <2>1. jobs'[r].claimToken = jobs[r].claimToken
    BY <1>6 DEF RowSame, RowFlagged, Saved, MarkJobDuplicate, Job
  <2>2. QED
    BY <1>5, <1>6, <2>1
<1>7. CASE r \in Jobs /\ jobs[r] \in Job /\ RowClaimed(r)
  BY <1>7 DEF RowClaimed, Saved, ClaimJob, Job
<1>8. CASE r \in Jobs /\ jobs[r] \in Job /\ (RowReturned(r) \/ RowSettled(r))
  BY <1>8 DEF RowReturned, RowSettled, Saved, Unclaimed, Job
<1>9. QED
  BY <1>1, <1>4, <1>6, <1>7, <1>8, RowOrigin

(* New claims carry tokens above all earlier ones of their jobs.           *)
LEMMA ClaimTokens ==
    ASSUME WellFormed, TokensDistinct, NEW w \in Workers, ClaimSome(w)
    PROVE  /\ \A r \in Receipts : drawn'[r] \in Nat /\ drawn'[r] >= drawn[r]
           /\ \A s \in Slots : claims'[s] # None =>
                 claims'[s].token <= drawn'[claims'[s].receipt]
           /\ \A s, t \in Slots :
                 /\ claims'[s] # None
                 /\ claims'[t] # None
                 /\ claims'[s].receipt = claims'[t].receipt
                 /\ claims'[s].token = claims'[t].token
                 => s = t
<1>1. PICK free \in SUBSET IdleSlots(w) : \E pick \in [free -> Claimable] :
          ClaimAvailable(w, pick)
  BY DEF ClaimSome
<1>2. PICK pick \in [free -> Claimable] : ClaimAvailable(w, pick)
  BY <1>1
<1>3. /\ drawn \in [Receipts -> Nat]
      /\ Claimable \subseteq Receipts
      /\ \A s \in Slots : claims[s] # None =>
            /\ claims[s].receipt \in Receipts
            /\ claims[s].token \in Nat
            /\ claims[s].token <= drawn[claims[s].receipt]
  BY DEF WellFormed, TypeOK, Claimable, Claim, TokensDistinct
<1> DEFINE taken == {pick[s] : s \in free}
<1>4. /\ \A r \in Receipts : drawn'[r] = IF r \in taken THEN drawn[r] + 1 ELSE drawn[r]
      /\ \A s, t \in free : pick[s] = pick[t] => s = t
  BY <1>2 DEF ClaimAvailable
<1>5. /\ \A s \in free : pick[s] \in taken /\ pick[s] \in Receipts
      /\ \A s \in free : drawn'[pick[s]] = drawn[pick[s]] + 1
  BY <1>2, <1>3, <1>4
<1>6. /\ \A s \in Slots \ free : claims'[s] = claims[s]
      /\ \A s \in Slots \cap free :
            /\ claims'[s].receipt = pick[s]
            /\ claims'[s].token = drawn[pick[s]] + 1
  BY <1>2 DEF ClaimAvailable
<1> HIDE DEF taken
<1>7. \A r \in Receipts : drawn'[r] \in Nat /\ drawn'[r] >= drawn[r]
  BY <1>3, <1>4
<1>8. ASSUME NEW s \in Slots, claims'[s] # None
      PROVE  claims'[s].token <= drawn'[claims'[s].receipt]
  <2>1. CASE s \in free
    BY <1>3, <1>5, <1>6, <2>1
  <2>2. CASE s \notin free
    BY <1>3, <1>7, <1>6, <1>8, <2>2
  <2>3. QED
    BY <2>1, <2>2
<1>9. ASSUME NEW s \in Slots, NEW t \in Slots, claims'[s] # None, claims'[t] # None,
             claims'[s].receipt = claims'[t].receipt,
             claims'[s].token = claims'[t].token
      PROVE  s = t
  <2>1. CASE s \in free /\ t \in free
    BY <1>4, <1>6, <1>9, <2>1
  <2>2. CASE s \notin free /\ t \notin free
    BY <1>6, <1>9, <2>2 DEF TokensDistinct
  <2>3. CASE s \in free /\ t \notin free
    BY <1>3, <1>5, <1>6, <1>9, <2>3
  <2>4. CASE s \notin free /\ t \in free
    BY <1>3, <1>5, <1>6, <1>9, <2>4
  <2>5. QED
    BY <2>1, <2>2, <2>3, <2>4
<1>10. QED
  BY <1>7, <1>8, <1>9

(* Tokens stay distinct.                                                   *)
LEMMA TokensInductive ==
    /\ Init => TokensDistinct
    /\ Snapshots /\ TokensDistinct /\ [Next]_vars => TokensDistinct'
<1>1. Init => TokensDistinct
  BY DEF Init, TokensDistinct, Jobs, Uploaded
<1>2. ASSUME Snapshots, TokensDistinct, [Next]_vars
      PROVE  TokensDistinct'
  <2>1. WellFormed
    BY <1>2 DEF Snapshots
  <2>2. /\ \A r \in Receipts : drawn'[r] \in Nat /\ drawn'[r] >= drawn[r]
        /\ \A s \in Slots : claims'[s] # None =>
              claims'[s].token <= drawn'[claims'[s].receipt]
        /\ \A s, t \in Slots :
              /\ claims'[s] # None
              /\ claims'[t] # None
              /\ claims'[s].receipt = claims'[t].receipt
              /\ claims'[s].token = claims'[t].token
              => s = t
    <3>1. CASE ClaimsDropped
      <4>1. \A r \in Receipts : drawn'[r] \in Nat /\ drawn'[r] >= drawn[r]
        BY <2>1, <3>1 DEF ClaimsDropped, WellFormed, TypeOK
      <4>2. QED
        BY <1>2, <3>1, <4>1 DEF ClaimsDropped, TokensDistinct
    <3>2. CASE \E w \in Workers : ClaimSome(w)
      BY <1>2, <2>1, <3>2, ClaimTokens
    <3>3. QED
      BY <1>2, <2>1, <3>1, <3>2, ClaimsSteps
  <2>3. \A r \in Receipts : jobs'[r] # None /\ jobs'[r].claimToken # None =>
            jobs'[r].claimToken <= drawn'[r]
    BY <1>2, <2>2, JobTokens
  <2>4. QED
    BY <2>2, <2>3 DEF TokensDistinct, Jobs, Uploaded
<1>3. QED
  BY <1>1, <1>2
-----------------------------------------------------------------------------
OwnerInvariant == VerdictInvariant /\ TokensDistinct

(* In every reachable state tokens are distinct.                           *)
LEMMA OwnerAlways == Spec => []OwnerInvariant
<1>1. Init => TokensDistinct
  BY TokensInductive
<1>2. VerdictInvariant /\ TokensDistinct /\ [Next]_vars => TokensDistinct'
  BY TokensInductive DEF VerdictInvariant
<1>3. QED
  BY <1>1, <1>2, VerdictAlways, PTL DEF Spec, OwnerInvariant

(* Of all claims in the memory of any worker, however many were lost,      *)
(* crashed over or claimed again, a job recognises one at most.            *)
THEOREM OneOwner == Spec => []SingleOwner
<1>1. OwnerInvariant => SingleOwner
  BY DEF OwnerInvariant, TokensDistinct, SingleOwner, Owns, IsOwnedBy
<1>2. QED
  BY <1>1, OwnerAlways, PTL
-----------------------------------------------------------------------------
(* The slot that commits for a job being processed owns it.                *)
LEMMA CommittingOwns ==
    ASSUME Snapshots, NEW s \in Slots, NEW calls, Committing(s, calls)
    PROVE  /\ Owns(s)
           /\ claims[s].receipt = tx[s].of
           /\ "release" \notin calls => stage[s] = "running"
<1>1. /\ tx[s] # None
      /\ tx[s].call \in calls
      /\ tx[s].job = jobs[tx[s].of]
  BY CommittingOwner DEF Committing
<1>2. /\ claims[s] # None
      /\ tx[s].of = claims[s].receipt
      /\ tx[s].call # "release" => stage[s] = "running"
      /\ IsOwnedBy(tx[s].job, claims[s].worker, claims[s].token)
  BY <1>1 DEF Snapshots, WellFormed, SlotsCoherent
<1>3. QED
  BY <1>1, <1>2 DEF Owns

SettledByOwner(r) ==
    \E s \in Slots : /\ Owns(s)
                     /\ claims[s].receipt = r
                     /\ stage[s] = "running"
                     /\ claims'[s] = None

(* A slot that gives a verdict or schedules a retry changes no other job   *)
(* than the one it owns.                                                   *)
LEMMA SlotSettlesOwn ==
    ASSUME Snapshots, NEW s \in Slots, NEW calls, Committing(s, calls),
           "release" \notin calls, FreeSlot(s), NEW next,
           jobs' = [jobs EXCEPT ![tx[s].of] = next],
           NEW r \in Receipts, jobs'[r] # jobs[r]
    PROVE  SettledByOwner(r)
<1>1. r = tx[s].of
  BY DEF Snapshots, WellFormed, TypeOK
<1>2. claims'[s] = None
  BY FreeSlotFacts DEF Snapshots
<1>3. QED
  BY <1>1, <1>2, CommittingOwns DEF SettledByOwner

(* A step that takes a job out of PROCESSING with a verdict or a retry is  *)
(* one of the owner's.                                                     *)
LEMMA OwnerSettles ==
    ASSUME Snapshots, [Next]_vars, NEW r \in Jobs, IsProcessing(r),
           jobs'[r].status \in {"COMPLETED", "FAILED", "RETRY_WAIT"}
    PROVE  SettledByOwner(r)
<1>0. /\ jobs \in [Receipts -> Job \cup {None}]
      /\ r \in Receipts
      /\ jobs[r] # None
      /\ jobs[r] \in Job
      /\ jobs[r].status = "PROCESSING"
      /\ jobs'[r] # jobs[r]
  BY RowFacts DEF Snapshots, WellFormed, TypeOK, Jobs, Uploaded, IsProcessing
<1>1. CASE UNCHANGED vars
  BY <1>0, <1>1 DEF vars, tables
<1>2. CASE \E q \in Receipts, owner \in Owners : CreateQueued(q, owner)
  BY <1>0, <1>2 DEF CreateQueued, Uploaded
<1>3. CASE \E u \in Submitters : SubmitterStep(u)
  <2>1. PICK u \in Submitters : SubmitterStep(u)
    BY <1>3
  <2>2. CASE CommitMarkDuplicate(u)
    <3>1. tx[u] # None /\ IsFresh(tx[u]) /\ u \in Clients
      BY <2>2 DEF CommitMarkDuplicate, Clients
    <3>2. tx[u].job = jobs[tx[u].of]
      BY <3>1, FreshSnapshot
    <3>3. jobs' = [jobs EXCEPT ![tx[u].of] = Saved(MarkJobDuplicate(jobs[tx[u].of]))]
      BY <2>2, <3>2 DEF CommitMarkDuplicate
    <3>4. r = tx[u].of
      BY <1>0, <3>3
    <3>5. jobs'[r] = Saved(MarkJobDuplicate(jobs[r]))
      BY <1>0, <3>3, <3>4
    <3>6. QED
      BY <1>0, <3>5 DEF Saved, MarkJobDuplicate, Job
  <2>3. QED
    BY <1>0, <2>1, <2>2 DEF SubmitterStep, OpenMarkDuplicate, AbandonMarkDuplicate, tables
<1>4. CASE \E q \in Receipts : ClockStep(q)
  BY <1>0, <1>4 DEF ClockStep, BecomeRipe, LeaseExpires, tables
<1>5. CASE \E w \in Workers : WorkerStep(w)
  <2>1. PICK w \in Workers : WorkerStep(w)
    BY <1>5
  <2>2. CASE ClaimSome(w)
    <3>1. PICK free \in SUBSET IdleSlots(w) : \E pick \in [free -> Claimable] :
              ClaimAvailable(w, pick)
      BY <2>2 DEF ClaimSome
    <3>2. PICK pick \in [free -> Claimable] : ClaimAvailable(w, pick)
      BY <3>1
    <3>3. r \notin Claimable
      BY <1>0 DEF Claimable, IsClaimable
    <3>4. jobs'[r] = jobs[r]
      BY <1>0, <3>2, <3>3 DEF ClaimAvailable
    <3>5. QED
      BY <1>0, <3>4
  <2>3. CASE RecoverSome(w)
    <3>1. jobs'[r] = jobs[r] \/ jobs'[r] = Saved(RecoverExpiredLease(jobs[r]))
      BY <1>0, <2>3 DEF RecoverSome, RecoverExpired
    <3>2. QED
      BY <1>0, <3>1 DEF Saved, RecoverExpiredLease, Unclaimed, Job
  <2>4. QED
    BY <1>0, <2>1, <2>2, <2>3 DEF WorkerStep, StopPolling, Restart, tables
<1>6. CASE \E s \in Slots : SlotStep(s) \/ UnexpectedError(s)
  <2>1. PICK s \in Slots : SlotStep(s) \/ UnexpectedError(s)
    BY <1>6
  <2>2. CASE CompleteQualityRejection(s) \/ CompleteWithData(s) \/ FailExtraction(s)
    <3>1. PICK calls : Committing(s, calls) /\ "release" \notin calls
      BY <2>2 DEF CompleteQualityRejection, CompleteWithData, FailExtraction
    <3>2. FreeSlot(s) /\ \E next : jobs' = [jobs EXCEPT ![tx[s].of] = next]
      BY <2>2 DEF CompleteQualityRejection, CompleteWithData, FailExtraction, Settle
    <3>3. QED
      BY <1>0, <3>1, <3>2, SlotSettlesOwn
  <2>3. CASE RetryLater(s)
    <3>1. /\ Committing(s, {"retry"})
          /\ FreeSlot(s)
          /\ \E next : jobs' = [jobs EXCEPT ![tx[s].of] = next]
      BY <2>3 DEF RetryLater
    <3>2. QED
      BY <1>0, <3>1, SlotSettlesOwn
  <2>4. CASE ReturnUnstarted(s)
    <3>1. tx[s].job = jobs[tx[s].of]
      BY <2>4, CommittingOwner DEF ReturnUnstarted
    <3>2. jobs' = [jobs EXCEPT ![tx[s].of] = Saved(ReleaseClaim(jobs[tx[s].of]))]
      BY <2>4, <3>1 DEF ReturnUnstarted
    <3>3. jobs'[r] = jobs[r] \/ jobs'[r] = Saved(ReleaseClaim(jobs[r]))
      BY <1>0, <3>2
    <3>4. QED
      BY <1>0, <3>3 DEF Saved, ReleaseClaim, Unclaimed, Job
  <2>5. CASE jobs' = jobs
    BY <1>0, <2>5
  <2>6. QED
    BY <2>1, <2>2, <2>3, <2>4, <2>5
       DEF SlotStep, StartProcessing, OpenCall, OwnershipLost, CommitConflict,
           UnexpectedError, tables
<1>7. CASE AllSettled
  BY <1>1, <1>7 DEF AllSettled
<1>8. QED
  BY <1>1, <1>2, <1>3, <1>4, <1>5, <1>6, <1>7 DEF Next

(* The late result of an earlier claim settles nothing.                    *)
THEOREM OwnerAloneSettles == Spec => OnlyOwnerSettles
<1>1. OwnerInvariant /\ [Next]_vars =>
          [\A r \in Jobs :
              IsProcessing(r) /\ jobs'[r].status \in {"COMPLETED", "FAILED", "RETRY_WAIT"}
                  => \E s \in Slots : Owns(s) /\ claims[s].receipt = r
                                      /\ stage[s] = "running" /\ claims'[s] = None]_vars
  BY OwnerSettles DEF OwnerInvariant, VerdictInvariant, SettledByOwner
<1>2. QED
  BY <1>1, OwnerAlways, PTL DEF Spec, OnlyOwnerSettles
-----------------------------------------------------------------------------
(***************************************************************************)
(* What an outsider can rely on: the audit trail accounts for what         *)
(* happened to a job, and the queue implements ReceiptPromise.             *)
(*                                                                         *)
(* The trail.  A commit that passes the version check works on the job as  *)
(* it is now, so what one step of the whole system does to one job and to  *)
(* its audit events is one of the few steps of LedgerStep, and the trail   *)
(* adds up receipt by receipt.  Retries are bounded because the owner      *)
(* knows the job's own attemptCount (AttemptsKnown), no claim but the      *)
(* current one can commit, and every retry used up a claim before it.      *)
(*                                                                         *)
(* The promise.  A step of the queue may change many rows, but what is     *)
(* seen of a receipt it changes for one receipt at most (SeenOfOne).  For  *)
(* that one RowStep and LedgerStep say what happens: creation is Accept,   *)
(* a verdict is Decide, a report of a duplicate is Flag, and a claim, a    *)
(* retry, a recovery or a release is not seen.                             *)
(***************************************************************************)

(* What the owner of a job remembers of it, and what it checked before it  *)
(* opened the transaction of a retry.                                      *)
AttemptsKnown ==
    /\ \A s \in Slots : Owns(s) =>
          claims[s].attemptCount = jobs[claims[s].receipt].attemptCount
    /\ \A s \in Slots : tx[s] # None /\ tx[s].call = "retry" =>
          claims[s].attemptCount < MaxAttempts

Records(r, events) ==
    /\ audit'[r] = Logged(audit[r], events)
    /\ released'[r] = released[r]

LedgerSame(r) ==
    /\ jobs'[r] = jobs[r]
    /\ audit'[r] = audit[r]
    /\ released'[r] = released[r]

LedgerCreated(r) ==
    /\ ~Uploaded(r)
    /\ jobs'[r] = NewJob
    /\ Records(r, {"UPLOADED"})

LedgerClaimed(r) ==
    /\ IsClaimable(jobs[r])
    /\ \E w \in Workers : jobs'[r] = Saved(ClaimJob(jobs[r], w, drawn[r] + 1))
    /\ Records(r, {"EXTRACTION_JOB_CLAIMED"})

LedgerRecovered(r) ==
    /\ IsProcessing(r)
    /\ jobs'[r] = Saved(RecoverExpiredLease(jobs[r]))
    /\ Records(r, {"EXTRACTION_JOB_RECOVERED"})

LedgerRetried(r) ==
    /\ IsProcessing(r)
    /\ jobs[r].attemptCount < MaxAttempts
    /\ jobs'[r] = Saved(ScheduleRetry(jobs[r]))
    /\ Records(r, {"EXTRACTION_RETRY_SCHEDULED"})

LedgerReleased(r) ==
    /\ IsProcessing(r)
    /\ jobs'[r] = Saved(ReleaseClaim(jobs[r]))
    /\ audit'[r] = audit[r]
    /\ released'[r] = released[r] + 1

LedgerSettled(r) ==
    /\ IsProcessing(r)
    /\ \E next \in {"COMPLETED", "FAILED"} : jobs'[r] = Saved(Unclaimed(jobs[r], next))
    /\ \E events \in {{"QUALITY_REJECTED"}, {"EXTRACTION_FAILED"},
                      {"EXTRACTION_COMPLETED", "VALIDATION_COMPLETED"}} :
          Records(r, events)

LedgerFlagged(r) ==
    /\ ~jobs[r].duplicateDetected
    /\ jobs'[r] = Saved(MarkJobDuplicate(jobs[r]))
    /\ Records(r, {"DUPLICATE_DETECTED"})

LedgerStep(r) ==
    \/ LedgerSame(r)
    \/ LedgerCreated(r)
    \/ /\ Uploaded(r)
       /\ \/ LedgerClaimed(r)
          \/ LedgerRecovered(r)
          \/ LedgerRetried(r)
          \/ LedgerReleased(r)
          \/ LedgerSettled(r)
          \/ LedgerFlagged(r)
-----------------------------------------------------------------------------
(* The tables a ledger step speaks of are functions on the receipts.       *)
LEMMA LedgerTables ==
    ASSUME OwnerInvariant
    PROVE  /\ Snapshots
           /\ WellFormed
           /\ jobs \in [Receipts -> Job \cup {None}]
           /\ audit \in [Receipts -> [AuditActions -> Nat]]
           /\ released \in [Receipts -> Nat]
           /\ drawn \in [Receipts -> Nat]
BY DEF OwnerInvariant, VerdictInvariant, Snapshots, WellFormed, TypeOK

(* A duplicate upload that commits reports a duplicate nobody reported     *)
(* before: the job was not flagged, so the rules do not carry it either.   *)
LEMMA SubmitterLedger ==
    ASSUME OwnerInvariant, NEW u \in Submitters, SubmitterStep(u), NEW r \in Receipts
    PROVE  LedgerStep(r)
<1>0. /\ Snapshots
      /\ jobs \in [Receipts -> Job \cup {None}]
      /\ audit \in [Receipts -> [AuditActions -> Nat]]
  BY LedgerTables
<1>1. CASE CommitMarkDuplicate(u)
  <2>1. /\ tx[u] # None
        /\ IsFresh(tx[u])
        /\ u \in Clients
        /\ released' = released
    BY <1>1 DEF CommitMarkDuplicate, Clients, history
  <2>2. /\ tx[u].of \in Jobs
        /\ tx[u].job = jobs[tx[u].of]
        /\ tx[u].receipt = receipts[tx[u].of]
    BY <1>0, <2>1, FreshSnapshot
  <2>3. ~jobs[tx[u].of].duplicateDetected
    BY <2>1, <2>2 DEF OwnerInvariant, VerdictInvariant, Snapshots, WellFormed, SlotsCoherent
  <2>4. ~MarkedDuplicate(receipts[tx[u].of].ruleResults)
    BY <2>2, <2>3 DEF OwnerInvariant, VerdictInvariant, VerdictsRouted
  <2>5. /\ jobs' = [jobs EXCEPT ![tx[u].of] = Saved(MarkJobDuplicate(jobs[tx[u].of]))]
        /\ audit' = [audit EXCEPT ![tx[u].of] = Logged(@, {"DUPLICATE_DETECTED"})]
    BY <1>1, <2>2, <2>4 DEF CommitMarkDuplicate
  <2>6. CASE r = tx[u].of
    BY <1>0, <2>1, <2>2, <2>3, <2>5, <2>6 DEF LedgerStep, LedgerFlagged, Records, Jobs
  <2>7. CASE r # tx[u].of
    BY <1>0, <2>1, <2>5, <2>7 DEF LedgerStep, LedgerSame
  <2>8. QED
    BY <2>6, <2>7
<1>2. CASE (\E q \in Receipts : OpenMarkDuplicate(u, q)) \/ AbandonMarkDuplicate(u)
  BY <1>2 DEF OpenMarkDuplicate, AbandonMarkDuplicate, tables, history,
              LedgerStep, LedgerSame
<1>3. QED
  BY <1>1, <1>2 DEF SubmitterStep

(* A worker's batches: every job claimed or recovered has its event.       *)
LEMMA WorkerLedger ==
    ASSUME OwnerInvariant, NEW w \in Workers, WorkerStep(w), NEW r \in Receipts
    PROVE  LedgerStep(r)
<1>0. WellFormed
  BY LedgerTables
<1>1. CASE ClaimSome(w)
  <2>1. PICK free \in SUBSET IdleSlots(w) : \E pick \in [free -> Claimable] :
            ClaimAvailable(w, pick)
    BY <1>1 DEF ClaimSome
  <2>2. PICK pick \in [free -> Claimable] : ClaimAvailable(w, pick)
    BY <2>1
  <2> DEFINE taken == {pick[s] : s \in free}
  <2>3. /\ taken \subseteq Claimable
        /\ released' = released
        /\ jobs' = [q \in Receipts |->
                       IF q \in taken THEN Saved(ClaimJob(jobs[q], w, drawn[q] + 1))
                                      ELSE jobs[q]]
        /\ audit' = [q \in Receipts |->
                        IF q \in taken THEN Logged(audit[q], {"EXTRACTION_JOB_CLAIMED"})
                                       ELSE audit[q]]
    BY <2>2 DEF ClaimAvailable
  <2>4. Claimable \subseteq Jobs
    BY <1>0 DEF WellFormed, RowsPresent, Claimable
  <2> HIDE DEF taken
  <2>5. CASE r \in taken
    BY <2>3, <2>4, <2>5 DEF Claimable, LedgerStep, LedgerClaimed, Records, Jobs
  <2>6. CASE r \notin taken
    BY <2>3, <2>6 DEF LedgerStep, LedgerSame
  <2>7. QED
    BY <2>5, <2>6
<1>2. CASE RecoverSome(w)
  <2>1. PICK lost \in SUBSET Expired : RecoverExpired(w, lost)
    BY <1>2 DEF RecoverSome
  <2>2. lost \subseteq Jobs /\ \A q \in lost : IsProcessing(q)
    BY <1>0 DEF WellFormed, RowsPresent, Expired, IsProcessing
  <2>3. CASE r \in lost
    BY <2>1, <2>2, <2>3
       DEF RecoverExpired, history, LedgerStep, LedgerRecovered, Records, Jobs
  <2>4. CASE r \notin lost
    BY <2>1, <2>4 DEF RecoverExpired, history, LedgerStep, LedgerSame
  <2>5. QED
    BY <2>3, <2>4
<1>3. CASE StopPolling(w) \/ Restart(w)
  BY <1>3 DEF StopPolling, Restart, tables, history, LedgerStep, LedgerSame
<1>4. QED
  BY <1>1, <1>2, <1>3 DEF WorkerStep

(* A slot that commits ends its claim on the job in one recorded way.      *)
LEMMA SlotLedger ==
    ASSUME OwnerInvariant, AttemptsKnown, NEW s \in Slots,
           SlotStep(s) \/ UnexpectedError(s), NEW r \in Receipts
    PROVE  LedgerStep(r)
<1>0. /\ Snapshots
      /\ jobs \in [Receipts -> Job \cup {None}]
      /\ audit \in [Receipts -> [AuditActions -> Nat]]
      /\ released \in [Receipts -> Nat]
  BY LedgerTables
<1> DEFINE q == tx[s].of
<1>1. ASSUME NEW calls, Committing(s, calls)
      PROVE  q \in Jobs /\ tx[s].job = jobs[q] /\ IsProcessing(q) /\ Uploaded(q)
  BY <1>0, <1>1, CommittingOwner DEF Jobs
<1>2. CASE CompleteQualityRejection(s) \/ CompleteWithData(s) \/ FailExtraction(s)
  <2>1. q \in Jobs /\ tx[s].job = jobs[q] /\ IsProcessing(q) /\ Uploaded(q)
    BY <1>1, <1>2 DEF CompleteQualityRejection, CompleteWithData, FailExtraction
  <2>2. PICK next \in {"COMPLETED", "FAILED"},
             events \in {{"QUALITY_REJECTED"}, {"EXTRACTION_FAILED"},
                         {"EXTRACTION_COMPLETED", "VALIDATION_COMPLETED"}} :
            /\ jobs' = [jobs EXCEPT ![q] = Saved(Unclaimed(jobs[q], next))]
            /\ audit' = [audit EXCEPT ![q] = Logged(@, events)]
            /\ released' = released
    BY <1>2, <2>1 DEF CompleteQualityRejection, CompleteWithData, FailExtraction,
                      Settle, CompleteJob, FailJob, history
  <2>3. CASE r = q
    BY <1>0, <2>1, <2>2, <2>3 DEF LedgerStep, LedgerSettled, Records
  <2>4. CASE r # q
    BY <1>0, <2>2, <2>4 DEF LedgerStep, LedgerSame
  <2>5. QED
    BY <2>3, <2>4
<1>3. CASE RetryLater(s)
  <2>1. /\ Committing(s, {"retry"})
        /\ jobs' = [jobs EXCEPT ![q] = Saved(ScheduleRetry(tx[s].job))]
        /\ audit' = [audit EXCEPT ![q] = Logged(@, {"EXTRACTION_RETRY_SCHEDULED"})]
        /\ released' = released
    BY <1>3 DEF RetryLater, history
  <2>2. q \in Jobs /\ tx[s].job = jobs[q] /\ IsProcessing(q) /\ Uploaded(q)
    BY <1>1, <2>1
  <2>3. jobs[q].attemptCount < MaxAttempts
    <3>1. Owns(s) /\ claims[s].receipt = q
      BY <1>0, <2>1, CommittingOwns
    <3>2. tx[s] # None /\ tx[s].call = "retry"
      BY <2>1 DEF Committing
    <3>3. QED
      BY <3>1, <3>2 DEF AttemptsKnown
  <2>4. CASE r = q
    BY <1>0, <2>1, <2>2, <2>3, <2>4 DEF LedgerStep, LedgerRetried, Records
  <2>5. CASE r # q
    BY <1>0, <2>1, <2>5 DEF LedgerStep, LedgerSame
  <2>6. QED
    BY <2>4, <2>5
<1>4. CASE ReturnUnstarted(s)
  <2>1. /\ Committing(s, {"release"})
        /\ jobs' = [jobs EXCEPT ![q] = Saved(ReleaseClaim(tx[s].job))]
        /\ released' = [released EXCEPT ![q] = @ + 1]
        /\ audit' = audit
    BY <1>4 DEF ReturnUnstarted
  <2>2. q \in Jobs /\ tx[s].job = jobs[q] /\ IsProcessing(q) /\ Uploaded(q)
    BY <1>1, <2>1
  <2>3. CASE r = q
    BY <1>0, <2>1, <2>2, <2>3 DEF LedgerStep, LedgerReleased
  <2>4. CASE r # q
    BY <1>0, <2>1, <2>4 DEF LedgerStep, LedgerSame
  <2>5. QED
    BY <2>3, <2>4
<1>5. CASE jobs' = jobs /\ audit' = audit /\ released' = released
  BY <1>5 DEF LedgerStep, LedgerSame
<1>6. QED
  BY <1>2, <1>3, <1>4, <1>5
     DEF SlotStep, StartProcessing, OpenCall, OwnershipLost, CommitConflict,
         UnexpectedError, tables, history

(* What any step of the system does to one job and its audit trail.        *)
LEMMA LedgerSteps ==
    ASSUME OwnerInvariant, AttemptsKnown, [Next]_vars, NEW r \in Receipts
    PROVE  LedgerStep(r)
<1>0. /\ jobs \in [Receipts -> Job \cup {None}]
      /\ audit \in [Receipts -> [AuditActions -> Nat]]
  BY LedgerTables
<1>1. CASE UNCHANGED vars
  BY <1>1 DEF vars, tables, history, LedgerStep, LedgerSame
<1>2. ASSUME NEW q \in Receipts, NEW owner \in Owners, CreateQueued(q, owner)
      PROVE  LedgerStep(r)
  <2>1. CASE r = q
    BY <1>0, <1>2, <2>1 DEF CreateQueued, history, LedgerStep, LedgerCreated, Records
  <2>2. CASE r # q
    BY <1>0, <1>2, <2>2 DEF CreateQueued, history, LedgerStep, LedgerSame
  <2>3. QED
    BY <2>1, <2>2
<1>3. ASSUME NEW q \in Receipts, ClockStep(q)
      PROVE  LedgerStep(r)
  BY <1>3 DEF ClockStep, BecomeRipe, LeaseExpires, tables, history, LedgerStep, LedgerSame
<1>4. QED
  BY <1>1, <1>2, <1>3, SubmitterLedger, WorkerLedger, SlotLedger DEF Next, AllSettled
-----------------------------------------------------------------------------
(* A slot keeps the claim it has, drops it or takes a new one, and the     *)
(* attemptCount of a new one is the one written to the job.                *)
LEMMA ClaimsKeptOrNew ==
    ASSUME WellFormed, [Next]_vars, NEW s \in Slots, claims'[s] # None,
           claims'[s] # claims[s]
    PROVE  /\ claims'[s].receipt \in Jobs
           /\ claims'[s].attemptCount = jobs'[claims'[s].receipt].attemptCount
           /\ tx'[s] = None
<1>1. PICK w \in Workers : ClaimSome(w)
  BY ClaimsSteps DEF ClaimsDropped
<1>2. PICK free \in SUBSET IdleSlots(w) : \E pick \in [free -> Claimable] :
          ClaimAvailable(w, pick)
  BY <1>1 DEF ClaimSome
<1>3. PICK pick \in [free -> Claimable] : ClaimAvailable(w, pick)
  BY <1>2
<1> DEFINE q == pick[s]
           taken == {pick[t] : t \in free}
<1>4. s \in free
  BY <1>3 DEF ClaimAvailable
<1>5. q \in Jobs /\ q \in Receipts /\ jobs[q] \in Job
  BY <1>3, <1>4, RowFacts DEF Claimable, WellFormed, RowsPresent, Jobs
<1>6. /\ claims'[s].receipt = q
      /\ claims'[s].attemptCount = jobs[q].attemptCount + 1
      /\ tx' = tx
  BY <1>3, <1>4 DEF ClaimAvailable
<1>7. jobs'[q] = Saved(ClaimJob(jobs[q], w, drawn[q] + 1))
  BY <1>3, <1>4, <1>5 DEF ClaimAvailable
<1>8. jobs'[q].attemptCount = jobs[q].attemptCount + 1
  BY <1>5, <1>7 DEF Saved, ClaimJob, Job
<1>9. tx[s] = None
  BY <1>2, <1>4 DEF IdleSlots, WellFormed, SlotsCoherent
<1>10. QED
  BY <1>5, <1>6, <1>8, <1>9

(* The owner's claim agrees with the job: a claim that no longer holds the *)
(* current token does not come back into force.                            *)
LEMMA OwnedAttempts ==
    ASSUME OwnerInvariant, AttemptsKnown, [Next]_vars, NEW s \in Slots, Owns(s)'
    PROVE  claims'[s].attemptCount = jobs'[claims'[s].receipt].attemptCount
<1>0. WellFormed /\ drawn \in [Receipts -> Nat]
  BY LedgerTables
<1>1. claims'[s] # None
  BY DEF Owns
<1>2. CASE claims'[s] # claims[s]
  BY <1>0, <1>1, <1>2, ClaimsKeptOrNew
<1>3. CASE claims'[s] = claims[s]
  <2> DEFINE q == claims[s].receipt
  <2>1. /\ q \in Receipts
        /\ q \in Jobs
        /\ jobs[q] \in Job
        /\ claims[s].token \in Nat
        /\ claims[s].token <= drawn[q]
    BY <1>0, <1>1, <1>3, RowFacts DEF Jobs, Claim, OwnerInvariant, TokensDistinct
  <2>2. /\ jobs'[q].status = "PROCESSING"
        /\ jobs'[q].lockedBy = claims[s].worker
        /\ jobs'[q].claimToken = claims[s].token
    BY <1>3 DEF Owns, IsOwnedBy
  <2>3. LedgerStep(q)
    BY <2>1, LedgerSteps
  <2>4. CASE LedgerSame(q) \/ LedgerFlagged(q)
    <3>1. /\ jobs'[q].status = jobs[q].status
          /\ jobs'[q].lockedBy = jobs[q].lockedBy
          /\ jobs'[q].claimToken = jobs[q].claimToken
          /\ jobs'[q].attemptCount = jobs[q].attemptCount
      BY <2>1, <2>4 DEF LedgerSame, LedgerFlagged, Saved, MarkJobDuplicate, Job
    <3>2. Owns(s)
      BY <1>1, <1>3, <2>2, <3>1 DEF Owns, IsOwnedBy
    <3>3. QED
      BY <1>3, <3>1, <3>2 DEF AttemptsKnown
  <2>5. CASE LedgerClaimed(q)
    <3>1. jobs'[q].claimToken = drawn[q] + 1
      BY <2>1, <2>5 DEF LedgerClaimed, Saved, ClaimJob, Job
    <3>2. drawn[q] \in Nat
      BY <1>0, <2>1
    <3>3. QED
      BY <2>1, <2>2, <3>1, <3>2
  <2>6. ~Uploaded(q) => FALSE
    BY <2>1 DEF Jobs
  <2>7. CASE LedgerRecovered(q) \/ LedgerRetried(q) \/ LedgerReleased(q) \/ LedgerSettled(q)
    BY <2>1, <2>2, <2>7
       DEF LedgerRecovered, LedgerRetried, LedgerReleased, LedgerSettled, Saved,
           RecoverExpiredLease, ScheduleRetry, ReleaseClaim, Unclaimed, Job
  <2>8. QED
    BY <2>3, <2>4, <2>5, <2>6, <2>7 DEF LedgerStep, LedgerCreated
<1>4. QED
  BY <1>2, <1>3

(* A retry is opened only below the limit, by a claim that stays as it is. *)
LEMMA RetryBelowLimit ==
    ASSUME OwnerInvariant, AttemptsKnown, [Next]_vars, NEW s \in Slots,
           tx'[s] # None, tx'[s].call = "retry"
    PROVE  claims'[s].attemptCount < MaxAttempts
<1>0. /\ WellFormed
      /\ s \in Clients
      /\ s \notin Submitters
      /\ tx \in [Clients -> Transaction \cup {None}]
  BY LedgerTables, ThreadsAssumption DEF Clients, WellFormed, TypeOK
<1>1. CASE tx'[s] = tx[s] /\ claims'[s] = claims[s]
  BY <1>1 DEF AttemptsKnown
<1>2. CASE \E call \in WorkerCalls : OpenCall(s, call)
  <2>1. PICK call \in WorkerCalls : OpenCall(s, call)
    BY <1>2
  <2>2. tx'[s].call = call /\ claims' = claims
    BY <1>0, <2>1 DEF OpenCall, workers
  <2>3. call = "retry"
    BY <2>2
  <2>4. QED
    BY <2>1, <2>2, <2>3 DEF OpenCall, MayCall
<1>3. CASE claims'[s] # claims[s]
  <2>1. CASE claims'[s] # None
    BY <1>0, <1>3, <2>1, ClaimsKeptOrNew
  <2>2. CASE claims'[s] = None
    <3>1. WellFormed'
      BY <1>0, NextWellFormed
    <3>2. QED
      BY <2>2, <3>1 DEF WellFormed, SlotsCoherent
  <2>3. QED
    BY <2>1, <2>2
<1>4. CASE tx'[s] # tx[s]
  <2>1. \E t \in Slots : SlotStep(t) \/ UnexpectedError(t)
    <3>1. \A u \in Submitters : SubmitterStep(u) => tx'[s] = tx[s]
      BY <1>0 DEF SubmitterStep, OpenMarkDuplicate, CommitMarkDuplicate,
                  AbandonMarkDuplicate
    <3>2. \A w \in Workers : WorkerStep(w) => tx'[s] = tx[s] \/ tx'[s] = None
      BY <1>0 DEF WorkerStep, ClaimSome, ClaimAvailable, RecoverSome, RecoverExpired,
                  StopPolling, Restart
    <3>3. \A q \in Receipts : ClockStep(q) => tx' = tx
      BY DEF ClockStep, BecomeRipe, LeaseExpires
    <3>4. \A q \in Receipts, owner \in Owners : CreateQueued(q, owner) => tx' = tx
      BY DEF CreateQueued
    <3>5. UNCHANGED vars \/ AllSettled => tx' = tx
      BY DEF vars, AllSettled
    <3>6. QED
      BY <1>4, <3>1, <3>2, <3>3, <3>4, <3>5 DEF Next
  <2>2. PICK t \in Slots : SlotStep(t) \/ UnexpectedError(t)
    BY <2>1
  <2>3. CASE FreeSlot(t)
    BY <1>0, <1>4, <2>3, FreeSlotFacts
  <2>4. CASE \E call \in WorkerCalls : OpenCall(t, call)
    BY <1>0, <1>2, <1>4, <2>4 DEF OpenCall
  <2>5. QED
    BY <1>4, <2>2, <2>3, <2>4
       DEF SlotStep, StartProcessing, OwnershipLost, CompleteQualityRejection,
           CompleteWithData, FailExtraction, Settle, RetryLater, ReturnUnstarted,
           CommitConflict, UnexpectedError
<1>5. QED
  BY <1>1, <1>3, <1>4

(* The owner's knowledge of the attempts is inductive.                     *)
LEMMA AttemptsInductive ==
    /\ Init => AttemptsKnown
    /\ OwnerInvariant /\ AttemptsKnown /\ [Next]_vars => AttemptsKnown'
<1>1. Init => AttemptsKnown
  BY DEF Init, AttemptsKnown, Owns, Clients
<1>2. ASSUME OwnerInvariant, AttemptsKnown, [Next]_vars
      PROVE  AttemptsKnown'
  <2>1. \A s \in Slots : Owns(s)' =>
            claims'[s].attemptCount = jobs'[claims'[s].receipt].attemptCount
    BY <1>2, OwnedAttempts
  <2>2. \A s \in Slots : tx'[s] # None /\ tx'[s].call = "retry" =>
            claims'[s].attemptCount < MaxAttempts
    BY <1>2, RetryBelowLimit
  <2>3. QED
    BY <2>1, <2>2 DEF AttemptsKnown
<1>3. QED
  BY <1>1, <1>2
-----------------------------------------------------------------------------
(* The trail of one receipt: the ledger properties, and nothing written    *)
(* before there is a receipt.                                              *)
RowLedger(r) ==
    /\ ~Uploaded(r) => audit[r] = NoEvents /\ released[r] = 0
    /\ Uploaded(r) =>
          /\ VerdictEvents(r) = IF IsFinished(jobs[r]) THEN 1 ELSE 0
          /\ audit[r]["DUPLICATE_DETECTED"] =
                 IF jobs[r].duplicateDetected THEN 1 ELSE 0
          /\ jobs[r].attemptCount = audit[r]["EXTRACTION_JOB_CLAIMED"]
          /\ audit[r]["EXTRACTION_JOB_CLAIMED"] =
                 audit[r]["EXTRACTION_RETRY_SCHEDULED"]
               + audit[r]["EXTRACTION_JOB_RECOVERED"]
               + released[r] + VerdictEvents(r)
               + (IF IsProcessing(r) THEN 1 ELSE 0)
          /\ audit[r]["EXTRACTION_RETRY_SCHEDULED"] < MaxAttempts

(* Writing events counts each of them once and no other.                   *)
LEMMA LoggedCounts ==
    ASSUME NEW log \in [AuditActions -> Nat], NEW events
    PROVE  /\ \A a \in AuditActions :
                 Logged(log, events)[a] = IF a \in events THEN log[a] + 1 ELSE log[a]
           /\ \A a \in AuditActions : log[a] \in Nat
BY DEF Logged

(* The first row of a trail.                                               *)
LEMMA LedgerBegins ==
    ASSUME NEW r \in Receipts, LedgerCreated(r), RowLedger(r)
    PROVE  RowLedger(r)'
<1>1. /\ audit[r] = NoEvents
      /\ released[r] = 0
      /\ jobs'[r] = NewJob
  BY DEF LedgerCreated, RowLedger
<1>2. NoEvents \in [AuditActions -> Nat]
  BY DEF NoEvents
<1>3. \A a \in AuditActions : audit'[r][a] = IF a = "UPLOADED" THEN 1 ELSE 0
  BY <1>1, <1>2, LoggedCounts DEF LedgerCreated, Records, NoEvents
<1>4. Uploaded(r)'
  BY <1>1, NewRowTypes, NullAssumption DEF Uploaded
<1>5. /\ jobs'[r].status = "QUEUED"
      /\ jobs'[r].attemptCount = 0
      /\ jobs'[r].duplicateDetected = FALSE
  BY <1>1 DEF NewJob
<1>6. released'[r] = 0
  BY <1>1 DEF LedgerCreated, Records
<1>7. QED
  BY <1>3, <1>4, <1>5, <1>6, LimitsAssumption
     DEF RowLedger, AuditActions, Verdicts, VerdictEvents, IsFinished, IsProcessing

(* Every further step adds up.                                             *)
LEMMA LedgerContinues ==
    ASSUME NEW r \in Receipts, Uploaded(r), jobs[r] \in Job,
           audit[r] \in [AuditActions -> Nat], released[r] \in Nat,
           Uploaded(r)', LedgerStep(r), RowLedger(r)
    PROVE  RowLedger(r)'
<1> USE LimitsAssumption
<1>0. /\ \A a \in AuditActions : audit[r][a] \in Nat
      /\ \A events : Records(r, events) => \A a \in AuditActions :
             audit'[r][a] = IF a \in events THEN audit[r][a] + 1 ELSE audit[r][a]
      /\ jobs[r].attemptCount \in Nat
      /\ jobs[r].duplicateDetected \in BOOLEAN
  BY LoggedCounts DEF Records, Job
<1> DEFINE row == jobs[r]
           row2 == jobs'[r]
<1>1. CASE LedgerSame(r)
  BY <1>1 DEF LedgerSame, RowLedger, VerdictEvents, IsFinished, IsProcessing, Uploaded
<1>2. CASE LedgerClaimed(r)
  <2>1. /\ row2.status = "PROCESSING"
        /\ row2.attemptCount = row.attemptCount + 1
        /\ row2.duplicateDetected = row.duplicateDetected
        /\ row.status \in {"QUEUED", "RETRY_WAIT"}
    BY <1>2 DEF LedgerClaimed, Saved, ClaimJob, Job, IsClaimable
  <2>2. /\ released'[r] = released[r]
        /\ \A a \in AuditActions :
              audit'[r][a] = IF a = "EXTRACTION_JOB_CLAIMED" THEN audit[r][a] + 1
                             ELSE audit[r][a]
    BY <1>0, <1>2 DEF LedgerClaimed, Records
  <2>3. QED
    BY <1>0, <2>1, <2>2
       DEF RowLedger, AuditActions, Verdicts, VerdictEvents, IsFinished, IsProcessing
<1>3. CASE LedgerRecovered(r)
  <2>1. /\ row2.status = "QUEUED"
        /\ row2.attemptCount = row.attemptCount
        /\ row2.duplicateDetected = row.duplicateDetected
        /\ row.status = "PROCESSING"
    BY <1>3 DEF LedgerRecovered, Saved, RecoverExpiredLease, Unclaimed, Job, IsProcessing
  <2>2. /\ released'[r] = released[r]
        /\ \A a \in AuditActions :
              audit'[r][a] = IF a = "EXTRACTION_JOB_RECOVERED" THEN audit[r][a] + 1
                             ELSE audit[r][a]
    BY <1>0, <1>3 DEF LedgerRecovered, Records
  <2>3. QED
    BY <1>0, <2>1, <2>2
       DEF RowLedger, AuditActions, Verdicts, VerdictEvents, IsFinished, IsProcessing
<1>4. CASE LedgerRetried(r)
  <2>1. /\ row2.status = "RETRY_WAIT"
        /\ row2.attemptCount = row.attemptCount
        /\ row2.duplicateDetected = row.duplicateDetected
        /\ row.status = "PROCESSING"
        /\ row.attemptCount < MaxAttempts
    BY <1>4 DEF LedgerRetried, Saved, ScheduleRetry, Unclaimed, Job, IsProcessing
  <2>2. /\ released'[r] = released[r]
        /\ \A a \in AuditActions :
              audit'[r][a] = IF a = "EXTRACTION_RETRY_SCHEDULED" THEN audit[r][a] + 1
                             ELSE audit[r][a]
    BY <1>0, <1>4 DEF LedgerRetried, Records
  <2>3. VerdictEvents(r) = 0 /\ VerdictEvents(r)' = 0
    BY <1>0, <2>1, <2>2 DEF RowLedger, AuditActions, Verdicts, VerdictEvents, IsFinished
  <2>4. row.attemptCount = audit[r]["EXTRACTION_RETRY_SCHEDULED"]
                         + audit[r]["EXTRACTION_JOB_RECOVERED"] + released[r] + 1
    BY <1>0, <2>1, <2>3 DEF RowLedger, AuditActions, Verdicts, IsProcessing
  <2>5. audit'[r]["EXTRACTION_RETRY_SCHEDULED"] < MaxAttempts
    BY <1>0, <2>1, <2>2, <2>4 DEF AuditActions, Verdicts
  <2>6. /\ audit'[r]["EXTRACTION_RETRY_SCHEDULED"]
               = audit[r]["EXTRACTION_RETRY_SCHEDULED"] + 1
        /\ \A a \in {"DUPLICATE_DETECTED", "EXTRACTION_JOB_CLAIMED",
                     "EXTRACTION_JOB_RECOVERED"} :
              audit'[r][a] = audit[r][a]
        /\ audit[r]["EXTRACTION_RETRY_SCHEDULED"] \in Nat
        /\ audit[r]["EXTRACTION_JOB_RECOVERED"] \in Nat
    BY <1>0, <2>2 DEF AuditActions, Verdicts
  <2>7. QED
    BY <2>1, <2>2, <2>3, <2>4, <2>5, <2>6 DEF RowLedger, IsFinished, IsProcessing
<1>5. CASE LedgerReleased(r)
  <2>1. /\ row2.status = "QUEUED"
        /\ row2.attemptCount = row.attemptCount
        /\ row2.duplicateDetected = row.duplicateDetected
        /\ row.status = "PROCESSING"
    BY <1>5 DEF LedgerReleased, Saved, ReleaseClaim, Unclaimed, Job, IsProcessing
  <2>2. audit'[r] = audit[r] /\ released'[r] = released[r] + 1
    BY <1>5 DEF LedgerReleased
  <2>3. QED
    BY <1>0, <2>1, <2>2
       DEF RowLedger, AuditActions, Verdicts, VerdictEvents, IsFinished, IsProcessing
<1>6. CASE LedgerSettled(r)
  <2>1. /\ row2.status \in {"COMPLETED", "FAILED"}
        /\ row2.attemptCount = row.attemptCount
        /\ row2.duplicateDetected = row.duplicateDetected
        /\ row.status = "PROCESSING"
    BY <1>6 DEF LedgerSettled, Saved, Unclaimed, Job, IsProcessing
  <2>2. PICK events \in {{"QUALITY_REJECTED"}, {"EXTRACTION_FAILED"},
                         {"EXTRACTION_COMPLETED", "VALIDATION_COMPLETED"}} :
            Records(r, events)
    BY <1>6 DEF LedgerSettled
  <2>3. /\ released'[r] = released[r]
        /\ \A a \in AuditActions :
              audit'[r][a] = IF a \in events THEN audit[r][a] + 1 ELSE audit[r][a]
    BY <1>0, <2>2 DEF Records
  <2>4. /\ VerdictEvents(r)' = VerdictEvents(r) + 1
        /\ \A a \in {"DUPLICATE_DETECTED", "EXTRACTION_JOB_CLAIMED",
                     "EXTRACTION_RETRY_SCHEDULED", "EXTRACTION_JOB_RECOVERED"} :
              audit'[r][a] = audit[r][a]
    BY <1>0, <2>2, <2>3 DEF VerdictEvents, AuditActions, Verdicts
  <2>5. VerdictEvents(r) \in Nat
    BY <1>0 DEF VerdictEvents, AuditActions, Verdicts
  <2>6. QED
    BY <1>0, <2>1, <2>3, <2>4, <2>5
       DEF RowLedger, AuditActions, Verdicts, IsFinished, IsProcessing
<1>7. CASE LedgerFlagged(r)
  <2>1. /\ row2.status = row.status
        /\ row2.attemptCount = row.attemptCount
        /\ row2.duplicateDetected = TRUE
        /\ row.duplicateDetected = FALSE
    BY <1>0, <1>7 DEF LedgerFlagged, Saved, MarkJobDuplicate, Job
  <2>2. /\ released'[r] = released[r]
        /\ \A a \in AuditActions :
              audit'[r][a] = IF a = "DUPLICATE_DETECTED" THEN audit[r][a] + 1
                             ELSE audit[r][a]
    BY <1>0, <1>7 DEF LedgerFlagged, Records
  <2>3. QED
    BY <1>0, <2>1, <2>2
       DEF RowLedger, AuditActions, Verdicts, VerdictEvents, IsFinished, IsProcessing
<1>8. QED
  BY <1>1, <1>2, <1>3, <1>4, <1>5, <1>6, <1>7 DEF LedgerStep, LedgerCreated

(* Every step of the system keeps the trail of every receipt.              *)
LEMMA LedgerInductive ==
    /\ Init => \A r \in Receipts : RowLedger(r)
    /\ /\ OwnerInvariant
       /\ AttemptsKnown
       /\ \A r \in Receipts : RowLedger(r)
       /\ [Next]_vars
       => (\A r \in Receipts : RowLedger(r))'
<1>1. Init => \A r \in Receipts : RowLedger(r)
  BY DEF Init, RowLedger, Uploaded
<1>2. ASSUME OwnerInvariant, AttemptsKnown, \A r \in Receipts : RowLedger(r),
             [Next]_vars, NEW r \in Receipts
      PROVE  RowLedger(r)'
  <2>1. /\ LedgerStep(r)
        /\ audit[r] \in [AuditActions -> Nat]
        /\ released[r] \in Nat
        /\ jobs[r] \in Job \cup {None}
    BY <1>2, LedgerSteps, LedgerTables
  <2>2. CASE LedgerCreated(r)
    BY <1>2, <2>2, LedgerBegins
  <2>3. CASE ~Uploaded(r) /\ LedgerSame(r)
    BY <1>2, <2>3 DEF LedgerSame, RowLedger, Uploaded
  <2>4. CASE Uploaded(r)
    <3>1. jobs[r] \in Job
      BY <2>1, <2>4 DEF Uploaded
    <3>2. Uploaded(r)'
      <4>1. WellFormed'
        BY <1>2, LedgerTables, NextWellFormed
      <4>2. CASE LedgerSame(r)
        BY <2>4, <4>2 DEF LedgerSame, Uploaded
      <4>3. CASE jobs'[r] \in Job
        BY <4>3, NullAssumption DEF Uploaded
      <4>4. drawn[r] + 1 \in Nat
        BY <1>2, LedgerTables
      <4>5. QED
        BY <2>1, <2>4, <3>1, <4>2, <4>3, <4>4, JobMethodTypes
           DEF LedgerStep, LedgerCreated, LedgerClaimed, LedgerRecovered, LedgerRetried,
               LedgerReleased, LedgerSettled, LedgerFlagged, CompleteJob, FailJob
    <3>3. QED
      BY <1>2, <2>1, <2>4, <3>1, <3>2, LedgerContinues
  <2>5. QED
    BY <2>1, <2>2, <2>3, <2>4 DEF LedgerStep
<1>3. QED
  BY <1>1, <1>2
-----------------------------------------------------------------------------
LedgerInvariant ==
    /\ OwnerInvariant
    /\ AttemptsKnown
    /\ \A r \in Receipts : RowLedger(r)

(* In every reachable state every trail adds up.                           *)
LEMMA LedgerAlways == Spec => []LedgerInvariant
<1>1. Init => AttemptsKnown /\ \A r \in Receipts : RowLedger(r)
  BY AttemptsInductive, LedgerInductive
<1>2. /\ OwnerInvariant
      /\ AttemptsKnown /\ \A r \in Receipts : RowLedger(r)
      /\ [Next]_vars
      => (AttemptsKnown /\ \A r \in Receipts : RowLedger(r))'
  BY AttemptsInductive, LedgerInductive
<1>3. QED
  BY <1>1, <1>2, OwnerAlways, PTL DEF Spec, LedgerInvariant

(* A worker that lost its lease never adds a second verdict to the audit   *)
(* trail, and no verdict goes unrecorded.                                  *)
THEOREM VerdictOnce == Spec => []OneVerdict
<1>1. LedgerInvariant => OneVerdict
  BY DEF LedgerInvariant, RowLedger, OneVerdict, Jobs
<1>2. QED
  BY <1>1, LedgerAlways, PTL

(* However many uploads of one image commit at once, the duplicate is      *)
(* recorded once.                                                          *)
THEOREM DuplicateToldOnce == Spec => []DuplicateAuditedOnce
<1>1. LedgerInvariant => DuplicateAuditedOnce
  BY DEF LedgerInvariant, RowLedger, DuplicateAuditedOnce, Jobs
<1>2. QED
  BY <1>1, LedgerAlways, PTL

(* Claims, retries, recoveries, releases and verdicts balance: no claim    *)
(* ends twice, none is lost but to a lease that is still running.          *)
THEOREM ClaimsBalance == Spec => []ClaimLedger
<1>1. LedgerInvariant => ClaimLedger
  BY DEF LedgerInvariant, RowLedger, ClaimLedger, Jobs
<1>2. QED
  BY <1>1, LedgerAlways, PTL

(* A failing extraction is retried fewer than MaxAttempts times, whatever  *)
(* leases expire and claims are returned in between.                       *)
THEOREM RetriesLimited == Spec => []RetriesBounded
<1>1. LedgerInvariant => RetriesBounded
  BY DEF LedgerInvariant, RowLedger, RetriesBounded, Jobs
<1>2. QED
  BY <1>1, LedgerAlways, PTL
-----------------------------------------------------------------------------
Unseen(r) ==
    /\ Uploaded(r)' <=> Uploaded(r)
    /\ Uploaded(r) =>
          /\ jobs'[r].duplicateDetected = jobs[r].duplicateDetected
          /\ receipts'[r].status = receipts[r].status

(* Rows that stay as they are show nothing.                                *)
LEMMA SameUnseen ==
    ASSUME NEW r \in Receipts, jobs'[r] = jobs[r], receipts'[r] = receipts[r]
    PROVE  Unseen(r)
BY DEF Unseen, Uploaded

(* Writing the rows of one receipt shows nothing of the others.            *)
LEMMA OthersUnseen ==
    ASSUME WellFormed, NEW q \in Receipts, NEW job, NEW receipt,
           jobs' = [jobs EXCEPT ![q] = job],
           \/ receipts' = receipts
           \/ receipts' = [receipts EXCEPT ![q] = receipt]
    PROVE  \A r \in Receipts \ {q} : Unseen(r)
BY SameUnseen DEF WellFormed, TypeOK

(* The batches of a worker are not seen: claiming and recovering change    *)
(* neither the flag nor the status.                                        *)
LEMMA BatchesUnseen ==
    ASSUME WellFormed, NEW w \in Workers, ClaimSome(w) \/ RecoverSome(w),
           NEW r \in Receipts
    PROVE  Unseen(r)
<1>1. receipts' = receipts
  BY DEF ClaimSome, ClaimAvailable, RecoverSome, RecoverExpired
<1>2. \/ jobs'[r] = jobs[r]
      \/ /\ r \in ripe \cup overdue
         /\ \/ jobs'[r] = Saved(ClaimJob(jobs[r], w, drawn[r] + 1))
            \/ jobs'[r] = Saved(RecoverExpiredLease(jobs[r]))
  BY DEF ClaimSome, ClaimAvailable, Claimable, RecoverSome, RecoverExpired, Expired
<1>3. CASE jobs'[r] = jobs[r]
  BY <1>1, <1>3, SameUnseen
<1>4. CASE /\ r \in ripe \cup overdue
           /\ \/ jobs'[r] = Saved(ClaimJob(jobs[r], w, drawn[r] + 1))
              \/ jobs'[r] = Saved(RecoverExpiredLease(jobs[r]))
  <2>1. r \in Jobs /\ jobs[r] \in Job /\ drawn[r] + 1 \in Nat
    BY <1>4, RowFacts DEF WellFormed, TypeOK, RowsPresent
  <2>2. jobs'[r] \in Job
    BY <1>4, <2>1, JobMethodTypes
  <2>3. jobs'[r].duplicateDetected = jobs[r].duplicateDetected
    BY <1>4, <2>1 DEF Saved, ClaimJob, RecoverExpiredLease, Unclaimed, Job
  <2>4. QED
    BY <1>1, <2>1, <2>2, <2>3, NullAssumption DEF Unseen, Uploaded, Jobs
<1>5. QED
  BY <1>2, <1>3, <1>4

(* A step of the whole system is seen of one receipt at most.              *)
LEMMA SeenOfOne ==
    ASSUME WellFormed, [Next]_vars
    PROVE  \/ \A r \in Receipts : Unseen(r)
           \/ \E q \in Receipts : \A r \in Receipts \ {q} : Unseen(r)
<1>1. CASE UNCHANGED tables
  BY <1>1, SameUnseen DEF tables
<1>2. ASSUME NEW q \in Receipts, NEW owner \in Owners, CreateQueued(q, owner)
      PROVE  \A r \in Receipts \ {q} : Unseen(r)
  BY <1>2, OthersUnseen DEF CreateQueued
<1>3. ASSUME NEW u \in Submitters, CommitMarkDuplicate(u)
      PROVE  \E q \in Receipts : \A r \in Receipts \ {q} : Unseen(r)
  <2>1. tx[u].of \in Receipts
    BY <1>3, RowFacts DEF CommitMarkDuplicate, Clients, Jobs
  <2>2. \A r \in Receipts \ {tx[u].of} : Unseen(r)
    BY <1>3, <2>1, OthersUnseen DEF CommitMarkDuplicate
  <2>3. QED
    BY <2>1, <2>2
<1>4. ASSUME NEW w \in Workers, ClaimSome(w) \/ RecoverSome(w)
      PROVE  \A r \in Receipts : Unseen(r)
  BY <1>4, BatchesUnseen
<1>5. ASSUME NEW s \in Slots, SlotStep(s), ~UNCHANGED tables
      PROVE  \E q \in Receipts : \A r \in Receipts \ {q} : Unseen(r)
  <2>1. /\ tx[s] # None
        /\ \E job : jobs' = [jobs EXCEPT ![tx[s].of] = job]
        /\ \/ receipts' = receipts
           \/ \E receipt : receipts' = [receipts EXCEPT ![tx[s].of] = receipt]
    BY <1>5 DEF SlotStep, StartProcessing, OpenCall, OwnershipLost,
                CompleteQualityRejection, CompleteWithData, FailExtraction, Settle,
                RetryLater, ReturnUnstarted, CommitConflict, Committing, tables
  <2>2. tx[s].of \in Receipts
    BY <2>1, CommittingFacts
  <2>3. QED
    BY <2>1, <2>2, OthersUnseen
<1>6. ASSUME NEW s \in Slots, UnexpectedError(s)
      PROVE  UNCHANGED tables
  BY <1>6 DEF UnexpectedError
<1>7. QED
  BY <1>1, <1>2, <1>3, <1>4, <1>5, <1>6
     DEF Next, SubmitterStep, OpenMarkDuplicate, AbandonMarkDuplicate, ClockStep,
         BecomeRipe, LeaseExpires, WorkerStep, StopPolling, Restart, AllSettled, vars
-----------------------------------------------------------------------------
Flagged == {r \in Jobs : jobs[r].duplicateDetected}

Seen == [r \in Receipts |-> IF Uploaded(r) THEN receipts[r].status ELSE None]

(* Steps nobody sees stutter.                                              *)
LEMMA UnseenStutters ==
    ASSUME \A r \in Receipts : Unseen(r)
    PROVE  Jobs' = Jobs /\ Flagged' = Flagged /\ Seen' = Seen
<1>1. Jobs' = Jobs
  BY DEF Unseen, Jobs
<1>2. \A r \in Jobs : /\ jobs'[r].duplicateDetected = jobs[r].duplicateDetected
                      /\ receipts'[r].status = receipts[r].status
  BY DEF Unseen, Jobs
<1>3. Flagged' = Flagged
  BY <1>1, <1>2 DEF Flagged
<1>4. Seen' = Seen
  BY DEF Unseen, Seen
<1>5. QED
  BY <1>1, <1>3, <1>4

(* What a step shows of one receipt, the others being as they were.        *)
LEMMA OthersSame ==
    ASSUME NEW q \in Receipts, \A r \in Receipts \ {q} : Unseen(r)
    PROVE  /\ Jobs' \ {q} = Jobs \ {q}
           /\ Flagged' \ {q} = Flagged \ {q}
           /\ Seen' = [Seen EXCEPT ![q] = Seen'[q]]
<1>1. Jobs' \ {q} = Jobs \ {q}
  BY DEF Unseen, Jobs
<1>2. Flagged' \ {q} = Flagged \ {q}
  BY DEF Unseen, Jobs, Flagged
<1>3. \A r \in Receipts \ {q} : Seen'[r] = Seen[r]
  BY DEF Unseen, Seen
<1>4. /\ Seen = [r \in Receipts |-> Seen[r]]
      /\ Seen' = [r \in Receipts |-> Seen'[r]]
  BY DEF Seen
<1>5. QED
  BY <1>1, <1>2, <1>3, <1>4

(* Creating the rows is accepting the receipt.                             *)
LEMMA CreatedIsAccept ==
    ASSUME NEW q \in Receipts, RowCreated(q), \A r \in Receipts \ {q} : Unseen(r)
    PROVE  Promise!Accept(q)
<1>1. /\ q \notin Jobs
      /\ q \in Jobs'
      /\ q \notin Flagged
      /\ q \notin Flagged'
  BY NewRowTypes, NullAssumption DEF RowCreated, Jobs, Flagged, Uploaded, NewJob
<1>2. Seen[q] = None /\ Seen'[q] = None
  BY NewRowTypes, NullAssumption DEF RowCreated, Seen, Uploaded, NewReceipt
<1>3. Jobs' = Jobs \cup {q} /\ Flagged' = Flagged /\ Seen' = Seen
  <2>1. Jobs' = Jobs \cup {q} /\ Flagged' = Flagged
    BY <1>1, OthersSame
  <2>2. Seen' = Seen
    BY <1>2, OthersSame DEF Seen
  <2>3. QED
    BY <2>1, <2>2
<1>4. QED
  BY <1>1, <1>3 DEF Promise!Accept, Flagged, Seen

(* A verdict is decided once, and on a duplicate not without a person.     *)
LEMMA SettledIsDecide ==
    ASSUME OwnerInvariant, NEW q \in Receipts, q \in Jobs, Uploaded(q)', RowSettled(q),
           \A r \in Receipts \ {q} : Unseen(r)
    PROVE  Promise!Decide(q)
<1>1. jobs[q] \in Job /\ receipts[q] \in Receipt
  BY LedgerTables, RowFacts
<1>2. receipts[q].status = None
  BY DEF RowSettled, IsProcessing, IsFinished, OwnerInvariant, VerdictInvariant,
         VerdictIffFinished
<1>3. PICK data, results, status :
          /\ receipts'[q] = Saved(CompleteExtraction(receipts[q], data, results, status))
          /\ \/ /\ results = {}
                /\ status \in {"NEEDS_RECAPTURE", "UNREADABLE", "MANUAL_ENTRY"}
             \/ /\ results = Validate(data, jobs[q].duplicateDetected)
                /\ status = Route(data, results)
  BY DEF RowSettled
<1>4. receipts'[q].status = status
  BY <1>1, <1>3 DEF Saved, CompleteExtraction, Receipt
<1>5. /\ status \in Promise!Given
      /\ status = "AUTO_APPROVED" => ~jobs[q].duplicateDetected
  <2>1. jobs[q].duplicateDetected \in BOOLEAN
    BY <1>1 DEF Job
  <2>2. jobs[q].duplicateDetected => status # "AUTO_APPROVED"
    BY <1>3, <2>1, SettledRoute
  <2>3. QED
    BY <1>3, <2>2, RouteType DEF Promise!Given
<1>6. jobs'[q].duplicateDetected = jobs[q].duplicateDetected
  BY <1>1 DEF RowSettled, Saved, Unclaimed, Job
<1>7. Jobs' = Jobs /\ Flagged' = Flagged
  <2>1. q \in Jobs' /\ (q \in Flagged' <=> q \in Flagged)
    BY <1>6 DEF Jobs, Flagged
  <2>2. QED
    BY <2>1, OthersSame
<1>8. Seen[q] = None /\ Seen' = [Seen EXCEPT ![q] = status]
  <2>1. Seen[q] = None /\ Seen'[q] = status
    BY <1>2, <1>4 DEF Seen, Jobs
  <2>2. QED
    BY <2>1, OthersSame
<1>9. QED
  BY <1>5, <1>7, <1>8 DEF Promise!Decide, Flagged, Seen

(* A duplicate is reported once; a verdict given before goes to a person.  *)
LEMMA FlaggedIsFlag ==
    ASSUME OwnerInvariant, NEW q \in Receipts, q \in Jobs, Uploaded(q)', RowFlagged(q),
           ~jobs[q].duplicateDetected, \A r \in Receipts \ {q} : Unseen(r)
    PROVE  Promise!Flag(q)
<1>1. jobs[q] \in Job /\ receipts[q] \in Receipt
  BY LedgerTables, RowFacts
<1>2. Jobs' = Jobs /\ q \notin Flagged /\ Flagged' = Flagged \cup {q}
  <2>1. jobs'[q].duplicateDetected
    BY <1>1 DEF RowFlagged, Saved, MarkJobDuplicate, Job
  <2>2. q \in Jobs' /\ q \in Flagged' /\ q \notin Flagged
    BY <2>1 DEF Jobs, Flagged
  <2>3. QED
    BY <2>2, OthersSame
<1>3. Seen[q] = receipts[q].status /\ Seen'[q] = receipts'[q].status
  BY DEF Seen, Jobs
<1>4. CASE receipts[q].status = None
  <2>1. Seen'[q] = Seen[q]
    BY <1>3, <1>4 DEF RowFlagged, LeftAloneByDuplicate
  <2>2. Seen' = Seen
    BY <2>1, OthersSame DEF Seen
  <2>3. QED
    BY <1>2, <1>3, <1>4, <2>2 DEF Promise!Flag, Flagged, Seen
<1>5. CASE receipts[q].status # None
  <2> DEFINE data == receipts[q].currentData
             results == Validate(data, TRUE)
  <2>1. /\ ~MarkedDuplicate(receipts[q].ruleResults)
        /\ ~IsTerminal(receipts[q].status)
    BY DEF OwnerInvariant, VerdictInvariant, VerdictsRouted, IsTerminal
  <2>2. receipts'[q] = Saved(RevalidatedAsDuplicate(receipts[q]))
    BY <1>5, <2>1 DEF RowFlagged, LeftAloneByDuplicate
  <2>3. receipts'[q].status = Route(data, results)
    BY <1>1, <2>1, <2>2 DEF Saved, RevalidatedAsDuplicate, UpdateData, Receipt
  <2>4. MarkedDuplicate(results)
    BY MarkedAsTold
  <2>5. Route(data, results) \in {"NEEDS_REVIEW", "MANUAL_ENTRY"}
    BY <2>4, MarkedGoesToAPerson
  <2> HIDE DEF results
  <2>6. Seen'[q] \in Promise!ForAPerson
    BY <1>3, <2>3, <2>5 DEF Promise!ForAPerson
  <2>7. Seen' = [Seen EXCEPT ![q] = Seen'[q]]
    BY OthersSame
  <2>8. Seen[q] # None
    BY <1>3, <1>5
  <2>9. QED
    BY <1>2, <2>6, <2>7, <2>8 DEF Promise!Flag, Flagged, Seen
<1>6. QED
  BY <1>4, <1>5

(* A job already flagged is not flagged again.                             *)
LEMMA FlaggedOnce ==
    ASSUME NEW q \in Receipts, q \in Jobs, jobs[q] \in Job, RowFlagged(q), LedgerStep(q)
    PROVE  ~jobs[q].duplicateDetected
<1>1. /\ jobs'[q].status = jobs[q].status
      /\ jobs'[q].version # jobs[q].version
  BY DEF RowFlagged, Saved, MarkJobDuplicate, Job
<1>2. ~LedgerSame(q) /\ ~LedgerCreated(q)
  BY <1>1 DEF LedgerSame, LedgerCreated, Jobs
<1>3. ~LedgerClaimed(q)
  BY <1>1 DEF LedgerClaimed, Saved, ClaimJob, Job, IsClaimable
<1>4. \A next \in {"QUEUED", "RETRY_WAIT", "COMPLETED", "FAILED"} :
          IsProcessing(q) => jobs'[q] # Saved(Unclaimed(jobs[q], next))
  BY <1>1 DEF Saved, Unclaimed, Job, IsProcessing
<1>5. QED
  BY <1>2, <1>3, <1>4
     DEF LedgerStep, LedgerRecovered, LedgerRetried, LedgerReleased, LedgerSettled,
         LedgerFlagged, RecoverExpiredLease, ScheduleRetry, ReleaseClaim
-----------------------------------------------------------------------------
(* Every step of the queue is a step of the promise or not seen.           *)
LEMMA QueueSteps ==
    ASSUME LedgerInvariant, [Next]_vars
    PROVE  \/ \E r \in Receipts :
                Promise!Accept(r) \/ Promise!Decide(r) \/ Promise!Flag(r)
           \/ Jobs' = Jobs /\ Flagged' = Flagged /\ Seen' = Seen
<1>0. OwnerInvariant /\ AttemptsKnown /\ WellFormed /\ Snapshots /\ WellFormed'
  BY LedgerTables, NextWellFormed DEF LedgerInvariant
<1>1. CASE \A r \in Receipts : Unseen(r)
  BY <1>1, UnseenStutters
<1>2. ASSUME NEW q \in Receipts, \A r \in Receipts \ {q} : Unseen(r), ~Unseen(q)
      PROVE  Promise!Accept(q) \/ Promise!Decide(q) \/ Promise!Flag(q)
  <2>1. RowStep(q) /\ LedgerStep(q)
    BY <1>0, RowSteps, LedgerSteps
  <2>2. CASE RowCreated(q)
    BY <1>2, <2>2, CreatedIsAccept
  <2>3. CASE Uploaded(q) /\ ~RowCreated(q)
    <3>1. q \in Jobs /\ jobs[q] \in Job /\ receipts[q] \in Receipt
      BY <1>0, <2>3, RowFacts DEF Jobs
    <3>2. jobs'[q] \in Job
      <4>1. drawn[q] + 1 \in Nat
        BY <1>0, LedgerTables
      <4>2. QED
        BY <2>1, <2>3, <3>1, <4>1, JobMethodTypes
           DEF LedgerStep, LedgerSame, LedgerCreated, LedgerClaimed, LedgerRecovered,
               LedgerRetried, LedgerReleased, LedgerSettled, LedgerFlagged,
               CompleteJob, FailJob
    <3>3. Uploaded(q)'
      BY <3>2, NullAssumption DEF Uploaded
    <3>4. CASE RowSame(q)
      BY <1>2, <3>4, SameUnseen DEF RowSame
    <3>5. CASE RowClaimed(q) \/ RowReturned(q)
      <4>1. /\ jobs'[q].duplicateDetected = jobs[q].duplicateDetected
            /\ receipts'[q].status = receipts[q].status
        BY <3>1, <3>5 DEF RowClaimed, RowReturned, Saved, ClaimJob, Unclaimed, Job
      <4>2. QED
        BY <1>2, <2>3, <3>3, <4>1 DEF Unseen
    <3>6. CASE RowSettled(q)
      BY <1>0, <1>2, <3>1, <3>3, <3>6, SettledIsDecide
    <3>7. CASE RowFlagged(q)
      BY <1>0, <1>2, <2>1, <3>1, <3>3, <3>7, FlaggedOnce, FlaggedIsFlag
    <3>8. QED
      BY <2>1, <2>3, <3>4, <3>5, <3>6, <3>7 DEF RowStep
  <2>4. CASE ~Uploaded(q) /\ RowSame(q)
    BY <1>2, <2>4, SameUnseen DEF RowSame
  <2>5. QED
    BY <2>1, <2>2, <2>3, <2>4 DEF RowStep
<1>3. QED
  BY <1>0, <1>1, <1>2, SeenOfOne

(* The queue does what ReceiptPromise says, whatever the number of         *)
(* receipts, workers, slots and submitters and however often workers       *)
(* crash, leases expire and commits are refused: claims, leases, retries   *)
(* and version conflicts never show in a receipt's verdict.                *)
THEOREM QueueKeepsPromise == Spec => PromiseKept
<1>1. Init => Promise!Init
  BY DEF Init, Promise!Init, Jobs, Uploaded
<1>2. LedgerInvariant /\ [Next]_vars => [Promise!Next]_(Promise!promiseVars)
  BY QueueSteps DEF Promise!Next, Promise!promiseVars, Flagged, Seen
<1>3. QED
  BY <1>1, <1>2, LedgerAlways, PTL DEF Spec, PromiseKept, Promise!SafeSpec
=============================================================================
