------------------------- MODULE DuplicateExperiment -------------------------
(***************************************************************************)
(* load/run-duplicates.py with load/k6/duplicates.js against UploadIntake: *)
(* one case of the experiment.  Every virtual user sends the same image    *)
(* once (phase initial); the runner polls the tables until the job is      *)
(* finished, has the image sent again (phase after-completion) and         *)
(* compares answers and tables with what the mode of the case leads it to  *)
(* expect.  Cases use images of their own and follow each other, so one is *)
(* enough.  Nothing is restarted and no call fails: MaxFaults plays no     *)
(* part here.                                                              *)
(***************************************************************************)
EXTENDS UploadIntake

CONSTANTS Modes, \* the modes to try
          Sizes  \* numbers of virtual users to choose from

(* None is null, no number, and a case has an image; the fake extractor's  *)
(* receipt passes every rule.                                              *)
ASSUME ClientsAreNumbers == Clients \subseteq Nat \ {0} /\ None \notin Clients
ASSUME ImagesAssumption == Images # {}
ASSUME CleanAssumption == Approvable(FakeData)
ASSUME SizesAssumption ==
    \A n \in Sizes : n \in Nat /\ n >= 2 /\ (n % 2) = 0 /\ 1..n \subseteq Clients
ASSUME EmployeesAssumption == IsFiniteSet(Owners) /\ Cardinality(Owners) >= 2

VARIABLES case,      \* mode and number of virtual users
          phase,     \* what the runner is doing
          responses, \* the answers a phase has recorded, by virtual user
          before,    \* the tables before the second phase
          errors,    \* the errors verify_case found
          races      \* the races the service lost meanwhile (history)

runner == <<case, phase, responses, before, errors, races>>
vars == <<intakeVars, runner>>
-----------------------------------------------------------------------------
Phases == {"initial", "after-completion"}

Image == CHOOSE m \in Images : TRUE

Users == 1..case.vus

(* The first employee's session, or the first two employees' in turn.      *)
EmployeeOf(vu) == LET user == SetToSeq(Owners)
                  IN  user[IF case.mode = "cross-owner" THEN 1 + ((vu - 1) % 2) ELSE 1]

KeyOf(vu) == CASE case.mode = "no-key"   -> None
               [] case.mode = "same-key" -> 1
               [] OTHER                  -> vu

Tables == [images |-> images, receipts |-> receipts, jobs |-> jobs, audit |-> audit,
           keys |-> keys]

(* The cases of main with any of the sizes; cross-owner is tried with the  *)
(* largest of them only.                                                   *)
Init ==
    /\ IntakeInit
    /\ \E sizes \in SUBSET Sizes \ {{}} :
          case \in {c \in [mode : Modes, vus : sizes] :
                      c.mode = "cross-owner" => c.vus = Max(sizes)}
    /\ phase = "planned"
    /\ responses = [p \in Phases |-> <<>>]
    /\ before = None
    /\ errors = {}
    /\ races = {}

(* The start barrier releases all virtual users at once.                   *)
StartPhase(from, to) ==
    /\ phase = from
    /\ phase' = to
    /\ calls' = [c \in Clients |->
                    IF c \in Users
                    THEN [owner |-> EmployeeOf(c), key |-> KeyOf(c), image |-> Image,
                          at |-> "received", snapshot |-> None, answer |-> None]
                    ELSE None]
    /\ UNCHANGED <<rows, objects, holder, extraction, faults, case, responses, errors, races>>

StartInitial == StartPhase("planned", "initial") /\ UNCHANGED before

EndPhase(p, next) ==
    /\ phase = p
    /\ \A c \in Users : At(c, "answered")
    /\ responses' = [responses EXCEPT ![p] = [c \in Users |-> calls[c].answer]]
    /\ calls' = [c \in Clients |-> None]
    /\ phase' = next
    /\ UNCHANGED <<rows, objects, holder, extraction, faults, case, before, errors, races>>

Finished == Ids # {} /\ \A i \in Ids : IsFinished(jobs[i])

(* The poll finds every job finished: its snapshot is kept and the image   *)
(* is sent again.                                                          *)
SeeFinished ==
    /\ Finished
    /\ before' = Tables
    /\ StartPhase("waiting", "after-completion")

(* Forty seconds are over: the experiment ends with an exception.          *)
DeadlinePasses ==
    /\ phase = "waiting"
    /\ ~Finished
    /\ phase' = "aborted"
    /\ UNCHANGED <<intakeVars, case, responses, before, errors, races>>
-----------------------------------------------------------------------------
Accepted(sample) == sample.status \in {200, 202}

(* The k6 thresholds: what duplicates.js takes for a valid answer.         *)
ThresholdsMet(p) ==
    \A vu \in Users :
        LET status == responses[p][vu].status
        IN  \/ status = 200 \/ (status = 202 /\ p = "initial")
            \/ status = 409 /\ case.mode = "cross-owner"

(* Mutant of ResponseErrors: only accepted uploads are looked at.          *)
ResponseErrorsOfAccepted(p) ==
    LET accepted == {vu \in Users : responses[p][vu].status \in {200, 202}}
    IN  {e \in {"created", "owner"} :
           CASE e = "created" -> p = "initial" /\ accepted = {}
             [] e = "owner"   -> \E vu \in accepted : responses[p][vu].receipt # 1}

(* check_responses: errors of one phase against the tables in `before`.    *)
ResponseErrors(p) ==
    LET samples == responses[p]
        receipt == before.receipts[1]
        saved == {row.key : row \in before.keys}
        created == {vu \in Users : samples[vu].status = 202}
        foreign == {vu \in Users : EmployeeOf(vu) # receipt.ownerEmployeeId}
    IN  {e \in {"thresholds", "created", "foreign", "owner", "replay"} :
           CASE e = "thresholds" -> ~ThresholdsMet(p)
             [] e = "created" -> Cardinality(created) # (IF p = "initial" THEN 1 ELSE 0)
             [] e = "foreign" -> \E vu \in foreign :
                                    samples[vu].status # 409 \/ samples[vu].receipt # None
             [] e = "owner"   -> \E vu \in Users \ foreign :
                                    ~Accepted(samples[vu]) \/ samples[vu].receipt # 1
             [] e = "replay"  -> \E vu \in Users \ foreign :
                                    /\ samples[vu].status = 200
                                    /\ samples[vu].replay # (KeyOf(vu) \in saved)}

(* Mutant of ExpectDuplicate: the two employees' single uploads forgotten. *)
ExpectDuplicateUnlessReplayed == case.mode # "same-key"

ExpectDuplicate ==
    /\ case.mode # "same-key"
    /\ ~(case.mode = "cross-owner" /\ case.vus = 2)

(* The history a case should leave, in any order.                          *)
ExpectedAudit ==
    {"UPLOADED", "EXTRACTION_JOB_CLAIMED", "EXTRACTION_COMPLETED", "VALIDATION_COMPLETED"}
        \cup (IF ExpectDuplicate THEN {"DUPLICATE_DETECTED"} ELSE {})

(* get_detail: what the API shows an employee of the case's receipt.       *)
Detail(employee) ==
    IF employee = receipts[1].ownerEmployeeId
    THEN [status |-> 200, jobStatus |-> jobs[1].status,
          currentData |-> receipts[1].currentData, ruleResults |-> receipts[1].ruleResults]
    ELSE [status |-> 404, jobStatus |-> None, currentData |-> None, ruleResults |-> {}]

(* verify_case, with the tables read after the second phase.               *)
CaseErrors ==
    LET receipt == receipts[1]
        job     == jobs[1]
        detail  == Detail(receipt.ownerEmployeeId)
    IN  {e \in {"changed", "attempts", "flag", "status", "audit", "keys", "detail", "rule",
                "foreignDetail", "starts", "objects"} :
           CASE e = "changed"  -> before # Tables
             [] e = "attempts" -> job.status # "COMPLETED" \/ job.attemptCount # 1
             [] e = "flag"     -> job.duplicateDetected # ExpectDuplicate
             [] e = "status"   -> receipt.status #
                                     (IF ExpectDuplicate THEN "NEEDS_REVIEW" ELSE "AUTO_APPROVED")
             [] e = "audit"    -> \/ ToSet(audit[1]) # ExpectedAudit
                                  \/ Len(audit[1]) # Cardinality(ExpectedAudit)
             [] e = "keys"     -> Cardinality(keys) # (IF case.mode = "no-key" THEN 0 ELSE 1)
             [] e = "detail"   -> \/ detail.status # 200 \/ detail.jobStatus # "COMPLETED"
                                  \/ detail.currentData # FakeData
             [] e = "rule"     -> MarkedDuplicate(detail.ruleResults) # ExpectDuplicate
             [] e = "foreignDetail" ->
                    /\ case.mode = "cross-owner"
                    /\ \E o \in Owners \ {receipt.ownerEmployeeId} : Detail(o).status # 404
             [] e = "starts"   -> Cardinality({k \in DOMAIN audit[1] :
                                               audit[1][k] = "EXTRACTION_JOB_CLAIMED"}) # 1
             [] e = "objects"  -> objects # {Image}}

VerifyCase ==
    /\ phase = "verifying"
    /\ errors' = IF Len(before.receipts) = 1 /\ Len(receipts) = 1
                 THEN ResponseErrors("initial") \cup ResponseErrors("after-completion")
                         \cup CaseErrors
                 ELSE {"rows"}
    /\ phase' = "verified"
    /\ UNCHANGED <<intakeVars, case, responses, before, races>>

(* The exit code is 0: the case passed.                                    *)
Passed == phase = "verified" /\ errors = {}
-----------------------------------------------------------------------------
RunnerStep ==
    \/ StartInitial
    \/ EndPhase("initial", "waiting")
    \/ SeeFinished
    \/ DeadlinePasses
    \/ EndPhase("after-completion", "verifying")
    \/ VerifyCase

Lose(race) == races' = races \cup {race} /\ UNCHANGED <<case, phase, responses, before, errors>>

(* The service; a race it loses is noted.                                  *)
ServiceStep ==
    \/ ((\E c \in Clients : CallStep(c)) \/ LockStep \/ ExtractionStep) /\ UNCHANGED runner
    \/ (\E c \in Clients : LockWaitOver(c)) /\ Lose("lockWait")
    \/ (\E c \in Clients : MarkConflict(c)) /\ Lose("mark")
    \/ (\E t \in completing : CompleteConflict(t)) /\ Lose("result")

Over == phase \in {"verified", "aborted"} /\ UNCHANGED vars

Next == (phase \notin {"verified", "aborted"} /\ (RunnerStep \/ ServiceStep)) \/ Over

Spec == Init /\ [][Next]_vars
-----------------------------------------------------------------------------
(* Where the service loses no race the experiment raises no false alarm:   *)
(* whatever the interleaving of the uploads with each other and with the   *)
(* extraction, the verifier's expectations are what the service does.      *)
QuietCasePasses == phase = "verified" /\ races = {} => errors = {}

(* And no lost race is hidden by a verdict `passed`: neither a result of   *)
(* the extraction nor the commit of an upload was rolled back.             *)
PassedCaseLostNothing == Passed => races \subseteq {"lockWait"}

(* The README: a new upload is answered with 202 and the owner's resending *)
(* with 200.  An owner whose wait for the lock was not cut short is never  *)
(* refused.                                                                *)
OwnersAreAnswered ==
    "lockWait" \notin races =>
        \A c \in Clients : At(c, "answered") /\ (\E i \in ByImage(c) : Owned(c, i)) =>
            calls[c].answer.status \in {200, 202}
=============================================================================
