----------------------- MODULE ReceiptReviewProperties -----------------------
(***************************************************************************)
(* What the correction and the decision of a receipt must guarantee.       *)
(***************************************************************************)
EXTENDS ReceiptReview

Owner == receipt.ownerEmployeeId

IsByPerson(event) ==
    event.action \in {"FIELDS_CORRECTED", "REVIEW_APPROVED", "REVIEW_REJECTED"}

IsLastByPerson(i) ==
    /\ IsByPerson(trail[i])
    /\ \A j \in 1..Len(trail) : j > i => ~IsByPerson(trail[j])
-----------------------------------------------------------------------------
(* The audit trail is a gapless history of the status: each event starts   *)
(* from the status the one before it left, the last one left the current.  *)
(* Events without a status (an upload, a deferred duplicate) leave it.     *)
TrailIsChain ==
    /\ \A i \in 1..Len(trail) - 1 : trail[i].next = trail[i + 1].previous
    /\ trail[Len(trail)].next = receipt.status

(* What was approved is fit to be paid: by a reviewer or by the rules, the *)
(* stored data has a shop, a date and a positive amount, also when it was  *)
(* corrected or reported as a duplicate while the decision was under way.  *)
ApprovedIsComplete ==
    receipt.status \in {"APPROVED", "AUTO_APPROVED"} =>
        /\ receipt.currentData # None
        /\ receipt.currentData.shopName # None
        /\ receipt.currentData.date # None
        /\ receipt.currentData.totalAmount # None
        /\ receipt.currentData.totalAmount > 0

(* The stored rule results are the rules applied to the stored data, with  *)
(* or without the duplicate, and a status that still waits for a person or *)
(* passed automatically agrees with them: no interleaving of corrections,  *)
(* decisions and duplicates pairs the data of one with the rules of        *)
(* another.                                                                *)
RulesMatchData ==
    receipt.ruleResults # {} =>
        /\ \E duplicate \in BOOLEAN :
              receipt.ruleResults = Validate(receipt.currentData, duplicate)
        /\ receipt.status = "AUTO_APPROVED" => ~AnyFailed(receipt.ruleResults)
        /\ receipt.status = "MANUAL_ENTRY" <=>
              Unusable(receipt.currentData) /\ ~IsTerminal(receipt.status)

(* Four eyes: once a person has changed a receipt, it is approved only by  *)
(* the last such change being made by a reviewer who is not its owner.     *)
FourEyes ==
    receipt.status \in {"APPROVED", "AUTO_APPROVED"} =>
        \A i \in 1..Len(trail) : IsLastByPerson(i) =>
            trail[i].actor # Owner /\ RoleOf[trail[i].actor] # "EMPLOYEE"

(* A decision is made on exactly what the decider had on the screen: data, *)
(* rule results and status are unchanged when the decision is committed.   *)
DecidedAsSeen ==
    [][ receipt'.status # receipt.status /\ IsTerminal(receipt'.status) =>
          \E e \in Employees :
              /\ changes[e] # None
              /\ changes'[e] = None
              /\ changes[e].seen = receipt ]_vars

(* A final decision stands: whatever transactions were open when it was    *)
(* committed, the status and the data decided on never change again.       *)
DecisionIsFinal ==
    [][ IsTerminal(receipt.status) =>
          /\ receipt'.status = receipt.status
          /\ receipt'.currentData = receipt.currentData ]_vars

(* Nobody's correction is lost: a correction starts from the data the      *)
(* previous one left, so that the data only ever changes field by field.   *)
(* Every change of the data is an audited correction by one person.        *)
ChangesAreAudited ==
    [][ receipt.status # None /\ receipt'.currentData # receipt.currentData =>
          LET event == trail'[Len(trail')]
          IN  /\ trail' # trail
              /\ event.action = "FIELDS_CORRECTED"
              /\ changes[event.actor] # None
              /\ changes[event.actor].seen.currentData = receipt.currentData ]_vars
-----------------------------------------------------------------------------
(* "The job's duplicateDetected is the single criterion of duplicate       *)
(* handling", and the check of a duplicate reported before the extraction  *)
(* is only deferred: a receipt flagged as a duplicate is not approved      *)
(* without a decision.                                                     *)
FlaggedNeverAutoApproved ==
    job.duplicateDetected => receipt.status # "AUTO_APPROVED"
=============================================================================
