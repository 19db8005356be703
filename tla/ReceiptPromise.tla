--------------------------- MODULE ReceiptPromise ---------------------------
(***************************************************************************)
(* What the asynchronous extraction promises a submitter, with no worker,  *)
(* queue, lease, retry or version in sight: an accepted receipt is given   *)
(* one business status, once; a receipt known to be a duplicate is never   *)
(* approved automatically; a duplicate found after the status was given    *)
(* sends the receipt to a person.  ExtractionQueue implements this module. *)
(***************************************************************************)
CONSTANTS Receipts,   \* the receipts that may be submitted
          Undecided   \* the status of a receipt that has none yet

VARIABLES accepted,   \* receipts the service has answered for with 202
          flagged,    \* receipts of which a duplicate submission is known
          verdict     \* the business status, Undecided until there is one

promiseVars == <<accepted, flagged, verdict>>

Given == {"AUTO_APPROVED", "NEEDS_REVIEW", "NEEDS_RECAPTURE", "UNREADABLE",
          "MANUAL_ENTRY"}

ForAPerson == {"NEEDS_REVIEW", "MANUAL_ENTRY"}

Init ==
    /\ accepted = {}
    /\ flagged = {}
    /\ verdict = [r \in Receipts |-> Undecided]

Accept(r) ==
    /\ r \notin accepted
    /\ accepted' = accepted \cup {r}
    /\ UNCHANGED <<flagged, verdict>>

Decide(r) ==
    /\ r \in accepted
    /\ verdict[r] = Undecided
    /\ \E v \in Given :
          /\ v = "AUTO_APPROVED" => r \notin flagged
          /\ verdict' = [verdict EXCEPT ![r] = v]
    /\ UNCHANGED <<accepted, flagged>>

Flag(r) ==
    /\ r \in accepted \ flagged
    /\ flagged' = flagged \cup {r}
    /\ IF verdict[r] = Undecided
       THEN UNCHANGED verdict
       ELSE \E v \in ForAPerson : verdict' = [verdict EXCEPT ![r] = v]
    /\ UNCHANGED accepted

Next == \E r \in Receipts : Accept(r) \/ Decide(r) \/ Flag(r)

SafeSpec == Init /\ [][Next]_promiseVars

Spec == SafeSpec /\ \A r \in Receipts : WF_promiseVars(Decide(r))
=============================================================================
