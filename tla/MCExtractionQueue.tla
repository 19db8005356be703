-------------------------- MODULE MCExtractionQueue --------------------------
(***************************************************************************)
(* Instances of ExtractionQueue for TLC.                                   *)
(***************************************************************************)
EXTENDS ExtractionQueueProperties, TLC

(* One slot on each worker, which goes by its worker's name; all slots on  *)
(* one worker; or one slot on one of two workers and the others on the     *)
(* other, which may then claim again a job it lost.                        *)
OneSlotEach == [s \in Slots |-> s]
OneWorker == [s \in Slots |-> CHOOSE w \in Workers : TRUE]
OneAndTheOthers ==
    LET alone == CHOOSE s \in Slots : TRUE
        host == CHOOSE w \in Workers : TRUE
        other == CHOOSE w \in Workers \ {host} : TRUE
    IN  [s \in Slots |-> IF s = alone THEN host ELSE other]

(* Workers and submitters are interchangeable where a slot is its worker.  *)
DuplicateSymmetry == Permutations(Workers) \cup Permutations(Submitters)

(* A flawless receipt, one with a future date and one that cannot be used. *)
Flawless == [EmptyData EXCEPT !.shopName = "cafe", !.date = 10, !.totalAmount = 5,
                              !.lineItems = <<2, 3>>]
Flawed == [Flawless EXCEPT !.date = Today + 1]
Samples == {Flawless, Flawed, EmptyData}
OneSample == {Flawless}

(* Two instances in one: two receipts that nobody duplicates and one       *)
(* fault, or one receipt with duplicates and MaxFaults faults.             *)
TwoAlone ==
    /\ \A r \in Receipts : jobs'[r] # None => ~jobs'[r].duplicateDetected
    /\ \A u \in Submitters : tx'[u] = None
    /\ faults' <= 1

EitherInstance == Cardinality({r \in Receipts : jobs'[r] # None}) = 2 => TwoAlone

OneSettled ==
    /\ \E r \in Jobs : Jobs = {r} /\ IsFinished(jobs[r])
    /\ UNCHANGED vars

LiveSpec == Init /\ [][(Next /\ EitherInstance) \/ OneSettled]_vars /\ Fairness
=============================================================================
