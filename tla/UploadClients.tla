---------------------------- MODULE UploadClients ----------------------------
(***************************************************************************)
(* UploadIntake with clients that send any image under any key, at most    *)
(* MaxSends times, and remember every answer they were given.              *)
(***************************************************************************)
EXTENDS UploadIntake

CONSTANT MaxSends  \* bound on the requests sent

VARIABLES sends,   \* requests sent so far
          bound,   \* the receipts of a call's key when the call was sent
          answers  \* the calls that were answered, with that knowledge

vars == <<intakeVars, sends, bound, answers>>

Init ==
    /\ IntakeInit
    /\ sends = 0
    /\ bound = [c \in Clients |-> {}]
    /\ answers = {}

Submit(c) ==
    /\ calls[c] = None
    /\ sends < MaxSends
    /\ \E owner \in Owners, key \in Keys \cup {None}, image \in Images :
          /\ Send(c, owner, key, image)
          /\ bound' = [bound EXCEPT ![c] = {row.receipt : row \in {k \in keys : k.key = key}}]
    /\ sends' = sends + 1
    /\ UNCHANGED <<rows, objects, holder, extraction, faults, answers>>

TakeAnswer(c) ==
    /\ At(c, "answered")
    /\ answers' = answers \cup {[call |-> calls[c], bound |-> bound[c]]}
    /\ calls' = [calls EXCEPT ![c] = None]
    /\ bound' = [bound EXCEPT ![c] = {}]
    /\ UNCHANGED <<rows, objects, holder, extraction, faults, sends>>

(* Nothing was sent that is not answered, and nothing more will be.        *)
Rest ==
    /\ sends = MaxSends
    /\ \A c \in Clients : calls[c] = None
    /\ UNCHANGED vars

Next ==
    \/ \E c \in Clients : Submit(c) \/ TakeAnswer(c)
    \/ /\ \/ \E c \in Clients : CallStep(c) \/ LockWaitOver(c) \/ MarkConflict(c)
          \/ \E t \in completing : CompleteConflict(t)
          \/ LockStep \/ ExtractionStep \/ FaultStep
       /\ UNCHANGED <<sends, bound, answers>>
    \/ Rest

Spec == Init /\ [][Next]_vars
-----------------------------------------------------------------------------
Accepted(a) == a.call.answer.status \in {200, 202}

(* However the look-ups, the lock and the unique constraints interleave,   *)
(* with a lock that lapses or a server that dies in between, an image has  *)
(* one receipt and the receipt's image can be read from S3: the put comes  *)
(* before the rows and is not undone by whoever loses the race.            *)
OneStoredReceiptPerImage ==
    /\ \A i, j \in Ids : images[i] = images[j] => i = j
    /\ \A i \in Ids : images[i] \in objects

(* An accepted upload is answered with a receipt of the sender, on every   *)
(* path (look-up, lock, constraint): the one created for the key when it   *)
(* is called a replay, otherwise the one of the image that was sent.       *)
AnswersTheSender ==
    \A a \in answers : Accepted(a) =>
        LET answer == a.call.answer
        IN  /\ receipts[answer.receipt].ownerEmployeeId = a.call.owner
            /\ IF answer.replay THEN [key |-> a.call.key, receipt |-> answer.receipt] \in keys
                                ELSE images[answer.receipt] = a.call.image

(* A key that had created a receipt when a request was sent answers that   *)
(* receipt or nothing, whichever image the request brings; and whatever    *)
(* the order of requests no key ever creates two receipts.                 *)
CreatedKeyIsBound ==
    /\ \A a \in answers : Accepted(a) /\ a.bound # {} => a.call.answer.receipt \in a.bound
    /\ \A j, k \in keys : j.key = k.key => j = k
=============================================================================
