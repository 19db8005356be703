--------------------------- MODULE MCReceiptReview ---------------------------
(***************************************************************************)
(* Instances of ReceiptReview for TLC.                                     *)
(***************************************************************************)
EXTENDS ReceiptReviewProperties, TLC

CONSTANTS emp, rev, adm

Staff == [e \in Employees |-> CASE e = emp -> "EMPLOYEE"
                                [] e = rev -> "REVIEWER"
                                [] OTHER   -> "ADMIN"]

Flawless == [EmptyData EXCEPT !.shopName = "cafe", !.date = 10, !.totalAmount = 5]
Flawed == [Flawless EXCEPT !.date = Today + 1]
Samples == {Flawless, Flawed, EmptyData}

(* A correction that makes the receipt flawless and one that spoils it.    *)
Untouched == [f \in Fields |-> None]
FillIn == [values |-> [Untouched EXCEPT !.shopName = "cafe", !.date = 9,
                                        !.totalAmount = 7],
           clearFields |-> {}]
Spoil == [values |-> [Untouched EXCEPT !.shopName = "cafe", !.totalAmount = 0],
          clearFields |-> {"shopName"}]
Patches == {FillIn, Spoil}
=============================================================================
