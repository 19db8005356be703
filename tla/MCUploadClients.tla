--------------------------- MODULE MCUploadClients ---------------------------
(***************************************************************************)
(* Instances of UploadClients for TLC.                                     *)
(***************************************************************************)
EXTENDS UploadClients

(* What FakeReceiptExtractor answers.                                      *)
Flawless == [EmptyData EXCEPT !.shopName = "cafe", !.date = 10, !.totalAmount = 5]

(* Images, employees and threads are interchangeable.                      *)
Symmetry == Permutations(Images) \cup Permutations(Owners) \cup Permutations(Clients)
=============================================================================
