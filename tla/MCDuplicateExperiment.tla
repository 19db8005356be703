------------------------ MODULE MCDuplicateExperiment ------------------------
(***************************************************************************)
(* Instances of DuplicateExperiment for TLC.                               *)
(***************************************************************************)
EXTENDS DuplicateExperiment

(* What FakeReceiptExtractor answers.                                      *)
Flawless == [EmptyData EXCEPT !.shopName = "cafe", !.date = 10, !.totalAmount = 5]

OneOwner == {"different-key", "no-key"}

AllModes == {"same-key", "different-key", "no-key", "cross-owner"}
=============================================================================
