------------------------- MODULE MCReviewIndexAblation -------------------------
(***************************************************************************)
(* The three review experiments for TLC: one small database, the two       *)
(* scenarios once each, two pages.                                         *)
(***************************************************************************)
EXTENDS ReviewIndexAblation

OneCount == <<10>>

TwoPages == <<<<"all", 0>>, <<"status_period", 0>>>>
=============================================================================
