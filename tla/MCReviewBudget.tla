---------------------------- MODULE MCReviewBudget ----------------------------
(* The review budget for TLC. *)
EXTENDS ReviewBudget
=============================================================================
