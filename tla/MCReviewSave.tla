---------------------------- MODULE MCReviewSave ----------------------------
(* ReviewSave for TLC; its constants are numbers. *)
EXTENDS ReviewSave
=============================================================================
