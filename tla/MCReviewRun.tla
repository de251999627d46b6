---------------------------- MODULE MCReviewRun -----------------------------
(* A small instance of ReviewRun for TLC.                                     *)
EXTENDS ReviewRun, TLC

CONSTANTS w1, w2
=============================================================================
