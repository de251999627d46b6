------------------------ MODULE MCClassificationRun -------------------------
(* A small instance of ClassificationRun for TLC.                             *)
EXTENDS ClassificationRun
=============================================================================
