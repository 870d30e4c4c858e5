--------------------------- MODULE MCUploadQueue ---------------------------
(***************************************************************************)
(* UploadQueue for TLC.  Jobs and workers are interchangeable (no operator *)
(* picks one of either), so that runs without liveness use the symmetry.   *)
(***************************************************************************)
EXTENDS UploadQueue, TLC

Symmetry == Permutations(Jobs) \cup Permutations(Workers)

=============================================================================
