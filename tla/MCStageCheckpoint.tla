--------------------------- MODULE MCStageCheckpoint ---------------------------
(* StageCheckpoint for TLC. *)
EXTENDS StageCheckpoint
=============================================================================
