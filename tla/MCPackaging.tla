----------------------------- MODULE MCPackaging -----------------------------
(* Packaging for TLC. *)
EXTENDS Packaging
=============================================================================
