---------------------------- MODULE MCExclusion ----------------------------
(* Small instances of Exclusion for TLC. *)
EXTENDS Exclusion, TLC
=============================================================================
