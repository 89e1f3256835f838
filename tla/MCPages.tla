------------------------------- MODULE MCPages -------------------------------
(* Small instances of Pages for TLC. *)
EXTENDS Pages, TLC

MCSymmetry == Permutations(Req)
=============================================================================
