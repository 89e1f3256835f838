------------------------------ MODULE MCClasses ------------------------------
(* A small instance of Classes for TLC. *)
EXTENDS Classes, TLC

MCSymmetry == Permutations(Proc) \cup Permutations(Class)
=============================================================================
