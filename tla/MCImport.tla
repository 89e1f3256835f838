------------------------------ MODULE MCImport ------------------------------
(* Small instances of Import for TLC. *)
EXTENDS Import, TLC

MCSymmetry == Permutations(Importer)
=============================================================================
