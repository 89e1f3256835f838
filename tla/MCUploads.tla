----------------------------- MODULE MCUploads -----------------------------
(* Small instances of Uploads for TLC. *)
EXTENDS Uploads, TLC

\* A classification in two spellings, and a body over the limit that is none.
MCBodies == {"laptop", "workstation", "huge"}
MCHuge == {"huge"}
MCClassOf == [b \in MCBodies |-> IF b = "huge" THEN None ELSE "workstation"]

OneBody == {"junk"}
NoHuge == {}
NoClass == [b \in OneBody |-> None]

MCSymmetry == Permutations(Req) \cup Permutations(Temp)
MCAuthSymmetry == MCSymmetry \cup Permutations(Token) \cup Permutations(Host)
=============================================================================
