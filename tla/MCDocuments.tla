---------------------------- MODULE MCDocuments ----------------------------
(* Constant values for model checking Documents. *)
EXTENDS Documents, TLC

CONSTANTS v1, v2, e1, e2

DocumentSymmetry == Permutations(Version) \cup Permutations(Deletion)
=============================================================================
