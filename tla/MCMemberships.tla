--------------------------- MODULE MCMemberships ---------------------------
(* Constant values for model checking Memberships. *)
EXTENDS Memberships, TLC

CONSTANTS o1, o2, t1, t2, x1, x2

\* the owner changes once, the other user three times
FewChanges == (o1 :> 2) @@ (o2 :> 3)
=============================================================================
