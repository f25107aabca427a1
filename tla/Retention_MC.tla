---------------------------- MODULE Retention_MC ----------------------------
(* Small instances of Retention: requests at different times. *)
EXTENDS Retention, TLC

CONSTANTS r1, r2, r3
MCTime == r1 :> 0 @@ r2 :> 1 @@ r3 :> 2
MCSymmetry == Permutations(Jobs)
=============================================================================
