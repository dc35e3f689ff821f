-------------------------------- MODULE MCTimer -----------------------------
(***************************************************************************)
(* A small instance of Timer for TLC: three requests, two distinct       *)
(* timeouts so that event_add moves nodes between groups, and a clock    *)
(* that runs far enough for nodes of both groups to expire behind one    *)
(* another.                                                                *)
(***************************************************************************)
EXTENDS Timer, TLC

CONSTANTS r1, r2, r3

ReqSymmetry == Permutations(Req)
=============================================================================
