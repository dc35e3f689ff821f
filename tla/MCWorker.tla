-------------------------------- MODULE MCWorker ----------------------------
(***************************************************************************)
(* A small instance of Worker for TLC: two workers at start and one more  *)
(* a reload may create, two requests, and pipes of one pointer, so that   *)
(* a dispatch meets a full pipe, a return is blocked and retried, and a   *)
(* deleted worker still holds requests in every place it can.             *)
(***************************************************************************)
EXTENDS Worker

CONSTANTS r1, r2, w1, w2, w3
=============================================================================
