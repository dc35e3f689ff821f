------------------------------ MODULE MCServerConf ------------------------------
(***************************************************************************)
(* A small instance of ServerConf for TLC.  MCServerConf.cfg: two ports  *)
(* and two log paths, files of up to two servers, four reloads, and six  *)
(* descriptors, so that a reload can also run out of them.               *)
(* MCServerConfOverflow.cfg: six ports, files of three servers, a table  *)
(* of five slots.                                                         *)
(***************************************************************************)
EXTENDS ServerConf, TLC

CONSTANTS p1, p2, p3, p4, p5, p6, l1, l2

Symmetry == Permutations(Port) \cup Permutations(Log)
=============================================================================
