-------------------------------- MODULE MCHash ------------------------------
(***************************************************************************)
(* A small instance of Hash for TLC: buckets from 2 to 4 and an          *)
(* expansion as soon as there is one node per bucket, so that adds,     *)
(* deletes and gets meet the table before, during and after a split.    *)
(* The folded ids are 0, 1 and 3: k2 and k3 share a bucket at 2 buckets  *)
(* and part at 4, where the split must move k3 to the new bucket 3.      *)
(***************************************************************************)
EXTENDS Hash, TLC

CONSTANTS n1, n2, n3, k1, k2, k3

MCFold == [k \in Key |-> CASE k = k1 -> 0 [] k = k2 -> 1 [] k = k3 -> 3]
=============================================================================
