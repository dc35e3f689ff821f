------------------------------- MODULE MCStore ------------------------------
(***************************************************************************)
(* A small instance of Store for TLC: two devices of three and two        *)
(* 512-byte blocks, one server on the shared LRU (capacity 0) and one     *)
(* with its own LRU, two keys, two client connections.                    *)
(***************************************************************************)
EXTENDS Store, TLC

CONSTANTS d1, d2, s1, s2, k1, k2, r1, r2

MCDevCapacity == [d \in Dev |-> IF d = d1 THEN 1536 ELSE 1024]
MCSrvCapacity == [s \in Srv |-> IF s = s1 THEN 0 ELSE 1024]

Symmetry == Permutations(Key) \cup Permutations(Req)
=============================================================================
