------------------------------- MODULE MCFormat -----------------------------
(***************************************************************************)
(* A small instance of Format for TLC: one device of three 512-byte      *)
(* sectors, one server, two keys, one client connection.  The dump's     *)
(* metadata is scaled down to fit the first sector (in the code it spans *)
(* the first 17 sectors: 8224 bytes of superblock and ports, then 40     *)
(* bytes per record), so an item at offset 0 is always overwritten by a  *)
(* dump and one at 512 never is.                                          *)
(***************************************************************************)
EXTENDS Format, TLC

CONSTANTS d1, s1, k1, k2, r1

MCDevCapacity == [d \in Dev |-> 1536]
MCSrvCapacity == [s \in Srv |-> 1024]

Symmetry == Permutations(Key)
=============================================================================
