------------------------------ MODULE HashSets ------------------------------
(***************************************************************************)
(* What the hash table of utils/hash.c promises its callers (server.c):   *)
(* it holds a set of nodes per key.  hash_add puts a node in, hash_del    *)
(* takes it out, and hash_get of a key answers one of that key's nodes,   *)
(* or NULL when it has none.  Store.tla uses exactly this view of a       *)
(* server's hash.                                                          *)
(***************************************************************************)
CONSTANTS Node, Key, NoNode

VARIABLES table,   \* [Key -> SUBSET Node]
          found    \* the node the last hash_get answered

Held == UNION {table[k] : k \in Key}

Init == table = [k \in Key |-> {}] /\ found = NoNode

Add(n, k) == n \notin Held /\ table' = [table EXCEPT ![k] = @ \cup {n}] /\ UNCHANGED found

Del(n) == n \in Held /\ table' = [k \in Key |-> table[k] \ {n}] /\ UNCHANGED found

Get(k) == found' \in (IF table[k] = {} THEN {NoNode} ELSE table[k]) /\ UNCHANGED table

Next == \E n \in Node, k \in Key : Add(n, k) \/ Del(n) \/ Get(k)

Spec == Init /\ [][Next]_<<table, found>>
=============================================================================
