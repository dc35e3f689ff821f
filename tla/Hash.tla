--------------------------------- MODULE Hash -------------------------------
(***************************************************************************)
(* The linear dynamic hashing of utils/hash.c.  Nodes hang on hlist      *)
(* chains (head insertion).  When items / bucket_size reaches            *)
(* HASH_COLLISIONS the bucket array is doubled, and from then on every   *)
(* hash_add and hash_get first moves one bucket of the previous array    *)
(* (the split pointer) into the new one; until the last is moved,        *)
(* hash_get looks in the new array and then in the previous one.         *)
(*                                                                         *)
(* A node's id is the MD5 of its key; hash_index folds it to              *)
(* (low 64 bits XOR high 64 bits) & (bucket_size - 1).  Fold[k] stands    *)
(* for the folded id, so keys whose ids collide in the low bits share    *)
(* buckets.                                                                *)
(***************************************************************************)
EXTENDS Integers, Sequences, SequencesExt, FiniteSets, Bitwise

CONSTANTS
  Node, NoNode,              \* hash nodes (ohc_item_t, ohc_passby_item_t), NULL
  Key,                       \* the keys whose MD5 ids are hashed
  Fold,                      \* [Key -> Nat]: *p ^ *(p+1) of the key's id
  HASH_BUCKET_SIZE_BEGIN,    \* 1 << 4 in the code
  HASH_BUCKET_SIZE_MAX,      \* 1 << 28 in the code
  HASH_COLLISIONS            \* 10 in the code

VARIABLES
  buckets,  \* hash->buckets: [0 .. bucket_size-1 -> Seq(Node)]
  prev,     \* hash->prev_buckets, NoBuckets when NULL
  size,     \* hash->bucket_size
  split,    \* hash->split
  items,    \* hash->items
  id,       \* [Node -> Key]: hnode->id, set by hash_add
  found     \* what the last hash_get returned

vars == <<buckets, prev, size, split, items, id, found>>

NoBuckets == <<>>

\* hash_index
HashIndex(k, sz) == Fold[k] & (sz - 1)

\* Every chain of both arrays, and the nodes on them.
Chains(H) == {H.buckets[i] : i \in DOMAIN H.buckets} \cup {H.prev[j] : j \in DOMAIN H.prev}
Chained(H) == UNION {Range(c) : c \in Chains(H)}

State == [buckets |-> buckets, prev |-> prev, size |-> size, split |-> split,
          items |-> items]

Commit(H) == buckets' = H.buckets /\ prev' = H.prev /\ size' = H.size
             /\ split' = H.split /\ items' = H.items

\* Mutation variant: moved nodes are indexed with the old bucket_size.
MoveChainOldSize(B, chain, sz, ids) ==
  FoldLeft(LAMBDA b, n : [b EXCEPT ![HashIndex(ids[n], sz \div 2)] = <<n>> \o @], B, chain)

(* hlist_add_head of every node of the chain, in chain order, on the     *)
(* bucket its id picks in the new array.                                   *)
MoveChain(B, chain, sz, ids) ==
  FoldLeft(LAMBDA b, n : [b EXCEPT ![HashIndex(ids[n], sz)] = <<n>> \o @], B, chain)

(* hash_expansion.  ok: calloc of the doubled array succeeds.            *)
(* The split of one previous bucket, and the end of the expansion once   *)
(* the split pointer reaches the old size.                                 *)
SplitBucket(H, ids) ==
  IF H.prev = NoBuckets THEN H
  ELSE LET H1 == [H EXCEPT !.buckets = MoveChain(@, H.prev[H.split], H.size, ids),
                           !.prev[H.split] = <<>>, !.split = @ + 1]
       IN IF H1.split = H.size \div 2 THEN [H1 EXCEPT !.prev = NoBuckets] ELSE H1

Expansion(H, ids, ok) ==
  IF /\ H.items \div H.size >= HASH_COLLISIONS
     /\ H.prev = NoBuckets
     /\ H.size < HASH_BUCKET_SIZE_MAX
  THEN IF ~ok THEN H
       ELSE SplitBucket([H EXCEPT !.size = 2 * @, !.prev = H.buckets,
                                  !.buckets = [i \in 0 .. 2 * H.size - 1 |-> <<>>],
                                  !.split = 0], ids)
  ELSE SplitBucket(H, ids)

\* hash_add: n goes to the head of the chain its id picks, then a step of expansion.
HashAdd(H, n, ids, ok) ==
  Expansion([H EXCEPT !.buckets[HashIndex(ids[n], H.size)] = <<n>> \o @,
                      !.items = @ + 1], ids, ok)

\* hash_search: the first node of the chain with the id of k.
HashSearch(chain, k, ids) ==
  LET hits == SelectSeq(chain, LAMBDA n : ids[n] = k)
  IN IF hits = <<>> THEN NoNode ELSE Head(hits)

\* Mutation variant: a split in progress is not looked at.
GetInNewOnly(H, k, ids) == HashSearch(H.buckets[HashIndex(k, H.size)], k, ids)

(* hash_get after its step of expansion: the new array, then the bucket  *)
(* of the previous array the index folds down to.                         *)
GetIn(H, k, ids) ==
  LET index == HashIndex(k, H.size)
      pbsize == H.size \div 2
      r == HashSearch(H.buckets[index], k, ids)
  IN IF r # NoNode THEN r
     ELSE IF H.prev # NoBuckets
          THEN HashSearch(H.prev[IF index >= pbsize THEN index - pbsize ELSE index], k, ids)
     ELSE NoNode

\* Mutation variant: hash->items is not decremented.
HashDelNoCount(H, n) ==
  [H EXCEPT !.buckets = [i \in DOMAIN @ |-> Remove(@[i], n)],
            !.prev = [j \in DOMAIN @ |-> Remove(@[j], n)]]

\* hash_del: hlist_del unlinks n from whichever chain holds it.
HashDel(H, n) ==
  [H EXCEPT !.buckets = [i \in DOMAIN @ |-> Remove(@[i], n)],
            !.prev = [j \in DOMAIN @ |-> Remove(@[j], n)],
            !.items = @ - 1]

-----------------------------------------------------------------------------
(* hash_init, then the calls server.c makes.                               *)

Init ==
  /\ buckets = [i \in 0 .. HASH_BUCKET_SIZE_BEGIN - 1 |-> <<>>]
  /\ prev = NoBuckets /\ size = HASH_BUCKET_SIZE_BEGIN /\ split = 0 /\ items = 0
  /\ id = [n \in Node |-> CHOOSE k \in Key : TRUE]
  /\ found = NoNode

\* A node not in the table is added under key k (its id is set first).
Add(n, k, ok) ==
  /\ n \notin Chained(State)
  /\ id' = [id EXCEPT ![n] = k]
  /\ Commit(HashAdd(State, n, id', ok))
  /\ UNCHANGED found

Del(n) ==
  /\ n \in Chained(State)
  /\ Commit(HashDel(State, n))
  /\ UNCHANGED <<id, found>>

GetAfter(H, k) == Commit(H) /\ found' = GetIn(H, k, id) /\ UNCHANGED id

Get(k, ok) == GetAfter(Expansion(State, id, ok), k)

Next ==
  \/ \E n \in Node, k \in Key, ok \in BOOLEAN : Add(n, k, ok)
  \/ \E n \in Node : Del(n)
  \/ \E k \in Key, ok \in BOOLEAN : Get(k, ok)

Spec == Init /\ [][Next]_vars

-----------------------------------------------------------------------------
(* Properties                                                              *)

TypeOK ==
  /\ \E e \in 0 .. size : size = HASH_BUCKET_SIZE_BEGIN * 2^e
  /\ size <= HASH_BUCKET_SIZE_MAX
  /\ buckets \in [0 .. size - 1 -> Seq(Node)]
  /\ prev = NoBuckets \/ prev \in [0 .. size \div 2 - 1 -> Seq(Node)]
  /\ split \in 0 .. size \div 2 /\ items \in 0 .. Cardinality(Node)
  /\ id \in [Node -> Key] /\ found \in Node \cup {NoNode}

(* The linear-hashing invariant that hash_get's two-array search relies  *)
(* on: a node of the new array sits in the bucket its id picks at the    *)
(* new size; while a split is on, the previous buckets below the split   *)
(* pointer are empty and a node in previous bucket j is one whose id     *)
(* picks j at the old size; no node is on two chains or twice on one;    *)
(* and hash->items counts the nodes.                                       *)
LinearHashing ==
  /\ \A i \in DOMAIN buckets : \A x \in 1 .. Len(buckets[i]) :
        HashIndex(id[buckets[i][x]], size) = i
  /\ prev # NoBuckets =>
        \A j \in DOMAIN prev :
           /\ j < split => prev[j] = <<>>
           /\ \A x \in 1 .. Len(prev[j]) : HashIndex(id[prev[j][x]], size \div 2) = j
  /\ items = Cardinality(Chained(State))
  /\ items = MapThenSumSet(LAMBDA i : Len(buckets[i]), DOMAIN buckets)
              + (IF prev = NoBuckets THEN 0 ELSE MapThenSumSet(LAMBDA j : Len(prev[j]), DOMAIN prev))

(* The table implements HashSets: the nodes chained under a key are that *)
(* key's set, and every hash_get answers a node of the key when it has   *)
(* one and NULL when it has none, through every expansion and split.     *)
Abstract == INSTANCE HashSets
              WITH table <- [k \in Key |-> {n \in Chained(State) : id[n] = k}]
HashSetsSpec == Abstract!Spec
=============================================================================
