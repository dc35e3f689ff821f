------------------------------- MODULE Store --------------------------------
(***************************************************************************)
(* Servers, items and the master thread's handlers, src/server.c, over    *)
(* the devices of Device.tla.                                              *)
(*                                                                         *)
(* An item lives in three structures at once: its server's hash (keyed by *)
(* the URL's fingerprint), an LRU list (its server's, or the shared one   *)
(* for servers of capacity 0) and the order list of its device.  Items    *)
(* being read (used > 0) or written (putting) are only marked deleted and *)
(* freed when the last request lets go (server_request_finalize).         *)
(*                                                                         *)
(* Every handler is one atomic step of the master thread.  A request      *)
(* slot r is a client connection: bound to a server by accept, holding an *)
(* item while a worker transfers it, and back to keep-alive after         *)
(* request_finalize.                                                       *)
(***************************************************************************)
EXTENDS Integers, Sequences, SequencesExt, FiniteSets, Device

CONSTANTS
  Srv, NoSrv,          \* servers (listen ports) and "no server"
  SharedLru,           \* the key of shared_lru_head in lru
  Key,                 \* URL fingerprints
  Req,                 \* client connections
  SrvCapacity,         \* [Srv -> bytes], 0 = items go to the shared LRU
  CapacityChoices,     \* capacities a reload may give a server
  DroppableSrv,        \* servers a reload may drop
  DroppableDev,        \* devices a reload may drop
  ItemMaxSize,         \* item_max_size (0 = no limit)
  Lengths,             \* item lengths a PUT may carry
  ExpireDefault,       \* expire_default, seconds
  ExpireForce,         \* expire_force, seconds (0 = off)
  ExpireInputs,        \* absolute expiry times a request header may give (0 = none)
  PassbyEnable, PassbyBeginItemNr, PassbyBeginConsumed, PassbyLimitNr, PassbyExpire,
  CLEAR_BITS,          \* width of item->clear and server->clear (16 in the code)
  MaxClear,            \* the model issues clears only while server->clear < MaxClear
  MaxItems,            \* size of the item slab
  MaxPassby,           \* size of the passby-item slab
  MaxTime              \* last second the model reaches

VARIABLES
  devs, order, fb, bucket,   \* Device.tla
  item,     \* [ItemIds -> item record]; srv = NoSrv is a free slab slot
  hash,     \* [Srv -> [Key -> SUBSET hash nodes]]
  lru,      \* [Srv \cup {SharedLru} -> Seq(ItemIds)], head = most recent
  pb,       \* [PbIds -> passby record]
  plru,     \* [Srv -> Seq(PbIds)]
  srvs,     \* [Srv -> server record]
  conn,     \* [Req -> [srv, item]]
  now,      \* timer_now(&master_timer)
  last,     \* the second of the last server_routine/device_routine
  oops      \* the process exited in device_get_free_block

vars == <<devs, order, fb, bucket, item, hash, lru, pb, plru, srvs, conn, now, last, oops>>

ItemIds == 1 .. MaxItems
PbIds == 1 .. MaxPassby
LruIds == Srv \cup {SharedLru}

HItem(i) == [t |-> "I", id |-> i]
HPass(p) == [t |-> "P", id |-> p]

FreeItem == [srv |-> NoSrv, dev |-> NoDev, off |-> 0, len |-> 0, key |-> NoSrv,
             putting |-> FALSE, deleted |-> FALSE, badblock |-> FALSE,
             used |-> 0, clear |-> 0, expire |-> 0]
FreePb == [srv |-> NoSrv, key |-> NoSrv, expire |-> 0]

NewServer(s) == [deleted |-> FALSE, gone |-> FALSE, capacity |-> SrvCapacity[s],
                 clear |-> 0, consumed |-> 0, content |-> 0, item_nr |-> 0,
                 passby_item_nr |-> 0]

\* Return codes of the server handlers.
OHC_OK == 0
OHC_ERROR == -1
OHC_DECLINE == -4

\* The whole store as one record, for the procedure operators.
State == [devs |-> devs, order |-> order, fb |-> fb, bucket |-> bucket,
          item |-> item, hash |-> hash, lru |-> lru, pb |-> pb, plru |-> plru,
          srvs |-> srvs, conn |-> conn, oops |-> oops, ret |-> 0]

Commit(S) ==
  /\ devs' = S.devs /\ order' = S.order /\ fb' = S.fb /\ bucket' = S.bucket
  /\ item' = S.item /\ hash' = S.hash /\ lru' = S.lru /\ pb' = S.pb
  /\ plru' = S.plru /\ srvs' = S.srvs /\ conn' = S.conn /\ oops' = S.oops

-----------------------------------------------------------------------------
(* server.c helpers                                                        *)

\* server_lru_head
LruHead(S, s) == IF S.srvs[s].capacity # 0 THEN s ELSE SharedLru

\* list_del(&item->lru_node), from whichever LRU list holds it
LruDel(L, i) == [l \in DOMAIN L |-> Remove(L[l], i)]

\* server_item_valid
ItemValid(S, i) ==
  LET it == S.item[i]
  IN /\ ~S.devs[it.dev].deleted
     /\ ~S.srvs[it.srv].deleted
     /\ it.clear = S.srvs[it.srv].clear
     /\ it.expire > now

\* Mutation variant: the passby item is freed but stays hashed.
PassbyDeleteKeepHash(S, s, p) ==
  [S EXCEPT !.plru[s] = Remove(@, p), !.pb[p] = FreePb,
            !.srvs[s].passby_item_nr = @ - 1]

\* server_passby_item_delete
PassbyDelete(S, s, p) ==
  [S EXCEPT !.hash[s][S.pb[p].key] = @ \ {HPass(p)},
            !.plru[s] = Remove(@, p),
            !.pb[p] = FreePb,
            !.srvs[s].passby_item_nr = @ - 1]

(* Mutation variants of server_item_delete: the server's consumed bytes  *)
(* are not given back; a hot item stays hashed until it is freed; a hot  *)
(* item is freed at once.                                                  *)
ItemDeleteNoConsumed(S, i) ==
  LET it == S.item[i]
      S1 == IF ~it.deleted THEN [S EXCEPT !.hash[it.srv][it.key] = @ \ {HItem(i)}] ELSE S
      S2 == ReturnFreeBlock([S1 EXCEPT !.lru = LruDel(@, i),
                                       !.srvs[it.srv].content = @ - it.len], i)
  IN IF it.used # 0 \/ it.putting THEN [S1 EXCEPT !.item[i].deleted = TRUE]
     ELSE [S2 EXCEPT !.srvs[it.srv].item_nr = @ - 1, !.item[i] = FreeItem]

ItemDeleteLateUnhash(S, i) ==
  LET it == S.item[i]
      S2 == ReturnFreeBlock([S EXCEPT !.hash[it.srv][it.key] = @ \ {HItem(i)},
                                      !.lru = LruDel(@, i),
                                      !.srvs[it.srv].content = @ - it.len], i)
  IN IF it.used # 0 \/ it.putting THEN [S EXCEPT !.item[i].deleted = TRUE]
     ELSE [S2 EXCEPT !.srvs[it.srv].consumed = @ - S2.ret,
                     !.srvs[it.srv].item_nr = @ - 1, !.item[i] = FreeItem]

ItemDeleteIgnoringUse(S, i) ==
  LET it == S.item[i]
      S1 == IF ~it.deleted THEN [S EXCEPT !.hash[it.srv][it.key] = @ \ {HItem(i)}] ELSE S
      S2 == ReturnFreeBlock([S1 EXCEPT !.lru = LruDel(@, i),
                                       !.srvs[it.srv].content = @ - it.len], i)
  IN [S2 EXCEPT !.srvs[it.srv].consumed = @ - S2.ret,
                !.srvs[it.srv].item_nr = @ - 1, !.item[i] = FreeItem]

(* server_item_delete: unhash on the first call; a hot item is only      *)
(* marked deleted, any other is unlinked, its block returned and freed.  *)
\* The tail of server_item_delete, on the state S2 after
\* device_return_free_block returned the block size in S2.ret.
ItemFree(S2, i, s) ==
  [S2 EXCEPT !.srvs[s].consumed = @ - S2.ret,
             !.srvs[s].item_nr = @ - 1,
             !.item[i] = FreeItem]

ItemDelete(S, i) ==
  LET it == S.item[i]
      s == it.srv
      S1 == IF ~it.deleted THEN [S EXCEPT !.hash[s][it.key] = @ \ {HItem(i)}] ELSE S
  IN IF it.used # 0 \/ it.putting
     THEN [S1 EXCEPT !.item[i].deleted = TRUE]
     ELSE ItemFree(ReturnFreeBlock([S1 EXCEPT !.lru = LruDel(@, i),
                                              !.srvs[s].content = @ - it.len], i), i, s)

(* The first loop of server_item_expire: from the LRU tail (position     *)
(* idx down to 1), delete items until target bytes are freed and a valid *)
(* item is met.  Deleting the item at idx leaves positions below intact. *)
RECURSIVE ExpireItems(_, _, _, _, _, _), ExpireNext(_, _, _, _, _, _)
ExpireItems(S, s, target, before, idx, count) ==
  IF idx = 0 THEN [st |-> S, count |-> count]
  ELSE IF before - S.srvs[s].consumed >= target /\ ItemValid(S, S.lru[s][idx])
  THEN [st |-> S, count |-> count]
  ELSE ExpireNext(ItemDelete(S, S.lru[s][idx]), s, target, before, idx, count)

\* The loop bound check after an item of the first loop was deleted.
ExpireNext(S2, s, target, before, idx, count) ==
  IF count >= LOOP_LIMIT THEN [st |-> S2, count |-> count + 1]
  ELSE ExpireItems(S2, s, target, before, idx - 1, count + 1)

(* The second loop of server_item_expire, over the passby LRU, sharing   *)
(* the first loop's counter.                                               *)
RECURSIVE ExpirePassby(_, _, _, _)
ExpirePassby(S, s, idx, count) ==
  IF idx = 0 THEN S
  ELSE LET p == S.plru[s][idx]
           S2 == PassbyDelete(S, s, p)
       IN IF PassbyEnable /\ S.srvs[s].passby_item_nr < PassbyLimitNr
                /\ S.pb[p].expire > now
          THEN S
          ELSE IF count >= LOOP_LIMIT THEN S2
          ELSE ExpirePassby(S2, s, idx - 1, count + 1)

\* The second loop starts where the first left the state and the counter.
ExpirePassbyAfter(R, s) == ExpirePassby(R.st, s, Len(R.st.plru[s]), R.count)

\* server_item_expire
ItemExpire(S, s, target) ==
  ExpirePassbyAfter(ExpireItems(S, s, target, S.srvs[s].consumed, Len(S.lru[s]), 0), s)

(* server_shared_expire: like the first loop, on the shared LRU, counting *)
(* item lengths (not block sizes) as freed, deferred deletes included.   *)
RECURSIVE SharedLoop(_, _, _, _, _)
SharedLoop(S, target, size, idx, count) ==
  IF idx = 0 THEN S
  ELSE LET i == S.lru[SharedLru][idx]
       IN IF size >= target /\ ItemValid(S, i) THEN S
          ELSE IF count >= LOOP_LIMIT THEN ItemDelete(S, i)
          ELSE SharedLoop(ItemDelete(S, i), target, size + S.item[i].len, idx - 1, count + 1)

SharedExpire(S, target) == SharedLoop(S, target, 0, Len(S.lru[SharedLru]), 0)

-----------------------------------------------------------------------------
(* device.c procedures that delete items                                   *)

(* device_destroy: walk the order list (a snapshot: each step unlinks    *)
(* only its own node), freeing free blocks and deleting items, at most   *)
(* LOOP_LIMIT + 1 nodes.  The fd is closed once no request uses the      *)
(* device; the device is freed once its order list is empty.              *)
RECURSIVE DestroyLoop(_, _, _, _), DestroyNext(_, _, _, _)
DestroyLoop(S, snap, k, count) ==
  IF k > Len(snap) THEN S
  ELSE DestroyNext(IF snap[k].t = "F" THEN FblockDelete(S, snap[k].id)
                   ELSE ItemDelete(S, snap[k].id), snap, k, count)

\* The loop bound check after one node of the walk was freed.
DestroyNext(S2, snap, k, count) ==
  IF count >= LOOP_LIMIT THEN S2 ELSE DestroyLoop(S2, snap, k + 1, count + 1)

\* Mutation variant: the fd is closed while requests still use the device.
DeviceDestroyClosesFd(S, d) ==
  LET S1 == [DestroyLoop(S, S.order[d], 1, 0) EXCEPT !.devs[d].fd = FALSE]
  IN IF S1.order[d] # <<>> THEN S1 ELSE [S1 EXCEPT !.devs[d].gone = TRUE]

\* The end of device_destroy, after the walk left the state S1.
DeviceDestroyEnd(S1, d) ==
  LET S2 == IF S1.devs[d].used = 0 THEN [S1 EXCEPT !.devs[d].fd = FALSE] ELSE S1
  IN IF S2.order[d] # <<>> THEN S2 ELSE [S2 EXCEPT !.devs[d].gone = TRUE]

DeviceDestroy(S, d) == DeviceDestroyEnd(DestroyLoop(S, S.order[d], 1, 0), d)

(* device_delete_item: delete the item at node n of an order list unless *)
(* n is the list head (id 0), a free block, or a hot item.                *)
DeleteItemAt(S, n) ==
  IF n.id = 0 \/ n.t = "F" THEN S
  ELSE IF S.item[n.id].putting \/ S.item[n.id].used # 0 THEN S
  ELSE ItemDelete(S, n.id)

(* device_free_block_extend: evict the order-list neighbours of the      *)
(* biggest free block until it reaches target, stops growing, or         *)
(* LOOP_LIMIT rounds pass.  Blocks of deleted devices are freed instead.  *)
RECURSIVE ExtendLoop(_, _, _, _)
ExtendLoop(S, target, lastSize, i) ==
  LET f == IpbBiggest(S.bucket)
      blk == S.fb[f]
      ord == S.order[blk.dev]
      p == NodePos(ord, FNode(f))
      prev == IF p > 1 THEN ord[p - 1] ELSE INode(0)
      next == IF p < Len(ord) THEN ord[p + 1] ELSE INode(0)
  IN IF i >= LOOP_LIMIT \/ f = NoBlock THEN S
     ELSE IF blk.size >= target \/ blk.size = lastSize THEN S
     ELSE IF S.devs[blk.dev].deleted
     THEN ExtendLoop(FblockDelete(S, f), target, blk.size, i + 1)
     ELSE ExtendLoop(DeleteItemAt(DeleteItemAt(S, prev), next), target, blk.size, i + 1)

FreeBlockExtend(S, target) == ExtendLoop(S, BlockSize(target), 0, 0)

-----------------------------------------------------------------------------
(* server.c request handlers                                               *)

(* The retry cascade of server_request_put_handler after a failed        *)
(* device_get_free_block.  Each test evaluates try++ first, so a failed  *)
(* test still uses up one try.                                             *)
RECURSIVE PutCascade(_, _, _, _, _), CascadeStep(_, _, _, _, _)
PutCascade(S, s, i, len, try) == CascadeStep(GetFreeBlock(S, i, len, 0), s, i, len, try)

\* One test of the cascade, on the state G the failed allocation left.
CascadeStep(G, s, i, len, try) ==
  IF G.ret # 0 \/ G.oops THEN G
  ELSE IF try < 2 /\ G.lru[s] # <<>> /\ G.srvs[s].consumed + len * 2 > G.srvs[s].capacity
  THEN PutCascade(ItemExpire(G, s, len * 2), s, i, len, try + 1)
  ELSE IF try + 1 < 5 /\ G.lru[SharedLru] # <<>>
  THEN PutCascade(SharedExpire(G, len * 2), s, i, len, try + 2)
  ELSE IF try + 2 < 9 /\ G.lru[s] # <<>>
  THEN PutCascade(ItemExpire(G, s, len * 2), s, i, len, try + 3)
  ELSE IF try + 3 < 12
  THEN PutCascade(FreeBlockExtend(G, len), s, i, len, try + 4)
  ELSE G

\* Mutation variant: passby_item_nr is not counted up.
PassbyStoreNoCount(S, s, k) ==
  LET free == {p \in PbIds : S.pb[p].srv = NoSrv}
      p == Min(free)
  IN IF ~PassbyEnable \/ S.srvs[s].item_nr < PassbyBeginItemNr
          \/ S.srvs[s].consumed < PassbyBeginConsumed
     THEN [S EXCEPT !.ret = OHC_DECLINE]
     ELSE IF free = {} THEN [S EXCEPT !.ret = OHC_ERROR]
     ELSE [S EXCEPT !.pb[p] = [srv |-> s, key |-> k, expire |-> now + PassbyExpire],
                    !.hash[s][k] = @ \cup {HPass(p)}, !.plru[s] = <<p>> \o @,
                    !.ret = OHC_OK]

(* server_passby_store                                                     *)
PassbyStore(S, s, k) ==
  LET free == {p \in PbIds : S.pb[p].srv = NoSrv}
      p == Min(free)
  IN IF ~PassbyEnable \/ S.srvs[s].item_nr < PassbyBeginItemNr
          \/ S.srvs[s].consumed < PassbyBeginConsumed
     THEN [S EXCEPT !.ret = OHC_DECLINE]
     ELSE IF free = {} THEN [S EXCEPT !.ret = OHC_ERROR]
     ELSE [S EXCEPT !.pb[p] = [srv |-> s, key |-> k, expire |-> now + PassbyExpire],
                    !.hash[s][k] = @ \cup {HPass(p)},
                    !.plru[s] = <<p>> \o @,
                    !.srvs[s].passby_item_nr = @ + 1,
                    !.ret = OHC_OK]

(* server_request_get_handler, for request r on server s, key k          *)
GetHandler(S, r, s, k) ==
  LET n == CHOOSE x \in S.hash[s][k] : TRUE
      i == n.id
      it == S.item[i]
  IN IF S.hash[s][k] = {} THEN [S EXCEPT !.ret = OHC_ERROR]
     ELSE IF n.t = "P"
     THEN [S EXCEPT !.plru[s] = <<i>> \o Remove(@, i), !.ret = OHC_ERROR]
     ELSE IF it.deleted \/ it.putting THEN [S EXCEPT !.ret = OHC_ERROR]
     ELSE IF ~ItemValid(S, i) THEN [ItemDelete(S, i) EXCEPT !.ret = OHC_ERROR]
     ELSE [S EXCEPT !.devs[it.dev].used = @ + 1,
                    !.item[i].used = @ + 1,
                    !.conn[r].item = i,
                    !.lru = [LruDel(@, i) EXCEPT ![LruHead(S, s)] = <<i>> \o @],
                    !.ret = OHC_OK]

\* The end of server_request_put_handler, once the cascade left S2 with
\* the block size (or 0) in S2.ret: link the new item i, or drop it.
PutStore(S2, r, s, k, i, len, expire) ==
  LET d == S2.item[i].dev
      L == LruHead(S2, s)
  IN IF S2.oops THEN S2
     ELSE IF S2.ret = 0 THEN [S2 EXCEPT !.item[i] = FreeItem, !.ret = OHC_ERROR]
     ELSE [S2 EXCEPT !.item[i] = [S2.item[i] EXCEPT !.putting = TRUE, !.key = k,
                                    !.clear = S2.srvs[s].clear, !.expire = expire],
                     !.hash[s][k] = @ \cup {HItem(i)},
                     !.lru[L] = <<i>> \o @,
                     !.srvs[s].consumed = @ + S2.ret,
                     !.srvs[s].content = @ + len,
                     !.srvs[s].item_nr = @ + 1,
                     !.devs[d].used = @ + 1,
                     !.conn[r].item = i,
                     !.ret = OHC_OK]

\* The middle of server_request_put_handler, on the state S1 the exist
\* check left (stored: the check answered "already stored"): take an item
\* from the slab and run the allocation cascade.
PutAlloc(S1, stored, r, s, k, len, expire) ==
  LET free == {x \in ItemIds : S1.item[x].srv = NoSrv}
      i == Min(free)
  IN IF stored THEN [S1 EXCEPT !.ret = OHC_DECLINE]
     ELSE IF free = {} THEN [S1 EXCEPT !.ret = OHC_ERROR]
     ELSE PutStore(PutCascade([S1 EXCEPT !.item[i] = [FreeItem EXCEPT !.srv = s, !.len = len]],
                              s, i, len, 0), r, s, k, i, len, expire)

\* The exist check of server_request_put_handler: a missing key may be
\* stored as passby, a passby entry or a replaced (PUT) or invalid item is
\* deleted, a valid one makes a POST decline.
PutCheckExist(S, s, k, method) ==
  LET H == S.hash[s][k]
      n == CHOOSE x \in H : TRUE
  IN IF H = {} THEN PassbyStore(S, s, k)
     ELSE IF n.t = "P" THEN [PassbyDelete(S, s, n.id) EXCEPT !.ret = OHC_OK]
     ELSE IF method = "PUT" \/ ~ItemValid(S, n.id)
     THEN [ItemDelete(S, n.id) EXCEPT !.ret = OHC_OK]
     ELSE [S EXCEPT !.ret = OHC_DECLINE]

(* server_request_put_handler.  method is "PUT" (replace) or "POST"      *)
(* (store if absent); exp is the expiry time the header gave, or 0.      *)
PutHandler(S, r, s, k, len, method, exp) ==
  LET expire == IF ExpireForce # 0 THEN ExpireForce + now
                ELSE IF exp = 0 THEN ExpireDefault + now ELSE exp
      \* "stored": a passby store succeeded, or a POST met a valid item
      PutAfterCheck(S1) ==
        PutAlloc(S1, IF S.hash[s][k] = {} THEN S1.ret = OHC_OK ELSE S1.ret = OHC_DECLINE,
                 r, s, k, len, expire)
  IN IF ItemMaxSize # 0 /\ len > ItemMaxSize THEN [S EXCEPT !.ret = OHC_DECLINE]
     ELSE IF S.srvs[s].capacity # 0 /\ len > S.srvs[s].capacity
     THEN [S EXCEPT !.ret = OHC_DECLINE]
     ELSE IF ExpireForce = 0 /\ exp = 0 /\ ExpireDefault = 0
     THEN [S EXCEPT !.ret = OHC_DECLINE]
     ELSE PutAfterCheck(PutCheckExist(S, s, k, method))

(* server_request_delete_handler                                           *)
DeleteHandler(S, s, k) ==
  LET n == CHOOSE x \in S.hash[s][k] : TRUE
  IN IF S.hash[s][k] = {} THEN [S EXCEPT !.ret = OHC_ERROR]
     ELSE IF n.t = "P" THEN [PassbyDelete(S, s, n.id) EXCEPT !.ret = OHC_OK]
     ELSE [ItemDelete(S, n.id) EXCEPT !.ret = OHC_OK]

(* Mutation variant: item->used is dropped for a writer too.            *)
FinalizeNoPutCheck(S, r, whole, diskError) ==
  LET i == S.conn[r].item
      it == S.item[i]
      S1 == [S EXCEPT !.conn[r].item = 0, !.devs[it.dev].used = @ - 1,
                      !.item[i].putting = FALSE, !.item[i].used = @ - 1]
  IN IF i = 0 THEN S
     ELSE IF diskError THEN ItemDelete([S1 EXCEPT !.item[i].badblock = TRUE], i)
     ELSE IF it.deleted \/ (it.putting /\ ~whole) THEN ItemDelete(S1, i)
     ELSE S1

(* server_request_finalize: r lets go of its item.  whole: the request   *)
(* moved all item->length bytes; diskError: sendfile or pwrite met EIO.  *)
Finalize(S, r, whole, diskError) ==
  LET i == S.conn[r].item
      it == S.item[i]
      S1 == [S EXCEPT !.conn[r].item = 0,
                      !.devs[it.dev].used = @ - 1,
                      !.item[i].putting = FALSE,
                      !.item[i].used = IF it.putting THEN @ ELSE @ - 1]
  IN IF i = 0 THEN S
     ELSE IF diskError THEN ItemDelete([S1 EXCEPT !.item[i].badblock = TRUE], i)
     ELSE IF it.deleted \/ (it.putting /\ ~whole) THEN ItemDelete(S1, i)
     ELSE S1

\* The end of server_destroy: s is freed once it holds no items.
ServerFreeIfEmpty(S1, s) ==
  IF S1.srvs[s].item_nr # 0 \/ S1.srvs[s].passby_item_nr # 0 THEN S1
  ELSE [S1 EXCEPT !.srvs[s].gone = TRUE]

(* server_destroy                                                          *)
ServerDestroy(S, s) == ServerFreeIfEmpty(ItemExpire(S, s, S.srvs[s].consumed), s)

(* The loops of server_routine and device_routine over the servers and *)
(* devices lists, in a fixed order.                                        *)
RECURSIVE ForExpire(_, _)
ForExpire(S, set) ==
  IF set = {} THEN S
  ELSE LET s == CHOOSE x \in set : TRUE
           c == S.srvs[s]
       IN ForExpire(ItemExpire(S, s, IF c.consumed > c.capacity
                                     THEN c.consumed - c.capacity ELSE 0),
                    set \ {s})

RECURSIVE ForDestroy(_, _)
ForDestroy(S, set) ==
  IF set = {} THEN S
  ELSE LET s == CHOOSE x \in set : TRUE IN ForDestroy(ServerDestroy(S, s), set \ {s})

RECURSIVE ForDevices(_, _)
ForDevices(S, set) ==
  IF set = {} THEN S
  ELSE LET d == CHOOSE x \in set : TRUE IN ForDevices(DeviceDestroy(S, d), set \ {d})

(* server_routine then device_routine, as the master loop calls them     *)
DeviceRoutine(S2) == ForDevices(S2, {d \in Dev : S2.devs[d].deleted /\ ~S2.devs[d].gone})

\* Mutation variant: server_routine leaves out server_shared_expire.
RoutinesNoShared(S) ==
  DeviceRoutine(ForDestroy(ForExpire(S, {s \in Srv : ~S.srvs[s].deleted}),
                           {s \in Srv : S.srvs[s].deleted /\ ~S.srvs[s].gone}))

Routines(S) ==
  DeviceRoutine(ForDestroy(SharedExpire(ForExpire(S, {s \in Srv : ~S.srvs[s].deleted}), 0),
                           {s \in Srv : S.srvs[s].deleted /\ ~S.srvs[s].gone}))

-----------------------------------------------------------------------------
(* The system: start-up, then master-thread steps.                         *)

(* device_add for each configured device: one free block of the whole   *)
(* capacity (none for capacity 0); with the slab exhausted the device is *)
(* marked kicked and has no free block.                                    *)
DeviceAdd(S, d) ==
  IF DevCapacity[d] = 0 THEN S
  ELSE IF \A f \in FbIds : S.fb[f].dev # NoDev THEN [S EXCEPT !.devs[d].kicked = TRUE]
  ELSE FblockInsert(S, d, 1, 0, DevCapacity[d])

RECURSIVE AddDevices(_, _)
AddDevices(S, set) ==
  IF set = {} THEN S
  ELSE LET d == CHOOSE x \in set : TRUE IN AddDevices(DeviceAdd(S, d), set \ {d})

Empty == [devs |-> [d \in Dev |-> NewDevice], order |-> [d \in Dev |-> <<>>],
          fb |-> [f \in FbIds |-> FreeFb], bucket |-> IpbInit,
          item |-> [i \in ItemIds |-> FreeItem], hash |-> [s \in Srv |-> [k \in Key |-> {}]],
          lru |-> [l \in LruIds |-> <<>>], pb |-> [p \in PbIds |-> FreePb],
          plru |-> [s \in Srv |-> <<>>], srvs |-> [s \in Srv |-> NewServer(s)],
          conn |-> [r \in Req |-> [srv |-> NoSrv, item |-> 0]], oops |-> FALSE, ret |-> 0]

Init ==
  LET S == AddDevices(Empty, Dev)
  IN /\ devs = S.devs /\ order = S.order /\ fb = S.fb /\ bucket = S.bucket
     /\ item = S.item /\ hash = S.hash /\ lru = S.lru /\ pb = S.pb /\ plru = S.plru
     /\ srvs = S.srvs /\ conn = S.conn /\ oops = S.oops /\ now = 0 /\ last = 0

\* A request on connection r may start: its server still exists.
Idle(r) == /\ ~oops
           /\ conn[r].srv # NoSrv /\ conn[r].item = 0
           /\ ~srvs[conn[r].srv].gone

(* server_listen_handler / request_process_entry: a listening server     *)
(* accepts connection r.                                                   *)
Accept(r, s) ==
  /\ ~oops /\ conn[r].srv = NoSrv /\ ~srvs[s].deleted
  /\ conn' = [conn EXCEPT ![r].srv = s]
  /\ UNCHANGED <<devs, order, fb, bucket, item, hash, lru, pb, plru, srvs, now, last, oops>>

\* A GET/HEAD request of key k (request_read_request_header).
Get(r, k) ==
  /\ Idle(r)
  /\ Commit(GetHandler(State, r, conn[r].srv, k))
  /\ UNCHANGED <<now, last>>

\* A PUT/POST request of key k.
Put(r, k, len, method, exp) ==
  /\ Idle(r)
  /\ Commit(PutHandler(State, r, conn[r].srv, k, len, method, exp))
  /\ UNCHANGED <<now, last>>

\* A DELETE/PURGE request of key k.
Delete(r, k) ==
  /\ Idle(r)
  /\ Commit(DeleteHandler(State, conn[r].srv, k))
  /\ UNCHANGED <<now, last>>

(* The worker hands r back and request_do_finalize runs; the connection  *)
(* stays for keep-alive.                                                   *)
Finish(r, whole, diskError) ==
  /\ ~oops /\ conn[r].item # 0
  /\ Commit(Finalize(State, r, whole, diskError))
  /\ UNCHANGED <<now, last>>

(* An idle connection is closed (peer close or keep-alive timeout).  If  *)
(* its server was freed meanwhile, request_do_finalize writes to freed    *)
(* memory (s->connections--); the model lets that write land harmlessly   *)
(* and lets the slot go (ServerOutlivesConnections is the property).      *)
Close(r) ==
  /\ ~oops /\ conn[r].srv # NoSrv /\ conn[r].item = 0
  /\ conn' = [conn EXCEPT ![r].srv = NoSrv]
  /\ UNCHANGED <<devs, order, fb, bucket, item, hash, lru, pb, plru, srvs, now, last, oops>>

(* server_clear, from the admin channel: the clear counter of an         *)
(* unsigned short wraps.                                                   *)
Clear(s) ==
  /\ ~oops /\ ~srvs[s].deleted /\ srvs[s].clear < MaxClear
  /\ srvs' = [srvs EXCEPT ![s].clear = (@ + 1) % (2 ^ CLEAR_BITS)]
  /\ UNCHANGED <<devs, order, fb, bucket, item, hash, lru, pb, plru, conn, now, last, oops>>

\* The clock advances one second.
Tick ==
  /\ ~oops /\ now < MaxTime
  /\ now' = now + 1
  /\ UNCHANGED <<devs, order, fb, bucket, item, hash, lru, pb, plru, srvs, conn, last, oops>>

\* Once per second the master loop runs server_routine and device_routine.
Routine ==
  /\ ~oops /\ now # last
  /\ last' = now
  /\ Commit(Routines(State))
  /\ UNCHANGED now

(* A reload drops server s (server_conf_load -> server_delete); the new  *)
(* configuration must keep some server.                                    *)
ServerDelete(s) ==
  /\ ~oops /\ s \in DroppableSrv /\ ~srvs[s].deleted
  /\ \E s2 \in Srv \ {s} : ~srvs[s2].deleted
  /\ srvs' = [srvs EXCEPT ![s].deleted = TRUE]
  /\ UNCHANGED <<devs, order, fb, bucket, item, hash, lru, pb, plru, conn, now, last, oops>>

\* A reload gives server s a new capacity (server_update).
ServerUpdate(s, c) ==
  /\ ~oops /\ ~srvs[s].deleted /\ c # srvs[s].capacity
  /\ srvs' = [srvs EXCEPT ![s].capacity = c]
  /\ UNCHANGED <<devs, order, fb, bucket, item, hash, lru, pb, plru, conn, now, last, oops>>

(* A reload drops device d (device_conf_load -> device_delete); the new  *)
(* configuration must keep some device.                                    *)
DeviceRemove(d) ==
  /\ ~oops /\ d \in DroppableDev /\ ~devs[d].deleted
  /\ \E d2 \in Dev \ {d} : ~devs[d2].deleted
  /\ devs' = DeviceDelete(State, d).devs
  /\ UNCHANGED <<order, fb, bucket, item, hash, lru, pb, plru, srvs, conn, now, last, oops>>

Next ==
  \/ \E r \in Req, s \in Srv : Accept(r, s)
  \/ \E r \in Req, k \in Key : Get(r, k) \/ Delete(r, k)
  \/ \E r \in Req, k \in Key, len \in Lengths, m \in {"PUT", "POST"}, e \in ExpireInputs :
        Put(r, k, len, m, e)
  \/ \E r \in Req, w, e \in BOOLEAN : Finish(r, w, e)
  \/ \E r \in Req : Close(r)
  \/ \E s \in Srv : Clear(s) \/ ServerDelete(s)
  \/ \E s \in Srv, c \in CapacityChoices : ServerUpdate(s, c)
  \/ \E d \in Dev : DeviceRemove(d)
  \/ Tick
  \/ Routine

Spec == Init /\ [][Next]_vars

(* The clock past MaxTime.  The code only compares times (expire > now,  *)
(* now # last), so one more second at the bound is the same as every     *)
(* stored time moving one second back: a deadline already past stays     *)
(* past (clamped at 0), the newest come one second closer, and the last  *)
(* routine ran before now, which is all Routine asks of last.            *)
Back(t) == IF t > 0 THEN t - 1 ELSE 0

Rebase ==
  /\ ~oops /\ now = MaxTime
  /\ last' = now - 1
  /\ item' = [i \in ItemIds |-> [item[i] EXCEPT !.expire = Back(@)]]
  /\ pb' = [p \in PbIds |-> [pb[p] EXCEPT !.expire = Back(@)]]
  /\ UNCHANGED <<devs, order, fb, bucket, hash, lru, plru, srvs, conn, now, oops>>

(* Routine as seen on last: it is the one action that sets last to now, *)
(* and it is enabled whenever this guard holds, so WF_last(RoutineRuns)  *)
(* is WF_vars(Routine), stated without computing the routines to know    *)
(* that they may run.                                                      *)
RoutineRuns == ~oops /\ now # last /\ last' = now

(* The fairness the code gives: the clock advances, and the master loop  *)
(* wakes at least once a second (epoll_wait's 1000 ms) and then runs the  *)
(* routines.  Nothing is assumed of clients: a connection may stay and   *)
(* keep sending requests for ever.                                        *)
LiveFairness ==
  /\ WF_vars(Tick \/ Rebase)
  /\ WF_last(RoutineRuns)

LiveSpec == Init /\ [][Next \/ Rebase]_vars /\ LiveFairness

-----------------------------------------------------------------------------
(* Properties                                                              *)

Alloc(i) == item[i].srv # NoSrv
FbLive(f) == fb[f].dev # NoDev
OnDevice(d) == {i \in ItemIds : Alloc(i) /\ item[i].dev = d}
OfServer(s) == {i \in ItemIds : Alloc(i) /\ item[i].srv = s}
BlockOf(i) == BlockSize(item[i].len)

\* how often x occurs in the lists Q[l], l \in ls
Occurrences(Q, ls, x) == MapThenSumSet(LAMBDA l : Len(SelectSeq(Q[l], LAMBDA y : y = x)), ls)

\* the byte extent [off, off + len) of an order-list node
Extent(n) == IF n.t = "F" THEN [off |-> fb[n.id].off, len |-> fb[n.id].size]
             ELSE [off |-> item[n.id].off, len |-> BlockOf(n.id)]

ItemRec == [srv : Srv \cup {NoSrv}, dev : Dev \cup {NoDev}, off : Nat, len : Nat,
            key : Key \cup {NoSrv}, putting : BOOLEAN, deleted : BOOLEAN,
            badblock : BOOLEAN, used : Nat, clear : Nat, expire : Nat]

TypeOK ==
  /\ \A d \in Dev : devs[d].used \in Nat /\ devs[d].consumed \in Nat
  /\ order \in [Dev -> Seq([t : {"F", "I"}, id : Nat])]
  /\ fb \in [FbIds -> [dev : Dev \cup {NoDev}, off : Nat, size : Nat]]
  /\ item \in [ItemIds -> ItemRec]
  /\ hash \in [Srv -> [Key -> SUBSET [t : {"I", "P"}, id : Nat]]]
  /\ lru \in [LruIds -> Seq(ItemIds)] /\ plru \in [Srv -> Seq(PbIds)]
  /\ conn \in [Req -> [srv : Srv \cup {NoSrv}, item : 0 .. MaxItems]]
  /\ now \in 0 .. MaxTime /\ oops \in BOOLEAN

(* Spec invariant 1, in the form the code keeps it (device.c order list  *)
(* and device_return_free_block): on every device still in service the   *)
(* order list is sorted by offset, its extents do not overlap and stay   *)
(* inside the device, it holds exactly the device's items and free       *)
(* blocks, and free blocks, item blocks and bad-block bytes add up to     *)
(* the capacity: no byte is lost or handed out twice by a split, a merge  *)
(* or an eviction.                                                         *)
SpaceTiling ==
  \A d \in Dev : ~devs[d].deleted =>
    LET o == order[d] IN
    /\ \A k \in 1 .. Len(o) - 1 : Extent(o[k]).off + Extent(o[k]).len <= Extent(o[k + 1]).off
    /\ Len(o) > 0 => Extent(o[Len(o)]).off + Extent(o[Len(o)]).len <= DevCapacity[d]
    /\ {n.id : n \in {x \in Range(o) : x.t = "I"}} = OnDevice(d)
    /\ {n.id : n \in {x \in Range(o) : x.t = "F"}} = {f \in FbIds : fb[f].dev = d}
    /\ FoldLeft(LAMBDA a, n : a + Extent(n).len, 0, o) + devs[d].badblock = DevCapacity[d]

(* Free blocks are coalesced (device_return_free_block's four cases):    *)
(* two free blocks that are neighbours on an order list are never        *)
(* adjacent on disk, so the biggest free block is as big as the free     *)
(* space around it allows.                                                 *)
Coalesced ==
  \A d \in Dev : ~devs[d].deleted =>
    \A k \in 1 .. Len(order[d]) - 1 :
      LET a == order[d][k]  b == order[d][k + 1]
      IN a.t = "F" /\ b.t = "F" => fb[a.id].off + fb[a.id].size < fb[b.id].off

(* The counters the code keeps incrementally match what they count: a    *)
(* device's consumed bytes are its item blocks plus its bad blocks (the  *)
(* badblock path of device_return_free_block does not subtract), its     *)
(* fblock_nr counts its free blocks, and a server's consumed, content,   *)
(* item_nr and passby_item_nr match its items, deferred deletes included. *)
Accounting ==
  /\ \A d \in Dev : ~devs[d].deleted =>
       /\ devs[d].consumed = MapThenSumSet(BlockOf, OnDevice(d)) + devs[d].badblock
       /\ devs[d].fblock_nr = Cardinality({f \in FbIds : fb[f].dev = d})
  /\ \A s \in Srv :
       /\ srvs[s].consumed = MapThenSumSet(BlockOf, OfServer(s))
       /\ srvs[s].content = MapThenSumSet(LAMBDA i : item[i].len, OfServer(s))
       /\ srvs[s].item_nr = Cardinality(OfServer(s))
       /\ srvs[s].passby_item_nr = Cardinality({p \in PbIds : pb[p].srv = s})

(* Spec invariant 7 rests on this: every free block is queued exactly     *)
(* once, in the bucket of its current size, and nothing else is queued;  *)
(* every resize of a free block re-indexes it.                            *)
BucketConsistency ==
  /\ \A b \in Buckets : \A x \in 1 .. Len(bucket[b]) :
       FbLive(bucket[b][x]) /\ Index(fb[bucket[b][x]].size, FALSE) = b
  /\ \A f \in FbIds : FbLive(f) =>
       Occurrences(bucket, Buckets, f) = 1

(* Spec invariants 3 and 4: a key has at most one hash node; the hash     *)
(* reaches only live, not-deleted items and passby items of that server   *)
(* and key; every item not yet deleted is hashed; every item is on        *)
(* exactly one LRU list and every passby item on its server's list.      *)
HashIntegrity ==
  /\ \A s \in Srv, k \in Key :
       /\ Cardinality(hash[s][k]) <= 1
       /\ \A n \in hash[s][k] :
            IF n.t = "I" THEN Alloc(n.id) /\ ~item[n.id].deleted
                              /\ item[n.id].srv = s /\ item[n.id].key = k
            ELSE pb[n.id].srv = s /\ pb[n.id].key = k
  /\ \A i \in ItemIds : Alloc(i) =>
       /\ ~item[i].deleted => HItem(i) \in hash[item[i].srv][item[i].key]
       /\ Occurrences(lru, LruIds, i) = 1
  /\ \A l \in LruIds : \A x \in 1 .. Len(lru[l]) : Alloc(lru[l][x])
  /\ \A p \in PbIds : pb[p].srv # NoSrv =>
       HPass(p) \in hash[pb[p].srv][pb[p].key] /\ Contains(plru[pb[p].srv], p)

(* Deferred deletion (server_item_delete, server_request_finalize) and   *)
(* the device->used check of device_destroy: an item a request holds     *)
(* stays allocated, on its device's order list, with the device's fd     *)
(* open; item->used and device->used count exactly the requests holding  *)
(* them, and an item being written is held by its writer alone.          *)
HeldItemsStayAllocated ==
  /\ \A r \in Req : conn[r].item # 0 =>
       LET i == conn[r].item IN
       /\ Alloc(i) /\ item[i].dev # NoDev
       /\ Contains(order[item[i].dev], INode(i))
       /\ devs[item[i].dev].fd /\ ~devs[item[i].dev].gone
  /\ \A i \in ItemIds : Alloc(i) =>
       LET holders == Cardinality({r \in Req : conn[r].item = i})
       IN IF item[i].putting THEN holders = 1 /\ item[i].used = 0
          ELSE item[i].used = holders
  /\ \A d \in Dev :
       devs[d].used = Cardinality({r \in Req : conn[r].item # 0 /\ item[conn[r].item].dev = d})

(* device_get_free_block never reaches its "oops!" exit: the block       *)
(* ipbucket_get returns is always big enough.                             *)
NoOops == ~oops

(* server_destroy frees a deleted server once it has no items; a         *)
(* connection still bound to it must not exist, because                  *)
(* request_do_finalize and the next keep-alive request use r->server.    *)
ServerOutlivesConnections ==
  \A r \in Req : conn[r].srv # NoSrv => ~srvs[conn[r].srv].gone

(* server_destroy frees a deleted server only once it holds no items and *)
(* no passby items.  Its own LRU is emptied by server_item_expire, but   *)
(* the items of a server of capacity 0 sit on the shared LRU, which only *)
(* server_shared_expire(0) trims, from the tail and up to the first      *)
(* still valid item of another server.  A deleted server that no         *)
(* connection refers to any more is nevertheless freed in the end.        *)
ServerEventuallyFreed ==
  \A s \in Srv : (srvs[s].deleted /\ \A r \in Req : conn[r].srv # s) ~> srvs[s].gone

=============================================================================
