------------------------------- MODULE Device -------------------------------
(***************************************************************************)
(* Devices and free blocks, src/device.c.                                  *)
(*                                                                         *)
(* Every device has an order list: its free blocks and items sorted by     *)
(* offset (device->order_head).  Free blocks of all devices are also      *)
(* indexed by size in one global IPBucket (free_blocks).                   *)
(*                                                                         *)
(* All of device.c runs on the master thread, and a handler runs to its   *)
(* end before the next one starts, so every C function is modelled as a   *)
(* pure operator from a store state S to a new store state.  S is a       *)
(* record whose fields are the store's variables (see Store.tla) plus     *)
(* "ret", the C function's return value.  The fields used here:           *)
(*   devs   [Dev -> device record]                                         *)
(*   order  [Dev -> Seq(node)], a node is [t |-> "F" or "I", id |-> id]   *)
(*   fb     [FbIds -> free-block record]; dev = NoDev means a free slab   *)
(*   bucket the IPBucket queues of free-block ids                          *)
(*   item   [ItemIds -> item record]; only dev, off, len, badblock here  *)
(***************************************************************************)
EXTENDS Integers, Sequences, SequencesExt, FiniteSets, IPBucket

CONSTANTS
  Dev,              \* devices (model values)
  NoDev,            \* the device of a free slab slot
  DevCapacity,      \* [Dev -> bytes], a multiple of 512 as device_conf_check makes it
  MaxFblocks,       \* size of the free-block slab; slab_alloc fails beyond it
  BadblockPercent,  \* device_badblock_percent
  LOOP_LIMIT        \* the loop bound of olivehc.h (1000 in the code)

FbIds == 1 .. MaxFblocks

FNode(f) == [t |-> "F", id |-> f]
INode(i) == [t |-> "I", id |-> i]

FreeFb == [dev |-> NoDev, off |-> 0, size |-> 0]

(* A device as device_add leaves it.  kicked records that device_kick     *)
(* left a hollow copy of this device on the devices list; the copy holds  *)
(* the same fd number, so it is open exactly while "fd" is.               *)
NewDevice == [deleted |-> FALSE, gone |-> FALSE, fd |-> TRUE, kicked |-> FALSE,
              used |-> 0, item_nr |-> 0, fblock_nr |-> 0, consumed |-> 0,
              badblock |-> 0]

\* Position of a node in an order list (0 if absent).
NodePos(seq, n) == SelectInSeq(seq, LAMBDA x : x = n)

-----------------------------------------------------------------------------
(* device_fblock_insert: a new free block before position pos of d's     *)
(* order list.  When the slab is exhausted nothing happens (NULL).        *)
FblockInsert(S, d, pos, off, size) ==
  LET free == {f \in FbIds : S.fb[f].dev = NoDev}
      f == Min(free)
  IN IF free = {} THEN S
     ELSE [S EXCEPT !.fb[f] = [dev |-> d, off |-> off, size |-> size],
                    !.order[d] = InsertAt(@, pos, FNode(f)),
                    !.bucket = IpbAdd(@, f, size),
                    !.devs[d].fblock_nr = @ + 1]

\* Mutation variant: the free block is freed but left in its bucket.
FblockDeleteKeepQueued(S, f) ==
  LET d == S.fb[f].dev
  IN [S EXCEPT !.devs[d].fblock_nr = @ - 1, !.order[d] = Remove(@, FNode(f)),
               !.fb[f] = FreeFb]

(* device_fblock_delete                                                    *)
FblockDelete(S, f) ==
  LET d == S.fb[f].dev
  IN [S EXCEPT !.devs[d].fblock_nr = @ - 1,
               !.bucket = IpbDel(@, f),
               !.order[d] = Remove(@, FNode(f)),
               !.fb[f] = FreeFb]

(* device_kick followed by device_delete of the original: the original   *)
(* is marked deleted (and goes to deleted_devices); a kicked copy with    *)
(* an empty order list stays on the devices list.                          *)
DeviceKick(S, d) == [S EXCEPT !.devs[d].deleted = TRUE, !.devs[d].kicked = TRUE]

(* device_delete, from device_conf_load for a device no longer configured. *)
DeviceDelete(S, d) == [S EXCEPT !.devs[d].deleted = TRUE]

\* Mutation variant: the free block is resized but not re-indexed.
FbResizeNoUpdate(S, f, off, size) == [S EXCEPT !.fb[f].off = off, !.fb[f].size = size]

\* fblock f grows to size, and ipbucket_update re-indexes it
FbResize(S, f, off, size) ==
  [S EXCEPT !.fb[f].off = off, !.fb[f].size = size,
            !.bucket = IpbUpdate(@, f, size)]

(* Mutation variant: a free block after the item is never merged.       *)
RecycleNoBackward(S, d, p, off, bsize) ==
  LET ord == S.order[d]
      prev == IF p > 1 THEN ord[p - 1] ELSE INode(0)
      forward == prev.t = "F" /\ S.fb[prev.id].off + S.fb[prev.id].size = off
      S1 == IF forward THEN FbResize(S, prev.id, S.fb[prev.id].off, S.fb[prev.id].size + bsize)
            ELSE FblockInsert(S, d, p, off, bsize)
  IN [S1 EXCEPT !.devs[d].item_nr = @ - 1, !.devs[d].consumed = @ - bsize]

(* The coalescing part of device_return_free_block: the block of the item *)
(* at position p of d's order list (offset off, bsize bytes) merges with  *)
(* a free neighbour that is adjacent on disk, or becomes a free block.    *)
Recycle(S, d, p, off, bsize) ==
  LET ord == S.order[d]
      prev == IF p > 1 THEN ord[p - 1] ELSE INode(0)
      next == IF p < Len(ord) THEN ord[p + 1] ELSE INode(0)
      forward == prev.t = "F" /\ S.fb[prev.id].off + S.fb[prev.id].size = off
      backward == next.t = "F" /\ S.fb[next.id].off = off + bsize
      P == S.fb[prev.id]
      N == S.fb[next.id]
      S1 == CASE forward /\ backward ->
                   FblockDelete(FbResize(S, prev.id, P.off, P.size + bsize + N.size), next.id)
              [] forward  -> FbResize(S, prev.id, P.off, P.size + bsize)
              [] backward -> FbResize(S, next.id, N.off - bsize, N.size + bsize)
              [] OTHER    -> FblockInsert(S, d, p, off, bsize)
  IN [S1 EXCEPT !.devs[d].item_nr = @ - 1, !.devs[d].consumed = @ - bsize]

(* device_badblock accounting of device_return_free_block: the block is  *)
(* not recycled, and past device_badblock_percent the device is kicked.   *)
Badblock(S, d, bsize) ==
  LET bb == S.devs[d].badblock + bsize
      S1 == [S EXCEPT !.devs[d].badblock = bb]
  IN IF (bb * 100) \div DevCapacity[d] > BadblockPercent THEN DeviceKick(S1, d) ELSE S1

(* device_return_free_block(item i): returns the block size in ret, and  *)
(* unlinks the item from its order list in every case.                    *)
ReturnFreeBlock(S, i) ==
  LET it == S.item[i]
      d == it.dev
      bsize == BlockSize(it.len)
      S1 == IF S.devs[d].deleted THEN S
            ELSE IF it.badblock THEN Badblock(S, d, bsize)
            ELSE Recycle(S, d, NodePos(S.order[d], INode(i)), it.off, bsize)
  IN [S1 EXCEPT !.order[d] = Remove(@, INode(i)), !.ret = bsize]

(* Mutation variant: the split leaves the item at the front of the free  *)
(* block without moving the free block's offset.                          *)
CutBlockFront(S, i, f, bsize) ==
  LET blk == S.fb[f]
      d == blk.dev
      p == NodePos(S.order[d], FNode(f))
  IN [S EXCEPT !.order[d] = InsertAt(@, p + 1, INode(i)),
               !.fb[f].size = blk.size - bsize,
               !.bucket = IpbAdd(@, f, blk.size - bsize),
               !.item[i].dev = d, !.item[i].off = blk.off,
               !.devs[d].item_nr = @ + 1, !.devs[d].consumed = @ + bsize,
               !.ret = bsize]

(* The allocation part of device_get_free_block, for the free block f    *)
(* ipbucket_get unlinked: cut bsize bytes from the rear of f (the item   *)
(* goes after f on the order list and f is re-queued), or take all of f. *)
(* A block smaller than bsize is the "oops!" exit(1).                     *)
CutBlock(S, i, f, bsize) ==
  LET blk == S.fb[f]
      d == blk.dev
      p == NodePos(S.order[d], FNode(f))
      Placed(T, off) ==
        [T EXCEPT !.item[i].dev = d, !.item[i].off = off,
                  !.devs[d].item_nr = @ + 1, !.devs[d].consumed = @ + bsize,
                  !.ret = bsize]
      S1 == [S EXCEPT !.order[d] = InsertAt(@, p + 1, INode(i))]
  IN IF blk.size > bsize
     THEN Placed([S1 EXCEPT !.fb[f].size = blk.size - bsize,
                            !.bucket = IpbAdd(@, f, blk.size - bsize)],
                 blk.off + blk.size - bsize)
     ELSE IF blk.size = bsize THEN Placed(FblockDelete(S1, f), blk.off)
     ELSE [S EXCEPT !.oops = TRUE, !.ret = 0]

(* device_get_free_block(item i of length len): ret is the block size,   *)
(* or 0.  Blocks of deleted devices met on the way are freed, at most    *)
(* LOOP_LIMIT + 1 of them.                                                 *)
RECURSIVE GetFreeBlock(_, _, _, _)
GetFreeBlock(S, i, len, try) ==
  LET f == IpbGet(S.bucket, len)
      S1 == [S EXCEPT !.bucket = IpbDel(@, f)]
  IN IF f = NoBlock THEN [S EXCEPT !.ret = 0]
     ELSE IF S.devs[S.fb[f].dev].deleted
     THEN IF try < LOOP_LIMIT THEN GetFreeBlock(FblockDelete(S1, f), i, len, try + 1)
                              ELSE [FblockDelete(S1, f) EXCEPT !.ret = 0]
     ELSE CutBlock(S1, i, f, BlockSize(len))

=============================================================================
