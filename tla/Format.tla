------------------------------- MODULE Format -------------------------------
(***************************************************************************)
(* Persistence across a restart (format.c).  At quit the master thread    *)
(* dumps, on every device, a superblock, the server ports and one record  *)
(* per valid item (format_store_device).  At start, before the loop,      *)
(* format_load_device reads the records back: each one becomes an item    *)
(* again through server_load_fm_item and device_cut_free_block, and       *)
(* device_load_post re-indexes the tail free block; then the magic is     *)
(* overwritten so the dump is used once.                                  *)
(*                                                                         *)
(* Besides the metadata, the model tracks what each 512-byte sector of a  *)
(* device holds: the body of a (server, key), the dump's metadata, junk   *)
(* from a failed write, or nothing yet.  A process may also crash (the    *)
(* oops exit(1), a kill, a power loss) and start again without a dump.    *)
(* A read of the dump may fail at the header or at any record.            *)
(***************************************************************************)
EXTENDS Store

CONSTANTS
  FM_INFO_SIZE,   \* OHC_FM_INFO_SIZE: the superblock and the server ports
  FM_ITEM_SIZE,   \* sizeof(ohc_format_item_t)
  ReadFaults,     \* where an fread may fail: 0 the header, k the k-th record
  MaxRestarts     \* the model starts the process again at most this often

VARIABLES
  disk,      \* [Dev -> [magic, recs]]: the superblock's magic and item records
  data,      \* [Dev -> [sector -> content]]
  restarts   \* starts so far, after the first

fmvars == <<disk, data, restarts>>
allvars == <<vars, fmvars>>

SECTOR == 512            \* capacity is st_size & ~0x1FF; blocks are 512-multiples
Meta == <<"meta">>         \* superblock, ports or records
Junk == <<"junk">>         \* what a failed or partial write leaves
Blank == <<"blank">>
NoFault == -1
Sectors(d) == 0 .. DevCapacity[d] \div SECTOR - 1
SectorsOf(off, len) == (off \div SECTOR) .. ((off + len - 1) \div SECTOR)
Body(s, k) == <<s, k>>

\* Records below this offset were overwritten by the dump's own metadata.
Override(n) == FM_INFO_SIZE + n * FM_ITEM_SIZE

(* The checksum covers the superblock and ports, which share sector 0;    *)
(* a body written over sector 0 breaks it.                                *)
DumpValid(dk, dt, d) == dk[d].magic /\ dt[d][0] = Meta

Overwrite(sec, qs, v) == [q \in DOMAIN sec |-> IF q \in qs THEN v ELSE sec[q]]

-----------------------------------------------------------------------------
(* format_store_device                                                     *)

\* The records, in order-list order, of the valid items of d (server_dump is on).
DumpRecords(S, d) ==
  LET ids == SelectSeq(S.order[d], LAMBDA n : n.t = "I" /\ ItemValid(S, n.id))
  IN [k \in 1 .. Len(ids) |->
        LET it == S.item[ids[k].id]
        IN [srv |-> it.srv, key |-> it.key, off |-> it.off, len |-> it.len,
            expire |-> it.expire]]

(* The ports are written whatever the count; the superblock only when    *)
(* some item was written.                                                  *)
StoreDisk(dk, d, recs) == IF recs = <<>> THEN dk[d] ELSE [magic |-> TRUE, recs |-> recs]
StoreData(dt, d, recs) == Overwrite(dt[d], SectorsOf(0, Override(Len(recs))), Meta)

\* device_format_store: every device on the devices list whose fd is open.
Dumped(S) == {d \in Dev : ~S.devs[d].deleted \/ (S.devs[d].kicked /\ S.devs[d].fd)}

-----------------------------------------------------------------------------
(* Loading                                                                 *)

\* Mutation variant: the gap before the item is not made a free block.
CutFreeBlockNoGap(S, i) ==
  LET it == S.item[i]
      d == it.dev
      f == Last(S.order[d]).id
      step == BlockSize(it.len) + it.off - S.fb[f].off
  IN IF it.off < S.fb[f].off \/ S.fb[f].size < step THEN [S EXCEPT !.ret = 0]
     ELSE [S EXCEPT !.order[d] = InsertAt(@, Len(@), INode(i)),
                    !.fb[f].off = @ + step, !.fb[f].size = @ - step,
                    !.devs[d].item_nr = @ + 1,
                    !.devs[d].consumed = @ + BlockSize(it.len), !.ret = BlockSize(it.len)]

(* device_cut_free_block: the item takes the front of the tail free      *)
(* block, after a gap block if it does not start there; the tail block   *)
(* is shrunk but not re-indexed.  ret is the block size, or 0.            *)
CutFreeBlock(S, i) ==
  LET it == S.item[i]
      d == it.dev
      f == Last(S.order[d]).id
      cur == S.fb[f]
      bsize == BlockSize(it.len)
      gap == it.off - cur.off
      step == bsize + gap
      S1 == IF gap > 0 THEN FblockInsert(S, d, Len(S.order[d]), cur.off, gap) ELSE S
  IN IF it.off < cur.off \/ cur.size < step THEN [S EXCEPT !.ret = 0]
     ELSE [S1 EXCEPT !.order[d] = InsertAt(@, Len(@), INode(i)),
                     !.fb[f].off = @ + step, !.fb[f].size = @ - step,
                     !.devs[d].item_nr = @ + 1, !.devs[d].consumed = @ + bsize,
                     !.ret = bsize]

\* Mutation variant: the server's consumed bytes are not counted.
LoadFmItemNoConsumed(S2, s, i) ==
  IF S2.ret = 0 THEN [S2 EXCEPT !.item[i] = FreeItem, !.ret = OHC_ERROR]
  ELSE [S2 EXCEPT !.hash[s][S2.item[i].key] = @ \cup {HItem(i)},
                  !.lru[LruHead(S2, s)] = <<i>> \o @,
                  !.srvs[s].content = @ + S2.item[i].len,
                  !.srvs[s].item_nr = @ + 1, !.ret = OHC_OK]

\* Mutation variant: the loaded item is hashed but put on no LRU list.
LoadFmItemNoLru(S2, s, i) ==
  IF S2.ret = 0 THEN [S2 EXCEPT !.item[i] = FreeItem, !.ret = OHC_ERROR]
  ELSE [S2 EXCEPT !.hash[s][S2.item[i].key] = @ \cup {HItem(i)},
                  !.srvs[s].consumed = @ + S2.ret,
                  !.srvs[s].content = @ + S2.item[i].len,
                  !.srvs[s].item_nr = @ + 1, !.ret = OHC_OK]

\* The end of server_load_fm_item, once the block is cut (ret) or not (0).
LoadFmItemEnd(S2, s, i) ==
  IF S2.ret = 0 THEN [S2 EXCEPT !.item[i] = FreeItem, !.ret = OHC_ERROR]
  ELSE [S2 EXCEPT !.hash[s][S2.item[i].key] = @ \cup {HItem(i)},
                  !.lru[LruHead(S2, s)] = <<i>> \o @,
                  !.srvs[s].consumed = @ + S2.ret,
                  !.srvs[s].content = @ + S2.item[i].len,
                  !.srvs[s].item_nr = @ + 1, !.ret = OHC_OK]

\* server_load_fm_item
ServerLoadFmItem(S, s, d, rec) ==
  LET free == {i \in ItemIds : S.item[i].srv = NoSrv}
      i == Min(free)
  IN IF free = {} THEN [S EXCEPT !.ret = OHC_ERROR]
     ELSE LoadFmItemEnd(
            CutFreeBlock([S EXCEPT !.item[i] = [FreeItem EXCEPT
                            !.srv = s, !.dev = d, !.off = rec.off, !.len = rec.len,
                            !.key = rec.key, !.expire = rec.expire]], i), s, i)

\* Mutation variant: the shrunk tail block keeps its old bucket.
DeviceLoadPostNoUpdate(S, d) ==
  LET f == Last(S.order[d]).id
  IN IF S.fb[f].size = 0 THEN FblockDelete(S, f) ELSE S

(* device_load_post: a used-up tail block is freed, otherwise it is      *)
(* re-indexed by its remaining size.                                       *)
DeviceLoadPost(S, d) ==
  LET f == Last(S.order[d]).id
  IN IF S.fb[f].size = 0 THEN FblockDelete(S, f)
     ELSE [S EXCEPT !.bucket = IpbUpdate(@, f, S.fb[f].size)]

RECURSIVE LoadRecords(_, _, _, _, _)

\* Mutation variant: records the dump's metadata overwrote are loaded too.
LoadRecordsNoOverride(S, d, recs, k, fault) ==
  IF k > Len(recs) THEN [S EXCEPT !.ret = OHC_OK]
  ELSE IF k = fault THEN [S EXCEPT !.ret = OHC_ERROR]
  ELSE IF recs[k].expire <= now THEN LoadRecords(S, d, recs, k + 1, fault)
  ELSE LoadRecords(ServerLoadFmItem(S, recs[k].srv, d, recs[k]), d, recs, k + 1, fault)

(* The record loop of format_load_device; ret is OHC_ERROR when an fread *)
(* of a record fails (goto out).                                           *)
LoadRecords(S, d, recs, k, fault) ==
  IF k > Len(recs) THEN [S EXCEPT !.ret = OHC_OK]
  ELSE IF k = fault THEN [S EXCEPT !.ret = OHC_ERROR]
  ELSE IF recs[k].off < Override(Len(recs)) \/ recs[k].expire <= now
       THEN LoadRecords(S, d, recs, k + 1, fault)
  ELSE LoadRecords(ServerLoadFmItem(S, recs[k].srv, d, recs[k]), d, recs, k + 1, fault)

\* After the loop: device_load_post, then the magic is cleared.
LoadPost(S1, d) == IF S1.ret = OHC_ERROR THEN S1 ELSE DeviceLoadPost(S1, d)

(* format_load_device; ret = OHC_OK when it got to clear the magic.  The *)
(* dump's servers are the configured ones, as the configuration is kept. *)
FormatLoadDevice(S, d, dk, dt, fault) ==
  IF fault = 0 \/ ~DumpValid(dk, dt, d) THEN [S EXCEPT !.ret = OHC_ERROR]
  ELSE LoadPost(LoadRecords(S, d, dk[d].recs, 1, fault), d)

(* device_format_load over the devices; ret collects the devices whose   *)
(* magic was cleared.                                                      *)
RECURSIVE FormatLoad(_, _, _, _, _, _), LoadNext(_, _, _, _, _, _, _)
FormatLoad(S, set, dk, dt, fault, cleared) ==
  IF set = {} THEN [S EXCEPT !.ret = cleared]
  ELSE LET d == CHOOSE x \in set : TRUE
       IN LoadNext(FormatLoadDevice(S, d, dk, dt, fault), d, set, dk, dt, fault, cleared)
LoadNext(S1, d, set, dk, dt, fault, cleared) ==
  FormatLoad(S1, set \ {d}, dk, dt, fault,
             IF S1.ret = OHC_OK THEN cleared \cup {d} ELSE cleared)

(* The memory after a start, from the disk dk and sectors dt: the        *)
(* configuration (device_add), then device_format_load.                   *)
Booted(dk, dt, fault) == FormatLoad(AddDevices(Empty, Dev), Dev, dk, dt, fault, {})

(* The start takes effect: "FeiLiWuShi" over the magic of every device   *)
(* that was loaded to the end, and last = timer_now.                      *)
Start(R, dk, dt) ==
  /\ Commit(R)
  /\ disk' = [d \in Dev |-> IF d \in R.ret THEN [dk[d] EXCEPT !.magic = FALSE] ELSE dk[d]]
  /\ data' = [d \in Dev |-> IF d \in R.ret THEN [dt[d] EXCEPT ![0] = Meta] ELSE dt[d]]
  /\ last' = now
  /\ restarts' = restarts + 1
  /\ UNCHANGED now

-----------------------------------------------------------------------------
(* The system                                                              *)

FmInit ==
  /\ Init
  /\ disk = [d \in Dev |-> [magic |-> FALSE, recs |-> <<>>]]
  /\ data = [d \in Dev |-> [q \in Sectors(d) |-> Blank]]
  /\ restarts = 0

(* The worker's writes of a PUT's body land on the item's sectors: the  *)
(* body when all of it was written without error, junk otherwise.        *)
WrittenData(r, whole, diskError) ==
  LET it == item[conn[r].item]
  IN IF ~it.putting THEN data
     ELSE [data EXCEPT ![it.dev] = Overwrite(@, SectorsOf(it.off, it.len),
                                     IF whole /\ ~diskError THEN Body(it.srv, it.key)
                                     ELSE Junk)]

FmFinish(r, whole, diskError) ==
  /\ Finish(r, whole, diskError)
  /\ data' = WrittenData(r, whole, diskError)
  /\ UNCHANGED <<disk, restarts>>

\* A master-thread step of the running process; the disk is not touched.
Running(A) == A /\ UNCHANGED fmvars

QuitWith(dk, dt, fault) == Start(Booted(dk, dt, fault), dk, dt)

(* "quit" from the admin channel: once every connection is gone          *)
(* (request_check_quit), the loop ends and device_format_store dumps     *)
(* every device; the process is then started again.                        *)
Quit(fault) ==
  /\ ~oops /\ restarts < MaxRestarts
  /\ \A r \in Req : conn[r].srv = NoSrv
  /\ QuitWith([d \in Dev |-> IF d \in Dumped(State) THEN StoreDisk(disk, d, DumpRecords(State, d))
                             ELSE disk[d]],
              [d \in Dev |-> IF d \in Dumped(State) THEN StoreData(data, d, DumpRecords(State, d))
                             ELSE data[d]],
              fault)

(* The process dies without a dump (the oops exit(1), a kill, a power   *)
(* loss) and is started again.                                             *)
Crash(fault) ==
  /\ restarts < MaxRestarts
  /\ Start(Booted(disk, data, fault), disk, data)

FaultPoints == ReadFaults \cup {NoFault}

FmNext ==
  \/ \E r \in Req, s \in Srv : Running(Accept(r, s))
  \/ \E r \in Req, k \in Key : Running(Get(r, k)) \/ Running(Delete(r, k))
  \/ \E r \in Req, k \in Key, len \in Lengths, m \in {"PUT", "POST"}, e \in ExpireInputs :
        Running(Put(r, k, len, m, e))
  \/ \E r \in Req, w, e \in BOOLEAN : FmFinish(r, w, e)
  \/ \E r \in Req : Running(Close(r))
  \/ \E s \in Srv : Running(Clear(s))
  \/ Running(Tick)
  \/ Running(Routine)
  \/ \E f \in FaultPoints : Quit(f) \/ Crash(f)

FmSpec == FmInit /\ [][FmNext]_allvars

-----------------------------------------------------------------------------
(* Properties                                                              *)

FmTypeOK ==
  /\ TypeOK
  /\ \A d \in Dev : /\ disk[d].magic \in BOOLEAN
                    /\ \A k \in 1 .. Len(disk[d].recs) :
                          disk[d].recs[k].srv \in Srv /\ disk[d].recs[k].key \in Key
                    /\ DOMAIN data[d] = Sectors(d)
  /\ restarts \in 0 .. MaxRestarts

(* Every item in the cache, once its PUT has ended, points at sectors    *)
(* that hold its own body: a GET hit sends the bytes of that key.  This  *)
(* is what the dump, the override check of format_load_device and the    *)
(* clearing of the magic together are for.                                 *)
ItemsIntact ==
  ~oops =>
  \A i \in ItemIds :
     Alloc(i) /\ ~item[i].putting /\ ~item[i].badblock =>
        \A q \in SectorsOf(item[i].off, item[i].len) :
           data[item[i].dev][q] = Body(item[i].srv, item[i].key)
=============================================================================
