# TLA+ models of OliveHC

OliveHC (`src/`) is an HTTP cache. A master thread parses requests and keeps all
metadata: servers, their item hashes and LRU lists, devices and their free-space
lists, and the size-class index of free blocks. Worker threads only move bytes,
with sendfile or pwrite on a device file. This project models the master-thread
metadata machine, which is where the correctness arguments of the design live,
and the hand-off of requests between the master and the workers through pipes.
It checks both with TLC.

## The system and how its parts interact

| Part | Source | What it does |
|---|---|---|
| ipbucket | `utils/ipbucket.h`, `utils/string.h` | Quantises sizes into 4 classes per power of two. Keeps one queue of free blocks per class: best-fit `get`, and `biggest`. |
| device space manager | `device.c`, `device.h` | Per device, a list of items and free blocks in offset order. Handles allocation (split from the rear), return with coalescing, badblock accounting and kicking, extend, and delete/destroy at reload. |
| server items | `server.c`, `server.h` | Per server: a hash of keys, an LRU (or the shared LRU when capacity is 0), and passby entries. Handles GET/PUT/DELETE, deferred delete of items in use, expiry, clear, and reload. |
| request state machine | `request.c` | Accepts connections, dispatches a parsed request to the server handlers, writes GET/HEAD responses with `sendfile` (a chain of handlers for a 206 range response), and finalizes: a canned page when nothing was sent, then keep-alive or close. |
| master loop | `olivehc.c` | An epoll loop. Once per second it runs `server_routine` and `device_routine`. Reload happens from the admin channel. |
| workers | `worker.c`, `worker.h` | Threads that run the transfer steps. The master writes a request into a worker's dispatch pipe (round-robin over a ring of workers), and the worker writes it back through its return pipe, queueing it on `blocked_requests` while that pipe is full. Reload creates and deletes workers; quit stops them all. |
| timer | `utils/timer.*` | The clock (`timer_refresh` reads `time(NULL)`) and, per thread, the timeouts: one FIFO group per distinct timeout, scanned from the head by `timer_expire`. |
| hash, slab, idx_pointer | `utils/` | Containers. |
| format | `format.c` | At quit, dumps the item metadata to each device. At start, loads it back. |
| events | `event.c` | Arms a request's one epoll watch and its timer node for the next phase, or drops both. |
| parsers and wrappers | `conf.c`, `http.c`, `utils/socktcp.c`, `utils/epoll.h` | Text parsing and system-call wrappers. |

A PUT's path:
1. `request_read_request_header` calls `server_request_put_handler`.
2. The handler checks sizes and expiry.
3. It deletes a replaced item or stores a passby entry.
4. It allocates an item and a block: `device_get_free_block`, which asks `ipbucket_get`.
5. When allocation fails, it retries through a cascade: server expire, shared expire, server expire again, then `device_free_block_extend`.
6. The worker writes the body, and `server_request_finalize` releases the item.

Deletes of items in use are deferred: the item is only unhashed and marked deleted. The last finalize frees it.

A reload marks servers and devices deleted. The routines then free them bit by bit.

## Modules

| Module | Models | State |
|---|---|---|
| `IPBucket` | `utils/ipbucket.h`, `bit_highest`, `bit_mask` | Pure operators. A bucket array is `[Buckets -> Seq(block id)]`, whose head is the list head. |
| `Device` | `device.c`: `fblock_insert/delete`, `kick`, `delete`, `get_free_block`, `return_free_block` | Pure operators over a store record `S` (see below). |
| `Store` | `server.c` handlers and routines, `device_destroy`/`free_block_extend`/`device_routine`, the request entry and finalize of `request.c`, and the master loop's steps | The variables and the actions. |
| `Format` | `format.c`; `device_cut_free_block`, `device_load_post`, `device_format_store/load`; `server_load_fm_item`; the body writes of `request_write_disk` | Extends `Store` with the disk: `disk[d]` (the superblock's magic and the item records), `data[d][q]` (what sector `q` holds: a body `<<server, key>>`, the dump's metadata, junk, or nothing), and `restarts`. |
| `Hash` | `utils/hash.c`: `hash_init`, `hash_add`, `hash_get`, `hash_search`, `hash_del` and `hash_expansion` | The table: `buckets`, `prev` (`prev_buckets`), `size`, `split`, `items`; the nodes' ids; `found`, the last answer of `hash_get`. |
| `Timer` | `utils/timer.c` (`timer_init`, `timer_add`, `timer_del`, `timer_update`, `timer_expire`), `timer_refresh`, `event.c`, `request_do_finalize`/`request_finalize`/`request_timeout_handler`, and one iteration of `worker_loop` or the master loop | `now`; `groups` (the group list, head first, each `[timeout, nodes]`); per request `deadline` (`tnode->timeout`), `group` (`tnode->group`), `events` (`r->events`), `open` (owned by this thread); `phase` (waiting in `epoll_wait` or running handlers). |
| `HashSets` | What the hash promises `server.c`: a set of nodes per key | `table`, `found`. This is the view `Store`'s `hash[s][k]` takes. |
| `Worker` | `worker.c` (dispatch, recycle, the worker loop, `worker_create`/`delete`, `worker_conf_check/load/rollback`, `worker_quit`), the worker side of `request_finalize`, `request_clean`, the reload steps of `olivehc.c` | `ring` (the workers from `current_worker` on), `quit_time`, `new_workers`, `gone`; `master`, per worker `working`, `blocked`, `dispatch` and `return` pipes; per request `thread` (`r->worker_thread`); per worker `request_nr`; `quitting`, `late` (the quit deadline passed). |
| `Response` | The GET/HEAD response handlers of `request.c` (`request_get_write_response`, the three `_206_` handlers), `request_send_file`, `request_send_buffer`, the cork helpers; the PUT branch of the head dispatch, `request_put_read_request_body_preread`, `request_put_read_request_body`, `request_write_disk`, and `server_request_finalize`'s keeping or deleting of the put item; `request_finalize`/`request_do_finalize`'s page and keep-alive, `request_reset`; from `http.c` the ranges `http_parse_get_range` accepts, the PUT head's pre-read check, an unknown method, `http_code_page`'s table and the header lengths (`numlen`) | One connection: `r` (the request fields the path uses: method, range, body length, pre-read bytes, whether a put item is held, `http_code`, the armed handler, `process_size`, `output_size`, `cork`, `connection_broken`, `disk_error`, `keepalive`), `sockcork` (TCP_CORK on the socket), `wire` (what this response sent), `pending` and `surplus` (declared and undeclared body bytes still on the socket), `slot` (the put item's block as written), `conn`, `served`, and the ghosts `answer` (the last finalized response) and `stored` (the last item a PUT left in the store). |
| `ServerConf` | `server.c`: `server_conf_check`, `server_conf_load`, `server_conf_rollback`, `server_update`, `server_create`, `server_destroy`, `server_stop_service`; `idx_pointer_add/delete`; `tcp_bind`; `olivehc_load_conf` | `servers`, `deleted` (the two lists, each server a record of port, log, index, listen fd and log fd), `ipt` and `lowest` (`server_indexs`), `fdt` (what each descriptor number is open on), `hashes`, `conf` (the last parsed file), `loaded`, `quitting`, `reloads`. |
| `MCResponse` | Bodies of 0 and 2 bytes, range ends 0, 1 and 3, header lines shrunk to a byte plus the Content-Length digits, a PUT body followed by at most one undeclared byte, two requests per connection. | |
| `MCServerConf` | Two ports, two log paths, six descriptors, files of up to two servers, four reloads; symmetry over ports and logs. | |
| `MCWorker` | Two requests, three workers, 2 threads at start and up to 4 at reload, pipes of one pointer. | |
| `MCStore` | Model values for devices, servers, keys and connections. | |
| `MCHash` | Three nodes, three keys whose folded ids share and then part buckets, buckets from 2 to 4. | |
| `MCTimer` | Three requests, timeouts 1 and 2, a clock up to 3; symmetry over requests. | |
| `MCFormat` | One device, one server, two keys, one connection; the dump's header scaled into sector 0. | |

Every master-thread handler runs to completion before the next event is
handled. So each C function is an operator from a store record `S` to the record
after the call. The fields of `S` are the variables, plus `ret`, the C return
value. An action is `Commit(Handler(State, ...))`. A C loop is a RECURSIVE
operator that carries its counter, with the same `LOOP_LIMIT` checks in the same
places as the code. Early returns are IF branches in code order.

Pointers become ids. An item, free block or passby entry is an id into a bounded
pool, and a free slot is marked with `NoSrv`/`NoDev`. Allocation takes the
lowest free id; an exhausted pool is `slab_alloc` returning NULL.

Lists:
- An order list is a sequence of nodes `[t |-> "F"|"I", id]` in list order.
- LRU lists have the most recent item first. The code scans from the tail.

| Variable | Code |
|---|---|
| `devs[d]` | `ohc_device_t`: deleted, kicked, used, item_nr, fblock_nr, consumed and badblock. `fd` is whether the fd is still open. `gone` is whether the struct was freed. |
| `order[d]` | `d->order_head` |
| `fb[f]` | `ohc_free_block_t` (offset, block_size, device) |
| `bucket` | the global `free_blocks` ipbucket |
| `item[i]` | `ohc_item_t`: server, device, offset, length, key, putting, deleted, badblock, used, clear and expire |
| `hash[s][k]` | the nodes `s->hash` holds for key `k`: items and passby entries |
| `lru[l]` | `s->lru_head`, and `shared_lru_head` under the id `SharedLru` |
| `pb`, `plru` | passby items, `s->passby_lru_head` |
| `srvs[s]` | `ohc_server_t`: deleted, gone (freed), capacity, clear, consumed, content, item_nr and passby_item_nr |
| `conn[r]` | a client connection: its `r->server` and `r->item` |
| `now`, `last` | `timer_now(&master_timer)`, and the `last` of `olivehc_master_entry` |
| `oops` | the `exit(1)` in `device_get_free_block` |

Actions of `Store`:
- `Accept` is `request_process_entry`.
- `Get`, `Put` and `Delete` are the three branches of `request_read_request_header`, each running the whole server handler.
- `Finish` is the worker's return followed by `request_do_finalize`. It either moved the whole body or not, and it either hit a disk error or not.
- `Close` is the close path of `request_do_finalize`.
- `Clear` is `server_clear`.
- `Tick` is the clock advancing. `Rebase`, only in `LiveSpec`, is the clock advancing past `MaxTime` (see Fairness).
- `Routine` is `server_routine` followed by `device_routine`.
- `ServerDelete`, `ServerUpdate` and `DeviceRemove` are the reload steps of `server_conf_load` and `device_conf_load`.

Actions of `Format` wrap those of `Store` (`Running(A)` leaves the disk alone; `FmFinish` also lands the PUT's bytes on the item's sectors) and add:
- `Quit(f)`: once no connection is left (`request_check_quit`), `device_format_store` dumps every device, and the process starts again.
- `Crash(f)`: the process dies without a dump (the oops `exit(1)`, a kill, a power loss) and starts again.
- Both end in a start: the configured devices (`device_add`), then `device_format_load`, where an fread may fail at the header (`f = 0`) or at record `f`. A device loaded to the end gets "FeiLiWuShi" over its magic.

`Hash` is a translation of the table. A call is an operator over a record of its fields, as in `Store`. `hash_add` and `hash_get` both run a step of `hash_expansion`, and their `ok` parameter is whether its `calloc` succeeds. `Hash` refines `HashSets`: `Abstract == INSTANCE HashSets WITH table <- ...` maps the table to the nodes chained under each key, and `HashSetsSpec`, its specification, is a property of the run. Store models a server's hash by `HashSets`'s view, and this refinement is what justifies that.

`Timer` models one thread's timer; the master and each worker own one, and they never share it. A loop iteration is `Refresh` (`epoll_wait` returns, `timer_refresh`), then any number of handler steps, then `Expire` (`timer_expire` and `request_timeout_handler` for each expired request). A handler step is one of:
- `Receive`: a request arrives (accepted or read from a pipe), and its first handler arms an event.
- `Arm`: a ready request's handler arms `event_add_read` or `event_add_write` again.
- `Finish`: a ready request's handler calls `request_finalize`. That is an `event_del`, then either the keep-alive re-arm or the close. In a worker it is the hand-back to the master, which also starts with `event_del`.

What a handler does with its socket is abstracted to the event it arms next. The server's timeouts are any member of `Timeouts`, as a reload may change them. `ok` and `epOk` say whether a group's `malloc` and the epoll call succeed.

`Response` follows one client connection through its GET, HEAD and PUT requests. The wire holds one token per byte sent: the device offset `sendfile` read it from, or a record for a buffer built in memory (the 206 Content-Range prefix, a canned page). Each action runs one handler whole, as the event loop calls it:
- `Receive`: the GET/HEAD branch of `request_read_request_header` once the head is parsed: a parse error (400, keep-alive off), no item (404), no worker (500), or the 206 or 200 handler dispatched.
- `WriteResponse`, `HeaderMem`, `HeaderDisk` and `WriteBody`, each when `Ready`: the handler armed last runs. The 206 handlers call each other directly, so one step may send the prefix, the stored headers and the body. Each `sendfile` sends part of what is asked, returns EAGAIN (the handler is armed again and resumes from `process_size`), or fails on the socket or, with `DiskErrors`, with EIO.
- `ReceivePut`: the PUT branch of `request_read_request_header`. The head arrives with the first `k` bytes of a body of `n` declared and `x` undeclared bytes. A pre-read past Content-Length fails the parse (400, keep-alive off). Otherwise `server_request_put_handler` stores the item (201), declines it (204), declines it with `shutdown_if_not_store` (keep-alive off), fails (NoSpace, 500), or the item is allocated and no worker takes the request (TooBusy, 500). A stored or declined PUT is dispatched to `PreReadBody`.
- `PreRead` and `ReadBody`, when `Ready`: the pre-read writes the status line, the passthrough headers, "\r\n" and the pre-read body in one `request_write_disk`, then runs the body loop. The loop is a recursive operator, one iteration per `recv`. A recv returns any part of what the client sent, EAGAIN (re-armed), 0 or a reset (broken), or more than is left of the item (BodyLargerThanDeclared). `request_write_disk` writes at `process_size` into the item's block, only counts bytes for a declined PUT, or fails with `DiskErrors`.
- `Garbage`: a head read while body bytes are still on the socket. The parse meets them where a method should be (UnknownMethod, 400).
- `ClientClose`: the client closes while a head is awaited. `Accept`: a new connection.
- Every path ends in `Finalize`: the canned page of `http_code` when nothing was sent on a healthy socket, then `server_request_finalize` (`ItemRelease`: a put item is kept only if `process_size` reached its length without a disk error), then `request_reset` and keep-alive, or the close.

The expected answer (`Expected`) is computed from the request by RFC 7233's byte-range rules and the stored layout (status line with Content-Length, passthrough headers, body), independently of the code's `RangeResolve`. What a stored item must hold (`Layout`) is the status line, the passthrough headers, "\r\n" and the declared body bytes in the client's order. So `StoredExact` and `ResponseExact` together give spec.md's round trip: a PUT of body B, then a GET, returns B.

`Worker` models the threads and the pipes between them. Each action is one handler or one loop step, whole:
- Master side: `Accept` (`request_process_entry`), `Close` (finalize in the master), `Dispatch`/`DispatchNoWorker` (`worker_request_dispatch`; on EAGAIN or with no worker the master answers TooBusy and keeps or closes the connection), `Recycle` (`worker_request_recycle`: read the return pipe, decrement `request_nr`, and re-admit or close each request).
- Worker side: `Receive` (read the receive pipe into `working_requests`), `Finish` (`request_finalize` in a worker: write to the return pipe, or on EAGAIN put the request at the head of `blocked_requests`), `Retry` (`request_clean(&worker->blocked_requests)` at the top of the loop: each blocked request is finalized again, and those that meet EAGAIN go back to the head of the list, so in reverse order), `Clean` (after the quit deadline, every working request is returned or blocked), `Exit` (`quit_time` set and `request_nr` 0: `worker_destory`).
- Configuration: `ReloadOk` (`worker_conf_check` then `worker_conf_load`), `ReloadCreateFails` (a `worker_create` fails and the reload is rolled back), `ReloadRollback` (a later check fails and `worker_conf_rollback` runs with the `new_workers` left over), `Quit` (`worker_quit`), `Deadline` (the clock passes the quit deadline), and `Terminated` (the master exits once every connection is closed).

The ring is a sequence from `current_worker` on. `worker_create` links a worker after the head, and `worker_delete` unlinks the workers after the head, so `Linked` and `Unlinked` act at position 2.

`ServerConf` models the server half of a reload, and what it holds: listen sockets, access logs, hashes and index slots. A descriptor is a number from `FdNum`; `socket`, `open` and `fopen` take the lowest free one, and run out when none is free (EMFILE). `server_conf_check` keeps its progress in the configured entries (`held`: the fds, the hash and the link `s->conf`), and is a recursive operator with one level per entry; at each level the outcome of the checks TLC cannot compute (the timeouts, `bind`, `hash_init`, `fopen`) is chosen from `Faults`. Actions:
- `Reload(c)`: `olivehc_load_conf` with the file `c`. The global or device check may fail first (`OtherChecksFail`); then `server_conf_check` walks the entries, and on success the worker check may still fail. A failure ends in `server_conf_rollback`; otherwise `server_conf_load` deletes the unlinked running servers, then updates or creates each entry in order. The first load is the start, and its failure ends the process.
- `ServerDestroy(j)`: `server_destroy` of a deleted server whose items are gone (when that happens is `Store`'s concern): its hash, log and index go.
- `Quit`: `server_stop_service` closes every listen socket.

Definitions named `...NoX`, `...KeepX`, `...Front`, `...Coarse` and so on are mutation
variants. Each is a plausible bug in the definition it precedes, and each is
used to show that a property detects that bug. `PROJECT.json` maps every other
definition to the source lines it translates.

## Runs

| Run | Config | Result | What it shows |
|---|---|---|---|
| `store_core` | `MCStore.cfg` | pass | One connection, two servers (one on the shared LRU), two keys, lengths 400 and 1000 on a 1536-byte device, passby entries and admin clears. Under all interleavings the space tiles the device exactly, free blocks stay coalesced, every counter matches what it counts, the free index is exact, the hash and LRUs are consistent, held items are never freed or closed, and the oops exit is unreachable. |
| `store_server_freed` | `MCStoreFreed.cfg` | pass | Under `LiveSpec`: one device, one connection, a reload that drops the capacity-0 server or moves the other to the shared LRU, and admin clears. Every deleted server that no connection refers to is freed in the end (`ServerEventuallyFreed`), even when its items sit on the shared LRU behind valid items of another server. |
| `store_reload` | `MCStoreReload.cfg` | pass | Two devices, one dropped at reload. One server is dropped and the other is moved to capacity 0. Items in use stay allocated and their fd stays open, and the free index stays exact while destroy works through the deleted device. |
| `format_restart` | `MCFormat.cfg` | pass | With reads that never fail, every quit-and-start and crash-and-start rebuilds a consistent store (tiling, counters, free index, hash and LRUs), and every cached item points at sectors holding its own body (`ItemsIntact`): the override check keeps out items the dump's header overwrote. |
| `stale_dump_reloaded` | `MCFormatStale.cfg` | violation | A failed read of the dump leaves the magic; the running cache reuses the dumped block; a crash; the next start loads the old record over another write's bytes. |
| `hash_refinement` | `MCHash.cfg` | pass | Through an expansion, with gets and adds advancing the split and deletes taking nodes from either array, every node sits in the bucket its id picks (in the old array for buckets not yet split), `hash->items` stays exact, and the table implements `HashSets`: a get finds a present key, wherever the split has left it. |
| `timer_expiry` | `MCTimer.cfg` | pass | Three requests are armed, re-armed between the two timeout groups, kept alive, finalized and expired. With a clock that never goes back, every group stays in deadline order, so after `timer_expire` no node left on a group is overdue (`ExpireComplete`). A node is on a group, once, exactly while its request is owned with an event armed, and on the group `tnode->group` names (`TimerLinkage`). |
| `response_exact` | `MCResponse.cfg` | pass | GET and HEAD, with and without a Range, over a socket that sends part of what is asked, blocks or breaks: every response finished without an error put exactly the bytes RFC 7233 and the stored layout call for on the wire (`ResponseExact`), across the 206 chain's two `sendfile` rounds and their `process_size`. PUTs stored, declined, refused or with a bad head, with the body split anyhow between the head's recv and later recvs, one byte too long, or cut off by the client. Every item a PUT leaves in the store holds exactly its layout (`StoredExact`), and no kept-alive connection reads a head while declared body bytes are unread (`StreamInSync`). The space and dispatch failures that break the latter are `response_put_desync`'s. |
| `response_put_desync` | `MCResponseDesync.cfg` | violation | A PUT that `server_request_put_handler` fails for want of space is answered 500, and the connection waits for its next head with the body still on the socket (`StreamInSync`, in two steps). |
| `server_conf_reload` | `MCServerConf.cfg` | pass | Four reloads of up to two servers; every check of `server_conf_check` may fail at every entry, a descriptor may run out, a later check may fail, and deleted servers are destroyed and the service stopped in between. Every open descriptor belongs to exactly one running or deleted server and is open on what it names, with one hash per server (`ResourcesOwned`); a reload either installs the file's servers in its order, a kept port keeping its index and listen socket, or leaves the running servers alone (`ReloadAllOrNothing`). |
| `worker_handoff` | `MCWorker.cfg` | pass | Through dispatches that hit a full pipe, returns that block, reloads that create, delete and fail, and quit with its deadline: a request is held by at most one list or pipe, `r->worker_thread` names the worker exactly while the worker holds it, a gone worker holds nothing (`OwnershipHandoff`, spec invariant 5), `request_nr` is exact (`RequestNrExact`), and under the fairness below every deleted or quitting worker exits (`DeletedWorkerExits`). |
| `server_freed_under_connection` | `MCStoreConnections.cfg` | violation | `server_destroy` frees a deleted server while a keep-alive connection still refers to it (a use after free). |

## Findings

- **Badblocks do not keep spec invariants 1 and 2.** `device_return_free_block`'s badblock path (`device.c:488-497`) neither recycles the block nor decrements `item_nr`/`consumed`. So free blocks on either side of a badblock become order-list neighbours that never merge, and `consumed` keeps the badblock's bytes. The model's `SpaceTiling` and `Accounting` state what the code does keep: the badblock bytes are accounted separately.
- **A deleted server is freed under its open connections.** `server_destroy` (`server.c:800-816`) frees the server without looking at `s->connections`. Keep-alive connections keep `r->server`, and `request_read_request_header` never checks `deleted`. The connections' next request or close touches freed memory.

- **A failed read of the dump is loaded again later.** `format_load_device` jumps to `out` on a failed fread (`format.c:145`, `173`) before clearing the magic. The dump stays valid while the cache reuses its blocks, and after a crash the next start serves the old keys from bytes other PUTs wrote (`stale_dump_reloaded`).
- **A disk error on a GET kills the process.** `request_send_file` answers EIO by setting `disk_error`, not `connection_broken` (`request.c:104-115`). If nothing was sent yet, `request_finalize` looks up the canned page of `http_code` (`request.c:212-213`), which is still 200 or 206. `http_code_page` has no such page and returns NULL (`http.c:362`), and `page->base` is read from it. spec.md (4.G, and the error table of section 7) says the finalizer sends a canned page for error codes when nothing was sent, and answers a SendfileError on EIO with 500. `FinalizeFindsPage` states it, and `MCResponseDiskError.cfg`, kept beside the runs, has TLC reach the NULL page in one GET; it is no longer a standing run, as the run went to the server reload. Badblock handling exists for exactly this error, and the process dies before it runs.
- **A disk error in the middle of a response keeps the connection alive.** When EIO comes after part of a response was sent, `request_do_finalize` keeps the connection (`request.c:195`), as only `disk_error` is set. The client reads the next response as the rest of the truncated body. On the 206 path the socket also stays corked, as `request_reset` zeroes `r->cork` without clearing the option: `CorkReleased` states that a kept-alive connection is never left corked, and `MCResponseCork.cfg`, kept beside the runs, has TLC break it in four steps (a ranged GET whose stored headers fail with EIO). It is not a standing run, as the run budget is full, and the pass run, which keeps disk errors off, no longer checks it. `Response` reaches both with `DiskErrors` TRUE; the kept `MCResponseDiskError.cfg` checks the NULL page, and the standing runs keep disk errors off where they check the response bytes and the cork.
- **A PUT refused with 500 leaves its body to be parsed as the next request.** When `server_request_put_handler` fails (NoSpace after the eviction cascade, or NoMem), `request_read_request_header` sets 500 and goes to `fail` (`request.c:489-491`) without clearing `r->keepalive`. `request_do_finalize` then resets the request and waits for the next head on the same socket (`request.c:195-198`), while the PUT's body, all but what came with the head, is still on it. Those bytes are parsed as the next request. The client gets a 400 it never asked for, or, if the body reads as HTTP, the server runs a request the client never sent: request smuggling behind a proxy that reuses connections. The TooBusy dispatch failure (`request.c:503-508`) and a failed `pwrite` of the pre-read or of a body chunk (`request.c:296`, `263`) take the same path. The declined branch of the same switch drains the body, or clears `keepalive` with `shutdown_if_not_store`, and spec.md 4.G recycles only a healthy connection (`response_put_desync`).
- **The pre-read copy can overflow its stack buffer by 4 bytes.** `request_put_read_request_body_preread` copies the 200 status line (35 bytes plus the Content-Length digits) and `put_headers` into `char buffer[REQ_BUF_SIZE]` (`request.c:283-294`). `put_headers` is everything after the handled headers: the passthrough headers, "\r\n" and the pre-read body. The head buffer holds 4095 bytes, of which the shortest request line (`PUT a HTTP/\r\n`) takes 13 and a `Content-Length:4059\r\n` header 21. With 4059 body bytes in the same segment the copy is 39 + 2 + 4059 = 4100 bytes. This is arithmetic on the real header lengths, which the model shrinks, so no run checks it; it is listed as a hazard.
- **A timeout can fire late after the wall clock is set back.** `timer_refresh` uses `time(NULL)` (`timer.h:53`), not a monotonic clock. Deadlines in a group FIFO then go out of order, and `timer_expire` stops at an unexpired head (`timer.c:141`) while overdue nodes wait behind it. `MCTimerClock.cfg`, kept beside the runs, has TLC find it (`ExpireComplete` violated with `ClockSteps` TRUE). It is not a standing run, as the delay is bounded by the size of the step.
- **A rollback after a failed worker create deletes workers of the old pool.** When `worker_create` fails, `worker_conf_check` sets `new_workers` to the number it made (`worker.c:220-226`), and the reload ends in `worker_conf_rollback`, which deletes them. Nothing resets `new_workers` but `worker_conf_load`. A later reload that fails before `worker_conf_check` runs (a bad log, device or server configuration, or `threads = 0`) is rolled back too, and `worker_conf_rollback` (`worker.c:239`) again deletes `new_workers` workers after `current_worker`: now workers of the old pool. So spec.md's "rollback preserves the prior pool" does not hold: `RollbackPreservesPool` fails under `MCWorkerRollback.cfg`, which is kept beside the runs but is no longer one of them; the run went to the PUT desync below, which clients meet.
- **A reload that replaces every server can run past the server index table.** `server_conf_check` counts the deleted servers and the configured ones against `SERVERS_LIMIT` (`server.c:192-202`), but not the running servers the load is about to delete, which keep their slots of `server_indexs` until they drain. A file that names only new ports, as many as the running servers, passes the check, and `server_create` then calls `idx_pointer_add` once the table is full: at `lowest = IPT_ARRAY_SIZE` it returns -1 (`idx_pointer.h:30-31`), which `server_dump_ports` later uses as `ports[-1]`; below that, its scan (`idx_pointer.h:34-36`) walks past the array. `SERVERS_LIMIT` is `IPT_ARRAY_SIZE` (`server.h:129`), so the model's one constant is the code's. `IndexExact` states what the table should keep, and `MCServerConfOverflow.cfg`, kept beside the runs, has TLC break it with a table of five slots: three servers replaced by three new ports get indexes 3, 4 and -1. In the code this takes some 2048 servers, and it is not a standing run.
- **`tcp_bind` leaks its socket on three error paths.** After `socket` succeeds, a failing `set_nonblock`, `setsockopt` or `set_defer_accept` returns -1 without closing it (`socktcp.c:118-129`); only the `bind` failure closes it. A reload that fails there leaks a descriptor. `ServerConf` models `tcp_bind`'s socket and its closing on a failed bind, but not these three calls, which do not fail on a valid socket in practice.
- **A failed `event_add` is ignored.** The callers of `event_add_read/write/keepalive` (`request.c:197, 274, 316, 334, 353, 530`) ignore its result, and `event_add` ignores `timer_update`'s when the event is unchanged (`event.c:20`). After a failed `epoll_add`, `epoll_mod` or group `malloc`, the request has no event or no timer node, and is never ready and never times out. `Timer` models the failure (`Fallible`), and with it `TimerLinkage` fails within four steps; the runs set `Fallible` to FALSE so that they check the code's behaviour when the calls succeed.
- **A failed read after some records leads to the oops exit.** The same jump skips `device_load_post`, which `device_cut_free_block` relies on to re-index the shrunk tail block (`device.c:564-565`). A later PUT bigger than the block's real size takes it from its stale bucket and calls `exit(1)` (`MCFormatOops.cfg` reproduces it: one failed record read, then the oops). That config is kept beside the runs but is not one of them, as `stale_dump_reloaded` already stands for the same jump.

## Bounds, and why they are enough

**Store (`IPB_END = 12`):**
- Devices are 1536 (core) and 1024 bytes. Lengths are 400 and 1000, which give blocks of 512 and 1024. So the core device holds an exact fit and a split, a full device, and all four coalescing cases.
- `MaxItems = 2`, `MaxFblocks = 3` and `MaxPassby = 1` bound the slabs. Two items are enough for a neighbour on each side of a free block.
- `LOOP_LIMIT = 2` (1000 in the code) makes the loop-limit exits of every loop reachable.
- `MaxTime = 1`, with expiry 1 second, lets items expire once.
- `MaxClear` bounds the admin clears. `CLEAR_BITS = 16` is the code's width.
- `BadblockPercent = 40`, so one badblock of 512 bytes on a 1024-byte device kicks it.

Connections and keys are symmetric model values.

`store_server_freed` has one device, one connection and one key, and no symmetry, as TLC's liveness checking does not allow it. Two connections took it past 15 minutes. One connection is enough for the case the property is about. `s1` has capacity 0 and may be dropped, and a reload may move `s2` to capacity 0. So `s2` can put a valid item on the shared LRU before `s1` puts its own, and once `s1` is dropped its item waits behind `s2`'s until that expires or is cleared. With one key, no passby entry is ever stored (`PassbyBeginItemNr = 1` needs an item of another key), so passby is left off.

`store_core` has one connection: two took the merged run, with passby on, past 15 minutes. One connection still meets every deferred delete, because the master's routine expiry and the admin clears delete items under it. Eviction does not: it runs inside the connection's own PUT, while that connection holds no other item. With one connection, the clauses of `HeldItemsStayAllocated` about several holders of one item are vacuous. Passby needs the two keys, as `PassbyBeginItemNr = 1` asks for an item of another key first.

**Response.** Bodies of 0 and 2 bytes: an empty body makes every range unsatisfiable, and a 2-byte one has a first and a last byte. Range ends 0, 1 and 3 give ranges inside the body, ending past it, starting at or past its end, and suffixes shorter than, equal to and longer than it, as well as "-0". The status line and the passthrough headers are one byte each besides the Content-Length digits (35 and more bytes in the code). Their lengths only move offsets, and the stored headers after the status line still take a `sendfile` round of their own. One byte of other data after the item is where a range sent past the body would read. Every count `sendfile` may return is enumerated, so partial sends split every round at every byte. Two requests per connection let a response follow a kept-alive one.

For PUT the same body lengths serve: a 0-byte body has nothing to read after the head, and a 2-byte one can be split between the head's recv and one or two later recvs. Every pre-read split `k` from 0 to `n + x` and every recv count are enumerated. `Overrun = 1` lets a client send one byte past Content-Length, so each of the three outcomes occurs: the head's check fails (`http.c:311`), the loop's check fails (`request.c:255`), or the body completes and the extra byte is parsed as the next head (`Garbage`). The pass run's `PutOutcomes` are stored, declined, refused and a bad head. NoSpace and TooBusy break `StreamInSync` at once and are `response_put_desync`'s. `StoredExact` was also checked with `DiskErrors` TRUE and holds there: the block of a failed write is deleted.

**Hash.** `HASH_BUCKET_SIZE_BEGIN = 2` (16 in the code), `HASH_BUCKET_SIZE_MAX = 4`, and `HASH_COLLISIONS = 1` (10 in the code), so two nodes start an expansion and three nodes fill the doubled table. The folded ids 0, 1 and 3 put k2 and k3 in one bucket at size 2 and in different buckets at size 4, so the split must move a node to the new half. Only the load factor and the bit widths differ from the code, and the algorithm does not depend on either.

**Timer.** Three requests and two timeouts let a group hold nodes armed at different times while another request moves between groups; a clock up to 3 lets nodes of both groups expire, one behind another, and lets a step back land below an existing deadline. The code's timeouts are tens of seconds, but only their order against each other and the clock matters.

**Format.** In the code the header is 8224 bytes (a 32-byte superblock and 4096 two-byte ports), and each record is 40 bytes, so the header spans 17 sectors. The model scales it to 300 + 100 bytes per record, so that the header and up to two records fit in sector 0. A dump then always overwrites an item at offset 0 and never one at 512, and both sides of the override check are reached. One consequence: the model does not reach the case where a body overwrites records but leaves the superblock and checksum intact. A failed or partial PUT leaves junk on all its sectors. All Format runs allow two restarts, which a dump, a load, a second dump and a second load need, and which the stale-record case needs. The pass run uses one length (400 bytes, one sector) and one admin clear, so that a cleared item is left out of a dump. The violation runs also use 1000 bytes, as the oops needs a PUT bigger than the stale tail block.

**Worker.** Two requests, three workers, `Threads = 2`, `MaxThreads = 4`, `PipeCap = 1`. A pipe of one pointer makes both EAGAIN paths (dispatch to a full pipe, return to a full pipe) reachable with two requests. Three workers let a reload create one and delete one. `MaxThreads = 4` is the least bound at which a failed create leaves `new_workers` above the ring's tail, so that a rollback deletes an old worker. A third request took the pass run past 7 minutes.

**ServerConf.** Two ports and two log paths, with symmetry over both (the code treats ports and paths only by equality). Files of up to two servers, so that a reload keeps one port and adds or drops another, links an entry to a running server, moves a kept server behind a new one, and changes a log. With `SERVERS_LIMIT = 4` the count check (`++count >= SERVERS_LIMIT - 1`) passes a file of two servers while no server is deleted and fails it while one is. Six descriptors are enough for two running servers, a deleted one and a half-checked file, and few enough that a file can run out of them. Four reloads let a server be deleted and destroyed while later reloads fail at each step. The overflow of the index table needs three-server files and `SERVERS_LIMIT = 5`, which is why it has its own configuration.

## Fairness

Two runs check liveness: `worker_handoff` (`DeletedWorkerExits`) and `store_server_freed` (`ServerEventuallyFreed`).

The worker fairness is `Fairness` in `Worker`:
- weak fairness on each worker's `Receive`, `Retry`, `Exit`, `Clean` and `Recycle`, and on each request's `Finish`;
- weak fairness on `Deadline`.

The code justifies these. Each worker loop and the master loop wake at least once per second (`epoll_wait` with 1000 ms), so every step that stays enabled is taken. A working request ends by its response or by its timer, and the clock passes the quit deadline.

Weak fairness does not force `Retry`. A return pipe the master drains can be refilled by other returns before the blocked request is retried, so `Retry` is only enabled now and then. Under weak fairness a blocked request can then wait for ever; that is the starvation hazard at `worker.c:60`. `DeletedWorkerExits` still holds, because a deleted worker gets no new requests.

The store fairness is `LiveFairness` in `Store`: weak fairness on the clock (`Tick`, or `Rebase` at the bound) and on `Routine`. The master loop justifies it. `epoll_wait` returns at least once a second, `timer_refresh` reads the new second, and `now != last` then runs `server_routine` and `device_routine` (`olivehc.c:169-219`). Nothing is assumed of clients. A connection may stay for ever, which is why `ServerEventuallyFreed` only speaks of servers that no connection refers to.

`WF_vars(Routine)` is written `WF_last(RoutineRuns)`. `Routine` is the one action that sets `last` to `now`, and it is enabled exactly when `RoutineRuns`'s guard holds, so the two are the same condition. Written this way, TLC does not compute both routines in every state just to know that `Routine` is enabled; with the direct form the run did not finish in 20 minutes.

**Time for liveness.** `Store`'s clock stops at `MaxTime`, and a clock that stops would make every expiry-driven liveness claim fail for a reason the code does not have. `LiveSpec` therefore adds `Rebase`: at the bound, one more second is modelled as every stored time moving one second back. The code only compares times (`expire > now`, `now != last`), so this is the same as the clock advancing. A deadline already past stays past (clamped at 0), the newest come one second closer, and `last` falls below `now`.

## Assumptions

- `utils/list.h` is not in the repository. `list_del` is taken to unlink the node, as in the Linux list whose API it copies, and `ipbucket_del` to be a no-op for an unlinked node.
- spec.md gives 93 buckets, but `IPB_BUCKETS` in the code is (32-9)*4-4+1 = 89. The model follows the code.
- In `Store`, `Format`, `Timer` and `Worker`, a request's transfer is abstracted to its outcome at finalize. `Response` models the GET/HEAD transfer and the PUT body receive.
- Closing a connection of a freed server writes freed memory. The model lets that write land harmlessly, so that the freed server shows up as the `ServerOutlivesConnections` violation rather than as a deadlock.

## Not modelled (yet), and the plan

Not modelled, with the reason:
- `conf.c` and most of `http.c` are text parsing. Their results are constants and action parameters; of `http.c`, `Response` models what the range parser accepts, the canned-page table and the header lengths.
- In `Response`, the key of a PUT and the eviction cascade are `server_request_put_handler`'s outcome, an action parameter; `Store` models them. PURGE and DELETE are `Store`'s.
- The head receive loop (`recv` into `_buffer`, `RequestHeadTooBig`) is one step with the parsed request as its result, and the head's byte-level parse is not modelled.
- `utils/epoll.h` is system-call wrappers; epoll's success is an input of `Timer`. Of `socktcp.c`, `ServerConf` models `tcp_bind`'s socket; its other early returns, `tcp_listen` and `tcp_accept` are left out (see the findings).
- `timer_closest` is never called, `timer_destroy` only frees memory, and the RFC1123 and log time strings are text conversions.
- In `Store`, the hash table is a set per key. `Hash` checks that abstraction against the code.
- Outside `ServerConf`, idx_pointer is abstracted: `Store` and `Device` refer to devices and servers directly. `device_conf_check`/`load`/`rollback` and the device index table are not modelled; `ServerConf` takes the device check as a check that may fail.
- A reload after quit: `server_stop_service` closes the listen sockets but leaves `listen_fd` set, and a later reload's `server_conf_load` (`server_delete`, `server_listen_update`) closes or reuses those numbers again, after they may have been given to other files. `ServerConf` stops reloads once quitting.
- In `Format`, the checksum is abstracted to "sector 0 still holds the dump". The ports lookup is the unchanged configuration (no reload runs in `MCFormat`). A write of the dump is atomic: a crash in the middle of `format_store_device` is not modelled.

Planned:
1. Composing `Timer` with `Worker`: a timeout racing the hand-back of a request through a full pipe, and the quit clean of `worker_check_quit`.
2. A reload after quit, which `Worker` excludes: `worker_conf_load` then runs on an empty ring with a dangling `current_worker`.
3. Liveness for deleted devices: `device_routine` eventually destroys them.
4. Numeric edges: the 16-bit clear counter wrapping, and the 32-bit item length.
5. Re-adding a device and `device_update` at reload.
6. The head's byte lengths at their real sizes, to check the pre-read copy against `REQ_BUF_SIZE`.
