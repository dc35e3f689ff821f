-------------------------------- MODULE Worker -------------------------------
(***************************************************************************)
(* The master thread and the worker threads of worker.c, and the hand-off *)
(* of requests between them.                                              *)
(*                                                                         *)
(* The master owns master_requests.  worker_request_dispatch writes a     *)
(* request pointer into the dispatch pipe of the worker current_worker    *)
(* points at, and advances current_worker around the headless ring of     *)
(* live workers.  A worker reads its receive pipe into working_requests,  *)
(* and returns a finished request through its return pipe; when that     *)
(* pipe is full the request waits on blocked_requests and is retried at   *)
(* the top of every loop.  The master reads the recycle pipe back into    *)
(* master_requests and counts the request off the worker's request_nr.   *)
(* A worker deleted at reload leaves the ring, gets quit_time = BIG_TIME  *)
(* and exits, closing its pipes, once request_nr is 0.                    *)
(*                                                                         *)
(* A reload is worker_conf_check (create workers up to the new          *)
(* `threads`; after a failed create, rollback deletes those), then either *)
(* worker_conf_load (delete the surplus, new_workers = 0) or, when a      *)
(* later check of the reload fails, worker_conf_rollback, which deletes   *)
(* new_workers workers after the current one.  olivehc_quit calls        *)
(* worker_quit: every worker gets QUIT_TIME and leaves the ring; once     *)
(* the quit deadline has passed                                           *)
(* a worker cleans its working requests by returning or blocking them.    *)
(*                                                                         *)
(* Pipes are non-blocking and hold PipeCap pointers; a pointer is far     *)
(* below PIPE_BUF, so a write is whole or fails with EAGAIN.  What a      *)
(* handler does with the socket is abstracted: a master request may be    *)
(* dispatched or closed, a working request eventually finishes (it sends  *)
(* its response, or its timer expires).                                   *)
(***************************************************************************)
EXTENDS Integers, Sequences, SequencesExt, FiniteSets, FiniteSetsExt

CONSTANTS
  Req,        \* the requests (ohc_request_t)
  W,          \* the workers that may ever be created (ohc_worker_t)
  NoWorker,   \* r->worker_thread = NULL: the request belongs to the master
  Threads,    \* the workers worker_conf_check creates at start
  MaxThreads, \* the largest `threads` a reloaded configuration gives
  PipeCap     \* request pointers a pipe holds before write fails with EAGAIN

VARIABLES
  ring,        \* the worker list from current_worker on: <<current, next, ...>>
  quit_time,   \* [W -> {0, QUIT_TIME, BIG_TIME}]: worker->quit_time
  new_workers, \* new_workers: the workers the last worker_conf_check created
  quitting,    \* the master's quit_time # 0: olivehc_quit has run
  late,        \* the clock has passed the quit deadline
  gone,        \* workers that ran worker_destory
  master,      \* master_requests
  working,     \* [W -> SUBSET Req]: worker->working_requests
  blocked,     \* [W -> Seq(Req)]: worker->blocked_requests, head first
  dispatch,    \* [W -> Seq(Req)]: the pipe dispatch_fd -> receive_fd
  return,      \* [W -> Seq(Req)]: the pipe return_fd -> recycle_fd
  thread,      \* [Req -> W \cup {NoWorker}]: r->worker_thread
  request_nr   \* [W -> Nat]: worker->request_nr

vars == <<ring, quit_time, new_workers, quitting, late, gone, master, working, blocked, dispatch, return,
          thread, request_nr>>

\* Quit deadlines, as an order: 0 < QUIT_TIME (now + quit_timeout) < BIG_TIME.
QUIT_TIME == 1
BIG_TIME == 2

\* The workers worker_create has made: on the ring, quitting, or gone.
Created == Range(ring) \cup {w \in W : quit_time[w] # 0}
Live == Created \ gone

\* Everything of worker w that a request may sit in.
HeldBy(w) == Range(dispatch[w]) \cup working[w] \cup Range(blocked[w]) \cup Range(return[w])

\* A request no list or pipe holds: closed and back in the request slab.
Free == Req \ (master \cup UNION {HeldBy(w) : w \in W})

Init ==
  /\ ring \in {s \in [1 .. Threads -> W] : Cardinality(Range(s)) = Threads}
  /\ quit_time = [w \in W |-> 0] /\ gone = {}
  /\ new_workers = 0 /\ quitting = FALSE /\ late = FALSE
  /\ master = {} /\ working = [w \in W |-> {}]
  /\ blocked = [w \in W |-> <<>>] /\ dispatch = [w \in W |-> <<>>]
  /\ return = [w \in W |-> <<>>]
  /\ thread = [r \in Req |-> NoWorker] /\ request_nr = [w \in W |-> 0]

-----------------------------------------------------------------------------
(* Master side                                                             *)

\* request_process_entry: an accepted connection joins master_requests.
Accept(r) ==
  /\ r \in Free /\ ~quitting
  /\ master' = master \cup {r}
  /\ UNCHANGED <<ring, quit_time, new_workers, quitting, late, gone, working, blocked, dispatch, return, thread, request_nr>>

\* request_do_finalize in the master: the connection is closed.
Close(r) ==
  /\ r \in master
  /\ master' = master \ {r}
  /\ UNCHANGED <<ring, quit_time, new_workers, quitting, late, gone, working, blocked, dispatch, return, thread, request_nr>>

\* current_worker = current_worker->next.
Advance(s) == Tail(s) \o <<Head(s)>>

Room(p) == Len(p) < PipeCap

\* Mutation variant: request_nr is counted up whether or not the write succeeded.
DispatchCountAlways(r, keep) ==
  /\ r \in master /\ ring # <<>>
  /\ LET w == Head(ring) IN
     /\ ring' = Advance(ring)
     /\ request_nr' = [request_nr EXCEPT ![w] = @ + 1]
     /\ IF Room(dispatch[w])
        THEN /\ dispatch' = [dispatch EXCEPT ![w] = Append(@, r)]
             /\ thread' = [thread EXCEPT ![r] = w] /\ master' = master \ {r}
        ELSE /\ master' = IF keep THEN master ELSE master \ {r}
             /\ UNCHANGED <<dispatch, thread>>
  /\ UNCHANGED <<quit_time, new_workers, quitting, late, gone, working, blocked, return>>

\* Mutation variant: a failed write leaves r->worker_thread on the target.
DispatchKeepThread(r, keep) ==
  /\ r \in master /\ ring # <<>>
  /\ LET w == Head(ring) IN
     /\ ring' = Advance(ring)
     /\ thread' = [thread EXCEPT ![r] = w]
     /\ IF Room(dispatch[w])
        THEN /\ dispatch' = [dispatch EXCEPT ![w] = Append(@, r)]
             /\ master' = master \ {r}
             /\ request_nr' = [request_nr EXCEPT ![w] = @ + 1]
        ELSE /\ master' = IF keep THEN master ELSE master \ {r}
             /\ UNCHANGED <<dispatch, request_nr>>
  /\ UNCHANGED <<quit_time, new_workers, quitting, late, gone, working, blocked, return>>

(* worker_request_dispatch, from request_read_request_header once a GET  *)
(* or PUT is accepted: the target is current_worker, which advances       *)
(* whatever the outcome.  worker_do_request_write sets worker_thread and  *)
(* unlinks r, then writes it; on EAGAIN it restores worker_thread and     *)
(* master_requests, and the caller answers 500 "TooBusy" and finalizes   *)
(* in the master, which keeps the connection alive (keep) or closes it.  *)
(* request_nr counts only a successful write.                            *)
Dispatch(r, keep) ==
  /\ r \in master /\ ring # <<>>
  /\ LET w == Head(ring) IN
     /\ ring' = Advance(ring)
     /\ IF Room(dispatch[w])
        THEN /\ dispatch' = [dispatch EXCEPT ![w] = Append(@, r)]
             /\ thread' = [thread EXCEPT ![r] = w] /\ master' = master \ {r}
             /\ request_nr' = [request_nr EXCEPT ![w] = @ + 1]
        ELSE /\ master' = IF keep THEN master ELSE master \ {r}
             /\ UNCHANGED <<dispatch, thread, request_nr>>
  /\ UNCHANGED <<quit_time, new_workers, quitting, late, gone, working, blocked, return>>

\* worker_request_dispatch with workers = 0 (after quit) fails at once: "TooBusy".
DispatchNoWorker(r, keep) ==
  /\ r \in master /\ ring = <<>>
  /\ master' = IF keep THEN master ELSE master \ {r}
  /\ UNCHANGED <<ring, quit_time, new_workers, quitting, late, gone, working, blocked, dispatch, return, thread, request_nr>>

\* Mutation variant: worker_request_recycle does not count the requests off.
RecycleNoCount(w, Kept) ==
  /\ w \in Live /\ return[w] # <<>> /\ Kept \subseteq Range(return[w])
  /\ master' = master \cup Kept
  /\ return' = [return EXCEPT ![w] = <<>>]
  /\ UNCHANGED <<ring, quit_time, new_workers, quitting, late, gone, working, blocked, dispatch, thread, request_nr>>

(* worker_request_recycle: the master drains the recycle pipe (reads of  *)
(* 50 pointers until a short one) into master_requests, runs each         *)
(* request's handler, request_do_finalize, which keeps the connection     *)
(* (Kept) or closes it, and counts them off request_nr.                   *)
Recycle(w, Kept) ==
  /\ w \in Live /\ return[w] # <<>> /\ Kept \subseteq Range(return[w])
  /\ master' = master \cup Kept
  /\ return' = [return EXCEPT ![w] = <<>>]
  /\ request_nr' = [request_nr EXCEPT ![w] = @ - Len(return[w])]
  /\ UNCHANGED <<ring, quit_time, new_workers, quitting, late, gone, working, blocked, dispatch, thread>>

-----------------------------------------------------------------------------
(* Worker side                                                             *)

\* worker_request_receive: the receive pipe is drained into working_requests.
Receive(w) ==
  /\ w \in Live /\ dispatch[w] # <<>>
  /\ working' = [working EXCEPT ![w] = @ \cup Range(dispatch[w])]
  /\ dispatch' = [dispatch EXCEPT ![w] = <<>>]
  /\ UNCHANGED <<ring, quit_time, new_workers, quitting, late, gone, master, blocked, return, thread, request_nr>>

\* Mutation variant: the return write is taken to always succeed.
FinishNoRoom(w, r) ==
  /\ w \in Live /\ r \in working[w]
  /\ working' = [working EXCEPT ![w] = @ \ {r}]
  /\ return' = [return EXCEPT ![w] = Append(@, r)]
  /\ thread' = [thread EXCEPT ![r] = NoWorker]
  /\ UNCHANGED <<ring, quit_time, new_workers, quitting, late, gone, master, blocked, dispatch, request_nr>>

(* A working request finishes (its handler completes, or its timer       *)
(* expires) and request_finalize calls worker_request_return: worker_thread *)
(* is cleared and r unlinked, then written to the return pipe; on EAGAIN  *)
(* worker_thread is restored and r goes to the head of blocked_requests.  *)
Finish(w, r) ==
  /\ w \in Live /\ r \in working[w]
  /\ working' = [working EXCEPT ![w] = @ \ {r}]
  /\ IF Room(return[w])
     THEN /\ return' = [return EXCEPT ![w] = Append(@, r)]
          /\ thread' = [thread EXCEPT ![r] = NoWorker]
          /\ UNCHANGED blocked
     ELSE /\ blocked' = [blocked EXCEPT ![w] = <<r>> \o @]
          /\ UNCHANGED <<return, thread>>
  /\ UNCHANGED <<ring, quit_time, new_workers, quitting, late, gone, master, dispatch, request_nr>>

(* request_clean(&blocked_requests, 0) at the top of the worker loop:    *)
(* every blocked request, head first, is finalized again (marked broken   *)
(* and "CleanByQuitTimeout", as its handler is request_do_finalize) and   *)
(* written again.  The first ones fit the return pipe; each of the others *)
(* fails and is put back at the head of the list.                         *)
Retry(w) ==
  /\ w \in Live /\ blocked[w] # <<>>
  /\ LET n == Min({PipeCap - Len(return[w]), Len(blocked[w])})
         sent == SubSeq(blocked[w], 1, n)
     IN /\ return' = [return EXCEPT ![w] = @ \o sent]
        /\ blocked' = [blocked EXCEPT ![w] = Reverse(SubSeq(@, n + 1, Len(@)))]
        /\ thread' = [r \in Req |-> IF r \in Range(sent) THEN NoWorker ELSE thread[r]]
  /\ UNCHANGED <<ring, quit_time, new_workers, quitting, late, gone, master, working, dispatch, request_nr>>

-----------------------------------------------------------------------------
(* Reload (olivehc_load_conf: worker_conf_check last of the checks, then   *)
(* worker_conf_load, or worker_conf_rollback when any check failed) and    *)
(* quit (olivehc_quit).  Both run in the master, between two requests.     *)

\* Workers worker_create may allocate next, in the order it creates them.
Fresh(n) == UNION {SetToSeqs(T) : T \in kSubset(n, W \ Created)}

(* worker_create for each of fresh: the new worker is linked right after  *)
(* current_worker, or becomes current_worker when there is none.           *)
Linked(rg, fresh) ==
  CASE fresh = <<>> -> rg
    [] rg = <<>>    -> <<Head(fresh)>> \o Reverse(Tail(fresh))
    [] OTHER        -> <<Head(rg)>> \o Reverse(fresh) \o Tail(rg)

(* worker_delete(num, qt): num times, current_worker->next leaves the    *)
(* ring (workers--) and gets quit_time qt, or BIG_TIME when qt is 0.       *)
Unlinked(rg, num) == <<Head(rg)>> \o SubSeq(rg, num + 2, Len(rg))
Victims(rg, num) == Range(SubSeq(rg, 2, num + 1))
Stamped(ws) == [w \in W |-> IF w \in ws THEN BIG_TIME ELSE quit_time[w]]

(* worker_conf_check passes (new_workers = threads - workers, all of them *)
(* created), and worker_conf_load deletes workers - threads of them and   *)
(* sets new_workers to 0.  threads is at least 1.                          *)
ReloadOk(threads, fresh) ==
  /\ ~quitting /\ fresh \in Fresh(Max({threads - Len(ring), 0}))
  /\ LET rg == Linked(ring, fresh) IN
     /\ ring' = Unlinked(rg, Len(rg) - threads)
     /\ quit_time' = Stamped(Victims(rg, Len(rg) - threads))
     /\ new_workers' = 0
  /\ UNCHANGED <<quitting, late, gone, master, working, blocked, dispatch, return, thread, request_nr>>

(* worker_create fails after made of the threads - workers new workers:   *)
(* worker_conf_check sets new_workers = made and fails, and                *)
(* worker_conf_rollback deletes new_workers workers behind current_worker. *)
ReloadCreateFails(threads, fresh) ==
  /\ ~quitting /\ Len(fresh) < threads - Len(ring) /\ fresh \in Fresh(Len(fresh))
  /\ LET rg == Linked(ring, fresh) IN
     /\ ring' = Unlinked(rg, Len(fresh))
     /\ quit_time' = Stamped(Victims(rg, Len(fresh)))
     /\ new_workers' = Len(fresh)
  /\ UNCHANGED <<quitting, late, gone, master, working, blocked, dispatch, return, thread, request_nr>>

(* A check before worker_conf_check fails (the error log, a device or a  *)
(* server), or worker_conf_check rejects threads = 0 before it sets       *)
(* new_workers: worker_conf_rollback deletes new_workers workers, the     *)
(* value the last worker_conf_check left.  Deleting current_worker itself *)
(* (new_workers >= workers) is not modelled.                               *)
ReloadRollback ==
  /\ ~quitting /\ new_workers < Len(ring)
  /\ ring' = Unlinked(ring, new_workers)
  /\ quit_time' = Stamped(Victims(ring, new_workers))
  /\ UNCHANGED <<new_workers, quitting, late, gone, master, working, blocked, dispatch, return, thread, request_nr>>

(* olivehc_quit, once: worker_quit(quit_time) deletes every worker with   *)
(* the real deadline now + quit_timeout; workers is then 0, so every     *)
(* later dispatch fails.  server_stop_service stops accepting.  A reload  *)
(* after quit links new workers behind the deleted current_worker, which   *)
(* is not modelled.                                                         *)
Quit ==
  /\ ~quitting
  /\ quitting' = TRUE
  /\ ring' = <<>>
  /\ quit_time' = [w \in W |-> IF w \in Range(ring) THEN QUIT_TIME ELSE quit_time[w]]
  /\ UNCHANGED <<new_workers, late, gone, master, working, blocked, dispatch, return, thread, request_nr>>

\* The clock passes the quit deadline.
Deadline ==
  /\ quitting /\ ~late
  /\ late' = TRUE
  /\ UNCHANGED <<ring, quit_time, new_workers, quitting, gone, master, working, blocked, dispatch, return, thread, request_nr>>

(* worker_check_quit past the deadline: request_clean(&working_requests,  *)
(* 0) marks every working request broken and finalizes it in list order;  *)
(* the first ones fit the return pipe, each other one fails and is put at  *)
(* the head of blocked_requests.                                           *)
Clean(w) ==
  /\ w \in Live /\ quit_time[w] = QUIT_TIME /\ late /\ working[w] # {}
  /\ \E ord \in SetToSeqs(working[w]) :
       LET n == Min({PipeCap - Len(return[w]), Len(ord)})
           sent == SubSeq(ord, 1, n)
       IN /\ return' = [return EXCEPT ![w] = @ \o sent]
          /\ blocked' = [blocked EXCEPT ![w] = Reverse(SubSeq(ord, n + 1, Len(ord))) \o @]
          /\ thread' = [r \in Req |-> IF r \in Range(sent) THEN NoWorker ELSE thread[r]]
  /\ working' = [working EXCEPT ![w] = {}]
  /\ UNCHANGED <<ring, quit_time, new_workers, quitting, late, gone, master, dispatch, request_nr>>

(* The loop condition of worker_entry: a worker with a quit_time leaves   *)
(* its loop once worker_check_quit sees request_nr at 0, and               *)
(* worker_destory closes its four pipe ends and frees it.                  *)
Exit(w) ==
  /\ w \in Live /\ quit_time[w] # 0 /\ request_nr[w] = 0
  /\ gone' = gone \cup {w}
  /\ UNCHANGED <<ring, quit_time, new_workers, quitting, late, master, working, blocked, dispatch, return, thread, request_nr>>

(* olivehc_master_entry returns once quit has run and                   *)
(* request_check_quit sees connections_total at 0: the process ends.      *)
Terminated == quitting /\ Free = Req /\ UNCHANGED vars

Next ==
  \/ \E r \in Req : \/ Accept(r) \/ Close(r)
                    \/ \E keep \in BOOLEAN : Dispatch(r, keep) \/ DispatchNoWorker(r, keep)
  \/ \E w \in W : \/ \E Kept \in SUBSET Req : Recycle(w, Kept)
                  \/ Receive(w) \/ Retry(w) \/ Clean(w) \/ Exit(w)
                  \/ \E r \in Req : Finish(w, r)
  \/ \E threads \in 1 .. MaxThreads, fresh \in UNION {Fresh(n) : n \in 0 .. MaxThreads} :
       ReloadOk(threads, fresh) \/ ReloadCreateFails(threads, fresh)
  \/ ReloadRollback \/ Quit \/ Deadline \/ Terminated

(* Fairness.  Every worker runs its loop at least once a second          *)
(* (epoll_wait times out after 1000 ms): it reads its receive pipe when   *)
(* it is readable, retries its blocked requests, and checks its quit.    *)
(* The master polls every recycle pipe in its own loop.  A working        *)
(* request finishes: its handler completes or its timer expires.  Nothing *)
(* forces a connection, a dispatch, a close, a reload or a quit; once    *)
(* quit has run, the clock passes its deadline.                            *)
Fairness ==
  /\ WF_vars(Deadline)
  /\ \A w \in W : /\ WF_vars(Receive(w)) /\ WF_vars(Retry(w)) /\ WF_vars(Exit(w))
               /\ WF_vars(Clean(w))
               /\ WF_vars(\E Kept \in SUBSET Req : Recycle(w, Kept))
               /\ \A r \in Req : WF_vars(Finish(w, r))

Spec == Init /\ [][Next]_vars /\ Fairness

-----------------------------------------------------------------------------
(* Properties                                                              *)

TypeOK ==
  /\ ring \in Seq(W) /\ quit_time \in [W -> {0, QUIT_TIME, BIG_TIME}] /\ gone \subseteq W
  /\ new_workers \in 0 .. MaxThreads /\ quitting \in BOOLEAN /\ late \in BOOLEAN
  /\ master \subseteq Req /\ working \in [W -> SUBSET Req]
  /\ blocked \in [W -> Seq(Req)] /\ dispatch \in [W -> BoundedSeq(Req, PipeCap)]
  /\ return \in [W -> BoundedSeq(Req, PipeCap)]
  /\ thread \in [Req -> W \cup {NoWorker}] /\ request_nr \in [W -> Nat]

\* How many lists and pipes hold request r, counting repeats.
Copies(r) ==
  (IF r \in master THEN 1 ELSE 0)
  + MapThenSumSet(LAMBDA w : Len(SelectSeq(dispatch[w] \o blocked[w] \o return[w], LAMBDA x : x = r))
                             + (IF r \in working[w] THEN 1 ELSE 0), W)

(* The hand-off never loses or duplicates a request: it is held by at   *)
(* most one list or pipe of one thread, once; r->worker_thread names the *)
(* worker exactly while the request is in that worker's receive pipe,    *)
(* working list or blocked list (so request_finalize sends it the right  *)
(* way), and a worker that ran worker_destory held nothing, as it closed *)
(* its pipes and freed its lists.                                          *)
OwnershipHandoff ==
  /\ \A r \in Req : Copies(r) <= 1
  /\ \A r \in Req, w \in W :
        (thread[r] = w) <=> r \in Range(dispatch[w]) \cup working[w] \cup Range(blocked[w])
  /\ \A w \in gone : HeldBy(w) = {}

(* worker->request_nr, which only the master updates and the worker reads *)
(* to decide to exit, is the number of requests the master has dispatched *)
(* to the worker and not yet recycled.                                      *)
RequestNrExact ==
  \A w \in Live :
     request_nr[w] = Len(dispatch[w]) + Cardinality(working[w]) + Len(blocked[w]) + Len(return[w])

(* A worker removed from the ring at reload eventually exits: its         *)
(* dispatched requests all come back, blocked ones included, though the   *)
(* return pipe may be full when they are retried.                          *)
DeletedWorkerExits ==
  \A w \in W : (quit_time[w] # 0) ~> (w \in gone)

(* spec.md 4 (Rollback): a failed reload releases exactly the workers its *)
(* worker_conf_check created and preserves the prior pool, so a reload    *)
(* that ends in worker_conf_rollback leaves the ring of workers that     *)
(* dispatch goes round as it was.                                          *)
RollbackPreservesPool ==
  [][(\/ ReloadRollback
       \/ \E threads \in 1 .. MaxThreads, fresh \in UNION {Fresh(n) : n \in 0 .. MaxThreads} :
             ReloadCreateFails(threads, fresh))
      => ring' = ring]_vars
=============================================================================
