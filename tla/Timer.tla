-------------------------------- MODULE Timer --------------------------------
(***************************************************************************)
(* One thread's grouped timer (utils/timer.c) and the request events     *)
(* armed on it (event.c), as the worker loop (worker.c) and the master   *)
(* loop (olivehc.c) drive them.                                            *)
(*                                                                         *)
(* The timer keeps one group per distinct timeout, the newest group at   *)
(* the head of tgroup_head; a group is a FIFO of timer nodes whose        *)
(* deadline is the time they were armed plus the group's timeout.         *)
(* timer_expire walks every group from its head and stops at the first   *)
(* node that has not expired, so it relies on each FIFO being in          *)
(* deadline order.  Groups are never freed (timer_closest, the only code  *)
(* that frees one, is never called).                                       *)
(*                                                                         *)
(* A request is owned by this thread once it is accepted (master) or     *)
(* received from the dispatch pipe (worker), and stops being owned when   *)
(* request_do_finalize closes it or worker_request_return hands it back. *)
(* What a handler does with the socket is abstracted to the event it      *)
(* arms next; the server's timeouts are any of Timeouts, since a reload   *)
(* may change them.                                                        *)
(***************************************************************************)
EXTENDS Integers, Sequences, SequencesExt, FiniteSets, FiniteSetsExt

CONSTANTS
  Req,         \* the requests (ohc_request_t) this thread may own
  Timeouts,    \* recv/send/keepalive timeouts the servers may configure
  MaxTime,     \* bound on time(NULL)
  ClockSteps,  \* TRUE: time(NULL), the wall clock, may step backwards
  Fallible     \* TRUE: malloc of a group, epoll_add and epoll_mod may fail

VARIABLES
  now,       \* timer->now, set by timer_refresh
  groups,    \* tgroup_head: <<[timeout, nodes: Seq(Req)]>>, head first
  deadline,  \* [Req -> Int]: tnode->timeout
  group,     \* [Req -> timeout]: tnode->group, named by its timeout
  events,    \* [Req -> {0, OHC_EV_READ, OHC_EV_WRITE}]: r->events
  open,      \* [Req -> BOOLEAN]: the request is owned by this thread
  phase      \* "wait": in epoll_wait; "handle": running the ready handlers

vars == <<now, groups, deadline, group, events, open, phase>>

OHC_EV_READ == 1
OHC_EV_WRITE == 2
NoGroup == 0

State == [now |-> now, groups |-> groups, deadline |-> deadline,
          group |-> group, events |-> events, open |-> open]

Commit(S) == /\ now' = S.now /\ groups' = S.groups /\ deadline' = S.deadline
             /\ group' = S.group /\ events' = S.events /\ open' = S.open

\* Clock readings timer_refresh may take: time(NULL) never goes back unless ClockSteps.
Readings == {t \in 0 .. MaxTime : ClockSteps \/ t >= now}

-----------------------------------------------------------------------------
(* timer.c                                                                 *)

HasGroup(S, t) == \E i \in DOMAIN S.groups : S.groups[i].timeout = t

\* timer_add returns 1: no group has the timeout and its malloc fails.
AddFails(S, t, ok) == ~ok /\ ~HasGroup(S, t)

(* timer_add: find the group of the timeout or create it at the head of  *)
(* tgroup_head, append the node at the group's tail, deadline now+timeout. *)
TimerAdd(S, r, t, ok) ==
  IF AddFails(S, t, ok) THEN S
  ELSE LET G == IF HasGroup(S, t) THEN S.groups
                ELSE <<[timeout |-> t, nodes |-> <<>>]>> \o S.groups
           i == CHOOSE i \in DOMAIN G : G[i].timeout = t
       IN [S EXCEPT !.groups = [G EXCEPT ![i].nodes = Append(@, r)],
                    !.deadline[r] = S.now + t, !.group[r] = t]

\* timer_del: list_del of the node from whichever list holds it.
TimerDel(S, r) ==
  [S EXCEPT !.groups = [i \in DOMAIN @ |-> [@[i] EXCEPT !.nodes = Remove(@, r)]]]

\* Mutation variant: the deadline is renewed but the node keeps its place.
RequeueInPlace(S, r) == [S EXCEPT !.deadline[r] = S.now + S.group[r]]

\* Mutation variant: the new deadline is counted from the old one.
RequeueFromDeadline(S, r) ==
  LET i == CHOOSE i \in DOMAIN S.groups : S.groups[i].timeout = S.group[r]
  IN [TimerDel(S, r) EXCEPT !.deadline[r] = S.deadline[r] + S.group[r],
                            !.groups[i].nodes = Append(@, r)]

\* timer_update with the node's own timeout: new deadline, moved to the tail.
Requeue(S, r) ==
  LET i == CHOOSE i \in DOMAIN S.groups : S.groups[i].timeout = S.group[r]
  IN [TimerDel(S, r) EXCEPT !.deadline[r] = S.now + S.group[r],
                            !.groups[i].nodes = Append(@, r)]

SameGroup(S, r, t) == t = 0 \/ t = S.group[r]

(* timer_update: requeue in the node's group, or timer_del then timer_add *)
(* into the group of the new timeout.                                       *)
TimerUpdate(S, r, t, ok) ==
  IF SameGroup(S, r, t) THEN Requeue(S, r) ELSE TimerAdd(TimerDel(S, r), r, t, ok)

UpdateFails(S, r, t, ok) == ~SameGroup(S, r, t) /\ AddFails(S, t, ok)

\* The nodes at the head of a FIFO whose deadline is not after now.
ExpiredPrefix(S, nodes) ==
  LET k == SelectInSeq(nodes, LAMBDA n : S.deadline[n] > S.now)
  IN IF k = 0 THEN nodes ELSE SubSeq(nodes, 1, k - 1)

(* timer_expire: every group loses its expired head nodes to the expires *)
(* list; request_timeout_handler then finalizes each with                  *)
(* connection_broken set, so request_finalize closes it or returns it to *)
(* the master, and event_del unlinks it from expires either way.           *)
TimerExpire(S) ==
  LET X == UNION {ToSet(ExpiredPrefix(S, S.groups[i].nodes)) : i \in DOMAIN S.groups}
  IN [S EXCEPT !.groups = [i \in DOMAIN @ |->
                  [@[i] EXCEPT !.nodes = SubSeq(@, Len(ExpiredPrefix(S, @)) + 1, Len(@))]],
               !.events = [r \in Req |-> IF r \in X THEN 0 ELSE @[r]],
               !.open = [r \in Req |-> IF r \in X THEN FALSE ELSE @[r]]]

-----------------------------------------------------------------------------
(* event.c                                                                 *)

(* event_add.  ok: a group malloc succeeds; epOk: epoll_add/epoll_mod     *)
(* succeeds.  The same event only updates the timer and ignores its       *)
(* result; another event modifies the epoll watch then updates the timer; *)
(* no event adds the epoll watch then adds the timer.  r->events is set   *)
(* only when every call succeeds.                                           *)
EventAdd(S, r, ev, t, ok, epOk) ==
  CASE S.events[r] = ev ->
         [TimerUpdate(S, r, t, ok) EXCEPT !.events[r] = ev]
    [] S.events[r] # 0 ->
         IF ~epOk THEN S
         ELSE IF UpdateFails(S, r, t, ok) THEN TimerUpdate(S, r, t, ok)
         ELSE [TimerUpdate(S, r, t, ok) EXCEPT !.events[r] = ev]
    [] OTHER ->
         IF ~epOk \/ AddFails(S, t, ok) THEN S
         ELSE [TimerAdd(S, r, t, ok) EXCEPT !.events[r] = ev]

\* Mutation variant: the epoll watch is dropped but the timer node stays linked.
EventDelNoTimer(S, r) ==
  IF S.events[r] # 0 THEN [S EXCEPT !.events[r] = 0] ELSE S

\* event_del: drop the epoll watch and the timer node.
EventDel(S, r) ==
  IF S.events[r] # 0 THEN [TimerDel(S, r) EXCEPT !.events[r] = 0] ELSE S

\* The events a handler may arm: event_add_read, event_add_write.
Arms == {OHC_EV_READ, OHC_EV_WRITE}

(* request_do_finalize: event_del, then a keep-alive connection is reset *)
(* and re-armed by event_add_keepalive, and any other is closed.  In a    *)
(* worker, request_finalize hands the request back to the master through  *)
(* worker_request_return, which also starts with event_del; from this     *)
(* timer's side that is the not-kept case.                                 *)
Finalize(S, r, keep, t, ok, epOk) ==
  IF keep THEN EventAdd(EventDel(S, r), r, OHC_EV_READ, t, ok, epOk)
  ELSE [EventDel(S, r) EXCEPT !.open[r] = FALSE]

-----------------------------------------------------------------------------
(* One iteration of the event loop of worker_loop or master_loop:        *)
(* epoll_wait, timer_refresh, the ready handlers, then timer_expire and   *)
(* request_timeout_handler for each expired request.                      *)

Outcomes == IF Fallible THEN BOOLEAN ELSE {TRUE}

Init ==
  /\ now = 0 /\ groups = <<>>
  /\ deadline = [r \in Req |-> 0] /\ group = [r \in Req |-> NoGroup]
  /\ events = [r \in Req |-> 0] /\ open = [r \in Req |-> FALSE]
  /\ phase = "wait"

\* epoll_wait returns and timer_refresh reads the clock.
Refresh(t) ==
  /\ phase = "wait" /\ t \in Readings
  /\ now' = t /\ phase' = "handle"
  /\ UNCHANGED <<groups, deadline, group, events, open>>

(* A request comes to this thread (request_process_entry on accept, or   *)
(* worker_do_request_read from a pipe) and its first handler arms an      *)
(* event: request_read_request_header on EAGAIN, or a worker's write.     *)
Receive(r, ev, t, ok, epOk) ==
  /\ phase = "handle" /\ ~open[r]
  /\ Commit(EventAdd([State EXCEPT !.open[r] = TRUE], r, ev, t, ok, epOk))
  /\ UNCHANGED phase

\* An owned request whose event is ready runs its handler, which arms an event again.
Arm(r, ev, t, ok, epOk) ==
  /\ phase = "handle" /\ open[r] /\ events[r] # 0
  /\ Commit(EventAdd(State, r, ev, t, ok, epOk))
  /\ UNCHANGED phase

\* An owned request whose event is ready runs its handler, which finalizes it.
Finish(r, keep, t, ok, epOk) ==
  /\ phase = "handle" /\ open[r] /\ events[r] # 0
  /\ Commit(Finalize(State, r, keep, t, ok, epOk))
  /\ UNCHANGED phase

\* timer_expire (which refreshes the clock first) and the timeout handlers.
Expire(t) ==
  /\ phase = "handle" /\ t \in Readings
  /\ Commit(TimerExpire([State EXCEPT !.now = t]))
  /\ phase' = "wait"

Next ==
  \/ \E t \in 0 .. MaxTime : Refresh(t) \/ Expire(t)
  \/ \E r \in Req, ev \in Arms, t \in Timeouts, ok, epOk \in Outcomes :
        Receive(r, ev, t, ok, epOk) \/ Arm(r, ev, t, ok, epOk)
  \/ \E r \in Req, keep \in BOOLEAN, t \in Timeouts, ok, epOk \in Outcomes :
        Finish(r, keep, t, ok, epOk)

Spec == Init /\ [][Next]_vars

-----------------------------------------------------------------------------
(* Properties                                                              *)

Linked(r) == {i \in DOMAIN groups : Contains(groups[i].nodes, r)}

TypeOK ==
  /\ now \in 0 .. MaxTime
  /\ groups \in Seq([timeout : Timeouts, nodes : Seq(Req)])
  /\ deadline \in [Req -> 0 .. MaxTime + Max(Timeouts)]
  /\ group \in [Req -> Timeouts \cup {NoGroup}]
  /\ events \in [Req -> {0, OHC_EV_READ, OHC_EV_WRITE}]
  /\ open \in [Req -> BOOLEAN] /\ phase \in {"wait", "handle"}

(* The promise timer_expire makes to the loop: once it has run, no node *)
(* left on any group has a deadline that has passed, so every request    *)
(* whose timeout ran out was finalized.  It holds only while every group *)
(* FIFO stays in deadline order across timer_add, timer_update and the    *)
(* moves between groups that event_add makes.                             *)
ExpireComplete ==
  phase = "wait" =>
    \A i \in DOMAIN groups : \A x \in 1 .. Len(groups[i].nodes) :
       deadline[groups[i].nodes[x]] > now

(* A timer node is on a group exactly while its request is owned with an *)
(* event armed, on one group only and once, and that group is the one   *)
(* tnode->group names: a closed or handed-over request is never expired, *)
(* and timer_update never unlinks a node from a group it is not on.       *)
TimerLinkage ==
  \A r \in Req :
     /\ Cardinality(Linked(r)) <= 1
     /\ \A i \in Linked(r) : Len(SelectSeq(groups[i].nodes, LAMBDA n : n = r)) = 1
                            /\ groups[i].timeout = group[r]
     /\ (Linked(r) # {}) = (open[r] /\ events[r] # 0)
=============================================================================
