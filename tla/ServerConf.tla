------------------------------ MODULE ServerConf ------------------------------
(***************************************************************************)
(* The server half of a configuration reload (server.c) and the index    *)
(* table of idx_pointer.h that gives every server its slot.               *)
(*                                                                         *)
(* olivehc_load_conf parses the file into conf_cycle, runs the checks of  *)
(* the global part, the devices, the servers and the workers in turn,     *)
(* and then either loads every part or rolls every part back.             *)
(* server_conf_check walks the configured servers in order: it counts     *)
(* them against SERVERS_LIMIT, links one to the running server of the     *)
(* same port (s->conf), or binds a new listen socket and makes its hash;  *)
(* it opens the access log of a new server or of one whose log changed.   *)
(* The first failure ends the walk.  server_conf_rollback frees what the  *)
(* configured servers hold; server_conf_load deletes the running servers  *)
(* no entry links (their listen socket is closed, their items drain       *)
(* later), updates the linked ones and creates the rest, in the order of  *)
(* the file.  A deleted server keeps its hash, its log and its index      *)
(* until server_destroy frees it.                                          *)
(*                                                                         *)
(* File descriptors are numbers from FdNum, the lowest free one given out *)
(* first, as open, socket and fopen do; fdt says what each number is.    *)
(* What the other parts of the reload do is abstracted to whether their  *)
(* checks pass.                                                            *)
(***************************************************************************)
EXTENDS Integers, Sequences, SequencesExt, FiniteSets

CONSTANTS
  Port,            \* listen ports (listen_port)
  Log,             \* access log paths (access_log)
  SERVERS_LIMIT,   \* IPT_ARRAY_SIZE: slots of server_indexs
  MaxConf,         \* servers a configuration file names, at most
  FdNum,           \* descriptor numbers the process may hold
  Faults,          \* which of "timeout", "bind", "nomem", "fopen" may happen
  OtherChecksFail, \* whether the global, device or worker checks may fail
  MaxReloads       \* reloads a behaviour makes, at most (the first is the start)

VARIABLES
  servers,   \* the list `servers`: <<[port, log, idx, lfd, ffd]>>, in order
  deleted,   \* the list deleted_servers
  ipt,       \* server_indexs.array: slot -> in use
  lowest,    \* server_indexs.lowest
  fdt,       \* descriptor number -> what it is open on
  hashes,    \* hash tables allocated
  conf,      \* conf_cycle.servers: <<[port, log]>> of the last parse
  loaded,    \* the last olivehc_load_conf returned OHC_OK
  quitting,  \* olivehc_quit has run
  reloads    \* olivehc_load_conf calls so far, bounded by MaxReloads

vars == <<servers, deleted, ipt, lowest, fdt, hashes, conf, loaded, quitting, reloads>>

NoFd == -1
Closed == [kind |-> "closed"]
Sock(p) == [kind |-> "sock", port |-> p]
File(l) == [kind |-> "file", log |-> l]

\* The array and the words past its end that an overrunning scan reaches.
Slot == -1 .. 2 * SERVERS_LIMIT

ConfServer == [port : Port, log : Log]
Confs == UNION {[1 .. n -> ConfServer] : n \in 0 .. MaxConf}
Outcomes == {"ok"} \cup Faults

\* What server_conf_check leaves on a configured server: s->listen_fd,
\* s->access_filp, s->hash, and s->conf as a position in `servers`.
Unheld == [lfd |-> NoFd, ffd |-> NoFd, hash |-> FALSE, link |-> 0]

State == [servers |-> servers, deleted |-> deleted, ipt |-> ipt, lowest |-> lowest,
          fdt |-> fdt, hashes |-> hashes, rc |-> 0, conf |-> <<>>, held |-> <<>>, out |-> <<>>]

Commit(S, ok) ==
  /\ servers' = S.servers /\ deleted' = S.deleted /\ ipt' = S.ipt
  /\ lowest' = S.lowest /\ fdt' = S.fdt /\ hashes' = S.hashes
  /\ loaded' = ok

-----------------------------------------------------------------------------
(* Descriptors and the index table                                         *)

\* open/socket/fopen: the lowest free number, or -1 (EMFILE).
FdOpen(S, what) ==
  IF \A n \in FdNum : S.fdt[n] # Closed THEN [S EXCEPT !.rc = NoFd]
  ELSE LET n == Min({m \in FdNum : S.fdt[m] = Closed})
       IN [S EXCEPT !.fdt[n] = what, !.rc = n]

FdClose(S, n) == IF n = NoFd THEN S ELSE [S EXCEPT !.fdt[n] = Closed]

(* idx_pointer_add: -1 once lowest is past the array; otherwise the first *)
(* free slot from lowest on, found without looking at the array's end.    *)
IdxAdd(S) ==
  IF S.lowest >= SERVERS_LIMIT THEN [S EXCEPT !.rc = -1]
  ELSE LET i == Min({j \in S.lowest .. 2 * SERVERS_LIMIT : ~S.ipt[j]})
       IN [S EXCEPT !.ipt[i] = TRUE, !.lowest = i + 1, !.rc = i]

\* idx_pointer_delete.
IdxDelete(S, i) ==
  [S EXCEPT !.ipt[i] = FALSE, !.lowest = IF i < @ THEN i ELSE @]

-----------------------------------------------------------------------------
(* server_conf_rollback and server_conf_load                               *)

\* Mutation variant: hash_destroy without the s->hash test.
RollbackAllHashes(S) ==
  LET H == S.held
      open == {H[j].lfd : j \in DOMAIN H} \cup {H[j].ffd : j \in DOMAIN H}
  IN /\ S.servers # <<>>
     /\ Commit([S EXCEPT !.fdt = [n \in FdNum |-> IF n \in open THEN Closed ELSE @[n]],
                         !.hashes = @ - Len(H)], FALSE)

\* server_conf_rollback: fclose, close and hash_destroy what each holds.
Rollback(S) ==
  LET H == S.held
      open == {H[j].lfd : j \in DOMAIN H} \cup {H[j].ffd : j \in DOMAIN H}
  IN /\ S.servers # <<>>
     /\ Commit([S EXCEPT !.fdt = [n \in FdNum |-> IF n \in open THEN Closed ELSE @[n]],
                         !.hashes = @ - Cardinality({j \in DOMAIN H : H[j].hash})], FALSE)

\* Mutation variant: the new log replaces the old one without fclose.
ServerUpdateKeepsOldLog(S, j) ==
  LET s == S.servers[S.held[j].link]
      h == S.held[j]
  IN IF h.ffd = NoFd THEN [S EXCEPT !.out = Append(@, s)]
     ELSE [S EXCEPT !.out = Append(@, [s EXCEPT !.log = S.conf[j].log, !.ffd = h.ffd])]

\* server_update: the running server moves to the tail; a new log replaces its old one.
ServerUpdate(S, j) ==
  LET s == S.servers[S.held[j].link]
      h == S.held[j]
  IN IF h.ffd = NoFd THEN [S EXCEPT !.out = Append(@, s)]
     ELSE [FdClose(S, s.ffd) EXCEPT !.out = Append(@, [s EXCEPT !.log = S.conf[j].log,
                                                               !.ffd = h.ffd])]

\* server_create: the configured server joins `servers` with a new index.
ServerCreate(S, j) ==
  LET T == IdxAdd(S)
  IN [T EXCEPT !.out = Append(@, [port |-> S.conf[j].port, log |-> S.conf[j].log,
                                  idx |-> T.rc, lfd |-> S.held[j].lfd, ffd |-> S.held[j].ffd])]

RECURSIVE LoadLoop(_, _)
LoadLoop(S, j) ==
  IF j > Len(S.conf) THEN S
  ELSE LoadLoop(IF S.held[j].link # 0 THEN ServerUpdate(S, j) ELSE ServerCreate(S, j), j + 1)

(* Mutation variant: updated servers stay where they were (no           *)
(* list_del/list_add_tail), and created ones follow them.                *)
LoadInPlace(S) ==
  LET linked == {S.held[j].link : j \in DOMAIN S.held} \ {0}
      dropped == SelectSeq(S.servers, LAMBDA s : \A j \in linked : S.servers[j] # s)
      T == [S EXCEPT !.deleted = Reverse(dropped) \o @,
                     !.fdt = [n \in FdNum |-> IF \E k \in DOMAIN dropped : dropped[k].lfd = n
                                              THEN Closed ELSE @[n]]]
      L == LoadLoop(T, 1)
      kept == SelectSeq(S.servers, LAMBDA s : \E j \in linked : S.servers[j] = s)
      new == SelectSeq(L.out, LAMBDA s : \A k \in DOMAIN kept : kept[k].port # s.port)
      now == [k \in DOMAIN kept |-> CHOOSE s \in Range(L.out) : s.port = kept[k].port]
  IN Commit([L EXCEPT !.servers = now \o new], TRUE)

(* server_conf_load: server_delete for every unlinked running server      *)
(* (list_add puts it at the head of deleted_servers, its listen socket is *)
(* closed), then update or create each configured server in order.        *)
Load(S) ==
  LET linked == {S.held[j].link : j \in DOMAIN S.held} \ {0}
      dropped == SelectSeq(S.servers, LAMBDA s : \A j \in linked : S.servers[j] # s)
      T == [S EXCEPT !.deleted = Reverse(dropped) \o @,
                     !.fdt = [n \in FdNum |-> IF \E k \in DOMAIN dropped : dropped[k].lfd = n
                                              THEN Closed ELSE @[n]]]
      L == LoadLoop(T, 1)
  IN Commit([L EXCEPT !.servers = L.out], TRUE)

-----------------------------------------------------------------------------
(* server_conf_check                                                       *)

\* server_search_port over `servers`: the position of port p, or 0.
RunningAt(S, p) == IF \E j \in DOMAIN S.servers : S.servers[j].port = p
                   THEN CHOOSE j \in DOMAIN S.servers : S.servers[j].port = p ELSE 0

Hold(S, j, f, v) == [S EXCEPT !.held[j][f] = v]

\* A reload in which the worker check follows: it passes, or every part rolls back.
AfterCheck(S) == \/ Load(S)
                 \/ OtherChecksFail /\ Rollback(S)

RECURSIVE CheckLoop(_, _, _)

(* The access log: opened for a new server, or for a linked one whose    *)
(* path changed; then the walk goes on with the next entry.               *)
OpenLog(S, i, count, o) ==
  LET link == S.held[i].link
      T == FdOpen(S, File(S.conf[i].log))
  IN IF link # 0 /\ S.servers[link].log = S.conf[i].log THEN CheckLoop(S, i + 1, count)
     ELSE IF T.rc = NoFd \/ o = "fopen" THEN Rollback(S)
     ELSE CheckLoop(Hold(T, i, "ffd", T.rc), i + 1, count)

(* A new server: tcp_bind (socket, then bind, which fails when the port  *)
(* is taken and closes the socket), then hash_init.                      *)
Bind(S, i, count, o) ==
  LET T == FdOpen(S, Sock(S.conf[i].port))
      taken == \E n \in FdNum : S.fdt[n] = Sock(S.conf[i].port)
  IN IF T.rc = NoFd THEN Rollback(S)
     ELSE IF taken \/ o = "bind" THEN Rollback(FdClose(T, T.rc))
     ELSE IF o = "nomem" THEN Rollback(Hold(T, i, "lfd", T.rc))
     ELSE OpenLog([Hold(Hold(T, i, "lfd", T.rc), i, "hash", TRUE) EXCEPT !.hashes = @ + 1],
                  i, count, o)

(* One configured server: the count (deleted servers included), the      *)
(* timeouts ("timeout"), then the running server of its port, which no    *)
(* earlier entry may have linked, or, for a new port, no earlier entry    *)
(* with the same port.                                                     *)
CheckServer(S, i, count, o) ==
  LET p == S.conf[i].port
      s2 == RunningAt(S, p)
  IN IF count >= SERVERS_LIMIT - 1 \/ o = "timeout" THEN Rollback(S)
     ELSE IF s2 # 0
          THEN IF \E j \in 1 .. i - 1 : S.held[j].link = s2 THEN Rollback(S)
               ELSE OpenLog(Hold(S, i, "link", s2), i, count, o)
     ELSE IF \E j \in 1 .. i - 1 : S.conf[j].port = p THEN Rollback(S)
     ELSE Bind(S, i, count, o)

(* The walk, one entry a step; the state so far is bound once (\E over   *)
(* the singleton) so that TLC does not rebuild it at every use.           *)
CheckLoop(S, i, count) ==
  \E V \in {S} :
    IF i > Len(V.conf) THEN AfterCheck(V)
    ELSE \E o \in Outcomes : CheckServer(V, i, count + 1, o)

(* server_conf_check from the top: at least one server, every running    *)
(* server unlinked, the count started at the length of deleted_servers.  *)
ServerConfCheck(S) ==
  IF S.conf = <<>> THEN Rollback(S) ELSE CheckLoop(S, 1, Len(S.deleted))

-----------------------------------------------------------------------------
(* Actions                                                                 *)

Init ==
  /\ servers = <<>> /\ deleted = <<>>
  /\ ipt = [j \in Slot |-> FALSE] /\ lowest = 0
  /\ fdt = [n \in FdNum |-> Closed] /\ hashes = 0
  /\ conf = <<>> /\ loaded = FALSE /\ quitting = FALSE /\ reloads = 0

(* olivehc_load_conf, at start and on the admin command "reload": conf_parse *)
(* gives a fresh conf_cycle (every entry holds nothing), the global and the *)
(* device checks may fail first, then server_conf_check.  A failed load at   *)
(* start ends the process (main returns 1), which Rollback's guard says.    *)
Reload(c) ==
  /\ ~quitting /\ reloads < MaxReloads
  /\ conf' = c /\ reloads' = reloads + 1
  /\ LET S == [State EXCEPT !.conf = c, !.held = [j \in 1 .. Len(c) |-> Unheld], !.out = <<>>]
     IN \/ OtherChecksFail /\ Rollback(S)
        \/ ServerConfCheck(S)
  /\ UNCHANGED quitting

(* server_destroy once the items of deleted server j are gone: hash,      *)
(* access log and index go, and the server leaves deleted_servers.         *)
ServerDestroy(j) ==
  /\ j \in DOMAIN deleted
  /\ LET s == deleted[j]
         T == IdxDelete(FdClose([State EXCEPT !.hashes = @ - 1], s.ffd), s.idx)
     IN Commit([T EXCEPT !.deleted = RemoveAt(deleted, j)], loaded)
  /\ UNCHANGED <<conf, quitting, reloads>>

(* olivehc_quit, once: server_stop_service closes every listen socket.    *)
Quit ==
  /\ ~quitting
  /\ quitting' = TRUE
  /\ fdt' = [n \in FdNum |-> IF \E j \in DOMAIN servers : servers[j].lfd = n THEN Closed ELSE fdt[n]]
  /\ UNCHANGED <<servers, deleted, ipt, lowest, hashes, conf, loaded, reloads>>

Next ==
  \/ \E c \in Confs : Reload(c)
  \/ \E j \in 1 .. Len(deleted) : ServerDestroy(j)
  \/ Quit

Spec == Init /\ [][Next]_vars

-----------------------------------------------------------------------------
(* Properties                                                              *)

Holders == servers \o deleted
Config(seq) == [j \in DOMAIN seq |-> [port |-> seq[j].port, log |-> seq[j].log]]

ServerRec == [port : Port, log : Log, idx : -1 .. 2 * SERVERS_LIMIT,
              lfd : FdNum \cup {NoFd}, ffd : FdNum]

TypeOK ==
  /\ servers \in Seq(ServerRec) /\ deleted \in Seq(ServerRec)
  /\ ipt \in [Slot -> BOOLEAN] /\ lowest \in -1 .. 2 * SERVERS_LIMIT + 1
  /\ fdt \in [FdNum -> {Closed} \cup {Sock(p) : p \in Port} \cup {File(l) : l \in Log}]
  /\ hashes \in Nat /\ conf \in Confs /\ loaded \in BOOLEAN /\ quitting \in BOOLEAN
  /\ reloads \in 0 .. MaxReloads

\* What owns which descriptor: a running server its listen socket until
\* server_stop_service, a running or deleted server its access log.
Claims ==
  (IF quitting THEN <<>> ELSE [j \in DOMAIN servers |-> <<servers[j].lfd, Sock(servers[j].port)>>])
  \o [j \in DOMAIN Holders |-> <<Holders[j].ffd, File(Holders[j].log)>>]

(* Whatever the reloads, their failures at any step of server_conf_check  *)
(* and the later checks, and the server_destroy calls in between: every  *)
(* open descriptor belongs to exactly one server, each server's socket    *)
(* and log are open on what it names, and there is one hash per running  *)
(* or deleted server.  A rollback that misses what a half-checked server *)
(* holds, an update that keeps the old log open, or a delete that leaves *)
(* the socket open breaks it.                                             *)
ResourcesOwned ==
  /\ IsInjective([j \in DOMAIN Claims |-> Claims[j][1]])
  /\ \A j \in DOMAIN Claims : Claims[j][1] \in FdNum /\ fdt[Claims[j][1]] = Claims[j][2]
  /\ Cardinality({n \in FdNum : fdt[n] # Closed}) = Len(Claims)
  /\ hashes = Len(Holders)

(* olivehc_load_conf is all or nothing for the servers: after a load that *)
(* returned OHC_OK the running servers are those of the file, in its     *)
(* order, and after a failed one they are what they were.  A server kept *)
(* across a reload keeps its index (items name it by index) and its      *)
(* listen socket.                                                          *)
ReloadAllOrNothing ==
  [][ /\ loaded' => Config(servers') = conf'
      /\ ~loaded' => servers' = servers
      /\ \A j \in DOMAIN servers, k \in DOMAIN servers' :
            servers[j].port = servers'[k].port =>
              servers'[k].idx = servers[j].idx /\ servers'[k].lfd = servers[j].lfd ]_vars

(* Every running or deleted server holds its own slot of server_indexs, *)
(* inside the array, and the array marks exactly those slots.           *)
(* server_conf_check counts the configured and the already deleted       *)
(* servers against SERVERS_LIMIT, but not the running servers the load   *)
(* is about to delete, which keep their slots until they drain.          *)
IndexExact ==
  /\ \A j \in DOMAIN Holders : Holders[j].idx \in 0 .. SERVERS_LIMIT - 1
  /\ IsInjective([j \in DOMAIN Holders |-> Holders[j].idx])
  /\ {j \in Slot : ipt[j]} = {Holders[j].idx : j \in DOMAIN Holders}

====
