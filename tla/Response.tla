------------------------------ MODULE Response ------------------------------
(***************************************************************************)
(* The GET/HEAD response writer and the PUT body reader of one client    *)
(* connection (request.c), from the parsed request to request_finalize,  *)
(* what they put on the socket, what they take off it, and what a PUT    *)
(* leaves in the item's block on the device.                               *)
(*                                                                         *)
(* A stored item is laid out on its device as the 200 status line with   *)
(* Content-Length, the passthrough headers and "\r\n", then the body.     *)
(* A 200 response sends the item verbatim; a 206 response sends a         *)
(* Content-Range prefix from memory under TCP_CORK, the stored headers    *)
(* after the status line, then the range of the body.  Every sendfile may *)
(* send part of what is asked, block (EAGAIN: the handler is armed again  *)
(* and resumes from process_size) or fail; the handler chain, the         *)
(* re-arming and request_finalize follow the code.  Which thread runs a   *)
(* handler (worker.c) and the timeouts (event.c) are modelled elsewhere.  *)
(*                                                                         *)
(* The wire holds one token per byte: the device offset it was read       *)
(* from, or a record for a buffer built in memory (the 206 prefix, a     *)
(* canned page).  The expected response is computed from the request by  *)
(* the byte-range rules of RFC 7233, independently of the code.           *)
(*                                                                         *)
(* A PUT body arrives as Content-Length declared bytes, which the client  *)
(* may follow with bytes it did not declare; the head's recv may already *)
(* hold the first of them (the pre-read body).  Every recv may return    *)
(* part of what has arrived, block, or report a closed or failed socket. *)
(***************************************************************************)
EXTENDS Integers, Sequences, FiniteSets, FiniteSetsExt

CONSTANTS
  BodyLens,      \* Content-Length of the stored items
  RangeEnds,     \* the numbers a client may write in "Range: bytes=a-b"
  STATUS_LEN,    \* sizeof(RESP_200_CONLEN "\r\n") - 1, without the number
  EXTRA_LEN,     \* passthrough headers and the closing "\r\n"
  TAIL,          \* bytes of other data on the device after the item
  KeepAlive,     \* the server's keepalive_timeout is not 0
  DiskErrors,    \* sendfile may fail with EIO
  MaxRequests,   \* requests served on one connection
  PutOutcomes,   \* results of server_request_put_handler a PUT may meet
  Overrun        \* bytes a client may send past its Content-Length

VARIABLES
  r,         \* the ohc_request_t fields the response path reads and writes
  sockcork,  \* TCP_CORK as set on the socket
  wire,      \* what this response has put on the socket
  conn,      \* "open", "closed", or "oops" when the process died
  served,    \* requests finalized on this connection, the closing one included
  answer,    \* the last finalized response: request, wire, and no error
  pending,   \* declared body bytes of this request not yet read off the socket
  surplus,   \* bytes the client sent past its Content-Length, not yet read
  slot,      \* the block of the item being put, as written so far
  stored     \* the last item a PUT left in the store: its length and bytes

vars == <<r, sockcork, wire, conn, served, answer, pending, surplus, slot, stored>>

GET == "GET"
HEAD == "HEAD"
PUT == "PUT"
RANGE_NO_SET == -1
NoAnswer == [none |-> TRUE]
NoItem == [none |-> TRUE]
Junk == <<"unwritten", 0>>    \* a byte of the block not written by this PUT

\* sendfile's -1 with errno, as -errno; a socket error stands for all but EIO.
EAGAIN == -11
EPIPE == -32
EIO == -5
ECONNRESET == -104

\* http_code_page: the canned pages.
PageCodes == {201, 204, 400, 404, 413, 416, 500}
Page(code) == [page |-> code]
Prefix206(a, b, len) == [clen |-> b - a + 1, from |-> a, to |-> b, total |-> len]

\* numlen (utils/string.h).
RECURSIVE Digits(_)
Digits(n) == IF n = 0 THEN 0 ELSE 1 + Digits(n \div 10)
NumLen(n) == IF n = 0 THEN 1 ELSE Digits(n)

\* http_make_200_response_header(content_length, NULL).
Make200Len(n) == STATUS_LEN + NumLen(n)

\* The item stored by a PUT of n body bytes: put_header_length and length.
HeadersLen(n) == Make200Len(n) + EXTRA_LEN
ItemLen(n) == HeadersLen(n) + n
DevEnd(n) == ItemLen(n) + TAIL

\* request_reset
Fresh == [method |-> GET, rset |-> FALSE, rstart |-> RANGE_NO_SET,
          rend |-> RANGE_NO_SET, len |-> 0, outcome |-> "found",
          code |-> 0, handler |-> "ReadHeader", psize |-> 0, osize |-> 0,
          cork |-> FALSE, broken |-> FALSE, diskerr |-> FALSE,
          keepalive |-> KeepAlive, item |-> FALSE, pre |-> 0]

State == [r |-> r, sockcork |-> sockcork, wire |-> wire, conn |-> conn,
          served |-> served, answer |-> answer, pending |-> pending,
          surplus |-> surplus, slot |-> slot, stored |-> stored, rc |-> "OK"]

Commit(S) == /\ r' = S.r /\ sockcork' = S.sockcork /\ wire' = S.wire
             /\ conn' = S.conn /\ served' = S.served /\ answer' = S.answer
             /\ pending' = S.pending /\ surplus' = S.surplus
             /\ slot' = S.slot /\ stored' = S.stored

\* The request as the client sent it, for the expected response.
Asked(q) == [method |-> q.method, rset |-> q.rset, rstart |-> q.rstart,
             rend |-> q.rend, len |-> q.len, outcome |-> q.outcome]

-----------------------------------------------------------------------------
(* Socket helpers                                                          *)

Span(from, n) == [i \in 1 .. n |-> from + i - 1]

\* request_cork_set and request_cork_clear.
CorkSet(S) == [S EXCEPT !.sockcork = TRUE, !.r.cork = TRUE]
CorkClear(S) == IF S.r.cork THEN [S EXCEPT !.sockcork = FALSE, !.r.cork = FALSE] ELSE S

(* request_send_buffer: a short buffer sent whole, or the connection is  *)
(* broken (a blocked send is not resumed).                                 *)
SendBuffer(S, tokens, ok) ==
  IF ok THEN [S EXCEPT !.wire = @ \o tokens, !.r.osize = @ + Len(tokens)]
  ELSE [S EXCEPT !.r.broken = TRUE]

(* What sendfile may return for length bytes from start, resuming at      *)
(* process_size: a count it sent (at most what is asked, as a size_t, and *)
(* what the device holds), EAGAIN, a socket error, or EIO.                 *)
Want(S, start, length) ==
  LET n == length - S.r.psize
      avail == DevEnd(S.r.len) - (start + S.r.psize)
  IN IF avail <= 0 THEN 0 ELSE IF n < 0 THEN avail ELSE Min({n, avail})
Results(S, start, length) ==
  IF Want(S, start, length) = 0 THEN {0}
  ELSE (1 .. Want(S, start, length)) \cup {EAGAIN, EPIPE}
         \cup (IF DiskErrors THEN {EIO} ELSE {})

\* Mutation variant: sendfile's -1 is added to output_size before errno is read.
SendFileCountsError(S, start, length, res) ==
  CASE res = EAGAIN -> [S EXCEPT !.rc = "AGAIN", !.r.osize = @ - 1]
    [] res = EIO    -> [S EXCEPT !.r.diskerr = TRUE, !.rc = "ERROR", !.r.osize = @ - 1]
    [] res = EPIPE  -> [S EXCEPT !.r.broken = TRUE, !.rc = "ERROR", !.r.osize = @ - 1]
    [] OTHER -> LET T == [S EXCEPT !.wire = @ \o Span(start + S.r.psize, res),
                                   !.r.osize = @ + res, !.r.psize = @ + res]
                IN [T EXCEPT !.rc = IF length # T.r.psize THEN "AGAIN" ELSE "OK"]

\* request_send_file: the state after the call, with rc its return value.
SendFile(S, start, length, res) ==
  CASE res = EAGAIN -> [S EXCEPT !.rc = "AGAIN"]
    [] res = EIO    -> [S EXCEPT !.r.diskerr = TRUE, !.rc = "ERROR"]
    [] res = EPIPE  -> [S EXCEPT !.r.broken = TRUE, !.rc = "ERROR"]
    [] OTHER -> LET T == [S EXCEPT !.wire = @ \o Span(start + S.r.psize, res),
                                   !.r.osize = @ + res, !.r.psize = @ + res]
                IN [T EXCEPT !.rc = IF length # T.r.psize THEN "AGAIN" ELSE "OK"]

\* event_add_write: the handler runs again when the socket is writable.
Arm(S, h) == [S EXCEPT !.r.handler = h]

-----------------------------------------------------------------------------
(* request_finalize and request_do_finalize                                *)

\* The canned page is looked up only when nothing was sent on a healthy socket.
NeedsPage(S) == ~S.r.broken /\ S.r.osize = 0

\* What the connection answered, kept for the properties.
Answered(S) == [req |-> Asked(S.r), wire |-> S.wire, clean |-> ~S.r.broken /\ ~S.r.diskerr]

\* Mutation variant: the item is kept whenever the disk did not fail.
ItemReleaseKeepsPartial(S) ==
  IF ~S.r.item THEN S
  ELSE [S EXCEPT !.slot = <<>>,
                 !.stored = IF S.r.diskerr THEN @ ELSE [len |-> S.r.len, bytes |-> S.slot]]

(* server_request_finalize for the item of a PUT: a disk error, or a     *)
(* body that did not reach item->length, deletes it; otherwise it stays.  *)
ItemRelease(S) ==
  IF ~S.r.item THEN S
  ELSE [S EXCEPT !.slot = <<>>,
                 !.stored = IF S.r.diskerr \/ S.r.psize < ItemLen(S.r.len) THEN @
                            ELSE [len |-> S.r.len, bytes |-> S.slot]]

(* The page of a code http_code_page does not know is NULL, and page->base *)
(* kills the process.  Otherwise the page is sent (its result unchecked), *)
(* then the request is reset for keep-alive (r->cork is zeroed, the       *)
(* socket option is not touched) or the socket is closed.                  *)
Finalize(S) ==
  IF NeedsPage(S) /\ S.r.code \notin PageCodes THEN Commit([S EXCEPT !.conn = "oops"])
  ELSE \E ok \in BOOLEAN :
         LET T == IF NeedsPage(S) THEN SendBuffer(S, <<Page(S.r.code)>>, ok) ELSE S
             U == [ItemRelease(T) EXCEPT !.r = Fresh, !.wire = <<>>, !.served = @ + 1,
                            !.answer = Answered(T)]
         IN Commit(IF T.r.keepalive /\ ~T.r.broken THEN U
                   ELSE [U EXCEPT !.conn = "closed", !.sockcork = FALSE])

-----------------------------------------------------------------------------
(* The response handlers                                                   *)

\* request_get_write_response: the whole item, or its headers for HEAD.
WriteResponse(S) ==
  LET n == S.r.len
      length == IF S.r.method = HEAD THEN HeadersLen(n) ELSE ItemLen(n)
  IN \E res \in Results(S, 0, length) :
       LET T == SendFile(S, 0, length, res)
       IN IF T.rc = "AGAIN" THEN Commit(Arm(T, "WriteResponse")) ELSE Finalize(T)

\* request_get_write_response_206_body
WriteBody(S) ==
  LET start == HeadersLen(S.r.len) + S.r.rstart
      length == S.r.rend - S.r.rstart + 1
  IN \E res \in Results(S, start, length) :
       LET T == CorkClear(SendFile(S, start, length, res))
       IN IF T.rc = "AGAIN" THEN Commit(Arm(T, "WriteBody")) ELSE Finalize(T)

\* Mutation variant: process_size is not reset before the body is sent.
HeaderDiskNoReset(S) ==
  LET n == S.r.len
      off == Make200Len(n)
  IN \E res \in Results(S, off, HeadersLen(n) - off) :
       LET T == SendFile(S, off, HeadersLen(n) - off, res)
       IN CASE T.rc = "AGAIN" -> Commit(Arm(CorkClear(T), "WriteHeaderDisk"))
            [] T.rc = "ERROR" -> Finalize(T)
            [] S.r.method = HEAD -> Finalize(CorkClear(T))
            [] OTHER -> WriteBody(T)

(* request_get_write_response_206_header_disk: the stored headers after  *)
(* the 200 status line and Content-Length, then the body from offset 0.  *)
HeaderDisk(S) ==
  LET n == S.r.len
      off == Make200Len(n)
  IN \E res \in Results(S, off, HeadersLen(n) - off) :
       LET T == SendFile(S, off, HeadersLen(n) - off, res)
       IN CASE T.rc = "AGAIN" -> Commit(Arm(CorkClear(T), "WriteHeaderDisk"))
            [] T.rc = "ERROR" -> Finalize(T)
            [] S.r.method = HEAD -> Finalize(CorkClear(T))
            [] OTHER -> WriteBody([T EXCEPT !.r.psize = 0])

\* Mutation variant: an end past the body is clamped to body_len.
RangeResolveOffByOne(q) ==
  LET n == q.len
  IN CASE q.rstart = RANGE_NO_SET ->
            [q EXCEPT !.rstart = IF q.rend > n THEN 0 ELSE n - q.rend, !.rend = n - 1]
       [] q.rend = RANGE_NO_SET -> [q EXCEPT !.rend = n - 1]
       [] q.rend >= n -> [q EXCEPT !.rend = n]
       [] OTHER -> q

(* The range normalised against body_len: a suffix "-b" becomes the last *)
(* b bytes, an open or too large end becomes the last byte.               *)
RangeResolve(q) ==
  LET n == q.len
  IN CASE q.rstart = RANGE_NO_SET ->
            [q EXCEPT !.rstart = IF q.rend > n THEN 0 ELSE n - q.rend, !.rend = n - 1]
       [] q.rend = RANGE_NO_SET -> [q EXCEPT !.rend = n - 1]
       [] q.rend >= n -> [q EXCEPT !.rend = n - 1]
       [] OTHER -> q

(* request_get_write_response_206_header_mem: 416 when the range starts  *)
(* past the body; otherwise cork, the Content-Range prefix from memory,   *)
(* and straight on to the stored headers.                                  *)
HeaderMem(S) ==
  LET S1 == [S EXCEPT !.r = RangeResolve(@)]
      q == S1.r
  IN IF q.rstart >= q.len THEN Finalize([S1 EXCEPT !.r.code = 416])
     ELSE \E ok \in BOOLEAN :
            LET T == SendBuffer(CorkSet(S1), <<Prefix206(q.rstart, q.rend, q.len)>>, ok)
            IN IF ~ok THEN Finalize(T) ELSE HeaderDisk(T)

-----------------------------------------------------------------------------
(* The PUT body                                                            *)

\* Bytes of a stored item: the header region the server builds, and body byte i.
HeaderBytes(n) == [i \in 1 .. HeadersLen(n) |-> <<"head", i - 1>>]
BodyBytes(from, c) == [i \in 1 .. c |-> <<"body", from + i - 1>>]

\* pwrite of tokens at offset off of a block (past its end: into the next one).
PutAt(s, off, tokens) ==
  [i \in 1 .. Max({Len(s), off + Len(tokens)}) |->
     IF off < i /\ i <= off + Len(tokens) THEN tokens[i - off] ELSE s[i]]

Writes == IF DiskErrors THEN BOOLEAN ELSE {TRUE}

(* request_write_disk: no item (a declined PUT) only counts the bytes;    *)
(* otherwise they are written at item->offset + process_size, or the      *)
(* write fails (500, disk_error).                                          *)
WriteDisk(S, tokens, ok) ==
  CASE ~S.r.item -> [S EXCEPT !.r.psize = @ + Len(tokens), !.rc = "OK"]
    [] ok -> [S EXCEPT !.slot = PutAt(@, S.r.psize, tokens),
                       !.r.psize = @ + Len(tokens), !.rc = "OK"]
    [] OTHER -> [S EXCEPT !.r.code = 500, !.r.diskerr = TRUE, !.rc = "ERROR"]

(* What one recv may return while the body is read: some of the bytes   *)
(* that have arrived, EAGAIN, 0 when the client closed, or an error.      *)
Received(S) == (1 .. S.pending + S.surplus) \cup {EAGAIN, 0, ECONNRESET}

\* The next c bytes of the client's stream, declared ones first.
Take(S, c) == [S EXCEPT !.pending = Max({0, @ - c}),
                        !.surplus = @ - Max({0, c - S.pending})]

(* request_put_read_request_body: recv and write until process_size       *)
(* reaches content_length + put_header_length.  A recv of more than is    *)
(* left is BodyLargerThanDeclared (400, no keep-alive).                    *)
RECURSIVE ReadBody(_)
ReadBody(S) ==
  LET left == ItemLen(S.r.len) - S.r.psize
  IN IF left <= 0 THEN Finalize(S)
     ELSE \E rc \in Received(S) :
       CASE rc = EAGAIN -> Commit(Arm(S, "ReadBody"))
         [] rc \in {0, ECONNRESET} -> Finalize([S EXCEPT !.r.broken = TRUE])
         [] rc > left -> Finalize([Take(S, rc) EXCEPT !.r.code = 400, !.r.keepalive = FALSE])
         [] OTHER -> \E ok \in Writes :
                       LET T == WriteDisk(Take(S, rc), BodyBytes(S.r.len - S.pending, rc), ok)
                       IN IF T.rc = "ERROR" THEN Finalize(T) ELSE ReadBody(T)

(* request_put_read_request_body_preread: the 200 status line, the       *)
(* passthrough headers, "\r\n" and the body bytes that came with the head *)
(* written in one go, then the body loop.                                  *)
PreRead(S) ==
  \E ok \in Writes :
    LET T == WriteDisk(S, HeaderBytes(S.r.len) \o BodyBytes(0, S.r.pre), ok)
    IN IF T.rc = "ERROR" THEN Finalize(T) ELSE ReadBody(T)

-----------------------------------------------------------------------------
(* The connection                                                          *)

(* The Range header values http_parse_get_range accepts: a start, an end *)
(* or both, start <= end.  <<RANGE_NO_SET, RANGE_NO_SET>> stands for no   *)
(* Range header, or a multi-range one, which is served whole.              *)
Ranges ==
  LET V == {RANGE_NO_SET} \cup RangeEnds
  IN {q \in V \X V : q[1] # RANGE_NO_SET \/ q[2] # RANGE_NO_SET
                     => (q[1] = RANGE_NO_SET \/ q[2] = RANGE_NO_SET \/ q[1] <= q[2])}

(* The GET/HEAD branch of request_read_request_header once the head is   *)
(* parsed: a parse error (400, no keep-alive), no item (404), no worker   *)
(* to take it (500), or the item found and the 206 or 200 handler         *)
(* dispatched.                                                             *)
Receive(m, q, n, o) ==
  /\ conn = "open" /\ r.handler = "ReadHeader" /\ served < MaxRequests
  /\ pending + surplus = 0
  /\ LET S == [State EXCEPT !.r.method = m, !.r.rset = (q # <<RANGE_NO_SET, RANGE_NO_SET>>),
                            !.r.rstart = q[1], !.r.rend = q[2], !.r.len = n,
                            !.r.outcome = o]
     IN CASE o = "bad" -> Finalize([S EXCEPT !.r.code = 400, !.r.keepalive = FALSE])
          [] o = "missing" -> Finalize([S EXCEPT !.r.code = 404])
          [] o = "busy" -> Finalize([S EXCEPT !.r.code = 500])
          [] S.r.rset -> Commit(Arm([S EXCEPT !.r.code = 206], "WriteHeaderMem"))
          [] OTHER -> Commit(Arm([S EXCEPT !.r.code = 200], "WriteResponse"))

(* http_request_parse of a PUT head: the body bytes read with it may not *)
(* exceed Content-Length (BodyLargerThanDeclared, 400).                    *)
PutHeadOK(n, k) == k <= n

\* Mutation variant: a declined PUT answers 204 at once instead of draining the body.
ReceivePutNoDrain(n, x, k, o) ==
  /\ conn = "open" /\ r.handler = "ReadHeader" /\ served < MaxRequests
  /\ pending + surplus = 0
  /\ LET S == [State EXCEPT !.r.method = PUT, !.r.len = n, !.r.pre = k, !.r.outcome = o,
                            !.pending = n - Min({k, n}), !.surplus = x - Max({0, k - n})]
         A == [S EXCEPT !.r.item = TRUE, !.slot = [i \in 1 .. ItemLen(n) |-> Junk]]
     IN CASE ~PutHeadOK(n, k) \/ o = "bad" -> Finalize([S EXCEPT !.r.code = 400, !.r.keepalive = FALSE])
          [] o = "nospace" -> Finalize([S EXCEPT !.r.code = 500])
          [] o = "refused" -> Finalize([S EXCEPT !.r.code = 204, !.r.keepalive = FALSE])
          [] o = "declined" -> Finalize([S EXCEPT !.r.code = 204])
          [] o = "busy" -> Finalize([A EXCEPT !.r.code = 500])
          [] OTHER -> Commit(Arm([A EXCEPT !.r.code = 201], "PreReadBody"))

(* The PUT branch of request_read_request_header: the head of a body of  *)
(* n declared and x further bytes, whose first k bytes came with it.  The *)
(* parse fails (400, no keep-alive) on a pre-read past Content-Length     *)
(* (http.c:311) or a bad head; then server_request_put_handler stores the *)
(* item (201), declines it (204; with shutdown_if_not_store the socket is *)
(* closed instead of the body drained), fails (NoSpace, 500), or the item *)
(* is allocated and no worker takes the request (TooBusy, 500).           *)
ReceivePut(n, x, k, o) ==
  /\ conn = "open" /\ r.handler = "ReadHeader" /\ served < MaxRequests
  /\ pending + surplus = 0
  /\ LET S == [State EXCEPT !.r.method = PUT, !.r.len = n, !.r.pre = k, !.r.outcome = o,
                            !.pending = n - Min({k, n}), !.surplus = x - Max({0, k - n})]
         A == [S EXCEPT !.r.item = TRUE, !.slot = [i \in 1 .. ItemLen(n) |-> Junk]]
     IN CASE ~PutHeadOK(n, k) \/ o = "bad" -> Finalize([S EXCEPT !.r.code = 400, !.r.keepalive = FALSE])
          [] o = "nospace" -> Finalize([S EXCEPT !.r.code = 500])
          [] o = "refused" -> Finalize([S EXCEPT !.r.code = 204, !.r.keepalive = FALSE])
          [] o = "declined" -> Commit(Arm([S EXCEPT !.r.code = 204], "PreReadBody"))
          [] o = "busy" -> Finalize([A EXCEPT !.r.code = 500])
          [] OTHER -> Commit(Arm([A EXCEPT !.r.code = 201], "PreReadBody"))

(* A head read while bytes of the last body are still on the socket: the *)
(* parse meets body bytes where a method should be (UnknownMethod, 400).  *)
Garbage ==
  /\ conn = "open" /\ r.handler = "ReadHeader" /\ pending + surplus > 0
  /\ Finalize([State EXCEPT !.r.code = 400, !.r.keepalive = FALSE, !.r.outcome = "bad",
                             !.pending = 0, !.surplus = 0])

\* recv returns 0 (ClientClose) or fails while a head is awaited: the socket is closed.
ClientClose ==
  /\ conn = "open" /\ r.handler = "ReadHeader"
  /\ Finalize([State EXCEPT !.r.broken = TRUE])

\* request_process_entry: a new connection, its request reset.
Accept ==
  /\ conn = "closed"
  /\ Commit([State EXCEPT !.conn = "open", !.served = 0, !.r = Fresh, !.wire = <<>>,
                          !.sockcork = FALSE, !.pending = 0, !.surplus = 0])

\* The socket is writable and h, the armed handler, runs.
Ready(h) == conn = "open" /\ r.handler = h

Init ==
  /\ r = Fresh /\ sockcork = FALSE /\ wire = <<>> /\ conn = "open"
  /\ served = 0 /\ answer = NoAnswer
  /\ pending = 0 /\ surplus = 0 /\ slot = <<>> /\ stored = NoItem

Outcomes == {"found", "missing", "busy", "bad"}

Next ==
  \/ \E m \in {GET, HEAD}, q \in Ranges, o \in Outcomes :
       \E n \in (IF o = "found" THEN BodyLens ELSE {0}) : Receive(m, q, n, o)
  \/ \E n \in BodyLens, x \in 0 .. Overrun, o \in PutOutcomes :
       \E k \in 0 .. n + x : ReceivePut(n, x, k, o)
  \/ Garbage
  \/ ClientClose
  \/ Accept
  \/ Ready("WriteResponse") /\ WriteResponse(State)
  \/ Ready("WriteHeaderMem") /\ HeaderMem(State)
  \/ Ready("WriteHeaderDisk") /\ HeaderDisk(State)
  \/ Ready("WriteBody") /\ WriteBody(State)
  \/ Ready("PreReadBody") /\ PreRead(State)
  \/ Ready("ReadBody") /\ ReadBody(State)

Spec == Init /\ [][Next]_vars

-----------------------------------------------------------------------------
(* The response RFC 7233 and the stored layout call for                    *)

\* A byte range "a-b", "a-" or suffix "-b" against a body of n bytes.
Satisfiable(q) ==
  IF q.rstart = RANGE_NO_SET THEN q.rend > 0 /\ q.len > 0 ELSE q.rstart < q.len
FirstByte(q) == IF q.rstart = RANGE_NO_SET THEN Max({0, q.len - q.rend}) ELSE q.rstart
LastByte(q) ==
  IF q.rstart = RANGE_NO_SET \/ q.rend = RANGE_NO_SET THEN q.len - 1
  ELSE Min({q.rend, q.len - 1})

Expected(q) ==
  LET hl == HeadersLen(q.len)
      sl == Make200Len(q.len)
      a == FirstByte(q)
      b == LastByte(q)
  IN CASE q.outcome = "bad" -> <<Page(400)>>
       [] q.outcome = "missing" -> <<Page(404)>>
       [] q.outcome = "busy" -> <<Page(500)>>
       [] ~q.rset -> Span(0, IF q.method = HEAD THEN hl ELSE ItemLen(q.len))
       [] ~Satisfiable(q) -> <<Page(416)>>
       [] OTHER -> <<Prefix206(a, b, q.len)>> \o Span(sl, hl - sl)
                     \o (IF q.method = HEAD THEN <<>> ELSE Span(hl + a, b - a + 1))

-----------------------------------------------------------------------------
(* Properties                                                              *)

Handlers == {"ReadHeader", "WriteResponse", "WriteHeaderMem", "WriteHeaderDisk", "WriteBody",
             "PreReadBody", "ReadBody"}

TypeOK ==
  /\ r.handler \in Handlers
  /\ r.method \in {GET, HEAD, PUT}
  /\ r.len \in BodyLens \cup {0}
  /\ r.psize \in Nat /\ r.osize = Len(wire)
  /\ {r.cork, r.broken, r.diskerr, r.keepalive, r.rset, sockcork} \subseteq BOOLEAN
  /\ conn \in {"open", "closed", "oops"}
  /\ served \in 0 .. MaxRequests + 1
  /\ pending \in Nat /\ surplus \in 0 .. Overrun
  /\ r.item => Len(slot) = ItemLen(r.len)

(* Every response the connection completed without a socket or disk      *)
(* error put on the wire exactly what the request asked for: the stored  *)
(* item, its headers for HEAD, a 416 page for an unsatisfiable range, or *)
(* the Content-Range prefix, the stored headers after the status line and *)
(* the requested bytes of the body, however sendfile split and blocked   *)
(* the chain of 206 handlers and their process_size bookkeeping.          *)
ResponseExact ==
  answer # NoAnswer /\ answer.req.method # PUT /\ answer.clean
    => answer.wire = Expected(answer.req)

(* A connection kept alive for its next request does not still hold     *)
(* TCP_CORK from the last response: request_reset zeroes r->cork without *)
(* touching the socket, so every path out of a corked 206 must clear it. *)
(* The EIO path of the 206 header handler does not (MCResponseCork.cfg). *)
CorkReleased ==
  conn = "open" /\ r.handler = "ReadHeader" => ~sockcork

(* request_finalize never asks http_code_page for a page it does not      *)
(* have ("should not happen", http.c:362): the NULL it returns would be   *)
(* dereferenced.                                                           *)
FinalizeFindsPage == conn # "oops"

\* The bytes a stored item must hold: header region, then the declared body.
Layout(n) == HeaderBytes(n) \o BodyBytes(0, n)

(* An item a PUT leaves in the store holds exactly the status line, the  *)
(* passthrough headers, "\r\n" and the body the client declared, in      *)
(* order, and nothing past them: however recv split the body between the *)
(* head's buffer and the body loop, and whether the client closed, sent  *)
(* too much, or the disk failed, server_request_finalize keeps only a    *)
(* block whose process_size reached item->length.  What GET sends from   *)
(* it is then what ResponseExact checks.                                   *)
StoredExact == stored # NoItem => stored.bytes = Layout(stored.len)

(* A connection kept alive waits for its next request head only after   *)
(* the whole declared body of a PUT was read off the socket: otherwise   *)
(* the rest of the body is parsed as the next request.                     *)
StreamInSync == conn = "open" /\ r.handler = "ReadHeader" => pending = 0
=============================================================================
