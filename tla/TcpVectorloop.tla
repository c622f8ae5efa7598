--------------------------- MODULE TcpVectorloop ---------------------------
(***************************************************************************)
(* The TCP half of one vectorloop shard (src/src/vectorloop.c) together    *)
(* with the connection FIFO queues, the LRU cache and the TCP id           *)
(* assignment of conn.c (src/unnamed/part_001).                            *)
(*                                                                         *)
(* One loop iteration runs the stages in the order of vl_run(); every      *)
(* stage drains its input queue one connection at a time, and each         *)
(* connection handled is one step of the model, so the kernel (clients     *)
(* connecting, sending, closing) and the clock may act between any two     *)
(* of them.  The FIFO queues are the intrusive singly linked lists of the  *)
(* code: a head/tail pair per queue and one link field per queue kind      *)
(* (read, write, gen), the release queue sharing the gen link as the code  *)
(* does.  size_t lengths are integers; a negative value v stands for the   *)
(* wrapped value 2^64 + v.                                                 *)
(***************************************************************************)
EXTENDS Integers, Sequences, FiniteSets, SequencesExt

CONSTANTS
    Listener,        \* the TCP listener connection object
    Conns,           \* connection objects conn_new_tcp() may allocate
    Clients,         \* remote peers, each connects at most once
    NULL,            \* the NULL pointer
    Garbage,         \* byte values uninitialised heap memory may hold
    RIP_NS_PACKETSZ, \* largest DNS message accepted over TCP (scaled down)
    HeaderSize,      \* sizeof(rip_ns_header_t): shorter requests get no answer
    SimQueries,      \* cfg->tcp_conn_simultaneous_queries_count (queries_size)
    ReadBufSize,     \* cfg->tcp_readbuff_size
    TcpConnsMax,     \* cfg->tcp_conns_per_vl_max
    MaxAcceptNew,    \* cfg->tcp_listener_max_accept_new_conn
    NumEventsTcp,    \* cfg->epoll_num_events_tcp
    RecvTimeout,     \* cfg->tcp_query_recv_timeout, added to tv_sec
    SendTimeout,     \* cfg->tcp_query_send_timeout, added to tv_sec
    Keepalive,       \* cfg->tcp_keepalive, added to tv_sec
    IdMax,           \* UINTMAX_MAX, the end of the connection id space
    Stream,          \* Stream[k]: the bytes client k sends, frames concatenated
    RespLen,         \* length of a packed response
    MaxTime,         \* bound on the clock
    MayReset,        \* whether clients may reset their connection
    MayBlock         \* whether a write may find the socket send buffer full

Objs == {Listener} \cup Conns

ASSUME /\ Listener \notin Conns /\ NULL \notin Objs
       /\ SimQueries \in Nat \ {0} /\ ReadBufSize \in Nat \ {0}
       /\ RespLen >= 2 /\ IdMax > Cardinality(Conns) + 1
       /\ Cardinality(Conns) >= Cardinality(Clients)

(* conn_tcp->tcp_keepalive: zero-initialised by conn_new_tcp() and never   *)
(* assigned, yet read by vl_fn_tcp_read() for the idle timeout.            *)
ConnKeepalive == 0

TcpStates == {"ASSIGN_CONN_ID_ERR", "WAIT_FOR_QUERY", "WAIT_FOR_QUERY_DATA",
              "WAIT_FOR_WRITE", "CLOSED_FOR_READ", "READ_ERR",
              "CLOSED_FOR_WRITE", "WRITE_ERR", "QUERY_SIZE_TOOLARGE"}

QueueNames == {"accept", "read", "write", "parse", "resolve", "pack", "log",
               "release", "new"}

Stages == <<"top", "epoll", "accept", "tcp_read", "parse", "resolve", "pack",
            "tcp_write", "log", "timeouts", "release">>

VARIABLES
    pc,       \* the stage of vl_run() the shard is in
    sub,      \* step inside a connection's release: "deq", "rm_read", "rm_write"
    cur,      \* connection the current stage is working on, or NULL
    ts,       \* vl->loop_timestamp
    fifo,     \* queues: heads/tails, the link fields and the in-queue flags
    waitR,    \* conn->waiting_for_read
    ev,       \* edge-triggered EPOLLIN pending in the kernel per object
    alloc,    \* whether the object's memory is allocated
    conn,     \* the conn_tcp_t fields of each connection object
    lru,      \* vl->conn_tcp_lru_cache, least recently used first
    idBase,   \* vl->conn_tcp_id_base
    active,   \* vl->conns_tcp_active
    acnt,     \* accept_count of vl_fn_tcp_accept_conns()
    amax,     \* accept_max of vl_fn_tcp_accept_conns()
    errno,    \* class of the last errno set on the shard thread
    client,   \* kernel and peer side of each client connection
    backlog,  \* clients waiting in the listen backlog
    owed,     \* history: answers the server has taken on per client
    halted    \* why the process stopped, or "no"

vars == <<pc, sub, cur, ts, fifo, waitR, ev, alloc, conn, lru, idBase,
          active, acnt, amax, errno, client, backlog, owed,
          halted>>

(***************************************************************************)
(* Connection FIFO queues (conn.c).  f is the whole fifo record; a queue   *)
(* is named, lk is the link field it threads through.                      *)
(***************************************************************************)
EmptyQ == [head |-> NULL, tail |-> NULL]

\* The linking common to every conn_fifo_enqueue_*().
Enq(f, qn, lk, c) ==
    LET q  == f.q[qn]
        l1 == [f.link[lk] EXCEPT ![c] = NULL]
    IN  IF q.head = NULL
        THEN [f EXCEPT !.link[lk] = l1, !.q[qn] = [head |-> c, tail |-> c]]
        ELSE [f EXCEPT !.link[lk] = [l1 EXCEPT ![q.tail] = c],
                       !.q[qn].tail = c]

\* The unlinking common to every conn_fifo_dequeue_*(): new fifo and object.
Deq(f, qn, lk) ==
    LET q == f.q[qn]
    IN  [x |-> q.head,
         f |-> IF q.head = q.tail THEN [f EXCEPT !.q[qn] = EmptyQ]
               ELSE [f EXCEPT !.q[qn].head = f.link[lk][q.head]]]

conn_fifo_enqueue_read(f, qn, c) ==
    IF f.flag.read[c] THEN f
    ELSE [Enq(f, qn, "read", c) EXCEPT !.flag.read[c] = TRUE]

\* Mutant: a dequeue that leaves in_read_queue set.
DequeueReadKeepFlag(f, qn) == Deq(f, qn, "read")

conn_fifo_dequeue_read(f, qn) ==
    LET d == Deq(f, qn, "read")
    IN  IF d.x = NULL THEN d ELSE [d EXCEPT !.f.flag.read[d.x] = FALSE]

conn_fifo_enqueue_write(f, qn, c) ==
    IF f.flag.write[c] THEN f
    ELSE [Enq(f, qn, "write", c) EXCEPT !.flag.write[c] = TRUE]

conn_fifo_dequeue_write(f, qn) ==
    LET d == Deq(f, qn, "write")
    IN  IF d.x = NULL THEN d ELSE [d EXCEPT !.f.flag.write[d.x] = FALSE]

conn_fifo_enqueue_gen(f, qn, c) == Enq(f, qn, "gen", c)

conn_fifo_dequeue_gen(f, qn) == Deq(f, qn, "gen")

\* The release queue is threaded through gen_q_handle, like the gen queues.
conn_fifo_enqueue_release(f, c) ==
    IF f.flag.release[c] THEN f
    ELSE [Enq(f, "release", "gen", c) EXCEPT !.flag.release[c] = TRUE]

conn_fifo_dequeue_release(f) ==
    LET d == Deq(f, "release", "gen")
    IN  IF d.x = NULL THEN d ELSE [d EXCEPT !.f.flag.release[d.x] = FALSE]

\* The repopulation at the end of a stage from its local new_queue, which
\* is empty again when the next stage starts.
Splice(f, qn) ==
    [IF f.q["new"].head # NULL THEN [f EXCEPT !.q[qn] = f.q["new"]] ELSE f
     EXCEPT !.q["new"] = EmptyQ]

\* The objects reachable from a queue's head along link lk (cycle-safe).
RECURSIVE Walk(_, _, _, _)
Walk(f, lk, x, seen) ==
    IF x = NULL \/ x \in seen THEN seen
    ELSE Walk(f, lk, f.link[lk][x], seen \cup {x})

InQueue(f, qn, lk) == Walk(f, lk, f.q[qn].head, {})

(***************************************************************************)
(* Connection objects, the LRU cache and connection ids.                   *)
(***************************************************************************)
Idx == 0..(ReadBufSize - 1)

ClientSt == {"idle", "backlog", "accepted", "leaked", "closed"}

\* A free object: conn_release() has freed it or it was never allocated.
NoConn == [state |-> "NONE", timeout |-> 0, cid |-> 0, fd |-> NULL, rlen |-> 0,
           rbuf |-> [i \in Idx |-> 0], qs |-> <<>>, qwi |-> 0, widx |-> 0]

Live == {c \in Conns : alloc[c]}

\* The connection whose fd is client k's socket.
OwnerOf(k) == {c \in Live : conn[c].fd = k}

\* Whether byte e of client k's stream ends a frame.
RECURSIVE FrameEndFrom(_, _, _)
FrameEndFrom(k, start, e) ==
    IF start > e THEN FALSE
    ELSE LET last == start + 1 + 256 * Stream[k][start] + Stream[k][start + 1]
         IN  last = e \/ (last < e /\ FrameEndFrom(k, last + 1, e))

FrameEnd(k, e) == FrameEndFrom(k, 1, e)

\* Whether the kernel has something for a read() on client k's socket.
Readable(k) == client[k].sent > client[k].rd \/ client[k].fin \/ client[k].rst

\* conn_tcp_id_assign(): the first id after base not in the LRU cache, below
\* UINTMAX_MAX, wrapping to 0 .. base-1; -1 when there is none.
conn_tcp_id_assign(base, used) ==
    LET up  == {i \in (base + 1)..(IdMax - 1) : i \notin used}
        low == {i \in 0..(base - 1) : i \notin used}
    IN  IF up # {} THEN Min(up) ELSE IF low # {} THEN Min(low) ELSE -1

LruIds == {conn[lru[i]].cid : i \in DOMAIN lru}

\* Mutant: the entry is added again without being deleted first.
LruGetNoDelete(l, c) == Append(l, c)

\* conn_lru_cache_get(): HASH_DELETE then HASH_ADD moves the entry last.
conn_lru_cache_get(l, c) == Append(Remove(l, c), c)

Init ==
    /\ pc = "top" /\ sub = "deq" /\ cur = NULL /\ ts = 0
    \* vl_register_listeners() puts the listener in the accept queue
    /\ fifo = [q    |-> [n \in QueueNames |->
                          IF n = "accept" THEN [head |-> Listener, tail |-> Listener]
                          ELSE EmptyQ],
               link |-> [lk \in {"read", "write", "gen"} |-> [x \in Objs |-> NULL]],
               flag |-> [fl \in {"read", "write", "release"} |->
                          [x \in Objs |-> fl = "read" /\ x = Listener]]]
    /\ waitR = [x \in Objs |-> FALSE]
    /\ ev = [x \in Objs |-> FALSE]
    /\ alloc = [c \in Conns |-> FALSE]
    /\ conn = [c \in Conns |-> NoConn]
    /\ lru = <<>> /\ idBase = 0 /\ active = 0
    /\ acnt = 0 /\ amax = 0 /\ errno = "none"
    /\ client = [k \in Clients |-> [st |-> "idle", sent |-> 0, rd |-> 0,
                                    fin |-> FALSE, rst |-> FALSE, got |-> 0]]
    /\ backlog = <<>>
    /\ owed = [k \in Clients |-> 0]
    /\ halted = "no"

(***************************************************************************)
(* The peers and the kernel.  A client connects (joining the listen        *)
(* backlog), sends a prefix of the rest of its bytes, closes its write     *)
(* side after sending everything, or resets.  Every arrival raises the     *)
(* edge-triggered EPOLLIN of the socket's registered connection.           *)
(***************************************************************************)
\* What one send() of client k may deliver next: a single byte, the rest of
\* the frame it is in, or everything left.  Together with arbitrary
\* interleaving these produce split length prefixes, partial frames and
\* several frames in one read.
Chunks(k) ==
    LET left  == Len(Stream[k]) - client[k].sent
        ends  == {e \in (client[k].sent + 1)..Len(Stream[k]) : FrameEnd(k, e)}
    IN  IF left = 0 THEN {}
        ELSE {1, left} \cup {Min(ends) - client[k].sent : e \in ends}

\* The shard sees the kernel only through epoll_wait(), accept4(), read()
\* and write().  A peer's step commutes with the shard's steps on other
\* sockets and with the steps that make no system call, so peers act at
\* the top of an iteration, after epoll_wait() (before the accept and read
\* stages), and before the write stage.
EnvPoint == pc = "top" \/ (pc = "accept" /\ cur = NULL) \/ pc = "tcp_write"

RaiseEv(k) == [x \in Objs |-> ev[x] \/ x \in OwnerOf(k)]

Connect(k) ==
    /\ halted = "no" /\ EnvPoint
    /\ client[k].st = "idle"
    /\ client' = [client EXCEPT ![k].st = "backlog"]
    /\ backlog' = Append(backlog, k)
    /\ ev' = [ev EXCEPT ![Listener] = TRUE]
    /\ UNCHANGED <<pc, sub, cur, ts, fifo, waitR, alloc, conn, lru, idBase,
                   active, acnt, amax, errno, owed, halted>>

Send(k) ==
    /\ halted = "no" /\ EnvPoint
    /\ client[k].st \in {"backlog", "accepted", "leaked"}
    /\ ~client[k].fin /\ ~client[k].rst
    /\ \E n \in Chunks(k) : client' = [client EXCEPT ![k].sent = @ + n]
    /\ ev' = RaiseEv(k)
    /\ UNCHANGED <<pc, sub, cur, ts, fifo, waitR, alloc, conn, lru, idBase,
                   active, acnt, amax, errno, backlog, owed, halted>>

Close(k) ==
    /\ halted = "no" /\ EnvPoint
    /\ client[k].st \in {"backlog", "accepted", "leaked"}
    /\ client[k].sent = Len(Stream[k]) /\ ~client[k].fin /\ ~client[k].rst
    /\ client' = [client EXCEPT ![k].fin = TRUE]
    /\ ev' = RaiseEv(k)
    /\ UNCHANGED <<pc, sub, cur, ts, fifo, waitR, alloc, conn, lru, idBase,
                   active, acnt, amax, errno, backlog, owed, halted>>

Reset(k) ==
    /\ MayReset /\ halted = "no" /\ EnvPoint
    /\ client[k].st \in {"backlog", "accepted", "leaked"} /\ ~client[k].rst
    /\ client' = [client EXCEPT ![k].rst = TRUE]
    /\ ev' = RaiseEv(k)
    /\ UNCHANGED <<pc, sub, cur, ts, fifo, waitR, alloc, conn, lru, idBase,
                   active, acnt, amax, errno, backlog, owed, halted>>

(***************************************************************************)
(* vl_run(): the top of an iteration samples loop_timestamp.  The channel  *)
(* and UDP stages are not part of this module.                             *)
(***************************************************************************)
Top ==
    /\ pc = "top" /\ halted = "no"
    /\ \E t \in {ts, ts + 1} \cap 0..MaxTime : ts' = t
    /\ pc' = "epoll"
    /\ UNCHANGED <<sub, cur, fifo, waitR, ev, alloc, conn, lru, idBase, active,
                   acnt, amax, errno, client, backlog, owed, halted>>

(* vl_fn_epoll(), TCP half: epoll_wait() reports at most NumEventsTcp of   *)
(* the pending events, in an order the kernel chooses.  A listener event   *)
(* always queues the listener for accepting; a connection event queues the *)
(* connection for reading only if it is waiting for read, else it is lost. *)
EpollDispatch(acc, x) ==
    IF x = Listener
    THEN [f |-> conn_fifo_enqueue_read(acc.f, "accept", x),
          w |-> [acc.w EXCEPT ![x] = FALSE]]
    ELSE IF acc.w[x]
         THEN [f |-> conn_fifo_enqueue_read(acc.f, "read", x),
               w |-> [acc.w EXCEPT ![x] = FALSE]]
         ELSE acc

vl_fn_epoll ==
    /\ pc = "epoll" /\ halted = "no"
    /\ LET ready == {x \in Objs : ev[x]}
           n     == IF Cardinality(ready) < NumEventsTcp
                    THEN Cardinality(ready) ELSE NumEventsTcp
       IN  \E S \in SUBSET ready :
             /\ Cardinality(S) = n
             /\ \E order \in SetToSeqs(S) :
                  LET r == FoldLeft(EpollDispatch, [f |-> fifo, w |-> waitR], order)
                  IN  /\ fifo' = r.f /\ waitR' = r.w
                      /\ ev' = [x \in Objs |-> ev[x] /\ x \notin S]
    /\ pc' = "accept"
    /\ UNCHANGED <<sub, cur, ts, alloc, conn, lru, idBase, active, acnt, amax,
                   errno, client, backlog, owed, halted>>

(***************************************************************************)
(* vl_fn_tcp_accept_conns().  AcceptDequeue takes the listener from the    *)
(* accept queue and computes accept_max; each Accept4 step is one call of  *)
(* accept4() and the loop body after it.                                   *)
(***************************************************************************)
AcceptDequeue ==
    /\ pc = "accept" /\ cur = NULL /\ halted = "no"
    /\ IF fifo.q["accept"].head = NULL
       THEN /\ fifo' = Splice(fifo, "accept")
            /\ pc' = "tcp_read" /\ acnt' = 0
            /\ UNCHANGED <<cur, amax>>
       ELSE LET d == conn_fifo_dequeue_read(fifo, "accept")
            IN  /\ fifo' = d.f /\ cur' = d.x
                /\ amax' = IF TcpConnsMax - active > MaxAcceptNew
                           THEN MaxAcceptNew ELSE TcpConnsMax - active
                /\ UNCHANGED <<pc, acnt>>
    /\ UNCHANGED <<sub, ts, waitR, ev, alloc, conn, lru, idBase, active, errno,
                   client, backlog, owed, halted>>

\* The loop ended with fd < 0 or accept_max <= 0: errno decides whether the
\* listener waits for its next event or the process exits.
AcceptWaitOrFail(e) ==
    IF e = "EAGAIN"
    THEN waitR' = [waitR EXCEPT ![Listener] = TRUE] /\ UNCHANGED halted
    ELSE halted' = "fatal" /\ UNCHANGED waitR

\* A new conn_t from conn_new_tcp(), registered and added to the LRU cache.
NewConn(c, k, id, g) ==
    [state |-> "WAIT_FOR_QUERY_DATA", timeout |-> ts + RecvTimeout, cid |-> id,
     fd |-> k, rlen |-> 0, rbuf |-> g, qs |-> <<>>, qwi |-> 0, widx |-> 0]

ZeroLinks(f, c) ==
    [f EXCEPT !.link = [lk \in DOMAIN f.link |-> [f.link[lk] EXCEPT ![c] = NULL]],
              !.flag = [fl \in DOMAIN f.flag |-> [f.flag[fl] EXCEPT ![c] = FALSE]]]

Accept4 ==
    /\ pc = "accept" /\ cur = Listener /\ halted = "no"
    /\ IF backlog = <<>>
       THEN \* accept4() fails with EAGAIN
            /\ errno' = "EAGAIN" /\ AcceptWaitOrFail("EAGAIN")
            /\ cur' = NULL
            /\ UNCHANGED <<fifo, ev, alloc, conn, lru, idBase, active, acnt,
                           client, backlog>>
       ELSE LET k == Head(backlog) IN
            /\ backlog' = Tail(backlog)
            /\ IF acnt < MaxAcceptNew
               THEN /\ acnt' = acnt + 1
                    /\ \/ \* unsupported address family or getsockname() error
                          /\ client' = [client EXCEPT ![k].st = "closed"]
                          /\ UNCHANGED <<fifo, waitR, ev, alloc, conn, lru,
                                         idBase, active>>
                       \/ \E c \in Conns \ Live, g \in [Idx -> Garbage] :
                          LET id == conn_tcp_id_assign(idBase, LruIds) IN
                          /\ conn' = [conn EXCEPT ![c] = NewConn(c, k, id, g)]
                          /\ alloc' = [alloc EXCEPT ![c] = TRUE]
                          /\ fifo' = ZeroLinks(fifo, c)
                          /\ idBase' = id
                          /\ lru' = Append(lru, c)
                          /\ waitR' = [waitR EXCEPT ![c] = TRUE]
                          /\ ev' = [ev EXCEPT ![c] = Readable(k)]
                          /\ active' = active + 1
                          /\ client' = [client EXCEPT ![k].st = "accepted"]
                    /\ UNCHANGED <<cur, halted>>
               ELSE \* the connection accept4() returned is never closed
                    /\ client' = [client EXCEPT ![k].st = "leaked"]
                    /\ cur' = NULL
                    /\ IF amax <= 0
                       THEN AcceptWaitOrFail(errno) /\ UNCHANGED fifo
                       ELSE /\ fifo' = conn_fifo_enqueue_read(fifo, "new", Listener)
                            /\ UNCHANGED <<waitR, halted>>
                    /\ UNCHANGED <<ev, alloc, conn, lru, idBase, active, acnt>>
            /\ UNCHANGED errno
    /\ UNCHANGED <<pc, sub, ts, amax, owed>>

(***************************************************************************)
(* vl_fn_tcp_read().  One step per connection taken from the read queue.   *)
(***************************************************************************)
\* Bytes past the end of the read buffer: adjacent heap memory.
ByteAt(buf, i) == IF i \in Idx THEN buf[i] ELSE Min(Garbage)

\* a <= b for size_t b, where a negative b stands for a wrapped value.
SizeLe(a, b) == b < 0 \/ a <= b

\* The frame loop: ntohs() of the two bytes at off gives q_len; a frame is
\* present when q_len + 2 <= buf_len.  The result lists the frame lengths,
\* whether some q_len exceeded RIP_NS_PACKETSZ (the loop goes on after it)
\* and whether the first frame was incomplete.
RECURSIVE ReadFrames(_, _, _, _)
ReadFrames(buf, off, blen, i) ==
    IF i >= SimQueries THEN [lens |-> <<>>, toolarge |-> FALSE, notfull |-> FALSE]
    ELSE LET ql == 256 * ByteAt(buf, off) + ByteAt(buf, off + 1)
             tl == ql > RIP_NS_PACKETSZ
         IN  IF SizeLe(ql + 2, blen)
             THEN LET r == ReadFrames(buf, off + 2 + ql, blen - (2 + ql), i + 1)
                  IN  [r EXCEPT !.lens = <<ql>> \o @, !.toolarge = @ \/ tl]
             ELSE [lens |-> <<>>, toolarge |-> tl, notfull |-> i = 0]

\* read(fd, &read_buffer[read_buffer_len], read_buffer_size - read_buffer_len)
\* on client k's socket: the return value and the errno class.
ReadRet(c, k) ==
    LET count == ReadBufSize - conn[c].rlen
        avail == client[k].sent - client[k].rd
    IN  IF client[k].rst THEN [ret |-> -1, err |-> "OTHER"]
        ELSE IF count = 0 \/ (avail = 0 /\ client[k].fin) THEN [ret |-> 0, err |-> errno]
        ELSE IF avail = 0 THEN [ret |-> -1, err |-> "EAGAIN"]
        ELSE [ret |-> IF avail < count THEN avail ELSE count, err |-> errno]

\* The buffer after read() stored n bytes at offset rlen; bytes that land
\* before the buffer (a wrapped rlen) are lost to the heap.
Stored(c, k, n) ==
    LET r == conn[c].rlen
    IN  [i \in Idx |-> IF i >= r /\ i < r + n
                       THEN Stream[k][client[k].rd + (i - r) + 1]
                       ELSE conn[c].rbuf[i]]

\* After the data is in: the frame loop and where the connection goes.
\* cc is the connection record, f the queues so far.
Frames(c, k, cc, f) ==
    LET r   == ReadFrames(cc.rbuf, 0, cc.rlen, 0)
        cc1 == IF r.toolarge THEN [cc EXCEPT !.state = "QUERY_SIZE_TOOLARGE"] ELSE cc
        f1  == IF r.toolarge THEN conn_fifo_enqueue_release(f, c) ELSE f
    IN  IF r.notfull
        THEN /\ waitR' = [waitR EXCEPT ![c] = TRUE]
             /\ conn' = [conn EXCEPT ![c] =
                          IF cc1.state = "WAIT_FOR_QUERY"
                          THEN [cc1 EXCEPT !.state = "WAIT_FOR_QUERY_DATA",
                                           !.timeout = ts + RecvTimeout]
                          ELSE cc1]
             /\ fifo' = conn_fifo_enqueue_read(f1, "new", c)
             /\ UNCHANGED owed
        ELSE /\ conn' = [conn EXCEPT ![c] =
                          [cc1 EXCEPT !.qs = [i \in DOMAIN r.lens |->
                                               [len |-> r.lens[i], resp |-> FALSE]]]]
             /\ fifo' = conn_fifo_enqueue_gen(f1, "parse", c)
             /\ owed' = [owed EXCEPT ![k] = @ +
                          Cardinality({i \in DOMAIN r.lens : r.lens[i] >= HeaderSize})]
             /\ UNCHANGED waitR

\* A dequeued object that conn_release() has already freed.
UseAfterFree(f) ==
    /\ halted' = "use_after_free" /\ fifo' = f
    /\ UNCHANGED <<pc, sub, cur, ts, waitR, ev, alloc, conn, lru, idBase, active,
                   acnt, amax, errno, client, backlog, owed>>

TcpReadConn ==
    /\ pc = "tcp_read" /\ halted = "no" /\ fifo.q["read"].head # NULL
    /\ LET d == conn_fifo_dequeue_read(fifo, "read")
           c == d.x
       IN  IF ~alloc[c] THEN UseAfterFree(d.f)
           ELSE IF c \notin ToSet(lru)
           THEN \* conn_lru_cache_get() finds nothing: assert(0)
                /\ halted' = "assert" /\ fifo' = d.f
                /\ UNCHANGED <<waitR, conn, lru, errno, client, owed>>
           ELSE LET k  == conn[c].fd
                    rr == ReadRet(c, k)
                    cc == [conn[c] EXCEPT !.rlen = @ + rr.ret, !.qs = <<>>,
                                          !.rbuf = IF rr.ret > 0
                                                   THEN Stored(c, k, rr.ret) ELSE @]
                IN  /\ lru' = conn_lru_cache_get(lru, c)
                    /\ errno' = rr.err
                    /\ client' = [client EXCEPT ![k].rd = @ +
                                   (IF rr.ret > 0 THEN rr.ret ELSE 0)]
                    /\ CASE rr.ret = 0 ->
                              /\ conn' = [conn EXCEPT ![c] =
                                           [cc EXCEPT !.state = "CLOSED_FOR_READ"]]
                              /\ fifo' = conn_fifo_enqueue_release(d.f, c)
                              /\ UNCHANGED <<waitR, owed>>
                         [] rr.ret < 0 /\ rr.err = "EAGAIN" ->
                              /\ conn' = [conn EXCEPT ![c] =
                                           IF cc.rlen = 0
                                           THEN [cc EXCEPT !.state = "WAIT_FOR_QUERY",
                                                           !.timeout = ts + ConnKeepalive]
                                           ELSE cc]
                              /\ waitR' = [waitR EXCEPT ![c] = TRUE]
                              /\ fifo' = d.f
                              /\ UNCHANGED owed
                         [] rr.ret < 0 ->
                              \* READ_ERR: released, then on into the frame loop
                              Frames(c, k, [cc EXCEPT !.state = "READ_ERR"],
                                     conn_fifo_enqueue_release(d.f, c))
                         [] OTHER -> Frames(c, k, cc, d.f)
                    /\ UNCHANGED halted
    /\ UNCHANGED <<pc, sub, cur, ts, ev, alloc, idBase, active, acnt, amax, backlog>>

TcpReadDone ==
    /\ pc = "tcp_read" /\ halted = "no" /\ fifo.q["read"].head = NULL
    /\ fifo' = Splice(fifo, "read")
    /\ pc' = "parse"
    /\ UNCHANGED <<sub, cur, ts, waitR, ev, alloc, conn, lru, idBase, active, acnt,
                   amax, errno, client, backlog, owed, halted>>

(***************************************************************************)
(* vl_fn_query_parse(), vl_fn_query_resolve(), vl_fn_query_response_pack() *)
(* for TCP connections: each drains its generic queue into the next one.   *)
(* query_parse() leaves a request shorter than the header without an       *)
(* answer (rip_ns_r_rip_shortheader); every other request is answered.     *)
(***************************************************************************)
GenUnchanged == UNCHANGED <<sub, cur, ts, waitR, ev, alloc, lru, idBase, active,
                           acnt, amax, errno, client, backlog, owed, halted>>

QueryParse ==
    /\ pc = "parse" /\ halted = "no"
    /\ IF fifo.q["parse"].head = NULL
       THEN pc' = "resolve" /\ UNCHANGED <<fifo, conn>> /\ GenUnchanged
       ELSE LET d == conn_fifo_dequeue_gen(fifo, "parse")
                c == d.x
            IN  IF ~alloc[c] THEN UseAfterFree(d.f) /\ UNCHANGED conn
                ELSE /\ conn' = [conn EXCEPT ![c].qs =
                                  [i \in DOMAIN @ |-> [len  |-> @[i].len,
                                                       resp |-> @[i].len >= HeaderSize]]]
                     /\ fifo' = conn_fifo_enqueue_gen(d.f, "resolve", c)
                     /\ UNCHANGED pc /\ GenUnchanged

QueryResolve ==
    /\ pc = "resolve" /\ halted = "no"
    /\ IF fifo.q["resolve"].head = NULL
       THEN pc' = "pack" /\ UNCHANGED <<fifo, conn>> /\ GenUnchanged
       ELSE LET d == conn_fifo_dequeue_gen(fifo, "resolve")
            IN  IF ~alloc[d.x] THEN UseAfterFree(d.f) /\ UNCHANGED conn
                ELSE /\ fifo' = conn_fifo_enqueue_gen(d.f, "pack", d.x)
                     /\ UNCHANGED <<pc, conn>> /\ GenUnchanged

QueryResponsePack ==
    /\ pc = "pack" /\ halted = "no"
    /\ IF fifo.q["pack"].head = NULL
       THEN pc' = "tcp_write" /\ UNCHANGED <<fifo, conn>> /\ GenUnchanged
       ELSE LET d == conn_fifo_dequeue_gen(fifo, "pack")
                c == d.x
            IN  IF ~alloc[c] THEN UseAfterFree(d.f) /\ UNCHANGED conn
                ELSE /\ conn' = [conn EXCEPT ![c].state = "WAIT_FOR_WRITE",
                                             ![c].timeout = ts + SendTimeout]
                     /\ fifo' = conn_fifo_enqueue_write(d.f, "write", c)
                     /\ UNCHANGED pc /\ GenUnchanged

(***************************************************************************)
(* vl_fn_tcp_write().  The loop writes the answered queries from           *)
(* query_write_index on; each write() either sends everything left of the  *)
(* response, sends part of it (the connection is requeued and not logged), *)
(* or fails: with the peer reset, or with EAGAIN when the send buffer is    *)
(* full, which the code's ret == EAGAIN test never recognises.  Stop is    *)
(* the query whose write did not complete, 0 when all did.                 *)
(***************************************************************************)
\* Mutant: a write of all w bytes taken for a short one (ret <= write_len).
PartialWriteLenWhole(w) == 1..w

\* The byte counts a short write() of w bytes may return.
PartialWriteLen(w) == 1..(w - 1)

TcpWriteConn ==
    /\ pc = "tcp_write" /\ halted = "no" /\ fifo.q["write"].head # NULL
    /\ LET d == conn_fifo_dequeue_write(fifo, "write")
           c == d.x
       IN  IF ~alloc[c] THEN UseAfterFree(d.f)
           ELSE
           LET cc    == conn[c]
               k     == cc.fd
               RS    == {i \in (cc.qwi + 1)..Len(cc.qs) : cc.qs[i].resp}
               first == IF RS = {} THEN 0 ELSE Min(RS)
               WLen(i) == RespLen - (IF i = first THEN cc.widx ELSE 0)
               Before(i) == FoldLeft(LAMBDA a, j : a + WLen(j), 0,
                                     SetToSeq({j \in RS : j < i}))
           IN
           \E stop \in RS \cup {0} :
             /\ client[k].rst => stop = first
             /\ IF stop = 0
                THEN /\ conn' = [conn EXCEPT ![c].widx = 0]
                     /\ client' = [client EXCEPT ![k].got = @ + Before(Len(cc.qs) + 1)]
                     /\ fifo' = conn_fifo_enqueue_gen(d.f, "log", c)
                     /\ UNCHANGED errno
                ELSE \/ \* partial write
                        /\ ~client[k].rst /\ WLen(stop) > 1
                        /\ \E p \in PartialWriteLen(WLen(stop)) :
                             /\ conn' = [conn EXCEPT ![c].widx = RespLen - WLen(stop) + p,
                                                     ![c].qwi = stop - 1]
                             /\ client' = [client EXCEPT ![k].got = @ + Before(stop) + p]
                        /\ fifo' = conn_fifo_enqueue_write(d.f, "new", c)
                        /\ UNCHANGED errno
                     \/ \* write() returns -1
                        /\ client[k].rst \/ MayBlock
                        /\ errno' = IF client[k].rst THEN "OTHER" ELSE "EAGAIN"
                        /\ conn' = [conn EXCEPT ![c].qs[stop].resp = FALSE,
                                                ![c].state = "WRITE_ERR",
                                                ![c].widx = RespLen - WLen(stop)]
                        /\ client' = [client EXCEPT ![k].got = @ + Before(stop)]
                        /\ fifo' = conn_fifo_enqueue_gen(d.f, "log", c)
             /\ UNCHANGED halted
    /\ UNCHANGED <<pc, sub, cur, ts, waitR, ev, alloc, lru, idBase, active, acnt,
                   amax, backlog, owed>>

\* The write queue is repopulated with head and tail both new_queue.head.
TcpWriteDone ==
    /\ pc = "tcp_write" /\ halted = "no" /\ fifo.q["write"].head = NULL
    /\ fifo' = [fifo EXCEPT !.q["write"] =
                  IF fifo.q["new"].head # NULL
                  THEN [head |-> fifo.q["new"].head, tail |-> fifo.q["new"].head]
                  ELSE @,
                            !.q["new"] = EmptyQ]
    /\ pc' = "log"
    /\ UNCHANGED <<sub, cur, ts, waitR, ev, alloc, conn, lru, idBase, active, acnt,
                   amax, errno, client, backlog, owed, halted>>

(***************************************************************************)
(* vl_fn_query_log() for TCP connections.  After the queries are logged a  *)
(* connection closed for write is released; any other keeps the bytes past *)
(* its queries (data_extra, a size_t) at the front of the read buffer and   *)
(* goes back to the read queue.                                            *)
(***************************************************************************)
QueryLog ==
    /\ pc = "log" /\ halted = "no"
    /\ IF fifo.q["log"].head = NULL
       THEN pc' = "timeouts" /\ UNCHANGED <<fifo, conn, halted>>
       ELSE LET d     == conn_fifo_dequeue_gen(fifo, "log")
                c     == d.x
                cc    == conn[c]
                used  == FoldLeft(LAMBDA a, q : a + q.len + 2, 0, cc.qs)
                extra == cc.rlen - used
            IN  IF ~alloc[c] THEN UseAfterFree(d.f) /\ UNCHANGED conn
                ELSE IF cc.state \in {"CLOSED_FOR_WRITE", "WRITE_ERR"}
                THEN /\ fifo' = conn_fifo_enqueue_release(d.f, c)
                     /\ UNCHANGED <<pc, conn, halted>>
                ELSE IF extra < 0
                THEN \* memmove() of a wrapped length
                     /\ halted' = "segv" /\ fifo' = d.f
                     /\ UNCHANGED <<pc, conn>>
                ELSE /\ conn' = [conn EXCEPT ![c] =
                          [cc EXCEPT
                             !.rbuf    = [i \in Idx |-> IF i < extra
                                                        THEN ByteAt(cc.rbuf, used + i)
                                                        ELSE cc.rbuf[i]],
                             !.state   = IF extra > 0 THEN "WAIT_FOR_QUERY_DATA"
                                         ELSE "WAIT_FOR_QUERY",
                             !.timeout = ts + (IF extra > 0 THEN RecvTimeout
                                               ELSE Keepalive),
                             !.rlen    = extra]]
                     /\ fifo' = conn_fifo_enqueue_read(d.f, "read", c)
                     /\ UNCHANGED <<pc, halted>>
    /\ UNCHANGED <<sub, cur, ts, waitR, ev, alloc, lru, idBase, active, acnt, amax,
                   errno, client, backlog, owed>>

(***************************************************************************)
(* vl_fn_tcp_conn_timeouts(): walk the LRU cache from its least recently   *)
(* used end, queueing expired connections for release, and stop at the    *)
(* first one that has not expired.                                         *)
(***************************************************************************)
Expired(c) == conn[c].timeout < ts

RECURSIVE ExpiredPrefix(_)
ExpiredPrefix(l) ==
    IF l = <<>> \/ ~Expired(Head(l)) THEN <<>>
    ELSE <<Head(l)>> \o ExpiredPrefix(Tail(l))

TcpConnTimeouts ==
    /\ pc = "timeouts" /\ halted = "no"
    /\ fifo' = FoldLeft(conn_fifo_enqueue_release, fifo, ExpiredPrefix(lru))
    /\ pc' = "release"
    /\ UNCHANGED <<sub, cur, ts, waitR, ev, alloc, conn, lru, idBase, active, acnt,
                   amax, errno, client, backlog, owed, halted>>

(***************************************************************************)
(* vl_fn_tcp_conn_release().  ReleaseDequeue takes a connection, removes   *)
(* it from the LRU cache and closes its socket; RemoveFromReadQueue is     *)
(* one iteration of the loop of conn_fifo_remove_from_read_queue(), which *)
(* dequeues every element and enqueues the others back into the same       *)
(* queue.  ReleaseFree is conn_release().                                  *)
(***************************************************************************)
\* Mutant: the socket is not closed.
ReleaseCloseSkip(c) == client

\* vl_epoll_ctl_del() and close() of the connection's socket, if it has one.
ReleaseClose(c) ==
    IF conn[c].fd = NULL THEN client
    ELSE [client EXCEPT ![conn[c].fd].st = "closed"]

\* conn_fifo_remove_from_write_queue() runs its loop only if in_read_queue is
\* set.  It follows the read-queue removal, which either was skipped because
\* the flag was clear or dequeued the connection and so cleared it; no step
\* models the loop, and a state where it would run has no successor.
WriteQueueRemovalRuns(f, c) == f.flag.read[c]

RelUnchanged == UNCHANGED <<ts, waitR, idBase, acnt, amax, errno, backlog, owed>>

ReleaseDequeue ==
    /\ pc = "release" /\ sub = "deq" /\ halted = "no"
    /\ IF fifo.q["release"].head = NULL
       THEN /\ pc' = "top"
            /\ UNCHANGED <<sub, cur, fifo, ev, alloc, conn, lru, active, client, halted>>
       ELSE LET d == conn_fifo_dequeue_release(fifo)
                c == d.x
            IN  IF ~alloc[c] THEN UseAfterFree(d.f)
                ELSE /\ lru' = Remove(lru, c)
                     /\ client' = ReleaseClose(c)
                     /\ ev' = [ev EXCEPT ![c] = FALSE]
                     /\ conn' = [conn EXCEPT ![c].fd = NULL]
                     /\ fifo' = d.f
                     /\ cur' = c
                     /\ sub' = IF d.f.flag.read[c] THEN "rm_read"
                               ELSE IF WriteQueueRemovalRuns(d.f, c) THEN "rm_write"
                               ELSE "free"
                     /\ UNCHANGED <<pc, alloc, active, halted>>
    /\ RelUnchanged

RemoveFromReadQueue ==
    /\ pc = "release" /\ sub = "rm_read" /\ halted = "no"
    /\ LET d == conn_fifo_dequeue_read(fifo, "read")
       IN  CASE d.x = NULL ->
                  /\ sub' = IF WriteQueueRemovalRuns(fifo, cur) THEN "rm_write" ELSE "free"
                  /\ UNCHANGED <<fifo, halted>>
             [] d.x = cur ->
                  fifo' = d.f /\ UNCHANGED <<sub, halted>>
             [] ~alloc[d.x] -> UseAfterFree(d.f)
             [] OTHER ->
                  fifo' = conn_fifo_enqueue_read(d.f, "read", d.x)
                  /\ UNCHANGED <<sub, halted>>
    /\ UNCHANGED <<pc, cur, ev, alloc, conn, lru, active, client>> /\ RelUnchanged

\* Mutant: conns_tcp_active is not decremented.
ReleaseFreeKeepCount ==
    /\ pc = "release" /\ sub = "free" /\ halted = "no"
    /\ alloc' = [alloc EXCEPT ![cur] = FALSE]
    /\ conn' = [conn EXCEPT ![cur] = NoConn]
    /\ cur' = NULL /\ sub' = "deq"
    /\ UNCHANGED <<pc, fifo, ev, lru, client, halted, active>> /\ RelUnchanged

ReleaseFree ==
    /\ pc = "release" /\ sub = "free" /\ halted = "no"
    /\ alloc' = [alloc EXCEPT ![cur] = FALSE]
    /\ conn' = [conn EXCEPT ![cur] = NoConn]
    /\ active' = active - 1
    /\ cur' = NULL /\ sub' = "deq"
    /\ UNCHANGED <<pc, fifo, ev, lru, client, halted>> /\ RelUnchanged

\* Once the process has stopped nothing changes any more.
Halted == halted # "no" /\ UNCHANGED vars

Next ==
    \/ Top \/ vl_fn_epoll \/ AcceptDequeue \/ Accept4
    \/ TcpReadConn \/ TcpReadDone \/ QueryParse \/ QueryResolve
    \/ QueryResponsePack \/ TcpWriteConn \/ TcpWriteDone \/ QueryLog
    \/ TcpConnTimeouts \/ ReleaseDequeue \/ RemoveFromReadQueue
    \/ ReleaseFree
    \/ \E k \in Clients : Connect(k) \/ Send(k) \/ Close(k) \/ Reset(k)
    \/ Halted

\* The shard thread never blocks, so each of its steps is weakly fair; the
\* clients are not required to do anything.
ShardStep ==
    \/ Top \/ vl_fn_epoll \/ AcceptDequeue \/ Accept4
    \/ TcpReadConn \/ TcpReadDone \/ QueryParse \/ QueryResolve
    \/ QueryResponsePack \/ TcpWriteConn \/ TcpWriteDone \/ QueryLog
    \/ TcpConnTimeouts \/ ReleaseDequeue \/ RemoveFromReadQueue
    \/ ReleaseFree

Spec == Init /\ [][Next]_vars /\ WF_vars(ShardStep)

(***************************************************************************)
(* Properties.                                                             *)
(***************************************************************************)
Link == Objs \cup {NULL}
QRec == [head : Link, tail : Link]
ConnRec == [state : TcpStates \cup {"NONE"}, timeout : Int, cid : 0..(IdMax - 1),
            fd : Clients \cup {NULL}, rlen : Int, rbuf : [Idx -> Nat],
            qs : Seq([len : Nat, resp : BOOLEAN]), qwi : Nat,
            widx : 0..(RespLen - 1)]

(* Every variable holds a value of its type; a partially written response *)
(* never has write_index at or past its end.                               *)
TypeOK ==
    /\ pc \in ToSet(Stages) /\ sub \in {"deq", "rm_read", "rm_write", "free"}
    /\ cur \in Link /\ ts \in 0..MaxTime
    /\ fifo.q \in [QueueNames -> QRec]
    /\ fifo.link \in [{"read", "write", "gen"} -> [Objs -> Link]]
    /\ fifo.flag \in [{"read", "write", "release"} -> [Objs -> BOOLEAN]]
    /\ waitR \in [Objs -> BOOLEAN] /\ ev \in [Objs -> BOOLEAN]
    /\ alloc \in [Conns -> BOOLEAN] /\ conn \in [Conns -> ConnRec]
    /\ lru \in Seq(Conns) /\ idBase \in 0..(IdMax - 1) /\ active \in Int
    /\ acnt \in 0..MaxAcceptNew /\ amax \in Int
    /\ errno \in {"none", "EAGAIN", "OTHER"}
    /\ client \in [Clients -> [st : ClientSt, sent : Nat, rd : Nat,
                               fin : BOOLEAN, rst : BOOLEAN, got : Nat]]
    /\ backlog \in Seq(Clients) /\ owed \in [Clients -> Nat]
    /\ halted \in {"no", "use_after_free", "assert", "fatal", "segv"}

(* The LRU cache (conn_tcp_lru_cache) holds every allocated connection     *)
(* once, except the one vl_fn_tcp_conn_release() is in the middle of       *)
(* releasing, and no two of its entries share a connection id: accept,     *)
(* conn_tcp_id_assign() and release keep the cache and the heap in step.   *)
LruTracksLiveConns ==
    /\ IsInjective(lru)
    /\ ToSet(lru) = Live \ (IF pc = "release" /\ sub # "deq" THEN {cur} ELSE {})
    /\ \A i, j \in DOMAIN lru : i # j => conn[lru[i]].cid # conn[lru[j]].cid

(* vl->conns_tcp_active, incremented on accept and decremented on release, *)
(* is the number of allocated connection objects.                          *)
ActiveCountsLive == active = Cardinality(Live)

(* The sockets the server holds and the peers agree: a client the server   *)
(* accepted and has not closed is owned by exactly one live connection,     *)
(* and a live connection's fd is the socket of a client it accepted.       *)
SocketsMatchConns ==
    \A k \in Clients :
        /\ Cardinality(OwnerOf(k)) <= 1
        /\ (client[k].st = "accepted") = (OwnerOf(k) # {})

\* The queues and the link field each is threaded through.
QLinks == {<<"accept", "read">>, <<"read", "read">>, <<"write", "write">>,
           <<"parse", "gen">>, <<"resolve", "gen">>, <<"pack", "gen">>,
           <<"log", "gen">>, <<"release", "gen">>}

Queued(qn, lk) == InQueue(fifo, qn, lk)

(* Once vl_fn_tcp_write() has repopulated the write queue, the connections *)
(* flagged in_write_queue are exactly those linked from its head: a        *)
(* connection requeued after a partial write is still in the queue.        *)
(* (Spec invariant 1, on the write FIFO.)                                  *)
WriteQueueConsistent ==
    pc # "tcp_write" =>
        {c \in Conns : alloc[c] /\ fifo.flag.write[c]} = Queued("write", "write")

(* No queue links a connection that conn_release() has freed: every stage *)
(* that dequeues it would use freed memory.                                *)
NoFreedConnQueued ==
    /\ halted # "use_after_free"
    /\ \A ql \in QLinks : Queued(ql[1], ql[2]) \subseteq Live \cup {Listener}

(* A shard never holds more than tcp_conns_per_vl_max TCP connections     *)
(* (spec invariant 2), which vl_fn_tcp_accept_conns() computes as          *)
(* accept_max.                                                             *)
ActiveWithinCap == active <= TcpConnsMax

(* Every connection accept4() hands to vl_fn_tcp_accept_conns() becomes a  *)
(* connection object or is closed: no peer is left connected to a socket   *)
(* the server neither reads nor closes.                                    *)
NoLeakedSocket == \A k \in Clients : client[k].st # "leaked"

(* The read buffer holds exactly the last read_buffer_len bytes the        *)
(* connection read from its socket: vl_fn_tcp_read() appends what read()   *)
(* returns and vl_fn_query_log() drops the bytes of the answered queries.  *)
ReadBufferIsStreamSuffix ==
    \A c \in Live :
        conn[c].fd # NULL =>
            LET k == conn[c].fd
                r == conn[c].rlen
            IN  /\ 0 <= r /\ r <= client[k].rd
                /\ \A i \in 0..(r - 1) :
                       conn[c].rbuf[i] = Stream[k][client[k].rd - r + i + 1]

(* Every iteration of vl_run() reaches its end: the shard always comes     *)
(* back to the top of the loop (or the process has stopped).  The removal  *)
(* loops of vl_fn_tcp_conn_release() must terminate for this.              *)
IterationsComplete == []<>(pc = "top" \/ halted # "no")

(* At the top of each iteration, a connection that vl_fn_query_log() or   *)
(* vl_fn_tcp_read() has put back to wait for a new query has delivered,    *)
(* through vl_fn_tcp_write(), the whole response to every query it read    *)
(* that query_parse() answered: the write loop starts each batch at        *)
(* query_write_index.                                                      *)
AnsweredBeforeIdle ==
    pc = "top" =>
    \A c \in Live :
        conn[c].state = "WAIT_FOR_QUERY" /\ conn[c].fd # NULL =>
            client[conn[c].fd].got = RespLen * owed[conn[c].fd]

(* Spec invariant 5: a connection's timeout is the time it entered its     *)
(* state (some loop_timestamp so far) plus the setting for that state:     *)
(* tcp_keepalive while waiting for a query, tcp_query_recv_timeout while   *)
(* waiting for the rest of one, tcp_query_send_timeout while writing.      *)
TimeoutMatchesState ==
    LET Setting == [WAIT_FOR_QUERY |-> Keepalive, WAIT_FOR_QUERY_DATA |-> RecvTimeout,
                    WAIT_FOR_WRITE |-> SendTimeout]
    IN  \A c \in Live :
            conn[c].state \in DOMAIN Setting =>
                conn[c].timeout - Setting[conn[c].state] \in 0..ts

\* The connections linked from a queue's head, in order (at most |Objs|).
RECURSIVE ListFrom(_, _, _, _)
ListFrom(f, lk, x, n) ==
    IF x = NULL \/ n = 0 THEN <<>>
    ELSE <<x>> \o ListFrom(f, lk, f.link[lk][x], n - 1)

\* The TCP read queue as a sequence: during vl_fn_tcp_read() the connections
\* put back into its local new_queue follow the ones still to be read.
ReadQueueSeq ==
    ListFrom(fifo, "read", fifo.q["read"].head, Cardinality(Objs))
    \o (IF pc = "tcp_read"
        THEN ListFrom(fifo, "read", fifo.q["new"].head, Cardinality(Objs))
        ELSE <<>>)

ReadQueueFlagged == {c \in Live : fifo.flag.read[c]}

AbsReadQueue == INSTANCE ConnQueue WITH Elems <- Conns, queue <- ReadQueueSeq,
                                        queued <- ReadQueueFlagged

(* The intrusive TCP read queue (conn_fifo_enqueue_read/dequeue_read, the  *)
(* new_queue splice of vl_fn_tcp_read() and the loop of                    *)
(* conn_fifo_remove_from_read_queue()) implements a FIFO of distinct       *)
(* connections whose in_read_queue flags name exactly its members.         *)
ReadQueueIsFifo == AbsReadQueue!Spec
====
