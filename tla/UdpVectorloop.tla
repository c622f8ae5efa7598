--------------------------- MODULE UdpVectorloop ---------------------------
(***************************************************************************)
(* The UDP half of one vectorloop shard (src/src/vectorloop.c): the UDP    *)
(* part of vl_fn_epoll, vl_fn_udp_read (recvmmsg), the UDP branches of the *)
(* parse, resolve and pack stages, vl_fn_udp_write (sendmmsg) and the UDP  *)
(* branch of vl_fn_query_log, over the per-listener vectors of conn.c     *)
(* (conn_udp_vectors_reset, src/unnamed/part_001).                         *)
(*                                                                         *)
(* Every stage drains its queue one listener at a time and each listener   *)
(* handled is one step, so datagrams may arrive and the send buffer may   *)
(* fill or drain between any two.  The TCP stages touch none of this state *)
(* and are left out.  A datagram is a model value; Kind says what          *)
(* query_parse makes of it, and a datagram stands for its client address  *)
(* and its request alike.  The slots of a listener's vectors hold what the *)
(* C buffers hold, including what a reset leaves behind.                   *)
(***************************************************************************)
EXTENDS Integers, Sequences, FiniteSets, SequencesExt, BagsExt

CONSTANTS
    LSeq,          \* the UDP listeners in vl_register_listeners order
    Dgrams,        \* the datagrams clients send, each once
    Kind,          \* Kind[d]: "query", "formerr", "short" or "big"
    VecLen,        \* cfg->udp_conn_vector_len
    None,          \* a slot or buffer never written
    MayPartial,    \* whether the send buffer may fill part way through a sendmmsg
    MaxErrs,       \* bound on recvmmsg/sendmmsg errors other than EAGAIN
    MaxFills       \* bound on the send buffer filling up

Listeners == Range(LSeq)
Slots == 0 .. VecLen - 1

\* End codes (rip_ns_rcode_t) the UDP stages test.
rip_ns_r_rip_unknown == -1
rip_ns_r_noerror == 0
rip_ns_r_formerr == 1
rip_ns_r_rip_shortheader == -2
rip_ns_r_rip_toolarge == -3

\* query_report_metrics(): the dns.queries_rcode_* counter of each end code
\* its switch names; any other end code is counted under none.
RcodeCounter ==
    (0 :> "rcode_noerror") @@ (1 :> "rcode_formerr") @@ (2 :> "rcode_servfail")
    @@ (3 :> "rcode_nxdomain") @@ (4 :> "rcode_notimpl") @@ (5 :> "rcode_refused")
    @@ (16 :> "rcode_badversion") @@ (-2 :> "rcode_shortheader")
    @@ (-3 :> "rcode_toolarge")

\* The counters a UDP query reaches: udp.queries (protocol 0) and the rcode
\* counters.  The qtype and EDNS counters depend on request fields this
\* model abstracts away.
Counters == {"udp_queries"} \cup Range(RcodeCounter)

\* query_report_metrics() for a UDP query with end code e.
query_report_metrics(m, e) ==
    [k \in Counters |->
        m[k] + (IF k = "udp_queries"
                   \/ (e \in DOMAIN RcodeCounter /\ k = RcodeCounter[e])
                THEN 1 ELSE 0)]

\* The end code query_parse leaves (the size check is vl_fn_query_parse's).
ParseCode(d) ==
    CASE Kind[d] = "formerr" -> rip_ns_r_formerr
      [] Kind[d] = "short"   -> rip_ns_r_rip_shortheader
      [] OTHER               -> rip_ns_r_rip_unknown

\* A datagram the server answers: its end code ends up >= 0.
Answerable(d) == Kind[d] \in {"query", "formerr"}

\* write_vector[j]: the read slot whose msg_name it points at, the query
\* slot whose response_buffer is its iov_base, and the response whose
\* length is in iov_len.  Unset is what malloc() left in it.
Unset == [name |-> None, buf |-> None, len |-> None]

\* The UDP stages of vl_run(), in order, and the queue each drains.
Stages == <<"epoll", "udp_read", "parse", "resolve", "pack", "udp_write", "log">>
QueueOf == [udp_read |-> "read", parse |-> "parse", resolve |-> "resolve",
            pack |-> "pack", udp_write |-> "write", log |-> "log"]
QueueNames == {"read", "parse", "resolve", "pack", "write", "log"}

VARIABLES
    pc,        \* the stage of vl_run() the shard is in
    queue,     \* queue[q]: a connection FIFO of the shard
    newQ,      \* the local new_queue of vl_fn_udp_write
    wvc,       \* the local write_vector_count of vl_fn_udp_write
    waitR,     \* conn->waiting_for_read
    waitW,     \* conn->waiting_for_write
    evIn,      \* an EPOLLIN edge epoll_wait has not returned yet
    evOut,     \* an EPOLLOUT edge epoll_wait has not returned yet
    rcv,       \* the socket receive queue
    full,      \* the socket send buffer has no room
    rcount,    \* conn_udp->read_vector_count
    wcount,    \* conn_udp->write_vector_count
    windex,    \* conn_udp->write_vector_write_index
    rd,        \* rd[l][i]: the datagram recvmmsg stored in read slot i
    qend,      \* qend[l][i]: queries[i].end_code
    rlen,      \* rlen[l][i]: whose response length response_buffer_len holds
    bufs,      \* bufs[l][i]: whose response response_buffer holds
    wv,        \* wv[l][j]: write_vector[j]
    at,        \* at[d]: the listener d arrived at (history)
    sent,      \* the datagrams sendmmsg put on the wire (history)
    oob,       \* write_vector was indexed past vector_len (history)
    errs,      \* socket errors so far
    fills,     \* send buffer fills so far
    metrics,   \* metrics[k]: the counters of metrics_t query_report_metrics adds to
    reported   \* the bag of datagrams whose query was reported (history)

shard == <<pc, queue, newQ, wvc, waitR, waitW, rcount, wcount, windex,
           rd, qend, rlen, bufs, wv>>
kernel == <<evIn, evOut, rcv, full>>
history == <<at, sent, oob, errs, fills>>
reporting == <<metrics, reported>>
vars == <<shard, kernel, history, reporting>>

StageAfter(s) ==
    IF s = Stages[Len(Stages)] THEN Stages[1]
    ELSE Stages[1 + CHOOSE i \in 1 .. Len(Stages) : Stages[i] = s]

\* conn_fifo_enqueue_read/_write: a no-op while the connection's in-queue
\* flag is set, that is while it is already in such a queue.
EnqueueFlagged(q, l) == IF l \in Range(q) THEN q ELSE Append(q, l)

\* conn_udp_vectors_reset, but for read_vector_count, which the caller sets
\* at once: write count and index zeroed, end codes and response lengths
\* cleared by query_reset; response buffers and write vector left as is.
Reset(l) ==
    /\ wcount' = [wcount EXCEPT ![l] = 0]
    /\ windex' = [windex EXCEPT ![l] = 0]
    /\ qend' = [qend EXCEPT ![l] = [i \in Slots |-> rip_ns_r_rip_unknown]]
    /\ rlen' = [rlen EXCEPT ![l] = [i \in Slots |-> None]]

Init ==
    /\ pc = Stages[1]
    \* vl_register_listeners: each listener is put in the read queue.
    /\ queue = [q \in QueueNames |-> IF q = "read" THEN LSeq ELSE <<>>]
    /\ newQ = <<>> /\ wvc = 0
    /\ waitR = [l \in Listeners |-> FALSE]
    /\ waitW = [l \in Listeners |-> FALSE]
    /\ evIn = [l \in Listeners |-> FALSE]
    /\ evOut = [l \in Listeners |-> FALSE]
    /\ rcv = [l \in Listeners |-> <<>>]
    /\ full = [l \in Listeners |-> FALSE]
    /\ rcount = [l \in Listeners |-> 0]
    /\ wcount = [l \in Listeners |-> 0]
    /\ windex = [l \in Listeners |-> 0]
    /\ rd = [l \in Listeners |-> [i \in Slots |-> None]]
    /\ qend = [l \in Listeners |-> [i \in Slots |-> rip_ns_r_rip_unknown]]
    /\ rlen = [l \in Listeners |-> [i \in Slots |-> None]]
    /\ bufs = [l \in Listeners |-> [i \in Slots |-> None]]
    /\ wv = [l \in Listeners |-> [j \in Slots |-> Unset]]
    /\ at = [d \in Dgrams |-> None]
    /\ sent = <<>>
    /\ oob = FALSE
    /\ errs = 0 /\ fills = 0
    \* ripples(): *metrics = (metrics_t){ }.
    /\ metrics = [k \in Counters |-> 0]
    /\ reported = EmptyBag

-----------------------------------------------------------------------------
(* vl_fn_epoll, UDP part: each listener with a pending edge is returned   *)
(* once, in an order the kernel picks; an EPOLLIN edge requeues it for    *)
(* reading and an EPOLLOUT edge for writing, only if it was waiting.      *)
vl_fn_epoll ==
    /\ pc = "epoll"
    /\ \E ord \in SetToSeqs({l \in Listeners : evIn[l] \/ evOut[l]}) :
        queue' = [queue EXCEPT
            !["read"] = FoldLeft(EnqueueFlagged, @,
                          SelectSeq(ord, LAMBDA l : evIn[l] /\ waitR[l])),
            !["write"] = FoldLeft(EnqueueFlagged, @,
                          SelectSeq(ord, LAMBDA l : evOut[l] /\ waitW[l]))]
    /\ waitR' = [l \in Listeners |-> waitR[l] /\ ~evIn[l]]
    /\ waitW' = [l \in Listeners |-> waitW[l] /\ ~evOut[l]]
    /\ evIn' = [l \in Listeners |-> FALSE]
    /\ evOut' = [l \in Listeners |-> FALSE]
    /\ pc' = StageAfter(pc)
    /\ UNCHANGED <<newQ, wvc, rcount, wcount, windex, rd, qend, rlen, bufs,
                   wv, rcv, full, history>>
    /\ UNCHANGED reporting

\* Mutant: recvmmsg given the receive queue's length as vlen.
RecvCountAll(l) == Len(rcv[l])

\* recvmmsg(fd, read_vector, vector_len, MSG_DONTWAIT): the datagrams it
\* takes from the receive queue, at most vector_len of them.
RecvCount(l) == IF Len(rcv[l]) < VecLen THEN Len(rcv[l]) ELSE VecLen

\* Mutant: the EAGAIN branch forgets to set waiting_for_read.
WaitForReadSkipped(l) == UNCHANGED waitR

\* The EAGAIN branch: the listener waits for EPOLLIN.
WaitForRead(l) == waitR' = [waitR EXCEPT ![l] = TRUE]

(* vl_fn_udp_read, one listener: reset its vectors, then recvmmsg with    *)
(* MSG_DONTWAIT.  Datagrams go to the parse queue; EAGAIN marks the       *)
(* listener waiting for EPOLLIN; any other error puts it back at the tail *)
(* of the read queue this very loop is draining.                          *)
vl_fn_udp_read ==
    /\ pc = "udp_read" /\ queue["read"] # <<>>
    /\ LET l == Head(queue["read"])
           rest == Tail(queue["read"])
       IN /\ Reset(l)
          /\ \/ /\ rcv[l] # <<>>
                /\ LET n == RecvCount(l)
                   IN /\ rd' = [rd EXCEPT ![l] = [i \in Slots |->
                                    IF i < n THEN rcv[l][i + 1] ELSE @[i]]]
                      /\ rcv' = [rcv EXCEPT ![l] = SubSeq(@, n + 1, Len(@))]
                      /\ rcount' = [rcount EXCEPT ![l] = n]
                /\ queue' = [queue EXCEPT !["read"] = rest,
                                          !["parse"] = Append(@, l)]
                /\ UNCHANGED <<waitR, errs>>
             \/ /\ rcv[l] = <<>>
                /\ WaitForRead(l)
                /\ queue' = [queue EXCEPT !["read"] = rest]
                /\ rcount' = [rcount EXCEPT ![l] = 0]
                /\ UNCHANGED <<rd, rcv, errs>>
             \/ /\ errs < MaxErrs
                /\ errs' = errs + 1
                /\ queue' = [queue EXCEPT !["read"] = EnqueueFlagged(rest, l)]
                /\ rcount' = [rcount EXCEPT ![l] = 0]
                /\ UNCHANGED <<rd, rcv, waitR>>
    /\ UNCHANGED <<pc, newQ, wvc, waitW, bufs, wv, evIn, evOut, full,
                   at, sent, oob, fills>>
    /\ UNCHANGED reporting

(* vl_fn_query_parse, UDP branch, one listener: an oversized datagram is  *)
(* marked too large; any other has its address copied into write_vector[i] *)
(* and is parsed by query_parse.                                          *)
vl_fn_query_parse ==
    /\ pc = "parse" /\ queue["parse"] # <<>>
    /\ LET l == Head(queue["parse"])
           Read(i) == i < rcount[l]
           Big(i) == Kind[rd[l][i]] = "big"
       IN /\ qend' = [qend EXCEPT ![l] = [i \in Slots |->
                 IF ~Read(i) THEN @[i]
                 ELSE IF Big(i) THEN rip_ns_r_rip_toolarge
                 ELSE ParseCode(rd[l][i])]]
          /\ wv' = [wv EXCEPT ![l] = [j \in Slots |->
                 IF Read(j) /\ ~Big(j) THEN [@[j] EXCEPT !.name = j] ELSE @[j]]]
          /\ queue' = [queue EXCEPT !["parse"] = Tail(@),
                                    !["resolve"] = Append(@, l)]
    /\ UNCHANGED <<pc, newQ, wvc, waitR, waitW, rcount, wcount, windex, rd,
                   rlen, bufs, kernel, history>>
    /\ UNCHANGED reporting

(* vl_fn_query_resolve, UDP branch: query_resolve answers every query     *)
(* whose end code is still unknown.                                       *)
vl_fn_query_resolve ==
    /\ pc = "resolve" /\ queue["resolve"] # <<>>
    /\ LET l == Head(queue["resolve"])
       IN /\ qend' = [qend EXCEPT ![l] = [i \in Slots |->
                 IF i < rcount[l] /\ @[i] = rip_ns_r_rip_unknown
                 THEN rip_ns_r_noerror ELSE @[i]]]
          /\ queue' = [queue EXCEPT !["resolve"] = Tail(@),
                                    !["pack"] = Append(@, l)]
    /\ UNCHANGED <<pc, newQ, wvc, waitR, waitW, rcount, wcount, windex, rd,
                   rlen, bufs, wv, kernel, history>>
    /\ UNCHANGED reporting

(* vl_fn_query_response_pack, UDP branch: query_response_pack writes the  *)
(* response buffer and its length for every end code >= 0.               *)
vl_fn_query_response_pack ==
    /\ pc = "pack" /\ queue["pack"] # <<>>
    /\ LET l == Head(queue["pack"])
           Packed(i) == i < rcount[l] /\ qend[l][i] >= 0
       IN /\ bufs' = [bufs EXCEPT ![l] = [i \in Slots |->
                 IF Packed(i) THEN rd[l][i] ELSE @[i]]]
          /\ rlen' = [rlen EXCEPT ![l] = [i \in Slots |->
                 IF Packed(i) THEN rd[l][i] ELSE @[i]]]
          /\ queue' = [queue EXCEPT !["pack"] = Tail(@),
                                    !["write"] = EnqueueFlagged(@, l)]
    /\ UNCHANGED <<pc, newQ, wvc, waitR, waitW, rcount, wcount, windex, rd,
                   qend, wv, kernel, history>>
    /\ UNCHANGED reporting

(* The slots of listener l that have a response, in slot order.           *)
Answered(l) ==
    SelectSeq([k \in 1 .. rcount[l] |-> k - 1], LAMBDA i : qend[l][i] > -1)

(* The datagram sendmmsg builds from a write vector entry: its address    *)
(* and payload are read through the entry's pointers at send time.        *)
Wire(l, e) ==
    [from |-> l,
     to   |-> IF e.name = None THEN None ELSE rd[l][e.name],
     body |-> IF e.buf = None THEN None ELSE bufs[l][e.buf],
     len  |-> e.len]

(* vl_fn_udp_write, one listener.  The populate loop appends an entry per *)
(* answered slot at write_vector[write_vector_count], a count declared    *)
(* once for the whole call, then sendmmsg sends write_vector_count        *)
(* entries from write_vector_write_index.  All sent: to the log queue;    *)
(* EAGAIN: wait for EPOLLOUT; a partial send advances the index and an    *)
(* error retries, both through new_queue.  An index >= vector_len is past *)
(* the malloc'd vector.                                                   *)
vl_fn_udp_write ==
    /\ pc = "udp_write" /\ queue["write"] # <<>>
    /\ LET l == Head(queue["write"])
           rest == Tail(queue["write"])
           A == Answered(l)
           count == wvc + Len(A)
           vec == [j \in Slots |->
                     IF wvc <= j /\ j < count
                     THEN [name |-> A[j - wvc + 1], buf |-> A[j - wvc + 1],
                           len |-> rlen[l][A[j - wvc + 1]]]
                     ELSE wv[l][j]]
           Msgs(n) == [k \in 1 .. n |->
                         LET j == windex[l] + k - 1
                         IN IF j \in Slots THEN Wire(l, vec[j])
                            ELSE [from |-> l, to |-> None, body |-> None,
                                  len |-> None]]
           Past(n) == count > VecLen \/ (n > 0 /\ windex[l] + n > VecLen)
       IN /\ wvc' = count
          /\ wv' = [wv EXCEPT ![l] = vec]
          \* sendmmsg() of no message returns 0 whether or not the buffer is full
          /\ \/ /\ ~full[l] \/ count = 0
                /\ sent' = sent \o Msgs(count)
                /\ oob' = (oob \/ Past(count))
                /\ wcount' = [wcount EXCEPT ![l] = count]
                /\ queue' = [queue EXCEPT !["write"] = rest,
                                          !["log"] = Append(@, l)]
                /\ UNCHANGED <<newQ, windex, waitW, errs, full, fills>>
             \/ /\ ~full[l] /\ MayPartial /\ fills < MaxFills
                \* the buffer fills after n of the datagrams
                /\ full' = [full EXCEPT ![l] = TRUE]
                /\ fills' = fills + 1
                /\ \E n \in 1 .. count - 1 :
                     /\ sent' = sent \o Msgs(n)
                     /\ oob' = (oob \/ Past(n))
                     /\ windex' = [windex EXCEPT ![l] = @ + n]
                     /\ wcount' = [wcount EXCEPT ![l] = count - n]
                /\ queue' = [queue EXCEPT !["write"] = rest]
                /\ newQ' = EnqueueFlagged(newQ, l)
                /\ UNCHANGED <<waitW, errs>>
             \/ /\ full[l] /\ count > 0
                /\ waitW' = [waitW EXCEPT ![l] = TRUE]
                /\ oob' = (oob \/ count > VecLen)
                /\ wcount' = [wcount EXCEPT ![l] = count]
                /\ queue' = [queue EXCEPT !["write"] = rest]
                /\ UNCHANGED <<newQ, windex, sent, errs, full, fills>>
             \/ /\ errs < MaxErrs /\ count > 0
                /\ errs' = errs + 1
                /\ oob' = (oob \/ count > VecLen)
                /\ wcount' = [wcount EXCEPT ![l] = count]
                /\ queue' = [queue EXCEPT !["write"] = rest]
                /\ newQ' = EnqueueFlagged(newQ, l)
                /\ UNCHANGED <<windex, waitW, sent, full, fills>>
    /\ UNCHANGED <<pc, waitR, rcount, rd, qend, rlen, bufs, evIn, evOut, rcv,
                   at>>
    /\ UNCHANGED reporting

(* The end of vl_fn_udp_write: the connections to retry become the write  *)
(* queue; new_queue and write_vector_count go out of scope.               *)
udp_write_done ==
    /\ pc = "udp_write" /\ queue["write"] = <<>>
    /\ queue' = [queue EXCEPT !["write"] = newQ]
    /\ newQ' = <<>> /\ wvc' = 0
    /\ pc' = StageAfter(pc)
    /\ UNCHANGED <<waitR, waitW, rcount, wcount, windex, rd, qend, rlen,
                   bufs, wv, kernel, history>>
    /\ UNCHANGED reporting

\* Mutant: the loop runs over the whole vector, not read_vector_count.
LoggedSlotsAll(l) == Slots

\* for (int i = 0; i < conn_udp->read_vector_count; i++)
LoggedSlots(l) == 0 .. rcount[l] - 1

(* vl_fn_query_log, UDP branch: each query the listener read is logged    *)
(* (QueryLogFlip models the buffer) and reported to query_report_metrics, *)
(* then the listener goes back to the read queue.                         *)
vl_fn_query_log ==
    /\ pc = "log" /\ queue["log"] # <<>>
    /\ LET l == Head(queue["log"])
           idx == SetToSortSeq(LoggedSlots(l), <)
       IN /\ queue' = [queue EXCEPT !["log"] = Tail(@),
                                    !["read"] = EnqueueFlagged(@, l)]
          /\ metrics' = FoldLeft(LAMBDA m, i : query_report_metrics(m, qend[l][i]),
                                 metrics, idx)
          /\ reported' = FoldLeft(LAMBDA b, i : BagAdd(b, rd[l][i]), reported, idx)
    /\ UNCHANGED <<pc, newQ, wvc, waitR, waitW, rcount, wcount, windex, rd,
                   qend, rlen, bufs, wv, kernel, history>>

(* Any other stage whose queue is empty returns and vl_run() moves on.    *)
stage_done ==
    /\ pc \notin {"epoll", "udp_write"}
    /\ queue[QueueOf[pc]] = <<>>
    /\ pc' = StageAfter(pc)
    /\ UNCHANGED <<queue, newQ, wvc, waitR, waitW, rcount, wcount, windex,
                   rd, qend, rlen, bufs, wv, kernel, history>>
    /\ UNCHANGED reporting

-----------------------------------------------------------------------------
(* The network and the kernel.                                            *)

\* A client's datagram reaches listener l: queued and an EPOLLIN edge.
Arrive(d, l) ==
    /\ at[d] = None
    /\ at' = [at EXCEPT ![d] = l]
    /\ rcv' = [rcv EXCEPT ![l] = Append(@, d)]
    /\ evIn' = [evIn EXCEPT ![l] = TRUE]
    /\ UNCHANGED <<shard, evOut, full, sent, oob, errs, fills>>
    /\ UNCHANGED reporting

\* The send buffer of l fills up (other traffic, a slow interface).
Fill(l) ==
    /\ ~full[l] /\ fills < MaxFills
    /\ full' = [full EXCEPT ![l] = TRUE]
    /\ fills' = fills + 1
    /\ UNCHANGED <<shard, evIn, evOut, rcv, at, sent, oob, errs>>
    /\ UNCHANGED reporting

\* The send buffer of l drains: an EPOLLOUT edge.
Drain(l) ==
    /\ full[l]
    /\ full' = [full EXCEPT ![l] = FALSE]
    /\ evOut' = [evOut EXCEPT ![l] = TRUE]
    /\ UNCHANGED <<shard, evIn, rcv, history>>
    /\ UNCHANGED reporting

ShardStep ==
    \/ vl_fn_epoll \/ vl_fn_udp_read \/ vl_fn_query_parse
    \/ vl_fn_query_resolve \/ vl_fn_query_response_pack \/ vl_fn_udp_write
    \/ udp_write_done \/ vl_fn_query_log \/ stage_done

Next ==
    \/ ShardStep
    \/ \E d \in Dgrams, l \in Listeners : Arrive(d, l)
    \/ \E l \in Listeners : Fill(l) \/ Drain(l)

\* The shard thread runs vl_run() forever, and the kernel eventually
\* empties a full send buffer.
Spec == Init /\ [][Next]_vars /\ WF_vars(ShardStep)
             /\ \A l \in Listeners : WF_vars(Drain(l))

-----------------------------------------------------------------------------
Entries == [name : Slots \cup {None}, buf : Slots \cup {None},
            len : Dgrams \cup {None}]

TypeOK ==
    /\ pc \in Range(Stages)
    /\ queue \in [QueueNames -> Seq(Listeners)]
    /\ newQ \in Seq(Listeners) /\ wvc \in Nat
    /\ waitR \in [Listeners -> BOOLEAN] /\ waitW \in [Listeners -> BOOLEAN]
    /\ evIn \in [Listeners -> BOOLEAN] /\ evOut \in [Listeners -> BOOLEAN]
    /\ rcv \in [Listeners -> Seq(Dgrams)] /\ full \in [Listeners -> BOOLEAN]
    /\ rcount \in [Listeners -> 0 .. VecLen]
    /\ wcount \in [Listeners -> Nat] /\ windex \in [Listeners -> Nat]
    /\ rd \in [Listeners -> [Slots -> Dgrams \cup {None}]]
    /\ qend \in [Listeners -> [Slots -> -3 .. 1]]
    /\ rlen \in [Listeners -> [Slots -> Dgrams \cup {None}]]
    /\ bufs \in [Listeners -> [Slots -> Dgrams \cup {None}]]
    /\ wv \in [Listeners -> [Slots -> Entries]]
    /\ at \in [Dgrams -> Listeners \cup {None}]
    /\ oob \in BOOLEAN
    /\ metrics \in [Counters -> Nat]

\* What vl_fn_udp_write puts on the wire is right: every datagram sent is
\* the complete response to a request the server answers, addressed to
\* the client that sent it and sent from the listener it reached; no
\* response goes out twice and write_vector is never indexed past
\* vector_len.  Wrong entries come from write vector slots populated by an
\* earlier batch or listener, or never populated at all.
AnswersMatch ==
    /\ ~oob
    /\ \A k \in 1 .. Len(sent) :
         LET m == sent[k]
         IN /\ m.body \in Dgrams /\ Answerable(m.body)
            /\ m.to = m.body /\ m.len = m.body /\ m.from = at[m.body]
    /\ \A k1, k2 \in 1 .. Len(sent) : k1 # k2 => sent[k1].body # sent[k2].body

\* The end code spec.md section 7 gives each kind of datagram: NOERROR for
\* a query the reference resolver answers, FORMERR, and the two codes of
\* requests that get no response.
KindCode(d) ==
    CASE Kind[d] = "query"   -> rip_ns_r_noerror
      [] Kind[d] = "formerr" -> rip_ns_r_formerr
      [] Kind[d] = "short"   -> rip_ns_r_rip_shortheader
      [] Kind[d] = "big"     -> rip_ns_r_rip_toolarge

\* Spec section 4, step 12 (query-log: "update metrics"): the counters
\* vl_fn_query_log() feeds through query_report_metrics() count every
\* received datagram at most once, only datagrams a client sent, and under
\* the rcode of that datagram, across recvmmsg batches, partial and failed
\* sendmmsg calls, retries through new_queue and the reuse of the vectors.
MetricsCountQueries ==
    /\ BagToSet(reported) \subseteq Dgrams
    /\ \A d \in BagToSet(reported) : CopiesIn(d, reported) = 1
    /\ metrics["udp_queries"] = BagCardinality(reported)
    /\ \A e \in DOMAIN RcodeCounter :
        metrics[RcodeCounter[e]] = Cardinality({d \in BagToSet(reported) : KindCode(d) = e})

\* Every request the server answers that reaches a listener is eventually
\* answered: the EAGAIN paths of recvmmsg and sendmmsg park the listener
\* only until the edge-triggered epoll event that requeues it.
EveryQueryAnswered ==
    \A d \in Dgrams :
        Answerable(d) /\ at[d] # None ~> \E k \in 1 .. Len(sent) : sent[k].body = d
====
