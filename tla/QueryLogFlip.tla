---------------------------- MODULE QueryLogFlip ----------------------------
(***************************************************************************)
(* The query log of ripples: each shard logs the queries it answered into *)
(* the active one of two buffers (vl_fn_query_log() in src/src/           *)
(* vectorloop.c, query_log() in src/unnamed/part_004); the query log      *)
(* thread (query_log_loop() in src/src/query_log_loop.c) asks each shard  *)
(* in turn to flip its buffers over the query log channel, and writes the *)
(* buffer the shard surrendered to the log file with utl_writeall()       *)
(* (src/unnamed/part_003).                                                *)
(*                                                                         *)
(* An entry is one logged query, <<s, n>> for the n-th query shard s      *)
(* logged, and occupies one unit of buffer; QUERY_LOG_BUF_MIN_SPACE and   *)
(* the buffer size are counted in the same units.  Every log file the     *)
(* thread opens is appended to one sequence, file, in the order of        *)
(* writing: rotation changes which file bytes go to, not their order.     *)
(***************************************************************************)
EXTENDS Integers, Sequences, FiniteSets, SequencesExt

CONSTANTS
    Shards,       \* vectorloop ids 1..process_thread_count
    NULL,         \* the NULL pointer
    Garbage,      \* what freshly malloc()ed buffer memory holds
    MaxEntries,   \* bound on the queries each shard logs
    BufSize,      \* cfg->query_log_buffer_size, per buffer
    MinSpace,     \* QUERY_LOG_BUF_MIN_SPACE
    RotateSize,   \* cfg->query_log_rotate_size
    ChanCap,      \* messages an lfds711 queue_bss of CHANNEL_BSS_QUEUE_LEN holds
    MayFail       \* whether write() and open() of the log file may fail

ASSUME /\ Shards = 1..Cardinality(Shards) /\ Shards # {}
       /\ {BufSize, MinSpace, RotateSize, ChanCap} \subseteq Nat \ {0}
       /\ MaxEntries \in Nat

Sides == {"A", "B"}
Entry == Shards \X (1..MaxEntries)
Other(k) == IF k = "A" THEN "B" ELSE "A"

CH_OP_QUERY_LOG_FLIP == "FLIP"

VARIABLES
    buf,         \* per shard: which of a_buf / b_buf query_log.buf is
    bufLen,      \* per shard: query_log.buf_len
    sideLen,     \* per shard: query_log.a_buf_len and b_buf_len
    mem,         \* per shard and side: the buffer's memory, 1..BufSize
    logged,      \* per shard: queries handed to query_log() so far
    noSpace,     \* per shard: metrics query_log_buf_no_space
    down, up,    \* per shard: the two directions of query_log_channels[i]
    lpc,         \* where query_log_loop() is
    fd,          \* whether current_file_fd is open
    fileSize,    \* current_file_size
    dataWritten, \* data_written
    i,           \* the loop index over the channels
    rbuf, rlen,  \* buf and buf_len taken from the reply
    file,        \* the log files' contents, in the order written
    lost,        \* history: entries write() failed to write
    dropped,     \* history: entries query_log() had no room for
    snap         \* history: per shard, the contents of the surrendered buffer

shardVars == <<buf, bufLen, sideLen, mem, logged, noSpace>>
loopVars == <<lpc, fd, fileSize, dataWritten, i, rbuf, rlen, file>>
vars == <<shardVars, down, up, loopVars, lost, dropped, snap>>

Msg == [op : {CH_OP_QUERY_LOG_FLIP}, p : Sides \cup {NULL}, result : Nat]

(* channel_bss_send() / channel_bssvl_send(): the enqueue fails, and the  *)
(* message is not queued, when the ring is full; callers ignore it.       *)
ChanSend(ch, m) == IF Len(ch) < ChanCap THEN Append(ch, m) ELSE ch

(* The first n units of a shard's buffer.                                 *)
Contents(s, k, n) == [u \in 1..n |-> mem[s][k][u]]

Init ==
    /\ buf = [s \in Shards |-> "A"]
    /\ bufLen = [s \in Shards |-> 0]
    /\ sideLen = [s \in Shards |-> [k \in Sides |-> 0]]
    /\ mem = [s \in Shards |-> [k \in Sides |-> [u \in 1..BufSize |-> Garbage]]]
    /\ logged = [s \in Shards |-> 0]
    /\ noSpace = [s \in Shards |-> 0]
    /\ down = [s \in Shards |-> <<>>]
    /\ up = [s \in Shards |-> <<>>]
    /\ lpc = "top"
    /\ fd = FALSE
    /\ fileSize = 0
    /\ dataWritten = 0
    /\ i = 1
    /\ rbuf = NULL
    /\ rlen = 0
    /\ file = <<>>
    /\ lost = {}
    /\ dropped = {}
    /\ snap = [s \in Shards |-> <<>>]

-----------------------------------------------------------------------------
\* Mutant: the rotation resets the length but stays on the same side.
query_log_rotateSameSide(s) ==
    /\ sideLen' = [sideLen EXCEPT ![s] = [@ EXCEPT ![buf[s]] = bufLen[s]]]
    /\ bufLen' = [bufLen EXCEPT ![s] = 0]
    /\ UNCHANGED buf

\* Mutant: the new side's buf_len is taken from b_buf_len, not reset to 0.
query_log_rotateKeepLen(s) ==
    /\ sideLen' = [sideLen EXCEPT ![s] = [@ EXCEPT ![buf[s]] = bufLen[s]]]
    /\ buf' = [buf EXCEPT ![s] = Other(@)]
    /\ bufLen' = [bufLen EXCEPT ![s] = sideLen[s][Other(buf[s])]]

(* query_log_rotate(): the active length is saved for the side left, and  *)
(* the other side becomes active with its length reset to 0.              *)
query_log_rotate(s) ==
    /\ sideLen' = [sideLen EXCEPT ![s] = [@ EXCEPT ![buf[s]] = bufLen[s],
                                                    ![Other(buf[s])] = 0]]
    /\ buf' = [buf EXCEPT ![s] = Other(@)]
    /\ bufLen' = [bufLen EXCEPT ![s] = 0]

\* Mutant: query_log_rotate() is called before p and result are taken.
ChannelMessagesRotateFirst(s) ==
    /\ down[s] # <<>>
    /\ down' = [down EXCEPT ![s] = Tail(@)]
    /\ up' = [up EXCEPT ![s] = ChanSend(@, [Head(down[s]) EXCEPT !.p = Other(buf[s]),
                                                        !.result = 0])]
    /\ query_log_rotate(s)
    /\ snap' = [snap EXCEPT ![s] = <<>>]
    /\ UNCHANGED <<mem, logged, noSpace, loopVars, lost, dropped>>

(* vl_fn_channel_messages(), the query log channel half: on               *)
(* CH_OP_QUERY_LOG_FLIP the reply carries the active buffer and its       *)
(* length, the buffers are rotated, and the message is sent back.         *)
ChannelMessages(s) ==
    /\ down[s] # <<>>
    /\ down' = [down EXCEPT ![s] = Tail(@)]
    /\ up' = [up EXCEPT ![s] = ChanSend(@, [Head(down[s]) EXCEPT !.p = buf[s],
                                                        !.result = bufLen[s]])]
    /\ query_log_rotate(s)
    /\ snap' = [snap EXCEPT ![s] = Contents(s, buf[s], bufLen[s])]
    /\ UNCHANGED <<mem, logged, noSpace, loopVars, lost, dropped>>

(* query_log() goes on only if buf_size - buf_len, the room it is given, *)
(* is at least QUERY_LOG_BUF_MIN_SPACE.                                   *)
HasRoom(s) == BufSize - bufLen[s] >= MinSpace

(* vl_fn_query_log() for one query: query_log() writes the entry at       *)
(* buf + buf_len if buf_size - buf_len is at least                        *)
(* QUERY_LOG_BUF_MIN_SPACE, and returns 0 otherwise, which counts          *)
(* query_log_buf_no_space.                                                *)
QueryLog(s) ==
    /\ logged[s] < MaxEntries
    /\ logged' = [logged EXCEPT ![s] = @ + 1]
    /\ IF HasRoom(s)
       THEN /\ mem' = [mem EXCEPT ![s][buf[s]][bufLen[s] + 1] = <<s, logged[s] + 1>>]
            /\ bufLen' = [bufLen EXCEPT ![s] = @ + 1]
            /\ UNCHANGED <<noSpace, dropped>>
       ELSE /\ noSpace' = [noSpace EXCEPT ![s] = @ + 1]
            /\ dropped' = dropped \cup {<<s, logged[s] + 1>>}
            /\ UNCHANGED <<mem, bufLen>>
    /\ UNCHANGED <<buf, sideLen, down, up, loopVars, lost, snap>>

-----------------------------------------------------------------------------
(* query_log_loop(), top of the while loop: open the log file if it is    *)
(* not open (a failed open only logs, sleeps and retries, and changes no  *)
(* state), then start a round over the shards with data_written = 0.      *)
LogTop ==
    /\ lpc = "top"
    /\ IF fd THEN UNCHANGED fileSize ELSE fileSize' = 0
    /\ fd' = TRUE
    /\ dataWritten' = 0
    /\ i' = 1
    /\ lpc' = "send"
    /\ UNCHANGED <<shardVars, down, up, rbuf, rlen, file, lost, dropped, snap>>

(* The flip message to channel i.                                        *)
LogSend ==
    /\ lpc = "send"
    /\ down' = [down EXCEPT ![i] = ChanSend(@, [op |-> CH_OP_QUERY_LOG_FLIP,
                                                p |-> NULL, result |-> 0])]
    /\ lpc' = "wait"
    /\ UNCHANGED <<shardVars, up, fd, fileSize, dataWritten, i, rbuf, rlen,
                   file, lost, dropped, snap>>

(* The wait loop: once the reply is on the channel, buf and buf_len are   *)
(* taken from it, p is cleared and the message released.                 *)
LogReceive ==
    /\ lpc = "wait"
    /\ up[i] # <<>>
    /\ rbuf' = Head(up[i]).p
    /\ rlen' = Head(up[i]).result
    /\ up' = [up EXCEPT ![i] = Tail(@)]
    /\ lpc' = "write"
    /\ UNCHANGED <<shardVars, down, fd, fileSize, dataWritten, i, file, lost,
                   dropped, snap>>

\* Mutant: the loop over the channels stops one short.
NextChannelShort ==
    IF i < Cardinality(Shards) - 1 THEN i' = i + 1 /\ lpc' = "send"
    ELSE lpc' = "top" /\ UNCHANGED i

\* Mutant: the file is rotated only once it exceeds the rotate size.
RotateDueStrict(n) == n > RotateSize

(* current_file_size >= query_log_rotate_size after a write.             *)
RotateDue(n) == n >= RotateSize

(* Where the loop goes after shard i: on to the next channel, or back to *)
(* the top when the round is over (sleeping if nothing was written).     *)
NextChannel ==
    IF i < Cardinality(Shards) THEN i' = i + 1 /\ lpc' = "send"
    ELSE lpc' = "top" /\ UNCHANGED i

(* utl_writeall() of the reply's buffer.  On success current_file_size   *)
(* and data_written grow by buf_len, and when the file reaches            *)
(* query_log_rotate_size it is closed and a new one opened; if that open *)
(* fails the round is abandoned.  On failure, after any number of         *)
(* units was written, the file is closed and the round abandoned: the     *)
(* rest of the buffer is never written.                                   *)
LogWrite ==
    /\ lpc = "write"
    /\ LET data == Contents(i, rbuf, rlen) IN
       \/ /\ file' = file \o data
          /\ dataWritten' = dataWritten + rlen
          /\ UNCHANGED lost
          /\ IF RotateDue(fileSize + rlen)
             THEN /\ fileSize' = 0
                  /\ \/ fd' = TRUE /\ NextChannel
                     \/ MayFail /\ fd' = FALSE /\ lpc' = "top" /\ UNCHANGED i
             ELSE /\ fileSize' = fileSize + rlen
                  /\ UNCHANGED fd
                  /\ NextChannel
       \/ /\ MayFail /\ rlen # 0
          /\ \E w \in 0..(rlen - 1) :
                /\ file' = file \o SubSeq(data, 1, w)
                /\ lost' = lost \cup ToSet(SubSeq(data, w + 1, rlen))
          /\ fd' = FALSE
          /\ lpc' = "top"
          /\ UNCHANGED <<fileSize, dataWritten, i>>
    /\ UNCHANGED <<shardVars, down, up, rbuf, rlen, dropped, snap>>

ShardStep(s) == ChannelMessages(s) \/ QueryLog(s)

LogStep == LogTop \/ LogSend \/ LogReceive \/ LogWrite

Next == (\E s \in Shards : ShardStep(s)) \/ LogStep

(* The shards poll their channels at the top of every iteration of        *)
(* vl_run() and never block; the query log thread only sleeps.            *)
Spec == Init /\ [][Next]_vars /\ WF_vars(LogStep)
        /\ \A s \in Shards : WF_vars(ChannelMessages(s))

-----------------------------------------------------------------------------
TypeOK ==
    /\ buf \in [Shards -> Sides]
    /\ bufLen \in [Shards -> 0..BufSize]
    /\ sideLen \in [Shards -> [Sides -> 0..BufSize]]
    /\ mem \in [Shards -> [Sides -> [1..BufSize -> Entry \cup {Garbage}]]]
    /\ logged \in [Shards -> 0..MaxEntries]
    /\ noSpace \in [Shards -> 0..MaxEntries]
    /\ down \in [Shards -> Seq(Msg)] /\ up \in [Shards -> Seq(Msg)]
    /\ lpc \in {"top", "send", "wait", "write"}
    /\ fd \in BOOLEAN
    /\ fileSize \in 0..(RotateSize - 1)
    /\ i \in Shards
    /\ rbuf \in Sides \cup {NULL}
    /\ rlen \in 0..BufSize
    /\ file \in Seq(Entry)
    /\ lost \subseteq Entry
    /\ dropped \subseteq Entry

(* The entries of shard s that query_log() accepted, and those the shard *)
(* or the log thread still holds: the active buffer, a reply on its way, *)
(* and the buffer the log thread is about to write.                       *)
Accepted(s) == {e \in Entry : e[1] = s /\ e[2] <= logged[s]} \ dropped
Held(s) ==
    ToSet(Contents(s, buf[s], bufLen[s]))
    \cup UNION {ToSet(Contents(s, up[s][k].p, up[s][k].result)) : k \in 1..Len(up[s])}
    \cup (IF lpc = "write" /\ i = s THEN ToSet(Contents(s, rbuf, rlen)) ELSE {})

(* Spec section 5, the dual-buffer query log: the log thread never reads *)
(* a buffer the shard has not surrendered.  What utl_writeall() writes    *)
(* is exactly what the shard's buffer held when vl_fn_channel_messages()  *)
(* replied to the flip, although the shard has kept logging since.        *)
WriterReadsSurrendered ==
    lpc = "write" => Contents(i, rbuf, rlen) = snap[i]

(* Each shard's entries reach the log file once each and in the order the *)
(* shard logged them, across flips, rotations and write failures.         *)
WrittenInOrder ==
    \A u, v \in 1..Len(file) :
        u < v /\ file[u][1] = file[v][1] => file[u][2] < file[v][2]

(* No accepted entry disappears: every entry query_log() accepted is in   *)
(* the log file, still held by the shard or the log thread, or was in a   *)
(* write() that failed.                                                  *)
NoEntryLost ==
    \A s \in Shards : Accepted(s) \subseteq ToSet(file) \cup Held(s) \cup lost

(* Every accepted entry is eventually written or lost to a failed write: *)
(* the log thread visits every shard's channel round after round.        *)
EntriesReachFile ==
    \A e \in Entry :
        e \in Accepted(e[1]) ~> e \in ToSet(file) \cup lost
====
