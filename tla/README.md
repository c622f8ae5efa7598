# TLA+ models of ripples

Ripples is an authoritative DNS server written in C. The TLA+ modules here
model the parts of it whose correctness depends on interleavings, queues and
bookkeeping: the TCP and UDP paths of the per-shard *vectorloop*, the resource
hot-swap between the resource thread and the shards, the query log hand-off
between the shards and the log thread, the application log thread and its
channels, the DNS name codec, the query objects and the response they produce, and the command-line configuration the shards are started with. Every
definition is translated from the C source; PROJECT.json's `map` gives the
lines each one stands for.

## The system

| Part | Source | What it does |
|---|---|---|
| vectorloop (shard) | `src/src/vectorloop.c`, `vectorloop_epoll.c` | One non-blocking thread per shard, pinned to a CPU. `vl_run()` repeats one fixed sequence of stages: sample `loop_timestamp`, `vl_fn_channel_messages`, `vl_fn_epoll`, UDP read, TCP accept, TCP read, parse, resolve, pack, UDP write, TCP write, query log, TCP timeouts, TCP release. |
| connection FIFOs | `src/unnamed/part_001` (conn.c) | Intrusive queues threaded through `read_q_handle`, `write_q_handle` and `gen_q_handle`. The read, write and release queues use `in_*_queue` flags so that enqueueing is idempotent. The gen queues (parse, resolve, pack, log) have no flag. |
| TCP LRU cache and ids | conn.c, `src/unnamed/part_007` | A uthash LRU keyed by connection id. Read moves a connection to the MRU end, and the timeout scan walks it from the LRU end. `conn_tcp_id_assign()` looks for a free id above `conn_tcp_id_base`. |
| channels | `src/src/query_pack.c` | SPSC rings: `channel_bss` carries resource swaps from the resource thread to the shards, and `channel_log` carries messages to the log threads. |
| resource reload | `src/src/ripples.c`, `resource_utils.c` | `resource_loop()` loads a new zone and offers it to every shard. The old one is freed after all shards have acknowledged it. |
| query log / app log | `query_log_loop.c`, `part_004`, `log_app.c` | Threads that write log buffers handed over by the shards. |
| DNS codec | `rip_ns_utils.c`, `part_000`, `query.c`, `query_pack.c`, `query_resolve.c` | Query objects (init, reset, clean), query parsing, the reference resolver, name compression, response packing. |
| config, metrics | `config.c`, `part_002`, `part_008` | Option parsing, atomic counters. |

Within one shard the TCP stages interact only through the FIFOs and the
connection records. Shards interact with each other and with the other
threads only through the channels. So a shard's TCP path is a closed system
together with its peers, the TCP clients. The UDP path shares only the
stage order and the gen queues with it, and no connection, so it is modelled
on its own with the UDP clients and the kernel's socket buffers.

## Modules

### `TcpVectorloop.tla`: the TCP path of one shard

**State.** These variables hold the state of the code:
- `pc` is the stage of `vl_run()` the shard is in. `sub` and `cur` hold the position inside the accept and release loops.
- `ts` is `loop_timestamp`, in whole seconds.
- `fifo` holds the queues: head and tail of every queue, every link field and every `in_*_queue` flag. `Enq` and `Deq` transcribe the link manipulation of conn.c, so a wrong link shows up as a wrong list.
- `waitR` is `waiting_for_read`.
- `ev` is the readiness events epoll has pending.
- `alloc` and `conn` are the heap of `conn_t` / `conn_tcp_t` records:
  - state and timeout;
  - `cid`;
  - `fd`;
  - `read_buffer_len` as `rlen` (a negative value stands for a wrapped `size_t`);
  - the read buffer;
  - the queries;
  - `query_write_index` (`qwi`) and `write_index` (`widx`).
- `lru` is the LRU cache, least recently used first, and `idBase` is `conn_tcp_id_base`.
- `active` is `conns_tcp_active`.
- `acnt` and `amax` are `accept_count` and `accept_max`.
- `errno` is `errno`.
- `halted` records that the process stopped: `assert(0)`, a fatal exit, a memmove of a wrapped length, or a use after free.

**Environment.** The peers are `client`, `backlog` and `owed`.
- Each client has a fixed byte stream. It connects, sends chunks of the stream, closes, and optionally resets.
- `got` counts the response bytes the client received. `owed` counts the answered queries the server read from it.
- Peers act only at the top of an iteration, after `epoll_wait()` and before the write stage. Their steps commute with the shard's steps that make no system call, so this loses no behaviour of the shard.

**Actions.** There is one action per stage, or per iteration of a stage's loop:

| Action | Models |
|---|---|
| `Top` | the top of `vl_run()` |
| `vl_fn_epoll` | `vl_fn_epoll()`, with at most `epoll_num_events_tcp` events in any order |
| `AcceptDequeue` / `Accept4` | `vl_fn_tcp_accept_conns()`, per listener and per `accept4()` call |
| `TcpReadConn` / `TcpReadDone` | `vl_fn_tcp_read()`, per connection and the new-queue splice; `ReadFrames` is the frame loop |
| `QueryParse`, `QueryResolve`, `QueryResponsePack` | the TCP halves of the three pipeline stages |
| `TcpWriteConn` / `TcpWriteDone` | `vl_fn_tcp_write()`: full, partial or failing `write()`, then the requeue |
| `QueryLog` | the TCP half of `vl_fn_query_log()` |
| `TcpConnTimeouts` | `vl_fn_tcp_conn_timeouts()` |
| `ReleaseDequeue`, `RemoveFromReadQueue`, `ReleaseFree` | `vl_fn_tcp_conn_release()`. `RemoveFromReadQueue` is one iteration of conn.c's removal loop, so a loop that does not end is visible. The write-queue removal is guarded by `in_read_queue`, which is always clear by the time it is tested (`WriteQueueRemovalRuns`). So its loop never runs, and a state where it would run has no successor; the deadlock check would report one. |
| `Halted` | the stuttering of a stopped process |

Every action carries its stage's trailing work: state, timeout and enqueueing.

**Abstractions.**
- `RIP_NS_PACKETSZ` is scaled to one byte. A query is a frame `<<hi, lo, payload>>`.
- `query_parse()` answers a query unless it is shorter than `HeaderSize`.
- Resolving and packing do not change the control flow of the TCP path. Every response is `RespLen` bytes.
- Fresh buffer memory holds bytes from `Garbage`.
- `conn_new_tcp()` never fails, and the id-exhaustion branch is unreachable: `ASSUME IdMax > |Conns| + 1`. In the code it needs 2^64 live connections.

### `ConnQueue.tla`: what a read FIFO promises

A sequence of distinct elements whose `in_read_queue` flags name exactly its
members. Its actions are:
- `Put` appends elements that are not queued;
- `Take` removes the head;
- `Requeue` moves the head to the back.

`TcpVectorloop` instantiates it with a refinement mapping:
- `ReadQueueSeq` reads the list off the head and link fields. During `vl_fn_tcp_read()` it also includes the local `new_queue`.
- `ReadQueueFlagged` is the set of flagged connections.

`ReadQueueIsFifo` checks `AbsReadQueue!Spec` as a temporal property.

### `ResourceReload.tla`: the resource hot-swap (spec invariant 8)

The resource thread's `resource_loop()` (ripples.c) and every shard's
handling of `CH_OP_RES_SET_RESOURCE1` in `vl_fn_channel_messages()`,
connected by one `channel_bss` ring per direction.
- **State.** `file` is the zone file on disk (a version and a change time
  `<<tv_sec, tv_nsec>>`). `createTime` is the change time last recorded.
  `state` is the loop's state. `current` and `incoming` are the two resource
  pointers. `heap` is the set of artifacts allocated. `down`/`up` are the
  rings (capacity `CHANNEL_BSS_QUEUE_LEN - 1`, an enqueue on a full ring is
  lost, as the code ignores the result). `notif` marks shards whose reply has
  been taken. `acked` is a history variable: the artifact each shard last
  acknowledged.
- **Actions.**
  - `CheckResource` is the `CHECK_RESOURCE` state. It covers
    `resource_check_load_raw_file()` with its three outcomes: open/stat
    fails, unchanged, or read fails after `create_time` was updated. A new
    artifact is broadcast to every shard.
  - `resource_vls_notified` is the `WAIT_FOR_RESOURCE_UPDATE` state. It walks
    the shards in order, and once all have replied it frees the old artifact
    and swaps.
  - `GetNextResource` is the wait state.
  - `ChannelMessages(s)` is a shard popping and acknowledging.
  - `ModifyFile` is the environment writing a newer version.
- **Abstractions.** Artifacts are versions. `resource_release_raw_file()` is
  removal from `heap`.

### `QueryLogFlip.tla`: the query log hand-off

Shards log answered queries into the active one of two buffers (`query_log()`,
part_004). The log thread (`query_log_loop()`) sends each shard
`CH_OP_QUERY_LOG_FLIP`, waits for the reply carrying the surrendered buffer and
its length, and writes it with `utl_writeall()`, rotating the file at
`query_log_rotate_size`.
- **State.** Per shard: `buf`, `bufLen`, `sideLen`, `mem`, `logged`.
  Thread side: `lpc` (send, receive, write), `fd`, `fileSize`, `i`, `rbuf`,
  `rlen`. `file` is every byte written, in order. `lost`, `dropped` and `snap`
  are history variables.
- **Actions.**
  - `QueryLog(s)` either logs an entry or drops it for lack of space.
  - `ChannelMessages(s)` is the flip reply followed by `query_log_rotate()`.
  - `LogTop`, `LogSend`, `LogReceive` and `LogWrite` are the thread's loop.
    `LogWrite` covers write failure (a prefix written, the rest lost, the
    file closed), rotation, and reopen failure.
- **Abstractions.** An entry is one buffer unit `<<shard, n>>`. Every file the
  thread writes is one sequence, since rotation changes only the file name.

### `NameCodec.tla`: the DNS name codec

These are pure functions, written as RECURSIVE operators over byte sequences.
The single state is an input picked by `Init` from a small enumerated set
(`part` says which function it is for), and `Next` stutters.
- **Operators.**
  - `rip_ns_name_unpack` (with `LabelFits`, `LoopSeen` and `FirstPtrLen`).
  - `rip_dn_find` (`Walk` over the suffixes of saved names, `Match` of one).
  - `rip_ns_name_pack` (`PackLoop` and `CanSave`).
  - `rip_ns_name_pton` (`PtonLoop` and `Close`).
  - `rip_ns_name_ntop` (`NtopLoop` and `NtopChar`).
  - `rip_ns_name_put`.
  - `query_pack_edns_cs` (with `CsIpLen`), the Client Subnet option of
    the OPT RR `query_pack_edns` writes from what the parser stored.
  - `query_pack_rr` and `query_response_pack`, which pack the owner name of
    each RR against `dnptrs`, set TC and stop at the first RR that does not
    fit.
  - `query_parse` with `query_parse_request_rr_question`,
    `query_parse_request_rr_additional_edns` (`AdditionalLoop` and
    `ParseOpt`), `query_parse_edns_ext` (`EdnsExtLoop`) and
    `query_parse_edns_ext_cs`. Each returns the end code, the EDNS state and
    the set of offsets it read. The request (`req`) is the request buffer
    and `request_buffer_len`. The buffer may hold bytes past the length,
    which is what a reused UDP slot or a TCP read buffer holds. `Byte`
    reads 0 past the buffer's end, and the read is still recorded.
  - `AdditionalEom` is the additional section's `eom` as the code computes
    it: `HFIXEDSZ * (len - 1)`, the result of pointer arithmetic on
    `rip_ns_header_t *`.
- **Reference definitions.** `RefLabels` is the meaning of a wire name per
  RFC 1035 4.1.4, with loops detected by remembering pointer targets.
  `RefWire` is its uncompressed form. `RefText` is the presentation form as
  spec.md words it. `RefEcsOk` is spec 4.2's rule for a well-formed Client
  Subnet option, written with the trailing-bit test as a remainder rather
  than the code's mask.
- **Caller conventions.** `eom` is the last byte, as
  `query_parse_request_rr_question()` passes it. The code itself treats `eom`
  as one past the end. This is harmless there, because a question always has
  four more bytes after the name.

### `UdpVectorloop.tla`: the UDP path of one shard

It models the UDP stages of `vl_run()` (vectorloop.c):
- the UDP part of `vl_fn_epoll`;
- `vl_fn_udp_read`;
- the UDP branches of `vl_fn_query_parse`, `_resolve`, `_response_pack` and
  `vl_fn_query_log`;
- `vl_fn_udp_write`;
- the per-listener vectors of conn.c (`conn_udp_new` and
  `conn_udp_vectors_reset`).

`vl_register_listeners` starts an IPv4 and an IPv6 listener per shard, both
edge-triggered for read and write, and both in the read queue (`LSeq`).

- **State.** `pc` is the stage `vl_run()` is in, and `queue` holds the
  shard's FIFOs. `newQ` and `wvc` are the locals `new_queue` and
  `write_vector_count` of `vl_fn_udp_write`. They live for one call and are
  reset only when it returns (`udp_write_done`).
- **Per-listener state.** Each listener has `waiting_for_read`/`_write`,
  `read_vector_count`, `write_vector_count` and `write_vector_write_index`.
  Each slot `i` holds what the C buffers hold:
  - `rd`: the datagram `recvmmsg` stored there, which is its client address
    and its request;
  - `qend`: `end_code`;
  - `rlen`: `response_buffer_len`;
  - `bufs`: `response_buffer`, which `query_reset` does not clear;
  - `wv`: `write_vector[j]`, the read slot its `msg_name` points at, the
    query slot its `iov_base` points at, and its `iov_len`. `Unset` is an
    entry `malloc()` left uninitialised.
- **Kernel.** The kernel contributes the receive queue, a send-buffer-full
  flag and pending EPOLLIN/EPOLLOUT edges. Clients contribute `Arrive`.
  `Fill` and `Drain` model the send buffer, and `Fill` is bounded by
  `MaxFills`.
- **Actions.** Each action handles one listener of a stage's while loop.
  Datagrams can arrive and buffers drain between any two listeners:
  - `vl_fn_udp_read` resets the vectors, then takes `RecvCount` datagrams,
    or sets `waiting_for_read` on EAGAIN (`WaitForRead`). On another error it
    requeues the listener into the read queue it is draining.
  - Parse gives each datagram the end code of its kind (`ParseCode`):
    oversized is `rip_toolarge`; short header is `rip_shortheader`; FORMERR;
    or still unknown, which resolve turns into NOERROR.
  - Pack fills the response buffer of every end code >= 0.
  - `vl_fn_udp_write` populates entries from `wvc` on, then sends `wvc`
    entries from `write_vector_write_index`. It has four outcomes: all sent;
    a partial send when the buffer fills part way (if `MayPartial`); EAGAIN;
    or another error. A sent datagram is read through the entry's pointers
    at send time (`Wire`). An index at or past `vector_len` sets `oob`.
    With nothing to send, `sendmmsg` returns 0 even when the buffer is full.
  - `vl_fn_query_log` calls `query_report_metrics()` (part_002) for each of
    the `read_vector_count` slots (`LoggedSlots`). `metrics` holds the
    counters it adds to for a UDP query: `udp.queries` and the
    `dns.queries_rcode_*` counter of the end code (`RcodeCounter`). The
    history `reported` is the bag of datagrams whose slot was reported.
- **Abstraction.** The request is abstracted to what `query_parse` makes of
  it (`Kind`); `NameCodec` models the parser itself. Timestamps, the qtype
  and EDNS counters of `query_report_metrics()`, and the query log text are
  left out.

### `ConfigParse.tla`: command-line configuration

It models `config_init()` and `config_parse_opts()` (config.c) with the
helpers they call from `unnamed/part_003` (`str_to_unsigned_long`,
`str_to_bool`, `str_to_lc`, `parse_csv_to_ul_array`).
- **State.** `cfg` holds the fields of `config_t` by name, starting at the
  `CFG_DEFAULT_*` values. `alloc` is the number of `process_thread_masks`
  slots allocated and `masks` every slot stored, so a store past `alloc` is
  visible. `visited` is `entry_visited[]`, `masksArg` the copied masks
  argument, and `readbuff` `tcp_readbuff_size`.
- **Input.** `argv` is one of `Argvs`: each element is an option name as
  `getopt_long` resolved it (`"?"` when unknown, `Operand` for a
  non-option) with its argument. Numbers are integers or `NaN`. CSVs and
  boolean words are sequences of characters, since those parsers read them
  byte by byte. Other strings are model values, with `TooLong` longer than
  `FILE_REALPATH_MAX`.
- **Actions.** One per class of handler, each guarded by the duplicate check
  (`opt_duplicate`) and marking the option visited (`First`):
  - `opt_numeric` uses the code's table of fields and bounds (`NumOpts`);
  - `opt_bool`, `opt_string`, `opt_help_or_unknown`;
  - `opt_thread_count` reallocs only when the count decreases;
  - `opt_thread_masks` keeps the argument for later;
  - `getopt_operand` steps over a non-option, as GNU `getopt_long` does;
  - `getopt_done` is everything after the loop: the operand check, the CSV
    parse (its stores stay even when it fails), and the two `realpath()`
    calls, whose success is a nondeterministic choice.
- **Algorithms.** `CsvLoop` is the loop of `parse_csv_to_ul_array`. Its
  condition `p < p + strlen(p) + 1` always holds, so it runs past the NUL
  into the bytes the 0x13FF-byte `memcpy` brought in (`OverreadBytes`, a
  non-digit: the next argv string or the environment). `StrToBool` follows
  `str_to_lc`, which lowers only the first character, and `memcmp` over the
  argument's length, which accepts any prefix of `true`/`false`.
- **Left out.** The `usage()` text, GNU's unique-prefix matching of long
  option names, and `config_clean()`.

`MCConfigParse.tla` gives 25 command lines: each handler class with valid
and invalid arguments, a duplicate, an operand, the thread count and the
masks in both orders, and the two handlers that store into another field.

### `AppLog.tla`: the application log thread

It models `log_app_loop()` (log_app.c) with the `channel_log` rings
`ripples()` allocates (ripples.c:71-98) and the channel functions of
query_pack.c.
- **State.** `ring[i]` is `app_log_channels[i]`: ring `i < VlCount` is
  shard `i`'s, ring `VlCount` the resource thread's, ring `VlCount + 1` the
  query log thread's. `heap[m]` says whether message `m` was created, is
  live or was freed. `messages` is the loop's `messages[]` array, which keeps
  its contents between iterations and starts as what `malloc()` returned
  (`Uninit`). `logFd` is `log_fd > -1`; `openDue` whether
  `log_open_time` has passed. `file` is what reached the log, `dropped` what
  was counted in `app_log_write_error`.
- **Actions.** `channel_log_send(m)` is `channel_log_msg_create()` and
  `channel_log_send()` by the producer: a full ring drops the message,
  since every caller ignores the result. `open_wait_elapsed` is the
  `APP_LOG_OPEN_WAIT_TIME` passing. `log_app_loop` is one whole iteration of
  the `while (1)`: the open attempt, one receive from each polled ring that
  has a message into `messages[msg_count]` (`Polled`, `Received`), `writev()`
  with a full, short or -1 result, the release loop (`ReleaseLoop`, the code's
  `messages[msg_count]`), and `exit(1)` when a fatal message was seen while
  the file was open.
- **Left out.** The message text, the time stamp and the iovec layout;
  `byte_count` matters only through the comparison `ret < byte_count`,
  which is modelled by its outcome (`WriteFailSeen`).

`MCAppLog.tla` gives four messages, three from shard 0 and one from shard 1
(`MCSenderShards`), and a second set with a message on the resource thread's
ring (`MCSenderRes`). `VlCount = 2` and `RingCap = 2` let one iteration
receive two messages and a later one one message, which is what the release
bug needs: four messages are the fewest for a pointer to be freed twice.

### `QueryResponse.tla`: query objects and the response

It models the query objects of one shard across the requests they carry:
`query_init()`, `query_reset()` and `query_clean()` (query.c), what
`query_parse()` sets for the question and the OPT RR (part_000),
`query_resolve()` (query_resolve.c), and the header and OPT RR of
`query_response_pack()` with `query_pack_edns()` (query_pack.c).
- **State.** `q[s]` holds the fields of query object `s` that a response
  depends on: the `query_label` pointer, `end_code`, `edns_valid`,
  `dnssec`, `extended_rcode`, the pipeline stage (`phase`) and the request.
  `buf[b]` is a label buffer at address `b`: allocated or not, and the name
  it holds. `staticName` is the name pointer of `query_resolve()`'s static
  A and NS records. `resp[s]` is what a client reads from the last response
  of `s`.
- **Actions.** One per function: `query_init` (a TCP connection's
  `conn_new_tcp()`; `malloc()` may return any address not allocated,
  including a freed one), `query_clean` (its release), `query_reset`,
  `query_parse(s, r)`, `query_resolve` (the static records take this
  query's label pointer the first time), and `query_response_pack`.
- **Requests.** A request is its name, whether its qtype is A, and its OPT
  RR if any: the EXTENDED-RCODE and VERSION bytes of the TTL field and the
  DO bit. The code's version test reads `*ptr` right after
  `RIP_NS_GET16` of CLASS (part_000:263), which is the EXTENDED-RCODE byte,
  so `query_parse` tests `ext`, not `version`.
- **Left out.** Name compression and the byte layout, which `NameCodec`
  checks. The reference records take at most 402 bytes against a buffer of
  514 or more, so the TC path is not reachable. Requests that fail the
  header checks are dropped before they reach these fields.

`MCQueryResponse.tla` gives one UDP slot and one TCP slot, two names and
three buffer addresses: two are live at once, and one is left over so that a
released buffer need not be reused.

### `MCTcpVectorloop.tla`

Gives the model values:
- two connection objects and two clients (or one);
- the clients' streams;
- symmetry over the connection objects, which are interchangeable heap slots.

## Runs

The TCP runs use these values:
- `SimQueries = 2` (`tcp_conn_simultaneous_queries_count`);
- `ReadBufSize = 6` (room for two frames);
- `RespLen = 2` (so a response can be written partially);
- `TcpConnsMax = 2` and `MaxAcceptNew = 1`;
- `NumEventsTcp = 2`;
- timeouts of 1 or 2 seconds and `MaxTime` up to 2 seconds.

The exception is `MCTcp_Iter.cfg`, which uses `SimQueries = 1` and
`ReadBufSize = 4`. These are the smallest values at which these cases happen:
- two queries arrive in one read;
- a frame is split across reads;
- a response is written in two parts;
- two connections compete for the queues;
- the accept limits bite;
- a connection times out.

| Run | cfg | Expect | Shows |
|---|---|---|---|
| tcp_core | `MCTcpVectorloop.cfg` | pass (3.75M states, ~2.5 min) | The LRU cache, the active count and the socket ownership stay consistent, and the read queue refines `ConnQueue`, with two clients and no faults. |
| tcp_faults | `MCTcp_Faults.cfg` | pass (0.67M states) | The FIFO refinement, the LRU, count and socket invariants hold with peer resets, full send buffers and three queries from one client (the type invariant is checked once, in `tcp_core`). This run also reaches the memmove crash. |
| release_loop_hang | `MCTcp_Iter.cfg` | violation | `IterationsComplete`: the read-queue removal loop re-enqueues forever. |
| resource_reload | `MCResourceReload.cfg` | pass (184 states) | With three shards, a ring of one message, and open and read failures: a swap happens only after every shard acknowledged the new artifact (`SwapAfterAllAcks`); no shard or ring holds a freed artifact (`NoDanglingResource`); every broadcast completes (`UpdateCompletes`). |
| query_log | `MCQueryLogFlip.cfg` | pass (72,771 states, ~7 s) | With two shards, two-unit buffers, rotation at two units, and write and reopen failures: the thread writes only buffers a shard has surrendered; each shard's entries reach the file in order; no accepted entry is lost except by a failed write; every accepted entry eventually reaches the file. |
| name_codec | `MCNameCodec.cfg` | pass (119,995 inputs, ~14 s) | See below. |
| parse_overread | `MCParse_Reads.cfg` | violation | `RequestReadsInside`: the additional-section `eom` is 12 * (len - 1) bytes from the header, so a request with an additional A RR is parsed on past its end. |
| udp_pipeline | `MCUdpVectorloop.cfg` | pass (119,095 states, ~25 s) | Every request that gets an answer reaches the wire (`EveryQueryAnswered`), with a socket error and a send buffer filling part way through a `sendmmsg`. The metrics count every received datagram at most once, and under the rcode of its kind (`MetricsCountQueries`). |
| udp_vector_count | `MCUdp_TwoListeners.cfg` | violation | `AnswersMatch`: `write_vector_count` carries over from the IPv4 listener to the IPv6 one within one `vl_fn_udp_write` call. |
| config_options | `MCConfigParse.cfg` | violation | `OptionsTakeEffect`: `config_parse_opts()` returns 0 although an option's value went into another option's field, or `process_thread_count` exceeds the thread-mask slots. |
| app_log_release | `MCAppLog.cfg` | violation | `NoInvalidRelease`: the release loop of `log_app_loop()` frees `messages[msg_count]`, so after an iteration with two messages and two with one, the same message is freed twice (log_app.c:187). |
| query_response | `MCQueryResponse.cfg` | violation | `ResponseAnswersRequest`: a request whose OPT RR has VERSION 1 is answered NOERROR with an OPT RR and the A record, because the version test reads the EXTENDED-RCODE byte (part_000:263). A nonzero EXTENDED-RCODE byte yields BADVERS through a return that skips `edns_valid = true`, so that BADVERS goes out with no OPT RR. |

`name_codec` checks these properties against the reference definitions:
- **`UnpackSound`.** Every accepted name is well formed, fits, and is decoded
  with the right consumed length.
- **`UnpackComplete`.** Every name that reuses no byte is accepted.
- **`UnpackReadsInside`.** No byte at or past `eom` is read.
- **`CompressedNamesDecode`.** Every owner name in a compressed response
  decodes back to itself.
- **`LongestSuffixShared`** (spec invariant 7). The longest common suffix is
  shared through one pointer while `dnptrs` has room.
- **`NtopMatchesReference`.** ntop renders exactly the reference text, and
  fails exactly when it does not fit.
- **`PtonInvertsNtop`** (spec invariant 6, for names whose text fits). pton
  parses the rendered text back to the wire name.
- **`EcsEchoed`.** For every option the parser accepts, the rdata
  `query_pack_edns` writes is the request's option again, byte for byte,
  and its RDLEN is the rdata's length.

`parse_overread` checks `RequestReadsInside`: `query_parse` reads no byte at
or past `request_buffer_len`. TLC finds the smallest counterexample at once.
It is the 28-byte request `. A IN` with one additional A RR. After that RR,
`while (ptr < eom)` keeps going, because `eom` is 12 * 27 bytes away, and it
unpacks "RRs" from what follows the message. On UDP that is the rest of the
513-byte slot, and past it for requests longer than about 43 bytes. On TCP it
is the next frame. An OPT RR whose RDLEN exceeds the data is read the same
way.

The inputs are:
- six-byte messages built from label lengths, a reserved length and pointer
  bytes;
- three-RR responses with names of up to two labels over "a", "b" and "ab";
- names over 'a', '.', '\\', '1', 0x01 and space;
- requests with a header that is valid or breaks one check, and a root or
  one-label question of type A or AAAA. The additional section is empty, or
  holds an OPT RR (version 0 or 1, a Client Subnet or unknown option, or an
  RDLEN longer than the data), an A RR, or an A RR before an OPT RR. The
  buffer past the request ends there or holds an earlier OPT RR;
- Client Subnet options of family 1, 2 or 3, with source masks around the
  byte boundaries and the family limits, scope 0 or 1, and up to four
  address bytes.

The pointer limit and the table size are scaled (12 and 5) so that both limits
are reached.

Each property of a passing run has a mutant in PROJECT.json: a plausible bug
in the code it is about, under which TLC finds the property violated. Among
them:
- a short write that may return the whole length;
- an LRU touch that does not delete first;
- a release that skips `close()`;
- a shard walk stopping one short;
- `ch_msg->p` not cleared before release;
- rotation staying on the same side;
- rotation before the reply is taken;
- an off-by-one in unpack's `eom` test and in its loop test;
- a `dn_find` that does not walk suffixes;
- a `dn_find` that matches a prefix;
- space taken as printable;
- pton terminating the root twice;
- the Client Subnet trailing-bit mask shifted by `r` instead of `8 - r`;
- `recvmmsg` given the receive queue's length as `vlen`;
- a UDP EAGAIN that does not set `waiting_for_read`.

The UDP runs use:
- vectors of two (`VecLen`), so one batch fills the vector and a third
  datagram waits for the next;
- in `udp_pipeline`, four datagrams on one listener: an answered query, a
  FORMERR, a short header and an oversized one. That is one of each end-code
  class the UDP stages tell apart. It also has one socket error and one
  buffer fill (`MaxErrs = MaxFills = 1`).

`udp_vector_count` has both listeners and one query each, with no faults.
TLC finds it in 18 steps:
1. The IPv4 listener sends its one answer, and `wvc` is 1.
2. The IPv6 listener's populate loop writes its entry at index 1.
3. `sendmmsg` sends entries 0 and 1.
4. Entry 0 has the client address that parse copied in, but an `iov` that
   was never set. That is undefined behaviour, and the model records it as a
   garbage datagram.

In steady state, entry 0 still holds the previous batch's `iov_len`, so the
earlier response goes to a new client. With more answers than `vector_len`
minus the carried count, the populate loop writes past the array.

`config_options` checks `OptionsTakeEffect`: when `config_parse_opts()`
returns 0, every option given has set its own field to its value (spec.md's
option table), and `process_thread_masks` has a slot for every shard id below
`process_thread_count` with nothing stored past them (`vl_run()` reads
`process_thread_masks[vl->id]`, vectorloop.c:1270). TLC's first trace is
`--tcp_conns_per_vl_max 5000`: it is accepted with the value in
`tcp_listener_max_accept_new_conn` (config.c:564). With `Argvs <-
MCArgvsMasks` it is `--process_thread_count 2`: accepted with one mask slot,
because the handler reallocs only when the count decreases (config.c:674).
With `--process_thread_masks 1,2` the CSV parse also stores past the slot.

### Observations that are not kept as runs

There are at most twelve runs. These were checked while modelling, and are
recorded as hazards with a note:
- `WriteQueueConsistent` (`MCTcp_WriteQueue.cfg`) is violated.
  `vl_fn_tcp_write()` requeues with `tail = new_queue.head`, so the second
  requeued connection drops out of the queue while still flagged in it
  (vectorloop.c:850).
- `ReadBufferIsStreamSuffix` (`MCTcp_ReadBuf.cfg`) is violated.
  `read_buffer_len += ret` runs before `ret` is checked, so EAGAIN subtracts
  one (vectorloop.c:408).
- `AnswersMatch` holds with one listener and no partial sends
  (`MCUdp_OneListener.cfg`, 113,839 states).
- `AnswersMatch` is violated with one listener whose send buffer fills
  after the first of two datagrams (`MCUdp_Partial.cfg`). The retry
  recomputes the full count and sends it from the advanced write index, so
  it reads past `vector_len` (vectorloop.c:940).
- `NoLeakedSocket` (`MCTcp_Leak.cfg`) is violated. `accept4()` runs before
  the count test, and the extra fd is never closed (vectorloop.c:261).
- `TimeoutMatchesState` is violated. `conn_tcp->tcp_keepalive` is never set,
  so a waiting connection expires at the next tick (vectorloop.c:429).
- `EventuallyServesLatest` is violated with `MCTimesBothMove` and
  `MayReadFail`. `create_time` is updated before `utl_readall()`, so a failed
  read is never retried (resource_utils.c:104).
- `rip_ns_name_unpack`'s `checked` heuristic rejects a legal name whose
  pointer lands in the data of its own first label.
- `ActiveWithinCap` (spec invariant 2, `MCTcp_Cap.cfg`) is violated. The
  accept loop compares `accept_count` with `tcp_listener_max_accept_new_conn`.
  It never compares it with `accept_max` (vectorloop.c:263).
- `EcsMatchesSpec` (spec invariant 4: the Client Subnet parser accepts
  exactly the options `RefEcsOk` calls well formed, and reports their
  family and source mask) is not checked in `name_codec`. With true option
  lengths it holds, but only because those inputs cannot reach the wrap.
  It is violated with options declared 256 bytes longer than
  their data (`MCEcs_Wide.cfg`, `MCEcsOptionsWide`). `bytes_to_copy` is a
  `uint8_t`, so a 260-byte option passes as a /0 with no address
  (part_000:69).
- The additional-RR skip adds `unpack` twice (part_000:302). `rr_count` is
  compared with `ancount`, not `arcount` (part_000:312). Both are hidden
  behind the `eom` over-read in the kept run.
- `AnsweredBeforeIdle` (`MCTcp_Answers.cfg`) is violated. An incomplete
  first frame sets `waiting_for_read` and nothing clears it, so a later
  EPOLLIN reads the connection while a partial response is pending, and the
  client never gets the rest of its answers (vectorloop.c:470).
- `ReadBufferFollowsCount` (`ConfigParse`, with `MCArgvsAll`) is violated by
  `--tcp_conn_simultaneous_queries_count 4`. `tcp_readbuff_size` is computed
  in `config_init()` from the default count and never recomputed
  (config.c:364), against the comment in config.h.
- `str_to_bool` rejects `TRUE` (in `MCSingles`). `str_to_lc` lowers only the
  first character (part_003:136).
- `NoFreedConnQueued` (`MCTcp_FreedQueued.cfg`) is violated. The
  write-queue removal tests `in_read_queue` (part_001:780), so a connection
  released on timeout stays in the write queue. spec.md names this bug as an
  open question, so the run slot went to `query_response`.
- `ResponseAnswersRequest` is violated in three more ways, each with a cfg
  of its own:
  - `MCQueryResponse_Do.cfg`: a request without the DO bit, in a query object
    whose previous request had it, gets DO echoed. `query_reset()` does not
    clear `dnssec` (query.c:86).
  - The same omission for `extended_rcode`: after a BADVERS request (one
    with a nonzero EXTENDED-RCODE byte), the next valid request in that
    object is answered with extended rcode 1, i.e. BADVERS.
  - `MCQueryResponse_Owner.cfg`: a question for `n2` is answered with owner
    `n1`. The static records point at the label buffer of the first query
    resolved (query_resolve.c:51), which another slot has since refilled.
  - `MCQueryResponse_Freed.cfg`: once the TCP connection owning that buffer
    is released, the owner name is read from freed memory.
- `EventuallyServesLatest` (`MCRes_CtimeAnd.cfg`) is violated: a change
  that moves `tv_sec` but not `tv_nsec` is never loaded, because the change
  test joins the two comparisons with `&&` (resource_utils.c:100).
- `EveryMessageLogged` (`AppLog`, `MCAppLog_Res.cfg`) is violated: a message
  on the resource thread's ring is never received, because `log_app_loop()`
  polls only `process_thread_count` rings (log_app.c:67). The same holds for
  the query log thread's ring, which carries its fatal timeout message.
- `FatalMessageExits` (`MCAppLog_Fatal.cfg`) is violated: when `open()` fails,
  a fatal message is counted as a write error and freed and the process
  goes on, because the exit flag is read only when `log_fd > -1`
  (log_app.c:137).
- `EveryMessageLogged` (`MCAppLog_Writev.cfg`, shards only) is violated when
  `writev()` returns -1: `ret < byte_count` converts -1 to `SIZE_MAX`, so the
  batch is neither written nor counted (log_app.c:170).
- The 256-byte query label cannot hold the rendering of every valid 255-byte
  name. Escapes take up to four characters, against spec invariant 6.

## Fairness

`Spec` asserts weak fairness of `ShardStep`, the disjunction of the shard's
actions. The shard thread never blocks: `epoll_wait()` is called with timeout
0, and every socket is non-blocking. So whenever the shard can take a step, it
keeps being able to until it does. The clients get no fairness; the server
must not depend on them. `ts` may stay the same forever, because a run of
iterations may fall inside one second.

`ResourceReload` gives `ResourceStep` (the resource thread) weak fairness,
and `ShardStep(s)` weak fairness per shard. Both threads loop without
blocking: the resource loop sleeps one second at most, and a shard drains its
channel every iteration. `ModifyFile`, the environment, gets none.

`QueryLogFlip` gives `LogStep` (the log thread) weak fairness, and
`ChannelMessages(s)` weak fairness per shard. A shard reaches
`vl_fn_channel_messages()` in every iteration of `vl_run()`. Logging a query
(`QueryLog`) is driven by clients and gets no fairness.

`UdpVectorloop` gives `ShardStep` weak fairness, for the same reason as
`TcpVectorloop`. It gives `Drain(l)` weak fairness per listener: a full send
buffer keeps draining while the NIC sends, so it cannot stay full while the
shard stops writing. Arrivals and fills get none. Socket errors and fills are
bounded, because a kernel that fails every call would be an assumption about
the kernel, not the code (see the hazard at vectorloop.c:558).

`AppLog` gives `log_app_loop` weak fairness: the thread never blocks, and
an iteration with no message sleeps 1 ms and polls again. Producers and the
passing of the open wait time get none. Its cfgs say `CHECK_DEADLOCK FALSE`
because `exit(1)` ends the process, a state with no successor.

`NameCodec` has no behaviour beyond its initial state. `ConfigParse` runs
once and stops, which is why its cfg says `CHECK_DEADLOCK FALSE`; it needs no
fairness, because its only property is an invariant.

## Not modelled yet, and the plan

- **UDP details.** `end_time` is stamped on the wrong queries after
  compaction (vectorloop.c:908). This concerns timestamps only and is listed
  in the hazards.
- **The Client Subnet scope.** spec.md 4.4 has the reference resolver echo
  the scope as `source_mask`; `query_pack_edns()` echoes the request's
  scope, which the parser requires to be 0. `EcsEchoed` states what the
  code does; the scope is a one-line difference with no run of its own.
- **Parse after the `eom` fix.** Once part_000:197 is fixed, the double skip
  and the `ancount` comparison deserve a property of their own: every
  well-formed additional section is accepted, and its count equals
  `arcount`.
- **Timeliness of the timeout scan.** An expired connection behind an
  unexpired one in LRU order is not released until that one expires or is
  read again. Liveness does not show it: with a sane keepalive the delay is
  bounded. A property about release in the first scan after expiry needs
  timestamps that advance past two timeout lengths, more than the core TCP
  run's time allows. It is listed in the hazards.
- **`query_tcp_response_buffer_increase()`.** It resets only `dnptrs[0]`
  after `realloc()`. It has no caller outside the tests, so it is not
  modelled.
- **TCP metrics.** `conn_tcp_report_metrics()` (per-state counters at
  release) and the TCP branch's `query_report_metrics()` are not actions of
  `TcpVectorloop`: its core run already takes most of the time bound, and
  the counters affect no control flow. The UDP branch is modelled
  (`MetricsCountQueries`). The counters of the log threads are the
  `noSpace` and `dropped` variables of `QueryLogFlip` and `AppLog`.
- **Config after parsing.** The TCP and UDP models take their bounds as
  constants; they are not composed with `ConfigParse`, since the values
  reach the shards only as numbers.
