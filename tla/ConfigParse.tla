---------------------------- MODULE ConfigParse ----------------------------
(***************************************************************************)
(* Command-line configuration of src/config.c: config_init fills the      *)
(* defaults and allocates one thread-mask slot, config_parse_opts walks   *)
(* argv with getopt_long, one action per class of option handler, and     *)
(* finishes with the operand check, the deferred CSV parse of             *)
(* process_thread_masks (parse_csv_to_ul_array, unnamed/part_003) and the *)
(* two realpath calls.  An argv element is a record: opt is the option    *)
(* name getopt_long resolved ("?" for one it does not know, Operand for a *)
(* non-option), arg its argument.  Numbers are integers or NaN; a CSV or  *)
(* a boolean word is a sequence of characters, since that is the data the *)
(* parsers read byte by byte; every other string is a model value.        *)
(***************************************************************************)
EXTENDS Integers, Sequences, SequencesExt, FiniteSets

CONSTANTS
    Argvs,      \* the command lines to try, sequences of argv elements
    Operand,    \* opt of a non-option argv element
    NaN,        \* a numeric argument that is not made of digits only
    TooLong,    \* string arguments longer than FILE_REALPATH_MAX
    Strs        \* every other string argument

\* str_to_unsigned_long accepts up to ULONG_MAX; it stands above every
\* value the models enumerate.
UINTMAX_MAX == 2147483647

RIP_NS_PACKETSZ == 512

\* The bounds table of every numeric option handler: the field the handler
\* stores into and the bounds it passes to config_parse_unsigned_long_opt.
\* Two handlers store into another option's field, as the code does.
Bound(f, lo, hi) == [field |-> f, lo |-> lo, hi |-> hi]
NumOpts ==
       ("udp_listener_port" :> Bound("udp_listener_port", 1, 65535))
    @@ ("udp_socket_recvbuff_size" :> Bound("udp_socket_recvbuff_size", 518, 16777215))
    @@ ("udp_socket_sendbuff_size" :> Bound("udp_socket_sendbuff_size", 512, 16777215))
    @@ ("udp_conn_vector_len" :> Bound("udp_conn_vector_len", 1, 65535))
    @@ ("tcp_listener_pending_conns_max" :> Bound("tcp_listener_pending_conns_max", 1, 65535))
    @@ ("tcp_listener_port" :> Bound("tcp_listener_port", 1, 65535))
    @@ ("tcp_listener_max_accept_new_conn" :> Bound("tcp_listener_max_accept_new_conn", 1, 1024))
    @@ ("tcp_conns_per_vl_max" :> Bound("tcp_listener_max_accept_new_conn", 1, UINTMAX_MAX))
    @@ ("tcp_conn_socket_recvbuff_size" :> Bound("tcp_conns_per_vl_max", 514, 65535))
    @@ ("tcp_conn_socket_sendbuff_size" :> Bound("tcp_conn_socket_sendbuff_size", 514, 1048575))
    @@ ("tcp_conn_simultaneous_queries_count" :> Bound("tcp_conn_simultaneous_queries_count", 1, 255))
    @@ ("tcp_keepalive" :> Bound("tcp_keepalive", 1000, 600000))
    @@ ("tcp_query_recv_timeout" :> Bound("tcp_query_recv_timeout", 1, UINTMAX_MAX))
    @@ ("tcp_query_send_timeout" :> Bound("tcp_query_send_timeout", 1, UINTMAX_MAX))
    @@ ("epoll_num_events_tcp" :> Bound("epoll_num_events_tcp", 3, 1024))
    @@ ("epoll_num_events_udp" :> Bound("epoll_num_events_udp", 3, 1024))
    @@ ("loop_slowdown_one" :> Bound("loop_slowdown_one", 1, 10000))
    @@ ("loop_slowdown_two" :> Bound("loop_slowdown_two", 1, 10000))
    @@ ("loop_slowdown_three" :> Bound("loop_slowdown_three", 1, 10000))
    @@ ("query_log_buffer_size" :> Bound("query_log_buffer_size", 1, UINTMAX_MAX))
    @@ ("query_log_rotate_size" :> Bound("query_log_rotate_size", 1, UINTMAX_MAX))

BoolOpts == {"udp_enable", "tcp_enable"}
\* The string handlers and the field each strdup()s into.
StrOpts == ("app_log_name" :> "application_log_name")
        @@ ("app_log_path" :> "application_log_path")
        @@ ("query_log_base_name" :> "query_log_base_name")
        @@ ("query_log_path" :> "query_log_path")

\* config_init: the CFG_DEFAULT_* values of unnamed/part_009.
Defaults ==
       [f \in {NumOpts[o].field : o \in DOMAIN NumOpts} \cup {"tcp_conn_socket_recvbuff_size"} |->
          CASE f \in {"udp_listener_port", "tcp_listener_port"} -> 53
            [] f \in {"udp_socket_recvbuff_size", "udp_socket_sendbuff_size"} -> 1048575
            [] f = "udp_conn_vector_len" -> 8
            [] f = "tcp_listener_pending_conns_max" -> 1024
            [] f = "tcp_listener_max_accept_new_conn" -> 8
            [] f = "tcp_conns_per_vl_max" -> 100000
            [] f = "tcp_conn_socket_recvbuff_size" -> 2048
            [] f = "tcp_conn_socket_sendbuff_size" -> 12288
            [] f = "tcp_conn_simultaneous_queries_count" -> 3
            [] f = "tcp_keepalive" -> 10000
            [] f \in {"tcp_query_recv_timeout", "tcp_query_send_timeout"} -> 2000
            [] f \in {"epoll_num_events_tcp", "epoll_num_events_udp"} -> 8
            [] f = "loop_slowdown_one" -> 1
            [] f = "loop_slowdown_two" -> 50
            [] f = "loop_slowdown_three" -> 100
            [] f = "query_log_buffer_size" -> 6553500
            [] f = "query_log_rotate_size" -> 50000000]
    @@ ("udp_enable" :> TRUE) @@ ("tcp_enable" :> TRUE)
    @@ ("process_thread_count" :> 1)
    @@ [f \in Range(StrOpts) |-> "default"]

\* Characters of a CSV or a boolean word.
DigitValue == ("0" :> 0) @@ ("1" :> 1) @@ ("2" :> 2) @@ ("3" :> 3) @@ ("4" :> 4)
           @@ ("5" :> 5) @@ ("6" :> 6) @@ ("7" :> 7) @@ ("8" :> 8) @@ ("9" :> 9)
NUL == "NUL"
\* memcpy(opt_process_thread_masks, optarg, 0x13FF) copies the bytes that
\* follow the argument too: the next argv string ("--...") or, after the
\* last one, the environment ("NAME=..."); either way a non-digit.
OverreadBytes == <<"-">>

\* char_to_lc on the letters of "true" and "false".
Lower == ("T" :> "t") @@ ("R" :> "r") @@ ("U" :> "u") @@ ("E" :> "e")
      @@ ("F" :> "f") @@ ("A" :> "a") @@ ("L" :> "l") @@ ("S" :> "s")
LcChar(c) == IF c \in DOMAIN Lower THEN Lower[c] ELSE c

\* str_to_lc: its loop calls char_to_lc(str) str_len times on the same
\* first character, so only that one is lowered.
str_to_lc(w) == IF w = <<>> THEN w ELSE [w EXCEPT ![1] = LcChar(w[1])]

\* str_to_bool: 1 to 5 characters, passed through str_to_lc, compared with
\* memcmp over the argument's own length, so a prefix of "true" or "false"
\* is taken.
StrToBool(w) ==
    LET lw == str_to_lc(w) IN
    CASE Len(w) = 0 \/ Len(w) > 5                  -> [rc |-> -1, val |-> FALSE]
      [] IsPrefix(lw, <<"t", "r", "u", "e">>)      -> [rc |-> 0, val |-> TRUE]
      [] IsPrefix(lw, <<"f", "a", "l", "s", "e">>) -> [rc |-> 0, val |-> FALSE]
      [] OTHER                                     -> [rc |-> -1, val |-> FALSE]

\* config_parse_unsigned_long_opt: str_to_unsigned_long, then the bounds.
ParseUl(a, lo, hi) ==
    IF a \in Int /\ lo <= a /\ a <= hi THEN [rc |-> 0, val |-> a]
                                       ELSE [rc |-> -1, val |-> 0]

Number(ds) == FoldLeft(LAMBDA acc, d : 10 * acc + DigitValue[d], 0, ds)

\* The loop of parse_csv_to_ul_array over the copied bytes s from position
\* p: an entry ends at ',' or NUL, one of 1 to 4 digits is parsed, any
\* other length stores 0; a non-digit returns -1.  Its condition
\* p < p + strlen(p) + 1 always holds, so only entry < ul_array_len stops
\* it, and it runs on past the argument's NUL.
RECURSIVE CsvLoop(_, _, _, _, _, _)
CsvLoop(s, p, start, entry, n, acc) ==
    IF entry >= n THEN [rc |-> 0, vals |-> acc]
    ELSE IF s[p] \in {",", NUL}
    THEN LET len == p - start
             v   == IF len > 0 /\ len < 5 THEN Number(SubSeq(s, start, p - 1)) ELSE 0
         IN  CsvLoop(s, p + 1, p + 1, entry + 1, n, Append(acc, v))
    ELSE IF s[p] \notin DOMAIN DigitValue THEN [rc |-> -1, vals |-> acc]
    ELSE CsvLoop(s, p + 1, start, entry, n, acc)

\* parse_csv_to_ul_array(ul_array, ul_array_len, str): vals are the values
\* it stores into ul_array[0], ul_array[1], ... in that order.
ParseCsv(n, str) ==
    IF n = 0 \/ Len(str) = 0 THEN [rc |-> 0, vals |-> <<>>]
    ELSE CsvLoop(str \o <<NUL>> \o OverreadBytes, 1, 1, 0, n, <<>>)

VARIABLES
    argv,       \* the command line being parsed
    optind,     \* getopt_long's position in argv
    nonopt,     \* a non-option element was stepped over (getopt permutes)
    cfg,        \* the fields of config_t, by name
    visited,    \* entry_visited[]: the options already handled
    masksArg,   \* opt_process_thread_masks: the copied masks argument
    alloc,      \* slots malloc'd or realloc'd for process_thread_masks
    masks,      \* process_thread_masks[0..]: every slot stored, in order
    readbuff,   \* tcp_readbuff_size
    status      \* "parsing", then the return value: "ok" or "error"

vars == <<argv, optind, nonopt, cfg, visited, masksArg, alloc, masks, readbuff, status>>

\* config_init, then config_parse_opts called on one of the command lines.
Init ==
    /\ argv \in Argvs
    /\ optind = 1
    /\ nonopt = FALSE
    /\ cfg = Defaults
    /\ visited = {}
    /\ masksArg = <<>>
    /\ alloc = Defaults["process_thread_count"]
    /\ masks = <<0>>
    /\ readbuff = Defaults["tcp_conn_simultaneous_queries_count"] * (2 + RIP_NS_PACKETSZ)
    /\ status = "parsing"

\* getopt_long returns the next option of argv, stepping over operands.
Opt == argv[optind]
Returning(o) == status = "parsing" /\ optind <= Len(argv) /\ Opt.opt = o
Fail == status' = "error"

getopt_operand ==
    /\ Returning(Operand)
    /\ optind' = optind + 1
    /\ nonopt' = TRUE
    /\ UNCHANGED <<argv, cfg, visited, masksArg, alloc, masks, readbuff, status>>

\* entry_visited[c] > 0: the option was given before.
opt_duplicate ==
    /\ \E o \in visited : Returning(o)
    /\ Fail
    /\ UNCHANGED <<argv, optind, nonopt, cfg, visited, masksArg, alloc, masks, readbuff>>

\* An option met the first time: it is marked visited and handled.
First(o) ==
    /\ Returning(o)
    /\ o \notin visited
    /\ visited' = visited \cup {o}
    /\ optind' = optind + 1

\* "help" prints the usage and returns -1; an unknown option reaches default.
opt_help_or_unknown ==
    /\ \E o \in {"help", "?"} : First(o)
    /\ Fail
    /\ UNCHANGED <<argv, nonopt, cfg, masksArg, alloc, masks, readbuff>>

\* udp_enable, tcp_enable: str_to_bool into the option's field.
opt_bool ==
    \E o \in BoolOpts :
        /\ First(o)
        /\ LET r == StrToBool(Opt.arg) IN
           IF r.rc # 0 THEN Fail /\ UNCHANGED cfg
           ELSE cfg' = [cfg EXCEPT ![o] = r.val] /\ UNCHANGED status
        /\ UNCHANGED <<argv, nonopt, masksArg, alloc, masks, readbuff>>

\* Every numeric handler: parse within bounds, store into its table field.
opt_numeric ==
    \E o \in DOMAIN NumOpts :
        /\ First(o)
        /\ LET r == ParseUl(Opt.arg, NumOpts[o].lo, NumOpts[o].hi) IN
           IF r.rc # 0 THEN Fail /\ UNCHANGED cfg
           ELSE cfg' = [cfg EXCEPT ![NumOpts[o].field] = r.val] /\ UNCHANGED status
        /\ UNCHANGED <<argv, nonopt, masksArg, alloc, masks, readbuff>>

\* process_thread_count: the array is realloc'd only when the count
\* decreases; the zeroing loop from the old count then does nothing.
opt_thread_count ==
    /\ First("process_thread_count")
    /\ LET r == ParseUl(Opt.arg, 1, 1024) IN
       IF r.rc # 0 THEN Fail /\ UNCHANGED <<cfg, alloc, masks>>
       ELSE /\ IF cfg["process_thread_count"] > r.val
               THEN alloc' = r.val /\ masks' = SubSeq(masks, 1, Min({r.val, Len(masks)}))
               ELSE UNCHANGED <<alloc, masks>>
            /\ cfg' = [cfg EXCEPT !["process_thread_count"] = r.val]
            /\ UNCHANGED status
    /\ UNCHANGED <<argv, nonopt, masksArg, readbuff>>

\* process_thread_masks is copied and parsed after the loop.
opt_thread_masks ==
    /\ First("process_thread_masks")
    /\ masksArg' = Opt.arg
    /\ UNCHANGED <<argv, nonopt, cfg, alloc, masks, readbuff, status>>

\* app_log_name, app_log_path, query_log_base_name, query_log_path.
opt_string ==
    \E o \in DOMAIN StrOpts :
        /\ First(o)
        /\ IF Opt.arg \in TooLong THEN Fail /\ UNCHANGED cfg
           ELSE cfg' = [cfg EXCEPT ![StrOpts[o]] = Opt.arg] /\ UNCHANGED status
        /\ UNCHANGED <<argv, nonopt, masksArg, alloc, masks, readbuff>>

\* getopt_long returns -1: the operand check, the CSV parse of the masks
\* into the array (its stores happen even when it then fails), and the two
\* realpath calls, either of which may fail on a missing directory.
getopt_done ==
    /\ status = "parsing"
    /\ optind > Len(argv)
    /\ LET r == ParseCsv(cfg["process_thread_count"], masksArg) IN
       IF nonopt THEN Fail /\ UNCHANGED masks
       ELSE /\ masks' = [k \in 1..Max({Len(masks), Len(r.vals)}) |->
                           IF k <= Len(r.vals) THEN r.vals[k] ELSE masks[k]]
            /\ IF r.rc # 0 THEN Fail
               ELSE \E appOk, queryOk \in BOOLEAN :
                       status' = IF appOk /\ queryOk THEN "ok" ELSE "error"
    /\ UNCHANGED <<argv, optind, nonopt, cfg, visited, masksArg, alloc, readbuff>>

Next ==
    \/ getopt_operand
    \/ opt_duplicate
    \/ opt_help_or_unknown
    \/ opt_bool
    \/ opt_numeric
    \/ opt_thread_count
    \/ opt_thread_masks
    \/ opt_string
    \/ getopt_done

Spec == Init /\ [][Next]_vars

-----------------------------------------------------------------------------
TypeOK ==
    /\ optind \in 1..Len(argv) + 1
    /\ nonopt \in BOOLEAN
    /\ visited \subseteq {argv[k].opt : k \in 1..Len(argv)}
    /\ alloc \in 1..1024
    /\ masks \in Seq(Nat)
    /\ status \in {"parsing", "ok", "error"}

\* What the option table of the specification promises and the rest of the
\* program relies on when config_parse_opts returns 0: every option given
\* has set its own field to its value, and process_thread_masks has an
\* allocated slot for every shard id below process_thread_count (vl_run
\* reads process_thread_masks[vl->id]) and nothing was stored past them.
OptionsTakeEffect ==
    status = "ok" =>
        /\ \A k \in 1..Len(argv) :
              LET e == argv[k] IN
              /\ e.opt \in DOMAIN NumOpts \cup {"process_thread_count"} => cfg[e.opt] = e.arg
              /\ e.opt \in BoolOpts => cfg[e.opt] = StrToBool(e.arg).val
              /\ e.opt \in DOMAIN StrOpts => cfg[StrOpts[e.opt]] = e.arg
        /\ cfg["process_thread_count"] <= alloc
        /\ Len(masks) <= alloc

\* The comment on tcp_readbuff_size in include/config.h: it is
\* tcp_conn_simultaneous_queries_count * (RIP_NS_PACKETSZ + 2).
ReadBufferFollowsCount ==
    status = "ok" =>
        readbuff = cfg["tcp_conn_simultaneous_queries_count"] * (2 + RIP_NS_PACKETSZ)
====
