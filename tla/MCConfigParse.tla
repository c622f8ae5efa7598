--------------------------- MODULE MCConfigParse ---------------------------
(* Command lines for ConfigParse: every handler class, each on valid and  *)
(* invalid arguments, duplicates, operands, and the thread count and      *)
(* masks in both orders.                                                  *)
EXTENDS ConfigParse

CONSTANTS opnd, nan, longStr, s1

E(o, a) == [opt |-> o, arg |-> a]

\* Valid and invalid uses of one handler of each class.
MCSingles ==
    { <<E("udp_listener_port", 5353)>>, <<E("udp_listener_port", 0)>>,
      <<E("udp_listener_port", nan)>>, <<E("tcp_keepalive", 999)>>,
      <<E("udp_enable", <<"F">>)>>, <<E("udp_enable", <<"T", "R", "U", "E">>)>>, <<E("tcp_enable", <<"t", "r", "u", "e", "x">>)>>,
      <<E("app_log_path", s1)>>, <<E("query_log_path", longStr)>>,
      <<E("help", s1)>>, <<E("?", s1)>>, <<E(opnd, s1)>>,
      <<E("tcp_conn_simultaneous_queries_count", 4)>>,
      <<E("process_thread_count", 2)>>, <<E("process_thread_count", 1)>>,
      <<E("process_thread_masks", <<"3">>)>>,
      <<E("process_thread_masks", <<"1", ",", ",", "1", "2", "3", "4", "5">>)>> }

\* The thread count and masks together, and a handler given twice.
MCPairs ==
    { <<E("process_thread_count", 2), E("process_thread_masks", <<"1", ",", "2">>)>>,
      <<E("process_thread_masks", <<"1", ",", "2">>), E("process_thread_count", 2)>>,
      <<E("process_thread_count", 2), E("process_thread_masks", <<"1">>)>>,
      <<E("process_thread_count", 2), E("process_thread_masks", <<"1", "x">>)>>,
      <<E("udp_listener_port", 53), E("udp_listener_port", 54)>>,
      <<E("udp_enable", <<"f", "a", "l", "s", "e">>), E(opnd, s1)>> }

\* Handlers whose value lands in another option's field.
MCSwapped ==
    { <<E("tcp_conns_per_vl_max", 5000)>>, <<E("tcp_conn_socket_recvbuff_size", 4096)>> }

MCArgvsMasks == MCSingles \cup MCPairs
MCArgvsAll == MCSingles \cup MCPairs \cup MCSwapped
====
