-------------------------- MODULE MCQueryLogFlip --------------------------
(* Instantiation of QueryLogFlip for TLC: buffers of two units of which   *)
(* both must be free for query_log() to log, and a rotate size of two.     *)
EXTENDS QueryLogFlip
====
