----------------------------- MODULE MCAppLog -----------------------------
(* Two shards and the resource thread log up to four messages.           *)
EXTENDS AppLog

CONSTANTS m1, m2, m3, m4

MCMsgs == {m1, m2, m3, m4}
\* Both shards log, then shard 0 twice more.
MCSenderShards == (m1 :> 0) @@ (m2 :> 1) @@ (m3 :> 0) @@ (m4 :> 0)
\* A shard and the resource thread log; the resource thread's is fatal.
MCMsgsRes == {m1, m4}
MCSenderRes == (m1 :> 0) @@ (m4 :> 2)
====
