------------------------- MODULE MCResourceReload -------------------------
(* Instantiation of ResourceReload for TLC: change times of one or two    *)
(* seconds and zero or one nanoseconds, so that a change may move only    *)
(* one of the two components; the cfgs give two or three shards.          *)
EXTENDS ResourceReload

MCTimes == {1, 2} \X {0, 1}

\* At start-up the file's tv_nsec is not zero, as it nearly never is.
MCInitTimes == {<<1, 1>>}

\* Every change moves both tv_sec and tv_nsec: with MayReadFail this
\* reproduces the lost reload after a failed utl_readall() (see README).
MCTimesBothMove == {<<1, 1>>, <<2, 2>>, <<3, 3>>}
====
