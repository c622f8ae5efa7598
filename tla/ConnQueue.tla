----------------------------- MODULE ConnQueue -----------------------------
(***************************************************************************)
(* What a connection FIFO of conn.c promises: a sequence of distinct       *)
(* connections, together with the set of connections that are in it (the *)
(* in_*_queue flags).  Enqueueing a connection already queued does nothing; *)
(* several connections may be enqueued by one step of the shard (one epoll *)
(* batch), and a removal loop may move the head to the back.               *)
(***************************************************************************)
EXTENDS Sequences, SequencesExt

CONSTANT Elems

VARIABLES queue, queued

vars == <<queue, queued>>

Init == queue = <<>> /\ queued = {}

\* Enqueue the connections of s, in order, none of them queued yet.
Put(s) ==
    /\ queue' = queue \o s
    /\ queued' = queued \cup ToSet(s)

Take ==
    /\ queue # <<>>
    /\ queue' = Tail(queue)
    /\ queued' = queued \ {Head(queue)}

\* Dequeue the head and enqueue it again.
Requeue ==
    /\ queue # <<>>
    /\ queue' = Append(Tail(queue), Head(queue))
    /\ UNCHANGED queued

Next ==
    \/ \E S \in SUBSET (Elems \ queued) : \E s \in SetToSeqs(S) : S # {} /\ Put(s)
    \/ Take
    \/ Requeue

Spec == Init /\ [][Next]_vars

TypeOK == queue \in Seq(Elems) /\ queued \in SUBSET Elems

\* The flags agree with the list.
FlagsMatchList == queued = ToSet(queue) /\ IsInjective(queue)
====
