------------------------------- MODULE AppLog -------------------------------
(***************************************************************************)
(* The application log: the channel_log rings of ripples() and the thread *)
(* log_app_loop() (src/log_app.c) that drains them.  ripples() allocates  *)
(* process_thread_count + 3 rings and initialises the first + 2: ring i < *)
(* VlCount belongs to shard i, ring VlCount to the resource thread and    *)
(* ring VlCount + 1 to the query log thread.  Producers create a message  *)
(* (channel_log_msg_create, a heap object) and enqueue it, ignoring a     *)
(* full ring.  One iteration of the log thread's while (1) is one action: *)
(* the open attempt, one receive per polled ring into messages[], the     *)
(* writev, the release loop and the exit.  Wall-clock time is reduced to  *)
(* whether APP_LOG_OPEN_WAIT_TIME has passed since a failed open.         *)
(***************************************************************************)
EXTENDS Naturals, Sequences, SequencesExt, FiniteSets

CONSTANTS
    VlCount,    \* process_thread_count: the shards, and rings the thread polls
    Msgs,       \* the messages the producers log, one heap object each
    Sender,     \* Sender[m]: the ring m is sent on
    Fatal,      \* the messages created with exit = true
    RingCap,    \* messages a ring holds (CHANNEL_LOG_QUEUE_LEN - 1)
    NULL,       \* a null pointer
    Garbage,    \* a pointer that no malloc() returned
    Uninit,     \* what an uninitialised messages[] slot can hold
    MaxFails    \* bound on failed open() and writev() calls

Rings == 0..VlCount + 1
Slots == 0..VlCount - 1

VARIABLES
    ring,       \* ring[i]: the messages queued on app_log_channels[i]
    unsent,     \* messages not created yet
    heap,       \* heap[m]: "none", "live" or "freed"
    messages,   \* messages[]: log_app_loop's array of received pointers
    logFd,      \* log_fd > -1
    openDue,    \* log_open_time is not in the future
    file,       \* the messages written to the log file, in order
    dropped,    \* messages counted in app_log_write_error
    badFree,    \* channel_log_msg_release() was called on a non-live pointer
    exited,     \* exit(1) was called
    fails       \* failed open() and writev() calls so far

vars == <<ring, unsent, heap, messages, logFd, openDue, file, dropped, badFree, exited, fails>>

\* ripples(): empty rings; log_app_loop(): messages[] from malloc(), log_fd
\* -1 and log_open_time 0, so the first iteration tries to open.
Init ==
    /\ ring = [i \in Rings |-> <<>>]
    /\ unsent = Msgs
    /\ heap = [m \in Msgs |-> "none"]
    /\ messages \in [Slots -> Uninit]
    /\ logFd = FALSE
    /\ openDue = TRUE
    /\ file = <<>>
    /\ dropped = {}
    /\ badFree = FALSE
    /\ exited = FALSE
    /\ fails = 0

\* channel_log_msg_create() then channel_log_send() on the sender's ring;
\* lfds711_queue_bss_enqueue() fails on a full ring and every caller ignores
\* the result, so the message stays allocated and is never logged.
channel_log_send(m) ==
    /\ ~exited
    /\ m \in unsent
    /\ unsent' = unsent \ {m}
    /\ heap' = [heap EXCEPT ![m] = "live"]
    /\ ring' = IF Len(ring[Sender[m]]) < RingCap
               THEN [ring EXCEPT ![Sender[m]] = Append(@, m)]
               ELSE ring
    /\ UNCHANGED <<messages, logFd, openDue, file, dropped, badFree, exited, fails>>

\* The next APP_LOG_OPEN_WAIT_TIME seconds pass.
open_wait_elapsed ==
    /\ ~exited
    /\ ~logFd
    /\ ~openDue
    /\ openDue' = TRUE
    /\ UNCHANGED <<ring, unsent, heap, messages, logFd, file, dropped, badFree, exited, fails>>

\* The rings log_app_loop polls, i < channel_count, that hold a message, in
\* the order of its for loop; each gives its head.
Polled == SelectSeq([k \in 1..VlCount |-> k - 1], LAMBDA i : ring[i] # <<>>)
Received == [k \in 1..Len(Polled) |-> Head(ring[Polled[k]])]

\* The release loop: for i < msg_count it releases messages[msg_count],
\* the slot after the last one filled, or past the array when every ring
\* gave one.  Releasing a live message frees it, and again is a double free.
RECURSIVE ReleaseLoop(_, _, _)
ReleaseLoop(p, n, h) ==
    IF n = 0 THEN [heap |-> h, bad |-> FALSE]
    ELSE IF p = NULL THEN ReleaseLoop(p, n - 1, h)
    ELSE IF p \notin Msgs \/ h[p] # "live" THEN [heap |-> h, bad |-> TRUE]
    ELSE ReleaseLoop(p, n - 1, [h EXCEPT ![p] = "freed"])

\* writev() writes the whole batch, returns a short count, or returns -1.
\* The test ret < byte_count compares ssize_t with size_t, so -1 becomes
\* SIZE_MAX and only a short count is seen as a failure.
WriteResults == {"full", "short", "error"}
WriteFailSeen(wr) == wr = "short"

\* One iteration of log_app_loop's while (1).
log_app_loop ==
    /\ ~exited
    /\ \E openOk \in BOOLEAN, wr \in WriteResults, past \in Uninit :
        LET tryOpen == ~logFd /\ openDue
            fd      == logFd \/ (tryOpen /\ openOk)
            recv    == Received
            n       == Len(recv)
            slots   == [s \in Slots |-> IF s < n THEN recv[s + 1] ELSE messages[s]]
            target  == IF n < VlCount THEN slots[n] ELSE past
            rel     == ReleaseLoop(target, n, heap)
            writing == n > 0 /\ fd
            seen    == writing /\ WriteFailSeen(wr)
        IN
        /\ (tryOpen /\ ~openOk) \/ (writing /\ wr # "full") => fails < MaxFails
        /\ ~tryOpen => openOk
        /\ ~writing => wr = "full"
        /\ ring' = [i \in Rings |-> IF \E k \in 1..n : Polled[k] = i THEN Tail(ring[i]) ELSE ring[i]]
        /\ messages' = slots
        /\ file' = IF writing /\ wr = "full" THEN file \o recv ELSE file
        /\ dropped' = IF (n > 0 /\ ~fd) \/ seen THEN dropped \cup Range(recv) ELSE dropped
        /\ logFd' = (fd /\ ~seen)
        /\ openDue' = CASE tryOpen /\ ~openOk -> FALSE
                         [] seen              -> TRUE
                         [] OTHER             -> openDue
        /\ fails' = fails + (IF (tryOpen /\ ~openOk) \/ (writing /\ wr # "full") THEN 1 ELSE 0)
        /\ heap' = IF n > 0 THEN rel.heap ELSE heap
        /\ badFree' = (badFree \/ (n > 0 /\ rel.bad))
        /\ exited' = (writing /\ \E k \in 1..n : recv[k] \in Fatal)
        /\ UNCHANGED unsent

Next ==
    \/ \E m \in Msgs : channel_log_send(m)
    \/ open_wait_elapsed
    \/ log_app_loop

\* The log thread never blocks: an iteration with no message sleeps 1 ms.
Spec == Init /\ [][Next]_vars /\ WF_vars(log_app_loop)
-----------------------------------------------------------------------------
TypeOK ==
    /\ ring \in [Rings -> Seq(Msgs)]
    /\ \A i \in Rings : Len(ring[i]) <= RingCap
    /\ heap \in [Msgs -> {"none", "live", "freed"}]
    /\ messages \in [Slots -> Msgs \cup Uninit]
    /\ dropped \subseteq Msgs
    /\ fails \in 0..MaxFails

Queued(m) == \E i \in Rings : m \in Range(ring[i])

\* channel_log_msg_release() is only ever called on a message that is
\* still allocated: the release loop of log_app_loop frees each message
\* it received in the iteration exactly once.
NoInvalidRelease == ~badFree

\* Spec section 4 on the application log thread: every message a thread
\* puts on its application log channel is eventually written to the file
\* or counted as a write error, unless the process has exited.
EveryMessageLogged ==
    \A m \in Msgs : Queued(m) ~> (m \in Range(file) \/ m \in dropped \/ exited)

\* "Messages with a fatal flag cause the process to exit after the write":
\* a queued fatal message eventually ends the process.
FatalMessageExits ==
    \A m \in Fatal : Queued(m) ~> exited
====
