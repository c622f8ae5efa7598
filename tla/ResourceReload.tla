--------------------------- MODULE ResourceReload ---------------------------
(***************************************************************************)
(* The resource hot-swap of ripples: resource_loop() in src/src/ripples.c  *)
(* with resource_check_load_raw_file() and resource_release_raw_file() of  *)
(* src/src/resource_utils.c, the shards' side in vl_fn_channel_messages()  *)
(* (src/src/vectorloop.c), and the channel_bss rings of src/src/           *)
(* query_pack.c that connect them.  RESOURCE_COUNT is 1, so the loop       *)
(* serves one resource.                                                    *)
(*                                                                         *)
(* An artifact loaded into memory is named by the version of the file it  *)
(* was read from.  The file on disk is a version and a change time         *)
(* <<tv_sec, tv_nsec>>; the environment replaces it by a newer version     *)
(* with a later change time.                                               *)
(***************************************************************************)
EXTENDS Integers, Sequences, FiniteSets

CONSTANTS
    Shards,       \* vectorloop ids 1..process_thread_count
    NULL,         \* the NULL pointer
    MaxVer,       \* bound on the versions the file goes through
    Times,        \* change times <<tv_sec, tv_nsec>> the file may get
    InitTimes,    \* change times the file may have when the loop starts
    ChanCap,      \* messages an lfds711 queue_bss of CHANNEL_BSS_QUEUE_LEN holds
    MayOpenFail,  \* whether open()/fstat() of the resource may fail
    MayReadFail   \* whether utl_readall() may fail after the stat

ASSUME /\ Shards = 1..Cardinality(Shards) /\ Shards # {}
       /\ MaxVer \in Nat \ {0} /\ ChanCap \in Nat \ {0}
       /\ InitTimes \subseteq Times

Versions == 1..MaxVer

CH_OP_RES_SET_RESOURCE1 == "RES1"

VARIABLES
    file,        \* the resource file: [ver, ctime]
    createTime,  \* resources[0].create_time, the ctime last seen changed
    state,       \* the state of resource_loop()
    current,     \* resources[0].current_resource
    incoming,    \* resources[0].incoming_resource
    heap,        \* artifacts allocated and not yet freed
    notif,       \* vl_notifications[]
    down,        \* per shard: the bss direction of resource_channels[i]
    up,          \* per shard: the vl direction of resource_channels[i]
    acked        \* history: the last artifact each shard acknowledged

vars == <<file, createTime, state, current, incoming, heap, notif, down, up,
          acked>>

Msg == [op : {CH_OP_RES_SET_RESOURCE1}, p : Versions \cup {NULL},
        result : {0, 1}]

(* channel_bss_send() / channel_bssvl_send(): lfds711_queue_bss_enqueue()  *)
(* fails, and the message is not queued, when the ring is full.  Both      *)
(* callers ignore the result.                                              *)
ChanSend(ch, m) == IF Len(ch) < ChanCap THEN Append(ch, m) ELSE ch

\* timespec {0, 0}: resources[0] is zero-initialised.
ZeroTime == <<0, 0>>

Init ==
    /\ file \in [ver : {1}, ctime : InitTimes]
    /\ createTime = ZeroTime
    /\ state = "CHECK_RESOURCE"
    /\ current = NULL
    /\ incoming = NULL
    /\ heap = {}
    /\ notif = [i \in Shards |-> TRUE]
    /\ down = [i \in Shards |-> <<>>]
    /\ up = [i \in Shards |-> <<>>]
    /\ acked = [i \in Shards |-> NULL]

-----------------------------------------------------------------------------
(* resource_check_load_raw_file(): the change test of lines 100-101.       *)
Changed(created, ctime) ==
    created[1] # ctime[1] /\ created[2] # ctime[2]

(* The resource loop in state CHECK_RESOURCE: check_load, then on 1 the     *)
(* broadcast to every shard, on 0 or -1 on to GET_NEXT_RESOURCE.  An open  *)
(* or fstat failure returns -1 before the change test; a utl_readall()     *)
(* failure returns -1 after create_time was already updated.               *)
CheckLoadFails ==
    /\ MayOpenFail
    /\ UNCHANGED createTime

CheckLoadUnchanged ==
    /\ ~Changed(createTime, file.ctime)
    /\ UNCHANGED createTime

CheckLoadReadFails ==
    /\ MayReadFail
    /\ Changed(createTime, file.ctime)
    /\ createTime' = file.ctime

CheckResource ==
    /\ state = "CHECK_RESOURCE"
    /\ \/ /\ Changed(createTime, file.ctime)
          /\ createTime' = file.ctime
          /\ incoming' = file.ver
          /\ heap' = heap \cup {file.ver}
          /\ notif' = [i \in Shards |-> FALSE]
          /\ down' = [i \in Shards |->
                         ChanSend(down[i], [op |-> CH_OP_RES_SET_RESOURCE1,
                                            p |-> file.ver, result |-> 0])]
          /\ state' = "WAIT_FOR_RESOURCE_UPDATE"
       \/ /\ CheckLoadFails \/ CheckLoadUnchanged \/ CheckLoadReadFails
          /\ state' = "GET_NEXT_RESOURCE"
          /\ UNCHANGED <<incoming, heap, notif, down>>
    /\ UNCHANGED <<file, current, up, acked>>

\* Mutant: the loop stops one shard short, for (i = 0; i < count - 1; i++).
FirstWaitingShort ==
    LET W == {i \in Shards : i < Cardinality(Shards) /\ ~notif[i] /\ up[i] = <<>>}
    IN  IF W = {} THEN Cardinality(Shards) + 1
        ELSE CHOOSE i \in W : \A j \in W : i <= j

(* resource_vls_notified(): walks the shards in order, taking the reply   *)
(* of each one not yet notified, and returns false at the first whose     *)
(* reply has not arrived.  A reply's p is cleared before                  *)
(* channel_bss_msg_release(), which would otherwise free the artifact.    *)
FirstWaiting ==
    LET W == {i \in Shards : ~notif[i] /\ up[i] = <<>>}
    IN  IF W = {} THEN Cardinality(Shards) + 1
        ELSE CHOOSE i \in W : \A j \in W : i <= j

NotifiedNow == {i \in Shards : ~notif[i] /\ up[i] # <<>> /\ i < FirstWaiting}

\* Mutant: ch_msg->p = NULL is left out, so the release frees the artifact.
ReleaseRepliesWithPayload(got) == heap \ {Head(up[i]).p : i \in got}

(* channel_bss_msg_release() of the replies taken from the shards in      *)
(* got; with p already NULL it frees only the messages.                  *)
ReleaseReplies(got) == heap

\* Mutant: the walk runs to i <= count, one element past the array.
NotifAfterPastEnd == [i \in 1..Cardinality(Shards) + 1 |->
                        IF i \in Shards THEN notif[i] \/ i \in NotifiedNow ELSE TRUE]

(* vl_notifications[] after the walk of resource_vls_notified().          *)
NotifAfter == [i \in Shards |-> notif[i] \/ i \in NotifiedNow]

(* The loop in state WAIT_FOR_RESOURCE_UPDATE.  When every shard is       *)
(* notified the old artifact is released and the incoming one becomes    *)
(* current; otherwise the loop sleeps 1us and tries again.               *)
resource_vls_notified ==
    /\ state = "WAIT_FOR_RESOURCE_UPDATE"
    /\ NotifiedNow # {} \/ FirstWaiting > Cardinality(Shards)
    /\ notif' = NotifAfter
    /\ up' = [i \in Shards |-> IF i \in NotifiedNow THEN Tail(up[i]) ELSE up[i]]
    /\ LET h == ReleaseReplies(NotifiedNow)
       IN IF FirstWaiting > Cardinality(Shards)
          THEN /\ heap' = h \ {current}
               /\ current' = incoming
               /\ incoming' = NULL
               /\ state' = "GET_NEXT_RESOURCE"
          ELSE /\ heap' = h
               /\ UNCHANGED <<current, incoming, state>>
    /\ UNCHANGED <<file, createTime, down, acked>>

(* GET_NEXT_RESOURCE: pick the resource due next and sleep until it is    *)
(* due; with one resource this always selects it.                        *)
GetNextResource ==
    /\ state = "GET_NEXT_RESOURCE"
    /\ state' = "CHECK_RESOURCE"
    /\ UNCHANGED <<file, createTime, current, incoming, heap, notif, down, up,
                   acked>>

-----------------------------------------------------------------------------
\* Mutant: the message is handled like CH_OP_RES_SET_RESOURCE2, no reply.
ChannelMessagesNoReply(s) ==
    /\ down[s] # <<>>
    /\ down' = [down EXCEPT ![s] = Tail(@)]
    /\ acked' = [acked EXCEPT ![s] = Head(down[s]).p]
    /\ UNCHANGED <<file, createTime, state, current, incoming, heap, notif, up>>

(* vl_fn_channel_messages(), the resource channel half: a                 *)
(* CH_OP_RES_SET_RESOURCE1 message is answered on the same channel with   *)
(* result 1.  The shard keeps no reference to the artifact.               *)
ChannelMessages(s) ==
    /\ down[s] # <<>>
    /\ LET m == Head(down[s]) IN
       /\ down' = [down EXCEPT ![s] = Tail(@)]
       /\ up' = [up EXCEPT ![s] = ChanSend(@, [m EXCEPT !.result = 1])]
       /\ acked' = [acked EXCEPT ![s] = m.p]
    /\ UNCHANGED <<file, createTime, state, current, incoming, heap, notif>>

(* The administrator replaces the resource file: a new version, whose     *)
(* change time is later than the present one.                            *)
Later(t, u) == t[1] > u[1] \/ (t[1] = u[1] /\ t[2] > u[2])

ModifyFile ==
    /\ file.ver < MaxVer
    /\ \E t \in Times : Later(t, file.ctime) /\ file' = [ver |-> file.ver + 1, ctime |-> t]
    /\ UNCHANGED <<createTime, state, current, incoming, heap, notif, down, up,
                   acked>>

ResourceStep == CheckResource \/ resource_vls_notified \/ GetNextResource

ShardStep(s) == ChannelMessages(s)

Next == ResourceStep \/ (\E s \in Shards : ShardStep(s)) \/ ModifyFile

(* The resource thread and every shard thread run without blocking on     *)
(* each other: each polls its end of the channels.                       *)
Spec == Init /\ [][Next]_vars /\ WF_vars(ResourceStep)
        /\ \A s \in Shards : WF_vars(ShardStep(s))

-----------------------------------------------------------------------------
TypeOK ==
    /\ file \in [ver : Versions, ctime : Times]
    /\ createTime \in Times \cup {ZeroTime}
    /\ state \in {"CHECK_RESOURCE", "WAIT_FOR_RESOURCE_UPDATE", "GET_NEXT_RESOURCE"}
    /\ current \in Versions \cup {NULL}
    /\ incoming \in Versions \cup {NULL}
    /\ heap \subseteq Versions
    /\ notif \in [Shards -> BOOLEAN]
    /\ down \in [Shards -> Seq(Msg)] /\ up \in [Shards -> Seq(Msg)]
    /\ acked \in [Shards -> Versions \cup {NULL}]

(* Spec invariant 8: resource_loop() makes the incoming artifact current, *)
(* and frees the old one, only after every shard has acknowledged the     *)
(* incoming one through resource_vls_notified().                          *)
SwapAfterAllAcks ==
    [][current' # current => \A s \in Shards : acked[s] = current']_vars

(* Exactly the current and the incoming artifact are allocated, and every *)
(* message in a channel points at one of them: nothing is leaked by the  *)
(* swap in WAIT_FOR_RESOURCE_UPDATE and nothing is freed while a message *)
(* or resources[0] still refers to it.                                    *)
NoDanglingResource ==
    /\ heap = {current, incoming} \ {NULL}
    /\ \A s \in Shards : \A k \in 1..Len(down[s]) \cup 1..Len(up[s]) :
          /\ k <= Len(down[s]) => down[s][k].p \in heap
          /\ k <= Len(up[s]) => up[s][k].p \in heap

(* Once a change is loaded, resource_loop() leaves WAIT_FOR_RESOURCE_UPDATE: *)
(* every shard's vl_fn_channel_messages() answers the broadcast.           *)
UpdateCompletes ==
    state = "WAIT_FOR_RESOURCE_UPDATE" ~> state = "GET_NEXT_RESOURCE"

(* Spec 4.10: a change of the file's change time is detected and loaded;  *)
(* once the file stops changing, the loop ends up serving its last        *)
(* version.                                                               *)
EventuallyServesLatest ==
    <>[](current = file.ver)
====
