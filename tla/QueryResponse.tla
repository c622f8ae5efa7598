---------------------------- MODULE QueryResponse ----------------------------
(***************************************************************************)
(* The life of the query objects of one shard across the requests they    *)
(* carry: query_init(), query_reset() and query_clean() (src/query.c), the *)
(* outcome of query_parse() for the EDNS and question fields               *)
(* (unnamed/part_000), query_resolve() (src/query_resolve.c) and           *)
(* query_response_pack() with query_pack_edns() (src/query_pack.c).        *)
(*                                                                         *)
(* A query object keeps its fields from one request to the next; only     *)
(* what query_reset() clears is cleared.  query_resolve() points the      *)
(* owner name of its static A and NS records at the query_label buffer of *)
(* the first query it resolves, once for the life of the process.  A      *)
(* label buffer is a heap object: query_init() mallocs one, query_clean() *)
(* (a TCP connection's release) frees it, and malloc() may hand the       *)
(* address out again.  Name compression and the byte layout are in        *)
(* NameCodec; the reference records always fit the response buffer (at   *)
(* most 402 bytes against 514 or more), so the TC path is not reachable.  *)
(***************************************************************************)
EXTENDS Integers

CONSTANTS
    Slots,      \* the query objects: UDP vector slots and TCP query slots
    TcpSlots,   \* the ones owned by a TCP connection, freed on its release
    Bufs,       \* addresses malloc() can return for a query_label buffer
    Names,      \* the question names requests carry
    NULL,       \* a null pointer
    None        \* no value

ASSUME TcpSlots \subseteq Slots

\* What query_parse() reads from a request that passes the header checks:
\* the name, whether the qtype is supported (only A is), and whether it has
\* an OPT RR, with the two bytes of its TTL field (EXTENDED-RCODE, which a
\* client sends as 0, and VERSION) and its DO bit.
Requests == {r \in [name : Names, qtypeA : BOOLEAN, opt : BOOLEAN, ext : {0, 1},
                    version : {0, 1}, do : BOOLEAN] :
                ~r.opt => r.ext = 0 /\ r.version = 0 /\ ~r.do}

\* The end codes of spec.md section 7 the reference pipeline produces.
rip_ns_r_rip_unknown == -1
rip_ns_r_noerror     == 0
rip_ns_r_notimpl     == 4
rip_ns_r_badvers     == 16

VARIABLES
    q,          \* q[s]: the fields of query object s the response depends on
    buf,        \* buf[b]: [live |-> allocated, name |-> the string it holds]
    staticName, \* example_com_rr_A.name (and _NS.name): a label buffer or NULL
    resp        \* resp[s]: the last response packed from s, or None

vars == <<q, buf, staticName, resp>>

\* query_init(): *q = (query_t) {} and a new query_label buffer.
Fresh(b) == [label |-> b, endCode |-> rip_ns_r_rip_unknown, ednsValid |-> FALSE,
             dnssec |-> FALSE, extRcode |-> 0, phase |-> "idle", req |-> None]

\* Start-up: conn_new_udp() has initialised the UDP slots, each with its
\* own buffer; no TCP connection exists yet.
UdpSlots == Slots \ TcpSlots

Init ==
    /\ \E f \in [UdpSlots -> Bufs] :
        /\ \A s, t \in UdpSlots : s # t => f[s] # f[t]
        /\ q = [s \in Slots |-> IF s \in UdpSlots THEN Fresh(f[s])
                                ELSE [Fresh(NULL) EXCEPT !.phase = "closed"]]
        /\ buf = [b \in Bufs |-> [live |-> \E s \in UdpSlots : f[s] = b, name |-> None]]
    /\ staticName = NULL
    /\ resp = [s \in Slots |-> None]

\* conn_new_tcp() for the connection owning s: query_init() mallocs a
\* query_label buffer, any address not currently allocated.
query_init(s) ==
    /\ s \in TcpSlots
    /\ q[s].label = NULL
    /\ \E b \in Bufs :
        /\ ~buf[b].live
        /\ buf' = [buf EXCEPT ![b] = [live |-> TRUE, name |-> None]]
        /\ q' = [q EXCEPT ![s] = Fresh(b)]
    /\ resp' = [resp EXCEPT ![s] = None]
    /\ UNCHANGED staticName

\* conn_tcp_release() of the connection owning s, between two rounds:
\* query_clean() frees the label buffer.
query_clean(s) ==
    /\ s \in TcpSlots
    /\ q[s].label # NULL
    /\ q[s].phase \in {"idle", "packed"}
    /\ buf' = [buf EXCEPT ![q[s].label].live = FALSE]
    /\ q' = [q EXCEPT ![s].label = NULL, ![s].phase = "closed"]
    /\ UNCHANGED <<staticName, resp>>

\* query_reset(), before a new request is read into s (vl_fn_tcp_read,
\* conn_udp_vectors_reset): clears edns_valid, the section counts and the
\* end code; leaves dnssec, extended_rcode and the label buffer alone.
query_reset(s) ==
    /\ q[s].label # NULL
    /\ q[s].phase = "packed"
    /\ q' = [q EXCEPT ![s].endCode = rip_ns_r_rip_unknown, ![s].ednsValid = FALSE,
                      ![s].phase = "idle", ![s].req = None]
    /\ UNCHANGED <<buf, staticName, resp>>

\* query_parse() of request r: the question first (rip_rr_name_get writes
\* the name into query_label, then the qtype test), then the OPT RR.  After
\* RIP_NS_GET16 of the CLASS field, edns.version = *ptr reads the TTL's
\* first byte, EXTENDED-RCODE: a nonzero one returns BADVERS before the DO
\* bit and edns_valid are set, and VERSION is never read.  The DO bit is
\* only ever set.
query_parse(s, r) ==
    /\ q[s].label # NULL
    /\ q[s].phase = "idle"
    /\ buf' = [buf EXCEPT ![q[s].label].name = r.name]
    /\ LET v   == r.qtypeA /\ r.opt /\ r.ext = 0
           end == CASE ~r.qtypeA          -> rip_ns_r_notimpl
                    [] r.opt /\ r.ext # 0 -> rip_ns_r_badvers
                    [] OTHER              -> rip_ns_r_rip_unknown
       IN q' = [q EXCEPT ![s].endCode = end, ![s].ednsValid = v,
                         ![s].dnssec = @ \/ (v /\ r.do),
                         ![s].phase = "parsed", ![s].req = r]
    /\ UNCHANGED <<staticName, resp>>

\* vl_fn_query_resolve() for s: query_resolve() runs only if the end code
\* is still unknown; its static records take this query's label buffer as
\* their name the first time, and the answer section is filled.
query_resolve(s) ==
    /\ q[s].phase = "parsed"
    /\ LET run == q[s].endCode = rip_ns_r_rip_unknown IN
       /\ staticName' = IF run /\ staticName = NULL THEN q[s].label ELSE staticName
       /\ q' = [q EXCEPT ![s].endCode = IF run THEN rip_ns_r_noerror ELSE @,
                         ![s].phase = "resolved"]
    /\ UNCHANGED <<buf, resp>>

\* The owner name rip_ns_name_put() reads from the A record: the string in
\* the static name's buffer, or whatever is at a freed address.
OwnerName == IF buf[staticName].live THEN buf[staticName].name ELSE "freed"

\* query_pack_edns(): nothing unless edns_valid, else an OPT RR carrying
\* extended_rcode and the DO bit (dnssec << 7).
query_pack_edns(qo) ==
    IF qo.ednsValid THEN [ext |-> qo.extRcode, do |-> qo.dnssec] ELSE None

\* The header of query_response_pack(): rcode takes an end code below 16;
\* a larger one leaves rcode 0 and sets extended_rcode to its upper bits.
HeaderRcode(e) == IF e < 16 THEN e ELSE 0
ExtRcode(qo) == IF qo.endCode >= 16 THEN qo.endCode \div 16 ELSE qo.extRcode

\* vl_fn_query_response_pack() for s: query_response_pack() only for an end
\* code >= 0.  The answer section holds the A record iff query_resolve()
\* ran (end code NOERROR); the OPT RR is packed last.  A client reads the
\* rcode as the header's with the OPT RR's extended bits above it.
query_response_pack(s) ==
    /\ q[s].phase = "resolved"
    /\ LET e   == q[s].endCode
           qo  == [q[s] EXCEPT !.extRcode = ExtRcode(q[s])]
           opt == query_pack_edns(qo)
       IN /\ q' = [q EXCEPT ![s] = [qo EXCEPT !.phase = "packed"]]
          /\ resp' = [resp EXCEPT ![s] =
                IF e < 0 THEN None
                ELSE [req    |-> q[s].req,
                      rcode  |-> HeaderRcode(e) + (IF opt # None THEN 16 * opt.ext ELSE 0),
                      opt    |-> opt # None,
                      do     |-> opt # None /\ opt.do,
                      owner  |-> IF e = rip_ns_r_noerror THEN OwnerName ELSE None]]
    /\ UNCHANGED <<buf, staticName>>

Next ==
    \E s \in Slots :
        \/ query_init(s)
        \/ query_clean(s)
        \/ query_reset(s)
        \/ \E r \in Requests : query_parse(s, r)
        \/ query_resolve(s)
        \/ query_response_pack(s)

Spec == Init /\ [][Next]_vars
-----------------------------------------------------------------------------
Phases == {"closed", "idle", "parsed", "resolved", "packed"}

TypeOK ==
    /\ \A s \in Slots :
        /\ q[s].label \in Bufs \cup {NULL}
        /\ q[s].phase \in Phases
        /\ (q[s].label = NULL) <=> (q[s].phase = "closed")
        /\ q[s].extRcode \in 0..15
    /\ staticName \in Bufs \cup {NULL}

\* The end code spec.md section 7 gives a request that passes the header
\* checks, with the reference resolver: NOTIMPL for an unsupported qtype,
\* BADVERS for an EDNS version other than 0, otherwise NOERROR.
SpecEndCode(r) ==
    CASE ~r.qtypeA                -> rip_ns_r_notimpl
      [] r.opt /\ r.version # 0 -> rip_ns_r_badvers
      [] OTHER                    -> rip_ns_r_noerror

\* Every response query_response_pack() builds answers its own request:
\* the rcode a client reads (header rcode and, with an OPT RR, the
\* extended rcode) is the one spec.md section 7 gives the request
\* ("BADVERS: yes, with EDNS ext-rcode"), an OPT RR echoes the request's
\* DO bit, and the A record's owner is the question name.  It relates
\* the static records and the fields a query object carries over from
\* earlier requests to the request being answered.
ResponseAnswersRequest ==
    \A s \in Slots : resp[s] # None =>
        /\ resp[s].rcode = SpecEndCode(resp[s].req)
        /\ resp[s].opt => resp[s].do = resp[s].req.do
        /\ resp[s].owner # None => resp[s].owner = resp[s].req.name
====
