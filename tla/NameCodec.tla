----------------------------- MODULE NameCodec -----------------------------
(***************************************************************************)
(* The DNS domain-name codec of src/src/rip_ns_utils.c (derived from       *)
(* glibc's ns_name.c) and its use by src/src/query_pack.c: unpacking of   *)
(* compressed names, rendering to text and parsing back (ntop, pton), and *)
(* name compression while a response is packed (dn_find, pack, put), and *)
(* request parsing of src/unnamed/part_000 (header, question, EDNS OPT RR *)
(* and Client Subnet option) over request buffers.                         *)
(*                                                                         *)
(* The functions are pure, so each is a RECURSIVE operator over byte       *)
(* sequences, and the behaviour is a single state: Init picks an input     *)
(* from a small enumerated set, the properties compare the code's result   *)
(* with a reference definition of what the wire format means.  A message   *)
(* is a sequence of bytes; offset k of the C buffer is element k + 1.      *)
(***************************************************************************)
EXTENDS Integers, Sequences, FiniteSets, SequencesExt, Bitwise

CONSTANTS
    MsgLen,        \* length of the enumerated messages
    UnpackBytes,   \* the byte values a message is made of
    DstSizes,      \* the destination buffer sizes passed as dstsiz
    Labels,        \* the labels RR owner names are made of
    MaxLabels,     \* the most labels in one owner name
    NumRRs,        \* the RRs of one response
    RespSizes,     \* response_buffer_size values
    HdrLen,        \* sizeof(rip_ns_header_t)
    RRTail,        \* RIP_NS_RRFIXEDSZ + rdata_len of every RR
    PtrLimit,      \* 0x4000: the first offset a pointer cannot hold
    DNS_RESPONSE_COMPRESSED_NAMES_MAX,
    TextBytes,     \* the bytes the labels of rendered names are made of
    TextSizes,     \* dstsiz values passed to rip_ns_name_ntop
    Requests,      \* request buffers [buf, len] handed to query_parse
    EcsOptions     \* client subnet options [bytes, olen]

VARIABLES
    part,     \* which function this state's input is for
    msg,      \* the message buffer
    eom,      \* the eom argument, as an offset from msg
    src,      \* the src argument, as an offset from msg
    dstsiz,   \* the dstsiz argument
    rrs,      \* the owner names of the response's RRs, as label sequences
    respSize, \* the response buffer size
    name,     \* the name rendered and parsed back, as a label sequence
    textSize, \* the dstsiz argument of rip_ns_name_ntop
    req,      \* the request buffer and request_buffer_len of query_parse
    opt       \* the option bytes and option length of the ECS parser

vars == <<part, msg, eom, src, dstsiz, rrs, respSize, name, textSize, req, opt>>

\* A byte of the buffer; an offset past the buffer lies outside every
\* allocation the model knows of and reads as 0 (the read is still recorded).
Byte(m, k) == IF k < Len(m) THEN m[k + 1] ELSE 0

\* RIP_NS_CMPRSFLGS: the two top bits of a length byte mark a pointer.
RIP_NS_CMPRSFLGS == 192

Flags(n) == (n \div 64) * 64

\* The error return of every EMSGSIZE branch, with the bytes read so far.
Err(reads) == [ret |-> -1, name |-> <<>>, reads |-> reads]

(***************************************************************************)
(* case 0 of the label switch: the label must leave room for itself and   *)
(* the final '\0' in dst, and must end before eom.                         *)
(***************************************************************************)
\* Mutant: the n + 1 >= dstlim - dstp test is left out.
LabelFitsNoDstCheck(n, e, srcp, dstUsed, siz) ==
    /\ n < 64
    /\ ~(n >= e - srcp)

\* Mutant: n > eom - srcp instead of >=, one byte past eom.
LabelFitsPastEom(n, e, srcp, dstUsed, siz) ==
    /\ n < 64
    /\ ~(n + 1 >= siz - dstUsed)
    /\ ~(n > e - srcp)

LabelFits(n, e, srcp, dstUsed, siz) ==
    /\ n < 64
    /\ ~(n + 1 >= siz - dstUsed)
    /\ ~(n >= e - srcp)

\* The loop check after a pointer: if we've looked at the whole message,
\* there must be a loop.
\* Mutant: an off-by-one in the loop test.
LoopSeenEarly(checked, e) == checked + 1 >= e
LoopSeen(checked, e) == checked >= e

\* The first pointer fixes the returned length; later ones leave it.
FirstPtrLen(len, srcp, s) == IF len < 0 THEN srcp - s + 1 ELSE len

(***************************************************************************)
(* The while loop of rip_ns_name_unpack from the byte at srcp on.  out is  *)
(* dst[0 .. dstp), len and checked the locals of the same names, reads the *)
(* offsets of msg the loop has dereferenced.                               *)
(***************************************************************************)
RECURSIVE UnpackLoop(_, _, _, _, _, _, _, _, _)
UnpackLoop(m, e, s, srcp, out, len, checked, siz, reads) ==
    LET n  == Byte(m, srcp)
        rd == reads \cup {srcp}
        p  == srcp + 1
    IN
    CASE n = 0 ->
            [ret   |-> IF len < 0 THEN p - s ELSE len,
             name  |-> out \o <<0>>,
             reads |-> rd]
      [] Flags(n) = 0 ->
            IF ~LabelFits(n, e, p, Len(out), siz) THEN Err(rd)
            ELSE UnpackLoop(m, e, s, p + n,
                            out \o <<n>> \o [j \in 1 .. n |-> Byte(m, p + j - 1)],
                            len, checked + n + 1, siz,
                            rd \cup {p + j : j \in 0 .. n - 1})
      [] Flags(n) = RIP_NS_CMPRSFLGS ->
            IF p >= e THEN Err(rd)
            ELSE LET target == (n - RIP_NS_CMPRSFLGS) * 256 + Byte(m, p)
                 IN  IF target >= e THEN Err(rd \cup {p})
                     ELSE IF LoopSeen(checked + 2, e) THEN Err(rd \cup {p})
                     ELSE UnpackLoop(m, e, s, target,
                                     out, FirstPtrLen(len, p, s),
                                     checked + 2, siz, rd \cup {p})
      [] OTHER -> Err(rd)

rip_ns_name_unpack(m, e, s, siz) ==
    IF s < 0 \/ s >= e THEN Err({})
    ELSE UnpackLoop(m, e, s, s, <<>>, -1, 0, siz, {})

-----------------------------------------------------------------------------
(***************************************************************************)
(* Reference: what RFC 1035 section 4.1.4 says the name at pos means, in a *)
(* message of which only the first lim bytes exist: the set holding the   *)
(* sequence of its labels, or the empty set when it runs past the end,    *)
(* uses a reserved length, or follows a pointer back to a place already   *)
(* visited.                                                                *)
(***************************************************************************)
RECURSIVE RefLabels(_, _, _, _)
RefLabels(m, lim, pos, seen) ==
    IF pos >= lim THEN {}
    ELSE LET b == Byte(m, pos) IN
         CASE b = 0 -> {<<>>}
           [] b < 64 ->
                IF pos + b >= lim THEN {}
                ELSE {<<SubSeq(m, pos + 2, pos + b + 1)>> \o rest :
                          rest \in RefLabels(m, lim, pos + b + 1, seen)}
           [] b >= 192 ->
                IF pos + 1 >= lim THEN {}
                ELSE LET t == (b - 192) * 256 + Byte(m, pos + 1)
                     IN  IF t \in seen THEN {}
                         ELSE RefLabels(m, lim, t, seen \cup {t})
           [] OTHER -> {}

\* The uncompressed wire form of a sequence of labels.
RefWire(labels) ==
    FoldLeft(LAMBDA acc, l : acc \o <<Len(l)>> \o l, <<>>, labels) \o <<0>>

\* Bytes the name occupies at pos itself: up to its first pointer or root.
RECURSIVE RefConsumed(_, _)
RefConsumed(m, pos) ==
    LET b == Byte(m, pos) IN
    CASE b = 0   -> 1
      [] b >= 192 -> 2
      [] OTHER   -> b + 1 + RefConsumed(m, pos + b + 1)

\* The offsets a reader of the (well-formed) name at pos dereferences, in order.
RECURSIVE RefPath(_, _)
RefPath(m, pos) ==
    LET b == Byte(m, pos) IN
    CASE b = 0   -> <<pos>>
      [] b >= 192 -> <<pos, pos + 1>> \o
                     RefPath(m, (b - 192) * 256 + Byte(m, pos + 1))
      [] OTHER   -> [j \in 1 .. b + 1 |-> pos + j - 1] \o
                     RefPath(m, pos + b + 1)

\* A name some pointer of which lands on a byte the name has already used.
RefOverlaps(m, pos) ==
    LET path == RefPath(m, pos) IN Cardinality(ToSet(path)) < Len(path)

-----------------------------------------------------------------------------
(***************************************************************************)
(* Reference presentation format (spec section on the wire codec): labels *)
(* joined by dots, the root as "."; dots, backslash, parentheses, quotes, *)
(* semicolons, @ and $ escaped by a backslash, bytes outside 0x21 .. 0x7E *)
(* as a backslash and three decimal digits.                               *)
(***************************************************************************)
RefEscape(c) ==
    IF c \in {46, 92, 40, 41, 34, 59, 64, 36} THEN <<92, c>>
    ELSE IF c < 33 \/ c > 126
         THEN <<92, 48 + c \div 100, 48 + ((c \div 10) % 10), 48 + (c % 10)>>
    ELSE <<c>>

RefLabelText(l) == FoldLeft(LAMBDA a, c : a \o RefEscape(c), <<>>, l)

RefText(labels) ==
    IF labels = <<>> THEN <<46>>
    ELSE FoldLeft(LAMBDA a, l : a \o <<46>> \o RefLabelText(l),
                  RefLabelText(Head(labels)), Tail(labels))

\* An RR name as the resolver holds it: text, dot-terminated.
RRName(labels) == IF labels = <<>> THEN <<46>> ELSE RefText(labels) \o <<46>>

-----------------------------------------------------------------------------
(***************************************************************************)
(* Presentation format: rip_ns_name_ntop renders an uncompressed wire name *)
(* as text, rip_ns_name_pton parses text back to wire form.  Text is a    *)
(* sequence of character codes; the terminating NUL is not part of it.    *)
(***************************************************************************)

\* special(): characters quoted with a backslash; printable(): visible ASCII.
special(c) == c \in {34, 46, 59, 92, 40, 41, 64, 36}   \* " . ; \ ( ) @ $
\* Mutant: space (0x20) taken for a printable byte.
printableWithSpace(c) == c >= 32 /\ c < 127
printable(c) == c > 32 /\ c < 127

\* The three decimal digits of a \DDD escape.
Decimal(c) == <<48 + c \div 100, 48 + (c % 100) \div 10, 48 + (c % 10)>>

\* What rip_ns_name_ntop writes for one label byte, and the room it first
\* demands between dn and eom.
NtopChar(c) ==
    CASE special(c)    -> [room |-> 2, text |-> <<92, c>>]
      [] ~printable(c) -> [room |-> 4, text |-> <<92>> \o Decimal(c)]
      [] OTHER         -> [room |-> 2, text |-> <<c>>]

NtopFail == [ok |-> FALSE, text |-> <<>>]

\* The label loop of rip_ns_name_ntop from wire offset i, text out so far.
RECURSIVE NtopLoop(_, _, _, _)
NtopLoop(w, i, out, siz) ==
    LET l == Byte(w, i) IN
    IF l = 0
    THEN LET out2 == IF out = <<>> THEN <<46>> ELSE out IN
         IF (out = <<>> /\ 0 >= siz) \/ Len(out2) >= siz THEN NtopFail
         ELSE [ok |-> TRUE, text |-> out2]
    ELSE IF l >= 64 \/ (out # <<>> /\ Len(out) >= siz) THEN NtopFail
    ELSE LET dot   == IF out # <<>> THEN <<46>> ELSE <<>>
             chars == [j \in 1 .. l |-> NtopChar(Byte(w, i + j))]
             \* the text before byte j of the label is written
             upto(j) == out \o dot \o
                        FoldLeft(LAMBDA a, x : a \o x.text, <<>>,
                                 SubSeq(chars, 1, j - 1))
         IN  IF \E j \in 1 .. l : siz - Len(upto(j)) < chars[j].room
             THEN NtopFail
             ELSE NtopLoop(w, i + l + 1, upto(l + 1), siz)

rip_ns_name_ntop(w, siz) == NtopLoop(w, 0, <<>>, siz)

PtonFail == [ret |-> -1, wire |-> <<>>]

(***************************************************************************)
(* The character loop of rip_ns_name_pton at text index k.  wire holds    *)
(* the labels already closed (bp - dst = Len(wire) + 1 + Len(cur), label  *)
(* is at offset Len(wire)), cur the bytes of the open label.  Close is    *)
(* the '*label = c' step, shared by a '.' and by the end of the text.     *)
(***************************************************************************)
\* Mutant: the terminating 0 is written even after an empty label.
CloseAlwaysTerminate(wire, cur, siz, fq) ==
    LET c    == Len(cur)
        done == wire \o <<c>> \o cur \o <<0>>
    IN
    IF Flags(c) # 0 \/ Len(wire) >= siz THEN PtonFail
    ELSE IF Len(wire) + 1 + c >= siz THEN PtonFail
    ELSE IF Len(done) > 255 THEN PtonFail
    ELSE [ret |-> IF fq THEN 1 ELSE 0, wire |-> done]

Close(wire, cur, siz, fq) ==
    LET c    == Len(cur)
        done == wire \o <<c>> \o cur \o (IF c # 0 THEN <<0>> ELSE <<>>)
    IN
    IF Flags(c) # 0 \/ Len(wire) >= siz THEN PtonFail
    ELSE IF c # 0 /\ Len(wire) + 1 + c >= siz THEN PtonFail
    ELSE IF Len(done) > 255 THEN PtonFail
    ELSE [ret |-> IF fq THEN 1 ELSE 0, wire |-> done]

IsDigit(c) == 48 <= c /\ c <= 57

RECURSIVE PtonLoop(_, _, _, _, _, _)
PtonLoop(t, k, escaped, wire, cur, siz) ==
    LET Store(c, k2) ==
            IF Len(wire) + 1 + Len(cur) >= siz THEN PtonFail
            ELSE PtonLoop(t, k2, FALSE, wire, Append(cur, c), siz)
    IN
    IF k > Len(t) THEN IF escaped THEN PtonFail
                       ELSE Close(wire, cur, siz, FALSE)
    ELSE LET c == t[k] IN
    CASE escaped /\ IsDigit(c) ->
            IF k + 2 > Len(t) \/ ~IsDigit(t[k + 1]) \/ ~IsDigit(t[k + 2])
            THEN PtonFail
            ELSE LET n == (c - 48) * 100 + (t[k + 1] - 48) * 10 + (t[k + 2] - 48)
                 IN  IF n > 255 THEN PtonFail ELSE Store(n, k + 3)
      [] escaped -> Store(c, k + 1)
      [] c = 92  -> PtonLoop(t, k + 1, TRUE, wire, cur, siz)
      [] c = 46  ->
            IF k = Len(t) THEN Close(wire, cur, siz, TRUE)
            ELSE IF Flags(Len(cur)) # 0 \/ Len(wire) >= siz THEN PtonFail
            ELSE IF cur = <<>> \/ t[k + 1] = 46 THEN PtonFail
            ELSE PtonLoop(t, k + 1, FALSE, wire \o <<Len(cur)>> \o cur,
                          <<>>, siz)
      [] OTHER   -> Store(c, k + 1)

rip_ns_name_pton(t, siz) == PtonLoop(t, 1, FALSE, <<>>, <<>>, siz)

-----------------------------------------------------------------------------
(***************************************************************************)
(* Name compression: rip_dn_find, rip_ns_name_pack and the response packer *)
(* query_response_pack / query_pack_rr of src/src/query_pack.c, which     *)
(* packs the owner name of each answer, authority and additional RR       *)
(* against the query's compression table dnptrs.  ptrs is dnptrs[1 ..]    *)
(* up to its NULL (dnptrs[0], the response header, is offset 0); an entry *)
(* is an offset of the response.                                           *)
(***************************************************************************)

\* The suffixes rip_dn_find walks from a saved name: sp += *sp + 1 until
\* the root label, a compression pointer, or an offset a pointer cannot hold.
\* Mutant: the walk does not advance past a saved name's first label.
RECURSIVE WalkNoSuffixes(_, _)
WalkNoSuffixes(m, sp) ==
    IF Byte(m, sp) # 0 /\ Flags(Byte(m, sp)) = 0 /\ sp < PtrLimit
    THEN <<sp>> ELSE <<>>

RECURSIVE Walk(_, _)
Walk(m, sp) ==
    IF Byte(m, sp) # 0 /\ Flags(Byte(m, sp)) = 0 /\ sp < PtrLimit
    THEN <<sp>> \o Walk(m, sp + Byte(m, sp) + 1)
    ELSE <<>>

(***************************************************************************)
(* The inner loop of rip_dn_find: does the name at cp (pointers followed)  *)
(* equal the domain dom from offset d on?  Labels are compared by length   *)
(* and then byte by byte; success needs both at their root together.  The *)
(* 'Illegal type' return is not reachable: the response holds only names  *)
(* this packer wrote.                                                      *)
(***************************************************************************)
\* Mutant: the *cp == '\\0' half of 'is next root for both' is left out.
RECURSIVE MatchPrefix(_, _, _, _)
MatchPrefix(dom, d, m, cp) ==
    LET n == Byte(m, cp) IN
    CASE n = 0 -> FALSE
      [] Flags(n) = RIP_NS_CMPRSFLGS ->
            MatchPrefix(dom, d, m, (n - RIP_NS_CMPRSFLGS) * 256 + Byte(m, cp + 1))
      [] OTHER ->
            IF n # Byte(dom, d) \/ SubSeq(m, cp + 2, cp + n + 1)
                                    # SubSeq(dom, d + 2, d + n + 1)
            THEN FALSE
            ELSE LET d2 == d + n + 1
                     c2 == cp + n + 1
                 IN  IF Byte(dom, d2) = 0 THEN TRUE
                     ELSE MatchPrefix(dom, d2, m, c2)

RECURSIVE Match(_, _, _, _)
Match(dom, d, m, cp) ==
    LET n == Byte(m, cp) IN
    CASE n = 0 -> FALSE
      [] Flags(n) = RIP_NS_CMPRSFLGS ->
            Match(dom, d, m, (n - RIP_NS_CMPRSFLGS) * 256 + Byte(m, cp + 1))
      [] OTHER ->
            IF n # Byte(dom, d) \/ SubSeq(m, cp + 2, cp + n + 1)
                                    # SubSeq(dom, d + 2, d + n + 1)
            THEN FALSE
            ELSE LET d2 == d + n + 1
                     c2 == cp + n + 1
                 IN  IF Byte(dom, d2) = 0 THEN Byte(m, c2) = 0
                     ELSE Match(dom, d2, m, c2)

\* rip_dn_find: the first saved name, or suffix of one, equal to dom.
rip_dn_find(dom, m, ptrs) ==
    LET cands == FoldLeft(LAMBDA acc, sp : acc \o Walk(m, sp), <<>>, ptrs)
        k     == SelectInSeq(cands, LAMBDA sp : Match(dom, 0, m, sp))
    IN  IF k = 0 THEN -1 ELSE cands[k]

\* The 'Not found, save it' condition: room in dnptrs before lastdnptr - 1
\* (callers pass &dnptrs[DNS_RESPONSE_COMPRESSED_NAMES_MAX - 1]), an offset
\* a pointer can hold, and only the name's first label.
CanSave(ptrs, off, first) ==
    /\ 1 + Len(ptrs) < DNS_RESPONSE_COMPRESSED_NAMES_MAX - 2
    /\ off < PtrLimit
    /\ first

(***************************************************************************)
(* The do-while loop of rip_ns_name_pack from label offset i of src on.   *)
(* base is the offset of dst in the response m, out the bytes written,    *)
(* lpp the length of the list when the call began (rip_dn_find searches  *)
(* only that far), room = dstsiz.  On the cleanup path the list is cut    *)
(* back to lpp: *lpp = NULL.    Results carry the compressed name, the     *)
(* table and the count of labels copied literally.                        *)
(***************************************************************************)
RECURSIVE PackLoop(_, _, _, _, _, _, _, _, _, _)
PackLoop(s, i, m, base, out, ptrs, lpp, first, room, lits) ==
    LET n       == Byte(s, i)
        cleanup == [ret |-> -1, bytes |-> out, ptrs |-> SubSeq(ptrs, 1, lpp),
                    lits |-> lits]
        l       == IF n # 0 THEN rip_dn_find(SubSeq(s, i + 1, Len(s)), m,
                                            SubSeq(ptrs, 1, lpp))
                   ELSE -1
        saved   == IF n # 0 /\ CanSave(ptrs, base + Len(out), first)
                   THEN Append(ptrs, base + Len(out)) ELSE ptrs
        first2  == first /\ saved = ptrs
    IN
    IF l >= 0
    THEN IF room - Len(out) <= 1 THEN cleanup
         ELSE [ret   |-> Len(out) + 2,
               bytes |-> out \o <<RIP_NS_CMPRSFLGS + l \div 256, l % 256>>,
               ptrs  |-> ptrs, lits |-> lits]
    ELSE IF n + 1 > room - Len(out)
         THEN cleanup
    ELSE LET out2 == out \o SubSeq(s, i + 1, i + n + 1) IN
         IF n = 0
         THEN [ret |-> Len(out2), bytes |-> out2, ptrs |-> saved,
               lits |-> lits]
         ELSE PackLoop(s, i + n + 1, m, base, out2, saved, lpp, first2,
                       room, lits + 1)

\* rip_ns_name_pack with dnptrs and lastdnptr given, dst at offset Len(m).
\* The legality pre-check (labels < 64, at most RIP_NS_MAXCDNAME bytes)
\* returns -1 before the table is touched.
rip_ns_name_pack(s, m, ptrs, room) ==
    IF Len(s) > 255
    THEN [ret |-> -1, bytes |-> <<>>, ptrs |-> ptrs, lits |-> 0]
    ELSE PackLoop(s, 0, m, Len(m), <<>>, ptrs, Len(ptrs), TRUE, room, 0)

\* RIP_NS_CDNAME_COMP_BUF_LEN: the wire buffer rip_ns_name_put converts into.
RIP_NS_CDNAME_COMP_BUF_LEN == 256

\* rip_ns_name_put: pton into a local buffer, then pack it into dst.
rip_ns_name_put(t, m, ptrs, room) ==
    LET c == rip_ns_name_pton(t, RIP_NS_CDNAME_COMP_BUF_LEN) IN
    IF c.ret < 0 THEN [ret |-> -1, bytes |-> <<>>, ptrs |-> ptrs, lits |-> 0]
    ELSE rip_ns_name_pack(c.wire, m, ptrs, room)

\* The bytes of an RR after its owner name: type, class, ttl, rdlength and
\* rdata (RIP_NS_RRFIXEDSZ + rdata_len), abstracted to RRTail zero bytes.
RRTailBytes == [j \in 1 .. RRTail |-> 0]

(***************************************************************************)
(* One iteration of the section loops of query_response_pack: once TC is  *)
(* set nothing more is packed (goto END).  query_pack_rr packs the owner   *)
(* name into the space left and fails (-3) when the name or the whole RR   *)
(* does not fit; the table keeps what rip_ns_name_pack left in it.        *)
(***************************************************************************)
query_pack_rr(r, labels) ==
    LET room == r.size - Len(r.msg)
        pk   == rip_ns_name_put(RRName(labels), r.msg, r.ptrs, room)
    IN
    IF r.tc THEN r
    ELSE IF pk.ret < 0 \/ pk.ret + RRTail > room
         THEN [r EXCEPT !.tc = TRUE, !.ptrs = pk.ptrs]
    ELSE [r EXCEPT !.msg  = @ \o pk.bytes \o RRTailBytes,
                   !.ptrs = pk.ptrs,
                   !.offs = Append(@, Len(r.msg)),
                   !.lits = Append(@, pk.lits)]

\* query_response_pack: header (HdrLen bytes), then every RR name in turn;
\* response_buffer_len covers the RRs packed before any failure.
query_response_pack(records, size) ==
    FoldLeft(query_pack_rr,
             [size |-> size, msg |-> [j \in 1 .. HdrLen |-> 0], ptrs |-> <<>>,
              tc |-> FALSE, offs |-> <<>>, lits |-> <<>>],
             records)

-----------------------------------------------------------------------------
(***************************************************************************)
(* Request parsing, src/unnamed/part_000 (query_parse.c).  The request is  *)
(* the request buffer: request_buffer_len bytes of the message followed by *)
(* whatever the buffer held before (a UDP slot of RIP_NS_PACKETSZ + 1     *)
(* bytes, or the rest of a TCP read buffer).  Every parse operator records *)
(* the offsets it reads.                                                   *)
(***************************************************************************)
Get16(m, k) == 256 * Byte(m, k) + Byte(m, k + 1)        \* RIP_NS_GET16

Span(a, n) == a .. a + n - 1                            \* n bytes from a

RIP_NS_RRFIXEDSZ == 10
RIP_NS_PACKETSZ == 512
RIP_NS_UDP_MAXMSG == 4096
RIP_NS_INADDRSZ == 4
RIP_NS_IN6ADDRSZ == 16
rip_ns_t_opt == 41
rip_ns_ext_opt_c_cs == 8
\* The end codes query_parse sets (rip_ns_rcode_t); -1 is "no error yet".
rip_ns_r_formerr == 1
rip_ns_r_notimpl == 4
rip_ns_r_badvers == 16
rip_ns_r_rip_shortheader == -2
rip_ns_r_rip_query_tc == -4
\* sizeof(rip_ns_header_t)
HFIXEDSZ == 12

\* rip_ns_rr_type_supported / rip_ns_rr_class_supported: only A and IN.
TypeSupported(t) == t = 1
ClassSupported(c) == c = 1

\* The uint8_t mask 0xff << (8 - r) keeping the first r bits of a byte.
\* Mutant: shifted by r instead of 8 - r.
KeepBitsByR(r) == (255 * 2 ^ r) % 256
KeepBits(r) == (255 * 2 ^ (8 - r)) % 256

(***************************************************************************)
(* query_parse_edns_ext_cs over the option at offset s of m with option    *)
(* length olen.  bytes_to_copy is a uint8_t, so olen - 4 is taken mod 256; *)
(* the address bytes are copied before the source mask is checked against  *)
(* them, and the last one is read before addr_len is compared with         *)
(* bytes_to_copy.                                                          *)
(***************************************************************************)
query_parse_edns_ext_cs(m, s, olen) ==
    LET family  == Get16(m, s)
        source  == Byte(m, s + 2)
        scope   == Byte(m, s + 3)
        copy    == (olen - 4) % 256
        hdr     == Span(s, 4)
        fail(c, rd) == [ret |-> c, reads |-> rd, family |-> 0, source |-> 0,
                        scope |-> 0, addr |-> <<>>]
        width   == IF family = 1 THEN RIP_NS_INADDRSZ ELSE RIP_NS_IN6ADDRSZ
        addr    == [j \in 1 .. width |-> IF j <= copy THEN Byte(m, s + 3 + j) ELSE 0]
        r       == source % 8
        alen    == source \div 8 + (IF r > 0 THEN 1 ELSE 0)
        comp    == IF r > 0 THEN Byte(m, s + 4 + alen - 1) ELSE 0
        rd      == hdr \cup Span(s + 4, copy)
                       \cup (IF r > 0 THEN {s + 4 + alen - 1} ELSE {})
    IN
    IF olen < 4 THEN fail(-1, {})
    ELSE IF family = 1 /\
            (source > 32 \/ scope # 0 \/ copy > RIP_NS_INADDRSZ)
         THEN fail(-2, hdr)
    ELSE IF family = 2 /\
            (source > 128 \/ scope # 0 \/ copy > RIP_NS_IN6ADDRSZ)
         THEN fail(-3, hdr)
    ELSE IF family \notin {1, 2} THEN fail(-4, hdr)
    ELSE IF alen # copy THEN fail(-5, rd)
    ELSE IF comp > 0 /\ (KeepBits(r) & comp) # comp THEN fail(-6, rd)
    ELSE [ret |-> 0, reads |-> rd, family |-> family, source |-> source,
          scope |-> scope, addr |-> addr]

\* No client subnet option parsed (edns_cs_valid false).
NoCs == [ret |-> 0, reads |-> {}, family |-> 0, source |-> 0, scope |-> 0,
         addr |-> <<>>]

\* query_pack_edns: cs_ip_len, the address bytes a source prefix needs.
\* Mutant: the partial last byte is not counted.
CsIpLenFloor(source) == source \div 8
CsIpLen(source) == source \div 8 + (IF source % 8 > 0 THEN 1 ELSE 0)

Put16(v) == <<v \div 256, v % 256>>                     \* RIP_NS_PUT16

\* The rdata of the OPT RR query_pack_edns packs for a valid client subnet
\* cs, with the RDLEN it writes (opts_len - 1 - RIP_NS_RRFIXEDSZ): the
\* option code and cs_opt_len = 4 + cs_ip_len, family, source and scope
\* masks, then the first cs_ip_len bytes of the stored address.
query_pack_edns_cs(cs) ==
    LET iplen  == CsIpLen(cs.source)
        optlen == 4 + iplen
    IN [rdlen |-> 4 + optlen,
        rdata |-> Put16(rip_ns_ext_opt_c_cs) \o Put16(optlen) \o Put16(cs.family)
                  \o <<cs.source, cs.scope>> \o SubSeq(cs.addr, 1, iplen)]

(***************************************************************************)
(* query_parse_edns_ext: the option list from buf to eobuf (its last       *)
(* byte); unknown options are skipped, a client subnet option is parsed.   *)
(***************************************************************************)
RECURSIVE EdnsExtLoop(_, _, _, _, _)
EdnsExtLoop(m, buf, eobuf, cs, reads) ==
    IF ~(buf < eobuf) THEN [ret |-> 0, cs |-> cs, reads |-> reads]
    ELSE IF buf + 3 > eobuf THEN [ret |-> -1, cs |-> cs, reads |-> reads]
    ELSE LET code == Get16(m, buf)
             olen == Get16(m, buf + 2)
             rd   == reads \cup Span(buf, 4)
             p    == buf + 4
             c    == query_parse_edns_ext_cs(m, p, olen)
         IN
         IF p + olen - 1 > eobuf THEN [ret |-> -1, cs |-> cs, reads |-> rd]
         ELSE IF code = rip_ns_ext_opt_c_cs
              THEN IF c.ret # 0
                   THEN [ret |-> -1, cs |-> c, reads |-> rd \cup c.reads]
                   ELSE EdnsExtLoop(m, p + olen, eobuf, c, rd \cup c.reads)
              ELSE EdnsExtLoop(m, p + olen, eobuf, cs, rd)

query_parse_edns_ext(m, buf, eobuf) == EdnsExtLoop(m, buf, eobuf, NoCs, {})

(***************************************************************************)
(* The end of the message as query_parse_request_rr_additional_edns        *)
(* computes it: q->request_hdr + request_buffer_len - 1 adds to a          *)
(* rip_ns_header_t pointer, so it lies HFIXEDSZ * (len - 1) bytes past     *)
(* the header, not len - 1.                                                *)
(***************************************************************************)
AdditionalEom(len) == HFIXEDSZ * (len - 1)

\* The result of the additional-section parse; edns is the OPT RR's state.
AddResult(ret, code, reads, edns) ==
    [ret |-> ret, end |-> code, reads |-> reads, edns |-> edns]

NoEdns == [valid |-> FALSE, udp |-> 0, dnssec |-> FALSE, cs |-> NoCs]

\* The advertised UDP size clamped into [RIP_NS_PACKETSZ, RIP_NS_UDP_MAXMSG].
ClampUdp(u) ==
    IF u < RIP_NS_PACKETSZ THEN RIP_NS_PACKETSZ
    ELSE IF u > RIP_NS_UDP_MAXMSG THEN RIP_NS_UDP_MAXMSG ELSE u

(***************************************************************************)
(* The OPT RR whose fixed part starts at p (after its root owner name at   *)
(* p - 1): UDP size, version (BADVERS forces 512), DO bit, RDLEN and the  *)
(* option list.  On success the loop breaks with rr_count not incremented. *)
(***************************************************************************)
ParseOpt(m, e, p, reads, ancount, count) ==
    LET rd      == reads \cup Span(p, RIP_NS_RRFIXEDSZ)
        udp     == ClampUdp(Get16(m, p + 2))
        dnssec  == Byte(m, p + 6) >= 128
        rdlen   == Get16(m, p + 8)
        q       == p + RIP_NS_RRFIXEDSZ
        ext     == query_parse_edns_ext(m, q, q + rdlen - 1)
        edns    == [valid |-> TRUE, udp |-> udp, dnssec |-> dnssec,
                    cs |-> ext.cs]
    IN
    IF Byte(m, p + 4) # 0
    THEN AddResult(-1, rip_ns_r_badvers, reads \cup Span(p, 5),
                   [NoEdns EXCEPT !.udp = 512])
    ELSE IF rdlen > 0 /\ (q >= e \/ q + rdlen - 1 > e)
         THEN AddResult(-1, rip_ns_r_formerr, rd, NoEdns)
    ELSE IF rdlen > 0 /\ ext.ret # 0
         THEN AddResult(-1, rip_ns_r_formerr, rd \cup ext.reads, NoEdns)
    ELSE IF count # ancount
         THEN AddResult(-1, rip_ns_r_formerr, rd \cup ext.reads, edns)
    ELSE AddResult(q, -1, rd \cup ext.reads, edns)

(***************************************************************************)
(* The while (ptr < eom) loop: unpack the owner name, then either the OPT  *)
(* RR or a skip of the RR.  The skip adds unpack a second time: ptr was   *)
(* already advanced past the name, and ptr += unpack + 8 moves it again.  *)
(* After the loop, rr_count is compared with the header's ancount.         *)
(***************************************************************************)
RECURSIVE AdditionalLoop(_, _, _, _, _, _)
AdditionalLoop(m, e, ptr, count, ancount, reads) ==
    IF ~(ptr < e)
    THEN IF count # ancount THEN AddResult(-1, rip_ns_r_formerr, reads, NoEdns)
         ELSE AddResult(ptr, -1, reads, NoEdns)
    ELSE
    LET u  == rip_ns_name_unpack(m, e, ptr, 256)
        rd == reads \cup u.reads
        p  == ptr + u.ret
        s  == p + u.ret + 8
    IN
    IF u.ret < 1 THEN AddResult(-1, rip_ns_r_formerr, rd, NoEdns)
    ELSE IF p >= e \/ p + RIP_NS_RRFIXEDSZ - 1 > e
         THEN AddResult(-1, rip_ns_r_formerr, rd, NoEdns)
    ELSE IF u.ret = 1 /\ u.name = <<0>> /\ Get16(m, p) = rip_ns_t_opt
         THEN ParseOpt(m, e, p, rd, ancount, count)
    ELSE IF s + 1 > e THEN AddResult(-1, rip_ns_r_formerr, rd \cup {p, p + 1}, NoEdns)
    ELSE AdditionalLoop(m, e, s + 2 + Get16(m, s), count + 1, ancount,
                        rd \cup {p, p + 1, s, s + 1})

query_parse_request_rr_additional_edns(m, len, ptr) ==
    LET e == AdditionalEom(len) IN
    IF ptr + RIP_NS_RRFIXEDSZ > e
    THEN AddResult(-1, rip_ns_r_formerr, {}, NoEdns)
    ELSE AdditionalLoop(m, e, ptr, 0, Get16(m, 6), {})

(***************************************************************************)
(* query_parse_request_rr_question: the QNAME through rip_rr_name_get      *)
(* (unpack into 256 bytes, ntop into the query label), then QTYPE and      *)
(* QCLASS, which must both be supported.                                   *)
(***************************************************************************)
query_parse_request_rr_question(m, len) ==
    LET e   == len - 1
        u   == rip_ns_name_unpack(m, e, HFIXEDSZ, 256)
        t   == rip_ns_name_ntop(u.name, 256)
        p   == HFIXEDSZ + u.ret
        res(ret, code, rd) == [ret |-> ret, end |-> code, reads |-> rd]
    IN
    IF u.ret < 1 \/ ~t.ok THEN res(-1, rip_ns_r_formerr, u.reads)
    ELSE IF p + 3 > e THEN res(-1, rip_ns_r_formerr, u.reads)
    ELSE IF ~TypeSupported(Get16(m, p))
         THEN res(-1, rip_ns_r_notimpl, u.reads \cup Span(p, 2))
    ELSE IF ~ClassSupported(Get16(m, p + 2))
         THEN res(-1, rip_ns_r_notimpl, u.reads \cup Span(p, 4))
    ELSE res(u.ret + 4, -1, u.reads \cup Span(p, 4))

\* The header's bit fields, from the third byte (big-endian layout).
HdrQr(m) == Byte(m, 2) \div 128
HdrOpcode(m) == (Byte(m, 2) \div 8) % 16
HdrTc(m) == (Byte(m, 2) \div 2) % 2

(***************************************************************************)
(* query_parse: the header checks in their order, the question, and the   *)
(* additional section when arcount > 0.  The result is the end code, the   *)
(* EDNS state and every offset read.                                       *)
(***************************************************************************)
query_parse(m, len) ==
    LET qd   == Get16(m, 4)
        q    == query_parse_request_rr_question(m, len)
        add  == query_parse_request_rr_additional_edns(m, len, HFIXEDSZ + q.ret)
        stop(code) == [end |-> code, reads |-> {}, edns |-> NoEdns]
    IN
    IF len < HFIXEDSZ THEN stop(rip_ns_r_rip_shortheader)
    ELSE IF HdrTc(m) # 0 THEN stop(rip_ns_r_rip_query_tc)
    ELSE IF HdrOpcode(m) # 0 THEN stop(rip_ns_r_notimpl)
    ELSE IF HdrQr(m) # 0 THEN stop(rip_ns_r_formerr)
    ELSE IF qd # 1 THEN stop(IF qd = 0 THEN rip_ns_r_formerr ELSE rip_ns_r_notimpl)
    ELSE IF Get16(m, 6) # 0 \/ Get16(m, 8) # 0 THEN stop(rip_ns_r_formerr)
    ELSE IF q.ret < 0 THEN [end |-> q.end, reads |-> q.reads, edns |-> NoEdns]
    ELSE IF Get16(m, 10) = 0 THEN [end |-> -1, reads |-> q.reads, edns |-> NoEdns]
    ELSE [end |-> add.end, reads |-> q.reads \cup add.reads, edns |-> add.edns]

-----------------------------------------------------------------------------
NoRequest == [buf |-> <<>>, len |-> 0]
NoOption == [bytes |-> <<>>, olen |-> 0]

Names == UNION {[1 .. k -> Labels] : k \in 0 .. MaxLabels}

UnpackInit ==
    /\ part = "unpack"
    /\ msg \in [1 .. MsgLen -> UnpackBytes]
    /\ eom = MsgLen - 1      \* the callers' convention: the last byte
    /\ src \in 0 .. 2
    /\ dstsiz \in DstSizes
    /\ rrs = <<>> /\ respSize = 0
    /\ name = <<>> /\ textSize = 0
    /\ req = NoRequest /\ opt = NoOption

PackInit ==
    /\ part = "pack"
    /\ msg = <<>> /\ eom = 0 /\ src = 0 /\ dstsiz = 0
    /\ rrs \in [1 .. NumRRs -> Names]
    /\ respSize \in RespSizes
    /\ name = <<>> /\ textSize = 0
    /\ req = NoRequest /\ opt = NoOption

TextLabels == UNION {[1 .. k -> TextBytes] : k \in 1 .. 2}

TextInit ==
    /\ part = "text"
    /\ msg = <<>> /\ eom = 0 /\ src = 0 /\ dstsiz = 0
    /\ rrs = <<>> /\ respSize = 0
    /\ name \in UNION {[1 .. k -> TextLabels] : k \in 0 .. 2}
    /\ textSize \in TextSizes
    /\ req = NoRequest /\ opt = NoOption

NoInputs ==
    /\ msg = <<>> /\ eom = 0 /\ src = 0 /\ dstsiz = 0
    /\ rrs = <<>> /\ respSize = 0
    /\ name = <<>> /\ textSize = 0

ParseInit ==
    /\ part = "parse"
    /\ NoInputs
    /\ req \in Requests
    /\ opt = NoOption

EcsInit ==
    /\ part = "ecs"
    /\ NoInputs
    /\ req = NoRequest
    /\ opt \in EcsOptions

Init == UnpackInit \/ PackInit \/ TextInit \/ ParseInit \/ EcsInit

\* The codec is a function of its input: nothing changes after Init.
Next == UNCHANGED vars

Spec == Init /\ [][Next]_vars

Unpacked == rip_ns_name_unpack(msg, eom, src, dstsiz)
References == RefLabels(msg, eom, src, {})
Reference == CHOOSE r \in References : TRUE

Fits == References # {} /\ Len(RefWire(Reference)) <= dstsiz

(***************************************************************************)
(* Soundness of rip_ns_name_unpack: whatever it accepts is a well-formed   *)
(* name that fits dstsiz, it writes that name's expanded form to dst, and  *)
(* it returns the bytes the name takes at src (up to and including its    *)
(* first pointer: the first-pointer 'len' bookkeeping).                    *)
(***************************************************************************)
UnpackSound ==
    part = "unpack" /\ Unpacked.ret # -1 =>
        /\ Fits
        /\ Unpacked.ret = RefConsumed(msg, src)
        /\ Unpacked.name = RefWire(Reference)

(***************************************************************************)
(* Completeness of rip_ns_name_unpack: every well-formed name that fits    *)
(* dstsiz and never reads a byte twice is accepted.  The 'checked'         *)
(* heuristic (if the loop has looked at eom - msg bytes there must be a    *)
(* loop) must never reject such a name; names that do reuse a byte, by a  *)
(* pointer into earlier label data, may be rejected as loops.              *)
(***************************************************************************)
UnpackComplete ==
    part = "unpack" /\ Fits /\ ~RefOverlaps(msg, src) => Unpacked.ret # -1

(***************************************************************************)
(* rip_ns_name_unpack never dereferences a byte at or past eom, whatever   *)
(* lengths and pointers the (attacker-supplied) message holds.            *)
(***************************************************************************)
UnpackReadsInside == part = "unpack" => Unpacked.reads \subseteq 0 .. eom - 1
-----------------------------------------------------------------------------
Response == query_response_pack(rrs, respSize)

\* The name without its first j labels, and "a is a suffix of b".
Suffix(labels, j) == SubSeq(labels, j + 1, Len(labels))
IsSuffixOf(a, b) ==
    Len(a) <= Len(b) /\ SubSeq(b, Len(b) - Len(a) + 1, Len(b)) = a

(***************************************************************************)
(* Name compression in query_response_pack is transparent: every owner    *)
(* name the response holds, read back from its offset by the RFC 1035     *)
(* decoder with pointers followed, is the name of its RR.  A rip_dn_find  *)
(* match on a prefix, a pointer to a suffix computed from the wrong saved  *)
(* entry, or a table entry left pointing at bytes not in the response     *)
(* would break it.                                                         *)
(***************************************************************************)
CompressedNamesDecode ==
    part = "pack" =>
        \A k \in 1 .. Len(Response.offs) :
            RefLabels(Response.msg, Len(Response.msg), Response.offs[k], {})
                = {rrs[k]}

\* Labels of RR k that share no suffix with an earlier RR's owner name.
Unshared(k) ==
    CHOOSE j \in 0 .. Len(rrs[k]) :
        /\ \/ j = Len(rrs[k])
           \/ \E k2 \in 1 .. k - 1 : IsSuffixOf(Suffix(rrs[k], j), rrs[k2])
        /\ \A j2 \in 0 .. j - 1 :
               \A k2 \in 1 .. k - 1 : ~IsSuffixOf(Suffix(rrs[k], j2), rrs[k2])

\* Every earlier name was saved in dnptrs and lies where a pointer can reach.
RoomFor(k) ==
    /\ k - 1 <= DNS_RESPONSE_COMPRESSED_NAMES_MAX - 3
    /\ Response.offs[k] <= PtrLimit

(***************************************************************************)
(* Spec invariant 7: an owner name shares the longest suffix it has in    *)
(* common with an earlier name of the response through one pointer, and  *)
(* writes only the labels before that suffix, as long as dnptrs had room  *)
(* for every earlier name.  This rests on rip_ns_name_pack saving only    *)
(* each name's first label and rip_dn_find walking the suffixes of saved  *)
(* names, including names that end in a pointer themselves.               *)
(***************************************************************************)
LongestSuffixShared ==
    part = "pack" =>
        \A k \in 1 .. Len(Response.offs) :
            RoomFor(k) => Response.lits[k] = Unshared(k)
-----------------------------------------------------------------------------
Rendered == rip_ns_name_ntop(RefWire(name), textSize)

(***************************************************************************)
(* rip_ns_name_ntop writes exactly the reference presentation form, and   *)
(* fails exactly when that text and its NUL do not fit dstsiz: its per-   *)
(* character room checks (2 for a plain or quoted byte, 4 for a \DDD     *)
(* escape) neither overrun dst nor refuse a name that fits.               *)
(***************************************************************************)
NtopMatchesReference ==
    part = "text" =>
        Rendered = IF Len(RefText(name)) + 1 <= textSize
                   THEN [ok |-> TRUE, text |-> RefText(name)]
                   ELSE NtopFail

(***************************************************************************)
(* Spec invariant 6: name decode followed by name encode round-trips.    *)
(* Whatever text rip_ns_name_ntop renders, rip_ns_name_pton (as           *)
(* rip_ns_name_put calls it) parses back to the same wire name: quoted    *)
(* dots and backslashes stay inside their label, \DDD escapes give back  *)
(* their byte, and only the root comes back as fully qualified.          *)
(***************************************************************************)
PtonInvertsNtop ==
    part = "text" /\ Rendered.ok =>
        rip_ns_name_pton(Rendered.text, RIP_NS_CDNAME_COMP_BUF_LEN)
            = [ret |-> IF name = <<>> THEN 1 ELSE 0, wire |-> RefWire(name)]

-----------------------------------------------------------------------------
Parsed == query_parse(req.buf, req.len)

(***************************************************************************)
(* query_parse never reads a byte at or past request_buffer_len: what lies *)
(* beyond is an earlier request's data (the UDP slot of 513 bytes, or the  *)
(* following frames of a TCP read buffer) or no buffer at all, and no     *)
(* decision about this request may depend on it.  The bounds checks of   *)
(* query_parse_request_rr_additional_edns and query_parse_edns_ext are    *)
(* all made against the eom that function computes.                        *)
(***************************************************************************)
RequestReadsInside ==
    part = "parse" => Parsed.reads \subseteq 0 .. req.len - 1

Ecs == query_parse_edns_ext_cs(opt.bytes, 0, opt.olen)

(***************************************************************************)
(* RFC 7871 / spec 4.2, Parse EDNS Client Subnet, read directly: at least *)
(* 4 bytes; family 1 or 2; source within the family's width; scope 0;     *)
(* the address bytes (the rest of the option) within the family's width,  *)
(* exactly ceil(source / 8) of them, and the bits of the last one past    *)
(* the source prefix all zero.                                            *)
(***************************************************************************)
RefEcsOk(o, olen) ==
    LET fam  == Get16(o, 0)
        srcm == Byte(o, 2)
        n    == olen - 4
        bits == IF fam = 1 THEN 32 ELSE 128
    IN  /\ olen >= 4
        /\ fam \in {1, 2}
        /\ srcm <= bits /\ Byte(o, 3) = 0
        /\ n * 8 <= bits
        /\ n = (srcm + 7) \div 8
        /\ srcm % 8 = 0 \/ Byte(o, 4 + n - 1) % (2 ^ (8 - (srcm % 8))) = 0

(***************************************************************************)
(* Spec invariant 4: query_parse_edns_ext_cs accepts an option exactly    *)
(* when it is well formed, and then reports the family and source mask it *)
(* carries.  Its uint8_t arithmetic (bytes_to_copy, addr_len, the mask    *)
(* 0xff << (8 - r)) and its order of checks must agree with the rule.     *)
(***************************************************************************)
EcsMatchesSpec ==
    part = "ecs" =>
        /\ (Ecs.ret = 0) = RefEcsOk(opt.bytes, opt.olen)
        /\ Ecs.ret = 0 => Ecs.family = Get16(opt.bytes, 0)
                          /\ Ecs.source = Byte(opt.bytes, 2)

(***************************************************************************)
(* Spec 4.4: the response's OPT RR echoes the request's Client Subnet      *)
(* option.  For every option query_parse_edns_ext_cs accepts, the rdata    *)
(* query_pack_edns writes is that option again, byte for byte (option     *)
(* code 8, its length, family, masks and address bytes), and the RDLEN it  *)
(* writes is the length of that rdata: the parser's copy of the address   *)
(* into a zeroed sockaddr and the packer's cs_ip_len must agree on how     *)
(* many bytes a source prefix takes.                                       *)
(***************************************************************************)
EcsEchoed ==
    part = "ecs" /\ Ecs.ret = 0 =>
        LET e == query_pack_edns_cs(Ecs) IN
        /\ e.rdata = Put16(rip_ns_ext_opt_c_cs) \o Put16(opt.olen)
                     \o SubSeq(opt.bytes, 1, opt.olen)
        /\ e.rdlen = Len(e.rdata)

=============================================================================
