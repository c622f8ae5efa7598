---------------------------- MODULE MCNameCodec ----------------------------
(***************************************************************************)
(* Inputs for NameCodec.                                                   *)
(*                                                                         *)
(* Unpacking: messages of six bytes drawn from the root byte 0, label      *)
(* lengths 1 and 2, the reserved length 97 ('a', top bits 01) and the     *)
(* pointer byte 192 (0xC0), whose following byte names a target offset    *)
(* 0, 1 or 2 (in range) or 97 or 192 (out of range).  This covers labels, *)
(* pointers to pointers, self pointers and longer loops, and names cut at *)
(* eom.  Destination sizes 3 and 255 (RIP_NS_MAXCDNAME) cover a dst too   *)
(* small and one that is not.                                             *)
(*                                                                         *)
(* Compression: three RRs whose owner names have up to two labels out of  *)
(* "a", "b" and "ab", so that names repeat, share proper suffixes ("b" of *)
(* "a.b"), and share labels of different lengths.  The header is cut to  *)
(* 2 bytes and the RR tail to 1; the pointer limit 0x4000 is scaled to 12 *)
(* and the table (64 entries, so 61 saved names) to 5 (2 saved names) so *)
(* that both limits are reached; a 12-byte buffer truncates responses.   *)
(*                                                                         *)
(* Presentation: names of up to two labels of one or two bytes out of 'a', *)
(* '.', '\', '1', 0x01 and ' ', so that quoting, \DDD escapes, escaped   *)
(* digits next to plain digits, and labels holding dots all occur; ntop   *)
(* buffers of 3, 6 and 256 bytes cut the text at every kind of check.     *)
(*                                                                         *)
(* Request parsing: a header that is valid or breaks one check (TC,       *)
(* opcode, QR, qdcount 0 or 2, ancount), one too short for a header, and  *)
(* valid headers with a root or one-label question of type A or AAAA     *)
(* followed by an additional section that is empty, an OPT RR of version *)
(* 0 or 1, with a client subnet or unknown option or with RDLEN larger    *)
(* than the data, an A RR, or an A RR before an OPT RR.  The buffer past *)
(* request_buffer_len ends there or holds an earlier request's OPT RR.    *)
(*                                                                         *)
(* Client subnet: families 1, 2 and 3, source masks at and around the     *)
(* byte boundaries and the family limits, scope 0 or 1, and up to four    *)
(* address bytes of 0x00, 0x01, 0x02 or 0x80, so that the address length *)
(* and the trailing-bit rule are each broken on their own; option      *)
(* lengths are the true ones (below 256 + 4, see MCEcsOptionsWide).    *)
(***************************************************************************)
EXTENDS NameCodec

MCUnpackBytes == {0, 1, 2, 97, 192}
MCDstSizes == {3, 255}
MCLabels == {<<97>>, <<98>>, <<97, 98>>}
MCRespSizes == {12, 40}
MCTextBytes == {97, 46, 92, 49, 1, 32}
MCTextSizes == {3, 6, 256}

\* A request header: id 0, the third byte (QR, opcode, AA, TC, RD) and the
\* four counts (nscount 0).
Hdr(flags, qd, an, ar) == <<0, 0, flags, 0, 0, qd, 0, an, 0, 0, 0, ar>>
QRoot == <<0, 0, 1, 0, 1>>             \* ". A IN"
QName == <<1, 97, 0, 0, 1, 0, 1>>      \* "a. A IN"
QAAAA == <<0, 0, 28, 0, 1>>            \* ". AAAA IN"
\* An OPT RR: root owner, TYPE 41, CLASS 4096, TTL (rcode, version, DO).
Opt(ver, rdata, rdlen) ==
    <<0, 0, 41, 16, 0, 0, ver, 128, 0, 0, rdlen>> \o rdata
ARR == <<0, 0, 1, 0, 1, 0, 0, 0, 0, 0, 0>>   \* ". A IN", no rdata
EcsOpt(o) == <<0, 8, 0, Len(o)>> \o o
EcsV4 == EcsOpt(<<0, 1, 24, 0, 10, 1, 2>>)   \* 10.1.2.0/24
UnknownOpt == <<0, 10, 0, 0>>

\* Additional sections with their arcount.
MCAdditionals ==
    { <<Opt(0, <<>>, 0), 1>>, <<Opt(1, <<>>, 0), 1>>,
      <<Opt(0, EcsV4, Len(EcsV4)), 1>>, <<Opt(0, UnknownOpt, 4), 1>>,
      <<Opt(0, <<>>, 4), 1>>, <<ARR, 1>>, <<ARR \o Opt(0, <<>>, 0), 2>> }

MCMessages ==
    { Hdr(0, 1, 0, a[2]) \o q \o a[1] : q \in {QRoot, QName, QAAAA},
                                        a \in MCAdditionals }
    \cup { Hdr(0, 1, 0, 0) \o q : q \in {QRoot, QName, QAAAA} }
    \cup { Hdr(f, qd, an, 0) \o QRoot :
            <<f, qd, an>> \in {<<2, 1, 0>>, <<8, 1, 0>>, <<128, 1, 0>>,
                               <<0, 0, 0>>, <<0, 2, 0>>, <<0, 1, 1>>} }

MCStale == {<<>>, Opt(0, <<>>, 0)}

MCRequests ==
    {[buf |-> m \o t, len |-> Len(m)] : m \in MCMessages, t \in MCStale}
    \cup {[buf |-> Hdr(0, 1, 0, 0), len |-> 11]}

MCAddrs == UNION {[1 .. k -> {0, 1, 2, 128}] : k \in 0 .. 4}

EcsOptionsWith(extra) ==
    {[bytes |-> <<0, f, s, sc>> \o a, olen |-> 4 + Len(a) + x] :
        f \in {1, 2, 3}, s \in {0, 7, 8, 9, 24, 32, 33, 129}, sc \in {0, 1},
        a \in MCAddrs, x \in extra}
    \cup {[bytes |-> <<0, 1>>, olen |-> 2]}

MCEcsOptions == EcsOptionsWith({0})

\* The same options declared 256 bytes longer than their address bytes:
\* bytes_to_copy = buf_len - 4 is a uint8_t.
MCEcsOptionsWide == EcsOptionsWith({0, 256})
=============================================================================
