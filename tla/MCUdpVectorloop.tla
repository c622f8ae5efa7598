--------------------------- MODULE MCUdpVectorloop --------------------------
(* Instances of UdpVectorloop for TLC.                                    *)
EXTENDS UdpVectorloop

CONSTANTS v4, v6, d1, d2, d3, d4

\* One listener (the IPv4 one) or both, in vl_register_listeners order.
MCLSeqOne == <<v4>>
MCLSeqTwo == <<v4, v6>>

MCDgrams == {d1, d2, d3, d4}
\* Two answered requests (one of them a FORMERR), one with a short header
\* and one larger than RIP_NS_PACKETSZ, which get no response.
MCKind == d1 :> "query" @@ d2 :> "formerr" @@ d3 :> "short" @@ d4 :> "big"
MCDgramsTwo == {d1, d2}
MCKindTwo == d1 :> "query" @@ d2 :> "query"

====
