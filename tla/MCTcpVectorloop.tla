-------------------------- MODULE MCTcpVectorloop --------------------------
(* Instantiation of TcpVectorloop for TLC: two connection objects, two     *)
(* clients and a packet size scaled down to one byte.                      *)
EXTENDS TcpVectorloop, TLC

CONSTANTS l, c1, c2, k1, k2

MCConns == {c1, c2}
MCClients == {k1, k2}

\* Each client sends one one-byte query.
MCStream == k1 :> <<0, 1, 5>> @@ k2 :> <<0, 1, 5>>

\* k2's second frame announces two bytes, more than RIP_NS_PACKETSZ.
MCStreamTooLarge == k1 :> <<0, 1, 5>> @@ k2 :> <<0, 1, 5, 0, 2, 5, 5>>

\* k2's only frame announces two bytes, more than RIP_NS_PACKETSZ.
MCStreamBadFirst == k1 :> <<0, 1, 5>> @@ k2 :> <<0, 2, 5, 5>>

\* k2 sends only a length header announcing two bytes.
MCStreamBadHeader == k1 :> <<0, 1, 5>> @@ k2 :> <<0, 2>>

\* A single client.
MCClientsOne == {k1}

\* k1 sends three one-byte queries.
MCStreamThree == k1 :> <<0, 1, 5, 0, 1, 5, 0, 1, 5>> @@ k2 :> <<>>

MCSymmetry == Permutations(MCConns)
====
