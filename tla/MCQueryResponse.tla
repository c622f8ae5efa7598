--------------------------- MODULE MCQueryResponse ---------------------------
EXTENDS QueryResponse

CONSTANTS u1, t1, b1, b2, b3, n1, n2

MCSlots == {u1, t1}
MCTcpSlots == {t1}
MCBufs == {b1, b2, b3}
MCNames == {n1, n2}
MCOneName == {n1}
MCTcpOnly == {t1}

\* A-record requests with no OPT RR or a well-formed OPT RR of version 0.
MCRequestsV0 == {r \in [name : Names, qtypeA : {TRUE}, opt : BOOLEAN, ext : {0},
                        version : {0}, do : BOOLEAN] : ~r.opt => ~r.do}
\* A-record requests without an OPT RR.
MCRequestsPlain == [name : Names, qtypeA : {TRUE}, opt : {FALSE}, ext : {0},
                    version : {0}, do : {FALSE}]
====
