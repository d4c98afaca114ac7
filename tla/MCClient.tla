------------------------------ MODULE MCClient ------------------------------
(* The client over a network that loses and reorders, with fewer packets to  *)
(* send than there are sequence numbers, and with more.                      *)
EXTENDS ClientOverUdp

\* "Every packet sent should be returned by the server and received here"
\* (udp-reliable-echo-client.h): in the end each packet is echoed or given up.
EveryPacketReturned ==
    \A s \in Seqs : s \in Sent ~> s \in m_receivedPackets \/ phase = "stopped"
=============================================================================
