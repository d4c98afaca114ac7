----------------------- MODULE UdpReliableEchoServer -----------------------
(***************************************************************************)
(* The echo server of assignment03/udp-reliable-echo-server.  It keeps no  *)
(* state but its two sockets (IPv4 and IPv6), which it opens and closes    *)
(* together, and returns every datagram, header included, to its sender.   *)
(***************************************************************************)
EXTENDS Sequences

VARIABLE
    m_sockets    \* "none", then "open", then "closed"

ServerInit == m_sockets = "none"

\* Create and bind the sockets and register HandleRead with them.
ServerStartApplication ==
    /\ m_sockets = "none"
    /\ m_sockets' = "open"

\* Close the sockets and remove their callback.  The sockets are kept, so the
\* server does not open new ones later.
ServerStopApplication ==
    /\ m_sockets = "open"
    /\ m_sockets' = "closed"

\* What HandleRead sends back for one datagram: the datagram itself.  Without
\* an open socket it is not called.
EchoesTwice(datagram) ==
    IF m_sockets = "open" THEN <<datagram, datagram>> ELSE <<>>
ServerHandleRead(datagram) ==
    IF m_sockets = "open" THEN <<datagram>> ELSE <<>>
=============================================================================
