-------------------------------- MODULE MyApp --------------------------------
(***************************************************************************)
(* The sending applications of assignment02/week10_modify.cc: several      *)
(* instances of MyApp on one node, each with a TCP socket of its own.      *)
(*                                                                         *)
(* Of the sockets (ns-3's) only what MyApp meets is modelled: the send     *)
(* buffer of a socket takes a packet if it has room and refuses it         *)
(* otherwise, which MyApp does not look at, and the connections empty      *)
(* their buffers in any order over the link they share.                    *)
(***************************************************************************)
EXTENDS Integers

CONSTANTS
    Apps,
    NPackets,       \* m_nPackets of each application
    WordMod,        \* 2^32, the range of a uint32_t
    BufferSize      \* packets the send buffer of a socket holds

ASSUME AppAssumption ==
    /\ NPackets \in [Apps -> 0 .. WordMod - 1]
    /\ WordMod \in Nat \ {0}
    /\ BufferSize \in Nat

VARIABLES
    m_running,
    m_packetsSent,
    sendEvents,     \* SendPacket events in the simulator's queue
    m_socket,       \* "created", then "connected", then "closed"
    buffered,       \* packets in the socket's send buffer
    offered,        \* packets handed to the socket
    accepted        \* packets the socket took

appVars == <<m_running, m_packetsSent, sendEvents, m_socket>>
vars    == <<appVars, buffered, offered, accepted>>

TypeOK ==
    /\ m_running \in [Apps -> BOOLEAN]
    /\ m_packetsSent \in [Apps -> 0 .. WordMod - 1]
    /\ sendEvents \in [Apps -> {0, 1}]
    /\ m_socket \in [Apps -> {"created", "connected", "closed"}]
    /\ buffered \in [Apps -> 0 .. BufferSize]
    /\ offered \in [Apps -> Nat]
    /\ accepted \in [Apps -> Nat]

\* The constructor and Setup.
Init ==
    /\ m_running = [a \in Apps |-> FALSE]
    /\ m_packetsSent = [a \in Apps |-> 0]
    /\ sendEvents = [a \in Apps |-> 0]
    /\ m_socket = [a \in Apps |-> "created"]
    /\ buffered = [a \in Apps |-> 0]
    /\ offered = [a \in Apps |-> 0]
    /\ accepted = [a \in Apps |-> 0]

----------------------------------------------------------------------------
\* m_socket->Send: the packet is taken if the buffer has room.
SocketSend(a) ==
    LET taken == IF buffered[a] < BufferSize THEN 1 ELSE 0
    IN  /\ offered' = [offered EXCEPT ![a] = @ + 1]
        /\ accepted' = [accepted EXCEPT ![a] = @ + taken]
        /\ buffered' = [buffered EXCEPT ![a] = @ + taken]

\* ++m_packetsSent, a uint32_t.
Counted(sent) == (sent + 1) % WordMod

\* Is another packet to follow the sent-th one?
OneMore(a, sent)    == sent <= NPackets[a]
OneLess(a, sent)    == sent + 1 < NPackets[a]
MoreToSend(a, sent) == sent < NPackets[a]

\* SendPacket (and ScheduleTx, which it calls) of an application that has sent
\* sentBefore packets, beside pending SendPacket events: the packet is sent and,
\* if the application is running, the next event is scheduled.
SendPacket(a, running, sentBefore, pending) ==
    LET sent == Counted(sentBefore)
    IN  /\ SocketSend(a)
        /\ m_packetsSent' = [m_packetsSent EXCEPT ![a] = sent]
        /\ sendEvents' = [sendEvents EXCEPT ![a] =
               pending + (IF MoreToSend(a, sent) /\ running THEN 1 ELSE 0)]

\* StartApplication calls Connect and sends the first packet, which waits in the
\* send buffer until the handshake is over: "connected" is a socket Connect was
\* called on.
StartApplication(a) ==
    /\ m_socket[a] = "created"
    /\ m_running' = [m_running EXCEPT ![a] = TRUE]
    /\ m_socket' = [m_socket EXCEPT ![a] = "connected"]
    /\ SendPacket(a, TRUE, 0, sendEvents[a])

\* A SendPacket event runs.
RunSendPacket(a) ==
    /\ sendEvents[a] > 0
    /\ SendPacket(a, m_running[a], m_packetsSent[a], sendEvents[a] - 1)
    /\ UNCHANGED <<m_running, m_socket>>

\* The SendPacket events left after StopApplication.
LeftPending(a) == sendEvents[a]
Cancelled(a)   == IF sendEvents[a] > 0 THEN sendEvents[a] - 1 ELSE 0

\* StopApplication cancels the next SendPacket and closes the socket, which
\* still sends what is in its buffer.
StopApplication(a) ==
    /\ m_socket[a] = "connected"
    /\ m_running' = [m_running EXCEPT ![a] = FALSE]
    /\ sendEvents' = [sendEvents EXCEPT ![a] = Cancelled(a)]
    /\ m_socket' = [m_socket EXCEPT ![a] = "closed"]
    /\ UNCHANGED <<m_packetsSent, buffered, offered, accepted>>

\* TCP brings the next packet of a's buffer to the sink.
Transfer(a) ==
    /\ buffered[a] > 0
    /\ buffered' = [buffered EXCEPT ![a] = @ - 1]
    /\ UNCHANGED <<appVars, offered, accepted>>

Next ==
    \E a \in Apps :
        \/ StartApplication(a)
        \/ RunSendPacket(a)
        \/ StopApplication(a)
        \/ Transfer(a)

Spec == Init /\ [][Next]_vars

\* The simulator starts every application and runs every event of its queue.
Fairness == \A a \in Apps : WF_vars(StartApplication(a)) /\ WF_vars(RunSendPacket(a))

FairSpec == Spec /\ Fairness

----------------------------------------------------------------------------
\* StartApplication, SendPacket, ScheduleTx and StopApplication keep one chain
\* of SendPacket events for each application: none before the start and after
\* the stop, one while packets are left.
OneSendChain ==
    \A a \in Apps :
        sendEvents[a] = IF m_running[a] /\ m_packetsSent[a] < NPackets[a]
                        THEN 1 ELSE 0

\* What an application sends: StartApplication sends a packet before it asks
\* whether there are packets to send.
Asked(a) == IF NPackets[a] > 0 THEN NPackets[a] ELSE 1

\* SendPacket and ScheduleTx hand the socket no packet too many, and none is
\* missing when a running application has no SendPacket event pending.
OffersAsAsked ==
    \A a \in Apps :
        /\ offered[a] <= Asked(a)
        /\ m_running[a] /\ sendEvents[a] = 0 => offered[a] = Asked(a)

\* An application never hands a packet to a socket that is not connected, so
\* nothing runs after StopApplication.
SendsOnlyWhenConnected ==
    [][\A a \in Apps : offered'[a] # offered[a] => m_socket'[a] = "connected"]_vars

\* Every application sends all its packets unless it is stopped, whatever the
\* other applications and the sockets do.
SendsAll ==
    \A a \in Apps : <>(offered[a] >= NPackets[a] \/ m_socket[a] = "closed")
==============================================================================
