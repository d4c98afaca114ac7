---------------------------- MODULE ReliableEcho ----------------------------
(***************************************************************************)
(* The scenario of assignment03/assn3.cc: one client, one server, and the  *)
(* single path of point-to-point links between them.  Each direction is a  *)
(* first-in first-out line of at most LinkCapacity datagrams; it loses     *)
(* datagrams at its drop-tail queues (which the traffic of another         *)
(* application fills as well) and, towards the client, to the error model  *)
(* of the client's device, but it neither reorders nor duplicates them.    *)
(***************************************************************************)
EXTENDS UdpReliableEchoClient, UdpReliableEchoServer

CONSTANT
    LinkCapacity    \* datagrams one direction holds

ASSUME LinkAssumption == LinkCapacity \in Nat \ {0}

VARIABLES
    uplink,      \* datagrams on their way to the server
    downlink     \* echoes on their way to the client

links == <<uplink, downlink>>
vars  == <<clientVars, m_sockets, links>>

TypeInvariant ==
    /\ TypeOK
    /\ m_sockets \in {"none", "open", "closed"}
    /\ links \in Seq(Seqs) \X Seq(Seqs)
    /\ Len(uplink) <= LinkCapacity
    /\ Len(downlink) <= LinkCapacity

Init ==
    /\ ClientInit
    /\ ServerInit
    /\ uplink = <<>>
    /\ downlink = <<>>

\* Datagrams join a line that has room for them, or are dropped.
Join(line, datagrams) ==
    \/ /\ Len(line) + Len(datagrams) <= LinkCapacity
       /\ line' = line \o datagrams
    \/ UNCHANGED line

\* The Send event of the client.
Send ==
    /\ \/ SendFresh /\ Join(uplink, <<FreshHeader>>)
       \/ SendRetransmission /\ Join(uplink, <<RetransHeader>>)
       \/ (SendWaits \/ SendSkips) /\ UNCHANGED uplink
    /\ UNCHANGED <<m_sockets, downlink>>

\* The first datagram of the uplink reaches the server's node.
Echo ==
    /\ ~spinning
    /\ uplink # <<>>
    /\ uplink' = Tail(uplink)
    /\ Join(downlink, ServerHandleRead(Head(uplink)))
    /\ UNCHANGED <<clientVars, m_sockets>>

\* The first echo reaches the client's device: the error model rejects it, the
\* socket is closed, or the client handles it.
Receive ==
    /\ downlink # <<>>
    /\ downlink' = Tail(downlink)
    /\ \/ HandleRead(Head(downlink))
       \/ HandleReadSpins(Head(downlink))
       \/ ~spinning /\ UNCHANGED clientVars
    /\ UNCHANGED <<uplink, m_sockets>>

Timeout ==
    /\ \E e \in rtoEvents : HandleTimeout(e)
    /\ UNCHANGED <<links, m_sockets>>

Log == PpsLog /\ UNCHANGED <<links, m_sockets>>

\* The server starts before the client and stops after it.
StartServer == ServerStartApplication /\ UNCHANGED <<clientVars, links>>
StartClient == m_sockets = "open" /\ StartApplication /\ UNCHANGED <<links, m_sockets>>
StopClient  == StopApplication /\ UNCHANGED <<links, m_sockets>>
StopServer  ==
    phase = "stopped" /\ ServerStopApplication /\ UNCHANGED <<clientVars, links>>

Next ==
    \/ StartServer \/ StartClient \/ StopClient \/ StopServer
    \/ Send \/ Timeout \/ Log
    \/ Echo \/ Receive

Spec == Init /\ [][Next]_vars

\* The simulator runs every event of its queue.  The stop times lie far beyond
\* the last packet of a run that is short enough, so no fairness is asked of
\* the stops.
Fairness ==
    /\ WF_vars(StartServer)
    /\ WF_vars(StartClient)
    /\ WF_vars(Send)
    /\ WF_vars(Timeout)
    /\ WF_vars(Echo)
    /\ WF_vars(Receive)

FairSpec == Spec /\ Fairness

----------------------------------------------------------------------------
\* The datagrams and echoes of a packet under way.
UnderWay(s) ==
    Cardinality({i \in DOMAIN uplink : uplink[i] = s})
        + Cardinality({i \in DOMAIN downlink : downlink[i] = s})

\* The scenario is one of those ClientOverUdp allows: its lines are a network
\* that loses datagrams.
Udp == INSTANCE ClientOverUdp WITH flight <- [s \in Seqs |-> UnderWay(s)]

ImplementsClientOverUdp == Udp!Spec

\* Its client is one that EchoFleet allows: the counters that are left of a
\* client there move as they do here, and its log adds up to the same.
Fleet == INSTANCE EchoFleet WITH
            MaxClients <- 1, Nodes <- {0}, Containers <- {},
            DefaultPackets <- MaxPackets, PacketCounts <- {},
            simulating <- TRUE,
            clientFactory <- [MaxPackets |-> MaxPackets],
            clients <- <<[node |-> 0,
                          attributes |-> [MaxPackets |-> MaxPackets]]>>,
            serverFactory <- [Port |-> "echo"],
            servers <- <<[node |-> 2, attributes |-> [Port |-> "echo"]]>>,
            phase <- <<phase>>,
            packetSent <- <<m_packetSent>>, packetLost <- <<m_packetLost>>,
            packetRetrans <- <<m_packetRetrans>>,
            uplink <- <<Len(uplink)>>, downlink <- <<Len(downlink)>>,
            logEvents <- <<logEvents>>, old <- reported, logged <- reported

ImplementsFleet == Fleet!RunSpec

\* The gap rule of HandleRead never takes a packet for lost that is under way:
\* the lines keep the order, so what an echo overtakes is gone.
GapLossIsReal ==
    phase = "running" /\ downlink # <<>> =>
        \A l \in LostBefore(Head(downlink)) : UnderWay(l) = 0

\* What HandleRead counts as the echo of a retransmission is one: the count
\* never exceeds the retransmissions ("Retransmission Success Rate").
RetransRecvIsReal == m_retransRecv <= m_packetRetrans
=============================================================================
