------------------------------ MODULE EchoFleet ------------------------------
(***************************************************************************)
(* Several clients of one echo server, installed by the helpers.  A client *)
(* is reduced to its counters and to the datagrams it has under way: it    *)
(* sends and retransmits within its budget and takes packets for lost when *)
(* it likes (ReliableEcho, with one client, implements this).  What the    *)
(* clients share is modelled as it is: the server, which answers whoever   *)
(* sent a datagram, and the counters PpsLog remembers from one report to   *)
(* the next, which are static and so belong to all clients together.       *)
(***************************************************************************)
EXTENDS Integers, UdpReliableEchoServer

CONSTANTS
    Nodes,            \* of the topology
    Containers,       \* NodeContainers that Install is given
    DefaultPackets,   \* attribute "MaxPackets" unless it is set
    PacketCounts,     \* values it is set to
    MaxClients,       \* bound of the model: clients installed
    WordMod,          \* 2^32, the range of a uint32_t
    PpsLimit          \* bound of the model: periodic PpsLog events that run

ASSUME FleetAssumption ==
    /\ Containers \subseteq Seq(Nodes)
    /\ DefaultPackets \in Nat
    /\ PacketCounts \subseteq Nat
    /\ MaxClients \in Nat
    /\ WordMod \in Nat \ {0}
    /\ PpsLimit \in Nat

VARIABLES
    simulating,       \* has Simulator::Run been called?
    clientFactory, clients,
    serverFactory, servers,
    phase,            \* "created", "running" or "stopped", of each client
    packetSent, packetLost, packetRetrans,
    uplink,           \* datagrams of each client on their way to the server
    downlink,         \* echoes on their way to each client
    logEvents,        \* PpsLog events of each client in the simulator's queue
    old,              \* the static counters of PpsLog
    logged,           \* what the lines of the log add up to
    ppsLogs           \* periodic PpsLog events that have run

helperVars  == <<clientFactory, clients, serverFactory, servers>>
counterVars == <<packetSent, packetLost, packetRetrans>>
linkVars    == <<uplink, downlink>>
reportVars  == <<old, logged>>
runVars     == <<phase, counterVars, linkVars, logEvents, reportVars, ppsLogs>>
vars        == <<simulating, helperVars, m_sockets, runVars>>

ClientHelper == INSTANCE UdpReliableEchoHelper
                    WITH m_factory <- clientFactory, apps <- clients
ServerHelper == INSTANCE UdpReliableEchoHelper
                    WITH m_factory <- serverFactory, apps <- servers

Slots   == 1 .. MaxClients
Clients == DOMAIN clients
Figures == {"sent", "lost", "retrans"}
Zero    == [f \in Figures |-> 0]

PacketLimit(c) == clients[c].attributes.MaxPackets
Datagrams(c)  == packetSent[c] + packetRetrans[c]

TypeOK ==
    /\ simulating \in BOOLEAN
    /\ Len(clients) <= MaxClients
    /\ Len(servers) <= 1
    /\ m_sockets \in {"none", "open", "closed"}
    /\ phase \in [Slots -> {"created", "running", "stopped"}]
    /\ {packetSent, packetLost, packetRetrans} \subseteq [Slots -> Nat]
    /\ {uplink, downlink} \subseteq [Slots -> Nat]
    /\ logEvents \in [Slots -> Nat]
    /\ {old, logged} \subseteq [Figures -> 0 .. WordMod - 1]
    /\ ppsLogs \in 0 .. PpsLimit
    /\ \A c \in Clients : Datagrams(c) <= PacketLimit(c) \/ Datagrams(c) = 1

\* The applications as they are constructed, before the run.
Constructed ==
    /\ ServerInit
    /\ phase = [c \in Slots |-> "created"]
    /\ packetSent = [c \in Slots |-> 0]
    /\ packetLost = [c \in Slots |-> 0]
    /\ packetRetrans = [c \in Slots |-> 0]
    /\ uplink = [c \in Slots |-> 0]
    /\ downlink = [c \in Slots |-> 0]
    /\ logEvents = [c \in Slots |-> 0]
    /\ old = Zero
    /\ logged = Zero
    /\ ppsLogs = 0

Init ==
    /\ simulating = FALSE
    /\ clientFactory = [MaxPackets |-> DefaultPackets]
    /\ clients = <<>>
    /\ serverFactory = [Port |-> "echo"]
    /\ servers = <<>>
    /\ Constructed

----------------------------------------------------------------------------
(* main, before Simulator::Run.                                            *)

SetAttribute ==
    /\ ~simulating
    /\ \E n \in PacketCounts : ClientHelper!SetAttribute("MaxPackets", n)
    /\ UNCHANGED <<simulating, serverFactory, servers, m_sockets, runVars>>

InstallClients ==
    /\ ~simulating
    /\ \E container \in Containers :
           /\ Len(clients) + Len(container) <= MaxClients
           /\ ClientHelper!Install(container)
    /\ UNCHANGED <<simulating, serverFactory, servers, m_sockets, runVars>>

InstallServer ==
    /\ ~simulating
    /\ servers = <<>>
    /\ ServerHelper!Install(<<"server">>)
    /\ UNCHANGED <<simulating, clientFactory, clients, m_sockets, runVars>>

Run ==
    /\ ~simulating
    /\ servers # <<>>
    /\ simulating' = TRUE
    /\ UNCHANGED <<helperVars, m_sockets, runVars>>

----------------------------------------------------------------------------
(* PpsLog.                                                                 *)

Counters(c) == [sent |-> packetSent[c], lost |-> packetLost[c],
                retrans |-> packetRetrans[c]]

\* The rates of a report: differences of uint32_t numbers.
Rates(c) == [f \in Figures |-> (Counters(c)[f] - old[f]) % WordMod]

\* What a report leaves in the static counters.
LostForgotten(c) == [Counters(c) EXCEPT !["lost"] = old["lost"]]
Remembered(c)    == Counters(c)

Report(c) ==
    /\ logged' = [f \in Figures |-> (logged[f] + Rates(c)[f]) % WordMod]
    /\ old' = Remembered(c)

\* The periodic report, which schedules the next one.
PpsLog(c) ==
    /\ logEvents[c] > 0
    /\ ppsLogs < PpsLimit
    /\ ppsLogs' = ppsLogs + 1
    /\ Report(c)
    /\ UNCHANGED <<phase, counterVars, linkVars, logEvents>>

----------------------------------------------------------------------------
(* The clients and the server.                                             *)

Add(count, c, n) == [count EXCEPT ![c] = @ + n]

StartClient(c) ==
    /\ phase[c] = "created"
    /\ phase' = [phase EXCEPT ![c] = "running"]
    /\ logEvents' = Add(logEvents, c, 1)
    /\ UNCHANGED <<counterVars, linkVars, reportVars, ppsLogs>>

\* StopApplication reports once more and leaves no report pending.
StopClient(c) ==
    /\ phase[c] = "running"
    /\ phase' = [phase EXCEPT ![c] = "stopped"]
    /\ Report(c)
    /\ logEvents' = [logEvents EXCEPT ![c] = 0]
    /\ UNCHANGED <<counterVars, linkVars, ppsLogs>>

\* Send looks at its budget after sending: the first datagram always leaves.
OneTooMany(c)   == Datagrams(c) <= PacketLimit(c)
WithinBudget(c) == Datagrams(c) = 0 \/ Datagrams(c) < PacketLimit(c)

\* The datagram enters the uplink, unless its queue is full.
Transmit(c) ==
    /\ phase[c] = "running"
    /\ WithinBudget(c)
    /\ uplink' \in {uplink, Add(uplink, c, 1)}
    /\ UNCHANGED <<phase, packetLost, downlink, logEvents, reportVars, ppsLogs>>

SendFresh(c) ==
    /\ Transmit(c)
    /\ packetSent' = Add(packetSent, c, 1)
    /\ UNCHANGED packetRetrans

SendRetransmission(c) ==
    /\ packetRetrans[c] < packetLost[c]
    /\ Transmit(c)
    /\ packetRetrans' = Add(packetRetrans, c, 1)
    /\ UNCHANGED packetSent

\* A timer and a gap may take the same packet for lost, but no third event.
Losses(c) == packetLost[c] .. 2 * packetSent[c]

Timeout(c) ==
    /\ phase[c] = "running"
    /\ packetLost[c] + 1 \in Losses(c)
    /\ packetLost' = Add(packetLost, c, 1)
    /\ UNCHANGED <<phase, packetSent, packetRetrans, linkVars, logEvents,
                   reportVars, ppsLogs>>

\* The server answers the sender of a datagram.
FirstClient(from) == CHOOSE c \in Clients : \A d \in Clients : c <= d
Sender(from)      == from

\* A datagram of c reaches the server, whose echo enters the downlink unless a
\* queue is full, or the datagram is lost on its way.
Echo(c) ==
    /\ uplink[c] > 0
    /\ uplink' = Add(uplink, c, -1)
    /\ downlink' \in {downlink,
                      Add(downlink, Sender(c), Len(ServerHandleRead(c)))}
    /\ UNCHANGED <<phase, counterVars, logEvents, reportVars, ppsLogs>>

\* An echo reaches c, which may take others for lost, or a socket that is
\* closed; or it is lost on its way.
Receive(c) ==
    /\ downlink[c] > 0
    /\ downlink' = Add(downlink, c, -1)
    /\ \/ UNCHANGED packetLost
       \/ /\ phase[c] = "running"
          /\ \E n \in Losses(c) : packetLost' = [packetLost EXCEPT ![c] = n]
    /\ UNCHANGED <<phase, packetSent, packetRetrans, uplink, logEvents,
                   reportVars, ppsLogs>>

ServerStep ==
    /\ ServerStartApplication \/ ServerStopApplication
    /\ UNCHANGED runVars

ClientStep(c) ==
    /\ \/ StartClient(c) \/ StopClient(c) \/ PpsLog(c)
       \/ SendFresh(c) \/ SendRetransmission(c) \/ Timeout(c)
       \/ Echo(c) \/ Receive(c)
    /\ UNCHANGED m_sockets

Simulate ==
    /\ simulating
    /\ ServerStep \/ \E c \in Clients : ClientStep(c)
    /\ UNCHANGED <<simulating, helperVars>>

Next == SetAttribute \/ InstallClients \/ InstallServer \/ Run \/ Simulate

Spec == Init /\ [][Next]_vars

\* The run alone, of clients that are installed already.  Simulate moves only
\* once Simulator::Run has been called.
RunSpec == Constructed /\ [][Simulate]_vars

----------------------------------------------------------------------------
\* HandleRead of the server sends an echo back to the client the datagram came
\* from: no client has more datagrams and echoes under way than it has sent.
EchoesToSender ==
    \A c \in Clients : uplink[c] + downlink[c] <= Datagrams(c)

\* The lines of the log (which parse_log.sh collects without telling clients
\* apart) add up to the final counters of one client, the last to stop.  With
\* one client that is all it sent, lost and retransmitted; of several clients
\* the rates are mixed, because PpsLog compares each with the others.
LogAddsUp ==
    (\E c \in Clients : phase[c] = "stopped")
        /\ (\A c \in Clients : phase[c] # "running") =>
    \E c \in Clients : phase[c] = "stopped" /\ logged = Counters(c)
==============================================================================
