--------------------------- MODULE EchoFleet_proofs ---------------------------
(***************************************************************************)
(* What holds for any number of clients of one server, whatever the        *)
(* helpers install them with and whatever the links lose: every echo goes  *)
(* back to the client that is owed one, and the log adds up to the         *)
(* counters of the last client to stop, as far as uint32_t counts them.    *)
(***************************************************************************)
EXTENDS EchoFleet, NumberLemmas

\* The bounds and the range of a uint32_t are numbers.
LEMMA Bounds == MaxClients \in Nat /\ WordMod \in Nat \ {0} /\ PpsLimit \in Nat
BY FleetAssumption

USE Bounds

\* A figure of the log is a difference of uint32_t numbers: as long as the
\* counters of the clients fit in that type, none has passed 2^32.
CountersFit ==
    \A c \in Slots : {packetSent[c], packetLost[c], packetRetrans[c]}
                         \subseteq 0 .. WordMod - 1

\* The values the attribute "MaxPackets" of a client can have.
Budgets == {DefaultPackets} \cup PacketCounts

\* The types that hold for every budget.
Factory == [MaxPackets : Budgets]
Client  == [node : Nodes, attributes : Factory]
FleetTypes ==
    /\ simulating \in BOOLEAN
    /\ clientFactory \in Factory
    /\ clients \in Seq(Client)
    /\ Len(clients) <= MaxClients
    /\ Len(servers) <= 1
    /\ m_sockets \in {"none", "open", "closed"}
    /\ phase \in [Slots -> {"created", "running", "stopped"}]
    /\ packetSent \in [Slots -> Nat]
    /\ packetLost \in [Slots -> Nat]
    /\ packetRetrans \in [Slots -> Nat]
    /\ uplink \in [Slots -> Nat]
    /\ downlink \in [Slots -> Nat]
    /\ logEvents \in [Slots -> Nat]
    /\ ppsLogs \in 0 .. PpsLimit

LEMMA BudgetsAreNumbers == Budgets \subseteq Nat
BY FleetAssumption DEF Budgets

\* Installing clients comes before the run.
NothingRanYet == ~simulating => Constructed

\* The budget of Send, which sends the first datagram before it looks at it.
BudgetKept ==
    \A c \in Clients : Datagrams(c) <= PacketLimit(c) \/ Datagrams(c) = 1

\* EchoesToSender, of the clients that are not installed yet too.
EchoesKept == \A c \in Slots : uplink[c] + downlink[c] <= Datagrams(c)

\* A report is pending only while its client runs.
ReportsEnd == \A c \in Slots : logEvents[c] > 0 => phase[c] = "running"

\* The sum of the log is what PpsLog remembers ...
Figured(f) == f \in [Figures -> 0 .. WordMod - 1]
LogIsOld   == CountersFit => Figured(old) /\ logged = old

\* ... and once no client runs, that is what the last to stop has counted.
LastToStop ==
    (\E c \in Clients : phase[c] = "stopped")
        /\ (\A c \in Clients : phase[c] # "running") =>
    \E c \in Clients : phase[c] = "stopped" /\ old = Counters(c)

FleetInv ==
    /\ FleetTypes
    /\ NothingRanYet
    /\ BudgetKept
    /\ EchoesKept
    /\ ReportsEnd
    /\ LogIsOld
    /\ LastToStop

----------------------------------------------------------------------------
(* Counting with uint32_t.                                                 *)

LEMMA CountersAreFigures ==
    ASSUME FleetTypes, CountersFit, NEW c \in Slots
    PROVE  Figured(Counters(c))
BY DEF FleetTypes, CountersFit, Figured, Figures, Counters

\* A report of a client brings the sum of the log up to its counters.
LEMMA ReportCounts ==
    ASSUME FleetTypes, LogIsOld, CountersFit, NEW c \in Slots, Report(c)
    PROVE  Figured(old') /\ logged' = old' /\ old' = Counters(c)
<1> DEFINE a == Counters(c)
<1>1. Figured(a) /\ Figured(old) /\ logged = old
    BY CountersAreFigures DEF LogIsOld
<1>2. old' = a
    BY DEF Report, Remembered
<1>3. logged' = [f \in Figures |-> (logged[f] + Rates(c)[f]) % WordMod]
    BY DEF Report
<1>4. \A f \in Figures : Rates(c)[f] = (a[f] - old[f]) % WordMod
    BY DEF Rates
<1> HIDE DEF a
<1>5. \A f \in Figures : (logged[f] + Rates(c)[f]) % WordMod = a[f]
    <2> SUFFICES ASSUME NEW f \in Figures
                 PROVE  (old[f] + ((a[f] - old[f]) % WordMod)) % WordMod = a[f]
        BY <1>1, <1>4
    <2>1. a[f] \in 0 .. WordMod - 1 /\ old[f] \in 0 .. WordMod - 1
        BY <1>1 DEF Figured
    <2> QED
        BY <2>1, DifferenceAddsUp
<1>6. logged' = a
    BY <1>1, <1>3, <1>5 DEF Figured
<1> QED
    BY <1>1, <1>2, <1>6 DEF a

----------------------------------------------------------------------------
(* Before the run.                                                         *)

LEMMA Positions ==
    ASSUME NEW S, NEW t \in Seq(S), NEW n \in Nat, Len(t) <= n
    PROVE  DOMAIN t \subseteq 1 .. n
OBVIOUS

LEMMA ClientsAreSlots == FleetTypes => Clients \subseteq Slots
BY Positions DEF FleetTypes, Clients, Slots

LEMMA ClientsStaySlots == FleetTypes' => Clients' \subseteq Slots
BY Positions DEF FleetTypes, Clients, Slots

LEMMA InitKeepsFleet == Init => FleetInv
<1> SUFFICES ASSUME Init PROVE FleetInv
    OBVIOUS
<1> USE DEF Init, Constructed, ServerInit
<1>1. FleetTypes
    <2>1. clientFactory \in Factory
        BY DEF Factory, Budgets
    <2>2. clients \in Seq(Client) /\ Len(clients) = 0 /\ Len(servers) = 0
        OBVIOUS
    <2>3. /\ simulating \in BOOLEAN
          /\ m_sockets \in {"none", "open", "closed"}
          /\ ppsLogs \in 0 .. PpsLimit
        <3>1. simulating \in BOOLEAN /\ m_sockets = "none" /\ ppsLogs = 0
            BY Zenon
        <3>2. 0 \in 0 .. PpsLimit
            OBVIOUS
        <3> QED
            BY <3>1, <3>2, Zenon
    <2>4. /\ phase \in [Slots -> {"created", "running", "stopped"}]
          /\ packetSent \in [Slots -> Nat] /\ packetLost \in [Slots -> Nat]
          /\ packetRetrans \in [Slots -> Nat]
          /\ uplink \in [Slots -> Nat] /\ downlink \in [Slots -> Nat]
          /\ logEvents \in [Slots -> Nat]
        OBVIOUS
    <2>5. Len(clients) <= MaxClients /\ Len(servers) <= 1
        BY <2>2
    <2> QED
        BY <2>1, <2>2, <2>3, <2>4, <2>5, Zenon DEF FleetTypes
<1>2. Clients = {}
    BY DEF Clients
<1>3. NothingRanYet /\ BudgetKept /\ LastToStop
    BY <1>2 DEF NothingRanYet, BudgetKept, LastToStop
<1>4. EchoesKept /\ ReportsEnd
    BY DEF EchoesKept, ReportsEnd, Datagrams
<1>5. LogIsOld
    BY DEF LogIsOld, Figured, Zero
<1> QED
    BY <1>1, <1>3, <1>4, <1>5 DEF FleetInv

\* What depends only on the applications as they are constructed.
LEMMA ConstructedKept ==
    ASSUME FleetTypes, FleetTypes', Constructed, Constructed'
    PROVE  FleetInv'
<1> USE DEF Constructed
<1>1. Clients' \subseteq Slots
    BY ClientsStaySlots
<1>2. EchoesKept' /\ ReportsEnd'
    BY DEF EchoesKept, ReportsEnd, Datagrams
<1>3. BudgetKept'
    <2> SUFFICES ASSUME NEW c \in Clients' PROVE (Datagrams(c) <= PacketLimit(c))'
        BY DEF BudgetKept
    <2>1. Datagrams(c)' = 0
        BY <1>1 DEF Datagrams
    <2>2. PacketLimit(c)' \in Nat
        <3>1. clients'[c] \in Client
            BY DEF FleetTypes, Clients
        <3> QED
            BY <3>1, BudgetsAreNumbers DEF Client, Factory, PacketLimit
    <2> QED
        BY <2>1, <2>2
<1>4. LogIsOld'
    BY DEF LogIsOld, Figured, Zero
<1>5. LastToStop'
    BY <1>1 DEF LastToStop
<1> QED
    BY <1>2, <1>3, <1>4, <1>5 DEF FleetInv, NothingRanYet

LEMMA Joined ==
    ASSUME NEW S, NEW t \in Seq(S), NEW u \in Seq(S)
    PROVE  t \o u \in Seq(S) /\ Len(t \o u) = Len(t) + Len(u)
OBVIOUS

LEMMA AttributeSet ==
    ASSUME NEW r \in Factory, NEW n \in PacketCounts
    PROVE  [r EXCEPT !["MaxPackets"] = n] \in Factory
BY DEF Factory, Budgets

\* The clients that Install adds have the attributes of the factory.
LEMMA InstallAdds ==
    ASSUME FleetTypes, NEW container \in Containers, ClientHelper!Install(container)
    PROVE  clients' \in Seq(Client) /\ Len(clients') = Len(clients) + Len(container)
<1> DEFINE added == [i \in DOMAIN container |-> ClientHelper!InstallPriv(container[i])]
<1>1. container \in Seq(Nodes)
    BY FleetAssumption
<1>2. \A node \in Nodes : ClientHelper!InstallPriv(node) \in Client
    BY DEF FleetTypes, Client, ClientHelper!InstallPriv
<1>3. added \in Seq(Client) /\ Len(added) = Len(container)
    BY <1>1, <1>2
<1>4. clients' = clients \o added
    BY DEF ClientHelper!Install
<1>5. clients \in Seq(Client)
    BY DEF FleetTypes
<1> HIDE DEF added
<1> QED
    BY <1>3, <1>4, <1>5, Joined

LEMMA BeforeTheRun ==
    ASSUME FleetInv, SetAttribute \/ InstallClients \/ InstallServer \/ Run
    PROVE  FleetInv'
<1>1. FleetTypes /\ Constructed
    BY DEF FleetInv, NothingRanYet, SetAttribute, InstallClients, InstallServer, Run
<1>2. CASE SetAttribute
    <2>1. PICK n \in PacketCounts : ClientHelper!SetAttribute("MaxPackets", n)
        BY <1>2 DEF SetAttribute
    <2>2. clientFactory' \in Factory /\ UNCHANGED clients
        <3>1. clientFactory \in Factory
            BY <1>1 DEF FleetTypes
        <3> QED
            BY <2>1, <3>1, AttributeSet DEF ClientHelper!SetAttribute
    <2>3. FleetTypes' /\ Constructed'
        BY <1>1, <1>2, <2>2
           DEF SetAttribute, FleetTypes, Constructed, ServerInit, runVars, counterVars,
               linkVars, reportVars
    <2> QED
        BY <1>1, <2>3, ConstructedKept
<1>3. CASE InstallClients
    <2>1. PICK container \in Containers :
                /\ Len(clients) + Len(container) <= MaxClients
                /\ ClientHelper!Install(container)
        BY <1>3 DEF InstallClients
    <2>2. /\ clients' \in Seq(Client) /\ Len(clients') <= MaxClients
          /\ UNCHANGED clientFactory
        BY <1>1, <2>1, InstallAdds DEF ClientHelper!Install
    <2>3. FleetTypes' /\ Constructed'
        BY <1>1, <1>3, <2>2
           DEF InstallClients, FleetTypes, Constructed, ServerInit, runVars, counterVars,
               linkVars, reportVars
    <2> QED
        BY <1>1, <2>3, ConstructedKept
<1>4. CASE InstallServer
    <2>1. Len(servers') <= 1
        BY <1>4 DEF InstallServer, ServerHelper!Install
    <2>2. FleetTypes' /\ Constructed'
        BY <1>1, <1>4, <2>1
           DEF InstallServer, FleetTypes, Constructed, ServerInit, runVars, counterVars,
               linkVars, reportVars
    <2> QED
        BY <1>1, <2>2, ConstructedKept
<1>5. CASE Run
    <2>1. FleetTypes' /\ Constructed'
        BY <1>1, <1>5
           DEF Run, FleetTypes, Constructed, ServerInit, helperVars, runVars, counterVars,
               linkVars, reportVars
    <2> QED
        BY <1>1, <2>1, ConstructedKept
<1> QED
    BY <1>2, <1>3, <1>4, <1>5

----------------------------------------------------------------------------
(* The run.                                                                *)

\* The counters only grow, so once they fit they always did.
CountersGrow ==
    \A c \in Slots : /\ packetSent[c] <= packetSent'[c]
                     /\ packetLost[c] <= packetLost'[c]
                     /\ packetRetrans[c] <= packetRetrans'[c]

LEMMA FitBefore ==
    ASSUME FleetTypes, FleetTypes', CountersGrow, CountersFit'
    PROVE  CountersFit
BY DEF FleetTypes, CountersGrow, CountersFit

LEMMA Added ==
    ASSUME NEW count \in [Slots -> Nat], NEW c \in Slots, NEW n \in Int, count[c] + n >= 0
    PROVE  /\ Add(count, c, n) \in [Slots -> Nat]
           /\ \A d \in Slots : Add(count, c, n)[d] = IF d = c THEN count[c] + n ELSE count[d]
BY DEF Add

\* The parts of a step of the run that change the counters, by client: what
\* they may do to the types, the budget and the datagrams under way.
LEMMA SendKeeps ==
    ASSUME FleetInv, NEW c \in Clients, SendFresh(c) \/ SendRetransmission(c),
           UNCHANGED <<simulating, helperVars, m_sockets>>
    PROVE  FleetTypes' /\ BudgetKept' /\ EchoesKept' /\ CountersGrow
<1>1. FleetTypes /\ BudgetKept /\ EchoesKept /\ c \in Slots
    BY ClientsAreSlots DEF FleetInv
<1>2. /\ UNCHANGED <<phase, packetLost, downlink, logEvents, ppsLogs>>
      /\ Clients' = Clients /\ \A d \in Clients : PacketLimit(d)' = PacketLimit(d)
      /\ WithinBudget(c) /\ uplink' \in {uplink, Add(uplink, c, 1)}
    BY DEF SendFresh, SendRetransmission, Transmit, helperVars, Clients, PacketLimit
<1>3. \/ packetSent' = Add(packetSent, c, 1) /\ packetRetrans' = packetRetrans
      \/ packetRetrans' = Add(packetRetrans, c, 1) /\ packetSent' = packetSent
    BY DEF SendFresh, SendRetransmission
<1>4. /\ uplink' \in [Slots -> Nat]
      /\ packetSent' \in [Slots -> Nat] /\ packetRetrans' \in [Slots -> Nat]
      /\ \A d \in Slots : /\ uplink'[d] <= uplink[d] + (IF d = c THEN 1 ELSE 0)
                          /\ Datagrams(d)' = Datagrams(d) + (IF d = c THEN 1 ELSE 0)
                          /\ packetSent[d] <= packetSent'[d]
                          /\ packetRetrans[d] <= packetRetrans'[d]
    <2>1. /\ uplink \in [Slots -> Nat]
          /\ packetSent \in [Slots -> Nat] /\ packetRetrans \in [Slots -> Nat]
        BY <1>1 DEF FleetTypes
    <2>2. ASSUME NEW count \in [Slots -> Nat]
          PROVE  /\ Add(count, c, 1) \in [Slots -> Nat]
                 /\ \A d \in Slots : Add(count, c, 1)[d] =
                                         IF d = c THEN count[c] + 1 ELSE count[d]
        BY <1>1, Added
    <2> QED
        BY <1>2, <1>3, <2>1, <2>2 DEF Datagrams
<1>5. FleetTypes'
    BY <1>1, <1>2, <1>4 DEF FleetTypes, helperVars
<1>6. \A d \in Slots : Datagrams(d) \in Nat
    BY <1>1 DEF FleetTypes, Datagrams
<1>7. BudgetKept'
    <2> SUFFICES ASSUME NEW d \in Clients
                 PROVE  Datagrams(d)' <= PacketLimit(d) \/ Datagrams(d)' = 1
        BY <1>2 DEF BudgetKept
    <2>1. d \in Slots /\ PacketLimit(d) \in Int
        <3>1. clients[d] \in Client
            BY <1>1 DEF FleetTypes, Clients
        <3>2. PacketLimit(d) \in Budgets
            BY <3>1 DEF Client, Factory, PacketLimit
        <3>3. PacketLimit(d) \in Nat
            BY <3>2, BudgetsAreNumbers
        <3>4. d \in Slots
            BY <1>1, ClientsAreSlots
        <3> QED
            BY <3>3, <3>4
    <2> QED
        BY <1>1, <1>2, <1>4, <1>6, <2>1 DEF BudgetKept, WithinBudget
<1>8. EchoesKept'
    <2> SUFFICES ASSUME NEW d \in Slots
                 PROVE  uplink'[d] + downlink[d] <= Datagrams(d)'
        BY <1>2 DEF EchoesKept
    <2>1. uplink[d] \in Nat /\ uplink'[d] \in Nat /\ downlink[d] \in Nat
        BY <1>1, <1>4 DEF FleetTypes
    <2>2. uplink[d] + downlink[d] <= Datagrams(d)
        BY <1>1 DEF EchoesKept
    <2> QED
        BY <1>4, <1>6, <2>1, <2>2
<1>9. CountersGrow
    BY <1>1, <1>2, <1>4 DEF CountersGrow, FleetTypes
<1> QED
    BY <1>5, <1>7, <1>8, <1>9

\* Steps that send nothing keep the budget.
LEMMA NothingSent ==
    ASSUME FleetInv, UNCHANGED <<packetSent, packetRetrans, clients>>
    PROVE  BudgetKept' /\ \A d \in Slots : Datagrams(d)' = Datagrams(d)
BY DEF FleetInv, BudgetKept, Clients, Datagrams, PacketLimit

LEMMA TimeoutKeeps ==
    ASSUME FleetInv, NEW c \in Clients, Timeout(c),
           UNCHANGED <<simulating, helperVars, m_sockets>>
    PROVE  FleetTypes' /\ BudgetKept' /\ EchoesKept' /\ CountersGrow
<1>1. /\ FleetTypes /\ EchoesKept /\ c \in Slots
      /\ UNCHANGED <<packetSent, packetRetrans, uplink, downlink, clients>>
    BY ClientsAreSlots DEF FleetInv, Timeout, linkVars, helperVars
<1>2. /\ packetLost' \in [Slots -> Nat]
      /\ \A d \in Slots : packetLost[d] <= packetLost'[d]
    <2>1. packetLost \in [Slots -> Nat] /\ packetLost' = Add(packetLost, c, 1)
        BY <1>1 DEF FleetTypes, Timeout
    <2> QED
        BY <1>1, <2>1, Added
<1>3. FleetTypes'
    BY <1>1, <1>2 DEF FleetTypes, Timeout, linkVars, helperVars
<1>4. CountersGrow
    BY <1>1, <1>2 DEF FleetTypes, CountersGrow
<1>5. BudgetKept' /\ EchoesKept'
    BY <1>1, NothingSent DEF EchoesKept
<1> QED
    BY <1>3, <1>4, <1>5

\* A datagram goes over to the downlink of its own client, or is lost.
LEMMA EchoKeeps ==
    ASSUME FleetInv, NEW c \in Clients, Echo(c),
           UNCHANGED <<simulating, helperVars, m_sockets>>
    PROVE  FleetTypes' /\ BudgetKept' /\ EchoesKept' /\ CountersGrow
<1>1. /\ FleetTypes /\ EchoesKept /\ c \in Slots
      /\ UNCHANGED <<packetSent, packetLost, packetRetrans, clients>>
      /\ uplink \in [Slots -> Nat] /\ downlink \in [Slots -> Nat]
    BY ClientsAreSlots DEF FleetInv, FleetTypes, Echo, counterVars, helperVars
<1>2. /\ uplink' \in [Slots -> Nat]
      /\ \A d \in Slots : uplink'[d] = IF d = c THEN uplink[c] - 1 ELSE uplink[d]
    <2>1. uplink[c] + (-1) >= 0 /\ uplink' = Add(uplink, c, -1)
        BY <1>1 DEF Echo
    <2> QED
        BY <1>1, <2>1, Added
<1>3. /\ downlink' \in [Slots -> Nat]
      /\ \A d \in Slots : downlink'[d] <= downlink[d] + (IF d = c THEN 1 ELSE 0)
    <2> DEFINE n == Len(ServerHandleRead(c))
    <2>1. n \in {0, 1}
        BY DEF ServerHandleRead
    <2> HIDE DEF n
    <2>2. downlink' \in {downlink, Add(downlink, c, n)}
        BY DEF Echo, Sender, n
    <2>3. /\ Add(downlink, c, n) \in [Slots -> Nat]
          /\ \A d \in Slots : Add(downlink, c, n)[d] =
                                  IF d = c THEN downlink[c] + n ELSE downlink[d]
        BY <1>1, <2>1, Added
    <2> QED
        BY <1>1, <2>1, <2>2, <2>3
<1>4. FleetTypes'
    BY <1>1, <1>2, <1>3 DEF FleetTypes, Echo, helperVars
<1>5. CountersGrow
    BY <1>1 DEF FleetTypes, CountersGrow
<1>6. BudgetKept' /\ \A d \in Slots : Datagrams(d)' = Datagrams(d)
    BY <1>1, NothingSent
<1>7. EchoesKept'
    <2> SUFFICES ASSUME NEW d \in Slots
                 PROVE  uplink'[d] + downlink'[d] <= Datagrams(d)
        BY <1>6 DEF EchoesKept
    <2>1. /\ uplink[d] \in Nat /\ uplink'[d] \in Nat
          /\ downlink[d] \in Nat /\ downlink'[d] \in Nat
        BY <1>1, <1>2, <1>3
    <2>2. uplink[d] + downlink[d] <= Datagrams(d)
        BY <1>1 DEF EchoesKept
    <2>3. Datagrams(d) \in Nat
        BY <1>1 DEF FleetTypes, Datagrams
    <2> QED
        BY <1>2, <1>3, <2>1, <2>2, <2>3
<1> QED
    BY <1>4, <1>5, <1>6, <1>7

LEMMA ReceiveKeeps ==
    ASSUME FleetInv, NEW c \in Clients, Receive(c),
           UNCHANGED <<simulating, helperVars, m_sockets>>
    PROVE  FleetTypes' /\ BudgetKept' /\ EchoesKept' /\ CountersGrow
<1>1. /\ FleetTypes /\ EchoesKept /\ c \in Slots
      /\ UNCHANGED <<packetSent, packetRetrans, uplink, clients>>
      /\ uplink \in [Slots -> Nat] /\ downlink \in [Slots -> Nat]
      /\ packetLost \in [Slots -> Nat] /\ packetSent \in [Slots -> Nat]
    BY ClientsAreSlots DEF FleetInv, FleetTypes, Receive, helperVars
<1>2. /\ downlink' \in [Slots -> Nat]
      /\ \A d \in Slots : downlink'[d] = IF d = c THEN downlink[c] - 1 ELSE downlink[d]
    <2>1. downlink[c] + (-1) >= 0 /\ downlink' = Add(downlink, c, -1)
        BY <1>1 DEF Receive
    <2> QED
        BY <1>1, <2>1, Added
<1>3. /\ packetLost' \in [Slots -> Nat]
      /\ \A d \in Slots : packetLost[d] <= packetLost'[d]
    <2>1. CASE UNCHANGED packetLost
        BY <1>1, <2>1
    <2>2. CASE \E n \in Losses(c) : packetLost' = [packetLost EXCEPT ![c] = n]
        <3>1. PICK n \in Losses(c) : packetLost' = [packetLost EXCEPT ![c] = n]
            BY <2>2
        <3>2. n \in Nat /\ packetLost[c] <= n
            BY <1>1 DEF Losses
        <3> QED
            BY <1>1, <3>1, <3>2
    <2> QED
        BY <2>1, <2>2 DEF Receive
<1>4. FleetTypes'
    BY <1>1, <1>2, <1>3 DEF FleetTypes, Receive, helperVars
<1>5. CountersGrow
    BY <1>1, <1>3 DEF FleetTypes, CountersGrow
<1>6. BudgetKept' /\ \A d \in Slots : Datagrams(d)' = Datagrams(d)
    BY <1>1, NothingSent
<1>7. EchoesKept'
    <2> SUFFICES ASSUME NEW d \in Slots
                 PROVE  uplink[d] + downlink'[d] <= Datagrams(d)
        BY <1>1, <1>6 DEF EchoesKept
    <2>1. /\ uplink[d] \in Nat /\ downlink[d] \in Nat /\ downlink'[d] \in Nat
          /\ Datagrams(d) \in Nat
        BY <1>1, <1>2 DEF FleetTypes, Datagrams
    <2>2. uplink[d] + downlink[d] <= Datagrams(d)
        BY <1>1 DEF EchoesKept
    <2> QED
        BY <1>2, <2>1, <2>2
<1> QED
    BY <1>4, <1>5, <1>6, <1>7

\* Starting, stopping and reporting leave the counters and the links alone.
LEMMA ControlKeeps ==
    ASSUME FleetInv, NEW c \in Clients, StartClient(c) \/ StopClient(c) \/ PpsLog(c),
           UNCHANGED <<simulating, helperVars, m_sockets>>
    PROVE  FleetTypes' /\ BudgetKept' /\ EchoesKept' /\ CountersGrow
<1>1. /\ FleetTypes /\ EchoesKept /\ c \in Slots
      /\ UNCHANGED <<packetSent, packetLost, packetRetrans, uplink, downlink, clients>>
    BY ClientsAreSlots
       DEF FleetInv, StartClient, StopClient, PpsLog, counterVars, linkVars, helperVars
<1>2. /\ phase' \in [Slots -> {"created", "running", "stopped"}]
      /\ logEvents' \in [Slots -> Nat]
      /\ ppsLogs' \in 0 .. PpsLimit
    <2>1. /\ phase \in [Slots -> {"created", "running", "stopped"}]
          /\ logEvents \in [Slots -> Nat]
          /\ ppsLogs \in 0 .. PpsLimit
        BY <1>1 DEF FleetTypes
    <2>2. Add(logEvents, c, 1) \in [Slots -> Nat]
        BY <1>1, <2>1, Added
    <2> QED
        BY <1>1, <2>1, <2>2 DEF StartClient, StopClient, PpsLog
<1>3. FleetTypes'
    BY <1>1, <1>2 DEF FleetTypes, helperVars
<1>4. CountersGrow
    BY <1>1 DEF FleetTypes, CountersGrow
<1>5. BudgetKept' /\ EchoesKept'
    BY <1>1, NothingSent DEF EchoesKept
<1> QED
    BY <1>3, <1>4, <1>5

LEMMA ClientStepKeeps ==
    ASSUME FleetInv, NEW c \in Clients, ClientStep(c), UNCHANGED <<simulating, helperVars>>
    PROVE  FleetTypes' /\ BudgetKept' /\ EchoesKept' /\ CountersGrow
BY SendKeeps, TimeoutKeeps, EchoKeeps, ReceiveKeeps, ControlKeeps DEF ClientStep

\* Who runs, who has a report pending and what was reported last.
LEMMA ClientStepReports ==
    ASSUME FleetInv, NEW c \in Clients, ClientStep(c), UNCHANGED <<simulating, helperVars>>
    PROVE  ReportsEnd' /\ LogIsOld' /\ LastToStop'
<1>1. /\ FleetTypes /\ FleetTypes' /\ CountersGrow /\ c \in Slots
      /\ Clients \subseteq Slots /\ Clients' = Clients
      /\ phase \in [Slots -> {"created", "running", "stopped"}]
      /\ logEvents \in [Slots -> Nat]
    BY ClientStepKeeps, ClientsAreSlots DEF FleetInv, FleetTypes, helperVars, Clients
<1>2. CountersFit' => CountersFit
    BY <1>1, FitBefore
<1>3. ReportsEnd /\ LogIsOld /\ LastToStop
    BY DEF FleetInv
<1>4. ASSUME UNCHANGED reportVars PROVE LogIsOld'
    BY <1>2, <1>3, <1>4 DEF LogIsOld, Figured, reportVars
<1>5. ASSUME Report(c) PROVE LogIsOld'
    BY <1>1, <1>2, <1>3, <1>5, ReportCounts DEF LogIsOld, Figured
<1>6. ASSUME phase'[c] = "running" PROVE LastToStop'
    BY <1>1, <1>6 DEF LastToStop
<1>7. CASE StartClient(c)
    <2>1. /\ phase' = [phase EXCEPT ![c] = "running"]
          /\ logEvents' = Add(logEvents, c, 1) /\ UNCHANGED reportVars
        BY <1>7 DEF StartClient
    <2>2. \A d \in Slots : d # c => logEvents'[d] = logEvents[d]
        BY <1>1, <2>1, Added
    <2> QED
        BY <1>1, <1>3, <1>4, <1>6, <2>1, <2>2 DEF ReportsEnd
<1>8. CASE StopClient(c)
    <2>1. /\ phase' = [phase EXCEPT ![c] = "stopped"]
          /\ logEvents' = [logEvents EXCEPT ![c] = 0]
          /\ Report(c) /\ UNCHANGED counterVars
        BY <1>8 DEF StopClient
    <2>2. ReportsEnd'
        BY <1>1, <1>3, <2>1 DEF ReportsEnd
    <2>3. old' = Counters(c) /\ Counters(c)' = Counters(c)
        BY <2>1 DEF Report, Remembered, Counters, counterVars
    <2>4. LastToStop'
        BY <1>1, <2>1, <2>3 DEF LastToStop
    <2> QED
        BY <1>5, <2>1, <2>2, <2>4
<1>9. CASE PpsLog(c)
    <2>1. /\ UNCHANGED <<phase, logEvents>> /\ Report(c) /\ logEvents[c] > 0
        BY <1>9 DEF PpsLog
    <2>2. phase'[c] = "running"
        BY <1>1, <1>3, <2>1 DEF ReportsEnd
    <2> QED
        BY <1>3, <1>5, <1>6, <2>1, <2>2 DEF ReportsEnd
<1>10. ASSUME UNCHANGED <<phase, logEvents, reportVars>>
       PROVE  ReportsEnd' /\ LogIsOld'
    BY <1>3, <1>4, <1>10 DEF ReportsEnd
<1>11. CASE SendFresh(c) \/ SendRetransmission(c) \/ Timeout(c)
    <2>1. phase[c] = "running" /\ UNCHANGED <<phase, logEvents, reportVars>>
        BY <1>11 DEF SendFresh, SendRetransmission, Transmit, Timeout
    <2> QED
        BY <1>6, <1>10, <2>1
<1>12. ASSUME UNCHANGED <<phase, logEvents, reportVars, counterVars>>
       PROVE  LastToStop'
    <2>1. \A d \in Slots : Counters(d)' = Counters(d)
        BY <1>12 DEF Counters, counterVars
    <2> QED
        BY <1>1, <1>3, <1>12, <2>1 DEF LastToStop, reportVars
<1>13. CASE Echo(c)
    <2>1. UNCHANGED <<phase, logEvents, reportVars, counterVars>>
        BY <1>13 DEF Echo
    <2> QED
        BY <1>10, <1>12, <2>1
<1>14. CASE Receive(c)
    <2>1. /\ UNCHANGED <<phase, logEvents, reportVars, packetSent, packetRetrans>>
          /\ UNCHANGED packetLost \/ phase[c] = "running"
        BY <1>14 DEF Receive
    <2> QED
        BY <1>6, <1>10, <1>12, <2>1 DEF counterVars
<1> QED
    BY <1>7, <1>8, <1>9, <1>11, <1>13, <1>14 DEF ClientStep

LEMMA StepKeepsFleet ==
    ASSUME FleetInv, [Next]_vars
    PROVE  FleetInv'
<1> USE DEF FleetInv
<1>1. CASE UNCHANGED <<simulating, helperVars, runVars>> /\ m_sockets' \in {"none", "open", "closed"}
           /\ (simulating \/ UNCHANGED m_sockets)
    <2>1. UNCHANGED <<clientFactory, clients, servers, phase, packetSent, packetLost,
                      packetRetrans, uplink, downlink, logEvents, old, logged, ppsLogs>>
        BY <1>1 DEF helperVars, runVars, counterVars, linkVars, reportVars
    <2>2. FleetTypes' /\ NothingRanYet'
        BY <1>1, <2>1 DEF FleetTypes, NothingRanYet, Constructed, ServerInit
    <2>3. BudgetKept' /\ EchoesKept' /\ ReportsEnd'
        BY <2>1 DEF BudgetKept, EchoesKept, ReportsEnd, Clients, Datagrams, PacketLimit
    <2>4. LogIsOld' /\ LastToStop'
        BY <2>1 DEF LogIsOld, Figured, CountersFit, LastToStop, Clients, Counters
    <2> QED
        BY <2>2, <2>3, <2>4
<1>2. CASE UNCHANGED vars
    BY <1>1, <1>2 DEF vars, FleetTypes
<1>3. CASE Simulate
    <2>1. simulating /\ UNCHANGED <<simulating, helperVars>>
        BY <1>3 DEF Simulate
    <2>2. NothingRanYet'
        BY <2>1 DEF NothingRanYet
    <2>3. CASE ServerStep
        BY <1>1, <2>1, <2>3
           DEF ServerStep, ServerStartApplication, ServerStopApplication
    <2>4. ASSUME NEW c \in Clients, ClientStep(c) PROVE FleetInv'
        BY <2>1, <2>2, <2>4, ClientStepKeeps, ClientStepReports
    <2> QED
        BY <1>3, <2>3, <2>4 DEF Simulate
<1> QED
    BY <1>2, <1>3, BeforeTheRun DEF Next

----------------------------------------------------------------------------
(* How far the counters go.                                                *)

\* A packet is taken for lost twice at most, and only clients that have been
\* installed send anything.
FitInv ==
    \A c \in Slots : /\ packetLost[c] <= 2 * packetSent[c]
                     /\ c \in Clients \/ Datagrams(c) = 0

\* Twice the greatest budget fits in a uint32_t, and so do the two losses of a
\* single packet.
BudgetsFit == WordMod > 2 /\ \A n \in Budgets : 2 * n < WordMod

LEMMA ConstructedFits == FleetTypes /\ Constructed => FitInv
BY DEF FleetTypes, Constructed, FitInv, Datagrams

LEMMA ClientStepFits ==
    ASSUME FleetInv, FitInv, NEW c \in Clients, ClientStep(c),
           UNCHANGED <<simulating, helperVars>>
    PROVE  FitInv'
<1>1. /\ FleetTypes /\ FleetTypes' /\ CountersGrow /\ c \in Slots
      /\ Clients' = Clients
      /\ packetLost \in [Slots -> Nat] /\ packetLost' \in [Slots -> Nat]
      /\ packetSent \in [Slots -> Nat] /\ packetSent' \in [Slots -> Nat]
    BY ClientStepKeeps, ClientsAreSlots DEF FleetInv, FleetTypes, helperVars, Clients
<1>2. ASSUME NEW d \in Slots PROVE d \in Clients \/ Datagrams(d)' = 0
    <2>1. CASE d \in Clients
        BY <2>1
    <2>2. CASE d \notin Clients
        <3>1. Datagrams(d) = 0 /\ d # c
            BY <2>2 DEF FitInv
        <3>2. packetSent'[d] = packetSent[d] /\ packetRetrans'[d] = packetRetrans[d]
            BY <1>1, <3>1
               DEF FleetTypes, ClientStep, StartClient, StopClient, PpsLog, Timeout,
                   Echo, Receive, SendFresh, SendRetransmission, Add, counterVars
        <3> QED
            BY <3>1, <3>2 DEF Datagrams
    <2> QED
        BY <2>1, <2>2
<1>3. ASSUME NEW d \in Slots PROVE packetLost'[d] <= 2 * packetSent'[d]
    <2>1. packetLost[d] <= 2 * packetSent[d] /\ packetSent[d] <= packetSent'[d]
        BY <1>1 DEF FitInv, CountersGrow
    <2>2. CASE packetLost'[d] = packetLost[d]
        BY <1>1, <2>1, <2>2
    <2>3. CASE d = c /\ Timeout(c)
        BY <1>1, <2>1, <2>3 DEF Timeout, Losses, Add
    <2>4. CASE d = c /\ Receive(c)
        <3>1. CASE UNCHANGED packetLost
            BY <2>2, <3>1
        <3>2. CASE \E n \in Losses(c) : packetLost' = [packetLost EXCEPT ![c] = n]
            <4>1. PICK n \in Losses(c) : packetLost' = [packetLost EXCEPT ![c] = n]
                BY <3>2
            <4>2. n <= 2 * packetSent[c] /\ packetLost'[d] = n
                BY <1>1, <2>4, <4>1 DEF Losses
            <4> QED
                BY <1>1, <2>1, <2>4, <4>2
        <3> QED
            BY <2>4, <3>1, <3>2 DEF Receive
    <2>5. packetLost'[d] = packetLost[d] \/ (d = c /\ (Timeout(c) \/ Receive(c)))
        BY <1>1
           DEF ClientStep, StartClient, StopClient, PpsLog, Timeout, Echo, Receive,
               SendFresh, SendRetransmission, Transmit, Add, counterVars
    <2> QED
        BY <2>2, <2>3, <2>4, <2>5
<1> QED
    BY <1>1, <1>2, <1>3 DEF FitInv

LEMMA StepKeepsFit ==
    ASSUME FleetInv, FleetInv', FitInv, [Next]_vars
    PROVE  FitInv'
<1>1. ASSUME UNCHANGED <<packetSent, packetLost, packetRetrans, clients>> PROVE FitInv'
    BY <1>1 DEF FitInv, Clients, Datagrams
<1>2. CASE UNCHANGED vars
    BY <1>1, <1>2 DEF vars, helperVars, runVars, counterVars
<1>3. CASE SetAttribute \/ InstallClients \/ InstallServer \/ Run
    <2>1. Constructed /\ UNCHANGED runVars
        BY <1>3
           DEF FleetInv, NothingRanYet, SetAttribute, InstallClients, InstallServer, Run
    <2>2. packetSent' = [c \in Slots |-> 0] /\ packetLost' = [c \in Slots |-> 0]
          /\ packetRetrans' = [c \in Slots |-> 0]
        BY <2>1 DEF Constructed, runVars, counterVars
    <2> QED
        BY <2>2 DEF FitInv, Datagrams
<1>4. CASE Simulate
    <2>1. UNCHANGED <<simulating, helperVars>>
        BY <1>4 DEF Simulate
    <2>2. CASE ServerStep
        BY <1>1, <2>1, <2>2 DEF ServerStep, helperVars, runVars, counterVars
    <2> QED
        BY <1>4, <2>1, <2>2, ClientStepFits DEF Simulate
<1> QED
    BY <1>2, <1>3, <1>4 DEF Next

\* What the budgets allow fits in a uint32_t if they do.
LEMMA BudgetsBound ==
    ASSUME FleetInv, FitInv, BudgetsFit
    PROVE  CountersFit
<1> SUFFICES ASSUME NEW c \in Slots
             PROVE  {packetSent[c], packetLost[c], packetRetrans[c]} \subseteq 0 .. WordMod - 1
    BY DEF CountersFit
<1>1. packetSent[c] \in Nat /\ packetLost[c] \in Nat /\ packetRetrans[c] \in Nat
    BY DEF FleetInv, FleetTypes
<1>2. 2 * Datagrams(c) < WordMod
    <2>1. CASE c \in Clients
        <3>1. clients[c] \in Client
            BY <2>1 DEF FleetInv, FleetTypes, Clients
        <3>2. PacketLimit(c) \in Budgets /\ PacketLimit(c) \in Nat
            BY <3>1, BudgetsAreNumbers DEF Client, Factory, PacketLimit
        <3>3. Datagrams(c) \in Nat
            BY <1>1 DEF Datagrams
        <3>4. Datagrams(c) <= PacketLimit(c) \/ Datagrams(c) = 1
            BY <2>1 DEF FleetInv, BudgetKept
        <3> QED
            BY <3>2, <3>3, <3>4 DEF BudgetsFit
    <2>2. CASE c \notin Clients
        BY <2>2 DEF FitInv
    <2> QED
        BY <2>1, <2>2
<1>3. packetLost[c] <= 2 * packetSent[c]
    BY DEF FitInv
<1> QED
    BY <1>1, <1>2, <1>3 DEF Datagrams

----------------------------------------------------------------------------
(* The theorems.                                                           *)

\* The counters of the clients, the datagrams under way, the reports pending
\* and the log keep in step, before the run and in it.
THEOREM FleetInvariant == Spec => []FleetInv
BY InitKeepsFleet, StepKeepsFleet, PTL DEF Spec

\* If twice every budget fits in a uint32_t, the counters always do: PpsLog
\* never subtracts a counter that has wrapped.
THEOREM CountersStayFit ==
    ASSUME BudgetsFit
    PROVE  Spec => []CountersFit
<1>1. Init => FitInv
    BY InitKeepsFleet, ConstructedFits DEF Init, FleetInv
<1>2. FleetInv /\ FleetInv' /\ FitInv /\ [Next]_vars => FitInv'
    BY StepKeepsFit
<1>3. FleetInv /\ FitInv => CountersFit
    BY BudgetsBound
<1> QED
    BY <1>1, <1>2, <1>3, FleetInvariant, PTL DEF Spec

\* Every variable of the fleet keeps its type and no client exceeds its budget,
\* but for the datagram Send sends before it looks at it, as long as the
\* counters fit in the uint32_t they are kept in.
THEOREM FleetTypesHold == Spec => [](CountersFit => TypeOK)
<1>1. FleetInv => (CountersFit => TypeOK)
    <2> SUFFICES ASSUME FleetInv, CountersFit PROVE TypeOK
        OBVIOUS
    <2>1. FleetTypes /\ BudgetKept /\ Figured(old) /\ Figured(logged)
        BY DEF FleetInv, LogIsOld, Figured
    <2> QED
        BY <2>1 DEF TypeOK, FleetTypes, BudgetKept, Figured
<1> QED
    BY <1>1, FleetInvariant, PTL

\* HandleRead of the server answers the client a datagram came from: no client
\* ever has more datagrams and echoes under way than it has sent, whatever the
\* other clients send.
THEOREM EchoesReturn == Spec => []EchoesToSender
<1>1. FleetInv => EchoesToSender
    BY ClientsAreSlots DEF FleetInv, EchoesKept, EchoesToSender
<1> QED
    BY <1>1, FleetInvariant, PTL

\* The lines PpsLog writes add up to the counters of the client that stopped
\* last, though the counters it compares with are shared by all clients, as long
\* as they fit in a uint32_t.
THEOREM LogIsOfTheLast == Spec => [](CountersFit => LogAddsUp)
<1>1. FleetInv => (CountersFit => LogAddsUp)
    BY DEF FleetInv, LogIsOld, LastToStop, LogAddsUp
<1> QED
    BY <1>1, FleetInvariant, PTL

\* With budgets that fit, what the two theorems above say holds for ever.
THEOREM FleetLogs ==
    ASSUME BudgetsFit
    PROVE  Spec => [](TypeOK /\ LogAddsUp)
BY CountersStayFit, FleetTypesHold, LogIsOfTheLast, PTL
===============================================================================
