----------------------------- MODULE MyApp_proofs -----------------------------
(***************************************************************************)
(* What holds of MyApp for any number of applications, packets and buffer  *)
(* sizes.                                                                  *)
(***************************************************************************)
EXTENDS MyApp, TLAPS

USE AppAssumption

\* An application runs exactly while its socket is connected.
RunsWhenConnected ==
    \A a \in Apps : m_running[a] <=> m_socket[a] = "connected"

ChainInv == TypeOK /\ OneSendChain /\ RunsWhenConnected

\* ++m_packetsSent stays a uint32_t.
LEMMA CountedRange == \A n \in Nat : Counted(n) \in 0 .. WordMod - 1
BY DEF Counted

\* What the socket does to a packet handed to it.
LEMMA SocketSendTypes ==
    ASSUME TypeOK, NEW a \in Apps, SocketSend(a)
    PROVE  /\ buffered' \in [Apps -> 0 .. BufferSize]
           /\ offered' \in [Apps -> Nat]
           /\ accepted' \in [Apps -> Nat]
           /\ \A b \in Apps : offered'[b] # offered[b] => b = a
<1>1. /\ buffered \in [Apps -> 0 .. BufferSize]
      /\ offered \in [Apps -> Nat] /\ accepted \in [Apps -> Nat]
    BY DEF TypeOK
<1>2. CASE buffered[a] < BufferSize
    BY <1>1, <1>2 DEF SocketSend
<1>3. CASE ~(buffered[a] < BufferSize)
    BY <1>1, <1>3 DEF SocketSend
<1> QED
    BY <1>2, <1>3

\* SendPacket of a running application with no other SendPacket pending.
LEMMA SendKeepsChain ==
    ASSUME ChainInv, NEW a \in Apps, NEW count \in 0 .. WordMod - 1,
           SocketSend(a),
           m_packetsSent' = [m_packetsSent EXCEPT ![a] = count],
           sendEvents' = [sendEvents EXCEPT ![a] =
                              IF count < NPackets[a] THEN 1 ELSE 0],
           m_running' = [m_running EXCEPT ![a] = TRUE],
           m_socket' = [m_socket EXCEPT ![a] = "connected"]
    PROVE  /\ ChainInv'
           /\ \A b \in Apps : offered'[b] # offered[b] => m_socket'[b] = "connected"
<1>1. TypeOK'
    BY SocketSendTypes DEF ChainInv, TypeOK
<1>2. OneSendChain'
    BY DEF ChainInv, TypeOK, OneSendChain
<1>3. RunsWhenConnected'
    BY DEF ChainInv, TypeOK, RunsWhenConnected
<1>4. \A b \in Apps : offered'[b] # offered[b] => m_socket'[b] = "connected"
    BY SocketSendTypes DEF ChainInv, TypeOK
<1> QED
    BY <1>1, <1>2, <1>3, <1>4 DEF ChainInv

LEMMA InitChain == Init => ChainInv
BY DEF Init, ChainInv, TypeOK, OneSendChain, RunsWhenConnected

LEMMA StepKeepsChain ==
    ASSUME ChainInv, [Next]_vars
    PROVE  /\ ChainInv'
           /\ \A b \in Apps : offered'[b] # offered[b] => m_socket'[b] = "connected"
<1>1. ASSUME NEW a \in Apps, StartApplication(a)
      PROVE  /\ ChainInv'
             /\ \A b \in Apps : offered'[b] # offered[b] => m_socket'[b] = "connected"
    <2>1. sendEvents[a] = 0
        BY <1>1 DEF StartApplication, ChainInv, OneSendChain, RunsWhenConnected
    <2>2. /\ SocketSend(a)
          /\ m_packetsSent' = [m_packetsSent EXCEPT ![a] = Counted(0)]
          /\ sendEvents' = [sendEvents EXCEPT ![a] =
                                IF Counted(0) < NPackets[a] THEN 1 ELSE 0]
        BY <1>1, <2>1 DEF StartApplication, SendPacket, MoreToSend
    <2>3. Counted(0) \in 0 .. WordMod - 1
        BY CountedRange
    <2> QED
        BY <1>1, <2>2, <2>3, SendKeepsChain DEF StartApplication
<1>2. ASSUME NEW a \in Apps, RunSendPacket(a)
      PROVE  /\ ChainInv'
             /\ \A b \in Apps : offered'[b] # offered[b] => m_socket'[b] = "connected"
    <2>1. /\ sendEvents[a] = 1 /\ m_running[a] = TRUE
          /\ m_socket[a] = "connected" /\ m_packetsSent[a] \in Nat
        BY <1>2 DEF RunSendPacket, ChainInv, TypeOK, OneSendChain, RunsWhenConnected
    <2> DEFINE count == Counted(m_packetsSent[a])
    <2>2. /\ SocketSend(a)
          /\ m_packetsSent' = [m_packetsSent EXCEPT ![a] = count]
          /\ sendEvents' = [sendEvents EXCEPT ![a] =
                                IF count < NPackets[a] THEN 1 ELSE 0]
        <3>1. /\ SocketSend(a)
              /\ m_packetsSent' = [m_packetsSent EXCEPT ![a] = count]
              /\ sendEvents' = [sendEvents EXCEPT ![a] = sendEvents[a] - 1 +
                     (IF count < NPackets[a] /\ m_running[a] THEN 1 ELSE 0)]
            BY <1>2, Zenon DEF RunSendPacket, SendPacket, MoreToSend
        <3> HIDE DEF count
        <3>2. sendEvents[a] - 1 + (IF count < NPackets[a] /\ m_running[a] THEN 1 ELSE 0)
                  = IF count < NPackets[a] THEN 1 ELSE 0
            BY <2>1
        <3> QED
            BY <3>1, <3>2, Zenon
    <2>3. /\ m_running' = [m_running EXCEPT ![a] = TRUE]
          /\ m_socket' = [m_socket EXCEPT ![a] = "connected"]
        BY <1>2, <2>1 DEF RunSendPacket, ChainInv, TypeOK
    <2>4. count \in 0 .. WordMod - 1
        BY <2>1, CountedRange
    <2> HIDE DEF count
    <2> QED
        BY <2>2, <2>3, <2>4, SendKeepsChain
<1>3. ASSUME NEW a \in Apps, StopApplication(a)
      PROVE  ChainInv' /\ UNCHANGED offered
    <2>1. Cancelled(a) = 0
        BY <1>3 DEF StopApplication, Cancelled, ChainInv, TypeOK
    <2> QED
        BY <1>3, <2>1
           DEF StopApplication, ChainInv, TypeOK, OneSendChain, RunsWhenConnected
<1>4. ASSUME NEW a \in Apps, Transfer(a)
      PROVE  ChainInv' /\ UNCHANGED offered
    BY <1>4 DEF Transfer, appVars, ChainInv, TypeOK, OneSendChain, RunsWhenConnected
<1>5. CASE UNCHANGED vars
    BY <1>5 DEF vars, appVars, ChainInv, TypeOK, OneSendChain, RunsWhenConnected
<1> QED
    BY <1>1, <1>2, <1>3, <1>4, <1>5 DEF Next

\* Every reachable state satisfies ChainInv.
THEOREM ChainInvariant == Spec => []ChainInv
BY InitChain, StepKeepsChain, PTL DEF Spec

\* Every variable of the applications and their sockets keeps its type: the
\* counter of packets stays a uint32_t whatever NPackets is, and no count of
\* pending SendPacket events becomes negative.
THEOREM TypesHold == Spec => []TypeOK
<1>1. ChainInv => TypeOK
    BY DEF ChainInv
<1> QED
    BY <1>1, ChainInvariant, PTL

\* For any number of applications and packets, the largest uint32_t included,
\* each application has one chain of SendPacket events while packets are left,
\* and none before its start and after its stop.
THEOREM OneChainEach == Spec => []OneSendChain
<1>1. ChainInv => OneSendChain
    BY DEF ChainInv
<1> QED
    BY <1>1, ChainInvariant, PTL

\* No application hands a packet to a socket that is not connected.
THEOREM SendsToConnected == Spec => SendsOnlyWhenConnected
<1>1. ChainInv /\ [Next]_vars =>
        [\A a \in Apps : offered'[a] # offered[a] => m_socket'[a] = "connected"]_vars
    BY StepKeepsChain
<1> QED
    BY <1>1, ChainInvariant, PTL DEF Spec, SendsOnlyWhenConnected

----------------------------------------------------------------------------
(* How many packets an application hands to its socket.                    *)

\* m_packetsSent counts them, unless none is asked for: then one is sent.
OfferInv ==
    \A a \in Apps :
        /\ m_socket[a] = "created" => offered[a] = 0
        /\ m_socket[a] # "created" /\ NPackets[a] > 0 =>
               offered[a] = m_packetsSent[a] /\ m_packetsSent[a] \in 1 .. NPackets[a]
        /\ m_socket[a] # "created" /\ NPackets[a] = 0 => offered[a] = 1

LEMMA InitOffer == Init => OfferInv
BY DEF Init, OfferInv

\* Below the number asked for, ++m_packetsSent does not wrap.
LEMMA CountedNext ==
    ASSUME NEW a \in Apps, NEW n \in Nat, n < NPackets[a]
    PROVE  Counted(n) = n + 1
<1>1. n + 1 \in 0 .. WordMod - 1
    OBVIOUS
<1> QED
    BY <1>1 DEF Counted

LEMMA StepKeepsOffer ==
    ASSUME ChainInv, OfferInv, [Next]_vars
    PROVE  OfferInv'
<1>1. ASSUME NEW a \in Apps, StartApplication(a) PROVE OfferInv'
    <2>1. /\ offered' = [offered EXCEPT ![a] = @ + 1]
          /\ m_packetsSent' = [m_packetsSent EXCEPT ![a] = Counted(0)]
          /\ m_socket' = [m_socket EXCEPT ![a] = "connected"]
          /\ offered[a] = 0
        BY <1>1, Zenon DEF StartApplication, SendPacket, SocketSend, OfferInv
    <2>2. NPackets[a] > 0 => Counted(0) = 1
        BY CountedNext
    <2> QED
        BY <2>1, <2>2 DEF OfferInv, ChainInv, TypeOK
<1>2. ASSUME NEW a \in Apps, RunSendPacket(a) PROVE OfferInv'
    <2>1. /\ offered' = [offered EXCEPT ![a] = @ + 1]
          /\ m_packetsSent' = [m_packetsSent EXCEPT ![a] = Counted(m_packetsSent[a])]
          /\ UNCHANGED m_socket
        BY <1>2, Zenon DEF RunSendPacket, SendPacket, SocketSend
    <2>2. /\ m_packetsSent[a] \in Nat /\ m_packetsSent[a] < NPackets[a]
          /\ m_socket[a] # "created"
        BY <1>2 DEF RunSendPacket, ChainInv, TypeOK, OneSendChain, RunsWhenConnected
    <2>3. Counted(m_packetsSent[a]) = m_packetsSent[a] + 1
        BY <2>2, CountedNext
    <2> QED
        BY <2>1, <2>2, <2>3 DEF OfferInv, ChainInv, TypeOK
<1>3. ASSUME NEW a \in Apps, StopApplication(a) PROVE OfferInv'
    BY <1>3 DEF StopApplication, OfferInv, ChainInv, TypeOK
<1>4. ASSUME NEW a \in Apps, Transfer(a) PROVE OfferInv'
    BY <1>4 DEF Transfer, appVars, OfferInv
<1>5. CASE UNCHANGED vars
    BY <1>5 DEF vars, appVars, OfferInv
<1> QED
    BY <1>1, <1>2, <1>3, <1>4, <1>5 DEF Next

\* However many packets an application is asked to send, SendPacket and
\* ScheduleTx hand its socket exactly as many, or one if none is asked for: no
\* more at any time, and no fewer once a running application has no SendPacket
\* event left.
THEOREM OffersWhatIsAsked == Spec => []OffersAsAsked
<1>1. ASSUME ChainInv, OfferInv, NEW a \in Apps
      PROVE  /\ offered[a] <= Asked(a)
             /\ m_running[a] /\ sendEvents[a] = 0 => offered[a] = Asked(a)
    <2>1. /\ m_socket[a] \in {"created", "connected", "closed"}
          /\ m_packetsSent[a] \in Nat
          /\ m_running[a] => m_socket[a] # "created"
        BY <1>1 DEF ChainInv, TypeOK, RunsWhenConnected
    <2>2. m_running[a] /\ sendEvents[a] = 0 => ~(m_packetsSent[a] < NPackets[a])
        BY <1>1 DEF ChainInv, OneSendChain
    <2> QED
        BY <1>1, <2>1, <2>2 DEF OfferInv, Asked
<1>2. ChainInv /\ OfferInv => OffersAsAsked
    BY <1>1 DEF OffersAsAsked
<1>3. ChainInv /\ OfferInv /\ [Next]_vars => OfferInv'
    BY StepKeepsOffer
<1> QED
    BY <1>2, <1>3, ChainInvariant, InitOffer, PTL DEF Spec
===============================================================================
