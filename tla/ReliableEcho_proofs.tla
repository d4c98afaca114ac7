-------------------------- MODULE ReliableEcho_proofs --------------------------
(***************************************************************************)
(* What holds of the scenario of assn3.cc for every window, timer length,  *)
(* budget, number of sequence numbers and capacity of the links.  Its      *)
(* lines are one of the networks of ClientOverUdp, so all that is proved   *)
(* about the client there holds here; and they keep the order, which is    *)
(* what the gap rule of HandleRead and the success count of the            *)
(* retransmissions rely on.  Its client is the one EchoFleet reduces to    *)
(* counters, step by step.                                                 *)
(***************************************************************************)
EXTENDS ReliableEcho, NumberLemmas

USE ConstantsAssumption, LinkAssumption

\* The datagrams and echoes under way, as ClientOverUdp counts them.
Flight == [s \in Seqs |-> UnderWay(s)]

Client == INSTANCE ClientOverUdp_proofs WITH flight <- Flight

\* The part of the type invariant about the server and the links.
LinkTypes ==
    /\ m_sockets \in {"none", "open", "closed"}
    /\ uplink \in Seq(Seqs) /\ Len(uplink) <= LinkCapacity
    /\ downlink \in Seq(Seqs) /\ Len(downlink) <= LinkCapacity

\* What the client is known to keep true, and the types of the rest.
ScenarioInv == Client!WindowInv /\ LinkTypes

----------------------------------------------------------------------------
(* The handlers of the instance are those of the scenario.                 *)

LEMMA SameAscending ==
    \A S : Client!Cardinality(S) = Cardinality(S)
               /\ Client!Ascending(S) = Ascending(S)
BY Zenon DEF Client!Cardinality, Cardinality, Client!IsFiniteSet, IsFiniteSet,
             Client!Ascending, Ascending

LEMMA SameSends ==
    /\ Client!SendFresh <=> SendFresh
    /\ Client!SendRetransmission <=> SendRetransmission
    /\ Client!SendSkips <=> SendSkips
    /\ Client!SendWaits <=> SendWaits
<1> USE DEF Client!SendIsDue, SendIsDue, Client!OlderTimers, OlderTimers,
            Client!U16, U16, Client!U32, U32, Client!logVars, logVars,
            Client!statVars, statVars, Client!rangeVars, rangeVars,
            Client!windowVars, windowVars,
            Client!WindowIsFull, WindowIsFull, Client!AdvanceRange, AdvanceRange,
            Client!FreshHeader, FreshHeader, Client!RetransHeader, RetransHeader,
            Client!NotRetransmitted, NotRetransmitted
<1>1. Client!SendFresh <=> SendFresh
    BY DEF Client!SendFresh, SendFresh, Client!Transmit, Transmit,
           Client!BudgetAllows, BudgetAllows
<1>2. Client!SendRetransmission <=> SendRetransmission
    BY DEF Client!SendRetransmission, SendRetransmission, Client!Transmit, Transmit,
           Client!BudgetAllows, BudgetAllows
<1>3. Client!SendSkips <=> SendSkips
    BY DEF Client!SendSkips, SendSkips
<1>4. Client!SendWaits <=> SendWaits
    BY DEF Client!SendWaits, SendWaits
<1> QED
    BY <1>1, <1>2, <1>3, <1>4

LEMMA SameReads ==
    /\ \A s : Client!HandleRead(s) <=> HandleRead(s)
    /\ \A s : Client!HandleReadSpins(s) <=> HandleReadSpins(s)
    /\ \A e : Client!HandleTimeout(e) <=> HandleTimeout(e)
<1>1. \A S : Client!CancelTimers(S) <=> CancelTimers(S)
    BY Zenon DEF Client!CancelTimers, CancelTimers, Client!NoEvent, NoEvent,
                 Client!Seqs, Seqs
<1>2. \A t : Client!Enqueue(t) <=> Enqueue(t)
    BY Zenon DEF Client!Enqueue, Enqueue, Client!RangesOf, RangesOf,
                 Client!U16, U16, Client!rangeVars, rangeVars
<1>3. \A R : Client!SlidTo(R) = SlidTo(R)
    BY Zenon DEF Client!SlidTo, SlidTo, Client!U16, U16
<1>4. \A s : Client!LostBefore(s) = LostBefore(s)
    BY Zenon DEF Client!LostBefore, LostBefore
<1> USE DEF Client!SlideEnds, SlideEnds, Client!Seqs, Seqs,
            Client!logVars, logVars
<1>5. \A s : Client!HandleRead(s) <=> HandleRead(s)
    BY <1>1, <1>2, <1>3, <1>4, SameAscending, Zenon
       DEF Client!HandleRead, HandleRead, Client!ExpectAfter, ExpectAfter,
           Client!Listening, Listening
<1> USE DEF Client!statVars, statVars, Client!rangeVars, rangeVars,
            Client!windowVars, windowVars, Client!timerVars, timerVars
<1>6. \A s : Client!HandleReadSpins(s) <=> HandleReadSpins(s)
    BY Zenon DEF Client!HandleReadSpins, HandleReadSpins,
                 Client!Listening, Listening
<1>7. \A e : Client!HandleTimeout(e) <=> HandleTimeout(e)
    BY <1>2, <1>3
       DEF Client!HandleTimeout, HandleTimeout, Client!Expired, Expired,
           Client!TimeoutOfFirst, TimeoutOfFirst, Client!NoEvent, NoEvent,
           Client!TimeoutOfRetransmission, TimeoutOfRetransmission,
           Client!TimeoutSpins, TimeoutSpins, Client!WithGivenUp, WithGivenUp
<1> QED
    BY <1>5, <1>6, <1>7

LEMMA SameControl ==
    /\ UNCHANGED Client!clientVars <=> UNCHANGED clientVars
    /\ Client!StartApplication <=> StartApplication
    /\ Client!StopApplication <=> StopApplication
    /\ Client!PpsLog <=> PpsLog
    /\ Client!ClientInit <=> ClientInit
    /\ Client!TypeOK <=> TypeOK
<1> USE DEF Client!logVars, logVars, Client!statVars, statVars,
            Client!rangeVars, rangeVars, Client!windowVars, windowVars,
            Client!timerVars, timerVars, Client!Counters, Counters,
            Client!NoEvent, NoEvent, Client!Seqs, Seqs
<1>1. UNCHANGED Client!clientVars <=> UNCHANGED clientVars
    BY DEF Client!clientVars, clientVars
<1>2. Client!StartApplication <=> StartApplication
    BY DEF Client!StartApplication, StartApplication
<1>3. Client!StopApplication <=> StopApplication
    BY DEF Client!StopApplication, StopApplication, Client!CancelTimers, CancelTimers,
           Client!LogEventsAfterStop, LogEventsAfterStop, Client!Cancelled, Cancelled
<1>4. Client!PpsLog <=> PpsLog
    BY DEF Client!PpsLog, PpsLog
<1>5. Client!ClientInit <=> ClientInit
    BY DEF Client!ClientInit, ClientInit
<1>6. Client!TypeOK <=> TypeOK
    BY DEF Client!TypeOK, TypeOK
<1> QED
    BY <1>1, <1>2, <1>3, <1>4, <1>5, <1>6

----------------------------------------------------------------------------
(* What the links do to the datagrams under way.                           *)

\* How often the two lines list s.
Carried(up, down, s) == Often(up, s) + Often(down, s)

LEMMA CarriedCounts ==
    ASSUME NEW up \in Seq(Seqs), NEW down \in Seq(Seqs), NEW s
    PROVE  /\ Often(up, s) \in Nat /\ Often(down, s) \in Nat
           /\ Carried(up, down, s) \in Nat
           /\ Cardinality({i \in DOMAIN up : up[i] = s})
                  + Cardinality({i \in DOMAIN down : down[i] = s})
                  = Carried(up, down, s)
<1>1. Often(up, s) \in Nat /\ Often(down, s) \in Nat
    BY OftenType
<1>2. /\ {i \in DOMAIN up : up[i] = s} = Times(up, s)
      /\ {i \in DOMAIN down : down[i] = s} = Times(down, s)
    BY DEF Times
<1>3. /\ Cardinality({i \in DOMAIN up : up[i] = s}) = Often(up, s)
      /\ Cardinality({i \in DOMAIN down : down[i] = s}) = Often(down, s)
    BY <1>2 DEF Often
<1> QED
    BY <1>1, <1>3 DEF Carried

LEMMA FlightCarries ==
    /\ LinkTypes => Flight = [s \in Seqs |-> Carried(uplink, downlink, s)]
    /\ LinkTypes' => Flight' = [s \in Seqs |-> Carried(uplink', downlink', s)]
BY CarriedCounts DEF LinkTypes, Flight, UnderWay

\* A line that takes one datagram keeps its type and lists it once more.
LEMMA JoinOne ==
    ASSUME NEW t \in Seq(Seqs), NEW h \in Seqs
    PROVE  /\ t \o <<h>> \in Seq(Seqs) /\ Len(t \o <<h>>) = Len(t) + 1
           /\ \A s : Often(t \o <<h>>, s) = Often(t, s) + (IF s = h THEN 1 ELSE 0)
<1>1. <<h>> \in Seq(Seqs)
    OBVIOUS
<1>2. t \o <<h>> \in Seq(Seqs) /\ Len(t \o <<h>>) = Len(t) + 1
    OBVIOUS
<1>3. \A s : Often(t \o <<h>>, s) = Often(t, s) + Often(<<h>>, s)
    BY <1>1, OftenJoined
<1> QED
    BY <1>2, <1>3, OftenOne

\* A datagram handed to the uplink, and an echo taken from the downlink.
LEMMA JoinIsLaunch ==
    ASSUME LinkTypes, NEW h \in Seqs, Join(uplink, <<h>>),
           UNCHANGED <<downlink, m_sockets>>
    PROVE  LinkTypes' /\ Client!Launch(h)
<1>1. CASE UNCHANGED uplink
    BY <1>1 DEF LinkTypes, Client!Launch, Flight, UnderWay
<1>2. CASE uplink' = uplink \o <<h>> /\ Len(uplink) + Len(<<h>>) <= LinkCapacity
    <2>1. LinkTypes'
        BY <1>2, JoinOne DEF LinkTypes
    <2>2. ASSUME NEW s \in Seqs
          PROVE  Carried(uplink', downlink', s) =
                     Carried(uplink, downlink, s) + (IF s = h THEN 1 ELSE 0)
        <3>1. Often(uplink', s) = Often(uplink, s) + (IF s = h THEN 1 ELSE 0)
            BY <1>2, JoinOne DEF LinkTypes
        <3>2. Often(uplink, s) \in Nat /\ Often(downlink, s) \in Nat
            BY CarriedCounts DEF LinkTypes
        <3> QED
            BY <3>1, <3>2 DEF Carried
    <2>3. \A s \in Seqs : Carried(uplink, downlink, s) \in Nat
        BY CarriedCounts DEF LinkTypes
    <2>4. Flight' = [Flight EXCEPT ![h] = @ + 1]
        BY <2>1, <2>2, <2>3, FlightCarries
    <2> QED
        BY <2>1, <2>4 DEF Client!Launch
<1> QED
    BY <1>1, <1>2 DEF Join

LEMMA TailIsLand ==
    ASSUME LinkTypes, downlink # <<>>, downlink' = Tail(downlink),
           UNCHANGED <<uplink, m_sockets>>
    PROVE  /\ LinkTypes' /\ Head(downlink) \in Seqs
           /\ Client!Land(Head(downlink))
<1> DEFINE h == Head(downlink)
<1>1. /\ h \in Seqs /\ Tail(downlink) \in Seq(Seqs)
      /\ Len(Tail(downlink)) <= Len(downlink)
      /\ \A s : Often(downlink, s) =
                    (IF s = h THEN 1 ELSE 0) + Often(Tail(downlink), s)
    BY OftenTail DEF LinkTypes
<1>2. LinkTypes'
    BY <1>1 DEF LinkTypes
<1> HIDE DEF h
<1>3. ASSUME NEW s \in Seqs
      PROVE  /\ Carried(uplink, downlink, s) =
                    Carried(uplink', downlink', s) + (IF s = h THEN 1 ELSE 0)
             /\ Carried(uplink', downlink', s) \in Nat
    <2>1. /\ Often(uplink', s) \in Nat /\ Often(downlink', s) \in Nat
          /\ Carried(uplink', downlink', s) \in Nat
        BY <1>2, CarriedCounts DEF LinkTypes
    <2>2. Often(downlink, s) = (IF s = h THEN 1 ELSE 0) + Often(downlink', s)
        BY <1>1
    <2> QED
        BY <2>1, <2>2 DEF Carried
<1>4. Flight' = [Flight EXCEPT ![h] = @ - 1] /\ Flight[h] > 0
    BY <1>1, <1>2, <1>3, FlightCarries
<1> QED
    BY <1>1, <1>2, <1>4 DEF Client!Land, h

\* What the server does to a datagram: it is still under way, or lost.
LEMMA EchoKeepsFlight ==
    ASSUME LinkTypes, Echo
    PROVE  /\ LinkTypes'
           /\ \/ Flight' = Flight
              \/ \E s \in Seqs : Client!Lose(s)
<1> DEFINE h == Head(uplink)
<1>1. /\ h \in Seqs /\ Tail(uplink) \in Seq(Seqs)
      /\ Len(Tail(uplink)) <= Len(uplink)
      /\ \A s : Often(uplink, s) =
                    (IF s = h THEN 1 ELSE 0) + Often(Tail(uplink), s)
    BY OftenTail DEF LinkTypes, Echo
<1>2. \A s : Often(Tail(uplink), s) \in Nat /\ Often(downlink, s) \in Nat
    BY <1>1, OftenType DEF LinkTypes
<1>3. CASE downlink' = downlink \o <<h>> /\ Len(downlink) + Len(<<h>>) <= LinkCapacity
    <2>1. LinkTypes'
        BY <1>1, <1>3, JoinOne DEF LinkTypes, Echo
    <2>2. ASSUME NEW s \in Seqs
          PROVE  Carried(uplink', downlink', s) = Carried(uplink, downlink, s)
        <3>1. Often(downlink', s) = Often(downlink, s) + (IF s = h THEN 1 ELSE 0)
            BY <1>1, <1>3, JoinOne DEF LinkTypes
        <3> HIDE DEF h
        <3>2. Often(uplink, s) = (IF s = h THEN 1 ELSE 0) + Often(uplink', s)
            BY <1>1 DEF Echo
        <3> QED
            BY <1>2, <3>1, <3>2 DEF Carried, Echo
    <2> QED
        BY <2>1, <2>2, FlightCarries
<1>4. CASE downlink' = downlink
    <2>1. LinkTypes'
        BY <1>1, <1>4 DEF LinkTypes, Echo
    <2> HIDE DEF h
    <2>2. ASSUME NEW s \in Seqs
          PROVE  /\ Carried(uplink, downlink, s) =
                        Carried(uplink', downlink', s) + (IF s = h THEN 1 ELSE 0)
                 /\ Carried(uplink', downlink', s) \in Nat
        <3>1. /\ Often(uplink', s) \in Nat /\ Often(downlink', s) \in Nat
              /\ Carried(uplink', downlink', s) \in Nat
            BY <2>1, CarriedCounts DEF LinkTypes
        <3>2. Often(uplink, s) = (IF s = h THEN 1 ELSE 0) + Often(uplink', s)
            BY <1>1 DEF Echo
        <3> QED
            BY <1>4, <3>1, <3>2 DEF Carried
    <2>3. Flight' = [Flight EXCEPT ![h] = @ - 1] /\ Flight[h] > 0
        BY <1>1, <2>1, <2>2, FlightCarries
    <2>4. Client!Lose(h)
        BY <2>3, SameControl DEF Client!Lose, Client!Land, Echo
    <2> QED
        BY <1>1, <2>1, <2>4
<1>5. ServerHandleRead(h) \in {<<h>>, <<>>}
    BY DEF ServerHandleRead
<1>6. downlink \o <<>> = downlink
    BY DEF LinkTypes
<1> QED
    BY <1>3, <1>4, <1>5, <1>6 DEF Echo, Join

----------------------------------------------------------------------------
(* The scenario is a network for the client.                               *)

LEMMA ScenarioFacts ==
    ASSUME ScenarioInv
    PROVE  TypeOK /\ TypeInvariant /\ FreshHeader \in Seqs /\ RetransHeader \in Seqs
<1>1. TypeOK
    BY SameControl DEF ScenarioInv, Client!WindowInv, Client!TypeInvariant
<1>2. \A x \in Int : U16(x) \in Seqs
    BY ModRange DEF U16, Seqs
<1>3. m_seqNum \in Int /\ m_retransSeq \in Int
    BY <1>1 DEF TypeOK
<1>4. TypeInvariant
    BY <1>1 DEF ScenarioInv, LinkTypes, TypeInvariant, links
<1> QED
    BY <1>1, <1>2, <1>3, <1>4 DEF FreshHeader, RetransHeader

LEMMA InitIsClientInit == Init => Client!Init /\ ScenarioInv
<1> SUFFICES ASSUME Init PROVE Client!Init /\ ScenarioInv
    OBVIOUS
<1>1. LinkTypes
    BY DEF Init, ServerInit, LinkTypes
<1>2. Client!Init
    <2>1. \A s : Often(<<>>, s) = 0
        BY FS_EmptySet DEF Often, Times
    <2>2. Flight = [s \in Seqs |-> 0]
        BY <1>1, <2>1, FlightCarries DEF Init, Carried
    <2> QED
        BY <2>2, SameControl DEF Init, Client!Init, Client!Seqs, Seqs
<1> QED
    BY <1>1, <1>2, Client!InitWindowInv DEF ScenarioInv

LEMMA SendIsClientSend ==
    ASSUME ScenarioInv, Send
    PROVE  LinkTypes' /\ Client!Send
<1>1. LinkTypes /\ UNCHANGED <<downlink, m_sockets>>
    BY DEF ScenarioInv, Send
<1>2. CASE SendFresh /\ Join(uplink, <<FreshHeader>>)
    BY <1>1, <1>2, ScenarioFacts, JoinIsLaunch, SameSends
       DEF Client!Send, Client!FreshHeader, FreshHeader, Client!U16, U16
<1>3. CASE SendRetransmission /\ Join(uplink, <<RetransHeader>>)
    BY <1>1, <1>3, ScenarioFacts, JoinIsLaunch, SameSends
       DEF Client!Send, Client!RetransHeader, RetransHeader, Client!U16, U16
<1>4. CASE (SendWaits \/ SendSkips) /\ UNCHANGED uplink
    <2>1. LinkTypes' /\ Flight' = Flight
        BY <1>1, <1>4 DEF LinkTypes, Flight, UnderWay
    <2> QED
        BY <1>4, <2>1, SameSends DEF Client!Send
<1> QED
    BY <1>2, <1>3, <1>4 DEF Send

LEMMA ReceiveIsClientReceive ==
    ASSUME ScenarioInv, Receive
    PROVE  LinkTypes' /\ \E s \in Seqs : Client!Receive(s) \/ Client!Lose(s)
<1> DEFINE h == Head(downlink)
<1>1. LinkTypes' /\ h \in Seqs /\ Client!Land(h)
    BY TailIsLand DEF ScenarioInv, Receive
<1>2. \/ Client!HandleRead(h)
      \/ Client!HandleReadSpins(h)
      \/ ~spinning /\ UNCHANGED Client!clientVars
    BY SameReads, SameControl DEF Receive
<1> QED
    BY <1>1, <1>2 DEF Client!Receive, Client!Lose

\* Every step of the scenario is a step of the client over the network, or
\* leaves both alone.
LEMMA StepIsClientStep ==
    ASSUME ScenarioInv, [Next]_vars
    PROVE  LinkTypes' /\ [Client!Next]_Client!vars
<1> USE DEF ScenarioInv
<1>1. ASSUME UNCHANGED links
      PROVE  Flight' = Flight /\ (UNCHANGED m_sockets => LinkTypes')
    BY <1>1 DEF links, LinkTypes, Flight, UnderWay
<1>2. CASE StartServer \/ StopServer
    BY <1>1, <1>2, SameControl
       DEF StartServer, StopServer, ServerStartApplication, ServerStopApplication,
           LinkTypes, links, Client!vars
<1>3. CASE StartClient
    BY <1>1, <1>3, SameControl DEF StartClient, Client!Start, Client!Next
<1>4. CASE StopClient
    BY <1>1, <1>4, SameControl DEF StopClient, Client!Stop, Client!Next
<1>5. CASE Log
    BY <1>1, <1>5, SameControl DEF Log, Client!Log, Client!Next
<1>6. CASE Send
    BY <1>6, SendIsClientSend DEF Client!Next
<1>7. CASE Timeout
    BY <1>1, <1>7, SameReads DEF Timeout, Client!Timeout, Client!Next
<1>8. CASE Echo
    <2>1. \/ Flight' = Flight /\ UNCHANGED Client!clientVars
          \/ \E s \in Seqs : Client!Lose(s)
        BY <1>8, EchoKeepsFlight, SameControl DEF Echo
    <2> QED
        BY <1>8, <2>1, EchoKeepsFlight
           DEF Client!Next, Client!vars, Client!Seqs, Seqs
<1>9. CASE Receive
    BY <1>9, ReceiveIsClientReceive DEF Client!Next, Client!Seqs, Seqs
<1>10. CASE UNCHANGED vars
    BY <1>1, <1>10, SameControl DEF vars, links, Client!vars
<1> QED
    BY <1>2, <1>3, <1>4, <1>5, <1>6, <1>7, <1>8, <1>9, <1>10 DEF Next

LEMMA StepKeepsScenario ==
    ASSUME ScenarioInv, [Next]_vars
    PROVE  ScenarioInv'
BY StepIsClientStep, Client!StepKeepsWindow DEF ScenarioInv

----------------------------------------------------------------------------
(* The theorems.                                                           *)

\* The client keeps its window through the links of the scenario, and the links
\* keep their types.
THEOREM ScenarioInvariant == Spec => []ScenarioInv
BY InitIsClientInit, StepKeepsScenario, PTL DEF Spec

\* Every variable of the client, the server and the links keeps its type: in
\* particular no line holds more than LinkCapacity datagrams, and none a
\* sequence number that is not a uint16_t.
THEOREM ScenarioTypes == Spec => []TypeInvariant
<1>1. ScenarioInv => TypeInvariant
    BY ScenarioFacts
<1> QED
    BY <1>1, ScenarioInvariant, PTL

\* What is proved of the client over its network holds in the scenario.
THEOREM ScenarioRunsClient == Spec => Client!Spec
<1>1. ScenarioInv /\ [Next]_vars => [Client!Next]_Client!vars
    BY StepIsClientStep
<1> QED
    BY <1>1, InitIsClientInit, ScenarioInvariant, PTL DEF Spec, Client!Spec

\* The properties of the client mean the same in the instance.
LEMMA SameProperties ==
    /\ Client!NumbersLeft <=> m_seqNum < SeqMod
    /\ Client!WindowBound <=> WindowBound
    /\ Client!SpinsOnlyAtTheEnd <=> SpinsOnlyAtTheEnd
    /\ Client!OneSendChain <=> OneSendChain
    /\ Client!TimersMatch <=> TimersMatch
    /\ Client!NoStrandedPacket <=> NoStrandedPacket
    /\ Client!QueueBound <=> QueueBound
    /\ Client!Accounting <=> Accounting
    /\ Client!QuietAfterStop <=> QuietAfterStop
    /\ Client!WaitIsTimed <=> WaitIsTimed
<1> USE DEF Client!Sent, Sent, Client!Queued, Queued, Client!Seqs, Seqs,
            Client!NoEvent, NoEvent, Client!Counters, Counters
<1>1. /\ Client!NumbersLeft <=> m_seqNum < SeqMod
      /\ Client!WindowBound <=> WindowBound
      /\ Client!SpinsOnlyAtTheEnd <=> SpinsOnlyAtTheEnd
      /\ Client!OneSendChain <=> OneSendChain
    BY DEF Client!NumbersLeft, Client!WindowBound, WindowBound,
           Client!SpinsOnlyAtTheEnd, SpinsOnlyAtTheEnd,
           Client!OneSendChain, OneSendChain
<1>2. /\ Client!TimersMatch <=> TimersMatch
      /\ Client!NoStrandedPacket <=> NoStrandedPacket
      /\ Client!QuietAfterStop <=> QuietAfterStop
      /\ Client!WaitIsTimed <=> WaitIsTimed
    BY DEF Client!TimersMatch, TimersMatch,
           Client!NoStrandedPacket, NoStrandedPacket,
           Client!QuietAfterStop, QuietAfterStop,
           Client!WaitIsTimed, WaitIsTimed,
           Client!WindowIsFull, WindowIsFull, Client!U32, U32
<1>3. /\ Client!QueueBound <=> QueueBound
      /\ Client!Accounting <=> Accounting
    BY SameAscending, Zenon
       DEF Client!QueueBound, QueueBound, Client!Accounting, Accounting
<1> QED
    BY <1>1, <1>2, <1>3

\* Over the links of the scenario no packet of the window is forgotten, until
\* the sequence numbers run out: HandleRead, HandleTimeout and Send leave it
\* echoed, given up, timed or waiting for its first retransmission.
THEOREM NoneStrandedOnLinks == Spec => [](m_seqNum < SeqMod => NoStrandedPacket)
<1>1. (Client!NumbersLeft => Client!NoStrandedPacket)
          => (m_seqNum < SeqMod => NoStrandedPacket)
    BY SameProperties
<1> QED
    BY <1>1, ScenarioRunsClient, Client!NoneStranded, PTL

\* Nor do the links break anything else the client keeps over any network:
\* the window of Send, its loops and its chain of events always, its timers,
\* waits, counters and queue and what StopApplication leaves until the
\* sequence numbers run out.
THEOREM ScenarioKeepsPromises ==
    Spec => [](/\ WindowBound /\ SpinsOnlyAtTheEnd /\ OneSendChain
               /\ m_seqNum < SeqMod =>
                    /\ TimersMatch /\ QueueBound /\ Accounting
                    /\ QuietAfterStop /\ WaitIsTimed)
<1>1. /\ Client!WindowBound /\ Client!SpinsOnlyAtTheEnd /\ Client!OneSendChain
      /\ Client!NumbersLeft => Client!TimersMatch
      /\ Client!NumbersLeft => Client!QueueBound
      /\ Client!NumbersLeft => Client!Accounting
      /\ Client!NumbersLeft => Client!QuietAfterStop
      /\ Client!NumbersLeft => Client!WaitIsTimed
      => /\ WindowBound /\ SpinsOnlyAtTheEnd /\ OneSendChain
         /\ m_seqNum < SeqMod =>
              /\ TimersMatch /\ QueueBound /\ Accounting
              /\ QuietAfterStop /\ WaitIsTimed
    BY SameProperties
<1> QED
    BY <1>1, ScenarioRunsClient, Client!WindowSafe, Client!LoopsEnd, Client!OneChain,
       Client!TimersAgree, Client!QueueIsBounded, Client!CountersAddUp,
       Client!StopIsQuiet, Client!WaitsAreTimed, PTL

----------------------------------------------------------------------------
(* Udp, the instance ReliableEcho states its refinement with, is the same  *)
(* specification as Client.                                                *)

LEMMA UdpAscending ==
    \A S : Client!Cardinality(S) = Udp!Cardinality(S)
               /\ Client!Ascending(S) = Udp!Ascending(S)
BY Zenon DEF Client!Cardinality, Udp!Cardinality, Client!IsFiniteSet, Udp!IsFiniteSet,
             Client!Ascending, Udp!Ascending

LEMMA UdpSends ==
    /\ Client!SendFresh <=> Udp!SendFresh
    /\ Client!SendRetransmission <=> Udp!SendRetransmission
    /\ Client!SendSkips <=> Udp!SendSkips
    /\ Client!SendWaits <=> Udp!SendWaits
<1> USE DEF Client!SendIsDue, Udp!SendIsDue, Client!OlderTimers, Udp!OlderTimers,
            Client!U16, Udp!U16, Client!U32, Udp!U32, Client!logVars, Udp!logVars,
            Client!statVars, Udp!statVars, Client!rangeVars, Udp!rangeVars,
            Client!windowVars, Udp!windowVars,
            Client!WindowIsFull, Udp!WindowIsFull, Client!AdvanceRange, Udp!AdvanceRange,
            Client!FreshHeader, Udp!FreshHeader, Client!RetransHeader, Udp!RetransHeader,
            Client!NotRetransmitted, Udp!NotRetransmitted
<1>1. Client!SendFresh <=> Udp!SendFresh
    BY DEF Client!SendFresh, Udp!SendFresh, Client!Transmit, Udp!Transmit,
           Client!BudgetAllows, Udp!BudgetAllows
<1>2. Client!SendRetransmission <=> Udp!SendRetransmission
    BY DEF Client!SendRetransmission, Udp!SendRetransmission,
           Client!Transmit, Udp!Transmit, Client!BudgetAllows, Udp!BudgetAllows
<1>3. Client!SendSkips <=> Udp!SendSkips
    BY DEF Client!SendSkips, Udp!SendSkips
<1>4. Client!SendWaits <=> Udp!SendWaits
    BY DEF Client!SendWaits, Udp!SendWaits
<1> QED
    BY <1>1, <1>2, <1>3, <1>4

LEMMA UdpReads ==
    /\ \A s : Client!HandleRead(s) <=> Udp!HandleRead(s)
    /\ \A s : Client!HandleReadSpins(s) <=> Udp!HandleReadSpins(s)
    /\ \A e : Client!HandleTimeout(e) <=> Udp!HandleTimeout(e)
<1>1. \A S : Client!CancelTimers(S) <=> Udp!CancelTimers(S)
    BY Zenon DEF Client!CancelTimers, Udp!CancelTimers, Client!NoEvent, Udp!NoEvent,
                 Client!Seqs, Udp!Seqs
<1>2. \A t : Client!Enqueue(t) <=> Udp!Enqueue(t)
    BY Zenon DEF Client!Enqueue, Udp!Enqueue, Client!RangesOf, Udp!RangesOf,
                 Client!U16, Udp!U16, Client!rangeVars, Udp!rangeVars
<1>3. \A R : Client!SlidTo(R) = Udp!SlidTo(R)
    BY Zenon DEF Client!SlidTo, Udp!SlidTo, Client!U16, Udp!U16
<1>4. \A s : Client!LostBefore(s) = Udp!LostBefore(s)
    BY Zenon DEF Client!LostBefore, Udp!LostBefore
<1> USE DEF Client!SlideEnds, Udp!SlideEnds, Client!Seqs, Udp!Seqs,
            Client!logVars, Udp!logVars
<1>5. \A s : Client!HandleRead(s) <=> Udp!HandleRead(s)
    BY <1>1, <1>2, <1>3, <1>4, UdpAscending, Zenon
       DEF Client!HandleRead, Udp!HandleRead, Client!ExpectAfter, Udp!ExpectAfter,
           Client!Listening, Udp!Listening
<1> USE DEF Client!statVars, Udp!statVars, Client!rangeVars, Udp!rangeVars,
            Client!windowVars, Udp!windowVars, Client!timerVars, Udp!timerVars
<1>6. \A s : Client!HandleReadSpins(s) <=> Udp!HandleReadSpins(s)
    BY Zenon DEF Client!HandleReadSpins, Udp!HandleReadSpins,
                 Client!Listening, Udp!Listening
<1>7. \A e : Client!HandleTimeout(e) <=> Udp!HandleTimeout(e)
    BY <1>2, <1>3
       DEF Client!HandleTimeout, Udp!HandleTimeout, Client!Expired, Udp!Expired,
           Client!TimeoutOfFirst, Udp!TimeoutOfFirst, Client!NoEvent, Udp!NoEvent,
           Client!TimeoutOfRetransmission, Udp!TimeoutOfRetransmission,
           Client!TimeoutSpins, Udp!TimeoutSpins, Client!WithGivenUp, Udp!WithGivenUp
<1> QED
    BY <1>5, <1>6, <1>7

LEMMA UdpControl ==
    /\ UNCHANGED Client!clientVars <=> UNCHANGED Udp!clientVars
    /\ Client!StartApplication <=> Udp!StartApplication
    /\ Client!StopApplication <=> Udp!StopApplication
    /\ Client!PpsLog <=> Udp!PpsLog
    /\ Client!ClientInit <=> Udp!ClientInit
<1> USE DEF Client!logVars, Udp!logVars, Client!statVars, Udp!statVars,
            Client!rangeVars, Udp!rangeVars, Client!windowVars, Udp!windowVars,
            Client!timerVars, Udp!timerVars, Client!Counters, Udp!Counters,
            Client!NoEvent, Udp!NoEvent, Client!Seqs, Udp!Seqs
<1>1. UNCHANGED Client!clientVars <=> UNCHANGED Udp!clientVars
    BY DEF Client!clientVars, Udp!clientVars
<1>2. Client!StartApplication <=> Udp!StartApplication
    BY DEF Client!StartApplication, Udp!StartApplication
<1>3. Client!StopApplication <=> Udp!StopApplication
    BY DEF Client!StopApplication, Udp!StopApplication,
           Client!CancelTimers, Udp!CancelTimers, Client!Cancelled, Udp!Cancelled,
           Client!LogEventsAfterStop, Udp!LogEventsAfterStop
<1>4. Client!PpsLog <=> Udp!PpsLog
    BY DEF Client!PpsLog, Udp!PpsLog
<1>5. Client!ClientInit <=> Udp!ClientInit
    BY DEF Client!ClientInit, Udp!ClientInit
<1> QED
    BY <1>1, <1>2, <1>3, <1>4, <1>5

LEMMA SameNetwork ==
    /\ Client!Init <=> Udp!Init
    /\ Client!Next <=> Udp!Next
    /\ UNCHANGED Client!vars <=> UNCHANGED Udp!vars
<1> USE DEF Flight, Client!Seqs, Udp!Seqs
<1>1. Client!Init <=> Udp!Init
    BY UdpControl DEF Client!Init, Udp!Init
<1>2. UNCHANGED Client!vars <=> UNCHANGED Udp!vars
    BY UdpControl DEF Client!vars, Udp!vars
<1>3. /\ Client!Start <=> Udp!Start
      /\ Client!Stop <=> Udp!Stop
      /\ Client!Log <=> Udp!Log
    BY UdpControl
       DEF Client!Start, Udp!Start, Client!Stop, Udp!Stop, Client!Log, Udp!Log
<1>4. Client!Timeout <=> Udp!Timeout
    BY UdpReads DEF Client!Timeout, Udp!Timeout
<1>5. Client!Send <=> Udp!Send
    BY UdpSends
       DEF Client!Send, Udp!Send, Client!Launch, Udp!Launch, Client!U16, Udp!U16,
           Client!FreshHeader, Udp!FreshHeader,
           Client!RetransHeader, Udp!RetransHeader
<1>6. \A s : /\ Client!Receive(s) <=> Udp!Receive(s)
             /\ Client!Lose(s) <=> Udp!Lose(s)
    BY UdpReads, UdpControl
       DEF Client!Receive, Udp!Receive, Client!Lose, Udp!Lose,
           Client!Land, Udp!Land
<1> QED
    BY <1>1, <1>2, <1>3, <1>4, <1>5, <1>6 DEF Client!Next, Udp!Next

\* The scenario implements ClientOverUdp, for every capacity of the links and
\* every client: its server and its lines do to the datagrams what the network
\* there may do, and nothing else.
THEOREM ScenarioRefines == Spec => ImplementsClientOverUdp
<1>1. [Client!Next]_Client!vars => [Udp!Next]_Udp!vars
    BY SameNetwork
<1>2. Client!Init => Udp!Init
    BY SameNetwork
<1> QED
    BY <1>1, <1>2, ScenarioRunsClient, PTL
       DEF Client!Spec, Udp!Spec, ImplementsClientOverUdp

----------------------------------------------------------------------------
(* The order on the path to the client.                                    *)

\* The echoes and datagrams under way, in the order they reach the client.
Path == downlink \o uplink

\* A packet that is behind a later one has been sent again.
InOrder(path, resent) ==
    \A i, j \in 1 .. Len(path) : j < i /\ path[i] < path[j] => path[i] \in resent

\* The positions whose echo HandleRead will count as that of a retransmission,
\* if all before it arrive.
Late(path, ack) ==
    {i \in 1 .. Len(path) :
        path[i] < ack \/ \E j \in 1 .. i - 1 : path[i] <= path[j]}

\* No sequence number has been given to two packets.
Unwrapped == m_seqNum <= SeqMod

\* The inductive invariant behind GapLossIsReal and RetransRecvIsReal.
PathParts ==
    /\ m_ackNum <= m_seqNum
    /\ InOrder(Path, m_retransmitPackets)
    /\ m_retransRecv + Cardinality(Late(Path, m_ackNum)) <= m_packetRetrans

PathInv == Unwrapped => PathParts

\* The path q is the path p without its k-th datagram.
Shifted(i, k) == IF i < k THEN i ELSE i + 1
Without(q, p, k) ==
    /\ k \in 1 .. Len(p)
    /\ Len(q) = Len(p) - 1
    /\ \A i \in 1 .. Len(q) : q[i] = p[Shifted(i, k)]

LEMMA LateFinite ==
    ASSUME NEW path \in Seq(Seqs), NEW ack
    PROVE  IsFiniteSet(Late(path, ack)) /\ Cardinality(Late(path, ack)) \in Nat
<1>1. Len(path) \in Nat
    OBVIOUS
<1>2. IsFiniteSet(1 .. Len(path))
    BY <1>1, FS_Interval
<1>3. Late(path, ack) \subseteq 1 .. Len(path)
    BY DEF Late
<1> QED
    BY <1>2, <1>3, FS_Subset, FS_CardinalityType

\* A datagram less leaves the others in order, ...
LEMMA WithoutInOrder ==
    ASSUME NEW p \in Seq(Seqs), NEW q \in Seq(Seqs), NEW k, Without(q, p, k),
           NEW resent, InOrder(p, resent)
    PROVE  InOrder(q, resent)
<1> SUFFICES ASSUME NEW i \in 1 .. Len(q), NEW j \in 1 .. Len(q),
                    j < i, q[i] < q[j]
             PROVE  q[i] \in resent
    BY DEF InOrder
<1>1. /\ Shifted(i, k) \in 1 .. Len(p) /\ Shifted(j, k) \in 1 .. Len(p)
      /\ Shifted(j, k) < Shifted(i, k)
    BY DEF Without, Shifted
<1>2. q[i] = p[Shifted(i, k)] /\ q[j] = p[Shifted(j, k)]
    BY DEF Without
<1> QED
    BY <1>1, <1>2, Zenon DEF InOrder

\* ... and makes none of them late that was not.
LEMMA WithoutLate ==
    ASSUME NEW p \in Seq(Seqs), NEW q \in Seq(Seqs), NEW k, Without(q, p, k),
           NEW ack \in Nat, NEW ackNext \in Nat,
           \A i \in 1 .. Len(q) : q[i] < ackNext => Shifted(i, k) \in Late(p, ack)
    PROVE  Cardinality(Late(q, ackNext)) <= Cardinality(Late(p, ack) \ {k})
<1> DEFINE A == Late(q, ackNext)
           B == Late(p, ack) \ {k}
           f == [i \in A |-> Shifted(i, k)]
<1>1. ASSUME NEW i \in A PROVE f[i] \in B
    <2>1. i \in 1 .. Len(q) /\ Len(q) \in Nat /\ k \in Nat
        BY DEF Late, Without
    <2>2. Shifted(i, k) # k
        BY <2>1 DEF Shifted
    <2>3. CASE q[i] < ackNext
        BY <2>1, <2>2, <2>3
    <2>4. CASE \E j \in 1 .. i - 1 : q[i] <= q[j]
        <3>1. PICK j \in 1 .. i - 1 : q[i] <= q[j]
            BY <2>4
        <3>2. /\ Shifted(i, k) \in 1 .. Len(p)
              /\ Shifted(j, k) \in 1 .. Shifted(i, k) - 1
            BY <2>1 DEF Without, Shifted
        <3>3. q[i] = p[Shifted(i, k)] /\ q[j] = p[Shifted(j, k)]
            BY <2>1, <3>1 DEF Without
        <3> QED
            BY <2>2, <3>1, <3>2, <3>3 DEF Late
    <2> QED
        BY <2>3, <2>4 DEF Late
<1>2. \A i, j \in A : f[i] = f[j] => i = j
    BY DEF Late, Shifted, Without
<1>3. IsFiniteSet(A) /\ IsFiniteSet(B)
    BY LateFinite, FS_RemoveElement
<1>4. f \in Injection(A, B)
    BY <1>1, <1>2, Zenon DEF Injection, IsInjective
<1> HIDE DEF A, B, f
<1>5. Cardinality(A) <= Cardinality(B)
    BY <1>3, <1>4, FS_Injection
<1> QED
    BY <1>5 DEF A, B

\* A datagram more, behind the others: it is in order if it has been sent
\* before or is the greatest, ...
LEMMA JoinedInOrder ==
    ASSUME NEW p \in Seq(Seqs), NEW h \in Seqs, NEW resent, InOrder(p, resent),
           h \in resent \/ \A i \in 1 .. Len(p) : p[i] < h
    PROVE  InOrder(p \o <<h>>, resent)
<1> DEFINE q == p \o <<h>>
<1>1. /\ Len(q) = Len(p) + 1 /\ Len(p) \in Nat
      /\ q[Len(p) + 1] = h
      /\ \A i \in 1 .. Len(p) : q[i] = p[i] /\ p[i] \in Int
      /\ h \in Int
    BY DEF Seqs
<1> HIDE DEF q
<1> SUFFICES ASSUME NEW i \in 1 .. Len(q), NEW j \in 1 .. Len(q),
                    j < i, q[i] < q[j]
             PROVE  q[i] \in resent
    BY DEF InOrder, q
<1>2. CASE i \in 1 .. Len(p)
    BY <1>1, <1>2 DEF InOrder
<1>3. CASE i = Len(p) + 1
    BY <1>1, <1>3
<1> QED
    BY <1>1, <1>2, <1>3

\* ... and it alone may be late.
LEMMA JoinedLate ==
    ASSUME NEW p \in Seq(Seqs), NEW h \in Seqs, NEW ack \in Nat
    PROVE  LET more == Cardinality(Late(p \o <<h>>, ack))
               some == Cardinality(Late(p, ack))
           IN  /\ more <= some + 1
               /\ ack <= h /\ (\A i \in 1 .. Len(p) : p[i] < h) => more <= some
<1> DEFINE q == p \o <<h>>
           A == Late(q, ack)
           B == Late(p, ack)
<1>1. /\ Len(q) = Len(p) + 1 /\ Len(p) \in Nat /\ q \in Seq(Seqs)
      /\ q[Len(p) + 1] = h
      /\ \A i \in 1 .. Len(p) : q[i] = p[i] /\ p[i] \in Int
      /\ h \in Int
    BY DEF Seqs
<1> HIDE DEF q
<1>2. A \subseteq B \cup {Len(p) + 1}
    BY <1>1 DEF Late
<1>3. ack <= h /\ (\A i \in 1 .. Len(p) : p[i] < h) => A \subseteq B
    BY <1>1 DEF Late
<1>4. IsFiniteSet(B) /\ Cardinality(B) \in Nat /\ Cardinality(A) \in Nat
    BY <1>1, LateFinite
<1> HIDE DEF A, B
<1>5. /\ IsFiniteSet(B \cup {Len(p) + 1})
      /\ Cardinality(B \cup {Len(p) + 1}) <= Cardinality(B) + 1
    BY <1>4, AtMostOneMore
<1>6. Cardinality(A) <= Cardinality(B \cup {Len(p) + 1})
    BY <1>2, <1>5, FS_Subset
<1>7. A \subseteq B => Cardinality(A) <= Cardinality(B)
    BY <1>4, FS_Subset
<1>8. Cardinality(B \cup {Len(p) + 1}) \in Nat
    BY <1>5, FS_CardinalityType
<1> QED
    BY <1>3, <1>4, <1>5, <1>6, <1>7, <1>8 DEF A, B, q

\* What is on the path has been sent.
LEMMA PathSent ==
    ASSUME ScenarioInv
    PROVE  /\ Path \in Seq(Seqs)
           /\ \A i \in 1 .. Len(Path) : Path[i] \in Sent
           /\ \A s : /\ UnderWay(s) \in Nat
                     /\ UnderWay(s) # 0 <=> \E i \in 1 .. Len(Path) : Path[i] = s
<1>1. /\ uplink \in Seq(Seqs) /\ downlink \in Seq(Seqs) /\ Path \in Seq(Seqs)
      /\ LinkTypes
    BY DEF ScenarioInv, LinkTypes, Path
<1>2. ASSUME NEW s
      PROVE  /\ UnderWay(s) \in Nat
             /\ UnderWay(s) # 0 <=> \E i \in 1 .. Len(Path) : Path[i] = s
    <2>1. /\ UnderWay(s) = Often(uplink, s) + Often(downlink, s)
          /\ Often(uplink, s) \in Nat /\ Often(downlink, s) \in Nat
        BY <1>1, CarriedCounts DEF UnderWay, Carried
    <2>2. Often(Path, s) = Often(downlink, s) + Often(uplink, s)
        BY <1>1, OftenJoined DEF Path
    <2>3. Often(Path, s) # 0 <=> \E i \in 1 .. Len(Path) : Path[i] = s
        BY <1>1, OftenListed
    <2> QED
        BY <2>1, <2>2, <2>3
<1>3. ASSUME NEW i \in 1 .. Len(Path) PROVE Path[i] \in Sent
    <2>1. Path[i] \in Seqs
        BY <1>1
    <2>2. UnderWay(Path[i]) > 0
        BY <1>2
    <2> QED
        BY <2>1, <2>2
           DEF ScenarioInv, Client!WindowInv, Client!SentOnly, Client!Sent, Sent,
               Client!Seqs, Seqs, Flight
<1> QED
    BY <1>1, <1>2, <1>3

\* Joined lines, place by place.
LEMMA JoinedPlaces ==
    ASSUME NEW p \in Seq(Seqs), NEW q \in Seq(Seqs)
    PROVE  /\ p \o q \in Seq(Seqs) /\ Len(p) \in Nat /\ Len(q) \in Nat
           /\ Len(p \o q) = Len(p) + Len(q)
           /\ \A i \in 1 .. Len(p) : (p \o q)[i] = p[i]
           /\ \A i \in 1 .. Len(p) + Len(q) : i > Len(p) => (p \o q)[i] = q[i - Len(p)]
OBVIOUS

LEMMA JoinedTwice ==
    ASSUME NEW p \in Seq(Seqs), NEW q \in Seq(Seqs), NEW h \in Seqs
    PROVE  p \o (q \o <<h>>) = (p \o q) \o <<h>>
OBVIOUS

LEMMA TailPlaces ==
    ASSUME NEW p \in Seq(Seqs), p # <<>>
    PROVE  /\ Tail(p) \in Seq(Seqs) /\ Len(Tail(p)) = Len(p) - 1
           /\ \A i \in 1 .. Len(p) - 1 : Tail(p)[i] = p[i + 1]
           /\ Head(p) = p[1] /\ Head(p) \in Seqs /\ Len(p) \in Nat \ {0}
OBVIOUS

\* The first datagram leaves the front of a path, ...
LEMMA FrontLeaves ==
    ASSUME NEW d \in Seq(Seqs), NEW u \in Seq(Seqs), d # <<>>
    PROVE  /\ Without(Tail(d) \o u, d \o u, 1)
           /\ (d \o u)[1] = Head(d)
<1> DEFINE e == Tail(d)
<1>1. /\ e \in Seq(Seqs) /\ Len(e) = Len(d) - 1
      /\ \A i \in 1 .. Len(d) - 1 : e[i] = d[i + 1]
      /\ Head(d) = d[1] /\ Len(d) \in Nat \ {0}
    BY TailPlaces
<1> HIDE DEF e
<1> DEFINE p == d \o u
           q == e \o u
<1>2. /\ Len(p) = Len(d) + Len(u) /\ Len(u) \in Nat
      /\ \A i \in 1 .. Len(d) : p[i] = d[i]
      /\ \A i \in 1 .. Len(d) + Len(u) : i > Len(d) => p[i] = u[i - Len(d)]
    BY JoinedPlaces
<1>3. /\ Len(q) = Len(e) + Len(u)
      /\ \A i \in 1 .. Len(e) : q[i] = e[i]
      /\ \A i \in 1 .. Len(e) + Len(u) : i > Len(e) => q[i] = u[i - Len(e)]
    BY <1>1, JoinedPlaces
<1> HIDE DEF p, q
<1>4. ASSUME NEW i \in 1 .. Len(q) PROVE q[i] = p[i + 1]
    <2>1. CASE i <= Len(e)
        BY <1>1, <1>2, <1>3, <2>1
    <2>2. CASE i > Len(e)
        <3>1. q[i] = u[i - Len(e)]
            BY <1>1, <1>2, <1>3, <2>2
        <3>2. p[i + 1] = u[(i + 1) - Len(d)]
            BY <1>1, <1>2, <1>3, <2>2
        <3>3. (i + 1) - Len(d) = i - Len(e)
            BY <1>1, <1>2, <1>3
        <3> QED
            BY <3>1, <3>2, <3>3
    <2> QED
        BY <1>1, <1>2, <1>3, <2>1, <2>2
<1>5. Without(q, p, 1)
    BY <1>1, <1>2, <1>3, <1>4 DEF Without, Shifted
<1>6. p[1] = Head(d)
    BY <1>1, <1>2
<1> QED
    BY <1>5, <1>6 DEF p, q, e

\* ... and one in its middle goes on, or is lost.
LEMMA MiddleGoesOn ==
    ASSUME NEW d \in Seq(Seqs), NEW u \in Seq(Seqs), u # <<>>
    PROVE  /\ (d \o <<Head(u)>>) \o Tail(u) = d \o u
           /\ Without(d \o Tail(u), d \o u, Len(d) + 1)
<1> DEFINE v == Tail(u)
           h == Head(u)
<1>1. /\ v \in Seq(Seqs) /\ Len(v) = Len(u) - 1
      /\ \A i \in 1 .. Len(u) - 1 : v[i] = u[i + 1]
      /\ h = u[1] /\ h \in Seqs /\ Len(u) \in Nat \ {0}
    BY TailPlaces
<1> HIDE DEF v, h
<1> DEFINE p == d \o u
           q == d \o v
           c == d \o <<h>>
           r == c \o v
<1>2. /\ p \in Seq(Seqs) /\ Len(p) = Len(d) + Len(u) /\ Len(d) \in Nat
      /\ \A i \in 1 .. Len(d) : p[i] = d[i]
      /\ \A i \in 1 .. Len(d) + Len(u) : i > Len(d) => p[i] = u[i - Len(d)]
    BY JoinedPlaces
<1>3. /\ Len(q) = Len(d) + Len(v) /\ Len(v) \in Nat
      /\ \A i \in 1 .. Len(d) : q[i] = d[i]
      /\ \A i \in 1 .. Len(d) + Len(v) : i > Len(d) => q[i] = v[i - Len(d)]
    BY <1>1, JoinedPlaces
<1>4. /\ c \in Seq(Seqs) /\ Len(c) = Len(d) + 1
      /\ \A i \in 1 .. Len(d) : c[i] = d[i]
      /\ c[Len(d) + 1] = h
    BY <1>1
<1> HIDE DEF c
<1>5. /\ r \in Seq(Seqs) /\ Len(r) = Len(c) + Len(v)
      /\ \A i \in 1 .. Len(c) : r[i] = c[i]
      /\ \A i \in 1 .. Len(c) + Len(v) : i > Len(c) => r[i] = v[i - Len(c)]
    BY <1>1, <1>4, JoinedPlaces
<1> HIDE DEF p, q, r
<1>6. ASSUME NEW i \in 1 .. Len(q) PROVE q[i] = p[Shifted(i, Len(d) + 1)]
    <2>1. CASE i <= Len(d)
        BY <1>1, <1>2, <1>3, <2>1 DEF Shifted
    <2>2. CASE i > Len(d)
        <3>1. q[i] = v[i - Len(d)]
            BY <1>1, <1>2, <1>3, <2>2
        <3>2. v[i - Len(d)] = u[(i - Len(d)) + 1]
            BY <1>1, <1>2, <1>3, <2>2
        <3>3. p[i + 1] = u[(i + 1) - Len(d)]
            BY <1>1, <1>2, <1>3, <2>2
        <3>4. (i + 1) - Len(d) = (i - Len(d)) + 1
            BY <1>2, <1>3
        <3>5. Shifted(i, Len(d) + 1) = i + 1
            BY <1>2, <1>3, <2>2 DEF Shifted
        <3> QED
            BY <3>1, <3>2, <3>3, <3>4, <3>5
    <2> QED
        BY <1>2, <1>3, <2>1, <2>2
<1>7. Without(q, p, Len(d) + 1)
    BY <1>1, <1>2, <1>3, <1>6 DEF Without
<1>8. ASSUME NEW i \in 1 .. Len(p) PROVE r[i] = p[i]
    <2>1. CASE i <= Len(d)
        BY <1>1, <1>2, <1>4, <1>5, <2>1
    <2>2. CASE i = Len(d) + 1
        <3>1. r[i] = h
            BY <1>1, <1>2, <1>3, <1>4, <1>5, <2>2
        <3>2. p[i] = u[i - Len(d)] /\ i - Len(d) = 1
            BY <1>1, <1>2, <2>2
        <3> QED
            BY <1>1, <3>1, <3>2
    <2>3. CASE i > Len(d) + 1
        <3>1. r[i] = v[i - Len(c)]
            BY <1>1, <1>2, <1>4, <1>5, <2>3
        <3>2. v[i - Len(c)] = u[(i - Len(c)) + 1]
            BY <1>1, <1>2, <1>4, <2>3
        <3>3. p[i] = u[i - Len(d)]
            BY <1>1, <1>2, <2>3
        <3>4. (i - Len(c)) + 1 = i - Len(d)
            BY <1>2, <1>4
        <3> QED
            BY <3>1, <3>2, <3>3, <3>4
    <2> QED
        BY <1>2, <2>1, <2>2, <2>3
<1>9. r = p
    <2>1. Len(r) = Len(p)
        BY <1>1, <1>2, <1>3, <1>4, <1>5
    <2> QED
        BY <1>2, <1>5, <1>8, <2>1
<1> QED
    BY <1>7, <1>9 DEF p, q, r, c, v, h

\* What the steps of the links do to the path.
LEMMA ReceivePath ==
    ASSUME LinkTypes, downlink # <<>>, downlink' = Tail(downlink), UNCHANGED uplink
    PROVE  /\ Path \in Seq(Seqs) /\ Path' \in Seq(Seqs)
           /\ Without(Path', Path, 1) /\ Path[1] = Head(downlink)
<1>1. uplink \in Seq(Seqs) /\ downlink \in Seq(Seqs) /\ Tail(downlink) \in Seq(Seqs)
    BY TailPlaces DEF LinkTypes
<1>2. Path = downlink \o uplink /\ Path' = Tail(downlink) \o uplink
    BY DEF Path
<1> QED
    BY <1>1, <1>2, FrontLeaves, JoinedPlaces

LEMMA EchoPath ==
    ASSUME LinkTypes, Echo
    PROVE  /\ Path \in Seq(Seqs) /\ Path' \in Seq(Seqs)
           /\ Path' = Path \/ Without(Path', Path, Len(downlink) + 1)
<1>1. /\ uplink \in Seq(Seqs) /\ downlink \in Seq(Seqs) /\ uplink # <<>>
      /\ uplink' = Tail(uplink) /\ Tail(uplink) \in Seq(Seqs)
    BY TailPlaces DEF LinkTypes, Echo
<1>2. \/ downlink' = downlink \o <<Head(uplink)>>
      \/ downlink' = downlink
    <2>1. downlink \o <<>> = downlink
        BY <1>1
    <2> QED
        BY <2>1 DEF Echo, Join, ServerHandleRead
<1>3. Path = downlink \o uplink /\ Path' = downlink' \o Tail(uplink)
    BY <1>1 DEF Path
<1>4. \/ Path' = Path
      \/ Path' = downlink \o Tail(uplink) /\ Without(Path', Path, Len(downlink) + 1)
    BY <1>1, <1>2, <1>3, MiddleGoesOn
<1> QED
    BY <1>1, <1>3, <1>4, JoinedPlaces

LEMMA JoinPath ==
    ASSUME LinkTypes, NEW h \in Seqs, Join(uplink, <<h>>), UNCHANGED downlink
    PROVE  /\ Path \in Seq(Seqs)
           /\ Path' = Path \/ Path' = Path \o <<h>>
<1>1. uplink \in Seq(Seqs) /\ downlink \in Seq(Seqs)
    BY DEF LinkTypes
<1>2. uplink' = uplink \o <<h>> \/ uplink' = uplink
    BY DEF Join
<1>3. Path = downlink \o uplink /\ Path' = downlink \o uplink'
    BY DEF Path
<1>4. downlink \o (uplink \o <<h>>) = (downlink \o uplink) \o <<h>>
    BY <1>1, JoinedTwice
<1> QED
    BY <1>1, <1>2, <1>3, <1>4, JoinedPlaces

\* A path that loses a datagram stays in order with no more of them late.
LEMMA ThinnedPath ==
    ASSUME NEW p \in Seq(Seqs), NEW q \in Seq(Seqs), NEW k, Without(q, p, k),
           NEW resent, NEW ack \in Nat
    PROVE  /\ InOrder(p, resent) => InOrder(q, resent)
           /\ Cardinality(Late(q, ack)) <= Cardinality(Late(p, ack))
           /\ 1 \in Late(p, ack) /\ k = 1
                  => Cardinality(Late(q, ack)) + 1 <= Cardinality(Late(p, ack))
<1>1. /\ IsFiniteSet(Late(p, ack))
      /\ Cardinality(Late(p, ack)) \in Nat /\ Cardinality(Late(q, ack)) \in Nat
    BY LateFinite
<1>2. ASSUME NEW i \in 1 .. Len(q), q[i] < ack PROVE Shifted(i, k) \in Late(p, ack)
    BY <1>2 DEF Without, Shifted, Late
<1>3. Cardinality(Late(q, ack)) <= Cardinality(Late(p, ack) \ {k})
    BY <1>2, WithoutLate
<1>4. Cardinality(Late(p, ack) \ {k}) =
          IF k \in Late(p, ack) THEN Cardinality(Late(p, ack)) - 1
                                ELSE Cardinality(Late(p, ack))
    BY <1>1, FS_RemoveElement
<1> QED
    BY <1>1, <1>3, <1>4, WithoutInOrder

\* An echo that arrives on time makes what it overtook late.
LEMMA ReadAhead ==
    ASSUME NEW p \in Seq(Seqs), NEW q \in Seq(Seqs), Without(q, p, 1),
           NEW ack \in Nat, p[1] >= ack
    PROVE  Cardinality(Late(q, p[1] + 1)) <= Cardinality(Late(p, ack))
<1>1. /\ IsFiniteSet(Late(p, ack)) /\ p[1] + 1 \in Nat
      /\ Cardinality(Late(p, ack)) \in Nat
      /\ Cardinality(Late(q, p[1] + 1)) \in Nat
    <2>1. p[1] + 1 \in Nat
        BY DEF Without, Seqs
    <2> QED
        BY <2>1, LateFinite
<1>2. ASSUME NEW i \in 1 .. Len(q), q[i] < p[1] + 1
      PROVE  Shifted(i, 1) \in Late(p, ack)
    <2>1. /\ Shifted(i, 1) = i + 1 /\ i + 1 \in 1 .. Len(p) /\ 1 \in 1 .. (i + 1) - 1
          /\ q[i] = p[i + 1]
        BY DEF Without, Shifted
    <2>2. p[i + 1] <= p[1]
        BY <1>2, <2>1 DEF Without, Seqs
    <2> QED
        BY <2>1, <2>2 DEF Late
<1>3. Cardinality(Late(q, p[1] + 1)) <= Cardinality(Late(p, ack) \ {1})
    BY <1>1, <1>2, WithoutLate
<1>4. Cardinality(Late(p, ack) \ {1}) =
          IF 1 \in Late(p, ack) THEN Cardinality(Late(p, ack)) - 1
                                ELSE Cardinality(Late(p, ack))
    BY <1>1, FS_RemoveElement
<1> QED
    BY <1>1, <1>3, <1>4

\* What PathParts speaks of, besides the path.
pathVars == <<m_seqNum, m_ackNum, m_retransmitPackets, m_retransRecv, m_packetRetrans>>

PathTyped ==
    /\ m_seqNum \in Nat /\ m_ackNum \in Nat
    /\ m_retransRecv \in Nat /\ m_packetRetrans \in Nat
    /\ Cardinality(Late(Path, m_ackNum)) \in Nat
    /\ LinkTypes /\ Path \in Seq(Seqs)

LEMMA PathTypes ==
    ASSUME ScenarioInv
    PROVE  PathTyped
<1>1. /\ m_seqNum \in Nat /\ m_ackNum \in Nat
      /\ m_retransRecv \in Nat /\ m_packetRetrans \in Nat
    BY ScenarioFacts DEF TypeOK
<1> QED
    BY <1>1, PathSent, LateFinite DEF ScenarioInv, PathTyped

LEMMA SendKeepsPath ==
    ASSUME ScenarioInv, PathInv, Send, Unwrapped'
    PROVE  PathParts'
<1> USE DEF PathTyped
<1> DEFINE R == m_retransmitPackets
<1>1. /\ PathTyped /\ UNCHANGED downlink
    BY PathTypes DEF Send
<1>2. CASE SendFresh /\ Join(uplink, <<FreshHeader>>)
    <2> DEFINE h == FreshHeader
    <2>1. /\ m_seqNum' = m_seqNum + 1
          /\ UNCHANGED <<m_ackNum, m_retransmitPackets, m_retransRecv, m_packetRetrans>>
        BY <1>2 DEF SendFresh
    <2>2. /\ m_seqNum <= SeqMod - 1 /\ PathParts
        BY <1>1, <2>1 DEF Unwrapped, PathInv
    <2>3. h = m_seqNum /\ h \in Seqs
        <3>1. m_seqNum \in 0 .. SeqMod - 1
            BY <1>1, <2>2
        <3>2. m_seqNum % SeqMod = m_seqNum
            BY <3>1, ModSmall
        <3> QED
            BY <3>1, <3>2 DEF FreshHeader, U16, Seqs
    <2>4. \A i \in 1 .. Len(Path) : Path[i] < h
        BY <1>1, <2>3, PathSent DEF Sent
    <2>5. m_ackNum <= h
        BY <2>2, <2>3 DEF PathParts
    <2> HIDE DEF h
    <2>6. Path' = Path \/ Path' = Path \o <<h>>
        BY <1>1, <1>2, <2>3, JoinPath DEF h
    <2>7. InOrder(Path \o <<h>>, R)
        BY <1>1, <2>2, <2>3, <2>4, JoinedInOrder DEF PathParts
    <2>8. Cardinality(Late(Path \o <<h>>, m_ackNum)) <= Cardinality(Late(Path, m_ackNum))
        BY <1>1, <2>3, <2>4, <2>5, JoinedLate
    <2>9. Cardinality(Late(Path \o <<h>>, m_ackNum)) \in Nat
        BY <1>1, <2>3, LateFinite, JoinOne
    <2>10. InOrder(Path', R)
        BY <2>2, <2>6, <2>7 DEF PathParts
    <2>11. Cardinality(Late(Path', m_ackNum)) <= Cardinality(Late(Path, m_ackNum))
           /\ Cardinality(Late(Path', m_ackNum)) \in Nat
        <3>1. CASE Path' = Path
            BY <1>1, <3>1
        <3>2. CASE Path' = Path \o <<h>>
            BY <2>8, <2>9, <3>2
        <3> QED
            BY <2>6, <3>1, <3>2
    <2> QED
        BY <1>1, <2>1, <2>2, <2>10, <2>11 DEF PathParts
<1>3. CASE SendRetransmission /\ Join(uplink, <<RetransHeader>>)
    <2> DEFINE h == RetransHeader
    <2>1. /\ UNCHANGED <<m_seqNum, m_ackNum, m_retransRecv>>
          /\ m_retransmitPackets' = R \cup {h}
          /\ m_packetRetrans' = m_packetRetrans + 1
        BY <1>3 DEF SendRetransmission, windowVars
    <2>2. PathParts
        BY <2>1 DEF Unwrapped, PathInv
    <2>3. h \in Seqs
        BY ScenarioFacts
    <2> HIDE DEF h
    <2>4. Path' = Path \/ Path' = Path \o <<h>>
        BY <1>1, <1>3, <2>3, JoinPath DEF h
    <2>5. InOrder(Path, R \cup {h})
        BY <2>2 DEF PathParts, InOrder
    <2>6. InOrder(Path \o <<h>>, R \cup {h})
        BY <1>1, <2>3, <2>5, JoinedInOrder
    <2>7. Cardinality(Late(Path \o <<h>>, m_ackNum))
              <= Cardinality(Late(Path, m_ackNum)) + 1
        BY <1>1, <2>3, JoinedLate
    <2>8. Cardinality(Late(Path \o <<h>>, m_ackNum)) \in Nat
        BY <1>1, <2>3, LateFinite, JoinOne
    <2>9. InOrder(Path', R \cup {h})
        BY <2>4, <2>5, <2>6
    <2>10. Cardinality(Late(Path', m_ackNum)) <= Cardinality(Late(Path, m_ackNum)) + 1
           /\ Cardinality(Late(Path', m_ackNum)) \in Nat
        <3>1. CASE Path' = Path
            BY <1>1, <3>1
        <3>2. CASE Path' = Path \o <<h>>
            BY <2>7, <2>8, <3>2
        <3> QED
            BY <2>4, <3>1, <3>2
    <2> QED
        BY <1>1, <2>1, <2>2, <2>9, <2>10 DEF PathParts
<1>4. CASE (SendWaits \/ SendSkips) /\ UNCHANGED uplink
    <2>1. UNCHANGED pathVars /\ UNCHANGED Path
        BY <1>1, <1>4 DEF SendWaits, SendSkips, pathVars, windowVars, statVars, Path
    <2> QED
        BY <2>1 DEF pathVars, Unwrapped, PathInv, PathParts
<1> QED
    BY <1>2, <1>3, <1>4 DEF Send

LEMMA ReceiveKeepsPath ==
    ASSUME ScenarioInv, PathInv, Receive, Unwrapped'
    PROVE  PathParts'
<1> USE DEF PathTyped
<1> DEFINE s == Head(downlink)
<1>1. /\ PathTyped
      /\ Path' \in Seq(Seqs) /\ Without(Path', Path, 1) /\ Path[1] = s
    BY PathTypes, ReceivePath DEF Receive
<1>2. 1 \in 1 .. Len(Path)
    BY <1>1 DEF Without
<1>3. s \in Sent /\ s \in Seqs /\ s \in Nat
    BY <1>1, <1>2, PathSent DEF Seqs
<1> HIDE DEF s
<1>4. CASE HandleRead(s)
    <2>1. UNCHANGED <<m_seqNum, m_retransmitPackets, m_packetRetrans>>
        BY <1>4 DEF HandleRead
    <2>2. PathParts
        BY <2>1 DEF Unwrapped, PathInv
    <2>3. InOrder(Path', m_retransmitPackets)
        BY <1>1, <2>2, WithoutInOrder DEF PathParts
    <2>4. CASE s >= m_ackNum
        <3>1. m_ackNum' = s + 1 /\ UNCHANGED m_retransRecv
            BY <1>1, <1>3, <1>4, <2>4 DEF HandleRead, ExpectAfter
        <3>2. Cardinality(Late(Path', s + 1)) <= Cardinality(Late(Path, m_ackNum))
            BY <1>1, <2>4, ReadAhead
        <3>3. Cardinality(Late(Path', s + 1)) \in Nat
            BY <1>1, <1>3, LateFinite
        <3>4. s + 1 <= m_seqNum
            BY <1>1, <1>3 DEF Sent
        <3> QED
            BY <1>1, <2>1, <2>2, <2>3, <3>1, <3>2, <3>3, <3>4 DEF PathParts
    <2>5. CASE s < m_ackNum
        <3>1. m_retransRecv' = m_retransRecv + 1 /\ UNCHANGED m_ackNum
            BY <1>1, <1>3, <1>4, <2>5 DEF HandleRead
        <3>2. 1 \in Late(Path, m_ackNum)
            BY <1>1, <1>2, <2>5 DEF Late
        <3>3. Cardinality(Late(Path', m_ackNum)) + 1 <= Cardinality(Late(Path, m_ackNum))
            BY <1>1, <3>2, ThinnedPath
        <3>4. Cardinality(Late(Path', m_ackNum)) \in Nat
            BY <1>1, LateFinite
        <3> QED
            BY <1>1, <2>1, <2>2, <2>3, <3>1, <3>3, <3>4 DEF PathParts
    <2> QED
        BY <1>1, <1>3, <2>4, <2>5
<1>5. CASE HandleReadSpins(s) \/ UNCHANGED clientVars
    <2>1. UNCHANGED pathVars
        BY <1>5 DEF HandleReadSpins, clientVars, windowVars, statVars, pathVars
    <2>2. PathParts
        BY <2>1 DEF pathVars, Unwrapped, PathInv
    <2>3. /\ InOrder(Path', m_retransmitPackets)
          /\ Cardinality(Late(Path', m_ackNum)) <= Cardinality(Late(Path, m_ackNum))
        BY <1>1, <2>2, ThinnedPath DEF PathParts
    <2>4. Cardinality(Late(Path', m_ackNum)) \in Nat
        BY <1>1, LateFinite
    <2> QED
        BY <1>1, <2>1, <2>2, <2>3, <2>4 DEF PathParts, pathVars
<1> QED
    BY <1>4, <1>5 DEF Receive, s

LEMMA EchoKeepsPath ==
    ASSUME ScenarioInv, PathInv, Echo, Unwrapped'
    PROVE  PathParts'
<1> USE DEF PathTyped
<1>1. /\ PathTyped /\ UNCHANGED pathVars
      /\ Path' \in Seq(Seqs)
      /\ Path' = Path \/ Without(Path', Path, Len(downlink) + 1)
    BY PathTypes, EchoPath DEF Echo, clientVars, windowVars, statVars, pathVars
<1>2. PathParts
    BY <1>1 DEF pathVars, Unwrapped, PathInv
<1>3. /\ InOrder(Path', m_retransmitPackets)
      /\ Cardinality(Late(Path', m_ackNum)) <= Cardinality(Late(Path, m_ackNum))
    BY <1>1, <1>2, ThinnedPath DEF PathParts
<1>4. Cardinality(Late(Path', m_ackNum)) \in Nat
    BY <1>1, LateFinite
<1> QED
    BY <1>1, <1>2, <1>3, <1>4 DEF PathParts, pathVars

LEMMA StepKeepsPath ==
    ASSUME ScenarioInv, PathInv, [Next]_vars
    PROVE  PathInv'
<1> SUFFICES ASSUME Unwrapped' PROVE PathParts'
    BY DEF PathInv
<1>1. ASSUME UNCHANGED links, UNCHANGED pathVars
      PROVE  PathParts'
    BY <1>1 DEF links, Path, pathVars, Unwrapped, PathInv, PathParts
<1>2. CASE UNCHANGED vars
    BY <1>1, <1>2 DEF vars, clientVars, windowVars, statVars, pathVars
<1>3. CASE StartServer \/ StartClient \/ StopClient \/ StopServer
    BY <1>1, <1>3
       DEF StartServer, StartClient, StopClient, StopServer, StartApplication,
           StopApplication, clientVars, windowVars, statVars, pathVars
<1>4. CASE Timeout
    <2>1. UNCHANGED links
        BY <1>4 DEF Timeout
    <2>2. UNCHANGED pathVars
        BY <1>4
           DEF Timeout, HandleTimeout, TimeoutOfFirst, TimeoutOfRetransmission,
               TimeoutSpins, windowVars, statVars, pathVars
    <2> QED
        BY <1>1, <2>1, <2>2
<1>5. CASE Log
    BY <1>1, <1>5 DEF Log, PpsLog, windowVars, statVars, pathVars
<1> QED
    BY <1>2, <1>3, <1>4, <1>5, SendKeepsPath, ReceiveKeepsPath, EchoKeepsPath DEF Next

\* While no sequence number is given twice, the path to the client keeps the
\* order of the packets, but for retransmissions, and no more echoes can count
\* as those of retransmissions than there are retransmissions.
THEOREM PathInvariant == Spec => []PathInv
<1>1. Init => PathInv
    <2> SUFFICES ASSUME Init PROVE PathParts
        BY DEF PathInv
    <2>1. /\ Path = <<>> /\ m_ackNum = 0 /\ m_seqNum = 0
          /\ m_retransRecv = 0 /\ m_packetRetrans = 0
        BY DEF Init, ClientInit, Path
    <2>2. InOrder(Path, m_retransmitPackets) /\ Late(Path, m_ackNum) = {}
        BY <2>1 DEF InOrder, Late
    <2> QED
        BY <2>1, <2>2, FS_EmptySet DEF PathParts
<1>2. ScenarioInv /\ PathInv /\ [Next]_vars => PathInv'
    BY StepKeepsPath
<1> QED
    BY <1>1, <1>2, ScenarioInvariant, PTL DEF Spec

\* As long as no sequence number is given to two packets, a packet that the gap
\* rule of HandleRead takes for lost is not under way: what an echo overtakes
\* has been dropped.
THEOREM GapsAreLosses == Spec => [](Unwrapped => GapLossIsReal)
<1>1. ScenarioInv /\ PathInv => (Unwrapped => GapLossIsReal)
    <2> SUFFICES ASSUME ScenarioInv, PathInv, Unwrapped, downlink # <<>>,
                        NEW l \in LostBefore(Head(downlink)), UnderWay(l) # 0
                 PROVE  FALSE
        BY DEF GapLossIsReal
    <2> USE DEF PathTyped
    <2>1. PathTyped /\ InOrder(Path, m_retransmitPackets)
        BY PathTypes DEF PathInv, PathParts
    <2>2. PICK i \in 1 .. Len(Path) : Path[i] = l
        BY PathSent
    <2>3. Path[1] = Head(downlink) /\ 1 \in 1 .. Len(Path)
        BY <2>1, <2>2 DEF LinkTypes, Path
    <2>4. /\ l < Path[1] /\ l \notin m_retransmitPackets
          /\ Path[1] \in Int /\ l \in Int
        BY <2>1, <2>3 DEF LostBefore, Seqs
    <2>5. 1 < i
        BY <2>2, <2>4
    <2> QED
        BY <2>1, <2>2, <2>3, <2>4, <2>5 DEF InOrder
<1> QED
    BY <1>1, ScenarioInvariant, PathInvariant, PTL

\* As long as no sequence number is given to two packets, what HandleRead counts
\* as the echo of a retransmission is one: the success rate the destructor
\* prints never exceeds 100 per cent.
THEOREM SuccessesAreReal == Spec => [](Unwrapped => RetransRecvIsReal)
<1>1. ScenarioInv /\ PathInv => (Unwrapped => RetransRecvIsReal)
    BY PathTypes DEF PathTyped, PathInv, PathParts, RetransRecvIsReal
<1> QED
    BY <1>1, ScenarioInvariant, PathInvariant, PTL
----------------------------------------------------------------------------
(* The client of the scenario is one of EchoFleet.                         *)

\* Twice as many packets as there are sequence numbers can be counted in a
\* uint32_t: 2^17 is less than 2^32.
WordsFit == 2 * SeqMod <= WordMod

\* The sequence numbers last.
Lasting == m_seqNum < SeqMod

\* What the steps of EchoFleet rest on.
ClientFacts ==
    /\ TypeOK
    /\ OneSendChain
    /\ logEvents = IF phase = "running" THEN 1 ELSE 0
    /\ phase # "running" => rtoEvents = {}
    /\ m_sent = m_packetSent + m_packetRetrans
    /\ m_packetSent < SeqMod
    /\ m_packetRetrans <= m_packetLost
    /\ m_packetLost <= 2 * m_packetSent

Words      == 0 .. WordMod - 1
ReportFits == reported \in [sent : Words, lost : Words, retrans : Words]

LEMMA ClientFactsHold == Spec /\ []Lasting => []ClientFacts
<1>1. ASSUME ScenarioInv, Client!EventInv, Client!TimerInv, Lasting,
             Client!NumbersLeft => Client!Accounting,
             Client!NumbersLeft => m_packetLost <= 2 * m_packetSent
      PROVE  ClientFacts
    <2>1. TypeOK /\ OneSendChain /\ Accounting /\ Client!NumbersLeft
        BY <1>1, ScenarioFacts, SameProperties DEF Client!EventInv, Lasting
    <2>2. /\ logEvents = IF phase = "running" THEN 1 ELSE 0
          /\ phase = "created" => m_sent = 0
        BY <1>1 DEF Client!EventInv, Client!OneLogChain
    <2>3. /\ phase = "stopped" => rtoEvents = {}
          /\ \A e \in rtoEvents : e.id < m_sent
        BY <1>1, <2>1 DEF Client!TimerInv, Client!TimerParts, Client!StopReports,
           Client!EventsDiffer
    <2>4. phase # "running" => rtoEvents = {}
        BY <2>1, <2>2, <2>3 DEF TypeOK
    <2>5. /\ m_packetRetrans <= m_packetLost
          /\ m_packetSent < SeqMod
          /\ m_sent = m_packetSent + m_packetRetrans
        BY <1>1, <2>1 DEF Accounting, Lasting
    <2> QED
        BY <1>1, <2>1, <2>2, <2>4, <2>5 DEF ClientFacts
<1>2. ScenarioInv /\ Client!EventInv /\ Client!TimerInv /\ Lasting
          /\ (Client!NumbersLeft => Client!Accounting)
          /\ (Client!NumbersLeft => m_packetLost <= 2 * m_packetSent)
      => ClientFacts
    BY <1>1
<1> QED
    BY <1>2, ScenarioInvariant, ScenarioRunsClient, Client!EventInvariant,
       Client!TimerInvariant, Client!CountersAddUp, Client!LossesBounded, PTL

LEMMA CountersAreWords ==
    ASSUME WordsFit, ClientFacts
    PROVE  /\ m_packetSent \in Words /\ m_packetLost \in Words
           /\ m_packetRetrans \in Words
           /\ Counters \in [sent : Words, lost : Words, retrans : Words]
<1>1. /\ m_packetSent \in Nat /\ m_packetLost \in Nat /\ m_packetRetrans \in Nat
      /\ m_packetSent < SeqMod
      /\ m_packetRetrans <= m_packetLost /\ m_packetLost <= 2 * m_packetSent
      /\ 2 * SeqMod <= WordMod
    BY DEF ClientFacts, TypeOK, WordsFit
<1> QED
    BY <1>1 DEF Words, Counters

\* A step of the client reports its counters or none.
LEMMA ReportOrNone == [Next]_vars => reported' \in {reported, Counters}
BY DEF Next, vars, clientVars, logVars, Send, SendFresh, SendRetransmission,
       SendWaits, SendSkips, Echo, Receive, HandleRead, HandleReadSpins,
       Timeout, HandleTimeout, TimeoutOfFirst, TimeoutOfRetransmission,
       TimeoutSpins, Log, PpsLog, StartServer, StartClient, StartApplication,
       StopClient, StopApplication, StopServer

LEMMA ReportAlwaysFits ==
    ASSUME WordsFit
    PROVE  Spec /\ []Lasting => []ReportFits
<1>1. Init => ReportFits
    BY DEF Init, ClientInit, ReportFits, Words
<1>2. ClientFacts /\ ReportFits /\ [Next]_vars => ReportFits'
    BY ReportOrNone, CountersAreWords DEF ReportFits
<1> QED
    BY <1>1, <1>2, ClientFactsHold, PTL DEF Spec

----------------------------------------------------------------------------
(* EchoFleet with one client.                                              *)

\* The functions over the clients are sequences of one value here.
LEMMA OneValue ==
    /\ \A x : <<x>>[1] = x /\ <<x>> = [c \in 1 .. 1 |-> x]
    /\ \A x, y : [<<x>> EXCEPT ![1] = y] = <<y>>
    /\ \A x, y : <<x>> = <<y>> <=> x = y
    /\ \A x : DOMAIN <<x>> = {1}
OBVIOUS

LEMMA OneClient ==
    /\ Fleet!Clients = {1} /\ Fleet!Slots = 1 .. 1
    /\ Fleet!PacketLimit(1) = MaxPackets
    /\ Fleet!Datagrams(1) = m_packetSent + m_packetRetrans
    /\ Fleet!Counters(1) = Counters
    /\ \A x, n : Fleet!Add(<<x>>, 1, n) = <<x + n>>
BY OneValue DEF Fleet!Clients, Fleet!Slots, Fleet!PacketLimit, Fleet!Datagrams,
   Fleet!Counters, Counters, Fleet!Add
\* A report brings the sum of the log up to the counters of the client.
LEMMA ReportIsReport ==
    ASSUME WordsFit, ClientFacts, ReportFits, reported' = Counters
    PROVE  Fleet!Report(1)
<1> DEFINE a == Counters
<1>1. /\ a \in [sent : Words, lost : Words, retrans : Words]
      /\ reported \in [sent : Words, lost : Words, retrans : Words]
    BY CountersAreWords DEF ReportFits
<1>2. WordMod \in Nat \ {0}
    OBVIOUS
<1> HIDE DEF a
<1>3. \A f \in {"sent", "lost", "retrans"} :
          (reported[f] + ((a[f] - reported[f]) % WordMod)) % WordMod = a[f]
    <2> SUFFICES ASSUME NEW f \in {"sent", "lost", "retrans"}
                 PROVE  (reported[f] + ((a[f] - reported[f]) % WordMod)) % WordMod
                            = a[f]
        OBVIOUS
    <2>1. a[f] \in 0 .. WordMod - 1 /\ reported[f] \in 0 .. WordMod - 1
        BY <1>1 DEF Words
    <2> QED
        BY <1>2, <2>1, DifferenceAddsUp
<1>4. a = [f \in {"sent", "lost", "retrans"} |->
              (reported[f] + ((a[f] - reported[f]) % WordMod)) % WordMod]
    BY <1>1, <1>3
<1>5. reported' = a /\ Fleet!Counters(1) = a
    BY OneClient DEF a
<1> QED
    BY <1>4, <1>5 DEF Fleet!Report, Fleet!Rates, Fleet!Remembered, Fleet!Figures

\* What the client of EchoFleet is made of.
fleetVars == <<phase, m_packetSent, m_packetLost, m_packetRetrans,
               Len(uplink), Len(downlink), logEvents, reported, ppsLogs>>

LEMMA FleetStutters ==
    ASSUME UNCHANGED <<fleetVars, m_sockets>>
    PROVE  UNCHANGED Fleet!vars
BY DEF fleetVars, Fleet!vars, Fleet!helperVars, Fleet!runVars,
   Fleet!counterVars, Fleet!linkVars, Fleet!reportVars

LEMMA ClientMoves ==
    ASSUME \/ Fleet!StartClient(1) \/ Fleet!StopClient(1) \/ Fleet!PpsLog(1)
           \/ Fleet!SendFresh(1) \/ Fleet!SendRetransmission(1)
           \/ Fleet!Timeout(1) \/ Fleet!Echo(1) \/ Fleet!Receive(1),
           UNCHANGED m_sockets
    PROVE  Fleet!Simulate
<1>1. Fleet!ClientStep(1)
    BY DEF Fleet!ClientStep
<1>2. 1 \in Fleet!Clients
    BY OneClient
<1> QED
    BY <1>1, <1>2 DEF Fleet!Simulate, Fleet!helperVars

LEMMA ServerMoves ==
    ASSUME StartServer \/ StopServer
    PROVE  Fleet!Simulate
<1>1. Fleet!ServerStartApplication \/ Fleet!ServerStopApplication
    BY DEF StartServer, StopServer, ServerStartApplication, ServerStopApplication,
       Fleet!ServerStartApplication, Fleet!ServerStopApplication
<1>2. UNCHANGED fleetVars
    BY DEF StartServer, StopServer, fleetVars, clientVars, statVars, logVars, links
<1>3. UNCHANGED Fleet!runVars
    BY <1>2 DEF fleetVars, Fleet!runVars, Fleet!counterVars, Fleet!linkVars,
       Fleet!reportVars
<1> QED
    BY <1>1, <1>3 DEF Fleet!Simulate, Fleet!ServerStep, Fleet!helperVars

LEMMA ControlMoves ==
    ASSUME WordsFit, ClientFacts, ClientFacts', ReportFits,
           StartClient \/ StopClient \/ Log
    PROVE  Fleet!Simulate
<1> USE OneClient, OneValue DEF Fleet!counterVars, Fleet!linkVars, Fleet!reportVars
<1>1. CASE StartClient
    <2>1. /\ phase = "created" /\ phase' = "running"
          /\ logEvents' = logEvents + 1
          /\ UNCHANGED <<m_packetSent, m_packetLost, m_packetRetrans, uplink,
                         downlink, reported, ppsLogs, m_sockets>>
        BY <1>1 DEF StartClient, StartApplication, statVars, links
    <2>2. Fleet!StartClient(1)
        BY <2>1 DEF Fleet!StartClient
    <2> QED
        BY <2>1, <2>2, ClientMoves
<1>2. CASE StopClient
    <2>1. /\ phase = "running" /\ phase' = "stopped" /\ reported' = Counters
          /\ UNCHANGED <<m_packetSent, m_packetLost, m_packetRetrans, uplink,
                         downlink, ppsLogs, m_sockets>>
        BY <1>2 DEF StopClient, StopApplication, statVars, links
    <2>2. logEvents' = 0
        BY <2>1 DEF ClientFacts
    <2>3. Fleet!Report(1)
        BY <2>1, ReportIsReport
    <2>4. Fleet!StopClient(1)
        BY <2>1, <2>2, <2>3 DEF Fleet!StopClient
    <2> QED
        BY <2>1, <2>4, ClientMoves
<1>3. CASE Log
    <2>1. /\ logEvents > 0 /\ ppsLogs < PpsLimit /\ ppsLogs' = ppsLogs + 1
          /\ reported' = Counters
          /\ UNCHANGED <<phase, m_packetSent, m_packetLost, m_packetRetrans,
                         uplink, downlink, logEvents, m_sockets>>
        BY <1>3 DEF Log, PpsLog, statVars, links
    <2>2. Fleet!Report(1)
        BY <2>1, ReportIsReport
    <2>3. Fleet!PpsLog(1)
        BY <2>1, <2>2 DEF Fleet!PpsLog
    <2> QED
        BY <2>1, <2>3, ClientMoves
<1> QED
    BY <1>1, <1>2, <1>3

\* A datagram that joins a line makes it longer by one.
LEMMA JoinedLength ==
    ASSUME NEW line \in Seq(Seqs), NEW longer, NEW d \in Seqs,
           \/ longer = line \o <<d>>
           \/ longer = line
    PROVE  Len(longer) \in {Len(line), Len(line) + 1}
OBVIOUS

LEMMA SendMoves ==
    ASSUME ScenarioInv, ClientFacts, ClientFacts', Send
    PROVE  Fleet!Simulate \/ UNCHANGED Fleet!vars
<1> USE OneClient, OneValue
        DEF Fleet!counterVars, Fleet!linkVars, Fleet!reportVars, Fleet!Add
<1>1. UNCHANGED <<m_sockets, downlink>>
    BY DEF Send
<1>2. CASE SendWaits \/ SendSkips
    <2>1. UNCHANGED <<fleetVars, m_sockets>>
        BY <1>1, <1>2 DEF Send, SendFresh, SendRetransmission, SendWaits,
           SendSkips, fleetVars, statVars, logVars
    <2> QED
        BY <2>1, FleetStutters
<1>3. ASSUME NEW h \in Seqs, Join(uplink, <<h>>), SendIsDue, Transmit(h),
             UNCHANGED <<phase, m_packetLost, logVars>>
      PROVE  Fleet!Transmit(1)
    <2>1. Len(uplink') \in {Len(uplink), Len(uplink) + 1}
        <3>1. uplink \in Seq(Seqs)
            BY DEF ScenarioInv, LinkTypes
        <3> QED
            BY <1>3, <3>1, JoinedLength DEF Join
    <2>2. phase = "running" /\ (m_sent < MaxPackets \/ m_sent = 0)
        BY <1>3 DEF SendIsDue, ClientFacts, OneSendChain
    <2>3. Fleet!WithinBudget(1)
        BY <2>2 DEF ClientFacts, Fleet!WithinBudget
    <2>4. <<Len(uplink')>> \in {<<Len(uplink)>>, Fleet!Add(<<Len(uplink)>>, 1, 1)}
        BY <2>1
    <2> QED
        BY <1>1, <1>3, <2>2, <2>3, <2>4 DEF Fleet!Transmit, logVars
<1>4. CASE SendFresh /\ Join(uplink, <<FreshHeader>>)
    <2>1. Fleet!Transmit(1)
        BY <1>3, <1>4, ScenarioFacts DEF SendFresh
    <2>2. m_packetSent' = m_packetSent + 1 /\ UNCHANGED m_packetRetrans
        BY <1>4 DEF SendFresh
    <2>3. Fleet!SendFresh(1)
        BY <2>1, <2>2 DEF Fleet!SendFresh
    <2> QED
        BY <1>1, <2>3, ClientMoves
<1>5. CASE SendRetransmission /\ Join(uplink, <<RetransHeader>>)
    <2>1. Fleet!Transmit(1)
        BY <1>3, <1>5, ScenarioFacts DEF SendRetransmission
    <2>2. /\ m_packetRetrans' = m_packetRetrans + 1
          /\ UNCHANGED <<m_packetSent, m_packetLost>>
        BY <1>5 DEF SendRetransmission
    <2>3. m_packetRetrans < m_packetLost
        BY <2>2 DEF ClientFacts, TypeOK
    <2>4. Fleet!SendRetransmission(1)
        BY <2>1, <2>2, <2>3 DEF Fleet!SendRetransmission
    <2> QED
        BY <1>1, <2>4, ClientMoves
<1> QED
    BY <1>2, <1>4, <1>5 DEF Send

LEMMA TimeoutMoves ==
    ASSUME ClientFacts, ClientFacts', Timeout
    PROVE  Fleet!Simulate \/ UNCHANGED Fleet!vars
<1> USE OneClient, OneValue
        DEF Fleet!counterVars, Fleet!linkVars, Fleet!reportVars
<1>1. PICK e \in rtoEvents : HandleTimeout(e)
    BY DEF Timeout
<1>2. UNCHANGED <<links, m_sockets>>
    BY DEF Timeout
<1>3. CASE TimeoutOfFirst(e)
    <2>1. /\ m_packetLost' = m_packetLost + 1
          /\ UNCHANGED <<phase, m_packetSent, m_packetRetrans, logVars>>
        BY <1>3 DEF TimeoutOfFirst
    <2>2. phase = "running"
        BY DEF ClientFacts
    <2>3. m_packetLost + 1 \in m_packetLost .. 2 * m_packetSent
        BY <2>1 DEF ClientFacts, TypeOK
    <2>4. Fleet!Timeout(1)
        BY <1>2, <2>1, <2>2, <2>3 DEF Fleet!Timeout, Fleet!Losses, links, logVars
    <2> QED
        BY <1>2, <2>4, ClientMoves
<1>4. CASE TimeoutOfRetransmission(e) \/ TimeoutSpins(e)
    <2>1. UNCHANGED <<fleetVars, m_sockets>>
        BY <1>2, <1>4 DEF TimeoutOfRetransmission, TimeoutSpins, fleetVars,
           statVars, logVars, links
    <2> QED
        BY <2>1, FleetStutters
<1> QED
    BY <1>1, <1>3, <1>4 DEF HandleTimeout

LEMMA EchoMoves ==
    ASSUME ScenarioInv, Echo
    PROVE  Fleet!Simulate
<1> USE OneClient, OneValue
        DEF Fleet!counterVars, Fleet!linkVars, Fleet!reportVars, Fleet!Add
<1>1. /\ uplink \in Seq(Seqs) /\ uplink # <<>> /\ uplink' = Tail(uplink)
      /\ downlink \in Seq(Seqs)
      /\ Join(downlink, ServerHandleRead(Head(uplink)))
      /\ UNCHANGED <<phase, m_packetSent, m_packetLost, m_packetRetrans,
                     logEvents, reported, ppsLogs, m_sockets>>
    BY DEF ScenarioInv, LinkTypes, Echo, clientVars, statVars, logVars
<1>2. Len(uplink) > 0 /\ Len(uplink') = Len(uplink) - 1
    BY <1>1
<1>3. Len(downlink') \in {Len(downlink), Len(downlink) + Len(Fleet!ServerHandleRead(1))}
    <2>1. CASE m_sockets = "open"
        <3>1. ServerHandleRead(Head(uplink)) = <<Head(uplink)>>
              /\ Head(uplink) \in Seqs
            BY <1>1, <2>1 DEF ServerHandleRead
        <3>2. Len(downlink') \in {Len(downlink), Len(downlink) + 1}
            BY <1>1, <3>1, JoinedLength DEF Join
        <3>3. Len(Fleet!ServerHandleRead(1)) = 1
            BY <2>1 DEF Fleet!ServerHandleRead
        <3> QED
            BY <3>2, <3>3
    <2>2. CASE m_sockets # "open"
        <3>1. downlink' = downlink
            BY <1>1, <2>2 DEF ServerHandleRead, Join
        <3> QED
            BY <3>1
    <2> QED
        BY <2>1, <2>2
<1>4. Fleet!Echo(1)
    BY <1>1, <1>2, <1>3 DEF Fleet!Echo, Fleet!Sender
<1> QED
    BY <1>1, <1>4, ClientMoves

LEMMA ReceiveMoves ==
    ASSUME ScenarioInv, ClientFacts, ClientFacts', Receive
    PROVE  Fleet!Simulate
<1>1. /\ downlink \in Seq(Seqs) /\ downlink # <<>> /\ downlink' = Tail(downlink)
      /\ UNCHANGED <<uplink, m_sockets>>
      /\ Head(downlink) \in Seqs
    BY DEF ScenarioInv, LinkTypes, Receive
<1>2. /\ UNCHANGED <<phase, m_packetSent, m_packetRetrans, logEvents, reported,
                     ppsLogs>>
      /\ \/ UNCHANGED m_packetLost
         \/ /\ phase = "running"
            /\ m_packetLost' = m_packetLost + Cardinality(LostBefore(Head(downlink)))
    BY DEF Receive, HandleRead, HandleReadSpins, Listening, clientVars, statVars,
       logVars
<1>3. Cardinality(LostBefore(Head(downlink))) \in Nat
    <2>1. m_ackNum \in Int /\ Head(downlink) - 1 \in Int
        <3>1. m_ackNum \in Nat
            BY DEF ClientFacts, TypeOK
        <3>2. \A n \in Seqs : n - 1 \in Int
            BY DEF Seqs
        <3> QED
            BY <1>1, <3>1, <3>2
    <2>2. IsFiniteSet(m_ackNum .. Head(downlink) - 1)
        BY <2>1, FS_Interval
    <2>3. LostBefore(Head(downlink)) \in SUBSET (m_ackNum .. Head(downlink) - 1)
        BY DEF LostBefore
    <2> QED
        BY <2>2, <2>3, FS_Subset, FS_CardinalityType
<1>4. \/ UNCHANGED m_packetLost
      \/ phase = "running" /\ m_packetLost' \in m_packetLost .. 2 * m_packetSent
    <2>1. m_packetLost \in Nat /\ m_packetLost' \in Nat /\ m_packetSent \in Nat
        BY DEF ClientFacts, TypeOK
    <2>2. m_packetLost' <= 2 * m_packetSent
        BY <1>2 DEF ClientFacts
    <2>3. CASE /\ phase = "running"
               /\ m_packetLost' = m_packetLost + Cardinality(LostBefore(Head(downlink)))
        BY <1>3, <2>1, <2>2, <2>3
    <2> QED
        BY <1>2, <2>3
<1>5. Len(downlink) > 0 /\ Len(downlink') = Len(downlink) - 1
    BY <1>1
<1>6. Fleet!Receive(1)
    BY <1>1, <1>2, <1>4, <1>5, OneClient, OneValue
       DEF Fleet!Receive, Fleet!Losses, Fleet!linkVars, Fleet!reportVars
<1> QED
    BY <1>1, <1>6, ClientMoves

LEMMA StepIsFleetStep ==
    ASSUME WordsFit, ScenarioInv, ClientFacts, ClientFacts', ReportFits,
           [Next]_vars
    PROVE  [Fleet!Simulate]_(Fleet!vars)
<1>1. CASE UNCHANGED vars
    <2>1. UNCHANGED <<fleetVars, m_sockets>>
        BY <1>1 DEF vars, clientVars, statVars, logVars, links, fleetVars
    <2> QED
        BY <2>1, FleetStutters
<1> QED
    BY <1>1, ServerMoves, ControlMoves, SendMoves, TimeoutMoves, EchoMoves,
       ReceiveMoves DEF Next

LEMMA InitIsConstructed == Init => Fleet!Constructed
<1> SUFFICES ASSUME Init PROVE Fleet!Constructed
    OBVIOUS
<1>1. /\ Fleet!ServerInit
      /\ phase = "created" /\ m_packetSent = 0 /\ m_packetLost = 0
      /\ m_packetRetrans = 0 /\ logEvents = 0 /\ ppsLogs = 0
      /\ Len(uplink) = 0 /\ Len(downlink) = 0
      /\ reported = [sent |-> 0, lost |-> 0, retrans |-> 0]
    BY DEF Init, ClientInit, ServerInit, Fleet!ServerInit
<1>2. reported = Fleet!Zero
    BY <1>1 DEF Fleet!Zero, Fleet!Figures
<1> QED
    BY <1>1, <1>2, OneValue, OneClient DEF Fleet!Constructed

\* As long as the sequence numbers last, the client of the scenario is one
\* EchoFleet allows: Send, HandleRead, HandleTimeout and PpsLog move its
\* counters as they move there, so that a packet is taken for lost twice at
\* most, retransmissions follow losses, and the log adds up to the counters.
THEOREM ScenarioRefinesFleet ==
    ASSUME WordsFit
    PROVE  Spec /\ []Lasting => ImplementsFleet
<1>1. ScenarioInv /\ ClientFacts /\ ClientFacts' /\ ReportFits /\ [Next]_vars
          => [Fleet!Simulate]_(Fleet!vars)
    BY StepIsFleetStep
<1> QED
    BY <1>1, InitIsConstructed, ScenarioInvariant, ClientFactsHold,
       ReportAlwaysFits, PTL DEF Spec, Fleet!RunSpec, ImplementsFleet

\* With a budget below 65536 the sequence numbers last for ever, so that
\* nothing proved here is limited to the time until they run out.
THEOREM SmallBudgetsLast ==
    ASSUME MaxPackets < SeqMod, 1 < SeqMod
    PROVE  Spec => []Lasting
<1>1. Client!Spec => []Client!NumbersLeft
    BY Client!NumbersLast
<1>2. Client!NumbersLeft => Lasting
    BY SameProperties DEF Lasting
<1> QED
    BY <1>1, <1>2, ScenarioRunsClient, PTL

\* A client with such a budget keeps, in the scenario and for ever, the promises
\* of HandleRead, HandleTimeout, Send and StopApplication.
THEOREM SmallBudgetsKeepAll ==
    ASSUME MaxPackets < SeqMod, 1 < SeqMod
    PROVE  Spec => [](/\ NoStrandedPacket /\ TimersMatch /\ QueueBound
                      /\ Accounting /\ QuietAfterStop /\ WaitIsTimed
                      /\ GapLossIsReal /\ RetransRecvIsReal)
<1>1. Lasting /\ ScenarioInv => m_seqNum < SeqMod /\ Unwrapped
    BY ScenarioFacts DEF TypeOK, Unwrapped, Lasting
<1> QED
    BY <1>1, SmallBudgetsLast, ScenarioInvariant, NoneStrandedOnLinks,
       ScenarioKeepsPromises, GapsAreLosses, SuccessesAreReal, PTL

\* So the whole client with such a budget implements its reduction.
THEOREM SmallBudgetsRefineFleet ==
    ASSUME MaxPackets < SeqMod, 1 < SeqMod, WordsFit
    PROVE  Spec => ImplementsFleet
BY SmallBudgetsLast, ScenarioRefinesFleet, PTL
================================================================================
