---------------------------- MODULE ClientOverUdp ----------------------------
(***************************************************************************)
(* The client of assignment03 over the weakest network it may be given: a  *)
(* datagram or its echo can overtake others and can be lost, but is not    *)
(* duplicated.  The echo server is part of the network here (it returns    *)
(* every datagram as it is); ReliableEcho models it, and the links of      *)
(* assn3.cc, and implements this specification.                            *)
(***************************************************************************)
EXTENDS UdpReliableEchoClient

VARIABLE
    flight    \* for each sequence number, its datagrams and echoes under way

vars == <<clientVars, flight>>

Init ==
    /\ ClientInit
    /\ flight = [s \in Seqs |-> 0]

\* The socket takes a datagram with sequence number s: it enters the network,
\* or the first queue is full.
Launch(s) ==
    \/ flight' = [flight EXCEPT ![s] = @ + 1]
    \/ UNCHANGED flight

\* A datagram or its echo leaves the network.
Land(s) == flight[s] > 0 /\ flight' = [flight EXCEPT ![s] = @ - 1]

\* The Send event of the client.
Send ==
    \/ SendFresh /\ Launch(FreshHeader)
    \/ SendRetransmission /\ Launch(RetransHeader)
    \/ SendWaits /\ UNCHANGED flight
    \/ SendSkips /\ UNCHANGED flight

\* The echo of s reaches the client.
Receive(s) == Land(s) /\ (HandleRead(s) \/ HandleReadSpins(s))

\* A datagram or its echo is lost: a queue is full, the error model rejects
\* it, or the socket it arrives at is closed.
Lose(s) == ~spinning /\ Land(s) /\ UNCHANGED clientVars

Timeout == \E e \in rtoEvents : HandleTimeout(e) /\ UNCHANGED flight

Start == StartApplication /\ UNCHANGED flight
Stop  == StopApplication /\ UNCHANGED flight
Log   == PpsLog /\ UNCHANGED flight

Next ==
    \/ Start \/ Stop \/ Log
    \/ Send \/ Timeout
    \/ \E s \in Seqs : Receive(s) \/ Lose(s)

Spec == Init /\ [][Next]_vars

\* The simulator runs every event of its queue, and a datagram under way is
\* delivered or lost in the end.  An application need not be stopped.
Fairness ==
    /\ WF_vars(Start)
    /\ WF_vars(Send)
    /\ WF_vars(Timeout)
    /\ WF_vars(\E s \in Seqs : Receive(s) \/ Lose(s))

FairSpec == Spec /\ Fairness

----------------------------------------------------------------------------
\* flight counts datagrams under way.
TypeInvariant == TypeOK /\ flight \in [Seqs -> Nat]

\* The client keeps the promise of SelectiveRepeat: each packet of the window
\* is sent once and retransmitted at most once, the base moves over settled
\* packets only, and a packet is settled by its echo or given up after its
\* retransmission.
SR == INSTANCE SelectiveRepeat WITH
        Packets <- Seqs, Budget <- MaxPackets,
        base <- m_windowBase, next <- m_seqNum, settled <- m_receivedPackets,
        resent <- m_retransmitPackets

ImplementsSelectiveRepeat == SR!Spec

\* A packet whose echo arrives before HandleRead or HandleTimeout takes it for
\* lost is never queued for retransmission: HandleRead has cancelled its timer,
\* and no gap counts it.  Once it is queued its echo comes too late, for Send
\* looks at m_retransmitPackets only and retransmits it all the same.
LeavesEchoedAlone ==
    \A s \in m_receivedPackets \ (Queued \cup m_retransmitPackets) : s \notin Queued'

EchoedInTime == [][LeavesEchoedAlone]_vars
==============================================================================
