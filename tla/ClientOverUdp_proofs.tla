------------------------ MODULE ClientOverUdp_proofs ------------------------
(***************************************************************************)
(* What holds of the client over any network that loses and reorders, for  *)
(* every window, timer length, budget and number of sequence numbers: the  *)
(* window, the events, the counters and the abstract sender; then the      *)
(* timers and the packets echoed in time; then the queue of                *)
(* retransmissions, the waits of Send and the schedule of the timers.      *)
(***************************************************************************)
EXTENDS ClientOverUdp, NumberLemmas

USE ConstantsAssumption

\* Every packet the client or the network knows of has been sent.
SentOnly ==
    /\ m_receivedPackets \subseteq Sent
    /\ m_retransmitPackets \subseteq Sent
    /\ \A s \in Seqs : flight[s] > 0 => s \in Sent
    /\ \A e \in rtoEvents : e.seq \in Sent
    /\ \A i \in DOMAIN m_retransmissions : m_retransmissions[i][1] \in Sent

\* As long as there are sequence numbers left, a range holds one packet.
UnitRanges ==
    m_seqNum < SeqMod =>
        /\ m_retransmit =>
               m_retransSeq \in Sent /\ m_retransStop = m_retransSeq + 1
        /\ \A i \in DOMAIN m_retransmissions :
               m_retransmissions[i][2] = m_retransmissions[i][1] + 1

\* The inductive invariant behind WindowBound.
WindowInv ==
    /\ TypeInvariant
    /\ m_windowBase < SeqMod
    /\ WindowBound
    /\ SentOnly
    /\ UnitRanges
    /\ SpinsOnlyAtTheEnd

----------------------------------------------------------------------------
(* The operators of the client.                                            *)

\* Ascending lists the members of a finite set of numbers.
LEMMA AscendingLists ==
    ASSUME NEW S \in SUBSET Nat, IsFiniteSet(S)
    PROVE  /\ Ascending(S) \in Seq(S)
           /\ Len(Ascending(S)) = Cardinality(S)
           /\ Ascending(S) \in [1 .. Cardinality(S) -> S]
           /\ \A i, j \in 1 .. Cardinality(S) :
                  i < j => Ascending(S)[i] < Ascending(S)[j]
<1>1. Cardinality(S) \in Nat
    BY FS_CardinalityType
<1>2. /\ Ascending(S) \in [1 .. Cardinality(S) -> S]
      /\ \A i, j \in 1 .. Cardinality(S) :
             i < j => Ascending(S)[i] < Ascending(S)[j]
    BY <1>1, Listing, Zenon DEF Ascending
<1> QED
    BY <1>1, <1>2

\* The loop that moves the window stops at the first packet that is not in
\* m_receivedPackets.
LEMMA SlidToFirstMissing ==
    ASSUME m_windowBase \in Nat,
           NEW R \in SUBSET Seqs, SlideEnds(R),
           \A s \in 0 .. m_windowBase - 1 : s \in R
    PROVE  /\ SlidTo(R) \in m_windowBase .. SeqMod - 1
           /\ SlidTo(R) \notin R
           /\ \A s \in 0 .. SlidTo(R) - 1 : s \in R
<1>1. PICK c \in m_windowBase .. SeqMod - 1 :
        c \notin R /\ \A d \in 0 .. c - 1 : d \in R
    BY FirstMissing DEF Seqs, SlideEnds
<1>2. \A d \in 0 .. SeqMod - 1 : U16(d) = d
    BY ModSmall DEF U16
<1>3. /\ c \in m_windowBase .. m_windowBase + SeqMod
      /\ U16(c) \notin R
      /\ \A d \in m_windowBase .. c - 1 : U16(d) \in R
    BY <1>1, <1>2
<1>4. /\ SlidTo(R) \in m_windowBase .. m_windowBase + SeqMod
      /\ U16(SlidTo(R)) \notin R
      /\ \A d \in m_windowBase .. SlidTo(R) - 1 : U16(d) \in R
    BY <1>3 DEF SlidTo
<1>5. ~(c < SlidTo(R))
    BY <1>1, <1>2, <1>4
<1>6. SlidTo(R) \in m_windowBase .. SeqMod - 1
    BY <1>1, <1>4, <1>5
<1>7. SlidTo(R) \notin R
    BY <1>2, <1>4, <1>6
<1>8. \A s \in 0 .. SlidTo(R) - 1 : s \in R
    BY <1>2, <1>4, <1>6
<1> QED
    BY <1>6, <1>7, <1>8

\* The part of the invariants about the ranges alone.
RangeTypes ==
    /\ m_retransmit \in BOOLEAN
    /\ m_retransSeq \in Nat
    /\ m_retransStop \in Nat
    /\ m_retransmissions \in Seq(Seqs \X Seqs)

QueueSent ==
    \A i \in DOMAIN m_retransmissions : m_retransmissions[i][1] \in Sent

\* The ranges of packets that have been sent, joined to the queue.
LEMMA QueueGrows ==
    ASSUME m_seqNum \in Nat, RangeTypes, QueueSent, UnitRanges,
           NEW lost \in Seq(Seqs), \A i \in DOMAIN lost : lost[i] \in Sent
    PROVE  LET queue == m_retransmissions \o RangesOf(lost)
           IN  /\ queue \in Seq(Seqs \X Seqs)
               /\ \A i \in DOMAIN queue :
                      /\ queue[i][1] \in Sent
                      /\ m_seqNum < SeqMod => queue[i][2] = queue[i][1] + 1
<1> DEFINE more  == RangesOf(lost)
           queue == m_retransmissions \o more
<1>1. \A i \in 1 .. Len(lost) : lost[i] \in 0 .. SeqMod - 1 /\ lost[i] \in Sent
    BY DEF Seqs
<1>2. \A i \in 1 .. Len(lost) : U16(lost[i] + 1) \in Seqs
    <2>1. \A x \in Int : U16(x) \in Seqs
        BY ModRange DEF U16, Seqs
    <2> QED
        BY <1>1, <2>1
<1>3. ASSUME m_seqNum < SeqMod, NEW i \in 1 .. Len(lost)
      PROVE  U16(lost[i] + 1) = lost[i] + 1
    <2>1. lost[i] + 1 \in 0 .. SeqMod - 1
        BY <1>1, <1>3 DEF Sent
    <2> QED
        BY <2>1, ModSmall DEF U16
<1>4. more = [i \in 1 .. Len(lost) |-> <<lost[i], U16(lost[i] + 1)>>]
    BY DEF RangesOf
<1>5. more \in Seq(Seqs \X Seqs) /\ Len(more) = Len(lost)
    BY <1>1, <1>2, <1>4 DEF Seqs
<1>6. \A i \in 1 .. Len(more) :
         /\ more[i][1] \in Sent
         /\ m_seqNum < SeqMod => more[i][2] = more[i][1] + 1
    BY <1>1, <1>3, <1>4, <1>5
<1> HIDE DEF more
<1>7. queue \in Seq(Seqs \X Seqs)
    BY <1>5 DEF RangeTypes
<1>8. \A i \in DOMAIN queue :
         \/ i \in DOMAIN m_retransmissions /\ queue[i] = m_retransmissions[i]
         \/ \E j \in 1 .. Len(more) : queue[i] = more[j]
    <2>1. m_retransmissions \in Seq(Seqs \X Seqs)
        BY DEF RangeTypes
    <2> SUFFICES ASSUME NEW i \in DOMAIN queue, i > Len(m_retransmissions)
                 PROVE  \E j \in 1 .. Len(more) : queue[i] = more[j]
        BY <1>5, <2>1
    <2>2. /\ i - Len(m_retransmissions) \in 1 .. Len(more)
          /\ queue[i] = more[i - Len(m_retransmissions)]
        BY <1>5, <2>1
    <2> QED
        BY <2>2
<1>9. \A i \in DOMAIN queue :
         /\ queue[i][1] \in Sent
         /\ m_seqNum < SeqMod => queue[i][2] = queue[i][1] + 1
    BY <1>6, <1>8 DEF QueueSent, UnitRanges
<1> QED
    BY <1>7, <1>9 DEF more

\* Enqueue keeps what is known of the ranges.
LEMMA EnqueueKeepsRanges ==
    ASSUME m_seqNum \in Nat, RangeTypes, QueueSent, UnitRanges,
           NEW lost \in Seq(Seqs), \A i \in DOMAIN lost : lost[i] \in Sent,
           Enqueue(lost), m_seqNum' = m_seqNum
    PROVE  RangeTypes' /\ QueueSent' /\ UnitRanges'
<1>1. CASE lost = <<>>
    BY <1>1 DEF Enqueue, rangeVars, RangeTypes, QueueSent, UnitRanges, Sent
<1>2. CASE lost # <<>> /\ ~m_retransmit
    <2>1. /\ m_retransmit' = TRUE
          /\ m_retransSeq' = Head(lost)
          /\ m_retransStop' = Head(lost) + 1
          /\ m_retransmissions' = m_retransmissions \o RangesOf(Tail(lost))
        BY <1>2 DEF Enqueue
    <2>2. Head(lost) \in 0 .. SeqMod - 1 /\ Head(lost) \in Sent
        BY <1>2 DEF Seqs
    <2>3. Tail(lost) \in Seq(Seqs) /\ \A i \in DOMAIN Tail(lost) : Tail(lost)[i] \in Sent
        BY <1>2
    <2>4. /\ m_retransmissions' \in Seq(Seqs \X Seqs)
          /\ \A i \in DOMAIN m_retransmissions' :
                 /\ m_retransmissions'[i][1] \in Sent
                 /\ m_seqNum < SeqMod =>
                        m_retransmissions'[i][2] = m_retransmissions'[i][1] + 1
        BY <2>1, <2>3, QueueGrows
    <2> QED
        BY <2>1, <2>2, <2>4 DEF RangeTypes, QueueSent, UnitRanges, Sent
<1>3. CASE lost # <<>> /\ m_retransmit
    <2>1. /\ m_retransmissions' = m_retransmissions \o RangesOf(lost)
          /\ UNCHANGED <<m_retransmit, m_retransSeq, m_retransStop>>
        BY <1>3 DEF Enqueue
    <2>2. /\ m_retransmissions' \in Seq(Seqs \X Seqs)
          /\ \A i \in DOMAIN m_retransmissions' :
                 /\ m_retransmissions'[i][1] \in Sent
                 /\ m_seqNum < SeqMod =>
                        m_retransmissions'[i][2] = m_retransmissions'[i][1] + 1
        BY <2>1, QueueGrows
    <2> QED
        BY <2>1, <2>2 DEF RangeTypes, QueueSent, UnitRanges, Sent
<1> QED
    BY <1>1, <1>2, <1>3 DEF RangeTypes

\* So does AdvanceRange.
LEMMA AdvanceRangeKeepsRanges ==
    ASSUME m_seqNum \in Nat, RangeTypes, QueueSent, UnitRanges, m_retransmit,
           AdvanceRange, m_seqNum' = m_seqNum
    PROVE  RangeTypes' /\ QueueSent' /\ UnitRanges'
<1> DEFINE after == U32(m_retransSeq + 1)
<1>1. after \in Nat
    BY ModRange DEF U32, RangeTypes
<1>2. m_seqNum < SeqMod => after = m_retransStop
    BY ModSmall DEF U32, UnitRanges, Sent
<1>3. CASE after # m_retransStop
    BY <1>1, <1>2, <1>3 DEF AdvanceRange, RangeTypes, QueueSent, UnitRanges, Sent
<1>4. CASE after = m_retransStop /\ m_retransmissions = <<>>
    BY <1>1, <1>4 DEF AdvanceRange, RangeTypes, QueueSent, UnitRanges, Sent
<1>5. CASE after = m_retransStop /\ m_retransmissions # <<>>
    <2>1. /\ m_retransSeq' = Head(m_retransmissions)[1]
          /\ m_retransStop' = Head(m_retransmissions)[2]
          /\ m_retransmissions' = Tail(m_retransmissions)
          /\ m_retransmit' = m_retransmit
        BY <1>5, Zenon DEF AdvanceRange
    <2>2. /\ Head(m_retransmissions) = m_retransmissions[1]
          /\ 1 \in DOMAIN m_retransmissions
          /\ m_retransmissions[1] \in Seqs \X Seqs
        BY <1>5 DEF RangeTypes
    <2>3. RangeTypes'
        BY <1>5, <2>1, <2>2 DEF RangeTypes, Seqs
    <2>4. \A i \in DOMAIN m_retransmissions' :
             i + 1 \in DOMAIN m_retransmissions
                /\ m_retransmissions'[i] = m_retransmissions[i + 1]
        BY <1>5, <2>1 DEF RangeTypes
    <2>5. QueueSent' /\ UnitRanges'
        BY <1>5, <2>1, <2>2, <2>4 DEF RangeTypes, QueueSent, UnitRanges, Sent
    <2> QED
        BY <2>3, <2>5
<1> QED
    BY <1>3, <1>4, <1>5

\* Ageing keeps the timers: they lose one interval and nothing else.
LEMMA OlderTimersKeepPackets ==
    ASSUME rtoEvents \in SUBSET [id : Nat, seq : Seqs, due : Nat],
           \A e \in rtoEvents : e.due > 0
    PROVE  /\ OlderTimers \in SUBSET [id : Nat, seq : Seqs, due : Nat]
           /\ \A e \in OlderTimers :
                  \E f \in rtoEvents : e.seq = f.seq /\ e.id = f.id
           /\ \A f \in rtoEvents :
                  \E e \in OlderTimers : e.seq = f.seq /\ e.id = f.id
<1>1. ASSUME NEW f \in rtoEvents
      PROVE  /\ [f EXCEPT !.due = @ - 1] \in [id : Nat, seq : Seqs, due : Nat]
             /\ [f EXCEPT !.due = @ - 1].seq = f.seq
             /\ [f EXCEPT !.due = @ - 1].id = f.id
    OBVIOUS
<1> QED
    BY <1>1 DEF OlderTimers

\* The headers the client writes are those of packets it has sent or sends now.
LEMMA Headers ==
    ASSUME WindowInv
    PROVE  /\ FreshHeader \in Seqs /\ FreshHeader <= m_seqNum
           /\ RetransHeader \in Seqs
           /\ m_retransmit => RetransHeader \in Sent
<1>1. m_seqNum \in Nat /\ m_retransSeq \in Nat
    BY DEF WindowInv, TypeInvariant, TypeOK
<1>2. ASSUME NEW x \in Nat PROVE U16(x) \in Seqs /\ U16(x) <= x
    <2>1. U16(x) \in Seqs
        BY ModRange DEF U16, Seqs
    <2>2. U16(x) <= x
        BY ModAtMost DEF U16
    <2> QED
        BY <2>1, <2>2
<1>3. ASSUME m_retransmit PROVE RetransHeader \in Sent
    <2>1. RetransHeader \in 0 .. SeqMod - 1 /\ RetransHeader <= m_retransSeq
        BY <1>1, <1>2 DEF RetransHeader, Seqs
    <2>2. m_seqNum < SeqMod => m_retransSeq \in Sent
        BY <1>3 DEF WindowInv, UnitRanges
    <2> QED
        BY <1>1, <2>1, <2>2 DEF Sent
<1> QED
    BY <1>1, <1>2, <1>3 DEF FreshHeader, RetransHeader

\* The window has room: the next packet is less than a window from the base.
LEMMA RoomInWindow ==
    ASSUME WindowInv, ~WindowIsFull
    PROVE  m_seqNum < m_windowBase + WindowSize
<1>1. /\ m_seqNum \in Nat /\ m_windowBase \in Nat
      /\ m_windowBase <= m_seqNum /\ m_seqNum <= m_windowBase + WindowSize
    BY DEF WindowInv, TypeInvariant, TypeOK, WindowBound
<1>2. m_seqNum - m_windowBase \in 0 .. WordMod - 1
    BY <1>1
<1>3. U32(m_seqNum - m_windowBase) = m_seqNum - m_windowBase
    BY <1>2, ModSmall DEF U32
<1> QED
    BY <1>1, <1>3 DEF WindowIsFull

\* A new packet may be known from now on; nothing else is forgotten.
LEMMA TransmitTypes ==
    ASSUME TypeInvariant, SendIsDue, NEW h \in Seqs, Transmit(h)
    PROVE  /\ rtoEvents' \in SUBSET [id : Nat, seq : Seqs, due : Nat]
           /\ \A e \in rtoEvents' :
                  e.seq = h \/ \E f \in rtoEvents : e.seq = f.seq
           /\ m_timers' \in [Seqs -> Nat \cup {NoEvent}]
           /\ m_sent' \in Nat
           /\ sendEvents' \in Nat
<1>1. /\ rtoEvents \in SUBSET [id : Nat, seq : Seqs, due : Nat]
      /\ m_timers \in [Seqs -> Nat \cup {NoEvent}]
      /\ m_sent \in Nat /\ sendEvents \in Nat /\ sendEvents > 0
      /\ \A e \in rtoEvents : e.due > 0
    BY DEF TypeInvariant, TypeOK, SendIsDue
<1> DEFINE timer == [id |-> m_sent, seq |-> h, due |-> RtoTicks - 1]
<1>2. timer \in [id : Nat, seq : Seqs, due : Nat] /\ timer.seq = h
    BY <1>1
<1>3. rtoEvents' = OlderTimers \cup {timer}
    BY DEF Transmit
<1>4. /\ m_timers' = [m_timers EXCEPT ![h] = m_sent]
      /\ m_sent' = m_sent + 1
      /\ sendEvents' \in {sendEvents, sendEvents - 1}
    BY DEF Transmit
<1> HIDE DEF timer
<1> QED
    BY <1>1, <1>2, <1>3, <1>4, OlderTimersKeepPackets

LEMMA LaunchTypes ==
    ASSUME flight \in [Seqs -> Nat], NEW h \in Seqs, Launch(h)
    PROVE  /\ flight' \in [Seqs -> Nat]
           /\ \A s \in Seqs : flight'[s] > 0 => s = h \/ flight[s] > 0
BY DEF Launch

LEMMA LandTypes ==
    ASSUME flight \in [Seqs -> Nat], NEW h \in Seqs, Land(h)
    PROVE  /\ flight' \in [Seqs -> Nat]
           /\ flight[h] > 0
           /\ \A s \in Seqs : flight'[s] > 0 => flight[s] > 0
BY DEF Land

----------------------------------------------------------------------------
(* Every step keeps WindowInv.                                             *)

LEMMA InitWindowInv == Init => WindowInv
<1> SUFFICES ASSUME Init PROVE WindowInv
    OBVIOUS
<1>1. /\ m_timers \in [Seqs -> Nat \cup {NoEvent}]
      /\ flight \in [Seqs -> Nat]
      /\ \A s \in Seqs : flight[s] = 0
    BY DEF Init, ClientInit
<1>2. TypeInvariant
    <2>1. m_retransmissions \in Seq(Seqs \X Seqs)
        BY DEF Init, ClientInit
    <2>2. reported \in [sent : Nat, lost : Nat, retrans : Nat]
        BY DEF Init, ClientInit
    <2>3. rtoEvents \in SUBSET [id : Nat, seq : Seqs, due : Nat]
        BY DEF Init, ClientInit
    <2> QED
        BY <1>1, <2>1, <2>2, <2>3 DEF Init, ClientInit, TypeInvariant, TypeOK
<1>3. SentOnly
    BY <1>1 DEF Init, ClientInit, SentOnly
<1>4. WindowBound /\ m_windowBase < SeqMod
    BY DEF Init, ClientInit, WindowBound
<1>5. UnitRanges /\ SpinsOnlyAtTheEnd
    BY DEF Init, ClientInit, UnitRanges, SpinsOnlyAtTheEnd
<1> QED
    BY <1>2, <1>3, <1>4, <1>5 DEF WindowInv

LEMMA FreshKeepsWindow ==
    ASSUME WindowInv, SendFresh, Launch(FreshHeader)
    PROVE  WindowInv'
<1>1. /\ TypeInvariant /\ m_seqNum \in Nat /\ flight \in [Seqs -> Nat]
      /\ SendIsDue
    BY DEF WindowInv, TypeInvariant, TypeOK, SendFresh
<1>2. /\ FreshHeader \in Seqs
      /\ FreshHeader <= m_seqNum
      /\ m_seqNum < m_windowBase + WindowSize
    BY Headers, RoomInWindow DEF SendFresh
<1>3. /\ m_seqNum' = m_seqNum + 1
      /\ Transmit(FreshHeader)
      /\ UNCHANGED <<phase, spinning, m_windowBase, m_ackNum, m_receivedPackets,
                     rangeVars, m_retransmitPackets, m_packetRetrans,
                     m_packetLost, m_retransRecv, logVars>>
      /\ m_packetSent' = m_packetSent + 1
    BY DEF SendFresh
<1>4. Sent' = Sent \cup {m_seqNum} /\ FreshHeader \in Sent'
    BY <1>1, <1>2, <1>3 DEF Sent, Seqs
<1>5. TypeInvariant'
    BY <1>1, <1>2, <1>3, TransmitTypes, LaunchTypes
       DEF TypeInvariant, TypeOK, rangeVars, logVars
<1>6. SentOnly'
    <2>1. \A e \in rtoEvents' : e.seq \in Sent'
        BY <1>1, <1>2, <1>3, <1>4, TransmitTypes DEF WindowInv, SentOnly
    <2>2. \A s \in Seqs : flight'[s] > 0 => s \in Sent'
        BY <1>1, <1>2, <1>4, LaunchTypes DEF WindowInv, SentOnly
    <2> QED
        BY <1>3, <1>4, <2>1, <2>2 DEF WindowInv, SentOnly, rangeVars
<1>7. WindowBound' /\ m_windowBase' < SeqMod
    BY <1>1, <1>2, <1>3 DEF WindowInv, TypeInvariant, TypeOK, WindowBound
<1>8. UnitRanges' /\ SpinsOnlyAtTheEnd'
    BY <1>1, <1>3, <1>4
       DEF WindowInv, UnitRanges, SpinsOnlyAtTheEnd, rangeVars
<1> QED
    BY <1>5, <1>6, <1>7, <1>8 DEF WindowInv

LEMMA RetransmissionKeepsWindow ==
    ASSUME WindowInv, SendRetransmission, Launch(RetransHeader)
    PROVE  WindowInv'
<1>1. /\ TypeInvariant /\ m_seqNum \in Nat /\ flight \in [Seqs -> Nat]
      /\ RangeTypes /\ QueueSent /\ UnitRanges
      /\ SendIsDue /\ m_retransmit /\ AdvanceRange
    BY DEF WindowInv, TypeInvariant, TypeOK, RangeTypes, SentOnly, QueueSent,
           SendRetransmission
<1>2. RetransHeader \in Seqs /\ RetransHeader \in Sent
    BY <1>1, Headers
<1>3. /\ Transmit(RetransHeader)
      /\ m_retransmitPackets' = m_retransmitPackets \cup {RetransHeader}
      /\ m_packetRetrans' = m_packetRetrans + 1
      /\ UNCHANGED <<phase, spinning, windowVars, m_packetSent, m_packetLost,
                     m_retransRecv, logVars>>
    BY DEF SendRetransmission
<1>4. m_seqNum' = m_seqNum /\ Sent' = Sent
    BY <1>3 DEF windowVars, Sent
<1>5. RangeTypes' /\ QueueSent' /\ UnitRanges'
    BY <1>1, <1>4, AdvanceRangeKeepsRanges
<1>6. TypeInvariant'
    BY <1>1, <1>2, <1>3, <1>5, TransmitTypes, LaunchTypes
       DEF TypeInvariant, TypeOK, RangeTypes, windowVars, logVars
<1>7. SentOnly'
    <2>1. \A e \in rtoEvents' : e.seq \in Sent'
        BY <1>1, <1>2, <1>3, <1>4, TransmitTypes DEF WindowInv, SentOnly
    <2>2. \A s \in Seqs : flight'[s] > 0 => s \in Sent'
        BY <1>1, <1>2, <1>4, LaunchTypes DEF WindowInv, SentOnly
    <2> QED
        BY <1>2, <1>3, <1>4, <1>5, <2>1, <2>2
           DEF WindowInv, SentOnly, QueueSent, windowVars
<1>8. WindowBound' /\ m_windowBase' < SeqMod /\ SpinsOnlyAtTheEnd'
    BY <1>3, <1>4
       DEF WindowInv, WindowBound, SpinsOnlyAtTheEnd, windowVars
<1> QED
    BY <1>5, <1>6, <1>7, <1>8 DEF WindowInv

LEMMA SkipKeepsWindow ==
    ASSUME WindowInv, SendSkips, UNCHANGED flight
    PROVE  WindowInv'
<1>1. /\ TypeInvariant /\ m_seqNum \in Nat
      /\ RangeTypes /\ QueueSent /\ UnitRanges
      /\ SendIsDue /\ m_retransmit /\ AdvanceRange
    BY DEF WindowInv, TypeInvariant, TypeOK, RangeTypes, SentOnly, QueueSent,
           SendSkips
<1>2. /\ rtoEvents' = OlderTimers
      /\ UNCHANGED <<phase, spinning, m_sent, windowVars, m_retransmitPackets,
                     m_timers, statVars, sendEvents, logVars>>
    BY DEF SendSkips
<1>3. m_seqNum' = m_seqNum /\ Sent' = Sent
    BY <1>2 DEF windowVars, Sent
<1>4. RangeTypes' /\ QueueSent' /\ UnitRanges'
    BY <1>1, <1>3, AdvanceRangeKeepsRanges
<1>5. /\ rtoEvents' \in SUBSET [id : Nat, seq : Seqs, due : Nat]
      /\ \A e \in rtoEvents' : \E f \in rtoEvents : e.seq = f.seq
    BY <1>1, <1>2, OlderTimersKeepPackets DEF TypeInvariant, TypeOK, SendIsDue
<1>6. TypeInvariant'
    BY <1>1, <1>2, <1>4, <1>5
       DEF TypeInvariant, TypeOK, RangeTypes, windowVars, statVars, logVars
<1>7. SentOnly'
    BY <1>2, <1>3, <1>4, <1>5 DEF WindowInv, SentOnly, QueueSent, windowVars
<1>8. WindowBound' /\ m_windowBase' < SeqMod /\ SpinsOnlyAtTheEnd'
    BY <1>2, <1>3 DEF WindowInv, WindowBound, SpinsOnlyAtTheEnd, windowVars
<1> QED
    BY <1>4, <1>6, <1>7, <1>8 DEF WindowInv

LEMMA WaitKeepsWindow ==
    ASSUME WindowInv, SendWaits, UNCHANGED flight
    PROVE  WindowInv'
<1>1. /\ rtoEvents' = OlderTimers
      /\ UNCHANGED <<phase, spinning, m_sent, windowVars, rangeVars,
                     m_retransmitPackets, m_timers, statVars, sendEvents, logVars>>
    BY DEF SendWaits
<1>2. /\ rtoEvents' \in SUBSET [id : Nat, seq : Seqs, due : Nat]
      /\ \A e \in rtoEvents' : \E f \in rtoEvents : e.seq = f.seq
    BY <1>1, OlderTimersKeepPackets
       DEF WindowInv, TypeInvariant, TypeOK, SendWaits, SendIsDue
<1>3. Sent' = Sent
    BY <1>1 DEF windowVars, Sent
<1>4. TypeInvariant'
    BY <1>1, <1>2
       DEF WindowInv, TypeInvariant, TypeOK, windowVars, rangeVars, statVars, logVars
<1>5. SentOnly'
    BY <1>1, <1>2, <1>3 DEF WindowInv, SentOnly, windowVars, rangeVars
<1>6. WindowBound' /\ m_windowBase' < SeqMod
    BY <1>1 DEF WindowInv, WindowBound, windowVars
<1>7. UnitRanges' /\ SpinsOnlyAtTheEnd'
    BY <1>1, <1>3 DEF WindowInv, UnitRanges, SpinsOnlyAtTheEnd, windowVars, rangeVars
<1> QED
    BY <1>4, <1>5, <1>6, <1>7 DEF WindowInv

\* The packets HandleRead takes for lost are finitely many and have been sent.
LEMMA LostWereSent ==
    ASSUME WindowInv, NEW seq \in Seqs, seq \in Sent
    PROVE  /\ LostBefore(seq) \subseteq Sent
           /\ LostBefore(seq) \subseteq Seqs
           /\ Cardinality(LostBefore(seq)) \in Nat
           /\ Ascending(LostBefore(seq)) \in Seq(Seqs)
           /\ \A i \in DOMAIN Ascending(LostBefore(seq)) :
                  Ascending(LostBefore(seq))[i] \in LostBefore(seq)
<1> DEFINE lost == LostBefore(seq)
<1>1. m_ackNum \in Nat /\ m_seqNum \in Nat
    BY DEF WindowInv, TypeInvariant, TypeOK
<1>2. lost \in SUBSET (m_ackNum .. seq - 1)
    BY DEF LostBefore
<1>3. IsFiniteSet(lost)
    <2>1. m_ackNum \in Int /\ seq - 1 \in Int
        BY <1>1 DEF Seqs
    <2>2. IsFiniteSet(m_ackNum .. seq - 1)
        BY <2>1, FS_Interval
    <2> HIDE DEF lost
    <2> QED
        BY <1>2, <2>2, FS_Subset
<1>4. lost \subseteq Sent /\ lost \subseteq Seqs /\ lost \subseteq Nat
    BY <1>1, <1>2 DEF Sent, Seqs
<1>5. Cardinality(lost) \in Nat
    BY <1>3, FS_CardinalityType
<1> HIDE DEF lost
<1>6. /\ Ascending(lost) \in [1 .. Cardinality(lost) -> lost]
      /\ Ascending(lost) \in Seq(lost)
    <2>1. lost \in SUBSET Nat
        BY <1>4
    <2>2. Ascending(lost) \in [1 .. Cardinality(lost) -> lost]
        BY <1>3, <2>1, AscendingLists
    <2> QED
        BY <1>5, <2>2
<1>7. Ascending(lost) \in Seq(Seqs)
    <2>1. Ascending(lost) \in [1 .. Cardinality(lost) -> Seqs]
        BY <1>4, <1>6
    <2> QED
        BY <1>5, <2>1
<1>8. \A i \in DOMAIN Ascending(lost) : Ascending(lost)[i] \in lost
    BY <1>6
<1> QED
    BY <1>4, <1>5, <1>7, <1>8 DEF lost

\* Cancelling timers only removes some.
LEMMA CancelTimersTypes ==
    ASSUME TypeOK, NEW S, CancelTimers(S)
    PROVE  /\ rtoEvents' \in SUBSET rtoEvents
           /\ rtoEvents' \in SUBSET [id : Nat, seq : Seqs, due : Nat]
           /\ m_timers' \in [Seqs -> Nat \cup {NoEvent}]
BY DEF CancelTimers, TypeOK

\* A packet of the window is settled: the base moves to the first packet that
\* is not, which has been sent or is the next one.
LEMMA SlideKeepsWindow ==
    ASSUME WindowInv, NEW seq \in Seqs, seq \in Sent,
           SlideEnds(m_receivedPackets \cup {seq}),
           m_receivedPackets' = m_receivedPackets \cup {seq},
           m_windowBase' = SlidTo(m_receivedPackets \cup {seq}),
           m_seqNum' = m_seqNum
    PROVE  /\ m_receivedPackets' \in SUBSET Seqs
           /\ m_receivedPackets' \subseteq Sent
           /\ m_windowBase' \in Nat
           /\ m_windowBase' < SeqMod
           /\ WindowBound'
<1> DEFINE received == m_receivedPackets \cup {seq}
<1>1. /\ m_seqNum \in Nat /\ m_windowBase \in Nat
      /\ m_receivedPackets \in SUBSET Seqs /\ m_receivedPackets \subseteq Sent
    BY DEF WindowInv, TypeInvariant, TypeOK, SentOnly
<1>2. received \in SUBSET Seqs /\ received \subseteq Sent
    BY <1>1
<1>3. /\ SlidTo(received) \in m_windowBase .. SeqMod - 1
      /\ SlidTo(received) \notin received
      /\ \A s \in 0 .. SlidTo(received) - 1 : s \in received
    <2>1. \A s \in 0 .. m_windowBase - 1 : s \in received
        BY DEF WindowInv, WindowBound
    <2>2. SlideEnds(received)
        OBVIOUS
    <2> HIDE DEF received
    <2> QED
        BY <1>1, <1>2, <2>1, <2>2, SlidToFirstMissing
<1>4. m_windowBase' = SlidTo(received) /\ m_receivedPackets' = received
    OBVIOUS
<1> HIDE DEF received
<1>5. /\ m_windowBase' \in Nat
      /\ m_windowBase' < SeqMod
      /\ m_windowBase <= m_windowBase'
    BY <1>1, <1>3, <1>4
<1>6. m_windowBase' <= m_seqNum
    \* what was never sent was not received
    BY <1>1, <1>2, <1>3, <1>4, <1>5 DEF Sent
<1>7. m_seqNum <= m_windowBase' + WindowSize
    <2>1. m_seqNum <= m_windowBase + WindowSize
        BY DEF WindowInv, WindowBound
    <2>2. \A a, b, c \in Nat : a <= b + WindowSize /\ b <= c => a <= c + WindowSize
        OBVIOUS
    <2> QED
        BY <1>1, <1>5, <2>1, <2>2
<1>8. WindowBound'
    BY <1>3, <1>4, <1>6, <1>7 DEF WindowBound
<1> QED
    BY <1>2, <1>4, <1>5, <1>8

LEMMA HandleReadKeepsWindow ==
    ASSUME WindowInv, NEW seq \in Seqs, Land(seq), HandleRead(seq)
    PROVE  WindowInv'
<1> DEFINE received == m_receivedPackets \cup {seq}
           lost     == LostBefore(seq)
<1>1. /\ TypeInvariant /\ TypeOK /\ m_seqNum \in Nat /\ m_windowBase \in Nat
      /\ flight \in [Seqs -> Nat]
      /\ RangeTypes /\ QueueSent /\ UnitRanges /\ SentOnly
    BY DEF WindowInv, TypeInvariant, TypeOK, RangeTypes, SentOnly, QueueSent
<1>2. seq \in Sent
    BY <1>1, LandTypes DEF SentOnly
<1>3. /\ SlideEnds(received)
      /\ m_receivedPackets' = received
      /\ CancelTimers(lost \cup {seq})
      /\ m_packetLost' = m_packetLost + Cardinality(lost)
      /\ Enqueue(Ascending(lost))
      /\ m_windowBase' = SlidTo(received)
      /\ UNCHANGED <<phase, spinning, m_sent, m_seqNum, m_retransmitPackets,
                     m_packetSent, m_packetRetrans, sendEvents, logVars>>
    BY DEF HandleRead
<1>4. m_ackNum' \in Nat /\ m_retransRecv' \in Nat
    BY <1>1 DEF HandleRead, ExpectAfter, TypeOK, Seqs
<1>5. m_seqNum' = m_seqNum /\ Sent' = Sent
    BY <1>3 DEF Sent
<1>6. RangeTypes' /\ QueueSent' /\ UnitRanges'
    <2>1. /\ Ascending(lost) \in Seq(Seqs)
          /\ \A i \in DOMAIN Ascending(lost) : Ascending(lost)[i] \in Sent
        BY <1>2, LostWereSent
    <2> QED
        BY <1>1, <1>3, <1>5, <2>1, EnqueueKeepsRanges
<1>7. /\ m_receivedPackets' \in SUBSET Seqs
      /\ m_receivedPackets' \subseteq Sent
      /\ m_windowBase' \in Nat
      /\ m_windowBase' < SeqMod
      /\ WindowBound'
    BY <1>2, <1>3, SlideKeepsWindow
<1>8. TypeInvariant'
    <2>1. m_packetLost' \in Nat
        <3>1. Cardinality(lost) \in Nat
            BY <1>2, LostWereSent
        <3> HIDE DEF lost
        <3> QED
            BY <1>1, <1>3, <3>1 DEF TypeOK
    <2>2. /\ rtoEvents' \in SUBSET [id : Nat, seq : Seqs, due : Nat]
          /\ m_timers' \in [Seqs -> Nat \cup {NoEvent}]
        BY <1>1, <1>3, CancelTimersTypes
    <2>3. flight' \in [Seqs -> Nat]
        BY <1>1, LandTypes
    <2>4. /\ phase' = phase /\ spinning' = spinning /\ m_sent' = m_sent
          /\ m_seqNum' = m_seqNum /\ m_retransmitPackets' = m_retransmitPackets
          /\ m_packetSent' = m_packetSent /\ m_packetRetrans' = m_packetRetrans
          /\ sendEvents' = sendEvents /\ logEvents' = logEvents
          /\ reported' = reported /\ ppsLogs' = ppsLogs
        BY <1>3 DEF logVars
    <2> QED
        BY <1>1, <1>4, <1>6, <1>7, <2>1, <2>2, <2>3, <2>4
           DEF TypeInvariant, TypeOK, RangeTypes
<1>9. SentOnly'
    <2>1. \A e \in rtoEvents' : e.seq \in Sent'
        BY <1>1, <1>3, <1>5, CancelTimersTypes DEF SentOnly
    <2>2. \A s \in Seqs : flight'[s] > 0 => s \in Sent'
        BY <1>1, <1>5, LandTypes DEF SentOnly
    <2> QED
        BY <1>1, <1>3, <1>5, <1>6, <1>7, <2>1, <2>2 DEF SentOnly, QueueSent
<1>10. SpinsOnlyAtTheEnd'
    BY <1>3 DEF WindowInv, SpinsOnlyAtTheEnd
<1> QED
    BY <1>6, <1>7, <1>8, <1>9, <1>10 DEF WindowInv

\* HandleTimeout enqueues one packet.
LEMMA OneIsEnqueued ==
    ASSUME WindowInv, NEW seq \in Seqs, seq \in Sent, Enqueue(<<seq>>),
           m_seqNum' = m_seqNum
    PROVE  RangeTypes' /\ QueueSent' /\ UnitRanges'
<1>1. m_seqNum \in Nat /\ RangeTypes /\ QueueSent /\ UnitRanges
    BY DEF WindowInv, TypeInvariant, TypeOK, RangeTypes, SentOnly, QueueSent
<1>2. <<seq>> \in Seq(Seqs) /\ \A i \in DOMAIN <<seq>> : <<seq>>[i] \in Sent
    OBVIOUS
<1> QED
    BY <1>1, <1>2, EnqueueKeepsRanges

\* A timer that has expired leaves m_timers and the simulator's queue.
LEMMA ExpiredTypes ==
    ASSUME TypeOK, NEW e \in rtoEvents,
           m_timers' = [m_timers EXCEPT ![e.seq] = NoEvent],
           rtoEvents' = rtoEvents \ {e}
    PROVE  /\ e.seq \in Seqs
           /\ rtoEvents' \in SUBSET [id : Nat, seq : Seqs, due : Nat]
           /\ m_timers' \in [Seqs -> Nat \cup {NoEvent}]
BY DEF TypeOK

LEMMA FirstTimeoutKeepsWindow ==
    ASSUME WindowInv, NEW e \in rtoEvents, TimeoutOfFirst(e), UNCHANGED flight
    PROVE  WindowInv'
<1>1. /\ TypeInvariant /\ TypeOK /\ SentOnly /\ m_packetLost \in Nat
    BY DEF WindowInv, TypeInvariant, TypeOK
<1>2. /\ m_packetLost' = m_packetLost + 1
      /\ Enqueue(<<e.seq>>)
      /\ m_timers' = [m_timers EXCEPT ![e.seq] = NoEvent]
      /\ rtoEvents' = rtoEvents \ {e}
      /\ UNCHANGED <<phase, spinning, m_sent, windowVars, m_retransmitPackets,
                     m_packetSent, m_packetRetrans, m_retransRecv, sendEvents,
                     logVars>>
    BY DEF TimeoutOfFirst
<1>3. /\ e.seq \in Seqs /\ e.seq \in Sent
      /\ rtoEvents' \in SUBSET [id : Nat, seq : Seqs, due : Nat]
      /\ m_timers' \in [Seqs -> Nat \cup {NoEvent}]
    BY <1>1, <1>2, ExpiredTypes DEF SentOnly
<1>4. m_seqNum' = m_seqNum /\ Sent' = Sent
    BY <1>2 DEF windowVars, Sent
<1>5. RangeTypes' /\ QueueSent' /\ UnitRanges'
    BY <1>2, <1>3, <1>4, OneIsEnqueued
<1>6. m_packetLost' \in Nat
    BY <1>1, <1>2
<1>7. TypeInvariant'
    BY <1>1, <1>2, <1>3, <1>5, <1>6
       DEF TypeInvariant, TypeOK, RangeTypes, windowVars, logVars
<1>8. SentOnly'
    BY <1>1, <1>2, <1>4, <1>5 DEF SentOnly, QueueSent, windowVars
<1>9. WindowBound' /\ m_windowBase' < SeqMod /\ SpinsOnlyAtTheEnd'
    BY <1>2 DEF WindowInv, WindowBound, SpinsOnlyAtTheEnd, windowVars
<1> QED
    BY <1>5, <1>7, <1>8, <1>9 DEF WindowInv

LEMMA SecondTimeoutKeepsWindow ==
    ASSUME WindowInv, NEW e \in rtoEvents, TimeoutOfRetransmission(e),
           UNCHANGED flight
    PROVE  WindowInv'
<1>1. /\ TypeInvariant /\ TypeOK /\ SentOnly
    BY DEF WindowInv, TypeInvariant
<1>2. /\ SlideEnds(m_receivedPackets \cup {e.seq})
      /\ m_receivedPackets' = m_receivedPackets \cup {e.seq}
      /\ m_windowBase' = SlidTo(m_receivedPackets \cup {e.seq})
      /\ Enqueue(<<e.seq>>)
      /\ m_timers' = [m_timers EXCEPT ![e.seq] = NoEvent]
      /\ rtoEvents' = rtoEvents \ {e}
      /\ UNCHANGED <<phase, spinning, m_sent, m_seqNum, m_ackNum,
                     m_retransmitPackets, statVars, sendEvents, logVars>>
    BY DEF TimeoutOfRetransmission, WithGivenUp
<1>3. /\ e.seq \in Seqs /\ e.seq \in Sent
      /\ rtoEvents' \in SUBSET [id : Nat, seq : Seqs, due : Nat]
      /\ m_timers' \in [Seqs -> Nat \cup {NoEvent}]
    BY <1>1, <1>2, ExpiredTypes DEF SentOnly
<1>4. m_seqNum' = m_seqNum /\ Sent' = Sent
    BY <1>2 DEF Sent
<1>5. RangeTypes' /\ QueueSent' /\ UnitRanges'
    BY <1>2, <1>3, <1>4, OneIsEnqueued
<1>6. /\ m_receivedPackets' \in SUBSET Seqs
      /\ m_receivedPackets' \subseteq Sent
      /\ m_windowBase' \in Nat
      /\ m_windowBase' < SeqMod
      /\ WindowBound'
    BY <1>2, <1>3, <1>4, SlideKeepsWindow
<1>7. TypeInvariant'
    BY <1>1, <1>2, <1>3, <1>5, <1>6
       DEF TypeInvariant, TypeOK, RangeTypes, statVars, logVars
<1>8. SentOnly'
    BY <1>1, <1>2, <1>4, <1>5, <1>6 DEF SentOnly, QueueSent
<1>9. SpinsOnlyAtTheEnd'
    BY <1>2 DEF WindowInv, SpinsOnlyAtTheEnd
<1> QED
    BY <1>5, <1>6, <1>7, <1>8, <1>9 DEF WindowInv

\* Once every sequence number is in m_receivedPackets, every one was sent.
LEMMA AllReceived ==
    ASSUME WindowInv, NEW seq \in Seqs, seq \in Sent,
           ~SlideEnds(m_receivedPackets \cup {seq})
    PROVE  m_seqNum >= SeqMod
<1>1. Seqs \subseteq Sent
    BY DEF WindowInv, SentOnly, SlideEnds
<1>2. m_seqNum \in Nat /\ SeqMod - 1 \in Seqs
    BY DEF WindowInv, TypeInvariant, TypeOK, Seqs
<1> QED
    BY <1>1, <1>2 DEF Sent

LEMMA SpinningKeepsWindow ==
    ASSUME WindowInv, NEW seq \in Seqs, seq \in Sent,
           ~SlideEnds(m_receivedPackets \cup {seq}),
           spinning' = TRUE,
           UNCHANGED <<phase, m_sent, windowVars, rangeVars, m_retransmitPackets,
                       timerVars, statVars, sendEvents, logVars>>,
           flight' \in [Seqs -> Nat],
           \A s \in Seqs : flight'[s] > 0 => flight[s] > 0
    PROVE  WindowInv'
<1>1. Sent' = Sent
    BY DEF windowVars, Sent
<1>2. TypeInvariant'
    BY DEF WindowInv, TypeInvariant, TypeOK, windowVars, rangeVars, timerVars,
           statVars, logVars
<1>3. SentOnly'
    BY <1>1 DEF WindowInv, SentOnly, windowVars, rangeVars, timerVars
<1>4. WindowBound' /\ m_windowBase' < SeqMod
    BY DEF WindowInv, WindowBound, windowVars
<1>5. UnitRanges'
    BY <1>1 DEF WindowInv, UnitRanges, windowVars, rangeVars
<1>6. SpinsOnlyAtTheEnd'
    BY AllReceived DEF SpinsOnlyAtTheEnd, windowVars
<1> QED
    BY <1>2, <1>3, <1>4, <1>5, <1>6 DEF WindowInv

\* The rest of a step: what neither the window nor the ranges depend on.
LEMMA OutsideWindow ==
    ASSUME WindowInv,
           UNCHANGED <<spinning, m_sent, windowVars, rangeVars,
                       m_retransmitPackets, statVars>>,
           phase' \in {"created", "running", "stopped"},
           rtoEvents' \in SUBSET rtoEvents,
           m_timers' \in [Seqs -> Nat \cup {NoEvent}],
           sendEvents' \in Nat, logEvents' \in Nat, ppsLogs' \in Nat,
           reported' \in [sent : Nat, lost : Nat, retrans : Nat],
           flight' \in [Seqs -> Nat],
           \A s \in Seqs : flight'[s] > 0 => flight[s] > 0
    PROVE  WindowInv'
<1>1. Sent' = Sent
    BY DEF windowVars, Sent
<1>2. TypeInvariant'
    BY DEF WindowInv, TypeInvariant, TypeOK, windowVars, rangeVars, statVars
<1>3. SentOnly'
    BY <1>1 DEF WindowInv, SentOnly, windowVars, rangeVars
<1>4. WindowBound' /\ m_windowBase' < SeqMod
    BY DEF WindowInv, WindowBound, windowVars
<1>5. UnitRanges' /\ SpinsOnlyAtTheEnd'
    BY <1>1 DEF WindowInv, UnitRanges, SpinsOnlyAtTheEnd, windowVars, rangeVars
<1> QED
    BY <1>2, <1>3, <1>4, <1>5 DEF WindowInv

LEMMA StepKeepsWindow == WindowInv /\ [Next]_vars => WindowInv'
<1> SUFFICES ASSUME WindowInv, [Next]_vars PROVE WindowInv'
    OBVIOUS
<1>1. /\ TypeInvariant /\ TypeOK /\ SentOnly
      /\ flight \in [Seqs -> Nat]
      /\ rtoEvents \in SUBSET [id : Nat, seq : Seqs, due : Nat]
      /\ m_timers \in [Seqs -> Nat \cup {NoEvent}]
      /\ sendEvents \in Nat /\ logEvents \in Nat /\ ppsLogs \in Nat
      /\ reported \in [sent : Nat, lost : Nat, retrans : Nat]
      /\ Counters \in [sent : Nat, lost : Nat, retrans : Nat]
      /\ phase \in {"created", "running", "stopped"}
    BY DEF WindowInv, TypeInvariant, TypeOK, Counters
<1>2. CASE Start
    BY <1>1, <1>2, OutsideWindow DEF Start, StartApplication, timerVars
<1>3. CASE Stop
    <2>1. /\ phase' = "stopped"
          /\ CancelTimers(Seqs)
          /\ reported' = Counters
          /\ logEvents' = LogEventsAfterStop
          /\ sendEvents' = Cancelled(sendEvents)
          /\ UNCHANGED <<spinning, m_sent, windowVars, rangeVars,
                         m_retransmitPackets, statVars, ppsLogs>>
          /\ UNCHANGED flight
        BY <1>3 DEF Stop, StopApplication
    <2>2. rtoEvents' \in SUBSET rtoEvents /\ m_timers' \in [Seqs -> Nat \cup {NoEvent}]
        BY <1>1, <2>1, CancelTimersTypes
    <2>3. sendEvents' \in Nat /\ logEvents' \in Nat
        BY <1>1, <2>1 DEF Cancelled, LogEventsAfterStop
    <2> QED
        BY <1>1, <2>1, <2>2, <2>3, OutsideWindow
<1>4. CASE Log
    <2>1. /\ ppsLogs' = ppsLogs + 1
          /\ reported' = Counters
          /\ UNCHANGED <<phase, spinning, m_sent, windowVars, rangeVars,
                         m_retransmitPackets, timerVars, statVars, sendEvents,
                         logEvents>>
          /\ UNCHANGED flight
        BY <1>4 DEF Log, PpsLog
    <2> QED
        BY <1>1, <2>1, OutsideWindow DEF timerVars
<1>5. CASE Send
    BY <1>5, FreshKeepsWindow, RetransmissionKeepsWindow, WaitKeepsWindow,
       SkipKeepsWindow DEF Send
<1>6. CASE Timeout
    <2>1. PICK e \in rtoEvents : HandleTimeout(e) /\ UNCHANGED flight
        BY <1>6 DEF Timeout
    <2>2. e.seq \in Seqs /\ e.seq \in Sent
        BY <1>1 DEF SentOnly
    <2>3. CASE TimeoutSpins(e)
        BY <1>1, <2>1, <2>2, <2>3, SpinningKeepsWindow DEF TimeoutSpins
    <2> QED
        BY <2>1, <2>3, FirstTimeoutKeepsWindow, SecondTimeoutKeepsWindow
           DEF HandleTimeout
<1>7. ASSUME NEW s \in Seqs, Receive(s) PROVE WindowInv'
    <2>1. Land(s) /\ (HandleRead(s) \/ HandleReadSpins(s))
        BY <1>7 DEF Receive
    <2>2. CASE HandleRead(s)
        BY <2>1, <2>2, HandleReadKeepsWindow
    <2>3. CASE HandleReadSpins(s)
        <3>1. s \in Sent
            BY <1>1, <2>1, LandTypes DEF SentOnly
        <3>2. /\ flight' \in [Seqs -> Nat]
              /\ \A r \in Seqs : flight'[r] > 0 => flight[r] > 0
            BY <1>1, <2>1, LandTypes
        <3> QED
            BY <2>3, <3>1, <3>2, SpinningKeepsWindow DEF HandleReadSpins
    <2> QED
        BY <2>1, <2>2, <2>3
<1>8. ASSUME NEW s \in Seqs, Lose(s) PROVE WindowInv'
    <2>1. /\ flight' \in [Seqs -> Nat]
          /\ \A r \in Seqs : flight'[r] > 0 => flight[r] > 0
        BY <1>1, <1>8, LandTypes DEF Lose
    <2>2. UNCHANGED clientVars
        BY <1>8 DEF Lose
    <2> QED
        BY <1>1, <2>1, <2>2, OutsideWindow DEF clientVars, timerVars, logVars
<1>9. CASE UNCHANGED vars
    BY <1>1, <1>9, OutsideWindow DEF vars, clientVars, timerVars, logVars
<1> QED
    BY <1>2, <1>3, <1>4, <1>5, <1>6, <1>7, <1>8, <1>9 DEF Next

----------------------------------------------------------------------------
(* The theorems.                                                           *)

\* WindowInv holds in every state the client can reach.
THEOREM WindowInvariant == Spec => []WindowInv
BY InitWindowInv, StepKeepsWindow, PTL DEF Spec

\* Every variable of the client keeps its type.  In particular, no count of
\* pending events is ever negative.
THEOREM TypeCorrect == Spec => []TypeInvariant
<1>1. WindowInv => TypeInvariant
    BY DEF WindowInv
<1> QED
    BY <1>1, WindowInvariant, PTL

\* The window of HandleRead, HandleTimeout and Send: its base is the first
\* packet neither echoed nor given up, and the next fresh packet is at most
\* m_windowSize ahead of it, also after the sequence numbers have wrapped.
THEOREM WindowSafe == Spec => []WindowBound
<1>1. WindowInv => WindowBound
    BY DEF WindowInv
<1> QED
    BY <1>1, WindowInvariant, PTL

\* The loops of HandleRead and HandleTimeout over m_receivedPackets end as long
\* as fewer than 2^16 fresh packets have been sent.
THEOREM LoopsEnd == Spec => []SpinsOnlyAtTheEnd
<1>1. WindowInv => SpinsOnlyAtTheEnd
    BY DEF WindowInv
<1> QED
    BY <1>1, WindowInvariant, PTL

----------------------------------------------------------------------------
(* The events the client keeps in the simulator's queue and the counters   *)
(* they advance.                                                           *)

\* One PpsLog event is pending while the client runs.
OneLogChain == logEvents = IF phase = "running" THEN 1 ELSE 0

\* A datagram is a first transmission or a retransmission.
SentAddsUp == m_sent = m_packetSent + m_packetRetrans /\ m_packetSent = m_seqNum

\* The inductive invariant behind OneSendChain.  Before the start nothing has
\* been sent, so the first Send event is there whatever the budget is.
EventInv ==
    /\ OneSendChain
    /\ OneLogChain
    /\ SentAddsUp
    /\ phase = "created" => m_sent = 0

\* A Send that has a datagram leaves one Send event exactly while there is
\* budget left.
LEMMA TransmitKeepsChain ==
    ASSUME TypeOK, EventInv, SendIsDue, NEW h, Transmit(h), UNCHANGED phase
    PROVE  OneSendChain' /\ m_sent' = m_sent + 1 /\ phase = "running"
<1>1. /\ m_sent \in Nat /\ sendEvents \in Nat /\ sendEvents > 0
      /\ MaxPackets \in Nat
    BY DEF TypeOK, SendIsDue
<1>2. phase = "running" /\ sendEvents = 1
    BY <1>1 DEF EventInv, OneSendChain
<1>3. /\ m_sent' = m_sent + 1
      /\ sendEvents' = IF m_sent + 1 < MaxPackets THEN 1 ELSE 0
    BY <1>1, <1>2 DEF Transmit, BudgetAllows
<1> QED
    BY <1>1, <1>2, <1>3 DEF OneSendChain

\* A step of another handler, which leaves the events and the counters of the
\* datagrams alone.
LEMMA OtherStepKeepsEvents ==
    ASSUME EventInv,
           UNCHANGED <<phase, sendEvents, logEvents, m_sent, m_seqNum,
                       m_packetSent, m_packetRetrans>>
    PROVE  EventInv'
BY DEF EventInv, OneSendChain, OneLogChain, SentAddsUp

LEMMA InitEventInv == Init => EventInv
BY DEF Init, ClientInit, EventInv, OneSendChain, OneLogChain, SentAddsUp

LEMMA StepKeepsEvents == TypeOK /\ EventInv /\ [Next]_vars => EventInv'
<1> SUFFICES ASSUME TypeOK, EventInv, [Next]_vars PROVE EventInv'
    OBVIOUS
<1>1. /\ sendEvents \in Nat /\ logEvents \in Nat /\ m_sent \in Nat
      /\ m_seqNum \in Nat /\ m_packetSent \in Nat /\ m_packetRetrans \in Nat
    BY DEF TypeOK
<1>2. CASE Start
    BY <1>1, <1>2 DEF Start, StartApplication, EventInv, OneSendChain,
       OneLogChain, SentAddsUp, windowVars, statVars
<1>3. CASE Stop
    <2>1. /\ phase = "running" /\ phase' = "stopped"
          /\ logEvents' = LogEventsAfterStop
          /\ sendEvents' = Cancelled(sendEvents)
          /\ UNCHANGED <<m_sent, m_seqNum, m_packetSent, m_packetRetrans>>
        BY <1>3 DEF Stop, StopApplication, windowVars, statVars
    <2>2. sendEvents \in {0, 1} /\ logEvents = 1
        BY <2>1 DEF EventInv, OneSendChain, OneLogChain
    <2>3. sendEvents' = 0 /\ logEvents' = 0
        BY <2>1, <2>2 DEF Cancelled, LogEventsAfterStop
    <2> QED
        BY <2>1, <2>3 DEF EventInv, OneSendChain, OneLogChain, SentAddsUp
<1>4. CASE Log
    BY <1>4, OtherStepKeepsEvents DEF Log, PpsLog, windowVars, statVars
<1>5. CASE SendFresh
    <2>1. /\ SendIsDue /\ Transmit(FreshHeader)
          /\ m_seqNum' = m_seqNum + 1 /\ m_packetSent' = m_packetSent + 1
          /\ UNCHANGED <<phase, m_packetRetrans, logEvents>>
        BY <1>5 DEF SendFresh, logVars
    <2>2. OneSendChain' /\ m_sent' = m_sent + 1 /\ phase = "running"
        BY <2>1, TransmitKeepsChain
    <2> QED
        BY <1>1, <2>1, <2>2 DEF EventInv, OneLogChain, SentAddsUp
<1>6. CASE SendRetransmission
    <2>1. /\ SendIsDue /\ Transmit(RetransHeader)
          /\ m_packetRetrans' = m_packetRetrans + 1
          /\ UNCHANGED <<phase, m_seqNum, m_packetSent, logEvents>>
        BY <1>6 DEF SendRetransmission, logVars, windowVars
    <2>2. OneSendChain' /\ m_sent' = m_sent + 1 /\ phase = "running"
        BY <2>1, TransmitKeepsChain
    <2> QED
        BY <1>1, <2>1, <2>2 DEF EventInv, OneLogChain, SentAddsUp
<1>7. CASE SendWaits \/ SendSkips
    BY <1>7, OtherStepKeepsEvents DEF SendWaits, SendSkips, windowVars, statVars,
       logVars
<1>8. CASE Timeout
    <2>1. PICK e \in rtoEvents : HandleTimeout(e)
        BY <1>8 DEF Timeout
    <2> QED
        BY <2>1, OtherStepKeepsEvents DEF HandleTimeout, TimeoutOfFirst,
           TimeoutOfRetransmission, TimeoutSpins, windowVars, statVars, logVars
<1>9. ASSUME NEW s \in Seqs, Receive(s) PROVE EventInv'
    BY <1>9, OtherStepKeepsEvents DEF Receive, HandleRead, HandleReadSpins,
       windowVars, statVars, logVars
<1>10. ASSUME NEW s \in Seqs, Lose(s) PROVE EventInv'
    BY <1>10, OtherStepKeepsEvents DEF Lose, clientVars, windowVars, statVars,
       logVars
<1>11. CASE UNCHANGED vars
    BY <1>11, OtherStepKeepsEvents DEF vars, clientVars, windowVars, statVars,
       logVars
<1> QED
    BY <1>2, <1>3, <1>4, <1>5, <1>6, <1>7, <1>8, <1>9, <1>10, <1>11
       DEF Next, Send

THEOREM EventInvariant == Spec => []EventInv
<1>1. TypeInvariant => TypeOK
    BY DEF TypeInvariant
<1> QED
    BY <1>1, InitEventInv, StepKeepsEvents, TypeCorrect, PTL DEF Spec

\* Send, ScheduleTransmit, StartApplication and StopApplication keep one chain
\* of Send events: the assertion of Send that m_sendEvent has expired holds,
\* and the chain ends with the budget or the stop and at no other time.
THEOREM OneChain == Spec => []OneSendChain
<1>1. EventInv => OneSendChain
    BY DEF EventInv
<1> QED
    BY <1>1, EventInvariant, PTL

\* Send never exceeds its budget, but for the datagram it sends before it looks
\* at it.
BudgetKept == m_sent <= MaxPackets \/ m_sent <= 1

LEMMA StepKeepsBudget == TypeOK /\ EventInv /\ BudgetKept /\ [Next]_vars => BudgetKept'
<1> SUFFICES ASSUME TypeOK, EventInv, BudgetKept, [Next]_vars PROVE BudgetKept'
    OBVIOUS
<1>1. CASE SendFresh \/ SendRetransmission
    <2>1. m_sent \in Nat /\ sendEvents > 0 /\ m_sent' = m_sent + 1
        BY <1>1 DEF TypeOK, SendFresh, SendRetransmission, SendIsDue, Transmit
    <2>2. m_sent < MaxPackets \/ m_sent = 0
        BY <2>1 DEF EventInv, OneSendChain
    <2> QED
        BY <2>1, <2>2 DEF BudgetKept
<1>2. CASE UNCHANGED m_sent
    BY <1>2 DEF BudgetKept
<1>3. CASE Start \/ Stop \/ Log \/ SendWaits \/ SendSkips
    BY <1>2, <1>3 DEF Start, Stop, Log, StartApplication, StopApplication, PpsLog,
       SendWaits, SendSkips
<1>4. CASE Timeout
    BY <1>2, <1>4 DEF Timeout, HandleTimeout, TimeoutOfFirst,
       TimeoutOfRetransmission, TimeoutSpins
<1>5. ASSUME NEW s \in Seqs, Receive(s) \/ Lose(s) PROVE BudgetKept'
    BY <1>2, <1>5 DEF Receive, HandleRead, HandleReadSpins, Lose, clientVars
<1>6. CASE UNCHANGED vars
    BY <1>2, <1>6 DEF vars, clientVars
<1> QED
    BY <1>1, <1>3, <1>4, <1>5, <1>6 DEF Next, Send

\* For every budget, Send sends no more datagrams, retransmissions included,
\* than "MaxPackets", but for the first one, which it sends even if that is 0.
THEOREM BudgetIsKept == Spec => []BudgetKept
<1>1. Init => BudgetKept
    BY DEF Init, ClientInit, BudgetKept
<1>2. TypeInvariant => TypeOK
    BY DEF TypeInvariant
<1> QED
    BY <1>1, <1>2, StepKeepsBudget, TypeCorrect, EventInvariant, PTL DEF Spec

----------------------------------------------------------------------------
(* The count of retransmissions.                                           *)

\* m_packetRetrans counts the packets of m_retransmitPackets.
RetransCounted ==
    /\ IsFiniteSet(m_retransmitPackets)
    /\ m_packetRetrans = Cardinality(m_retransmitPackets)

LEMMA InitRetransCounted == Init => RetransCounted
BY FS_EmptySet DEF Init, ClientInit, RetransCounted

LEMMA StepKeepsRetransCounted ==
    RetransCounted /\ [Next]_vars => RetransCounted'
<1> SUFFICES ASSUME RetransCounted, [Next]_vars PROVE RetransCounted'
    OBVIOUS
<1>1. CASE SendRetransmission
    <2>1. /\ RetransHeader \notin m_retransmitPackets
          /\ m_retransmitPackets' = m_retransmitPackets \cup {RetransHeader}
          /\ m_packetRetrans' = m_packetRetrans + 1
        BY <1>1 DEF SendRetransmission, NotRetransmitted
    <2>2. /\ IsFiniteSet(m_retransmitPackets')
          /\ Cardinality(m_retransmitPackets') = Cardinality(m_retransmitPackets) + 1
        BY <2>1, FS_AddElement DEF RetransCounted
    <2> QED
        BY <2>1, <2>2 DEF RetransCounted
<1>2. CASE UNCHANGED <<m_retransmitPackets, m_packetRetrans>>
    BY <1>2 DEF RetransCounted
<1>3. CASE Start \/ Stop \/ Log \/ SendFresh \/ SendWaits \/ SendSkips
    BY <1>2, <1>3 DEF Start, Stop, Log, StartApplication, StopApplication,
       PpsLog, SendFresh, SendWaits, SendSkips, statVars
<1>4. CASE Timeout
    <2>1. PICK e \in rtoEvents : HandleTimeout(e)
        BY <1>4 DEF Timeout
    <2> QED
        BY <1>2, <2>1 DEF HandleTimeout, TimeoutOfFirst,
           TimeoutOfRetransmission, TimeoutSpins, statVars
<1>5. ASSUME NEW s \in Seqs, Receive(s) \/ Lose(s) PROVE RetransCounted'
    BY <1>2, <1>5 DEF Receive, HandleRead, HandleReadSpins, Lose, clientVars,
       statVars
<1>6. CASE UNCHANGED vars
    BY <1>2, <1>6 DEF vars, clientVars, statVars
<1> QED
    BY <1>1, <1>3, <1>4, <1>5, <1>6 DEF Next, Send

THEOREM RetransCountedAlways == Spec => []RetransCounted
BY InitRetransCounted, StepKeepsRetransCounted, PTL DEF Spec

----------------------------------------------------------------------------
(* The steps of the client that are steps of the sender.                   *)

\* The cardinality of FiniteSets as SelectiveRepeat extends it.
LEMMA SameCardinality == \A S : SR!Cardinality(S) = Cardinality(S)
BY Zenon DEF SR!Cardinality, SR!IsFiniteSet, Cardinality, IsFiniteSet

\* Send finds budget left for its datagram.
LEMMA BudgetLeft ==
    ASSUME TypeOK, EventInv, RetransCounted, 0 < MaxPackets, SendIsDue
    PROVE  m_seqNum + Cardinality(m_retransmitPackets) < MaxPackets
<1>1. m_sent = m_seqNum + Cardinality(m_retransmitPackets)
    BY DEF EventInv, SentAddsUp, RetransCounted
<1>2. sendEvents # 0
    BY DEF SendIsDue
<1>3. m_sent < MaxPackets \/ m_sent = 0
    BY <1>2 DEF EventInv, OneSendChain
<1> QED
    BY <1>1, <1>3

LEMMA FreshIsSendNew ==
    ASSUME WindowInv, EventInv, RetransCounted,
           0 < MaxPackets, MaxPackets <= SeqMod,
           SendFresh, Launch(FreshHeader)
    PROVE  SR!SendNew
<1>1. /\ TypeOK /\ m_seqNum \in Nat /\ SendIsDue
      /\ m_seqNum' = m_seqNum + 1
      /\ UNCHANGED <<m_windowBase, m_receivedPackets, m_retransmitPackets>>
    BY DEF WindowInv, TypeInvariant, TypeOK, SendFresh
<1>2. m_seqNum + Cardinality(m_retransmitPackets) < MaxPackets
    BY <1>1, BudgetLeft
<1>3. FreshHeader = m_seqNum
    <2>1. Cardinality(m_retransmitPackets) \in Nat
        BY FS_CardinalityType DEF RetransCounted
    <2>2. m_seqNum \in 0 .. SeqMod - 1
        BY <1>1, <1>2, <2>1
    <2> QED
        BY <2>2, ModSmall DEF FreshHeader, U16
<1>4. SR!Launch(m_seqNum)
    BY <1>3 DEF Launch, SR!Launch
<1>5. m_seqNum < m_windowBase + WindowSize
    BY RoomInWindow DEF SendFresh
<1> QED
    BY <1>1, <1>2, <1>4, <1>5, SameCardinality DEF SR!SendNew

LEMMA RetransmissionIsResend ==
    ASSUME WindowInv, EventInv, RetransCounted, 0 < MaxPackets,
           SendRetransmission, Launch(RetransHeader)
    PROVE  \E s \in Seqs : SR!Resend(s)
<1>1. /\ TypeOK /\ m_seqNum \in Nat /\ SendIsDue
      /\ RetransHeader \notin m_retransmitPackets
      /\ m_retransmitPackets' = m_retransmitPackets \cup {RetransHeader}
      /\ UNCHANGED <<m_seqNum, m_windowBase, m_receivedPackets>>
    BY DEF WindowInv, TypeInvariant, TypeOK, SendRetransmission,
           NotRetransmitted, windowVars
<1>2. m_seqNum + Cardinality(m_retransmitPackets) < MaxPackets
    BY <1>1, BudgetLeft
<1>3. RetransHeader \in Seqs /\ RetransHeader < m_seqNum
    <2>1. RetransHeader \in Seqs /\ RetransHeader \in Sent
        BY Headers DEF SendRetransmission
    <2> QED
        BY <1>1, <2>1 DEF Sent
<1>4. SR!Launch(RetransHeader)
    BY DEF Launch, SR!Launch
<1>5. SR!Resend(RetransHeader)
    BY <1>1, <1>2, <1>3, <1>4, SameCardinality DEF SR!Resend
<1> QED
    BY <1>3, <1>5

\* The window loop settles a packet as the sender does.
LEMMA SlideSettles ==
    ASSUME WindowInv, NEW seq \in Seqs, seq \in Sent,
           SlideEnds(m_receivedPackets \cup {seq}),
           m_receivedPackets' = m_receivedPackets \cup {seq},
           m_windowBase' = SlidTo(m_receivedPackets \cup {seq}),
           UNCHANGED <<m_seqNum, m_retransmitPackets>>
    PROVE  SR!Settle(seq)
<1>1. /\ m_seqNum \in Nat /\ m_windowBase \in Nat
      /\ m_receivedPackets \in SUBSET Seqs
    BY DEF WindowInv, TypeInvariant, TypeOK
<1>2. m_windowBase' \in m_windowBase .. SeqMod - 1
    <2> DEFINE received == m_receivedPackets \cup {seq}
    <2>1. /\ received \in SUBSET Seqs
          /\ SlideEnds(received)
          /\ \A s \in 0 .. m_windowBase - 1 : s \in received
          /\ m_windowBase' = SlidTo(received)
        BY <1>1 DEF WindowInv, WindowBound
    <2> HIDE DEF received
    <2> QED
        BY <1>1, <2>1, SlidToFirstMissing
<1>3. /\ m_windowBase' <= m_seqNum'
      /\ m_windowBase' \notin m_receivedPackets'
      /\ \A s \in 0 .. m_windowBase' - 1 : s \in m_receivedPackets'
    BY SlideKeepsWindow DEF WindowBound
<1>4. /\ m_windowBase' \in m_windowBase .. m_seqNum
      /\ \A b \in m_windowBase .. m_windowBase' - 1 : b \in m_receivedPackets'
    <2>1. m_windowBase' \in Nat /\ m_windowBase <= m_windowBase'
        BY <1>1, <1>2
    <2>2. m_windowBase' <= m_seqNum
        BY <1>1, <1>3
    <2>3. ASSUME NEW b \in m_windowBase .. m_windowBase' - 1
          PROVE  b \in m_receivedPackets'
        BY <1>1, <1>3, <2>1, <2>3
    <2>4. m_windowBase' \in m_windowBase .. m_seqNum
        BY <1>1, <2>1, <2>2
    <2>5. \A b \in m_windowBase .. m_windowBase' - 1 : b \in m_receivedPackets'
        BY <2>3
    <2> QED
        BY <2>4, <2>5
<1> QED
    BY <1>3, <1>4 DEF SR!Settle

LEMMA HandleReadIsDeliver ==
    ASSUME WindowInv, NEW seq \in Seqs, Land(seq), HandleRead(seq)
    PROVE  SR!Deliver(seq)
<1>1. seq \in Sent
    BY LandTypes DEF WindowInv, TypeInvariant, SentOnly
<1>2. /\ SlideEnds(m_receivedPackets \cup {seq})
      /\ m_receivedPackets' = m_receivedPackets \cup {seq}
      /\ m_windowBase' = SlidTo(m_receivedPackets \cup {seq})
      /\ UNCHANGED <<m_seqNum, m_retransmitPackets>>
    BY DEF HandleRead
<1>3. SR!Settle(seq)
    BY <1>1, <1>2, SlideSettles
<1>4. SR!Land(seq)
    BY DEF Land, SR!Land
<1> QED
    BY <1>3, <1>4 DEF SR!Deliver

LEMMA SecondTimeoutIsAbandon ==
    ASSUME WindowInv, NEW e \in rtoEvents, TimeoutOfRetransmission(e),
           UNCHANGED flight
    PROVE  \E s \in Seqs : SR!Abandon(s)
<1>1. e.seq \in Seqs /\ e.seq \in Sent /\ e.seq \in m_retransmitPackets
    BY DEF WindowInv, TypeInvariant, TypeOK, SentOnly, TimeoutOfRetransmission
<1>2. /\ SlideEnds(m_receivedPackets \cup {e.seq})
      /\ m_receivedPackets' = m_receivedPackets \cup {e.seq}
      /\ m_windowBase' = SlidTo(m_receivedPackets \cup {e.seq})
      /\ UNCHANGED <<m_seqNum, m_retransmitPackets>>
    BY DEF TimeoutOfRetransmission, WithGivenUp
<1>3. SR!Settle(e.seq)
    BY <1>1, <1>2, SlideSettles
<1> QED
    BY <1>1, <1>3 DEF SR!Abandon

\* What leaves the network without an effect on the window.
LEMMA LandIsLose ==
    ASSUME NEW s \in Seqs, Land(s), UNCHANGED <<windowVars, m_retransmitPackets>>
    PROVE  SR!Lose(s)
BY DEF Land, SR!Land, SR!Lose, windowVars

----------------------------------------------------------------------------
(* The refinement.                                                         *)

LEMMA InitImplements == Init => SR!Init
BY DEF Init, ClientInit, SR!Init

LEMMA StepImplements ==
    ASSUME 0 < MaxPackets, MaxPackets <= SeqMod
    PROVE  WindowInv /\ EventInv /\ RetransCounted /\ [Next]_vars
               => [SR!Next]_SR!srVars
<1> SUFFICES ASSUME WindowInv, EventInv, RetransCounted, [Next]_vars
             PROVE  SR!Next \/ UNCHANGED SR!srVars
    OBVIOUS
<1>1. CASE UNCHANGED <<windowVars, m_retransmitPackets, flight>>
    BY <1>1 DEF windowVars, SR!srVars
<1>2. CASE Start \/ Stop \/ Log
    BY <1>1, <1>2 DEF Start, Stop, Log, StartApplication, StopApplication, PpsLog
<1>3. CASE SendFresh /\ Launch(FreshHeader)
    BY <1>3, FreshIsSendNew DEF SR!Next
<1>4. CASE SendRetransmission /\ Launch(RetransHeader)
    BY <1>4, RetransmissionIsResend DEF SR!Next
<1>5. CASE (SendWaits \/ SendSkips) /\ UNCHANGED flight
    BY <1>1, <1>5 DEF SendWaits, SendSkips
<1>6. CASE Timeout
    <2>1. PICK e \in rtoEvents : HandleTimeout(e) /\ UNCHANGED flight
        BY <1>6 DEF Timeout
    <2>2. CASE TimeoutOfFirst(e) \/ TimeoutSpins(e)
        BY <1>1, <2>1, <2>2 DEF TimeoutOfFirst, TimeoutSpins
    <2>3. CASE TimeoutOfRetransmission(e)
        BY <2>1, <2>3, SecondTimeoutIsAbandon DEF SR!Next
    <2> QED
        BY <2>1, <2>2, <2>3 DEF HandleTimeout
<1>7. ASSUME NEW s \in Seqs, Receive(s) PROVE SR!Next
    <2>1. CASE HandleRead(s)
        BY <1>7, <2>1, HandleReadIsDeliver DEF Receive, SR!Next
    <2>2. CASE HandleReadSpins(s)
        BY <1>7, <2>2, LandIsLose DEF Receive, HandleReadSpins, SR!Next
    <2> QED
        BY <1>7, <2>1, <2>2 DEF Receive
<1>8. ASSUME NEW s \in Seqs, Lose(s) PROVE SR!Next
    BY <1>8, LandIsLose DEF Lose, clientVars, SR!Next
<1>9. CASE UNCHANGED vars
    BY <1>1, <1>9 DEF vars, clientVars
<1> QED
    BY <1>2, <1>3, <1>4, <1>5, <1>6, <1>7, <1>8, <1>9 DEF Next, Send

\* Send, HandleRead and HandleTimeout together are a selective-repeat sender:
\* they send each packet once, within the window and the budget, resend it at
\* most once, and move the window over packets that were echoed, or given up
\* after their retransmission.
THEOREM ClientRefines ==
    ASSUME 0 < MaxPackets, MaxPackets <= SeqMod
    PROVE  Spec => ImplementsSelectiveRepeat
<1>1. WindowInv /\ EventInv /\ RetransCounted /\ [Next]_vars
          => [SR!Next]_SR!srVars
    BY StepImplements
<1>2. Spec => SR!Init /\ [][SR!Next]_SR!srVars
    BY <1>1, InitImplements, WindowInvariant, EventInvariant,
       RetransCountedAlways, PTL DEF Spec
<1> QED
    BY <1>2 DEF ImplementsSelectiveRepeat, SR!Spec

----------------------------------------------------------------------------
(***************************************************************************)
(* The timers and the queue of retransmissions, as long as there are       *)
(* sequence numbers left: m_timers and the pending timeouts agree, and no  *)
(* packet of the window is without both a timer and a place in the queue.  *)
(***************************************************************************)

NumbersLeft == m_seqNum < SeqMod

\* An event is the only one with its identity, and a later one has a new one.
EventsDiffer ==
    /\ \A e, f \in rtoEvents : e.id = f.id => e = f
    /\ \A e \in rtoEvents : e.id < m_sent

\* A packet that waits for its first retransmission has no timer.
WaitsUntimed ==
    \A s \in Queued \ m_retransmitPackets : m_timers[s] = NoEvent

\* The stop leaves no timer, and its report has the final counters.
StopReports ==
    phase = "stopped" => rtoEvents = {} /\ reported = Counters

\* The inductive invariant behind TimersMatch, NoStrandedPacket and
\* QuietAfterStop.
TimerParts ==
    /\ TimersMatch
    /\ EventsDiffer
    /\ WaitsUntimed
    /\ NoStrandedPacket
    /\ StopReports

TimerInv == NumbersLeft => TimerParts

----------------------------------------------------------------------------
(* What the steps of the queue do to the packets that wait.                *)

\* RangesOf makes one pair per packet; joined to a queue, its pairs follow
\* those of the queue.
LEMMA JoinedQueue ==
    ASSUME NEW q \in Seq(Seqs \X Seqs), NEW more \in Seq(Seqs)
    PROVE  LET joined == q \o RangesOf(more)
           IN  /\ joined \in Seq(Seqs \X Seqs)
               /\ Len(joined) = Len(q) + Len(more)
               /\ \A i \in 1 .. Len(q) : joined[i] = q[i]
               /\ \A i \in 1 .. Len(more) : joined[Len(q) + i][1] = more[i]
               /\ \A i \in 1 .. Len(more) :
                      joined[Len(q) + i][2] = U16(more[i] + 1)
<1> DEFINE r == RangesOf(more)
<1>1. r = [i \in 1 .. Len(more) |-> <<more[i], U16(more[i] + 1)>>]
    BY DEF RangesOf
<1>2. \A i \in 1 .. Len(more) : more[i] \in Seqs /\ U16(more[i] + 1) \in Seqs
    <2>1. \A x \in Int : U16(x) \in Seqs
        BY ModRange DEF U16, Seqs
    <2>2. \A i \in 1 .. Len(more) : more[i] \in Seqs /\ more[i] + 1 \in Int
        BY DEF Seqs
    <2> QED
        BY <2>1, <2>2
<1>3. /\ r \in Seq(Seqs \X Seqs)
      /\ Len(r) = Len(more)
      /\ \A i \in 1 .. Len(more) :
             r[i][1] = more[i] /\ r[i][2] = U16(more[i] + 1)
    BY <1>1, <1>2
<1> HIDE DEF r
<1>4. q \o r \in Seq(Seqs \X Seqs)
    BY <1>3
<1>5. Len(q \o r) = Len(q) + Len(more)
    <2>1. r \in Seq(Seqs \X Seqs)
        BY <1>3
    <2>2. Len(q \o r) = Len(q) + Len(r)
        BY <2>1
    <2> QED
        BY <1>3, <2>2
<1>6. \A i \in 1 .. Len(q) : (q \o r)[i] = q[i]
    BY <1>3
<1>7. \A i \in 1 .. Len(more) : (q \o r)[Len(q) + i] = r[i]
    BY <1>3
<1> QED
    BY <1>3, <1>4, <1>5, <1>6, <1>7 DEF r

\* Which packets a sequence of packets lists, and which a queue of ranges
\* makes wait.
Lists(t, s) == \E i \in 1 .. Len(t) : t[i] = s
Waits(q, s) == \E i \in 1 .. Len(q) : q[i][1] = s

\* Ascending lists every member of a finite set of numbers.
LEMMA AscendingListsAll ==
    ASSUME NEW S \in SUBSET Nat, IsFiniteSet(S), NEW s
    PROVE  Lists(Ascending(S), s) <=> s \in S
<1> DEFINE n == Cardinality(S)
           f == Ascending(S)
<1>1. /\ n \in Nat
      /\ f \in [1 .. n -> S]
      /\ Len(f) = n
      /\ \A i, j \in 1 .. n : i < j => f[i] < f[j]
    BY AscendingLists, FS_CardinalityType
<1>2. IsFiniteSet(1 .. n) /\ Cardinality(1 .. n) = n
    BY <1>1, FS_Interval
<1> HIDE DEF f
<1>3. ASSUME NEW i \in 1 .. n, NEW j \in 1 .. n, f[i] = f[j]
      PROVE  i = j
    <2>1. f[i] \in Nat /\ f[j] \in Nat
        BY <1>1
    <2>2. ~(i < j) /\ ~(j < i)
        BY <1>1, <1>3, <2>1
    <2> QED
        BY <1>1, <2>2
<1>4. f \in Injection(1 .. n, S)
    BY <1>1, <1>3 DEF Injection, IsInjective
<1>5. f \in Surjection(1 .. n, S)
    BY <1>2, <1>4, FS_Injection
<1>6. \A t \in S : \E i \in 1 .. n : f[i] = t
    BY <1>5 DEF Surjection
<1> QED
    BY <1>1, <1>6 DEF f, Lists

LEMMA WaitsInJoinedQueue ==
    ASSUME NEW q \in Seq(Seqs \X Seqs), NEW more \in Seq(Seqs), NEW s
    PROVE  Waits(q \o RangesOf(more), s) <=>
               Waits(q, s) \/ Lists(more, s)
<1> DEFINE joined == q \o RangesOf(more)
<1>1. /\ Len(joined) = Len(q) + Len(more)
      /\ \A i \in 1 .. Len(q) : joined[i] = q[i]
      /\ \A i \in 1 .. Len(more) : joined[Len(q) + i][1] = more[i]
    BY JoinedQueue
<1>2. Len(q) \in Nat /\ Len(more) \in Nat
    OBVIOUS
<1> HIDE DEF joined
<1>3. ASSUME Waits(joined, s)
      PROVE  Waits(q, s) \/ Lists(more, s)
    <2>1. PICK i \in 1 .. Len(joined) : joined[i][1] = s
        BY <1>3 DEF Waits
    <2>2. CASE i <= Len(q)
        BY <1>1, <1>2, <2>1, <2>2 DEF Waits
    <2>3. CASE i > Len(q)
        <3>1. i - Len(q) \in 1 .. Len(more) /\ i = Len(q) + (i - Len(q))
            BY <1>1, <1>2, <2>3
        <3> QED
            BY <1>1, <2>1, <3>1 DEF Lists
    <2> QED
        BY <1>1, <1>2, <2>2, <2>3
<1>4. ASSUME Waits(q, s) PROVE Waits(joined, s)
    <2>1. PICK i \in 1 .. Len(q) : q[i][1] = s
        BY <1>4 DEF Waits
    <2>2. i \in 1 .. Len(joined) /\ joined[i][1] = s
        BY <1>1, <1>2, <2>1
    <2> QED
        BY <2>2 DEF Waits
<1>5. ASSUME NEW i \in 1 .. Len(more), more[i] = s PROVE Waits(joined, s)
    <2>1. Len(q) + i \in 1 .. Len(joined) /\ joined[Len(q) + i][1] = s
        BY <1>1, <1>2, <1>5
    <2> QED
        BY <2>1 DEF Waits
<1> QED
    BY <1>3, <1>4, <1>5 DEF joined, Lists

LEMMA QueuedMeans ==
    ASSUME RangeTypes, NEW s
    PROVE  s \in Queued <=>
               (m_retransmit /\ s = m_retransSeq) \/ Waits(m_retransmissions, s)
<1>1. DOMAIN m_retransmissions = 1 .. Len(m_retransmissions)
    BY DEF RangeTypes
<1> QED
    BY <1>1 DEF Queued, Waits

\* Enqueue lets the lost packets wait and forgets none.
LEMMA EnqueueAdds ==
    ASSUME RangeTypes, RangeTypes', NEW lost \in Seq(Seqs), Enqueue(lost), NEW s
    PROVE  s \in Queued' <=> s \in Queued \/ Lists(lost, s)
<1>1. m_retransmissions \in Seq(Seqs \X Seqs)
    BY DEF RangeTypes
<1>2. s \in Queued <=>
          (m_retransmit /\ s = m_retransSeq) \/ Waits(m_retransmissions, s)
    BY QueuedMeans
<1>3. s \in Queued' <=>
          (m_retransmit' /\ s = m_retransSeq') \/ Waits(m_retransmissions', s)
    <2>1. DOMAIN m_retransmissions' = 1 .. Len(m_retransmissions')
        BY DEF RangeTypes
    <2> QED
        BY <2>1 DEF Queued, Waits
<1>4. CASE lost = <<>>
    <2>1. /\ m_retransmit' = m_retransmit /\ m_retransSeq' = m_retransSeq
          /\ m_retransmissions' = m_retransmissions
        BY <1>4 DEF Enqueue, rangeVars
    <2>2. Len(lost) = 0
        BY <1>4
    <2> QED
        BY <1>2, <1>3, <2>1, <2>2 DEF Lists
<1>5. CASE lost # <<>> /\ ~m_retransmit
    <2>1. /\ m_retransmit' = TRUE
          /\ m_retransSeq' = Head(lost)
          /\ m_retransmissions' = m_retransmissions \o RangesOf(Tail(lost))
        BY <1>5 DEF Enqueue
    <2>2. /\ Tail(lost) \in Seq(Seqs)
          /\ Len(lost) \in Nat /\ Len(lost) > 0 /\ Head(lost) = lost[1]
          /\ Len(Tail(lost)) = Len(lost) - 1
          /\ \A i \in 1 .. Len(lost) - 1 : Tail(lost)[i] = lost[i + 1]
        BY <1>5
    <2>3. Lists(lost, s) <=>
             s = Head(lost) \/ Lists(Tail(lost), s)
        <3>1. ASSUME NEW i \in 1 .. Len(lost), lost[i] = s, i # 1
              PROVE  Lists(Tail(lost), s)
            <4>1. i - 1 \in 1 .. Len(lost) - 1 /\ (i - 1) + 1 = i
                BY <2>2, <3>1
            <4> QED
                BY <2>2, <3>1, <4>1 DEF Lists
        <3>2. ASSUME NEW j \in 1 .. Len(Tail(lost)), Tail(lost)[j] = s
              PROVE  Lists(lost, s)
            <4>1. j + 1 \in 1 .. Len(lost) /\ lost[j + 1] = s
                BY <2>2, <3>2
            <4> QED
                BY <4>1 DEF Lists
        <3>3. 1 \in 1 .. Len(lost)
            BY <2>2
        <3> QED
            BY <2>2, <3>1, <3>2, <3>3 DEF Lists
    <2>4. Waits(m_retransmissions', s) <=>
              \/ Waits(m_retransmissions, s)
              \/ Lists(Tail(lost), s)
        <3>1. \A t \in Seq(Seqs) :
                 Waits(m_retransmissions \o RangesOf(t), s) <=>
                     \/ Waits(m_retransmissions, s)
                     \/ Lists(t, s)
            BY <1>1, WaitsInJoinedQueue
        <3> QED
            BY <2>1, <2>2, <3>1
    <2> QED
        BY <1>2, <1>3, <1>5, <2>1, <2>3, <2>4
<1>6. CASE lost # <<>> /\ m_retransmit
    <2>1. /\ m_retransmissions' = m_retransmissions \o RangesOf(lost)
          /\ UNCHANGED <<m_retransmit, m_retransSeq>>
        BY <1>6 DEF Enqueue
    <2>2. Waits(m_retransmissions', s) <=>
              \/ Waits(m_retransmissions, s)
              \/ Lists(lost, s)
        BY <1>1, <2>1, WaitsInJoinedQueue
    <2> QED
        BY <1>2, <1>3, <2>1, <2>2
<1> QED
    BY <1>4, <1>5, <1>6 DEF RangeTypes

\* Send takes at most the packet it looks at from those that wait.
LEMMA AdvanceTakesOne ==
    ASSUME RangeTypes, RangeTypes', U32(m_retransSeq + 1) = m_retransStop,
           m_retransmit, AdvanceRange, NEW s
    PROVE  /\ s \in Queued' => s \in Queued
           /\ s \in Queued /\ s # m_retransSeq => s \in Queued'
<1>1. U32(m_retransSeq + 1) = m_retransStop
    OBVIOUS
<1>2. s \in Queued <=> s = m_retransSeq \/ Waits(m_retransmissions, s)
    BY QueuedMeans
<1>3. s \in Queued' <=>
          (m_retransmit' /\ s = m_retransSeq') \/ Waits(m_retransmissions', s)
    <2>1. DOMAIN m_retransmissions' = 1 .. Len(m_retransmissions')
        BY DEF RangeTypes
    <2> QED
        BY <2>1 DEF Queued, Waits
<1>4. CASE m_retransmissions = <<>>
    <2>1. m_retransmit' = FALSE /\ m_retransmissions' = <<>>
        BY <1>1, <1>4 DEF AdvanceRange
    <2> QED
        BY <1>2, <1>3, <1>4, <2>1 DEF Waits
<1>5. CASE m_retransmissions # <<>>
    <2>1. /\ m_retransSeq' = Head(m_retransmissions)[1]
          /\ m_retransmissions' = Tail(m_retransmissions)
          /\ m_retransmit' = m_retransmit
        BY <1>1, <1>5, Zenon DEF AdvanceRange
    <2>2. /\ Len(m_retransmissions) \in Nat /\ Len(m_retransmissions) > 0
          /\ Head(m_retransmissions) = m_retransmissions[1]
          /\ Len(m_retransmissions') = Len(m_retransmissions) - 1
          /\ \A i \in 1 .. Len(m_retransmissions) - 1 :
                 m_retransmissions'[i] = m_retransmissions[i + 1]
        BY <1>5, <2>1 DEF RangeTypes
    <2>3. Waits(m_retransmissions, s) <=>
              s = m_retransSeq' \/ Waits(m_retransmissions', s)
        <3>1. ASSUME NEW i \in 1 .. Len(m_retransmissions),
                     m_retransmissions[i][1] = s, i # 1
              PROVE  Waits(m_retransmissions', s)
            <4>1. /\ i - 1 \in 1 .. Len(m_retransmissions')
                  /\ m_retransmissions'[i - 1] = m_retransmissions[i]
                BY <2>2, <3>1
            <4> QED
                BY <3>1, <4>1 DEF Waits
        <3>2. ASSUME NEW i \in 1 .. Len(m_retransmissions'),
                     m_retransmissions'[i][1] = s
              PROVE  Waits(m_retransmissions, s)
            <4>1. /\ i + 1 \in 1 .. Len(m_retransmissions)
                  /\ m_retransmissions[i + 1][1] = s
                BY <2>2, <3>2
            <4> QED
                BY <4>1 DEF Waits
        <3>3. 1 \in 1 .. Len(m_retransmissions)
            BY <2>2
        <3> QED
            BY <2>1, <2>2, <3>1, <3>2, <3>3 DEF Waits
    <2> QED
        BY <1>2, <1>3, <2>1, <2>3
<1> QED
    BY <1>4, <1>5

LEMMA AdvanceRemoves ==
    ASSUME RangeTypes, RangeTypes', m_seqNum \in Nat, NumbersLeft, UnitRanges,
           m_retransmit, AdvanceRange, NEW s
    PROVE  /\ s \in Queued' => s \in Queued
           /\ s \in Queued /\ s # m_retransSeq => s \in Queued'
<1>1. U32(m_retransSeq + 1) = m_retransStop
    BY ModSmall DEF U32, UnitRanges, NumbersLeft, Sent
<1> QED
    BY <1>1, AdvanceTakesOne

\* While there are numbers left, the packet Send looks at is the one it sends.
LEMMA HeaderIsNext ==
    ASSUME WindowInv, NumbersLeft, m_retransmit
    PROVE  RetransHeader = m_retransSeq /\ m_retransSeq \in Queued
<1>1. m_retransSeq \in 0 .. SeqMod - 1
    BY DEF WindowInv, TypeInvariant, TypeOK, UnitRanges, NumbersLeft, Sent
<1> QED
    BY <1>1, ModSmall DEF RetransHeader, U16, Queued

\* Only packets that have been sent wait.
LEMMA QueuedWereSent ==
    ASSUME WindowInv, NumbersLeft
    PROVE  Queued \subseteq Sent
BY DEF WindowInv, SentOnly, UnitRanges, NumbersLeft, Queued

----------------------------------------------------------------------------
(* Every step keeps TimerInv.                                              *)

\* CancelTimers removes the timers of the packets it is given and no others.
LEMMA CancelTimersExact ==
    ASSUME TypeOK, TimersMatch, EventsDiffer, NEW S \in SUBSET Seqs,
           CancelTimers(S), UNCHANGED m_sent
    PROVE  /\ rtoEvents' = {e \in rtoEvents : e.seq \notin S}
           /\ \A s \in Seqs :
                  m_timers'[s] = IF s \in S THEN NoEvent ELSE m_timers[s]
           /\ TimersMatch'
           /\ EventsDiffer'
<1>1. /\ rtoEvents \in SUBSET [id : Nat, seq : Seqs, due : Nat]
      /\ m_timers \in [Seqs -> Nat \cup {NoEvent}]
    BY DEF TypeOK
<1>2. ASSUME NEW e \in rtoEvents, NEW s \in S
      PROVE  m_timers[s] = e.id <=> s = e.seq
    <2>1. m_timers[e.seq] = e.id
        BY DEF TimersMatch
    <2>2. ASSUME m_timers[s] = e.id PROVE s = e.seq
        <3>1. e.id # NoEvent
            BY <1>1 DEF NoEvent
        <3>2. PICK f \in rtoEvents : f.seq = s /\ f.id = m_timers[s]
            BY <2>2, <3>1 DEF TimersMatch
        <3> QED
            BY <2>2, <3>2 DEF EventsDiffer
    <2> QED
        BY <2>1, <2>2
<1>3. rtoEvents' = {e \in rtoEvents : e.seq \notin S}
    BY <1>2 DEF CancelTimers
<1>4. \A s \in Seqs : m_timers'[s] = IF s \in S THEN NoEvent ELSE m_timers[s]
    BY DEF CancelTimers
<1>5. TimersMatch'
    BY <1>1, <1>3, <1>4 DEF TimersMatch
<1>6. EventsDiffer'
    BY <1>3 DEF EventsDiffer
<1> QED
    BY <1>3, <1>4, <1>5, <1>6

\* Transmit starts a timer for a packet that has none.
LEMMA TransmitMatches ==
    ASSUME TypeOK, TimersMatch, EventsDiffer, SendIsDue,
           NEW h \in Seqs, m_timers[h] = NoEvent, Transmit(h)
    PROVE  /\ TimersMatch'
           /\ EventsDiffer'
           /\ \A s \in Seqs : s # h => m_timers'[s] = m_timers[s]
           /\ m_timers'[h] # NoEvent
<1> DEFINE timer == [id |-> m_sent, seq |-> h, due |-> RtoTicks - 1]
<1>1. /\ rtoEvents \in SUBSET [id : Nat, seq : Seqs, due : Nat]
      /\ m_timers \in [Seqs -> Nat \cup {NoEvent}]
      /\ m_sent \in Nat
      /\ \A e \in rtoEvents : e.due > 0
    BY DEF TypeOK, SendIsDue
<1>2. timer.id = m_sent /\ timer.seq = h
    OBVIOUS
<1>3. /\ rtoEvents' = OlderTimers \cup {timer}
      /\ m_timers' = [m_timers EXCEPT ![h] = m_sent]
      /\ m_sent' = m_sent + 1
    BY DEF Transmit
<1> HIDE DEF timer
<1>4. /\ \A e \in OlderTimers : \E f \in rtoEvents : e.seq = f.seq /\ e.id = f.id
      /\ \A f \in rtoEvents : \E e \in OlderTimers : e.seq = f.seq /\ e.id = f.id
      /\ \A e, f \in OlderTimers : e.id = f.id => e = f
      /\ \A e \in OlderTimers : e.id \in Nat /\ e.seq \in Seqs /\ e.id < m_sent
    <2>1. \A e, f \in OlderTimers : e.id = f.id => e = f
        BY <1>1 DEF OlderTimers, EventsDiffer
    <2>2. \A e \in OlderTimers : e.id \in Nat /\ e.seq \in Seqs /\ e.id < m_sent
        BY <1>1, OlderTimersKeepPackets DEF EventsDiffer
    <2> QED
        BY <1>1, <2>1, <2>2, OlderTimersKeepPackets
<1>5. /\ \A s \in Seqs : s # h => m_timers'[s] = m_timers[s]
      /\ m_timers'[h] = m_sent
      /\ m_sent # NoEvent
    BY <1>1, <1>3 DEF NoEvent
<1>6. EventsDiffer'
    BY <1>1, <1>2, <1>3, <1>4 DEF EventsDiffer
<1>7. ASSUME NEW e \in rtoEvents' PROVE m_timers'[e.seq] = e.id
    <2>1. CASE e = timer
        BY <1>2, <1>5, <2>1
    <2>2. CASE e \in OlderTimers
        <3>1. PICK f \in rtoEvents : e.seq = f.seq /\ e.id = f.id
            BY <1>4, <2>2
        <3>2. m_timers[f.seq] = f.id /\ f.id # NoEvent /\ f.seq \in Seqs
            BY <1>1 DEF TimersMatch, NoEvent
        <3> QED
            BY <1>5, <3>1, <3>2
    <2> QED
        BY <1>3, <2>1, <2>2
<1>8. ASSUME NEW s \in Seqs, m_timers'[s] # NoEvent
      PROVE  \E e \in rtoEvents' : e.seq = s /\ e.id = m_timers'[s]
    <2>1. CASE s = h
        BY <1>2, <1>3, <1>5, <2>1
    <2>2. CASE s # h
        <3>1. PICK f \in rtoEvents : f.seq = s /\ f.id = m_timers[s]
            BY <1>5, <1>8, <2>2 DEF TimersMatch
        <3> QED
            BY <1>3, <1>4, <1>5, <2>2, <3>1
    <2> QED
        BY <2>1, <2>2
<1> QED
    BY <1>5, <1>6, <1>7, <1>8 DEF TimersMatch

\* Ageing the timers starts and ends none.
LEMMA AgeingMatches ==
    ASSUME TypeOK, TimersMatch, EventsDiffer, SendIsDue,
           rtoEvents' = OlderTimers, UNCHANGED <<m_timers, m_sent>>
    PROVE  TimersMatch' /\ EventsDiffer'
<1>1. /\ rtoEvents \in SUBSET [id : Nat, seq : Seqs, due : Nat]
      /\ \A e \in rtoEvents : e.due > 0
    BY DEF TypeOK, SendIsDue
<1>2. /\ \A e \in OlderTimers : \E f \in rtoEvents : e.seq = f.seq /\ e.id = f.id
      /\ \A f \in rtoEvents : \E e \in OlderTimers : e.seq = f.seq /\ e.id = f.id
    BY <1>1, OlderTimersKeepPackets
<1>3. \A e, f \in OlderTimers : e.id = f.id => e = f
    BY <1>1 DEF OlderTimers, EventsDiffer
<1>4. EventsDiffer'
    BY <1>2, <1>3 DEF EventsDiffer
<1>5. TimersMatch'
    BY <1>2 DEF TimersMatch
<1> QED
    BY <1>4, <1>5

\* A timer that expires is forgotten with its event.
LEMMA ExpiryMatches ==
    ASSUME TypeOK, TimersMatch, EventsDiffer, NEW e \in rtoEvents,
           m_timers' = [m_timers EXCEPT ![e.seq] = NoEvent],
           rtoEvents' = rtoEvents \ {e}, UNCHANGED m_sent
    PROVE  /\ TimersMatch'
           /\ EventsDiffer'
           /\ \A s \in Seqs : s # e.seq => m_timers'[s] = m_timers[s]
           /\ e.seq \in Seqs
           /\ m_timers'[e.seq] = NoEvent
<1>1. /\ rtoEvents \in SUBSET [id : Nat, seq : Seqs, due : Nat]
      /\ m_timers \in [Seqs -> Nat \cup {NoEvent}]
      /\ e.seq \in Seqs
    BY DEF TypeOK
<1>2. /\ \A s \in Seqs : s # e.seq => m_timers'[s] = m_timers[s]
      /\ m_timers'[e.seq] = NoEvent
    BY <1>1
<1>3. EventsDiffer'
    BY DEF EventsDiffer
<1>4. ASSUME NEW f \in rtoEvents' PROVE m_timers'[f.seq] = f.id
    <2>1. f \in rtoEvents /\ f # e /\ f.seq \in Seqs
        BY <1>1
    <2>2. m_timers[f.seq] = f.id /\ m_timers[e.seq] = e.id
        BY <2>1 DEF TimersMatch
    <2>3. f.seq # e.seq
        BY <2>1, <2>2 DEF EventsDiffer
    <2> QED
        BY <1>2, <2>1, <2>2, <2>3
<1>5. ASSUME NEW s \in Seqs, m_timers'[s] # NoEvent
      PROVE  \E f \in rtoEvents' : f.seq = s /\ f.id = m_timers'[s]
    <2>1. s # e.seq /\ m_timers'[s] = m_timers[s]
        BY <1>2, <1>5
    <2>2. PICK f \in rtoEvents : f.seq = s /\ f.id = m_timers[s]
        BY <1>5, <2>1 DEF TimersMatch
    <2> QED
        BY <2>1, <2>2
<1> QED
    BY <1>1, <1>2, <1>3, <1>4, <1>5 DEF TimersMatch

LEMMA FreshKeepsTimers ==
    ASSUME WindowInv, EventInv, NumbersLeft, TimerParts, SendFresh
    PROVE  TimerParts'
<1>1. /\ TypeOK /\ m_seqNum \in Nat /\ SendIsDue /\ Transmit(FreshHeader)
      /\ m_seqNum' = m_seqNum + 1
      /\ UNCHANGED <<phase, m_receivedPackets, m_retransmit, m_retransSeq,
                     m_retransmissions, m_retransmitPackets>>
    BY DEF WindowInv, TypeInvariant, TypeOK, SendFresh, rangeVars
<1>2. FreshHeader = m_seqNum /\ m_seqNum \in Seqs
    BY <1>1, ModSmall DEF FreshHeader, U16, NumbersLeft, Seqs
<1>3. m_seqNum \notin Sent /\ Sent' = Sent \cup {m_seqNum}
    BY <1>1 DEF Sent
<1>4. m_timers[m_seqNum] = NoEvent
    BY <1>2, <1>3 DEF TimerParts, TimersMatch, WindowInv, SentOnly
<1>5. /\ TimersMatch' /\ EventsDiffer'
      /\ \A s \in Seqs : s # m_seqNum => m_timers'[s] = m_timers[s]
      /\ m_timers'[m_seqNum] # NoEvent
    BY <1>1, <1>2, <1>4, TransmitMatches DEF TimerParts
<1>6. Queued' = Queued
    BY <1>1 DEF Queued
<1>7. Sent \subseteq Seqs
    BY <1>1 DEF Sent, Seqs, NumbersLeft
<1>8. WaitsUntimed'
    BY <1>1, <1>3, <1>5, <1>6, <1>7, QueuedWereSent DEF TimerParts, WaitsUntimed
<1>9. NoStrandedPacket'
    BY <1>1, <1>3, <1>5, <1>6, <1>7 DEF TimerParts, NoStrandedPacket
<1>10. StopReports'
    BY <1>1, TransmitKeepsChain DEF StopReports
<1> QED
    BY <1>5, <1>8, <1>9, <1>10 DEF TimerParts

LEMMA RetransmissionKeepsTimers ==
    ASSUME WindowInv, EventInv, NumbersLeft, TimerParts, WindowInv',
           SendRetransmission
    PROVE  TimerParts'
<1>1. /\ TypeOK /\ m_seqNum \in Nat /\ SendIsDue /\ Transmit(RetransHeader)
      /\ m_retransmit /\ AdvanceRange
      /\ RetransHeader \notin m_retransmitPackets
      /\ m_retransmitPackets' = m_retransmitPackets \cup {RetransHeader}
      /\ UNCHANGED <<phase, m_seqNum, m_receivedPackets>>
    BY DEF WindowInv, TypeInvariant, TypeOK, SendRetransmission,
           NotRetransmitted, windowVars
<1>2. RetransHeader = m_retransSeq /\ m_retransSeq \in Queued
    BY <1>1, HeaderIsNext
<1>3. Sent' = Sent /\ Sent \subseteq Seqs /\ Queued \subseteq Sent
    BY <1>1, QueuedWereSent DEF Sent, Seqs, NumbersLeft
<1>4. m_timers[m_retransSeq] = NoEvent /\ m_retransSeq \in Seqs
    BY <1>1, <1>2, <1>3 DEF TimerParts, WaitsUntimed
<1>5. /\ TimersMatch' /\ EventsDiffer'
      /\ \A s \in Seqs : s # m_retransSeq => m_timers'[s] = m_timers[s]
      /\ m_timers'[m_retransSeq] # NoEvent
    BY <1>1, <1>2, <1>4, TransmitMatches DEF TimerParts
<1>6. \A s : /\ s \in Queued' => s \in Queued
             /\ s \in Queued /\ s # m_retransSeq => s \in Queued'
    <2>1. RangeTypes /\ RangeTypes' /\ UnitRanges
        BY DEF WindowInv, TypeInvariant, TypeOK, RangeTypes
    <2> QED
        BY <1>1, <2>1, AdvanceRemoves
<1>7. WaitsUntimed'
    BY <1>1, <1>2, <1>3, <1>5, <1>6 DEF TimerParts, WaitsUntimed
<1>8. NoStrandedPacket'
    BY <1>1, <1>2, <1>3, <1>5, <1>6 DEF TimerParts, NoStrandedPacket
<1>9. StopReports'
    BY <1>1, TransmitKeepsChain DEF StopReports
<1> QED
    BY <1>5, <1>7, <1>8, <1>9 DEF TimerParts

\* A Send that skips a packet or waits.
LEMMA IdleSendKeepsTimers ==
    ASSUME WindowInv, EventInv, NumbersLeft, TimerParts, WindowInv',
           SendSkips \/ SendWaits
    PROVE  TimerParts'
<1>1. /\ TypeOK /\ m_seqNum \in Nat /\ SendIsDue
      /\ rtoEvents' = OlderTimers
      /\ UNCHANGED <<phase, m_sent, m_seqNum, m_receivedPackets, m_timers,
                     m_retransmitPackets>>
    BY DEF WindowInv, TypeInvariant, TypeOK, SendSkips, SendWaits, windowVars
<1>2. TimersMatch' /\ EventsDiffer'
    BY <1>1, AgeingMatches DEF TimerParts
<1>3. Sent' = Sent
    BY <1>1 DEF Sent
<1>4. \A s : /\ s \in Queued' => s \in Queued
             /\ s \in Queued \ m_retransmitPackets => s \in Queued'
    <2>1. CASE SendSkips
        <3>1. RangeTypes /\ RangeTypes' /\ UnitRanges /\ m_retransmit /\ AdvanceRange
            BY <2>1 DEF WindowInv, TypeInvariant, TypeOK, RangeTypes, SendSkips
        <3>2. m_retransSeq \in m_retransmitPackets
            BY <2>1, <3>1, HeaderIsNext DEF SendSkips, NotRetransmitted
        <3> QED
            BY <1>1, <3>1, <3>2, AdvanceRemoves
    <2>2. CASE SendWaits
        BY <2>2 DEF SendWaits, rangeVars, Queued
    <2> QED
        BY <2>1, <2>2
<1>5. WaitsUntimed'
    BY <1>1, <1>4 DEF TimerParts, WaitsUntimed
<1>6. NoStrandedPacket'
    BY <1>1, <1>3, <1>4 DEF TimerParts, NoStrandedPacket
<1>7. StopReports'
    <2>1. phase' # "stopped"
        BY <1>1 DEF EventInv, OneSendChain, SendIsDue
    <2> QED
        BY <2>1 DEF StopReports
<1> QED
    BY <1>2, <1>5, <1>6, <1>7 DEF TimerParts

LEMMA LostIsFinite ==
    ASSUME WindowInv, NEW seq \in Seqs
    PROVE  IsFiniteSet(LostBefore(seq))
<1>1. m_ackNum \in Int /\ seq - 1 \in Int
    BY DEF WindowInv, TypeInvariant, TypeOK, Seqs
<1>2. IsFiniteSet(m_ackNum .. seq - 1)
    BY <1>1, FS_Interval
<1>3. LostBefore(seq) \in SUBSET (m_ackNum .. seq - 1)
    BY DEF LostBefore
<1> QED
    BY <1>2, <1>3, FS_Subset

LEMMA HandleReadKeepsTimers ==
    ASSUME WindowInv, NumbersLeft, TimerParts, WindowInv',
           NEW seq \in Seqs, seq \in Sent, HandleRead(seq)
    PROVE  TimerParts'
<1> DEFINE lost == LostBefore(seq)
<1>1. /\ TypeOK /\ m_seqNum \in Nat /\ RangeTypes /\ RangeTypes'
      /\ phase = "running"
      /\ m_receivedPackets' = m_receivedPackets \cup {seq}
      /\ CancelTimers(lost \cup {seq})
      /\ Enqueue(Ascending(lost))
      /\ UNCHANGED <<phase, m_sent, m_seqNum, m_retransmitPackets>>
    BY DEF WindowInv, TypeInvariant, TypeOK, RangeTypes, HandleRead, Listening
<1>2. /\ lost \subseteq Seqs
      /\ Ascending(lost) \in Seq(Seqs)
      /\ \A s : Lists(Ascending(lost), s) <=> s \in lost
      /\ \A s \in lost : s \notin m_retransmitPackets
    <2>1. /\ lost \subseteq Seqs
          /\ Ascending(lost) \in Seq(Seqs)
        BY LostWereSent
    <2>2. \A s : Lists(Ascending(lost), s) <=> s \in lost
        <3>1. lost \in SUBSET Nat /\ IsFiniteSet(lost)
            BY LostIsFinite, LostWereSent DEF Seqs
        <3> HIDE DEF lost
        <3> QED
            BY <3>1, AscendingListsAll
    <2>3. \A s \in lost : s \notin m_retransmitPackets
        BY DEF LostBefore
    <2> QED
        BY <2>1, <2>2, <2>3
<1> HIDE DEF lost
<1>3. /\ \A s \in Seqs :
             m_timers'[s] = IF s \in lost \cup {seq} THEN NoEvent ELSE m_timers[s]
      /\ TimersMatch' /\ EventsDiffer'
    <2>1. lost \cup {seq} \in SUBSET Seqs
        BY <1>2
    <2> QED
        BY <1>1, <2>1, CancelTimersExact DEF TimerParts
<1>4. \A s : s \in Queued' <=> s \in Queued \/ s \in lost
    BY <1>1, <1>2, EnqueueAdds
<1>5. Sent' = Sent /\ Sent \subseteq Seqs /\ Queued \subseteq Sent
    BY <1>1, QueuedWereSent DEF Sent, Seqs, NumbersLeft
<1>6. WaitsUntimed'
    BY <1>1, <1>2, <1>3, <1>4, <1>5 DEF TimerParts, WaitsUntimed
<1>7. NoStrandedPacket'
    BY <1>1, <1>2, <1>3, <1>4, <1>5 DEF TimerParts, NoStrandedPacket
<1>8. StopReports'
    BY <1>1 DEF StopReports
<1> QED
    BY <1>3, <1>6, <1>7, <1>8 DEF TimerParts

LEMMA TimeoutKeepsTimers ==
    ASSUME WindowInv, NumbersLeft, TimerParts, WindowInv',
           NEW e \in rtoEvents, TimeoutOfFirst(e) \/ TimeoutOfRetransmission(e)
    PROVE  TimerParts'
<1>1. /\ TypeOK /\ m_seqNum \in Nat /\ RangeTypes /\ RangeTypes'
      /\ Enqueue(<<e.seq>>)
      /\ m_timers' = [m_timers EXCEPT ![e.seq] = NoEvent]
      /\ rtoEvents' = rtoEvents \ {e}
      /\ UNCHANGED <<phase, m_sent, m_seqNum, m_retransmitPackets>>
    BY DEF WindowInv, TypeInvariant, TypeOK, RangeTypes, TimeoutOfFirst,
           TimeoutOfRetransmission, windowVars
<1>2. /\ TimersMatch' /\ EventsDiffer'
      /\ \A s \in Seqs : s # e.seq => m_timers'[s] = m_timers[s]
      /\ e.seq \in Seqs
      /\ m_timers'[e.seq] = NoEvent
    BY <1>1, ExpiryMatches DEF TimerParts
<1>3. \A s : s \in Queued' <=> s \in Queued \/ s = e.seq
    <2>1. <<e.seq>> \in Seq(Seqs) /\ \A s : Lists(<<e.seq>>, s) <=> s = e.seq
        BY <1>2 DEF Lists
    <2> QED
        BY <1>1, <2>1, EnqueueAdds
<1>4. /\ m_receivedPackets \subseteq m_receivedPackets'
      /\ e.seq \in m_retransmitPackets => e.seq \in m_receivedPackets'
    BY DEF TimeoutOfFirst, TimeoutOfRetransmission, WithGivenUp, windowVars
<1>5. Sent' = Sent /\ Sent \subseteq Seqs /\ Queued \subseteq Sent
    BY <1>1, QueuedWereSent DEF Sent, Seqs, NumbersLeft
<1>6. WaitsUntimed'
    BY <1>1, <1>2, <1>3, <1>5 DEF TimerParts, WaitsUntimed
<1>7. NoStrandedPacket'
    BY <1>1, <1>2, <1>3, <1>4, <1>5 DEF TimerParts, NoStrandedPacket
<1>8. StopReports'
    \* after the stop there was no timer to expire
    BY <1>1 DEF TimerParts, StopReports
<1> QED
    BY <1>2, <1>6, <1>7, <1>8 DEF TimerParts

\* Start, Stop and Log.
LEMMA ControlKeepsTimers ==
    ASSUME WindowInv, EventInv, NumbersLeft, TimerParts, Start \/ Stop \/ Log
    PROVE  TimerParts'
<1>1. TypeOK /\ m_seqNum \in Nat
    BY DEF WindowInv, TypeInvariant, TypeOK
<1>2. /\ UNCHANGED <<m_sent, m_seqNum, m_receivedPackets, m_retransmit,
                     m_retransSeq, m_retransmissions, m_retransmitPackets>>
      /\ UNCHANGED statVars
    BY DEF Start, Stop, Log, StartApplication, StopApplication, PpsLog,
           windowVars, rangeVars
<1>3. Queued' = Queued /\ Sent' = Sent /\ Counters' = Counters
    BY <1>2 DEF Queued, Sent, Counters, statVars
<1>4. CASE Start
    <2>1. /\ UNCHANGED timerVars
          /\ phase = "created" /\ phase' = "running"
        BY <1>4 DEF Start, StartApplication
    <2>2. TimersMatch' /\ EventsDiffer' /\ WaitsUntimed'
        BY <1>2, <1>3, <2>1
           DEF TimerParts, TimersMatch, EventsDiffer, WaitsUntimed, timerVars
    <2>3. Sent' = {}
        <3>1. m_sent = 0 /\ m_sent = m_seqNum + m_packetRetrans
                /\ m_packetRetrans \in Nat
            BY <1>1, <2>1 DEF EventInv, SentAddsUp, TypeOK
        <3>2. m_seqNum = 0
            BY <1>1, <3>1
        <3> QED
            BY <1>3, <3>2 DEF Sent
    <2> QED
        BY <2>1, <2>2, <2>3 DEF TimerParts, NoStrandedPacket, StopReports
<1>5. CASE Stop
    <2>1. /\ CancelTimers(Seqs) /\ phase' = "stopped" /\ reported' = Counters
        BY <1>5 DEF Stop, StopApplication
    <2>2. /\ rtoEvents' = {e \in rtoEvents : e.seq \notin Seqs}
          /\ \A s \in Seqs : m_timers'[s] = NoEvent
          /\ TimersMatch' /\ EventsDiffer'
        BY <1>1, <1>2, <2>1, CancelTimersExact DEF TimerParts
    <2>3. rtoEvents' = {}
        BY <1>1, <2>2 DEF TypeOK
    <2>4. WaitsUntimed'
        <3>1. Queued \subseteq Seqs
            BY <1>1, QueuedWereSent DEF Sent, Seqs, NumbersLeft
        <3> QED
            BY <1>3, <2>2, <3>1 DEF WaitsUntimed
    <2> QED
        BY <1>3, <2>1, <2>2, <2>3, <2>4
           DEF TimerParts, NoStrandedPacket, StopReports
<1>6. CASE Log
    <2>1. /\ UNCHANGED <<phase, timerVars>>
          /\ reported' = Counters
        BY <1>6 DEF Log, PpsLog
    <2> QED
        BY <1>2, <1>3, <2>1
           DEF TimerParts, TimersMatch, EventsDiffer, WaitsUntimed,
               NoStrandedPacket, StopReports, timerVars
<1> QED
    BY <1>4, <1>5, <1>6

\* A step that leaves the client alone, or that never ends.
LEMMA UnchangedKeepsTimers ==
    ASSUME TimerParts,
           UNCHANGED <<phase, m_sent, windowVars, rangeVars, m_retransmitPackets,
                       timerVars, statVars, reported>>
    PROVE  TimerParts'
<1>1. Queued' = Queued /\ Sent' = Sent /\ Counters' = Counters
    BY DEF Queued, Sent, Counters, windowVars, rangeVars, statVars
<1> QED
    BY <1>1 DEF TimerParts, TimersMatch, EventsDiffer, WaitsUntimed,
       NoStrandedPacket, StopReports, windowVars, timerVars

LEMMA InitTimerInv == Init => TimerInv
<1> SUFFICES ASSUME Init PROVE TimerParts
    BY DEF TimerInv
<1>1. Sent = {} /\ Queued = {}
    BY DEF Init, ClientInit, Sent, Queued
<1> QED
    BY <1>1 DEF Init, ClientInit, TimerParts, TimersMatch, EventsDiffer,
       WaitsUntimed, NoStrandedPacket, StopReports

\* Sequence numbers are used up and never come back.
LEMMA NumbersWereLeft ==
    ASSUME TypeOK, [Next]_vars, NumbersLeft'
    PROVE  NumbersLeft
<1> SUFFICES m_seqNum' = m_seqNum \/ m_seqNum' = m_seqNum + 1
    BY DEF TypeOK, NumbersLeft
<1>1. CASE SendFresh
    BY <1>1 DEF SendFresh
<1>2. CASE Start \/ Stop \/ Log \/ SendRetransmission \/ SendWaits \/ SendSkips
    BY <1>2 DEF Start, Stop, Log, StartApplication, StopApplication,
       PpsLog, SendRetransmission, SendWaits, SendSkips, windowVars
<1>3. CASE Timeout
    BY <1>3 DEF Timeout, HandleTimeout, TimeoutOfFirst,
       TimeoutOfRetransmission, TimeoutSpins, windowVars
<1>4. ASSUME NEW s \in Seqs, Receive(s) \/ Lose(s)
      PROVE  m_seqNum' = m_seqNum
    BY <1>4 DEF Receive, HandleRead, HandleReadSpins, Lose, clientVars,
       windowVars
<1>5. CASE UNCHANGED vars
    BY <1>5 DEF vars, clientVars, windowVars
<1> QED
    BY <1>1, <1>2, <1>3, <1>4, <1>5 DEF Next, Send

LEMMA StepKeepsTimers ==
    WindowInv /\ WindowInv' /\ EventInv /\ TimerInv /\ [Next]_vars => TimerInv'
<1> SUFFICES ASSUME WindowInv, WindowInv', EventInv, TimerInv, [Next]_vars,
                    NumbersLeft'
             PROVE  TimerParts'
    BY DEF TimerInv
<1>1. NumbersLeft /\ TimerParts
    BY NumbersWereLeft DEF TimerInv, WindowInv, TypeInvariant
<1>2. CASE Start \/ Stop \/ Log
    BY <1>1, <1>2, ControlKeepsTimers
<1>3. CASE SendFresh
    BY <1>1, <1>3, FreshKeepsTimers
<1>4. CASE SendRetransmission
    BY <1>1, <1>4, RetransmissionKeepsTimers
<1>5. CASE SendSkips \/ SendWaits
    BY <1>1, <1>5, IdleSendKeepsTimers
<1>6. CASE Timeout
    <2>1. PICK e \in rtoEvents : HandleTimeout(e)
        BY <1>6 DEF Timeout
    <2>2. CASE TimeoutSpins(e)
        BY <1>1, <2>2, UnchangedKeepsTimers DEF TimeoutSpins, logVars
    <2> QED
        BY <1>1, <2>1, <2>2, TimeoutKeepsTimers DEF HandleTimeout
<1>7. ASSUME NEW s \in Seqs, Receive(s) PROVE TimerParts'
    <2>1. s \in Sent
        BY <1>7, LandTypes DEF Receive, WindowInv, TypeInvariant, SentOnly
    <2>2. CASE HandleRead(s)
        BY <1>1, <2>1, <2>2, HandleReadKeepsTimers
    <2>3. CASE HandleReadSpins(s)
        BY <1>1, <2>3, UnchangedKeepsTimers DEF HandleReadSpins, logVars
    <2> QED
        BY <1>7, <2>2, <2>3 DEF Receive
<1>8. ASSUME NEW s \in Seqs, Lose(s) PROVE TimerParts'
    BY <1>1, <1>8, UnchangedKeepsTimers DEF Lose, clientVars, logVars
<1>9. CASE UNCHANGED vars
    BY <1>1, <1>9, UnchangedKeepsTimers DEF vars, clientVars, logVars
<1> QED
    BY <1>2, <1>3, <1>4, <1>5, <1>6, <1>7, <1>8, <1>9 DEF Next, Send

----------------------------------------------------------------------------
(* The theorems.                                                           *)

THEOREM TimerInvariant == Spec => []TimerInv
BY InitTimerInv, StepKeepsTimers, WindowInvariant, EventInvariant, PTL DEF Spec

\* With a budget below 65536 the client never runs out of sequence numbers, so
\* all that holds until then holds for ever.
THEOREM NumbersLast ==
    ASSUME MaxPackets < SeqMod, 1 < SeqMod
    PROVE  Spec => []NumbersLeft
<1>1. WindowInv /\ EventInv /\ BudgetKept => NumbersLeft
    BY DEF WindowInv, TypeInvariant, TypeOK, EventInv, SentAddsUp, BudgetKept,
       NumbersLeft
<1> QED
    BY <1>1, WindowInvariant, EventInvariant, BudgetIsKept, PTL

\* Send, HandleRead, HandleTimeout and StopApplication keep m_timers and the
\* pending timeouts in agreement until the sequence numbers run out: no timer
\* of the client's map is stale and none is pending that a Cancel would miss.
THEOREM TimersAgree == Spec => [](NumbersLeft => TimersMatch)
<1>1. TimerInv => (NumbersLeft => TimersMatch)
    BY DEF TimerInv, TimerParts
<1> QED
    BY <1>1, TimerInvariant, PTL

\* While the client runs, every packet of the window is echoed, given up, timed
\* or about to be retransmitted for the first time, until the numbers run out.
THEOREM NoneStranded == Spec => [](NumbersLeft => NoStrandedPacket)
<1>1. TimerInv => (NumbersLeft => NoStrandedPacket)
    BY DEF TimerInv, TimerParts
<1> QED
    BY <1>1, TimerInvariant, PTL

\* StopApplication cancels the Send event, both reports and every timer, and
\* the last report holds the final counters.
THEOREM StopIsQuiet == Spec => [](NumbersLeft => QuietAfterStop)
<1>1. TimerInv /\ EventInv => (NumbersLeft => QuietAfterStop)
    BY DEF TimerInv, TimerParts, StopReports, EventInv, OneSendChain,
       OneLogChain, QuietAfterStop
<1> QED
    BY <1>1, TimerInvariant, EventInvariant, PTL

----------------------------------------------------------------------------
(* Packets whose echo came in time.                                        *)

\* A packet received before it was retransmitted has no timer.
SettledUntimed ==
    \A s \in m_receivedPackets \ m_retransmitPackets : m_timers[s] = NoEvent

SettledInv == NumbersLeft => SettledUntimed

LEMMA FreshKeepsSettled ==
    ASSUME WindowInv, NumbersLeft, SettledUntimed, SendFresh
    PROVE  SettledUntimed'
<1>1. /\ m_seqNum \in Nat /\ m_timers \in [Seqs -> Nat \cup {NoEvent}]
      /\ m_receivedPackets \subseteq Seqs /\ m_receivedPackets \subseteq Sent
    BY DEF WindowInv, TypeInvariant, TypeOK, SentOnly
<1>2. /\ m_timers' = [m_timers EXCEPT ![FreshHeader] = m_sent]
      /\ UNCHANGED <<m_receivedPackets, m_retransmitPackets>>
    BY DEF SendFresh, Transmit
<1>3. FreshHeader = m_seqNum
    BY <1>1, ModSmall DEF FreshHeader, U16, NumbersLeft
<1>4. m_seqNum \notin m_receivedPackets
    BY <1>1 DEF Sent
<1> QED
    BY <1>1, <1>2, <1>3, <1>4 DEF SettledUntimed

LEMMA HandleReadKeepsSettled ==
    ASSUME WindowInv, SettledUntimed, NEW seq \in Seqs, HandleRead(seq)
    PROVE  SettledUntimed'
<1> DEFINE settled == LostBefore(seq) \cup {seq}
<1>1. m_receivedPackets \subseteq Seqs
    BY DEF WindowInv, TypeInvariant, TypeOK
<1>2. /\ m_receivedPackets' = m_receivedPackets \cup {seq}
      /\ m_timers' = [s \in Seqs |-> IF s \in settled THEN NoEvent ELSE m_timers[s]]
      /\ UNCHANGED m_retransmitPackets
    BY DEF HandleRead, CancelTimers
<1>3. seq \in settled
    OBVIOUS
<1> HIDE DEF settled
<1> QED
    BY <1>1, <1>2, <1>3 DEF SettledUntimed

LEMMA TimeoutKeepsSettled ==
    ASSUME WindowInv, SettledUntimed, NEW e \in rtoEvents, HandleTimeout(e)
    PROVE  SettledUntimed'
<1>1. /\ m_receivedPackets \subseteq Seqs /\ e.seq \in Seqs
      /\ m_timers \in [Seqs -> Nat \cup {NoEvent}]
    BY DEF WindowInv, TypeInvariant, TypeOK
<1>2. CASE TimeoutOfFirst(e)
    BY <1>1, <1>2 DEF TimeoutOfFirst, windowVars, SettledUntimed
<1>3. CASE TimeoutOfRetransmission(e)
    BY <1>1, <1>3 DEF TimeoutOfRetransmission, WithGivenUp, SettledUntimed
<1>4. CASE TimeoutSpins(e)
    BY <1>4 DEF TimeoutSpins, windowVars, timerVars, SettledUntimed
<1> QED
    BY <1>2, <1>3, <1>4 DEF HandleTimeout

LEMMA StepKeepsSettled ==
    WindowInv /\ SettledInv /\ [Next]_vars => SettledInv'
<1> SUFFICES ASSUME WindowInv, SettledInv, [Next]_vars, NumbersLeft'
             PROVE  SettledUntimed'
    BY DEF SettledInv
<1>1. TypeOK /\ NumbersLeft /\ SettledUntimed
    BY NumbersWereLeft DEF SettledInv, WindowInv, TypeInvariant
<1>2. CASE UNCHANGED <<m_receivedPackets, m_retransmitPackets, m_timers>>
    BY <1>1, <1>2 DEF SettledUntimed
<1>3. CASE Start \/ Log \/ SendWaits \/ SendSkips
    BY <1>2, <1>3 DEF Start, Log, StartApplication, PpsLog, SendWaits, SendSkips,
       windowVars, timerVars
<1>4. CASE Stop
    <2>1. /\ m_timers' = [s \in Seqs |-> NoEvent]
          /\ UNCHANGED <<m_receivedPackets, m_retransmitPackets>>
        BY <1>4 DEF Stop, StopApplication, CancelTimers, windowVars
    <2> QED
        BY <1>1, <2>1 DEF SettledUntimed, TypeOK
<1>5. CASE SendFresh
    BY <1>1, <1>5, FreshKeepsSettled
<1>6. CASE SendRetransmission
    <2>1. /\ m_timers' = [m_timers EXCEPT ![RetransHeader] = m_sent]
          /\ m_retransmitPackets' = m_retransmitPackets \cup {RetransHeader}
          /\ UNCHANGED m_receivedPackets
        BY <1>6 DEF SendRetransmission, Transmit, windowVars
    <2> QED
        BY <1>1, <2>1 DEF SettledUntimed, TypeOK
<1>7. CASE Timeout
    BY <1>1, <1>7, TimeoutKeepsSettled DEF Timeout
<1>8. ASSUME NEW s \in Seqs, Receive(s) PROVE SettledUntimed'
    <2>1. CASE HandleRead(s)
        BY <1>1, <2>1, HandleReadKeepsSettled
    <2>2. CASE HandleReadSpins(s)
        BY <1>2, <2>2 DEF HandleReadSpins, windowVars, timerVars
    <2> QED
        BY <1>8, <2>1, <2>2 DEF Receive
<1>9. ASSUME NEW s \in Seqs, Lose(s) PROVE SettledUntimed'
    BY <1>2, <1>9 DEF Lose, clientVars, windowVars, timerVars
<1>10. CASE UNCHANGED vars
    BY <1>2, <1>10 DEF vars, clientVars, windowVars, timerVars
<1> QED
    BY <1>3, <1>4, <1>5, <1>6, <1>7, <1>8, <1>9, <1>10 DEF Next, Send

LEMMA InitSettledInv == Init => SettledInv
BY DEF Init, ClientInit, SettledInv, SettledUntimed

THEOREM SettledInvariant == Spec => []SettledInv
BY InitSettledInv, StepKeepsSettled, WindowInvariant, PTL DEF Spec

\* Neither a gap nor a timer queues a packet that was echoed before.
LEMMA EchoedAreNotListed ==
    ASSUME WindowInv, WindowInv', NumbersLeft, TimerParts, SettledUntimed,
           NEW s \in m_receivedPackets \ (Queued \cup m_retransmitPackets),
           NEW lost \in Seq(Seqs), Enqueue(lost), ~Lists(lost, s)
    PROVE  s \notin Queued'
<1>1. RangeTypes /\ RangeTypes'
    BY DEF WindowInv, TypeInvariant, TypeOK, RangeTypes
<1> QED
    BY <1>1, EnqueueAdds

LEMMA TimeoutLeavesEchoed ==
    ASSUME WindowInv, WindowInv', NumbersLeft, TimerParts, SettledUntimed,
           NEW s \in m_receivedPackets \ (Queued \cup m_retransmitPackets),
           NEW e \in rtoEvents, HandleTimeout(e)
    PROVE  s \notin Queued'
<1>1. e.seq \in Seqs /\ e.id \in Nat
    BY DEF WindowInv, TypeInvariant, TypeOK
<1>2. s # e.seq
    <2>1. m_timers[e.seq] # NoEvent
        BY <1>1 DEF TimerParts, TimersMatch, NoEvent
    <2> QED
        BY <2>1 DEF SettledUntimed
<1>3. CASE TimeoutSpins(e)
    BY <1>3 DEF TimeoutSpins, rangeVars, Queued
<1>4. CASE TimeoutOfFirst(e) \/ TimeoutOfRetransmission(e)
    <2>1. Enqueue(<<e.seq>>)
        BY <1>4 DEF TimeoutOfFirst, TimeoutOfRetransmission
    <2>2. <<e.seq>> \in Seq(Seqs) /\ ~Lists(<<e.seq>>, s)
        BY <1>1, <1>2 DEF Lists
    <2> QED
        BY <2>1, <2>2, EchoedAreNotListed
<1> QED
    BY <1>3, <1>4 DEF HandleTimeout

LEMMA HandleReadLeavesEchoed ==
    ASSUME WindowInv, WindowInv', NumbersLeft, TimerParts, SettledUntimed,
           NEW s \in m_receivedPackets \ (Queued \cup m_retransmitPackets),
           NEW seq \in Seqs, seq \in Sent, HandleRead(seq)
    PROVE  s \notin Queued'
<1> DEFINE lost == LostBefore(seq)
<1>1. Enqueue(Ascending(lost)) /\ s \notin lost
    BY DEF HandleRead, LostBefore
<1>2. /\ lost \in SUBSET Nat /\ IsFiniteSet(lost)
      /\ Ascending(lost) \in Seq(Seqs)
    BY LostIsFinite, LostWereSent DEF Seqs
<1> HIDE DEF lost
<1>3. ~Lists(Ascending(lost), s)
    BY <1>1, <1>2, AscendingListsAll
<1> QED
    BY <1>1, <1>2, <1>3, EchoedAreNotListed

LEMMA SendLeavesEchoed ==
    ASSUME WindowInv, WindowInv', NumbersLeft,
           SendRetransmission \/ SendSkips, NEW s \in Queued'
    PROVE  s \in Queued
<1>1. /\ RangeTypes /\ RangeTypes' /\ UnitRanges /\ m_seqNum \in Nat
      /\ m_retransmit /\ AdvanceRange
    BY DEF WindowInv, TypeInvariant, TypeOK, RangeTypes, SendRetransmission, SendSkips
<1> QED
    BY <1>1, AdvanceRemoves

LEMMA StepLeavesEchoed ==
    ASSUME WindowInv, WindowInv', TimerInv, SettledInv, NumbersLeft, [Next]_vars
    PROVE  LeavesEchoedAlone
<1> SUFFICES ASSUME NEW s \in m_receivedPackets \ (Queued \cup m_retransmitPackets)
             PROVE  s \notin Queued'
    BY DEF LeavesEchoedAlone
<1>1. TimerParts /\ SettledUntimed
    BY DEF TimerInv, SettledInv
<1>2. CASE UNCHANGED rangeVars
    BY <1>2 DEF rangeVars, Queued
<1>3. CASE Start \/ Stop \/ Log \/ SendFresh \/ SendWaits \/ UNCHANGED vars
    BY <1>2, <1>3 DEF Start, Stop, Log, StartApplication, StopApplication, PpsLog,
       SendFresh, SendWaits, vars, clientVars
<1>4. CASE SendRetransmission \/ SendSkips
    BY <1>4, SendLeavesEchoed
<1>5. CASE Timeout
    BY <1>1, <1>5, TimeoutLeavesEchoed DEF Timeout
<1>6. ASSUME NEW seq \in Seqs, Receive(seq) PROVE s \notin Queued'
    <2>1. CASE HandleRead(seq)
        <3>1. seq \in Sent
            BY <1>6, LandTypes DEF Receive, WindowInv, TypeInvariant, SentOnly
        <3> QED
            BY <1>1, <2>1, <3>1, HandleReadLeavesEchoed
    <2>2. CASE HandleReadSpins(seq)
        BY <1>2, <2>2 DEF HandleReadSpins
    <2> QED
        BY <1>6, <2>1, <2>2 DEF Receive
<1>7. ASSUME NEW seq \in Seqs, Lose(seq) PROVE s \notin Queued'
    BY <1>2, <1>7 DEF Lose, clientVars
<1> QED
    BY <1>3, <1>4, <1>5, <1>6, <1>7 DEF Next, Send

\* Whatever the network does, HandleRead and HandleTimeout queue no packet whose
\* echo came before they took it for lost, as long as there are numbers left.
THEOREM EchoedAreLeftAlone == Spec => [][NumbersLeft => LeavesEchoedAlone]_vars
<1>1. /\ WindowInv /\ WindowInv' /\ TimerInv /\ SettledInv /\ [Next]_vars
      => [NumbersLeft => LeavesEchoedAlone]_vars
    BY StepLeavesEchoed
<1> QED
    BY <1>1, WindowInvariant, TimerInvariant, SettledInvariant, PTL DEF Spec

\* With a budget below 65536 the client never retransmits a packet whose echo
\* came in time.
THEOREM EchoedInTimeAlways ==
    ASSUME MaxPackets < SeqMod, 1 < SeqMod
    PROVE  Spec => EchoedInTime
<1>1. NumbersLeft /\ [NumbersLeft => LeavesEchoedAlone]_vars => [LeavesEchoedAlone]_vars
    OBVIOUS
<1>2. Spec => []NumbersLeft
    BY NumbersLast
<1> QED
    BY <1>1, <1>2, EchoedAreLeftAlone, PTL DEF EchoedInTime

----------------------------------------------------------------------------
(***************************************************************************)
(* The retransmission queue and the counts it explains, as long as there   *)
(* are sequence numbers left: no packet waits more than twice, and no more *)
(* packets are retransmitted than are counted as lost.                     *)
(***************************************************************************)

----------------------------------------------------------------------------
\* Ascending lists each member once.
LEMMA OftenAscending ==
    ASSUME NEW S \in SUBSET Seqs, IsFiniteSet(S), NEW s
    PROVE  Often(Ascending(S), s) = IF s \in S THEN 1 ELSE 0
<1> DEFINE t == Ascending(S)
<1>1. /\ t \in [1 .. Cardinality(S) -> S]
      /\ Len(t) = Cardinality(S)
      /\ Cardinality(S) \in Nat
      /\ \A i, j \in 1 .. Len(t) : i < j => t[i] < t[j]
      /\ Lists(t, s) <=> s \in S
    <2>1. S \in SUBSET Nat
        BY DEF Seqs
    <2> QED
        BY <2>1, AscendingLists, AscendingListsAll, FS_CardinalityType
<1> HIDE DEF t
<1>2. CASE s \notin S
    <2>1. Times(t, s) = {}
        BY <1>1, <1>2 DEF Times, Lists
    <2> QED
        BY <1>2, <2>1, FS_EmptySet DEF Often, t
<1>3. CASE s \in S
    <2>1. PICK i \in 1 .. Len(t) : t[i] = s
        BY <1>1, <1>3 DEF Lists
    <2>2. ASSUME NEW j \in 1 .. Len(t), t[j] = s PROVE j = i
        <3>1. s \in Nat
            BY <1>3 DEF Seqs
        <3>2. ~(i < j) /\ ~(j < i)
            BY <1>1, <2>1, <2>2, <3>1
        <3> QED
            BY <1>1, <3>2
    <2>3. Times(t, s) = {i}
        BY <2>1, <2>2 DEF Times
    <2> QED
        BY <1>3, <2>3, FS_Singleton DEF Often, t
<1> QED
    BY <1>2, <1>3

----------------------------------------------------------------------------
(* How often a packet waits.                                               *)

Firsts(q) == [i \in 1 .. Len(q) |-> q[i][1]]

Waiting(s) ==
    Often(Firsts(m_retransmissions), s)
        + (IF m_retransmit /\ m_retransSeq = s THEN 1 ELSE 0)

LEMMA FirstsType ==
    ASSUME NEW q \in Seq(Seqs \X Seqs)
    PROVE  Firsts(q) \in Seq(Seqs) /\ Len(Firsts(q)) = Len(q)
<1>1. \A i \in 1 .. Len(q) : q[i][1] \in Seqs
    OBVIOUS
<1>2. Len(q) \in Nat
    OBVIOUS
<1> QED
    BY <1>1, <1>2 DEF Firsts

LEMMA FirstsJoined ==
    ASSUME NEW q \in Seq(Seqs \X Seqs), NEW more \in Seq(Seqs), NEW s
    PROVE  Often(Firsts(q \o RangesOf(more)), s) =
               Often(Firsts(q), s) + Often(more, s)
<1> DEFINE joined == q \o RangesOf(more)
           f == Firsts(q)
<1>1. /\ joined \in Seq(Seqs \X Seqs)
      /\ Len(joined) = Len(q) + Len(more)
      /\ \A i \in 1 .. Len(q) : joined[i] = q[i]
      /\ \A i \in 1 .. Len(more) : joined[Len(q) + i][1] = more[i]
    BY JoinedQueue
<1>2. /\ f \in Seq(Seqs) /\ Len(f) = Len(q)
      /\ \A i \in 1 .. Len(q) : f[i] = q[i][1]
    BY FirstsType DEF Firsts
<1>3. /\ Len(Firsts(joined)) = Len(joined)
      /\ \A i \in 1 .. Len(joined) : Firsts(joined)[i] = joined[i][1]
    BY <1>1, FirstsType DEF Firsts
<1>4. Len(q) \in Nat /\ Len(more) \in Nat
    OBVIOUS
<1> HIDE DEF joined, f
<1>5. /\ Len(f \o more) = Len(q) + Len(more)
      /\ \A i \in 1 .. Len(q) : (f \o more)[i] = f[i]
      /\ \A i \in 1 .. Len(more) : (f \o more)[Len(q) + i] = more[i]
    <2>1. f \in Seq(Seqs)
        BY <1>2
    <2>2. /\ Len(f \o more) = Len(f) + Len(more)
          /\ \A i \in 1 .. Len(f) : (f \o more)[i] = f[i]
          /\ \A i \in 1 .. Len(more) : (f \o more)[Len(f) + i] = more[i]
        BY <2>1
    <2> QED
        BY <1>2, <2>2
<1>6. ASSUME NEW i \in 1 .. Len(joined)
      PROVE  Firsts(joined)[i] = (f \o more)[i]
    <2>1. CASE i <= Len(q)
        BY <1>1, <1>2, <1>3, <1>4, <1>5, <2>1
    <2>2. CASE i > Len(q)
        <3>1. i - Len(q) \in 1 .. Len(more) /\ i = Len(q) + (i - Len(q))
            BY <1>1, <1>4, <2>2
        <3>2. /\ joined[Len(q) + (i - Len(q))][1] = more[i - Len(q)]
              /\ (f \o more)[Len(q) + (i - Len(q))] = more[i - Len(q)]
            BY <1>1, <1>5, <3>1
        <3> QED
            BY <1>3, <3>1, <3>2
    <2>3. i \in Int /\ Len(q) \in Int
        BY <1>1, <1>4
    <2>4. i <= Len(q) \/ i > Len(q)
        BY <2>3
    <2> QED
        BY <2>1, <2>2, <2>4
<1>7. Times(Firsts(joined), s) = Times(f \o more, s)
    BY <1>1, <1>3, <1>5, <1>6 DEF Times
<1>8. Often(f \o more, s) = Often(f, s) + Often(more, s)
    BY <1>2, OftenJoined
<1> QED
    BY <1>7, <1>8 DEF Often, joined, f

LEMMA WaitingType ==
    ASSUME RangeTypes, NEW s
    PROVE  Waiting(s) \in Nat
<1>1. Often(Firsts(m_retransmissions), s) \in Nat
    BY FirstsType, OftenType DEF RangeTypes
<1> QED
    BY <1>1 DEF Waiting

\* Enqueue makes the packets of its list wait once more.
LEMMA EnqueueOften ==
    ASSUME RangeTypes, NEW lost \in Seq(Seqs), Enqueue(lost), NEW s \in Seqs
    PROVE  Waiting(s)' = Waiting(s) + Often(lost, s)
<1>1. m_retransmissions \in Seq(Seqs \X Seqs)
    BY DEF RangeTypes
<1>2. Often(Firsts(m_retransmissions), s) \in Nat /\ Often(lost, s) \in Nat
    BY <1>1, FirstsType, OftenType
<1>3. \A t \in Seq(Seqs) :
         Often(Firsts(m_retransmissions \o RangesOf(t)), s) =
             Often(Firsts(m_retransmissions), s) + Often(t, s)
    BY <1>1, FirstsJoined
<1>4. CASE lost = <<>>
    <2>1. /\ m_retransmit' = m_retransmit /\ m_retransSeq' = m_retransSeq
          /\ m_retransmissions' = m_retransmissions
        BY <1>4 DEF Enqueue, rangeVars
    <2>2. Times(lost, s) = {}
        BY <1>4 DEF Times
    <2>3. Often(lost, s) = 0
        BY <2>2, FS_EmptySet DEF Often
    <2> QED
        BY <1>2, <2>1, <2>3 DEF Waiting
<1>5. CASE lost # <<>> /\ ~m_retransmit
    <2>1. /\ m_retransmit' = TRUE
          /\ m_retransSeq' = Head(lost)
          /\ m_retransmissions' = m_retransmissions \o RangesOf(Tail(lost))
        BY <1>5 DEF Enqueue
    <2>2. /\ Tail(lost) \in Seq(Seqs)
          /\ Often(lost, s) =
                 (IF s = Head(lost) THEN 1 ELSE 0) + Often(Tail(lost), s)
          /\ Often(Tail(lost), s) \in Nat
        BY <1>5, OftenTail, OftenType
    <2>3. Often(Firsts(m_retransmissions'), s) =
              Often(Firsts(m_retransmissions), s) + Often(Tail(lost), s)
        BY <1>3, <2>1, <2>2
    <2> QED
        BY <1>2, <1>5, <2>1, <2>2, <2>3 DEF Waiting
<1>6. CASE lost # <<>> /\ m_retransmit
    <2>1. /\ m_retransmissions' = m_retransmissions \o RangesOf(lost)
          /\ UNCHANGED <<m_retransmit, m_retransSeq>>
        BY <1>6 DEF Enqueue
    <2>2. Often(Firsts(m_retransmissions'), s) =
              Often(Firsts(m_retransmissions), s) + Often(lost, s)
        BY <1>3, <2>1
    <2> QED
        BY <1>2, <2>1, <2>2 DEF Waiting
<1> QED
    BY <1>4, <1>5, <1>6 DEF RangeTypes

\* Send takes one of the times its packet waits.
LEMMA AdvanceOften ==
    ASSUME RangeTypes, m_seqNum \in Nat, NumbersLeft, UnitRanges,
           m_retransmit, AdvanceRange, NEW s \in Seqs
    PROVE  /\ Waiting(s)' \in Nat
           /\ Waiting(s) = Waiting(s)' + (IF s = m_retransSeq THEN 1 ELSE 0)
<1>1. U32(m_retransSeq + 1) = m_retransStop
    BY ModSmall DEF U32, UnitRanges, NumbersLeft, Sent
<1>2. m_retransmissions \in Seq(Seqs \X Seqs)
    BY DEF RangeTypes
<1> DEFINE f == Firsts(m_retransmissions)
<1>3. f \in Seq(Seqs) /\ Len(f) = Len(m_retransmissions) /\ Often(f, s) \in Nat
    BY <1>2, FirstsType, OftenType
<1>4. CASE m_retransmissions = <<>>
    <2>1. m_retransmit' = FALSE /\ m_retransmissions' = m_retransmissions
        BY <1>1, <1>4 DEF AdvanceRange
    <2> QED
        BY <1>3, <2>1 DEF Waiting
<1>5. CASE m_retransmissions # <<>>
    <2>1. /\ m_retransSeq' = Head(m_retransmissions)[1]
          /\ m_retransmissions' = Tail(m_retransmissions)
          /\ m_retransmit' = m_retransmit
        BY <1>1, <1>5, Zenon DEF AdvanceRange
    <2>2. /\ f # <<>> /\ Head(f) = m_retransSeq'
          /\ Often(Firsts(m_retransmissions'), s) = Often(Tail(f), s)
        <3>1. /\ Len(m_retransmissions) \in Nat /\ Len(m_retransmissions) > 0
              /\ Head(m_retransmissions) = m_retransmissions[1]
              /\ Len(m_retransmissions') = Len(m_retransmissions) - 1
              /\ \A i \in 1 .. Len(m_retransmissions) - 1 :
                     m_retransmissions'[i] = m_retransmissions[i + 1]
            BY <1>2, <1>5, <2>1
        <3>2. f # <<>> /\ Head(f) = f[1] /\ f[1] = m_retransmissions[1][1]
            BY <1>3, <3>1 DEF Firsts
        <3>3. /\ Len(Tail(f)) = Len(m_retransmissions) - 1
              /\ \A i \in 1 .. Len(m_retransmissions) - 1 : Tail(f)[i] = f[i + 1]
            <4>1. f \in Seq(Seqs) /\ f # <<>> /\ Len(f) = Len(m_retransmissions)
                BY <1>3, <3>2
            <4> HIDE DEF f
            <4>2. /\ Len(Tail(f)) = Len(f) - 1
                  /\ \A i \in 1 .. Len(f) - 1 : Tail(f)[i] = f[i + 1]
                BY <4>1
            <4> QED
                BY <4>1, <4>2
        <3>4. /\ Len(Firsts(m_retransmissions')) = Len(m_retransmissions) - 1
              /\ \A i \in 1 .. Len(m_retransmissions) - 1 :
                     Firsts(m_retransmissions')[i] = f[i + 1]
            <4>1. m_retransmissions' \in Seq(Seqs \X Seqs)
                BY <1>2, <1>5, <2>1
            <4>2. \A i \in 1 .. Len(m_retransmissions) - 1 :
                     i + 1 \in 1 .. Len(m_retransmissions)
                BY <3>1
            <4> QED
                BY <3>1, <4>1, <4>2, FirstsType DEF Firsts
        <3>5. Times(Firsts(m_retransmissions'), s) = Times(Tail(f), s)
            BY <3>3, <3>4 DEF Times
        <3> QED
            BY <2>1, <3>1, <3>2, <3>5 DEF Often
    <2> HIDE DEF f
    <2>3. /\ Often(f, s) = (IF s = m_retransSeq' THEN 1 ELSE 0) + Often(Tail(f), s)
          /\ Often(Tail(f), s) \in Nat
        BY <1>3, <2>2, OftenTail, OftenType
    <2>4. Waiting(s) = Often(f, s) + (IF s = m_retransSeq THEN 1 ELSE 0)
        BY DEF Waiting, f
    <2>5. Waiting(s)' = Often(Tail(f), s) + (IF s = m_retransSeq' THEN 1 ELSE 0)
        BY <2>1, <2>2 DEF Waiting
    <2> QED
        BY <2>3, <2>4, <2>5
<1> QED
    BY <1>4, <1>5

----------------------------------------------------------------------------
(* Every step keeps the bound.                                             *)

\* A packet waits at most twice: once after its first timeout, and once more
\* because of a gap, which moves m_ackNum past it; and after that once because
\* it was given up, which happens to a packet that waits once at most.
Bounded(s) ==
    /\ Waiting(s) <= 2
    /\ m_timers[s] # NoEvent => Waiting(s) <= 1
    /\ s \notin m_retransmitPackets =>
           /\ m_timers[s] # NoEvent => Waiting(s) = 0
           /\ s >= m_ackNum => Waiting(s) <= 1
    /\ s \notin Sent => Waiting(s) = 0

\* The inductive invariant behind QueueBound.
QueueInv == NumbersLeft => \A s \in Seqs : Bounded(s)

LEMMA FreshKeepsQueue ==
    ASSUME WindowInv, NumbersLeft, SendFresh, NEW s \in Seqs, Bounded(s)
    PROVE  Bounded(s)'
<1>1. /\ m_seqNum \in Nat /\ m_timers \in [Seqs -> Nat \cup {NoEvent}]
      /\ m_seqNum' = m_seqNum + 1
      /\ m_timers' = [m_timers EXCEPT ![FreshHeader] = m_sent]
      /\ UNCHANGED <<m_ackNum, m_retransmit, m_retransSeq, m_retransmissions,
                     m_retransmitPackets>>
    BY DEF WindowInv, TypeInvariant, TypeOK, SendFresh, Transmit, rangeVars
<1>2. FreshHeader = m_seqNum
    <2>1. m_seqNum \in 0 .. SeqMod - 1
        BY <1>1 DEF NumbersLeft
    <2> QED
        BY <2>1, ModSmall DEF FreshHeader, U16
<1>3. Waiting(s)' = Waiting(s)
    BY <1>1 DEF Waiting
<1>4. Sent \subseteq Sent' /\ m_seqNum \notin Sent
    BY <1>1 DEF Sent
<1>5. CASE s = m_seqNum
    \* a packet that was not sent does not wait
    <2>1. Waiting(s)' = 0
        BY <1>3, <1>4, <1>5 DEF Bounded
    <2> QED
        BY <2>1 DEF Bounded
<1>6. CASE s # m_seqNum
    <2>1. m_timers'[s] = m_timers[s]
        BY <1>1, <1>2, <1>6
    <2> QED
        BY <1>1, <1>3, <1>4, <2>1 DEF Bounded
<1> QED
    BY <1>5, <1>6

LEMMA RetransmissionKeepsQueue ==
    ASSUME WindowInv, NumbersLeft, SendRetransmission \/ SendSkips,
           NEW s \in Seqs, Bounded(s)
    PROVE  Bounded(s)'
<1>1. /\ RangeTypes /\ UnitRanges /\ m_seqNum \in Nat /\ m_retransmit
      /\ AdvanceRange
      /\ m_timers \in [Seqs -> Nat \cup {NoEvent}]
      /\ UNCHANGED <<m_ackNum, m_seqNum>>
    BY DEF WindowInv, TypeInvariant, TypeOK, RangeTypes, SendRetransmission,
           SendSkips, windowVars
<1>2. RetransHeader = m_retransSeq
    BY <1>1, HeaderIsNext
<1>3. /\ Waiting(s) \in Nat /\ Waiting(s)' \in Nat
      /\ Waiting(s) = Waiting(s)' + (IF s = m_retransSeq THEN 1 ELSE 0)
    BY <1>1, WaitingType, AdvanceOften
<1>4. Sent' = Sent
    BY <1>1 DEF Sent
<1>5. CASE SendRetransmission /\ s = m_retransSeq
    <2>1. m_retransmitPackets' = m_retransmitPackets \cup {s}
        BY <1>2, <1>5 DEF SendRetransmission
    <2> QED
        BY <1>3, <1>4, <1>5, <2>1 DEF Bounded
<1>6. CASE SendRetransmission /\ s # m_retransSeq
    <2>1. /\ m_retransmitPackets' = m_retransmitPackets \cup {m_retransSeq}
          /\ m_timers'[s] = m_timers[s]
        BY <1>1, <1>2, <1>6 DEF SendRetransmission, Transmit
    <2> QED
        BY <1>1, <1>3, <1>4, <1>6, <2>1 DEF Bounded
<1>7. CASE SendSkips
    <2>1. UNCHANGED <<m_timers, m_retransmitPackets>>
        BY <1>7 DEF SendSkips
    <2> QED
        BY <1>1, <1>3, <1>4, <2>1 DEF Bounded
<1> QED
    BY <1>5, <1>6, <1>7

LEMMA HandleReadKeepsQueue ==
    ASSUME WindowInv, NumbersLeft, NEW seq \in Seqs, seq \in Sent,
           HandleRead(seq), NEW s \in Seqs, Bounded(s)
    PROVE  Bounded(s)'
<1> DEFINE lost == LostBefore(seq)
<1>1. /\ TypeOK /\ RangeTypes /\ m_seqNum \in Nat /\ m_ackNum \in Nat
      /\ m_timers \in [Seqs -> Nat \cup {NoEvent}]
      /\ m_timers' = [r \in Seqs |-> IF r \in lost \cup {seq}
                                     THEN NoEvent ELSE m_timers[r]]
      /\ Enqueue(Ascending(lost))
      /\ UNCHANGED <<m_seqNum, m_retransmitPackets>>
    BY DEF WindowInv, TypeInvariant, TypeOK, RangeTypes, HandleRead, CancelTimers
<1>2. /\ m_ackNum <= m_ackNum' /\ m_ackNum' \in Nat
      /\ \A r \in lost : r < m_ackNum' /\ r >= m_ackNum
      /\ \A r \in lost : r \notin m_retransmitPackets
    <2>1. \/ seq >= m_ackNum /\ m_ackNum' = seq + 1
          \/ seq < m_ackNum /\ m_ackNum' = m_ackNum
        BY DEF HandleRead, ExpectAfter
    <2>2. \A r \in lost : r \in m_ackNum .. seq - 1 /\ r \notin m_retransmitPackets
        BY DEF LostBefore
    <2>3. seq \in Nat
        BY DEF Seqs
    <2> QED
        BY <1>1, <2>1, <2>2, <2>3
<1>3. Waiting(s) \in Nat /\ Waiting(s)' = Waiting(s) + (IF s \in lost THEN 1 ELSE 0)
    <2>1. lost \in SUBSET Seqs /\ IsFiniteSet(lost)
        BY LostIsFinite, LostWereSent
    <2>2. Ascending(lost) \in Seq(Seqs)
        BY LostWereSent
    <2> HIDE DEF lost
    <2>3. Often(Ascending(lost), s) = IF s \in lost THEN 1 ELSE 0
        BY <2>1, OftenAscending
    <2> QED
        BY <1>1, <2>2, <2>3, EnqueueOften, WaitingType
<1>4. Sent' = Sent /\ lost \subseteq Sent
    BY <1>1, LostWereSent DEF Sent
<1> HIDE DEF lost
<1>5. CASE s \in lost
    <2>1. /\ s \notin m_retransmitPackets' /\ s \in Sent' /\ ~(s >= m_ackNum')
          /\ Waiting(s) <= 1
          /\ m_timers'[s] = NoEvent
        BY <1>1, <1>2, <1>4, <1>5 DEF Bounded, Seqs
    <2>2. Waiting(s)' <= 2
        BY <1>3, <1>5, <2>1
    <2> QED
        BY <2>1, <2>2 DEF Bounded
<1>6. CASE s \notin lost
    <2>1. Waiting(s)' = Waiting(s)
        BY <1>3, <1>6
    <2>2. m_timers'[s] # NoEvent => m_timers[s] # NoEvent
        BY <1>1
    <2>3. s >= m_ackNum' => s >= m_ackNum
        BY <1>1, <1>2 DEF Seqs
    <2> QED
        BY <1>1, <1>4, <2>1, <2>2, <2>3 DEF Bounded
<1> QED
    BY <1>5, <1>6

LEMMA TimeoutKeepsQueue ==
    ASSUME WindowInv, NumbersLeft, TimerParts, NEW e \in rtoEvents,
           TimeoutOfFirst(e) \/ TimeoutOfRetransmission(e),
           NEW s \in Seqs, Bounded(s)
    PROVE  Bounded(s)'
<1>1. /\ TypeOK /\ RangeTypes /\ m_seqNum \in Nat
      /\ m_timers \in [Seqs -> Nat \cup {NoEvent}]
      /\ e.seq \in Seqs /\ e.id \in Nat /\ e.seq \in Sent
      /\ Enqueue(<<e.seq>>)
      /\ m_timers' = [m_timers EXCEPT ![e.seq] = NoEvent]
      /\ UNCHANGED <<m_seqNum, m_ackNum, m_retransmitPackets>>
    BY DEF WindowInv, TypeInvariant, TypeOK, RangeTypes, SentOnly,
           TimeoutOfFirst, TimeoutOfRetransmission, windowVars
<1>2. m_timers[e.seq] # NoEvent
    BY <1>1 DEF TimerParts, TimersMatch, NoEvent
<1>3. Waiting(s) \in Nat /\ Waiting(s)' = Waiting(s) + (IF s = e.seq THEN 1 ELSE 0)
    <2>1. <<e.seq>> \in Seq(Seqs)
        BY <1>1
    <2>2. Often(<<e.seq>>, s) = IF s = e.seq THEN 1 ELSE 0
        BY <1>1, OftenOne
    <2> QED
        BY <1>1, <2>1, <2>2, EnqueueOften, WaitingType
<1>4. Sent' = Sent
    BY <1>1 DEF Sent
<1>5. CASE s = e.seq
    <2>1. m_timers'[s] = NoEvent
        BY <1>1, <1>5
    <2>2. /\ Waiting(s)' <= 2
          /\ s \notin m_retransmitPackets => Waiting(s)' <= 1
        BY <1>2, <1>3, <1>5 DEF Bounded
    <2> QED
        BY <1>1, <1>4, <1>5, <2>1, <2>2 DEF Bounded
<1>6. CASE s # e.seq
    BY <1>1, <1>3, <1>4, <1>6 DEF Bounded
<1> QED
    BY <1>5, <1>6

\* A step that neither sends, queues nor times anything.
LEMMA OtherStepKeepsQueue ==
    ASSUME NEW s \in Seqs, Bounded(s),
           UNCHANGED <<m_seqNum, m_ackNum, rangeVars, m_retransmitPackets>>,
           m_timers'[s] \in {m_timers[s], NoEvent}
    PROVE  Bounded(s)'
<1>1. Waiting(s)' = Waiting(s) /\ Sent' = Sent
    BY DEF Waiting, Sent, rangeVars
<1> QED
    BY <1>1 DEF Bounded

LEMMA InitQueueInv == Init => QueueInv
<1> SUFFICES ASSUME Init, NEW s \in Seqs PROVE Bounded(s)
    BY DEF QueueInv
<1>1. /\ m_retransmissions = <<>> /\ ~m_retransmit
      /\ m_timers[s] = NoEvent
    BY DEF Init, ClientInit
<1>2. Times(Firsts(m_retransmissions), s) = {}
    <2>1. m_retransmissions \in Seq(Seqs \X Seqs) /\ Len(m_retransmissions) = 0
        BY <1>1
    <2>2. Len(Firsts(m_retransmissions)) = 0
        BY <2>1, FirstsType
    <2> QED
        BY <2>2 DEF Times
<1>3. Waiting(s) = 0
    <2>1. Often(Firsts(m_retransmissions), s) = 0
        BY <1>2, FS_EmptySet DEF Often
    <2> QED
        BY <1>1, <2>1 DEF Waiting
<1> QED
    BY <1>1, <1>3 DEF Bounded

LEMMA StepKeepsQueue ==
    WindowInv /\ TimerInv /\ QueueInv /\ [Next]_vars => QueueInv'
<1> SUFFICES ASSUME WindowInv, TimerInv, QueueInv, [Next]_vars, NumbersLeft',
                    NEW s \in Seqs
             PROVE  Bounded(s)'
    BY DEF QueueInv
<1>1. NumbersLeft /\ TimerParts /\ Bounded(s)
    BY NumbersWereLeft DEF TimerInv, QueueInv, WindowInv, TypeInvariant
<1>2. CASE Start \/ Stop \/ Log
    BY <1>1, <1>2, OtherStepKeepsQueue
       DEF Start, Stop, Log, StartApplication, StopApplication, PpsLog,
           CancelTimers, windowVars, timerVars
<1>3. CASE SendFresh
    BY <1>1, <1>3, FreshKeepsQueue
<1>4. CASE SendRetransmission \/ SendSkips
    BY <1>1, <1>4, RetransmissionKeepsQueue
<1>5. CASE SendWaits
    BY <1>1, <1>5, OtherStepKeepsQueue DEF SendWaits, windowVars
<1>6. CASE Timeout
    <2>1. PICK e \in rtoEvents : HandleTimeout(e)
        BY <1>6 DEF Timeout
    <2>2. CASE TimeoutSpins(e)
        BY <1>1, <2>2, OtherStepKeepsQueue DEF TimeoutSpins, windowVars, timerVars
    <2> QED
        BY <1>1, <2>1, <2>2, TimeoutKeepsQueue DEF HandleTimeout
<1>7. ASSUME NEW r \in Seqs, Receive(r) PROVE Bounded(s)'
    <2>1. r \in Sent
        BY <1>7, LandTypes DEF Receive, WindowInv, TypeInvariant, SentOnly
    <2>2. CASE HandleRead(r)
        BY <1>1, <2>1, <2>2, HandleReadKeepsQueue
    <2>3. CASE HandleReadSpins(r)
        BY <1>1, <2>3, OtherStepKeepsQueue
           DEF HandleReadSpins, windowVars, timerVars
    <2> QED
        BY <1>7, <2>2, <2>3 DEF Receive
<1>8. ASSUME NEW r \in Seqs, Lose(r) PROVE Bounded(s)'
    BY <1>1, <1>8, OtherStepKeepsQueue DEF Lose, clientVars, windowVars, timerVars
<1>9. CASE UNCHANGED vars
    BY <1>1, <1>9, OtherStepKeepsQueue DEF vars, clientVars, windowVars, timerVars
<1> QED
    BY <1>2, <1>3, <1>4, <1>5, <1>6, <1>7, <1>8, <1>9 DEF Next, Send

----------------------------------------------------------------------------
(* Losses and retransmissions.                                             *)

\* The packets that have been retransmitted or wait for it.
Accused == m_retransmitPackets \cup Queued

\* Each of them has been counted as lost.
LossInv == NumbersLeft => Cardinality(Accused) <= m_packetLost

LEMMA AccusedFinite ==
    ASSUME WindowInv, NumbersLeft
    PROVE  IsFiniteSet(Accused) /\ Cardinality(Accused) \in Nat
<1>1. m_seqNum - 1 \in Int
    BY DEF WindowInv, TypeInvariant, TypeOK
<1>2. IsFiniteSet(Sent)
    BY <1>1, FS_Interval DEF Sent
<1>3. Accused \in SUBSET Sent
    BY QueuedWereSent DEF Accused, WindowInv, SentOnly
<1>4. IsFiniteSet(Accused)
    BY <1>2, <1>3, FS_Subset
<1> QED
    BY <1>4, FS_CardinalityType

\* No more packets are accused than are counted.
LEMMA FewerAccused ==
    ASSUME WindowInv, NumbersLeft, Cardinality(Accused) <= m_packetLost,
           Accused' \subseteq Accused, UNCHANGED m_packetLost
    PROVE  Cardinality(Accused') <= m_packetLost'
<1>1. IsFiniteSet(Accused) /\ Cardinality(Accused) \in Nat
    BY AccusedFinite
<1>2. /\ IsFiniteSet(Accused')
      /\ Cardinality(Accused') <= Cardinality(Accused)
    <2>1. Accused' \in SUBSET Accused
        OBVIOUS
    <2> QED
        BY <1>1, <2>1, FS_Subset
<1>3. Cardinality(Accused') \in Nat /\ m_packetLost \in Nat
    BY <1>2, FS_CardinalityType DEF WindowInv, TypeInvariant, TypeOK
<1> QED
    BY <1>1, <1>2, <1>3

\* The packets of a set are accused, and counted.
LEMMA MoreAccused ==
    ASSUME WindowInv, NumbersLeft, Cardinality(Accused) <= m_packetLost,
           NEW S, IsFiniteSet(S),
           Accused' \subseteq Accused \cup S,
           m_packetLost' = m_packetLost + Cardinality(S)
    PROVE  Cardinality(Accused') <= m_packetLost'
<1>1. IsFiniteSet(Accused) /\ Cardinality(Accused) \in Nat
    BY AccusedFinite
<1>2. Cardinality(S) \in Nat /\ m_packetLost \in Nat
    BY FS_CardinalityType DEF WindowInv, TypeInvariant, TypeOK
<1>3. /\ IsFiniteSet(Accused \cup S)
      /\ Cardinality(Accused \cup S) <= Cardinality(Accused) + Cardinality(S)
    <2>1. /\ IsFiniteSet(Accused \cup S)
          /\ Cardinality(Accused \cup S) =
                 Cardinality(Accused) + Cardinality(S) - Cardinality(Accused \cap S)
        BY <1>1, FS_Union
    <2>2. Cardinality(Accused \cap S) \in Nat
        BY <1>1, FS_Intersection, FS_CardinalityType
    <2> QED
        BY <1>1, <1>2, <2>1, <2>2
<1>4. /\ IsFiniteSet(Accused')
      /\ Cardinality(Accused') <= Cardinality(Accused \cup S)
    <2>1. Accused' \in SUBSET (Accused \cup S)
        OBVIOUS
    <2> QED
        BY <1>3, <2>1, FS_Subset
<1>5. Cardinality(Accused') \in Nat /\ Cardinality(Accused \cup S) \in Nat
    BY <1>3, <1>4, FS_CardinalityType
<1> QED
    BY <1>1, <1>2, <1>3, <1>4, <1>5

LEMMA StepKeepsLosses ==
    WindowInv /\ WindowInv' /\ LossInv /\ [Next]_vars => LossInv'
<1> SUFFICES ASSUME WindowInv, WindowInv', LossInv, [Next]_vars, NumbersLeft'
             PROVE  Cardinality(Accused') <= m_packetLost'
    BY DEF LossInv
<1>1. /\ NumbersLeft /\ Cardinality(Accused) <= m_packetLost
      /\ RangeTypes /\ RangeTypes' /\ UnitRanges /\ m_seqNum \in Nat
    BY NumbersWereLeft
       DEF LossInv, WindowInv, TypeInvariant, TypeOK, RangeTypes
<1>2. CASE UNCHANGED <<rangeVars, m_retransmitPackets, m_packetLost>>
    BY <1>1, <1>2, FewerAccused DEF Accused, Queued, rangeVars
<1>3. CASE Start \/ Stop \/ Log \/ SendFresh \/ SendWaits
    BY <1>2, <1>3 DEF Start, Stop, Log, StartApplication, StopApplication,
       PpsLog, SendFresh, SendWaits, statVars
<1>4. CASE SendRetransmission \/ SendSkips
    <2>1. /\ m_retransmit /\ AdvanceRange
          /\ m_retransmitPackets' \subseteq m_retransmitPackets \cup {RetransHeader}
          /\ UNCHANGED m_packetLost
        BY <1>4 DEF SendRetransmission, SendSkips, statVars
    <2>2. RetransHeader \in Queued
        BY <1>1, <2>1, HeaderIsNext
    <2>3. Queued' \subseteq Queued
        BY <1>1, <2>1, AdvanceRemoves
    <2> QED
        BY <1>1, <2>1, <2>2, <2>3, FewerAccused DEF Accused
<1>5. CASE Timeout
    <2>1. PICK e \in rtoEvents : HandleTimeout(e)
        BY <1>5 DEF Timeout
    <2>2. e.seq \in Seqs
        BY DEF WindowInv, TypeInvariant, TypeOK
    <2>3. ASSUME Enqueue(<<e.seq>>) PROVE Queued' = Queued \cup {e.seq}
        <3>1. <<e.seq>> \in Seq(Seqs) /\ \A s : Lists(<<e.seq>>, s) <=> s = e.seq
            BY <2>2 DEF Lists
        <3> QED
            BY <1>1, <2>3, <3>1, EnqueueAdds
    <2>4. CASE TimeoutOfFirst(e)
        <3>1. /\ Enqueue(<<e.seq>>)
              /\ m_packetLost' = m_packetLost + 1
              /\ UNCHANGED m_retransmitPackets
            BY <2>4 DEF TimeoutOfFirst
        <3>2. Accused' \subseteq Accused \cup {e.seq}
            BY <2>3, <3>1 DEF Accused
        <3>3. IsFiniteSet({e.seq}) /\ Cardinality({e.seq}) = 1
            BY FS_Singleton
        <3> QED
            BY <1>1, <3>1, <3>2, <3>3, MoreAccused
    <2>5. CASE TimeoutOfRetransmission(e)
        <3>1. /\ Enqueue(<<e.seq>>)
              /\ e.seq \in m_retransmitPackets
              /\ UNCHANGED <<m_packetLost, m_retransmitPackets>>
            BY <2>5 DEF TimeoutOfRetransmission, statVars
        <3> QED
            BY <1>1, <2>3, <3>1, FewerAccused DEF Accused
    <2>6. CASE TimeoutSpins(e)
        BY <1>2, <2>6 DEF TimeoutSpins, statVars
    <2> QED
        BY <2>1, <2>4, <2>5, <2>6 DEF HandleTimeout
<1>6. ASSUME NEW r \in Seqs, Receive(r)
      PROVE  Cardinality(Accused') <= m_packetLost'
    <2>1. r \in Sent
        BY <1>6, LandTypes DEF Receive, WindowInv, TypeInvariant, SentOnly
    <2>2. CASE HandleRead(r)
        <3> DEFINE lost == LostBefore(r)
        <3>1. /\ Enqueue(Ascending(lost))
              /\ m_packetLost' = m_packetLost + Cardinality(lost)
              /\ UNCHANGED m_retransmitPackets
            BY <2>2 DEF HandleRead
        <3>2. /\ IsFiniteSet(lost) /\ lost \in SUBSET Nat
              /\ Ascending(lost) \in Seq(Seqs)
            BY <2>1, LostIsFinite, LostWereSent DEF Seqs
        <3> HIDE DEF lost
        <3>3. Queued' = Queued \cup lost
            BY <1>1, <3>1, <3>2, EnqueueAdds, AscendingListsAll
        <3> QED
            BY <1>1, <3>1, <3>2, <3>3, MoreAccused DEF Accused
    <2>3. CASE HandleReadSpins(r)
        BY <1>2, <2>3 DEF HandleReadSpins, statVars
    <2> QED
        BY <1>6, <2>2, <2>3 DEF Receive
<1>7. ASSUME NEW r \in Seqs, Lose(r)
      PROVE  Cardinality(Accused') <= m_packetLost'
    BY <1>2, <1>7 DEF Lose, clientVars, statVars
<1>8. CASE UNCHANGED vars
    BY <1>2, <1>8 DEF vars, clientVars, statVars
<1> QED
    BY <1>3, <1>4, <1>5, <1>6, <1>7, <1>8 DEF Next, Send

LEMMA InitLossInv == Init => LossInv
<1> SUFFICES ASSUME Init PROVE Cardinality(Accused) <= m_packetLost
    BY DEF LossInv
<1>1. Accused = {} /\ m_packetLost = 0
    BY DEF Init, ClientInit, Accused, Queued
<1> QED
    BY <1>1, FS_EmptySet

----------------------------------------------------------------------------
(* How often a packet is counted as lost.                                  *)

\* The packets whose first timer may still expire, and those a gap may still
\* leave behind.
TimedOnce == {s \in Sent \ m_retransmitPackets : m_timers[s] # NoEvent}
Ahead     == {s \in Sent \ m_retransmitPackets : s >= m_ackNum}

\* Each packet has two chances to be counted, and each of them is used once.
ChancesAddUp ==
    m_packetLost + Cardinality(TimedOnce) + Cardinality(Ahead) <= 2 * m_packetSent

ChanceInv == NumbersLeft => ChancesAddUp

LEMMA ChancesFinite ==
    ASSUME TypeOK
    PROVE  /\ IsFiniteSet(TimedOnce) /\ Cardinality(TimedOnce) \in Nat
           /\ IsFiniteSet(Ahead) /\ Cardinality(Ahead) \in Nat
<1>1. 0 \in Int /\ m_seqNum - 1 \in Int
    BY DEF TypeOK
<1>2. IsFiniteSet(Sent)
    BY <1>1, FS_Interval DEF Sent
<1>3. TimedOnce \in SUBSET Sent /\ Ahead \in SUBSET Sent
    BY DEF TimedOnce, Ahead
<1> QED
    BY <1>2, <1>3, FS_Subset, FS_CardinalityType

\* Chances that go with the losses they are used for keep the balance.
LEMMA ChancesUsed ==
    ASSUME TypeOK, TypeOK', ChancesAddUp,
           NEW T \in SUBSET TimedOnce, NEW A \in SUBSET Ahead,
           TimedOnce' \subseteq TimedOnce \ T,
           Ahead' \subseteq Ahead \ A,
           m_packetLost' = m_packetLost + Cardinality(T) + Cardinality(A),
           UNCHANGED m_packetSent
    PROVE  ChancesAddUp'
<1>1. /\ IsFiniteSet(TimedOnce) /\ Cardinality(TimedOnce) \in Nat
      /\ IsFiniteSet(Ahead) /\ Cardinality(Ahead) \in Nat
    BY ChancesFinite
<1>2. ASSUME NEW S, IsFiniteSet(S), NEW U \in SUBSET S, NEW R \in SUBSET (S \ U)
      PROVE  /\ Cardinality(R) + Cardinality(U) <= Cardinality(S)
             /\ Cardinality(R) \in Nat /\ Cardinality(U) \in Nat
    <2>1. /\ IsFiniteSet(S \ U)
          /\ Cardinality(S \ U) = Cardinality(S) - Cardinality(S \cap U)
        BY <1>2, FS_Difference
    <2>2. S \cap U = U
        OBVIOUS
    <2>3. Cardinality(R) <= Cardinality(S \ U) /\ IsFiniteSet(R) /\ IsFiniteSet(U)
        BY <1>2, <2>1, FS_Subset
    <2>4. /\ Cardinality(R) \in Nat /\ Cardinality(U) \in Nat
          /\ Cardinality(S) \in Nat
        BY <1>2, <2>3, FS_CardinalityType
    <2> QED
        BY <2>1, <2>2, <2>3, <2>4
<1>3. /\ Cardinality(TimedOnce') + Cardinality(T) <= Cardinality(TimedOnce)
      /\ Cardinality(TimedOnce') \in Nat /\ Cardinality(T) \in Nat
    <2>1. TimedOnce' \in SUBSET (TimedOnce \ T)
        OBVIOUS
    <2> QED
        BY <1>1, <1>2, <2>1
<1>4. /\ Cardinality(Ahead') + Cardinality(A) <= Cardinality(Ahead)
      /\ Cardinality(Ahead') \in Nat /\ Cardinality(A) \in Nat
    <2>1. Ahead' \in SUBSET (Ahead \ A)
        OBVIOUS
    <2> QED
        BY <1>1, <1>2, <2>1
<1>5. m_packetLost \in Nat /\ m_packetSent \in Nat
    BY DEF TypeOK
<1> QED
    BY <1>1, <1>3, <1>4, <1>5 DEF ChancesAddUp

\* A step that counts nothing as lost and gives no packet a chance.
LEMMA ChancesKept ==
    ASSUME TypeOK, TypeOK', ChancesAddUp,
           TimedOnce' \subseteq TimedOnce, Ahead' \subseteq Ahead,
           UNCHANGED <<m_packetLost, m_packetSent>>
    PROVE  ChancesAddUp'
<1>1. {} \in SUBSET TimedOnce /\ {} \in SUBSET Ahead /\ Cardinality({}) = 0
    BY FS_EmptySet
<1>2. TimedOnce' \subseteq TimedOnce \ {} /\ Ahead' \subseteq Ahead \ {}
    OBVIOUS
<1>3. m_packetLost' = m_packetLost + Cardinality({}) + Cardinality({})
    BY <1>1 DEF TypeOK
<1> QED
    BY <1>1, <1>2, <1>3, ChancesUsed

LEMMA FreshKeepsChances ==
    ASSUME TypeOK, TypeOK', NumbersLeft, ChancesAddUp, SendFresh
    PROVE  ChancesAddUp'
<1>1. /\ m_seqNum \in Nat /\ m_ackNum \in Nat
      /\ m_timers \in [Seqs -> Nat \cup {NoEvent}]
      /\ m_seqNum' = m_seqNum + 1 /\ m_packetSent' = m_packetSent + 1
      /\ m_timers' = [m_timers EXCEPT ![FreshHeader] = m_sent]
      /\ UNCHANGED <<m_ackNum, m_retransmitPackets, m_packetLost>>
      /\ m_packetLost \in Nat /\ m_packetSent \in Nat
    BY DEF TypeOK, SendFresh, Transmit
<1>2. FreshHeader = m_seqNum
    <2>1. m_seqNum \in 0 .. SeqMod - 1
        BY <1>1 DEF NumbersLeft
    <2> QED
        BY <2>1, ModSmall DEF FreshHeader, U16
<1>3. Sent' = Sent \cup {m_seqNum}
    BY <1>1 DEF Sent
<1>4. /\ TimedOnce' \subseteq TimedOnce \cup {m_seqNum}
      /\ Ahead' \subseteq Ahead \cup {m_seqNum}
    <2>1. ASSUME NEW s \in Sent PROVE m_timers'[s] = m_timers[s]
        BY <1>1, <1>2 DEF Sent
    <2> QED
        BY <1>1, <1>3, <2>1 DEF TimedOnce, Ahead
<1>5. /\ Cardinality(TimedOnce') <= Cardinality(TimedOnce) + 1
      /\ Cardinality(Ahead') <= Cardinality(Ahead) + 1
      /\ Cardinality(TimedOnce') \in Nat /\ Cardinality(Ahead') \in Nat
    <2>1. IsFiniteSet(TimedOnce) /\ IsFiniteSet(Ahead)
        BY ChancesFinite
    <2>2. TimedOnce' \in SUBSET (TimedOnce \cup {m_seqNum})
          /\ Ahead' \in SUBSET (Ahead \cup {m_seqNum})
        BY <1>4
    <2>3. /\ IsFiniteSet(TimedOnce \cup {m_seqNum})
          /\ IsFiniteSet(Ahead \cup {m_seqNum})
          /\ Cardinality(TimedOnce \cup {m_seqNum}) <= Cardinality(TimedOnce) + 1
          /\ Cardinality(Ahead \cup {m_seqNum}) <= Cardinality(Ahead) + 1
          /\ Cardinality(TimedOnce \cup {m_seqNum}) \in Nat
          /\ Cardinality(Ahead \cup {m_seqNum}) \in Nat
        BY <2>1, AtMostOneMore
    <2>4. /\ Cardinality(TimedOnce') <= Cardinality(TimedOnce \cup {m_seqNum})
          /\ Cardinality(Ahead') <= Cardinality(Ahead \cup {m_seqNum})
          /\ IsFiniteSet(TimedOnce') /\ IsFiniteSet(Ahead')
        BY <2>2, <2>3, FS_Subset
    <2>5. Cardinality(TimedOnce') \in Nat /\ Cardinality(Ahead') \in Nat
        BY <2>4, FS_CardinalityType
    <2> QED
        BY <2>3, <2>4, <2>5, ChancesFinite
<1> QED
    BY <1>1, <1>5, ChancesFinite DEF ChancesAddUp

LEMMA HandleReadKeepsChances ==
    ASSUME WindowInv, TypeOK', NumbersLeft, ChancesAddUp,
           NEW seq \in Seqs, seq \in Sent, HandleRead(seq)
    PROVE  ChancesAddUp'
<1> DEFINE lost == LostBefore(seq)
<1>1. /\ TypeOK /\ m_ackNum \in Nat /\ m_seqNum \in Nat /\ m_packetLost \in Nat
      /\ m_timers' = [r \in Seqs |-> IF r \in lost \cup {seq}
                                     THEN NoEvent ELSE m_timers[r]]
      /\ m_packetLost' = m_packetLost + Cardinality(lost)
      /\ UNCHANGED <<m_seqNum, m_retransmitPackets, m_packetSent>>
    BY DEF WindowInv, TypeInvariant, TypeOK, HandleRead, CancelTimers
<1>2. m_ackNum' \in Nat /\ m_ackNum <= m_ackNum' /\ \A r \in lost : r < m_ackNum'
    <2>1. \/ seq >= m_ackNum /\ m_ackNum' = seq + 1
          \/ seq < m_ackNum /\ m_ackNum' = m_ackNum
        BY DEF HandleRead, ExpectAfter
    <2>2. \A r \in lost : r \in m_ackNum .. seq - 1
        BY DEF LostBefore
    <2> QED
        BY <1>1, <2>1, <2>2 DEF Seqs
<1>3. lost \subseteq Ahead /\ Cardinality(lost) \in Nat
    <2>1. lost \subseteq Sent /\ Cardinality(lost) \in Nat
        BY LostWereSent
    <2>2. \A r \in lost : r \notin m_retransmitPackets /\ r >= m_ackNum
        BY <1>1 DEF LostBefore, Seqs
    <2> QED
        BY <2>1, <2>2 DEF Ahead
<1> HIDE DEF lost
<1>4. Sent' = Sent /\ Sent \subseteq Seqs /\ Sent \subseteq Nat
    BY <1>1 DEF Sent, Seqs, NumbersLeft
<1>5. TimedOnce' \subseteq TimedOnce
    BY <1>1, <1>4 DEF TimedOnce
<1>6. Ahead' \subseteq Ahead \ lost
    <2>1. ASSUME NEW s \in Ahead' PROVE s \in Ahead /\ s \notin lost
        BY <1>1, <1>2, <1>4, <2>1 DEF Ahead
    <2> QED
        BY <2>1
<1>7. {} \in SUBSET TimedOnce /\ Cardinality({}) = 0
    BY FS_EmptySet
<1>8. m_packetLost' = m_packetLost + Cardinality({}) + Cardinality(lost)
    BY <1>1, <1>3, <1>7
<1>9. TimedOnce' \subseteq TimedOnce \ {} /\ lost \in SUBSET Ahead
    BY <1>3, <1>5
<1> QED
    BY <1>1, <1>6, <1>7, <1>8, <1>9, ChancesUsed

LEMMA TimeoutKeepsChances ==
    ASSUME WindowInv, TypeOK', NumbersLeft, TimerParts, ChancesAddUp,
           NEW e \in rtoEvents, HandleTimeout(e)
    PROVE  ChancesAddUp'
<1>1. /\ TypeOK /\ m_seqNum \in Nat /\ m_packetLost \in Nat
      /\ m_timers \in [Seqs -> Nat \cup {NoEvent}]
      /\ e.seq \in Seqs /\ e.id \in Nat /\ e.seq \in Sent
      /\ UNCHANGED <<m_seqNum, m_ackNum, m_retransmitPackets, m_packetSent>>
    BY DEF WindowInv, TypeInvariant, TypeOK, SentOnly, HandleTimeout,
           TimeoutOfFirst, TimeoutOfRetransmission, TimeoutSpins, windowVars,
           statVars
<1>2. Sent' = Sent /\ Sent \subseteq Seqs /\ Ahead' = Ahead
    BY <1>1 DEF Sent, Seqs, NumbersLeft, Ahead
<1>3. CASE TimeoutOfFirst(e)
    <2>1. /\ m_timers' = [m_timers EXCEPT ![e.seq] = NoEvent]
          /\ e.seq \notin m_retransmitPackets
          /\ m_packetLost' = m_packetLost + 1
        BY <1>3 DEF TimeoutOfFirst
    <2>2. m_timers[e.seq] # NoEvent
        BY <1>1 DEF TimerParts, TimersMatch, NoEvent
    <2>3. {e.seq} \in SUBSET TimedOnce /\ {} \in SUBSET Ahead
        BY <1>1, <2>1, <2>2 DEF TimedOnce
    <2>4. TimedOnce' \subseteq TimedOnce \ {e.seq} /\ Ahead' \subseteq Ahead \ {}
        BY <1>1, <1>2, <2>1 DEF TimedOnce
    <2>5. m_packetLost' = m_packetLost + Cardinality({e.seq}) + Cardinality({})
        <3>1. Cardinality({e.seq}) = 1 /\ Cardinality({}) = 0
            BY FS_EmptySet, FS_Singleton
        <3> QED
            BY <1>1, <2>1, <3>1
    <2> QED
        BY <1>1, <2>3, <2>4, <2>5, ChancesUsed
<1>4. CASE TimeoutOfRetransmission(e) \/ TimeoutSpins(e)
    <2>1. /\ UNCHANGED m_packetLost
          /\ \A s \in Seqs : m_timers'[s] # NoEvent => m_timers[s] # NoEvent
        BY <1>1, <1>4 DEF TimeoutOfRetransmission, TimeoutSpins, statVars,
           timerVars
    <2>2. TimedOnce' \subseteq TimedOnce
        BY <1>1, <1>2, <2>1 DEF TimedOnce
    <2> QED
        BY <1>1, <1>2, <2>1, <2>2, ChancesKept
<1> QED
    BY <1>3, <1>4 DEF HandleTimeout

\* The other handlers start no timer but that of a retransmission.
LEMMA OtherStepKeepsChances ==
    ASSUME TypeOK, TypeOK', NumbersLeft, ChancesAddUp,
           UNCHANGED <<m_seqNum, m_ackNum, m_packetLost, m_packetSent>>,
           m_retransmitPackets \subseteq m_retransmitPackets',
           \A s \in Seqs : \/ m_timers'[s] \in {NoEvent, m_timers[s]}
                           \/ s \in m_retransmitPackets'
    PROVE  ChancesAddUp'
<1>1. Sent' = Sent /\ Sent \subseteq Seqs
    BY DEF TypeOK, Sent, Seqs, NumbersLeft
<1>2. TimedOnce' \subseteq TimedOnce /\ Ahead' \subseteq Ahead
    BY <1>1 DEF TimedOnce, Ahead
<1> QED
    BY <1>2, ChancesKept

LEMMA StepKeepsChances ==
    WindowInv /\ WindowInv' /\ TimerInv /\ ChanceInv /\ [Next]_vars => ChanceInv'
<1> SUFFICES ASSUME WindowInv, WindowInv', TimerInv, ChanceInv, [Next]_vars,
                    NumbersLeft'
             PROVE  ChancesAddUp'
    BY DEF ChanceInv
<1>1. TypeOK /\ TypeOK' /\ NumbersLeft /\ TimerParts /\ ChancesAddUp
    BY NumbersWereLeft DEF TimerInv, ChanceInv, WindowInv, TypeInvariant
<1>2. CASE SendFresh
    BY <1>1, <1>2, FreshKeepsChances
<1>3. CASE Timeout
    BY <1>1, <1>3, TimeoutKeepsChances DEF Timeout
<1>4. ASSUME NEW r \in Seqs, Receive(r), HandleRead(r) PROVE ChancesAddUp'
    <2>1. r \in Sent
        BY <1>4, LandTypes DEF Receive, WindowInv, TypeInvariant, SentOnly
    <2> QED
        BY <1>1, <1>4, <2>1, HandleReadKeepsChances
<1>5. CASE UNCHANGED <<m_seqNum, m_ackNum, m_packetLost, m_packetSent,
                       m_retransmitPackets, m_timers>>
    BY <1>1, <1>5, OtherStepKeepsChances
<1>6. CASE Start \/ Log \/ SendWaits \/ SendSkips
    BY <1>5, <1>6 DEF Start, Log, StartApplication, PpsLog, SendWaits, SendSkips,
       windowVars, statVars, timerVars
<1>7. CASE Stop
    <2>1. /\ UNCHANGED <<m_seqNum, m_ackNum, m_packetLost, m_packetSent,
                         m_retransmitPackets>>
          /\ \A s \in Seqs : m_timers'[s] = NoEvent
        BY <1>7 DEF Stop, StopApplication, CancelTimers, windowVars, statVars
    <2> QED
        BY <1>1, <2>1, OtherStepKeepsChances
<1>8. CASE SendRetransmission
    <2>1. /\ UNCHANGED <<m_seqNum, m_ackNum, m_packetLost, m_packetSent>>
          /\ m_retransmitPackets' = m_retransmitPackets \cup {RetransHeader}
          /\ m_timers' = [m_timers EXCEPT ![RetransHeader] = m_sent]
        BY <1>8 DEF SendRetransmission, Transmit, windowVars
    <2>2. m_timers \in [Seqs -> Nat \cup {NoEvent}]
        BY <1>1 DEF TypeOK
    <2> QED
        BY <1>1, <2>1, <2>2, OtherStepKeepsChances
<1>9. ASSUME NEW r \in Seqs, Receive(r), HandleReadSpins(r) PROVE ChancesAddUp'
    BY <1>5, <1>9 DEF HandleReadSpins, windowVars, statVars, timerVars
<1>10. ASSUME NEW r \in Seqs, Lose(r) PROVE ChancesAddUp'
    BY <1>5, <1>10 DEF Lose, clientVars, windowVars, statVars, timerVars
<1>11. CASE UNCHANGED vars
    BY <1>5, <1>11 DEF vars, clientVars, windowVars, statVars, timerVars
<1> QED
    BY <1>2, <1>3, <1>4, <1>6, <1>7, <1>8, <1>9, <1>10, <1>11
       DEF Next, Send, Receive

LEMMA InitChanceInv == Init => ChanceInv
<1> SUFFICES ASSUME Init PROVE ChancesAddUp
    BY DEF ChanceInv
<1>1. /\ TimedOnce = {} /\ Ahead = {}
      /\ m_packetLost = 0 /\ m_packetSent = 0
    BY DEF Init, ClientInit, TimedOnce, Ahead, Sent
<1> QED
    BY <1>1, FS_EmptySet DEF ChancesAddUp

----------------------------------------------------------------------------
(* The theorems.                                                           *)

THEOREM QueueInvariant == Spec => []QueueInv
BY InitQueueInv, StepKeepsQueue, WindowInvariant, TimerInvariant, PTL DEF Spec

THEOREM LossInvariant == Spec => []LossInv
BY InitLossInv, StepKeepsLosses, WindowInvariant, PTL DEF Spec

THEOREM ChanceInvariant == Spec => []ChanceInv
BY InitChanceInv, StepKeepsChances, WindowInvariant, TimerInvariant, PTL DEF Spec

\* HandleRead and HandleTimeout count no packet as lost more than twice: once
\* because its first timer expires and once because an echo overtakes it.  Twice
\* as many losses as packets is the most the destructor's drop rate can show.
THEOREM LossesBounded == Spec => [](NumbersLeft => m_packetLost <= 2 * m_packetSent)
<1>1. ASSUME WindowInv, ChanceInv, NumbersLeft PROVE m_packetLost <= 2 * m_packetSent
    <2>1. TypeOK /\ m_packetLost \in Nat /\ m_packetSent \in Nat
        BY <1>1 DEF WindowInv, TypeInvariant, TypeOK
    <2> QED
        BY <1>1, <2>1, ChancesFinite DEF ChanceInv, ChancesAddUp
<1>2. WindowInv /\ ChanceInv => (NumbersLeft => m_packetLost <= 2 * m_packetSent)
    BY <1>1
<1> QED
    BY <1>2, WindowInvariant, ChanceInvariant, PTL

\* However timeouts, gaps and retransmissions interleave, a packet waits at
\* most twice in the queue of HandleRead, HandleTimeout and Send until the
\* sequence numbers run out.
THEOREM QueueIsBounded == Spec => [](NumbersLeft => QueueBound)
<1>1. ASSUME WindowInv, QueueInv, NumbersLeft PROVE QueueBound
    <2> SUFFICES ASSUME NEW s \in Sent
                 PROVE  Cardinality({i \in DOMAIN m_retransmissions :
                                        m_retransmissions[i][1] = s})
                            + (IF m_retransmit /\ m_retransSeq = s THEN 1 ELSE 0) <= 2
        BY DEF QueueBound
    <2>1. /\ m_retransmissions \in Seq(Seqs \X Seqs)
          /\ m_seqNum \in Nat
        BY <1>1 DEF WindowInv, TypeInvariant, TypeOK
    <2>2. s \in Seqs
        BY <1>1, <2>1 DEF Sent, Seqs, NumbersLeft
    <2>3. {i \in DOMAIN m_retransmissions : m_retransmissions[i][1] = s} =
              Times(Firsts(m_retransmissions), s)
        BY <2>1, FirstsType DEF Times, Firsts
    <2>4. Waiting(s) <= 2
        BY <1>1, <2>2 DEF QueueInv, Bounded
    <2> QED
        BY <2>3, <2>4 DEF Waiting, Often
<1>2. WindowInv /\ QueueInv => (NumbersLeft => QueueBound)
    BY <1>1
<1> QED
    BY <1>2, WindowInvariant, QueueInvariant, PTL

\* The counters of Send, HandleRead and HandleTimeout add up: every datagram is
\* a first transmission or the one retransmission of a packet counted as lost.
THEOREM CountersAddUp == Spec => [](NumbersLeft => Accounting)
<1>1. ASSUME WindowInv, EventInv, RetransCounted, LossInv, NumbersLeft
      PROVE  Accounting
    <2>1. IsFiniteSet(Accused) /\ Cardinality(Accused) \in Nat
        BY <1>1, AccusedFinite
    <2>2. m_retransmitPackets \in SUBSET Accused
        BY DEF Accused
    <2>3. Cardinality(m_retransmitPackets) <= Cardinality(Accused)
        BY <2>1, <2>2, FS_Subset
    <2>4. Cardinality(m_retransmitPackets) \in Nat /\ m_packetLost \in Nat
        BY <1>1, FS_CardinalityType
           DEF RetransCounted, WindowInv, TypeInvariant, TypeOK
    <2> QED
        BY <1>1, <2>1, <2>3, <2>4
           DEF Accounting, EventInv, SentAddsUp, RetransCounted, LossInv
<1>2. WindowInv /\ EventInv /\ RetransCounted /\ LossInv
          => (NumbersLeft => Accounting)
    BY <1>1
<1> QED
    BY <1>2, WindowInvariant, EventInvariant, RetransCountedAlways,
       LossInvariant, PTL

----------------------------------------------------------------------------
(***************************************************************************)
(* The waits of Send: whatever the network does, a full window is waited   *)
(* on for one timeout at most.                                             *)
(***************************************************************************)

\* Ranges wait only behind one that is being retransmitted.
NothingBehind == ~m_retransmit => m_retransmissions = <<>>

\* No timer is further away than the timeout.
DueInTime == \A e \in rtoEvents : e.due < RtoTicks

WaitInv == NothingBehind /\ DueInTime

LEMMA EnqueueKeepsBehind ==
    ASSUME NothingBehind, NEW lost, Enqueue(lost)
    PROVE  NothingBehind'
BY DEF Enqueue, NothingBehind, rangeVars

LEMMA AdvanceKeepsBehind ==
    ASSUME NothingBehind, m_retransmit, AdvanceRange
    PROVE  NothingBehind'
BY DEF AdvanceRange, NothingBehind

LEMMA OlderAreInTime ==
    ASSUME TypeOK, DueInTime
    PROVE  \A e \in OlderTimers : e.due < RtoTicks
<1> SUFFICES ASSUME NEW f \in rtoEvents PROVE [f EXCEPT !.due = @ - 1].due < RtoTicks
    BY DEF OlderTimers
<1>1. f \in [id : Nat, seq : Seqs, due : Nat] /\ f.due < RtoTicks
    BY DEF TypeOK, DueInTime
<1> QED
    BY <1>1

LEMMA TransmitKeepsTime ==
    ASSUME TypeOK, DueInTime, NEW h, Transmit(h)
    PROVE  DueInTime'
<1>1. rtoEvents' = OlderTimers \cup {[id |-> m_sent, seq |-> h, due |-> RtoTicks - 1]}
    BY DEF Transmit
<1> QED
    BY <1>1, OlderAreInTime DEF DueInTime

LEMMA StepKeepsWaits ==
    TypeOK /\ WaitInv /\ [Next]_vars => WaitInv'
<1> SUFFICES ASSUME TypeOK, WaitInv, [Next]_vars PROVE WaitInv'
    OBVIOUS
<1>1. NothingBehind /\ DueInTime
    BY DEF WaitInv
<1>2. CASE UNCHANGED rangeVars /\ rtoEvents' \subseteq rtoEvents
    BY <1>1, <1>2 DEF WaitInv, NothingBehind, DueInTime, rangeVars
<1>3. CASE Start \/ Stop \/ Log
    BY <1>2, <1>3 DEF Start, Stop, Log, StartApplication, StopApplication, PpsLog,
       CancelTimers, timerVars, rangeVars
<1>4. CASE SendFresh
    <2>1. Transmit(FreshHeader) /\ UNCHANGED rangeVars
        BY <1>4 DEF SendFresh
    <2> QED
        BY <1>1, <2>1, TransmitKeepsTime DEF WaitInv, NothingBehind, rangeVars
<1>5. CASE SendRetransmission
    <2>1. Transmit(RetransHeader) /\ m_retransmit /\ AdvanceRange
        BY <1>5 DEF SendRetransmission
    <2> QED
        BY <1>1, <2>1, TransmitKeepsTime, AdvanceKeepsBehind DEF WaitInv
<1>6. CASE SendSkips
    <2>1. m_retransmit /\ AdvanceRange /\ rtoEvents' = OlderTimers
        BY <1>6 DEF SendSkips
    <2> QED
        BY <1>1, <2>1, OlderAreInTime, AdvanceKeepsBehind DEF WaitInv, DueInTime
<1>7. CASE SendWaits
    <2>1. rtoEvents' = OlderTimers /\ UNCHANGED rangeVars
        BY <1>7 DEF SendWaits
    <2> QED
        BY <1>1, <2>1, OlderAreInTime DEF WaitInv, NothingBehind, DueInTime, rangeVars
<1>8. ASSUME NEW e \in rtoEvents, HandleTimeout(e) PROVE WaitInv'
    <2>1. CASE TimeoutSpins(e)
        BY <1>2, <2>1 DEF TimeoutSpins, timerVars
    <2>2. CASE TimeoutOfFirst(e) \/ TimeoutOfRetransmission(e)
        <3>1. Enqueue(<<e.seq>>) /\ rtoEvents' \subseteq rtoEvents
            BY <2>2 DEF TimeoutOfFirst, TimeoutOfRetransmission
        <3> QED
            BY <1>1, <3>1, EnqueueKeepsBehind DEF WaitInv, DueInTime
    <2> QED
        BY <1>8, <2>1, <2>2 DEF HandleTimeout
<1>9. ASSUME NEW s \in Seqs, Receive(s) PROVE WaitInv'
    <2>1. CASE HandleReadSpins(s)
        BY <1>2, <2>1 DEF HandleReadSpins, timerVars
    <2>2. CASE HandleRead(s)
        <3>1. Enqueue(Ascending(LostBefore(s))) /\ rtoEvents' \subseteq rtoEvents
            BY <2>2 DEF HandleRead, CancelTimers
        <3> QED
            BY <1>1, <3>1, EnqueueKeepsBehind DEF WaitInv, DueInTime
    <2> QED
        BY <1>9, <2>1, <2>2 DEF Receive
<1>10. ASSUME NEW s \in Seqs, Lose(s) PROVE WaitInv'
    BY <1>2, <1>10 DEF Lose, clientVars, timerVars, rangeVars
<1>11. CASE UNCHANGED vars
    BY <1>2, <1>11 DEF vars, clientVars, timerVars, rangeVars
<1> QED
    BY <1>3, <1>4, <1>5, <1>6, <1>7, <1>8, <1>9, <1>10, <1>11 DEF Next, Send, Timeout

LEMMA InitWaitInv == Init => WaitInv
BY DEF Init, ClientInit, WaitInv, NothingBehind, DueInTime

\* A window that is full has a first packet, and it has been sent.
LEMMA FullHasBase ==
    ASSUME WindowInv, WindowIsFull
    PROVE  m_windowBase \in Sent
<1>1. /\ m_seqNum \in Nat /\ m_windowBase \in Nat
      /\ m_windowBase <= m_seqNum /\ m_seqNum <= m_windowBase + WindowSize
    BY DEF WindowInv, TypeInvariant, TypeOK, WindowBound
<1>2. m_seqNum - m_windowBase \in 0 .. WordMod - 1
    BY <1>1
<1>3. U32(m_seqNum - m_windowBase) = m_seqNum - m_windowBase
    BY <1>2, ModSmall DEF U32
<1> QED
    BY <1>1, <1>3 DEF WindowIsFull, Sent

\* HandleRead and HandleTimeout queue ranges only behind a current one, Send
\* leaves none behind it, and every timer is set for m_rto at most.
THEOREM WaitInvariant == Spec => []WaitInv
<1>1. TypeInvariant => TypeOK
    BY DEF TypeInvariant
<1> QED
    BY <1>1, InitWaitInv, StepKeepsWaits, TypeCorrect, PTL DEF Spec

\* When Send finds the window full and has nothing to retransmit, the packet at
\* the window's base has a timer that runs out within m_rto, over any network
\* and until the sequence numbers run out: Send never waits for an echo alone.
THEOREM WaitsAreTimed == Spec => [](NumbersLeft => WaitIsTimed)
<1>1. ASSUME WindowInv, TimerInv, WaitInv, NumbersLeft,
             phase = "running", WindowIsFull, ~m_retransmit
      PROVE  \E e \in rtoEvents : e.seq = m_windowBase /\ e.due < RtoTicks
    <2>1. m_windowBase \in Sent \ m_receivedPackets
        BY <1>1, FullHasBase DEF WindowInv, WindowBound
    <2>2. m_windowBase \in Seqs
        BY <1>1, <2>1 DEF Sent, Seqs, NumbersLeft, WindowInv, TypeInvariant, TypeOK
    <2>3. Queued = {}
        BY <1>1 DEF WaitInv, NothingBehind, Queued
    <2>4. NoStrandedPacket /\ TimersMatch
        BY <1>1 DEF TimerInv, TimerParts
    <2>5. m_timers[m_windowBase] # NoEvent
        BY <1>1, <2>1, <2>3, <2>4 DEF NoStrandedPacket
    <2>6. PICK e \in rtoEvents : e.seq = m_windowBase
        BY <2>2, <2>4, <2>5 DEF TimersMatch
    <2> QED
        BY <1>1, <2>6 DEF WaitInv, DueInTime
<1>2. WindowInv /\ TimerInv /\ WaitInv => (NumbersLeft => WaitIsTimed)
    BY <1>1 DEF WaitIsTimed
<1> QED
    BY <1>2, WindowInvariant, TimerInvariant, WaitInvariant, PTL

----------------------------------------------------------------------------
(***************************************************************************)
(* The schedule of the timers: no two expire in the same interval, and     *)
(* those of packets nobody has heard of expire in the order in which the   *)
(* packets were sent.  A timeout therefore finds the queue empty, so that  *)
(* the last sequence number never waits behind another one, where its      *)
(* range would not end.                                                    *)
(***************************************************************************)

\* Send may still run, now or after the start.
Going == phase = "created" \/ sendEvents > 0

Last == SeqMod - 1

\* The packets a gap may still leave behind.
Open == {l \in Seqs : m_ackNum <= l /\ l < m_seqNum /\ l \notin m_retransmitPackets}

\* The ranges Send has to work off, one per interval, and the intervals before
\* the d-th from now in which no timer expires.
Pending == (IF m_retransmit THEN 1 ELSE 0) + Len(m_retransmissions)
FreeBefore(d) == {x \in 0 .. d - 1 : \A f \in rtoEvents : f.due # x}

\* What the ranges hold.
CurrentIsNumber == m_retransmit => m_retransSeq \in Seqs
PairsAreNext ==
    \A i \in 1 .. Len(m_retransmissions) :
        m_retransmissions[i][2] = U16(m_retransmissions[i][1] + 1)

\* An identity in m_timers is that of a timer of the same packet.
Identities ==
    /\ EventsDiffer
    /\ \A s \in Seqs :
           /\ m_timers[s] < m_sent
           /\ \A e \in rtoEvents : m_timers[s] = e.id => e.seq = s

\* m_ackNum has passed what was echoed before its retransmission.
EchoesPassed ==
    \A s \in m_receivedPackets : s < m_ackNum \/ s \in m_retransmitPackets

DuesDiffer == \A e, f \in rtoEvents : e.due = f.due => e = f

\* An open packet has one timer, or waits for its retransmission; then it is
\* the oldest of the open packets.
OpenTimed ==
    \A l \in Open :
        /\ \A e \in rtoEvents : e.seq = l => m_timers[l] = e.id
        /\ l \in Queued => /\ \A e \in rtoEvents : e.seq # l
                           /\ \A k \in Open : l <= k
        /\ l \notin Queued => \E e \in rtoEvents : e.seq = l

OpenInOrder ==
    \A e, f \in rtoEvents :
        e.seq \in Open /\ f.seq \in Open /\ e.seq < f.seq => e.due < f.due

OpenIsNewer == \A l \in Open, s \in m_retransmitPackets : s < l

\* What is pending is worked off before the timer of an open packet, or of the
\* last one, expires.
SlotsSuffice ==
    \A e \in rtoEvents :
        e.seq \in Open \cup {Last} => Pending <= Cardinality(FreeBefore(e.due))

\* The last sequence number waits alone.
LastIsAlone ==
    Last \in Queued =>
        /\ Pending = 1
        /\ \A e \in rtoEvents : e.due > 0
        /\ Open \subseteq {Last}

\* The inductive invariant behind RangesAreUnits.
OnSchedule ==
    /\ CurrentIsNumber
    /\ PairsAreNext
    /\ Identities
    /\ EchoesPassed
    /\ DuesDiffer
    /\ OpenTimed
    /\ OpenInOrder
    /\ OpenIsNewer
    /\ SlotsSuffice
    /\ LastIsAlone

ScheduleInv == RangesAreUnits /\ (Going => OnSchedule)

----------------------------------------------------------------------------
(* The ranges that are pending.                                            *)

LEMMA PendingType ==
    ASSUME RangeTypes, NothingBehind
    PROVE  /\ Pending \in Nat
           /\ ~m_retransmit => Pending = 0
           /\ Pending = 0 => Queued = {}
<1>1. Len(m_retransmissions) \in Nat
    BY DEF RangeTypes
<1>2. ASSUME Len(m_retransmissions) = 0 PROVE m_retransmissions = <<>>
    BY <1>2 DEF RangeTypes
<1>3. ASSUME ~m_retransmit PROVE m_retransmissions = <<>>
    BY <1>3 DEF NothingBehind
<1>4. ASSUME Pending = 0 PROVE Queued = {}
    <2>1. ~m_retransmit
        BY <1>1, <1>4 DEF Pending
    <2> QED
        BY <1>3, <2>1 DEF Queued
<1> QED
    BY <1>1, <1>3, <1>4 DEF Pending

LEMMA EnqueuePending ==
    ASSUME RangeTypes, NEW lost \in Seq(Seqs), Enqueue(lost)
    PROVE  Pending' = Pending + Len(lost)
<1>1. m_retransmissions \in Seq(Seqs \X Seqs)
    BY DEF RangeTypes
<1>2. \A t \in Seq(Seqs) :
         Len(m_retransmissions \o RangesOf(t)) = Len(m_retransmissions) + Len(t)
    BY <1>1, JoinedQueue
<1>3. CASE lost = <<>>
    BY <1>1, <1>3 DEF Enqueue, rangeVars, Pending
<1>4. CASE lost # <<>> /\ ~m_retransmit
    <2>1. /\ m_retransmit' = TRUE
          /\ m_retransmissions' = m_retransmissions \o RangesOf(Tail(lost))
        BY <1>4 DEF Enqueue
    <2>2. /\ Tail(lost) \in Seq(Seqs)
          /\ Len(lost) \in Nat /\ Len(Tail(lost)) = Len(lost) - 1
        BY <1>4
    <2>3. Len(m_retransmissions') = Len(m_retransmissions) + (Len(lost) - 1)
        BY <1>2, <2>1, <2>2
    <2> QED
        BY <1>1, <1>4, <2>1, <2>2, <2>3 DEF Pending
<1>5. CASE lost # <<>> /\ m_retransmit
    <2>1. /\ m_retransmit' = m_retransmit
          /\ m_retransmissions' = m_retransmissions \o RangesOf(lost)
        BY <1>5 DEF Enqueue
    <2>2. Len(m_retransmissions') = Len(m_retransmissions) + Len(lost)
        BY <1>2, <2>1
    <2> QED
        BY <1>1, <1>5, <2>1, <2>2 DEF Pending
<1> QED
    BY <1>3, <1>4, <1>5 DEF RangeTypes

\* Enqueue makes a range of one packet current.
LEMMA EnqueueKeepsUnits ==
    ASSUME RangesAreUnits, NEW lost \in Seq(Seqs), Enqueue(lost)
    PROVE  RangesAreUnits' /\ (CurrentIsNumber => CurrentIsNumber')
<1>1. CASE lost = <<>> \/ m_retransmit
    BY <1>1 DEF Enqueue, rangeVars, RangesAreUnits, CurrentIsNumber
<1>2. CASE lost # <<>> /\ ~m_retransmit
    <2>1. /\ m_retransSeq' = Head(lost) /\ m_retransStop' = Head(lost) + 1
          /\ Head(lost) \in Seqs
        BY <1>2 DEF Enqueue
    <2> QED
        BY <2>1 DEF RangesAreUnits, CurrentIsNumber
<1> QED
    BY <1>1, <1>2

LEMMA JoinedPairs ==
    ASSUME RangeTypes, PairsAreNext, NEW t \in Seq(Seqs),
           m_retransmissions' = m_retransmissions \o RangesOf(t)
    PROVE  PairsAreNext'
<1>1. /\ m_retransmissions \in Seq(Seqs \X Seqs)
      /\ Len(m_retransmissions) \in Nat /\ Len(t) \in Nat
    BY DEF RangeTypes
<1>2. /\ Len(m_retransmissions') = Len(m_retransmissions) + Len(t)
      /\ \A i \in 1 .. Len(m_retransmissions) :
             m_retransmissions'[i] = m_retransmissions[i]
      /\ \A i \in 1 .. Len(t) :
             /\ m_retransmissions'[Len(m_retransmissions) + i][1] = t[i]
             /\ m_retransmissions'[Len(m_retransmissions) + i][2] = U16(t[i] + 1)
    <2> DEFINE joined == m_retransmissions \o RangesOf(t)
    <2>1. /\ Len(joined) = Len(m_retransmissions) + Len(t)
          /\ \A i \in 1 .. Len(m_retransmissions) :
                 joined[i] = m_retransmissions[i]
          /\ \A i \in 1 .. Len(t) :
                 joined[Len(m_retransmissions) + i][1] = t[i]
          /\ \A i \in 1 .. Len(t) :
                 joined[Len(m_retransmissions) + i][2] = U16(t[i] + 1)
        BY <1>1, JoinedQueue
    <2>2. m_retransmissions' = joined
        OBVIOUS
    <2> HIDE DEF joined
    <2> QED
        BY <2>1, <2>2
<1>3. ASSUME NEW i \in 1 .. Len(m_retransmissions')
      PROVE  m_retransmissions'[i][2] = U16(m_retransmissions'[i][1] + 1)
    <2>1. CASE i <= Len(m_retransmissions)
        BY <1>1, <1>2, <2>1 DEF PairsAreNext
    <2>2. CASE i > Len(m_retransmissions)
        <3>1. /\ i - Len(m_retransmissions) \in 1 .. Len(t)
              /\ i = Len(m_retransmissions) + (i - Len(m_retransmissions))
            BY <1>1, <1>2, <2>2
        <3> QED
            BY <1>2, <3>1
    <2> QED
        BY <1>1, <1>2, <2>1, <2>2
<1> QED
    BY <1>3 DEF PairsAreNext

LEMMA EnqueueKeepsPairs ==
    ASSUME RangeTypes, PairsAreNext, NEW lost \in Seq(Seqs), Enqueue(lost)
    PROVE  PairsAreNext'
<1>1. CASE lost = <<>>
    BY <1>1 DEF Enqueue, rangeVars, PairsAreNext
<1>2. CASE lost # <<>> /\ ~m_retransmit
    <2>1. m_retransmissions' = m_retransmissions \o RangesOf(Tail(lost))
        BY <1>2 DEF Enqueue
    <2>2. Tail(lost) \in Seq(Seqs)
        BY <1>2
    <2> QED
        BY <2>1, <2>2, JoinedPairs
<1>3. CASE lost # <<>> /\ m_retransmit
    BY <1>3, JoinedPairs DEF Enqueue
<1> QED
    BY <1>1, <1>2, <1>3 DEF RangeTypes

\* Send leaves a range of one packet behind it.
LEMMA NextIsStop ==
    ASSUME RangeTypes, RangesAreUnits, CurrentIsNumber, m_retransmit
    PROVE  U32(m_retransSeq + 1) = m_retransStop
<1>1. m_retransStop = m_retransSeq + 1 /\ m_retransSeq + 1 \in 0 .. WordMod - 1
    BY DEF RangesAreUnits, CurrentIsNumber, Seqs
<1> QED
    BY <1>1, ModSmall DEF U32

LEMMA AdvanceWorksOff ==
    ASSUME RangeTypes, RangeTypes', RangesAreUnits, CurrentIsNumber, PairsAreNext,
           LastIsAlone, m_retransmit, AdvanceRange
    PROVE  /\ Pending' = Pending - 1
           /\ RangesAreUnits' /\ CurrentIsNumber' /\ PairsAreNext'
<1>1. U32(m_retransSeq + 1) = m_retransStop
    BY NextIsStop
<1>2. CASE m_retransmissions = <<>>
    <2>1. m_retransmit' = FALSE /\ m_retransmissions' = m_retransmissions
        BY <1>1, <1>2 DEF AdvanceRange
    <2>2. Len(m_retransmissions) = 0
        BY <1>2
    <2> QED
        BY <2>1, <2>2 DEF Pending, RangesAreUnits, CurrentIsNumber, PairsAreNext
<1>3. CASE m_retransmissions # <<>>
    <2>1. /\ m_retransSeq' = Head(m_retransmissions)[1]
          /\ m_retransStop' = Head(m_retransmissions)[2]
          /\ m_retransmissions' = Tail(m_retransmissions)
          /\ m_retransmit' = m_retransmit
        BY <1>1, <1>3, Zenon DEF AdvanceRange
    <2>2. /\ Len(m_retransmissions) \in Nat /\ Len(m_retransmissions) > 0
          /\ Head(m_retransmissions) = m_retransmissions[1]
          /\ m_retransmissions[1] \in Seqs \X Seqs
          /\ Len(m_retransmissions') = Len(m_retransmissions) - 1
          /\ \A i \in 1 .. Len(m_retransmissions) - 1 :
                 m_retransmissions'[i] = m_retransmissions[i + 1]
        BY <1>3, <2>1 DEF RangeTypes
    <2>3. Pending' = Pending - 1
        BY <2>1, <2>2 DEF Pending
    <2>4. m_retransSeq' \in Seqs /\ m_retransStop' = U16(m_retransSeq' + 1)
        BY <2>1, <2>2 DEF PairsAreNext
    <2>5. m_retransSeq' # Last
        \* it would have waited behind another packet
        <3>1. Pending # 1
            BY <2>2 DEF Pending
        <3>2. m_retransSeq' \in Queued
            BY <2>1, <2>2, QueuedMeans DEF Waits
        <3> QED
            BY <3>1, <3>2 DEF LastIsAlone
    <2>6. U16(m_retransSeq' + 1) = m_retransSeq' + 1
        <3>1. \A x \in Seqs : x # Last => x + 1 \in 0 .. SeqMod - 1
            BY DEF Seqs, Last
        <3>2. \A x \in 0 .. SeqMod - 1 : U16(x) = x
            BY ModSmall DEF U16
        <3> QED
            BY <2>4, <2>5, <3>1, <3>2
    <2>7. PairsAreNext'
        BY <2>2 DEF PairsAreNext
    <2> QED
        BY <2>3, <2>4, <2>6, <2>7 DEF RangesAreUnits, CurrentIsNumber
<1> QED
    BY <1>2, <1>3

----------------------------------------------------------------------------
(* The intervals in which no timer expires.                                *)

LEMMA FreeFinite ==
    ASSUME NEW d \in Nat, NEW A \in SUBSET (0 .. d - 1)
    PROVE  IsFiniteSet(A) /\ Cardinality(A) \in Nat
<1>1. IsFiniteSet(0 .. d - 1)
    BY FS_Interval
<1> QED
    BY <1>1, FS_Subset, FS_CardinalityType

\* With fewer timers there are no fewer of them.
LEMMA FreeGrows ==
    ASSUME rtoEvents' \subseteq rtoEvents, NEW d \in Nat
    PROVE  /\ FreeBefore(d) \in SUBSET (FreeBefore(d)')
           /\ Cardinality(FreeBefore(d)) <= Cardinality(FreeBefore(d)')
<1>1. /\ FreeBefore(d) \in SUBSET (FreeBefore(d)')
      /\ FreeBefore(d)' \in SUBSET (0 .. d - 1)
    BY DEF FreeBefore
<1> QED
    BY <1>1, FreeFinite, FS_Subset

\* The interval in which a timer expires is free when it has expired.
LEMMA FreeAfterExpiry ==
    ASSUME DuesDiffer, NEW e \in rtoEvents, e.due = 0,
           rtoEvents' = rtoEvents \ {e}, NEW d \in Nat, d > 0
    PROVE  Cardinality(FreeBefore(d)) + 1 <= Cardinality(FreeBefore(d)')
<1>1. 0 \notin FreeBefore(d)
    BY DEF FreeBefore
<1>2. /\ FreeBefore(d) \cup {0} \in SUBSET (FreeBefore(d)')
      /\ FreeBefore(d) \in SUBSET (0 .. d - 1)
      /\ FreeBefore(d)' \in SUBSET (0 .. d - 1)
    BY DEF FreeBefore, DuesDiffer
<1>3. Cardinality(FreeBefore(d) \cup {0}) = Cardinality(FreeBefore(d)) + 1
    BY <1>1, <1>2, FreeFinite, FS_AddElement
<1>4. IsFiniteSet(FreeBefore(d)')
    BY <1>2, FreeFinite
<1>5. Cardinality(FreeBefore(d) \cup {0}) <= Cardinality(FreeBefore(d)')
    BY <1>2, <1>4, FS_Subset
<1> QED
    BY <1>3, <1>5

\* An interval later one of them is over at most.
LEMMA FreeLater ==
    ASSUME NEW d \in Nat, d > 0,
           \A f \in rtoEvents' :
               f.due < d - 1 => \E g \in rtoEvents : f.due = g.due - 1,
           \A g \in rtoEvents : g.due \in Nat
    PROVE  Cardinality(FreeBefore(d)) <= Cardinality(FreeBefore(d - 1)') + 1
<1> DEFINE later == {x \in 0 .. (d - 1) - 1 : \A f \in rtoEvents' : f.due # x}
           moved == {1 + x : x \in later}
<1>1. d - 1 \in Nat /\ later = FreeBefore(d - 1)'
    BY DEF FreeBefore
<1>2. IsFiniteSet(later) /\ Cardinality(later) \in Nat /\ later \in SUBSET Nat
    <2>1. later \in SUBSET (0 .. (d - 1) - 1) /\ later \in SUBSET Nat
        OBVIOUS
    <2> HIDE DEF later
    <2> QED
        BY <1>1, <2>1, FreeFinite
<1>3. ASSUME NEW x \in FreeBefore(d), x # 0 PROVE x \in moved
    <2>1. x \in 0 .. d - 1 /\ \A g \in rtoEvents : g.due # x
        BY DEF FreeBefore
    <2>2. x - 1 \in 0 .. (d - 1) - 1
        BY <1>3, <2>1
    <2>3. ASSUME NEW f \in rtoEvents', f.due = x - 1 PROVE FALSE
        <3>1. PICK g \in rtoEvents : f.due = g.due - 1
            BY <2>2, <2>3
        <3>2. g.due = x
            BY <2>1, <2>3, <3>1
        <3> QED
            BY <2>1, <3>2
    <2>4. x - 1 \in later
        BY <2>2, <2>3
    <2>5. x = 1 + (x - 1)
        BY <2>1
    <2> QED
        BY <2>4, <2>5
<1> HIDE DEF later
<1>4. IsFiniteSet(moved) /\ Cardinality(moved) = Cardinality(later)
    <2>1. \A k \in Nat : /\ IsFiniteSet({k + j : j \in later})
                         /\ Cardinality({k + j : j \in later}) = Cardinality(later)
        BY <1>2, MovedUp
    <2> QED
        BY <2>1, Zenon
<1> HIDE DEF moved
<1>5. FreeBefore(d) \in SUBSET (moved \cup {0})
    BY <1>3
<1>6. /\ IsFiniteSet(moved \cup {0})
      /\ Cardinality(moved \cup {0}) \in Nat
      /\ Cardinality(moved \cup {0}) <= Cardinality(later) + 1
    BY <1>4, AtMostOneMore
<1>7. Cardinality(FreeBefore(d)) <= Cardinality(moved \cup {0})
    BY <1>5, <1>6, FS_Subset
<1>8. Cardinality(FreeBefore(d)) \in Nat
    <2>1. FreeBefore(d) \in SUBSET (0 .. d - 1)
        BY DEF FreeBefore
    <2> QED
        BY <2>1, FreeFinite
<1> QED
    BY <1>1, <1>2, <1>6, <1>7, <1>8

----------------------------------------------------------------------------
(* What the steps do to the timers and to the packets still open.          *)

\* With fewer timers, and none that is new, identities and deadlines differ.
LEMMA FewerTimers ==
    ASSUME TypeOK, Identities, DuesDiffer, rtoEvents' \subseteq rtoEvents,
           \A s \in Seqs : m_timers'[s] = m_timers[s] \/ m_timers'[s] = NoEvent,
           m_sent' = m_sent
    PROVE  Identities' /\ DuesDiffer'
<1>1. m_sent \in Nat /\ rtoEvents \in SUBSET [id : Nat, seq : Seqs, due : Nat]
    BY DEF TypeOK
<1>2. EventsDiffer' /\ DuesDiffer'
    BY DEF Identities, EventsDiffer, DuesDiffer
<1>3. ASSUME NEW s \in Seqs
      PROVE  /\ m_timers'[s] < m_sent'
             /\ \A e \in rtoEvents' : m_timers'[s] = e.id => e.seq = s
    BY <1>1, <1>3 DEF Identities, NoEvent
<1> QED
    BY <1>2, <1>3 DEF Identities

\* Send makes every timer older by an interval, and may start one.
LEMMA AgedTimers ==
    ASSUME TypeOK, DueInTime, DuesDiffer, SendIsDue, NEW h \in Seqs,
           NEW started \in SUBSET {[id |-> m_sent, seq |-> h, due |-> RtoTicks - 1]},
           rtoEvents' = OlderTimers \cup started
    PROVE  /\ DuesDiffer'
           /\ \A e \in OlderTimers :
                  \E f \in rtoEvents :
                      /\ e = [f EXCEPT !.due = @ - 1]
                      /\ f.id = e.id /\ f.seq = e.seq /\ f.due = e.due + 1
                      /\ e.due \in Nat /\ e.due < RtoTicks - 1
                      /\ Cardinality(FreeBefore(f.due))
                             <= Cardinality(FreeBefore(e.due)') + 1
           /\ \A f \in rtoEvents :
                  \E e \in OlderTimers : e.id = f.id /\ e.seq = f.seq
           /\ \A e \in started :
                  e.id = m_sent /\ e.seq = h /\ e.due = RtoTicks - 1
<1> DEFINE older(f) == [f EXCEPT !.due = @ - 1]
<1>1. ASSUME NEW f \in rtoEvents
      PROVE  /\ older(f).id = f.id /\ older(f).seq = f.seq
             /\ f.due \in Nat /\ f.due > 0 /\ f.due < RtoTicks
             /\ older(f).due = f.due - 1
    BY DEF TypeOK, SendIsDue, DueInTime
<1>2. \A e \in OlderTimers : \E f \in rtoEvents : e = older(f)
    BY DEF OlderTimers
<1>3. \A f \in rtoEvents : older(f) \in OlderTimers
    BY DEF OlderTimers
<1>4. \A e \in started : e.id = m_sent /\ e.seq = h /\ e.due = RtoTicks - 1
    OBVIOUS
<1>5. \A e, g \in started : e = g
    OBVIOUS
<1> HIDE DEF older
<1>6. ASSUME NEW e \in rtoEvents', NEW g \in rtoEvents', e.due = g.due
      PROVE  e = g
    <2>1. CASE e \in OlderTimers /\ g \in OlderTimers
        <3>1. PICK d \in rtoEvents, f \in rtoEvents : e = older(d) /\ g = older(f)
            BY <1>2, <2>1
        <3>2. d.due = f.due
            BY <1>1, <1>6, <3>1
        <3> QED
            BY <3>1, <3>2 DEF DuesDiffer
    <2>2. CASE e \in started /\ g \in started
        BY <1>5, <2>2
    <2>3. \A x \in OlderTimers : x.due # RtoTicks - 1
        BY <1>1, <1>2
    <2> QED
        BY <1>4, <1>6, <2>1, <2>2, <2>3
<1>7. ASSUME NEW f \in rtoEvents
      PROVE  Cardinality(FreeBefore(f.due))
                 <= Cardinality(FreeBefore(f.due - 1)') + 1
    <2>1. \A x \in rtoEvents' :
             x.due < f.due - 1 => \E g \in rtoEvents : x.due = g.due - 1
        BY <1>1, <1>2, <1>4
    <2>2. \A g \in rtoEvents : g.due \in Nat
        BY <1>1
    <2>3. f.due \in Nat /\ f.due > 0
        BY <1>1
    <2> QED
        BY <2>1, <2>2, <2>3, FreeLater
<1>8. ASSUME NEW e \in OlderTimers
      PROVE  \E f \in rtoEvents :
                 /\ e = older(f)
                 /\ f.id = e.id /\ f.seq = e.seq /\ f.due = e.due + 1
                 /\ e.due \in Nat /\ e.due < RtoTicks - 1
                 /\ Cardinality(FreeBefore(f.due))
                        <= Cardinality(FreeBefore(e.due)') + 1
    <2>1. PICK f \in rtoEvents : e = older(f)
        BY <1>2
    <2>2. /\ f.id = e.id /\ f.seq = e.seq /\ e.due = f.due - 1
          /\ f.due = e.due + 1 /\ e.due \in Nat /\ e.due < RtoTicks - 1
        BY <1>1, <2>1
    <2>3. Cardinality(FreeBefore(f.due))
              <= Cardinality(FreeBefore(e.due)') + 1
        BY <1>7, <2>2
    <2> QED
        BY <2>1, <2>2, <2>3
<1>9. \A f \in rtoEvents : \E e \in OlderTimers : e.id = f.id /\ e.seq = f.seq
    BY <1>1, <1>3
<1> QED
    BY <1>4, <1>6, <1>8, <1>9 DEF DuesDiffer, older

\* The identities, when Send has started the timer of h or none.
LEMMA AgedIdentities ==
    ASSUME TypeOK, DueInTime, DuesDiffer, Identities, SendIsDue, NEW h \in Seqs,
           NEW started \in SUBSET {[id |-> m_sent, seq |-> h, due |-> RtoTicks - 1]},
           rtoEvents' = OlderTimers \cup started,
           \/ started # {} /\ m_sent' = m_sent + 1
                /\ m_timers' = [m_timers EXCEPT ![h] = m_sent]
           \/ started = {} /\ UNCHANGED <<m_sent, m_timers>>
    PROVE  Identities'
<1>1. /\ m_sent \in Nat /\ m_timers \in [Seqs -> Nat \cup {NoEvent}]
      /\ \A f \in rtoEvents : f.id \in Nat /\ f.id < m_sent
    BY DEF TypeOK, Identities, EventsDiffer
<1>2. \A e \in OlderTimers :
         \E f \in rtoEvents : /\ e = [f EXCEPT !.due = @ - 1]
                              /\ f.id = e.id /\ f.seq = e.seq
    BY AgedTimers
<1>3. \A e \in started : e.id = m_sent /\ e.seq = h
    BY AgedTimers
<1>4. \A e, g \in started : e = g
    OBVIOUS
<1>5. EventsDiffer'
    <2>1. ASSUME NEW e \in rtoEvents', NEW g \in rtoEvents', e.id = g.id
          PROVE  e = g
        <3>1. CASE e \in OlderTimers /\ g \in OlderTimers
            <4>1. PICK d \in rtoEvents, f \in rtoEvents :
                     /\ e = [d EXCEPT !.due = @ - 1] /\ d.id = e.id
                     /\ g = [f EXCEPT !.due = @ - 1] /\ f.id = g.id
                BY <1>2, <3>1
            <4>2. d = f
                BY <2>1, <4>1 DEF Identities, EventsDiffer
            <4> QED
                BY <4>1, <4>2
        <3>2. \A x \in OlderTimers : x.id # m_sent
            BY <1>1, <1>2
        <3> QED
            BY <1>3, <1>4, <2>1, <3>1, <3>2
    <2>2. \A e \in rtoEvents' : e.id < m_sent'
        BY <1>1, <1>2, <1>3
    <2> QED
        BY <2>1, <2>2 DEF EventsDiffer
<1>6. ASSUME NEW s \in Seqs
      PROVE  /\ m_timers'[s] < m_sent'
             /\ \A e \in rtoEvents' : m_timers'[s] = e.id => e.seq = s
    <2>1. m_timers[s] < m_sent
        BY DEF Identities
    <2>2. \A e \in OlderTimers : m_timers[s] = e.id => e.seq = s
        BY <1>2 DEF Identities
    <2>3. \A e \in OlderTimers : e.id # m_sent
        BY <1>1, <1>2
    <2>4. \/ m_timers'[s] = m_timers[s] /\ m_sent' >= m_sent
          \/ s = h /\ m_timers'[s] = m_sent /\ m_sent' = m_sent + 1
        BY <1>1
    <2>5. m_timers'[s] < m_sent'
        BY <1>1, <2>1, <2>4 DEF NoEvent
    <2> QED
        BY <1>1, <1>3, <2>1, <2>2, <2>3, <2>4, <2>5
<1> QED
    BY <1>5, <1>6 DEF Identities

\* What is under way to be worked off still fits before the timers that have
\* grown older, when Send has worked off one range.
LEMMA AgedSlots ==
    ASSUME TypeOK, DueInTime, DuesDiffer, SlotsSuffice, SendIsDue, NEW h \in Seqs,
           NEW started \in SUBSET {[id |-> m_sent, seq |-> h, due |-> RtoTicks - 1]},
           rtoEvents' = OlderTimers \cup started,
           RangeTypes, RangeTypes', Pending' = Pending - 1, Open' \subseteq Open,
           h \in Open' \cup {Last} => Pending' = 0
    PROVE  SlotsSuffice'
<1> SUFFICES ASSUME NEW e \in rtoEvents', e.seq \in Open' \cup {Last}
             PROVE  Pending' <= Cardinality(FreeBefore(e.due)')
    BY DEF SlotsSuffice, Last
<1>1. CASE e \in OlderTimers
    <2>1. PICK f \in rtoEvents :
             /\ f.seq = e.seq /\ f.due = e.due + 1 /\ e.due \in Nat
             /\ Cardinality(FreeBefore(f.due))
                    <= Cardinality(FreeBefore(e.due)') + 1
        BY <1>1, AgedTimers
    <2>2. f.due \in Nat /\ e.due \in Nat
        BY <2>1
    <2>3. Pending <= Cardinality(FreeBefore(f.due))
        BY <2>1 DEF SlotsSuffice
    <2>4. /\ Cardinality(FreeBefore(f.due)) \in Nat
          /\ Cardinality(FreeBefore(e.due)') \in Nat
        <3>1. /\ FreeBefore(f.due) \in SUBSET (0 .. f.due - 1)
              /\ FreeBefore(e.due)' \in SUBSET (0 .. e.due - 1)
            BY DEF FreeBefore
        <3> QED
            BY <2>2, <3>1, FreeFinite
    <2>5. Pending \in Int
        BY DEF Pending, RangeTypes
    <2> QED
        BY <2>1, <2>3, <2>4, <2>5
<1>2. CASE e \in started
    <2>1. e.seq = h /\ e.due \in Nat
        BY <1>2
    <2>2. Pending' = 0
        BY <2>1
    <2>3. Cardinality(FreeBefore(e.due)') \in Nat
        <3>1. FreeBefore(e.due)' \in SUBSET (0 .. e.due - 1)
            BY DEF FreeBefore
        <3> QED
            BY <2>1, <3>1, FreeFinite
    <2> QED
        BY <2>2, <2>3
<1> QED
    BY <1>1, <1>2

----------------------------------------------------------------------------
(* Send keeps the schedule.                                                *)

\* A sequence number the window lets Send use again is not open.
LEMMA FreshOpens ==
    ASSUME WindowSize <= SeqMod, WindowInv, EchoesPassed, SendFresh
    PROVE  /\ FreshHeader \in Seqs /\ FreshHeader \notin Open
           /\ Open' \subseteq Open \cup {FreshHeader}
           /\ FreshHeader \in Open' =>
                  /\ \A f \in rtoEvents : f.seq < FreshHeader
                  /\ \A s \in m_retransmitPackets : s < FreshHeader
<1> DEFINE h == FreshHeader
<1>1. /\ m_seqNum \in Nat /\ m_windowBase \in Nat /\ m_ackNum \in Nat
      /\ m_windowBase < SeqMod /\ m_windowBase <= m_seqNum
      /\ \A s \in 0 .. m_windowBase - 1 : s \in m_receivedPackets
      /\ m_retransmitPackets \subseteq 0 .. m_seqNum - 1
      /\ \A f \in rtoEvents : f.seq \in 0 .. m_seqNum - 1
    BY DEF WindowInv, TypeInvariant, TypeOK, WindowBound, SentOnly, Sent
<1>2. /\ m_seqNum' = m_seqNum + 1 /\ m_ackNum' = m_ackNum
      /\ m_retransmitPackets' = m_retransmitPackets
    BY DEF SendFresh
<1>3. h \in Seqs
    BY Headers
<1>4. m_seqNum < m_windowBase + WindowSize
    BY RoomInWindow DEF SendFresh
<1>5. CASE m_seqNum < SeqMod
    <2>1. h = m_seqNum
        BY <1>1, <1>5, ModSmall DEF FreshHeader, U16
    <2> HIDE DEF h
    <2>2. h \notin Open
        BY <1>1, <2>1 DEF Open
    <2>3. Open' \subseteq Open \cup {h}
        BY <1>1, <1>2, <2>1 DEF Open, Seqs
    <2>4. /\ \A f \in rtoEvents : f.seq < h
          /\ \A s \in m_retransmitPackets : s < h
        BY <1>1, <2>1
    <2> QED
        BY <1>3, <2>2, <2>3, <2>4 DEF h
<1>6. CASE ~(m_seqNum < SeqMod)
    <2>1. m_seqNum - SeqMod \in 0 .. SeqMod - 1 /\ m_seqNum - SeqMod < m_windowBase
        BY <1>1, <1>4, <1>6
    <2>2. h = m_seqNum - SeqMod
        <3>1. (m_seqNum - SeqMod) % SeqMod = m_seqNum - SeqMod
            BY <2>1, ModSmall
        <3>2. ((m_seqNum - SeqMod) + SeqMod) % SeqMod = (m_seqNum - SeqMod) % SeqMod
            BY <2>1, ModPeriod
        <3>3. (m_seqNum - SeqMod) + SeqMod = m_seqNum
            BY <1>1
        <3> QED
            BY <3>1, <3>2, <3>3 DEF FreshHeader, U16
    <2> HIDE DEF h
    <2>3. h \in m_receivedPackets
        BY <1>1, <2>1, <2>2
    <2>4. h \notin Open
        BY <1>1, <1>3, <2>3 DEF EchoesPassed, Open, Seqs
    <2>5. Open' \subseteq Open
        BY <1>1, <1>2, <1>6 DEF Open, Seqs
    <2> QED
        BY <1>3, <2>4, <2>5 DEF h
<1> QED
    BY <1>5, <1>6

LEMMA FreshKeepsSchedule ==
    ASSUME WindowSize <= SeqMod, WindowInv, WindowInv', WaitInv, WaitInv',
           RangesAreUnits, OnSchedule, SendFresh
    PROVE  RangesAreUnits' /\ OnSchedule'
<1> DEFINE h == FreshHeader
           started == {[id |-> m_sent, seq |-> h, due |-> RtoTicks - 1]}
<1>1. /\ TypeOK /\ DueInTime /\ NothingBehind /\ NothingBehind'
      /\ RangeTypes /\ RangeTypes'
      /\ m_timers \in [Seqs -> Nat \cup {NoEvent}]
    BY DEF WindowInv, TypeInvariant, TypeOK, WaitInv, RangeTypes
<1>2. /\ CurrentIsNumber /\ PairsAreNext /\ Identities /\ EchoesPassed
      /\ DuesDiffer /\ OpenTimed /\ OpenInOrder /\ OpenIsNewer
    BY DEF OnSchedule
<1>3. /\ SendIsDue /\ ~m_retransmit
      /\ rtoEvents' = OlderTimers \cup started
      /\ m_timers' = [m_timers EXCEPT ![h] = m_sent]
      /\ m_sent' = m_sent + 1
      /\ m_ackNum' = m_ackNum /\ m_receivedPackets' = m_receivedPackets
      /\ m_retransmitPackets' = m_retransmitPackets
      /\ UNCHANGED rangeVars
    BY DEF SendFresh, Transmit
<1>4. /\ h \in Seqs /\ h \notin Open
      /\ Open' \subseteq Open \cup {h}
      /\ h \in Open' => /\ \A f \in rtoEvents : f.seq < h
                        /\ \A s \in m_retransmitPackets : s < h
    BY <1>2, FreshOpens
<1>5. started # {} /\ started \in SUBSET started
    OBVIOUS
<1>6. /\ DuesDiffer'
      /\ \A e \in OlderTimers :
             \E f \in rtoEvents :
                 /\ f.id = e.id /\ f.seq = e.seq /\ f.due = e.due + 1
                 /\ e.due \in Nat /\ e.due < RtoTicks - 1
      /\ \A f \in rtoEvents : \E e \in OlderTimers : e.id = f.id /\ e.seq = f.seq
      /\ \A e \in started : e.id = m_sent /\ e.seq = h /\ e.due = RtoTicks - 1
    BY <1>1, <1>2, <1>3, <1>4, <1>5, AgedTimers
<1>7. Identities'
    BY <1>1, <1>2, <1>3, <1>4, <1>5, AgedIdentities
<1> HIDE DEF h, started
<1>8. /\ RangesAreUnits' /\ CurrentIsNumber' /\ PairsAreNext' /\ EchoesPassed'
      /\ Queued' = Queued /\ Pending' = Pending
    BY <1>2, <1>3 DEF RangesAreUnits, CurrentIsNumber, PairsAreNext,
       EchoesPassed, Queued, Pending, rangeVars
<1>9. Pending = 0 /\ Queued = {}
    BY <1>1, <1>3, PendingType
<1>10. ASSUME NEW l \in Open'
       PROVE  /\ \A e \in rtoEvents' : e.seq = l => m_timers'[l] = e.id
              /\ \E e \in rtoEvents' : e.seq = l
    <2>1. l \in Seqs
        BY DEF Open
    <2>2. CASE l = h
        <3>1. \A e \in OlderTimers : e.seq # h
            \* no older timer is that of a packet sent only now
            <4>1. \A f \in rtoEvents : f.seq \in Nat
                BY <1>1 DEF TypeOK, Seqs
            <4> QED
                BY <1>4, <1>6, <2>2, <4>1
        <3>2. m_timers'[h] = m_sent
            BY <1>1, <1>3, <1>4
        <3>3. \E e \in started : e.seq = h
            BY <1>5, <1>6
        <3> QED
            BY <1>3, <1>6, <2>2, <3>1, <3>2, <3>3
    <2>3. CASE l # h
        <3>1. l \in Open
            BY <1>4, <2>3
        <3>2. m_timers'[l] = m_timers[l]
            BY <1>1, <1>3, <2>1, <2>3
        <3>3. /\ \A f \in rtoEvents : f.seq = l => m_timers[l] = f.id
              /\ \E f \in rtoEvents : f.seq = l
            BY <1>2, <1>9, <3>1 DEF OpenTimed
        <3> QED
            BY <1>3, <1>6, <2>3, <3>2, <3>3
    <2> QED
        BY <2>2, <2>3
<1>11. OpenTimed'
    BY <1>8, <1>9, <1>10 DEF OpenTimed
<1>12. OpenInOrder'
    <2> SUFFICES ASSUME NEW e \in rtoEvents', NEW g \in rtoEvents',
                        e.seq \in Open', g.seq \in Open', e.seq < g.seq
                 PROVE  e.due < g.due
        BY DEF OpenInOrder
    <2>1. CASE e \in OlderTimers /\ g \in OlderTimers
        <3>1. PICK d \in rtoEvents, f \in rtoEvents :
                 /\ d.seq = e.seq /\ d.due = e.due + 1 /\ e.due \in Nat
                 /\ f.seq = g.seq /\ f.due = g.due + 1 /\ g.due \in Nat
            BY <1>6, <2>1
        <3>2. d.seq \in Nat /\ f.seq \in Nat
            BY <1>1 DEF TypeOK, Seqs
        <3>3. e.seq # h /\ g.seq # h
            BY <1>4, <3>1, <3>2
        <3>4. d.due < f.due
            BY <1>2, <1>4, <3>1, <3>3 DEF OpenInOrder
        <3> QED
            BY <3>1, <3>4
    <2>2. CASE e \in OlderTimers /\ g \in started
        BY <1>6, <2>2
    <2>3. CASE e \in started
        <3>1. g \in OlderTimers
            BY <1>3, <1>4, <1>6, <2>3 DEF Seqs
        <3>2. PICK f \in rtoEvents : f.seq = g.seq
            BY <1>6, <3>1
        <3>3. f.seq \in Nat /\ f.seq < h /\ h < f.seq /\ h \in Nat
            BY <1>1, <1>4, <1>6, <2>3, <3>2 DEF TypeOK, Seqs
        <3> QED
            BY <3>3
    <2> QED
        BY <1>3, <2>1, <2>2, <2>3
<1>13. OpenIsNewer'
    BY <1>2, <1>3, <1>4 DEF OpenIsNewer
<1>14. SlotsSuffice'
    <2> SUFFICES ASSUME NEW e \in rtoEvents'
                 PROVE  Pending' <= Cardinality(FreeBefore(e.due)')
        BY DEF SlotsSuffice
    <2>1. e.due \in Nat
        BY DEF WindowInv, TypeInvariant, TypeOK
    <2>2. FreeBefore(e.due)' \in SUBSET (0 .. e.due - 1)
        BY DEF FreeBefore
    <2>3. Cardinality(FreeBefore(e.due)') \in Nat
        BY <2>1, <2>2, FreeFinite
    <2> QED
        BY <1>8, <1>9, <2>3
<1>15. LastIsAlone'
    BY <1>8, <1>9 DEF LastIsAlone
<1> QED
    BY <1>6, <1>7, <1>8, <1>11, <1>12, <1>13, <1>14, <1>15 DEF OnSchedule

LEMMA RetransKeepsSchedule ==
    ASSUME WindowInv, WindowInv', WaitInv, WaitInv',
           RangesAreUnits, OnSchedule, SendRetransmission \/ SendSkips
    PROVE  RangesAreUnits' /\ OnSchedule'
<1> DEFINE h == RetransHeader
           timer == [id |-> m_sent, seq |-> h, due |-> RtoTicks - 1]
           started == IF h \in m_retransmitPackets THEN {} ELSE {timer}
<1>1. /\ TypeOK /\ DueInTime /\ NothingBehind /\ NothingBehind'
      /\ RangeTypes /\ RangeTypes' /\ m_seqNum \in Nat /\ m_ackNum \in Nat
      /\ m_timers \in [Seqs -> Nat \cup {NoEvent}]
    BY DEF WindowInv, TypeInvariant, TypeOK, WaitInv, RangeTypes
<1>2. /\ CurrentIsNumber /\ PairsAreNext /\ Identities /\ EchoesPassed
      /\ DuesDiffer /\ OpenTimed /\ OpenInOrder /\ OpenIsNewer
      /\ SlotsSuffice /\ LastIsAlone
    BY DEF OnSchedule
<1>3. /\ SendIsDue /\ m_retransmit /\ AdvanceRange
      /\ rtoEvents' = OlderTimers \cup started
      /\ \/ started # {} /\ m_sent' = m_sent + 1
              /\ m_timers' = [m_timers EXCEPT ![h] = m_sent]
         \/ started = {} /\ UNCHANGED <<m_sent, m_timers>>
      /\ m_ackNum' = m_ackNum /\ m_receivedPackets' = m_receivedPackets
      /\ m_seqNum' = m_seqNum
      /\ m_retransmitPackets' = m_retransmitPackets \cup {h}
    <2>1. CASE SendRetransmission
        BY <2>1 DEF SendRetransmission, NotRetransmitted, Transmit, windowVars
    <2>2. CASE SendSkips
        BY <2>2 DEF SendSkips, NotRetransmitted, windowVars
    <2> QED
        BY <2>1, <2>2
<1>4. h \in Seqs /\ h \in 0 .. m_seqNum - 1
    BY <1>3, Headers DEF Sent
<1>5. h = m_retransSeq /\ h \in Queued
    <2>1. m_retransSeq \in 0 .. SeqMod - 1
        BY <1>2, <1>3 DEF CurrentIsNumber, Seqs
    <2> QED
        BY <1>3, <2>1, ModSmall DEF RetransHeader, U16, Queued
<1>6. started \in SUBSET {timer}
    OBVIOUS
<1>7. /\ DuesDiffer'
      /\ \A e \in OlderTimers :
             \E f \in rtoEvents :
                 /\ f.id = e.id /\ f.seq = e.seq /\ f.due = e.due + 1
                 /\ e.due \in Nat /\ e.due < RtoTicks - 1
      /\ \A f \in rtoEvents : \E e \in OlderTimers : e.id = f.id /\ e.seq = f.seq
      /\ \A e \in started : e.id = m_sent /\ e.seq = h /\ e.due = RtoTicks - 1
    <2> HIDE DEF started
    <2> QED
        BY <1>1, <1>2, <1>3, <1>4, <1>6, AgedTimers
<1>8. Identities'
    <2> HIDE DEF started
    <2> QED
        BY <1>1, <1>2, <1>3, <1>4, <1>6, AgedIdentities
<1>9. /\ Pending' = Pending - 1
      /\ RangesAreUnits' /\ CurrentIsNumber' /\ PairsAreNext'
    BY <1>1, <1>2, <1>3, AdvanceWorksOff
<1>10. \A s : /\ s \in Queued' => s \in Queued
              /\ s \in Queued /\ s # h => s \in Queued'
    BY <1>1, <1>2, <1>3, <1>5, NextIsStop, AdvanceTakesOne
<1>11. Open' = Open \ {h}
    BY <1>3 DEF Open
<1>12. EchoesPassed'
    BY <1>2, <1>3 DEF EchoesPassed
<1> HIDE DEF h
<1>13. ASSUME Last \in Queued PROVE Pending' = 0 /\ Queued' = {}
    <2>1. Pending' = 0
        BY <1>2, <1>9, <1>13 DEF LastIsAlone
    <2>2. Pending' = 0 => Queued' = {}
        <3>1. /\ Len(m_retransmissions') \in Nat
              /\ Len(m_retransmissions') = 0 => m_retransmissions' = <<>>
            BY <1>1 DEF RangeTypes
        <3> QED
            BY <1>1, <3>1 DEF Pending, Queued, NothingBehind
    <2> QED
        BY <2>1, <2>2
<1>14. SlotsSuffice'
    <2>1. h \in Open' \cup {Last} => Pending' = 0
        BY <1>5, <1>11, <1>13
    <2>2. Open' \subseteq Open
        BY <1>11
    <2> HIDE DEF started
    <2> QED
        BY <1>1, <1>2, <1>3, <1>4, <1>6, <1>9, <2>1, <2>2, AgedSlots
<1> HIDE DEF started, timer
<1>15. OpenTimed'
    <2> SUFFICES ASSUME NEW l \in Open'
                 PROVE  /\ \A e \in rtoEvents' : e.seq = l => m_timers'[l] = e.id
                        /\ l \in Queued' =>
                               /\ \A e \in rtoEvents' : e.seq # l
                               /\ \A k \in Open' : l <= k
                        /\ l \notin Queued' => \E e \in rtoEvents' : e.seq = l
        BY DEF OpenTimed
    <2>1. l \in Open /\ l # h /\ l \in Seqs
        BY <1>11 DEF Open
    <2>2. m_timers'[l] = m_timers[l]
        BY <1>1, <1>3, <2>1
    <2>3. l \in Queued' <=> l \in Queued
        BY <1>10, <2>1
    <2>4. /\ \A e \in rtoEvents : e.seq = l => m_timers[l] = e.id
          /\ l \in Queued => /\ \A e \in rtoEvents : e.seq # l
                             /\ \A k \in Open : l <= k
          /\ l \notin Queued => \E e \in rtoEvents : e.seq = l
        BY <1>2, <2>1 DEF OpenTimed
    <2> QED
        BY <1>3, <1>7, <1>11, <2>1, <2>2, <2>3, <2>4
<1>16. OpenInOrder'
    <2> SUFFICES ASSUME NEW e \in rtoEvents', NEW g \in rtoEvents',
                        e.seq \in Open', g.seq \in Open', e.seq < g.seq
                 PROVE  e.due < g.due
        BY DEF OpenInOrder
    <2>1. e \in OlderTimers /\ g \in OlderTimers
        BY <1>3, <1>7, <1>11
    <2>2. PICK d \in rtoEvents, f \in rtoEvents :
             /\ d.seq = e.seq /\ d.due = e.due + 1 /\ e.due \in Nat
             /\ f.seq = g.seq /\ f.due = g.due + 1 /\ g.due \in Nat
        BY <1>7, <2>1
    <2>3. d.due < f.due
        BY <1>2, <1>11, <2>2 DEF OpenInOrder
    <2> QED
        BY <2>2, <2>3
<1>17. OpenIsNewer'
    <2> SUFFICES ASSUME NEW l \in Open' PROVE h < l
        BY <1>2, <1>3, <1>11 DEF OpenIsNewer
    <2>1. l \in Open /\ l # h /\ l \in Nat /\ h \in Nat /\ m_ackNum <= l
        BY <1>4, <1>11 DEF Open, Seqs
    <2>2. CASE h \in Open
        BY <1>2, <1>5, <2>1, <2>2 DEF OpenTimed
    <2>3. CASE h \in m_retransmitPackets
        BY <1>2, <2>1, <2>3 DEF OpenIsNewer
    <2>4. CASE h \notin Open /\ h \notin m_retransmitPackets
        BY <1>1, <1>4, <2>1, <2>4 DEF Open
    <2> QED
        BY <2>2, <2>3, <2>4
<1>18. LastIsAlone'
    BY <1>10, <1>13 DEF LastIsAlone
<1> QED
    BY <1>7, <1>8, <1>9, <1>12, <1>14, <1>15, <1>16, <1>17, <1>18 DEF OnSchedule

LEMMA WaitKeepsSchedule ==
    ASSUME WindowInv, WindowInv', WaitInv, WaitInv',
           RangesAreUnits, OnSchedule, SendWaits
    PROVE  RangesAreUnits' /\ OnSchedule'
<1>1. /\ TypeOK /\ DueInTime /\ NothingBehind /\ RangeTypes
      /\ 0 \in Seqs
    <2>1. 0 \in Seqs
        BY DEF Seqs
    <2> QED
        BY <2>1 DEF WindowInv, TypeInvariant, TypeOK, WaitInv, RangeTypes
<1>2. /\ CurrentIsNumber /\ PairsAreNext /\ Identities /\ EchoesPassed
      /\ DuesDiffer /\ OpenTimed /\ OpenInOrder /\ OpenIsNewer
    BY DEF OnSchedule
<1>3. /\ SendIsDue /\ ~m_retransmit
      /\ rtoEvents' = OlderTimers
      /\ UNCHANGED <<m_sent, m_timers, m_seqNum, m_ackNum, m_receivedPackets,
                     m_retransmitPackets, m_retransmit, m_retransSeq,
                     m_retransStop, m_retransmissions>>
    BY DEF SendWaits, windowVars, rangeVars
<1>4. rtoEvents' = OlderTimers \cup {}
    BY <1>3
<1>5. /\ DuesDiffer'
      /\ \A e \in OlderTimers :
             \E f \in rtoEvents :
                 /\ f.id = e.id /\ f.seq = e.seq /\ f.due = e.due + 1
                 /\ e.due \in Nat
      /\ \A f \in rtoEvents : \E e \in OlderTimers : e.id = f.id /\ e.seq = f.seq
    BY <1>1, <1>2, <1>3, <1>4, AgedTimers
<1>6. Identities'
    BY <1>1, <1>2, <1>3, <1>4, AgedIdentities
<1>7. /\ RangesAreUnits' /\ CurrentIsNumber' /\ PairsAreNext' /\ EchoesPassed'
      /\ Queued' = Queued /\ Pending' = Pending /\ Open' = Open
    BY <1>2, <1>3 DEF RangesAreUnits, CurrentIsNumber, PairsAreNext,
       EchoesPassed, Queued, Pending, Open
<1>8. Pending = 0 /\ Queued = {}
    BY <1>1, <1>3, PendingType
<1>9. OpenTimed'
    <2> SUFFICES ASSUME NEW l \in Open
                 PROVE  /\ \A e \in rtoEvents' : e.seq = l => m_timers'[l] = e.id
                        /\ \E e \in rtoEvents' : e.seq = l
        BY <1>7, <1>8 DEF OpenTimed
    <2>1. /\ \A f \in rtoEvents : f.seq = l => m_timers[l] = f.id
          /\ \E f \in rtoEvents : f.seq = l
        BY <1>2, <1>8 DEF OpenTimed
    <2> QED
        BY <1>3, <1>5, <2>1
<1>10. OpenInOrder'
    <2> SUFFICES ASSUME NEW e \in rtoEvents', NEW g \in rtoEvents',
                        e.seq \in Open, g.seq \in Open, e.seq < g.seq
                 PROVE  e.due < g.due
        BY <1>7 DEF OpenInOrder
    <2>1. PICK d \in rtoEvents, f \in rtoEvents :
             /\ d.seq = e.seq /\ d.due = e.due + 1 /\ e.due \in Nat
             /\ f.seq = g.seq /\ f.due = g.due + 1 /\ g.due \in Nat
        BY <1>3, <1>5
    <2>2. d.due < f.due
        BY <1>2, <2>1 DEF OpenInOrder
    <2> QED
        BY <2>1, <2>2
<1>11. OpenIsNewer'
    BY <1>2, <1>3, <1>7 DEF OpenIsNewer
<1>12. SlotsSuffice'
    <2> SUFFICES ASSUME NEW e \in rtoEvents'
                 PROVE  Pending' <= Cardinality(FreeBefore(e.due)')
        BY DEF SlotsSuffice
    <2>1. e.due \in Nat
        BY DEF WindowInv, TypeInvariant, TypeOK
    <2>2. FreeBefore(e.due)' \in SUBSET (0 .. e.due - 1)
        BY DEF FreeBefore
    <2>3. Cardinality(FreeBefore(e.due)') \in Nat
        BY <2>1, <2>2, FreeFinite
    <2> QED
        BY <1>7, <1>8, <2>3
<1>13. LastIsAlone'
    BY <1>7, <1>8 DEF LastIsAlone
<1> QED
    BY <1>5, <1>6, <1>7, <1>9, <1>10, <1>11, <1>12, <1>13 DEF OnSchedule

----------------------------------------------------------------------------
(* HandleRead and HandleTimeout keep the schedule.                         *)

\* The packets a gap is found behind are the open ones before it.
LEMMA LostWereOpen ==
    ASSUME WindowInv, EchoesPassed, NEW seq \in Seqs, seq \in Sent
    PROVE  LostBefore(seq) = {l \in Open : l < seq}
<1>1. m_ackNum \in Nat /\ m_seqNum \in Nat
    BY DEF WindowInv, TypeInvariant, TypeOK
<1>2. ASSUME NEW l \in LostBefore(seq) PROVE l \in Open /\ l < seq
    BY <1>1 DEF LostBefore, Open, Seqs, Sent
<1>3. ASSUME NEW l \in Open, l < seq PROVE l \in LostBefore(seq)
    BY <1>1, <1>3 DEF LostBefore, Open, Seqs, EchoesPassed
<1> QED
    BY <1>2, <1>3

\* The timers HandleRead cancels at a gap make room for what it queues, before
\* the timer of any packet that stays open.
LEMMA GapMakesRoom ==
    ASSUME WindowInv, OnSchedule, NEW seq \in Open, NEW lost,
           lost = {l \in Open : l < seq}, IsFiniteSet(lost),
           CancelTimers(lost \cup {seq}),
           NEW e \in rtoEvents', e.seq \in Open, seq < e.seq
    PROVE  Cardinality(FreeBefore(e.due)) + Cardinality(lost)
               <= Cardinality(FreeBefore(e.due)')
<1>1. /\ rtoEvents \in SUBSET [id : Nat, seq : Seqs, due : Nat]
      /\ OpenTimed /\ OpenInOrder /\ DuesDiffer
      /\ Open \subseteq Nat /\ lost \subseteq Open
    BY DEF WindowInv, TypeInvariant, TypeOK, OnSchedule, Open, Seqs
<1>2. rtoEvents' = {f \in rtoEvents : \A s \in lost \cup {seq} : m_timers[s] # f.id}
    BY DEF CancelTimers
<1>3. e \in rtoEvents /\ e.due \in Nat
    BY <1>1, <1>2
<1> DEFINE A == FreeBefore(e.due)
           B == FreeBefore(e.due)'
\* One of these packets may wait in the queue already; the others have timers.
<1>4. PICK k : \A u \in lost \cup {seq} : u # k => u \notin Queued
    <2>1. CASE \E k \in lost \cup {seq} : k \in Queued
        <3>1. PICK k \in lost \cup {seq} : k \in Queued
            BY <2>1
        <3>2. ASSUME NEW u \in lost \cup {seq}, u \in Queued PROVE u = k
            <4>1. u \in Open /\ k \in Open /\ u \in Nat /\ k \in Nat
                BY <1>1
            <4>2. u <= k /\ k <= u
                BY <1>1, <3>1, <3>2, <4>1 DEF OpenTimed
            <4> QED
                BY <4>1, <4>2
        <3> QED
            BY <3>2
    <2> QED
        BY <2>1
<1> DEFINE U == (lost \cup {seq}) \ {k}
<1>5. \A u \in U : u \in Open /\ u \notin Queued /\ u <= seq
    BY <1>1, <1>4
<1>6. \A u \in U : \E t \in rtoEvents : t.seq = u /\ m_timers[u] = t.id
    BY <1>1, <1>5 DEF OpenTimed
<1> DEFINE timer(u) == CHOOSE t \in rtoEvents : t.seq = u /\ m_timers[u] = t.id
           f == [u \in U |-> timer(u).due]
<1>7. \A u \in U : /\ timer(u) \in rtoEvents
                   /\ timer(u).seq = u /\ m_timers[u] = timer(u).id
    BY <1>6
<1> HIDE DEF timer
<1>8. \A u \in U : timer(u) \notin rtoEvents'
    BY <1>2, <1>7
<1>9. \A u \in U : timer(u).due < e.due
    <2> SUFFICES ASSUME NEW u \in U PROVE timer(u).due < e.due
        OBVIOUS
    <2>1. u \in Open /\ u < e.seq
        <3>1. u \in Nat /\ seq \in Nat /\ e.seq \in Nat /\ u \in Open /\ u <= seq
            BY <1>1, <1>5
        <3> QED
            BY <3>1
    <2> QED
        BY <1>1, <1>3, <1>7, <2>1 DEF OpenInOrder
<1>10. \A u \in U : f[u] \in B \ A
    <2> SUFFICES ASSUME NEW u \in U PROVE timer(u).due \in B \ A
        OBVIOUS
    <2>1. timer(u) \in rtoEvents /\ timer(u).due \in Nat /\ timer(u).due < e.due
        BY <1>1, <1>7, <1>9
    <2>2. \A x \in rtoEvents' : x.due # timer(u).due
        BY <1>1, <1>2, <1>8, <2>1 DEF DuesDiffer
    <2>3. timer(u).due \in B
        BY <1>3, <2>1, <2>2 DEF FreeBefore
    <2>4. timer(u).due \notin A
        BY <2>1 DEF FreeBefore
    <2> QED
        BY <2>3, <2>4
<1>11. \A u, v \in U : f[u] = f[v] => u = v
    BY <1>1, <1>7 DEF DuesDiffer
<1>12. /\ A \in SUBSET B
       /\ B \in SUBSET (0 .. e.due - 1)
    BY <1>2 DEF FreeBefore
<1>13. IsFiniteSet(B) /\ Cardinality(B) \in Nat /\ Cardinality(A) \in Nat
    <2>1. A \in SUBSET (0 .. e.due - 1)
        BY <1>12
    <2> HIDE DEF A, B
    <2> QED
        BY <1>3, <1>12, <2>1, FreeFinite
<1>14. f \in [U -> B \ A]
    BY <1>10
<1> HIDE DEF A, B, f
<1>15. IsFiniteSet(U) /\ Cardinality(A) + Cardinality(U) <= Cardinality(B)
    BY <1>11, <1>12, <1>13, <1>14, RoomFor
<1>16. Cardinality(lost \cup {seq}) = Cardinality(lost) + 1
    <2>1. seq \notin lost
        BY <1>1
    <2> QED
        BY <2>1, FS_AddElement
<1> HIDE DEF U
<1>17. /\ IsFiniteSet(U \cup {k})
       /\ Cardinality(U \cup {k}) <= Cardinality(U) + 1
    BY <1>15, AtMostOneMore
<1>18. Cardinality(lost \cup {seq}) <= Cardinality(U \cup {k})
    <2>1. lost \cup {seq} \in SUBSET (U \cup {k})
        BY DEF U
    <2> QED
        BY <1>17, <2>1, FS_Subset
<1>19. /\ Cardinality(lost) \in Nat /\ Cardinality(U) \in Nat
       /\ Cardinality(U \cup {k}) \in Nat
    BY <1>15, <1>17, FS_CardinalityType
<1> QED
    BY <1>13, <1>15, <1>16, <1>17, <1>18, <1>19 DEF A, B

LEMMA HandleReadKeepsSchedule ==
    ASSUME WindowInv, WindowInv', RangesAreUnits, OnSchedule,
           NEW seq \in Seqs, seq \in Sent, HandleRead(seq)
    PROVE  RangesAreUnits' /\ OnSchedule'
<1> DEFINE lost == LostBefore(seq)
<1>1. /\ TypeOK /\ RangeTypes /\ RangeTypes'
      /\ m_seqNum \in Nat /\ m_ackNum \in Nat
      /\ m_timers \in [Seqs -> Nat \cup {NoEvent}]
      /\ Open \subseteq Seqs
    BY DEF WindowInv, TypeInvariant, TypeOK, RangeTypes, Open
<1>2. /\ CurrentIsNumber /\ PairsAreNext /\ Identities /\ EchoesPassed
      /\ DuesDiffer /\ OpenTimed /\ OpenInOrder /\ OpenIsNewer
      /\ SlotsSuffice /\ LastIsAlone
    BY DEF OnSchedule
<1>3. /\ m_receivedPackets' = m_receivedPackets \cup {seq}
      /\ CancelTimers(lost \cup {seq})
      /\ Enqueue(Ascending(lost))
      /\ \/ seq >= m_ackNum /\ m_ackNum' = seq + 1
         \/ seq < m_ackNum /\ m_ackNum' = m_ackNum
      /\ UNCHANGED <<m_sent, m_seqNum, m_retransmitPackets>>
    BY DEF HandleRead, ExpectAfter
<1>4. lost = {l \in Open : l < seq}
    BY <1>2, LostWereOpen
<1>5. /\ Ascending(lost) \in Seq(Seqs)
      /\ IsFiniteSet(lost) /\ Cardinality(lost) \in Nat
      /\ Len(Ascending(lost)) = Cardinality(lost)
      /\ \A s : Lists(Ascending(lost), s) <=> s \in lost
    <2>1. Ascending(lost) \in Seq(Seqs) /\ IsFiniteSet(lost)
        BY LostWereSent, LostIsFinite
    <2>2. lost \in SUBSET Nat
        BY LostWereSent DEF Seqs
    <2> HIDE DEF lost
    <2> QED
        BY <2>1, <2>2, AscendingLists, AscendingListsAll, FS_CardinalityType
<1> HIDE DEF lost
<1>6. /\ rtoEvents' = {e \in rtoEvents :
                           \A s \in lost \cup {seq} : m_timers[s] # e.id}
      /\ \A s \in Seqs :
             m_timers'[s] = IF s \in lost \cup {seq} THEN NoEvent ELSE m_timers[s]
    BY <1>3 DEF CancelTimers
<1>7. Identities' /\ DuesDiffer'
    BY <1>1, <1>2, <1>3, <1>6, FewerTimers
<1>8. RangesAreUnits' /\ CurrentIsNumber' /\ PairsAreNext'
    BY <1>1, <1>2, <1>3, <1>5, EnqueueKeepsUnits, EnqueueKeepsPairs
<1>9. \A s : s \in Queued' <=> s \in Queued \/ s \in lost
    BY <1>1, <1>3, <1>5, EnqueueAdds
<1>10. Pending' = Pending + Cardinality(lost) /\ Pending \in Int
    <2>1. Pending' = Pending + Cardinality(lost)
        BY <1>1, <1>3, <1>5, EnqueuePending
    <2>2. Pending \in Int
        BY <1>1 DEF Pending, RangeTypes
    <2> QED
        BY <2>1, <2>2
<1>11. Open' = {l \in Open : seq < l}
    BY <1>1, <1>3 DEF Open, Seqs
<1>12. EchoesPassed'
    <2>1. m_receivedPackets \subseteq Nat /\ seq \in Nat
        BY <1>1 DEF TypeOK, Seqs
    <2> SUFFICES ASSUME NEW s \in m_receivedPackets'
                 PROVE  s < m_ackNum' \/ s \in m_retransmitPackets'
        BY DEF EchoesPassed
    <2>2. CASE s \in m_receivedPackets
        <3>1. s < m_ackNum \/ s \in m_retransmitPackets
            BY <1>2, <2>2 DEF EchoesPassed
        <3> QED
            BY <1>1, <1>3, <2>1, <2>2, <3>1
    <2>3. CASE s = seq
        BY <1>1, <1>3, <2>1, <2>3
    <2> QED
        BY <1>3, <2>2, <2>3
<1>13. OpenTimed'
    <2> SUFFICES ASSUME NEW l \in Open'
                 PROVE  /\ \A e \in rtoEvents' : e.seq = l => m_timers'[l] = e.id
                        /\ l \in Queued' =>
                               /\ \A e \in rtoEvents' : e.seq # l
                               /\ \A k \in Open' : l <= k
                        /\ l \notin Queued' => \E e \in rtoEvents' : e.seq = l
        BY DEF OpenTimed
    <2>1. l \in Open /\ l \notin lost /\ l # seq /\ l \in Seqs
        <3>1. \A x, y \in Seqs : x < y => ~(y < x) /\ x # y
            BY DEF Seqs
        <3> QED
            BY <1>1, <1>4, <1>11, <3>1
    <2>2. m_timers'[l] = m_timers[l]
        BY <1>6, <2>1
    <2>3. l \in Queued' <=> l \in Queued
        BY <1>9, <2>1
    <2>4. /\ \A e \in rtoEvents : e.seq = l => m_timers[l] = e.id
          /\ l \in Queued => /\ \A e \in rtoEvents : e.seq # l
                             /\ \A k \in Open : l <= k
          /\ l \notin Queued => \E e \in rtoEvents : e.seq = l
        BY <1>2, <2>1 DEF OpenTimed
    <2>5. \A e \in rtoEvents : e.seq = l => e \in rtoEvents'
        <3>1. \A e \in rtoEvents, s \in lost \cup {seq} :
                 m_timers[s] = e.id => e.seq = s
            BY <1>1, <1>2, <1>4 DEF Identities
        <3> QED
            BY <1>6, <2>1, <3>1
    <2> QED
        BY <1>6, <1>11, <2>2, <2>3, <2>4, <2>5
<1>14. OpenInOrder' /\ OpenIsNewer'
    BY <1>2, <1>3, <1>6, <1>11 DEF OpenInOrder, OpenIsNewer
<1>15. ASSUME lost # {} PROVE seq \in Open
    <2>1. PICK l \in lost : l \in Open /\ l < seq
        BY <1>4, <1>15
    <2>2. seq \notin m_retransmitPackets
        BY <1>1, <1>2, <2>1 DEF OpenIsNewer, Seqs
    <2>3. m_ackNum <= seq /\ seq < m_seqNum
        BY <1>1, <2>1 DEF Open, Seqs, Sent
    <2> QED
        BY <2>2, <2>3 DEF Open
<1>16. ASSUME lost # {}, NEW e \in rtoEvents', e.seq \in Open' \cup {Last}
       PROVE  e.seq \in Open /\ seq < e.seq
    <2>1. CASE e.seq \in Open'
        BY <1>11, <2>1
    <2>2. CASE e.seq = Last
        <3>1. PICK l \in lost : l \in Open /\ l < seq
            BY <1>4, <1>16
        <3>2. e \in rtoEvents /\ e.seq \in Seqs /\ e.seq < m_seqNum
            BY <1>1, <1>6 DEF TypeOK, WindowInv, SentOnly, Sent
        <3>3. e.seq \notin m_retransmitPackets
            BY <1>1, <1>2, <2>2, <3>1 DEF OpenIsNewer, Last, Seqs
        <3>4. m_ackNum <= e.seq
            BY <1>1, <2>2, <3>1 DEF Open, Last, Seqs
        <3>5. e.seq \in Open
            BY <3>2, <3>3, <3>4 DEF Open
        <3>6. e.seq # seq
            \* the timer of seq is cancelled
            BY <1>2, <1>6, <3>2, <3>5 DEF OpenTimed
        <3>7. seq < e.seq
            BY <2>2, <3>2, <3>6 DEF Last, Seqs
        <3> QED
            BY <3>5, <3>7
    <2> QED
        BY <1>16, <2>1, <2>2
<1>17. SlotsSuffice'
    <2> SUFFICES ASSUME NEW e \in rtoEvents', e.seq \in Open' \cup {Last}
                 PROVE  Pending' <= Cardinality(FreeBefore(e.due)')
        BY DEF SlotsSuffice, Last
    <2>1. e \in rtoEvents /\ e.due \in Nat /\ e.seq \in Open \cup {Last}
        BY <1>1, <1>6, <1>11 DEF TypeOK
    <2>2. Pending <= Cardinality(FreeBefore(e.due))
        BY <1>2, <2>1 DEF SlotsSuffice
    <2>3. /\ Cardinality(FreeBefore(e.due)) \in Nat
          /\ Cardinality(FreeBefore(e.due)') \in Nat
        <3>1. /\ FreeBefore(e.due) \in SUBSET (0 .. e.due - 1)
              /\ FreeBefore(e.due)' \in SUBSET (0 .. e.due - 1)
            BY DEF FreeBefore
        <3> QED
            BY <2>1, <3>1, FreeFinite
    <2>4. CASE lost = {}
        <3>1. Cardinality(lost) = 0
            BY <2>4, FS_EmptySet
        <3>2. Cardinality(FreeBefore(e.due)) <= Cardinality(FreeBefore(e.due)')
            BY <1>6, <2>1, FreeGrows
        <3> QED
            BY <1>10, <2>2, <2>3, <3>1, <3>2
    <2>5. CASE lost # {}
        <3>1. seq \in Open /\ e.seq \in Open /\ seq < e.seq
            BY <1>15, <1>16, <2>5
        <3>2. Cardinality(FreeBefore(e.due)) + Cardinality(lost)
                  <= Cardinality(FreeBefore(e.due)')
            BY <1>3, <1>4, <1>5, <3>1, GapMakesRoom
        <3> QED
            BY <1>5, <1>10, <2>2, <2>3, <3>2
    <2> QED
        BY <2>4, <2>5
<1>18. LastIsAlone'
    <2> SUFFICES ASSUME Last \in Queued'
                 PROVE  /\ Pending' = 1
                        /\ \A e \in rtoEvents' : e.due > 0
                        /\ Open' \subseteq {Last}
        BY DEF LastIsAlone, Last
    <2>1. \A l \in lost : l \in Open /\ l # Last
        BY <1>1, <1>4 DEF Last, Seqs
    <2>2. Last \in Queued
        BY <1>9, <2>1
    <2>3. /\ Pending = 1 /\ \A e \in rtoEvents : e.due > 0
          /\ Open \subseteq {Last}
        BY <1>2, <2>2 DEF LastIsAlone
    <2>4. lost = {}
        BY <2>1, <2>3
    <2>5. Cardinality(lost) = 0
        BY <2>4, FS_EmptySet
    <2> QED
        BY <1>6, <1>10, <1>11, <2>3, <2>5
<1> QED
    BY <1>7, <1>8, <1>12, <1>13, <1>14, <1>17, <1>18 DEF OnSchedule

LEMMA TimeoutKeepsSchedule ==
    ASSUME WindowInv, WindowInv', WaitInv, EventInv, Going,
           RangesAreUnits, OnSchedule, NEW e \in rtoEvents,
           TimeoutOfFirst(e) \/ TimeoutOfRetransmission(e)
    PROVE  RangesAreUnits' /\ OnSchedule'
<1>1. /\ TypeOK /\ NothingBehind /\ RangeTypes /\ RangeTypes'
      /\ m_seqNum \in Nat /\ m_ackNum \in Nat
      /\ m_timers \in [Seqs -> Nat \cup {NoEvent}]
      /\ e.seq \in Seqs /\ e.seq < m_seqNum
      /\ Open \subseteq Seqs
    <2>1. /\ TypeOK /\ NothingBehind /\ RangeTypes /\ RangeTypes'
          /\ m_seqNum \in Nat /\ m_ackNum \in Nat
          /\ m_timers \in [Seqs -> Nat \cup {NoEvent}]
        BY DEF WindowInv, TypeInvariant, TypeOK, WaitInv, RangeTypes
    <2>2. e.seq \in Seqs /\ e.seq \in Sent
        BY <2>1 DEF TypeOK, WindowInv, SentOnly
    <2>3. e.seq < m_seqNum
        BY <2>1, <2>2 DEF Sent
    <2> QED
        BY <2>1, <2>2, <2>3 DEF Open
<1>2. /\ CurrentIsNumber /\ PairsAreNext /\ Identities /\ EchoesPassed
      /\ DuesDiffer /\ OpenTimed /\ OpenInOrder /\ OpenIsNewer
      /\ SlotsSuffice /\ LastIsAlone
    BY DEF OnSchedule
<1>3. /\ Expired(e)
      /\ Enqueue(<<e.seq>>)
      /\ m_timers' = [m_timers EXCEPT ![e.seq] = NoEvent]
      /\ rtoEvents' = rtoEvents \ {e}
      /\ UNCHANGED <<m_sent, m_seqNum, m_ackNum, m_retransmitPackets>>
    BY DEF TimeoutOfFirst, TimeoutOfRetransmission, windowVars
<1>4. /\ m_receivedPackets \subseteq m_receivedPackets'
      /\ m_receivedPackets' \subseteq m_receivedPackets \cup m_retransmitPackets
    BY DEF TimeoutOfFirst, TimeoutOfRetransmission, WithGivenUp, windowVars
<1>5. e.due = 0
    <2>1. phase # "created"
        <3>1. e.id \in Nat /\ e.id < m_sent
            BY <1>1, <1>2 DEF TypeOK, Identities, EventsDiffer
        <3>2. phase = "created" => m_sent = 0
            BY DEF EventInv
        <3> QED
            BY <3>1, <3>2
    <2> QED
        BY <1>3, <2>1 DEF Going, Expired
<1>6. \A x \in rtoEvents' : x \in rtoEvents /\ x.due \in Nat /\ x.due > 0
    BY <1>1, <1>2, <1>3, <1>5 DEF DuesDiffer, TypeOK
<1>7. Identities' /\ DuesDiffer'
    BY <1>1, <1>2, <1>3, FewerTimers
<1>8. <<e.seq>> \in Seq(Seqs) /\ Len(<<e.seq>>) = 1
    BY <1>1
<1>9. /\ RangesAreUnits' /\ CurrentIsNumber' /\ PairsAreNext'
      /\ Pending' = Pending + 1 /\ Pending \in Nat
    BY <1>1, <1>2, <1>3, <1>8, EnqueueKeepsUnits, EnqueueKeepsPairs,
       EnqueuePending, PendingType
<1>10. \A s : s \in Queued' <=> s \in Queued \/ s = e.seq
    <2>1. \A s : Lists(<<e.seq>>, s) <=> s = e.seq
        BY <1>8 DEF Lists
    <2> QED
        BY <1>1, <1>3, <1>8, <2>1, EnqueueAdds
<1>11. Open' = Open
    BY <1>3 DEF Open
<1>12. EchoesPassed'
    BY <1>2, <1>3, <1>4 DEF EchoesPassed
<1>13. ASSUME e.seq \in Open \cup {Last} PROVE Pending = 0 /\ Queued = {}
    <2>1. Pending <= Cardinality(FreeBefore(e.due))
        BY <1>2, <1>13 DEF SlotsSuffice
    <2>2. FreeBefore(e.due) = {}
        BY <1>5 DEF FreeBefore
    <2>3. Cardinality(FreeBefore(e.due)) = 0
        BY <2>2, FS_EmptySet
    <2> QED
        BY <1>1, <1>9, <2>1, <2>3, PendingType
<1>14. ASSUME e.seq \in Open, NEW k \in Open PROVE e.seq <= k
    <2>1. k \notin Queued
        BY <1>13, <1>14
    <2>2. PICK x \in rtoEvents : x.seq = k
        BY <1>2, <2>1 DEF OpenTimed
    <2>3. x.due \in Nat /\ k \in Nat /\ e.seq \in Nat
        BY <1>1 DEF TypeOK, Seqs
    <2>4. ~(k < e.seq)
        BY <1>2, <1>5, <1>14, <2>2, <2>3 DEF OpenInOrder
    <2> QED
        BY <2>3, <2>4
<1>15. OpenTimed'
    <2> SUFFICES ASSUME NEW l \in Open
                 PROVE  /\ \A x \in rtoEvents' : x.seq = l => m_timers'[l] = x.id
                        /\ l \in Queued' =>
                               /\ \A x \in rtoEvents' : x.seq # l
                               /\ \A k \in Open : l <= k
                        /\ l \notin Queued' => \E x \in rtoEvents' : x.seq = l
        BY <1>11 DEF OpenTimed
    <2>1. /\ \A x \in rtoEvents : x.seq = l => m_timers[l] = x.id
          /\ l \in Queued => /\ \A x \in rtoEvents : x.seq # l
                             /\ \A k \in Open : l <= k
          /\ l \notin Queued => \E x \in rtoEvents : x.seq = l
        BY <1>2 DEF OpenTimed
    <2>2. CASE l # e.seq
        <3>1. m_timers'[l] = m_timers[l]
            BY <1>1, <1>3, <2>2
        <3> QED
            BY <1>3, <1>10, <2>1, <2>2, <3>1
    <2>3. CASE l = e.seq
        <3>1. \A x \in rtoEvents' : x.seq # l
            BY <1>2, <1>3, <2>1, <2>3 DEF Identities, EventsDiffer
        <3> QED
            BY <1>10, <1>14, <2>3, <3>1
    <2> QED
        BY <2>2, <2>3
<1>16. OpenInOrder' /\ OpenIsNewer'
    BY <1>2, <1>3, <1>11 DEF OpenInOrder, OpenIsNewer
<1>17. SlotsSuffice'
    <2> SUFFICES ASSUME NEW x \in rtoEvents', x.seq \in Open \cup {Last}
                 PROVE  Pending' <= Cardinality(FreeBefore(x.due)')
        BY <1>11 DEF SlotsSuffice, Last
    <2>1. x \in rtoEvents /\ x.due \in Nat /\ x.due > 0
        BY <1>6
    <2>2. Pending <= Cardinality(FreeBefore(x.due))
        BY <1>2, <2>1 DEF SlotsSuffice
    <2>3. Cardinality(FreeBefore(x.due)) + 1 <= Cardinality(FreeBefore(x.due)')
        BY <1>2, <1>3, <1>5, <2>1, FreeAfterExpiry
    <2>4. /\ Cardinality(FreeBefore(x.due)) \in Nat
          /\ Cardinality(FreeBefore(x.due)') \in Nat
        <3>1. /\ FreeBefore(x.due) \in SUBSET (0 .. x.due - 1)
              /\ FreeBefore(x.due)' \in SUBSET (0 .. x.due - 1)
            BY DEF FreeBefore
        <3> QED
            BY <2>1, <3>1, FreeFinite
    <2> QED
        BY <1>9, <2>2, <2>3, <2>4
<1>18. LastIsAlone'
    <2> SUFFICES ASSUME Last \in Queued'
                 PROVE  /\ Pending' = 1
                        /\ \A x \in rtoEvents' : x.due > 0
                        /\ Open \subseteq {Last}
        BY <1>11 DEF LastIsAlone, Last
    <2>1. e.seq = Last
        BY <1>2, <1>5, <1>10 DEF LastIsAlone
    <2>2. Pending' = 1
        BY <1>9, <1>13, <2>1
    <2>3. ASSUME NEW l \in Open PROVE l = Last
        <3>1. l \in Seqs /\ m_ackNum <= l
            BY DEF Open
        <3>2. Last \notin m_retransmitPackets
            BY <1>2, <3>1 DEF OpenIsNewer, Last, Seqs
        <3>3. Last \in Open
            BY <1>1, <2>1, <3>1, <3>2 DEF Open, Last, Seqs
        <3>4. Last <= l
            BY <1>14, <2>1, <3>3
        <3> QED
            BY <3>1, <3>4 DEF Last, Seqs
    <2> QED
        BY <1>6, <2>2, <2>3
<1> QED
    BY <1>7, <1>9, <1>12, <1>15, <1>16, <1>17, <1>18 DEF OnSchedule

----------------------------------------------------------------------------
(* Every step keeps the schedule.                                          *)

\* A step that changes neither the window nor the ranges nor the timers.
LEMMA UnchangedKeepsSchedule ==
    ASSUME RangesAreUnits, OnSchedule,
           UNCHANGED <<m_sent, m_seqNum, m_ackNum, m_receivedPackets, rangeVars,
                       m_retransmitPackets, timerVars>>
    PROVE  RangesAreUnits' /\ OnSchedule'
<1>1. /\ Open' = Open /\ Queued' = Queued /\ Pending' = Pending
      /\ \A d : FreeBefore(d)' = FreeBefore(d)
    BY DEF Open, Queued, Pending, FreeBefore, rangeVars, timerVars
<1> QED
    BY <1>1 DEF OnSchedule, RangesAreUnits, CurrentIsNumber, PairsAreNext,
       Identities, EventsDiffer, EchoesPassed, DuesDiffer, OpenTimed,
       OpenInOrder, OpenIsNewer, SlotsSuffice, LastIsAlone, rangeVars, timerVars

\* What HandleRead queues are sequence numbers.
LEMMA LostAreNumbers ==
    ASSUME WindowInv, NEW seq \in Seqs, Land(seq)
    PROVE  seq \in Sent /\ Ascending(LostBefore(seq)) \in Seq(Seqs)
<1>1. seq \in Sent
    BY LandTypes DEF WindowInv, TypeInvariant, SentOnly
<1> QED
    BY <1>1, LostWereSent

\* Once no Send is scheduled, none will be.
LEMMA GoneForGood ==
    ASSUME WindowInv, RangesAreUnits, ~Going, [Next]_vars
    PROVE  RangesAreUnits' /\ ~Going'
<1>1. phase # "created" /\ sendEvents = 0
    BY DEF Going, WindowInv, TypeInvariant, TypeOK
<1>2. CASE Start \/ Send
    BY <1>1, <1>2 DEF Start, StartApplication, Send, SendFresh,
       SendRetransmission, SendWaits, SendSkips, SendIsDue
<1>3. CASE Stop
    BY <1>1, <1>3 DEF Stop, StopApplication, Cancelled, Going, RangesAreUnits,
       rangeVars
<1>4. CASE Log
    BY <1>1, <1>4 DEF Log, PpsLog, Going, RangesAreUnits, rangeVars
<1>5. ASSUME NEW e \in rtoEvents, HandleTimeout(e)
      PROVE  RangesAreUnits' /\ ~Going'
    <2>1. CASE TimeoutSpins(e)
        BY <1>1, <2>1 DEF TimeoutSpins, Going, RangesAreUnits, rangeVars
    <2>2. CASE TimeoutOfFirst(e) \/ TimeoutOfRetransmission(e)
        <3>1. /\ phase' = phase /\ sendEvents' = sendEvents
              /\ Enqueue(<<e.seq>>)
            BY <2>2 DEF TimeoutOfFirst, TimeoutOfRetransmission
        <3>2. <<e.seq>> \in Seq(Seqs)
            BY DEF WindowInv, TypeInvariant, TypeOK
        <3> QED
            BY <1>1, <3>1, <3>2, EnqueueKeepsUnits DEF Going
    <2> QED
        BY <1>5, <2>1, <2>2 DEF HandleTimeout
<1>6. ASSUME NEW s \in Seqs, Land(s), HandleRead(s)
      PROVE  RangesAreUnits' /\ ~Going'
    <2>1. /\ phase' = phase /\ sendEvents' = sendEvents
          /\ Enqueue(Ascending(LostBefore(s)))
        BY <1>6 DEF HandleRead
    <2> QED
        BY <1>1, <1>6, <2>1, LostAreNumbers, EnqueueKeepsUnits DEF Going
<1>7. ASSUME NEW s \in Seqs, HandleReadSpins(s) \/ Lose(s)
      PROVE  RangesAreUnits' /\ ~Going'
    BY <1>1, <1>7 DEF HandleReadSpins, Lose, clientVars, Going, RangesAreUnits,
       rangeVars
<1>8. CASE UNCHANGED vars
    BY <1>1, <1>8 DEF vars, clientVars, Going, RangesAreUnits, rangeVars
<1> QED
    BY <1>2, <1>3, <1>4, <1>5, <1>6, <1>7, <1>8 DEF Next, Timeout, Receive

LEMMA StepKeepsSchedule ==
    ASSUME WindowSize <= SeqMod
    PROVE  WindowInv /\ WindowInv' /\ WaitInv /\ WaitInv' /\ EventInv
               /\ EventInv' /\ ScheduleInv /\ [Next]_vars => ScheduleInv'
<1> SUFFICES ASSUME WindowInv, WindowInv', WaitInv, WaitInv',
                    EventInv, EventInv', ScheduleInv, [Next]_vars
             PROVE  ScheduleInv'
    OBVIOUS
<1>1. RangesAreUnits
    BY DEF ScheduleInv
<1>2. CASE ~Going
    BY <1>1, <1>2, GoneForGood DEF ScheduleInv
<1> SUFFICES ASSUME Going PROVE ScheduleInv'
    BY <1>2
<1>3. OnSchedule
    BY DEF ScheduleInv
<1>4. CASE UNCHANGED <<m_sent, m_seqNum, m_ackNum, m_receivedPackets, rangeVars,
                       m_retransmitPackets, timerVars>>
    BY <1>1, <1>3, <1>4, UnchangedKeepsSchedule DEF ScheduleInv
<1>5. CASE Start \/ Log
    BY <1>4, <1>5 DEF Start, StartApplication, Log, PpsLog, windowVars
<1>6. CASE Stop
    <2>1. phase' = "stopped" /\ UNCHANGED rangeVars
        BY <1>6 DEF Stop, StopApplication
    <2>2. ~Going'
        BY <2>1 DEF Going, EventInv, OneSendChain
    <2> QED
        BY <1>1, <2>1, <2>2 DEF ScheduleInv, RangesAreUnits, rangeVars
<1>7. CASE Send
    BY <1>1, <1>3, <1>7, FreshKeepsSchedule, RetransKeepsSchedule,
       WaitKeepsSchedule DEF Send, ScheduleInv
<1>8. ASSUME NEW e \in rtoEvents, HandleTimeout(e) PROVE ScheduleInv'
    <2>1. CASE TimeoutSpins(e)
        BY <1>4, <2>1 DEF TimeoutSpins, windowVars
    <2>2. CASE TimeoutOfFirst(e) \/ TimeoutOfRetransmission(e)
        BY <1>1, <1>3, <2>2, TimeoutKeepsSchedule DEF ScheduleInv
    <2> QED
        BY <1>8, <2>1, <2>2 DEF HandleTimeout
<1>9. ASSUME NEW s \in Seqs, Receive(s) PROVE ScheduleInv'
    <2>1. CASE HandleRead(s)
        <3>1. s \in Sent
            BY <1>9, LostAreNumbers DEF Receive
        <3> QED
            BY <1>1, <1>3, <2>1, <3>1, HandleReadKeepsSchedule DEF ScheduleInv
    <2>2. CASE HandleReadSpins(s)
        BY <1>4, <2>2 DEF HandleReadSpins, windowVars
    <2> QED
        BY <1>9, <2>1, <2>2 DEF Receive
<1>10. ASSUME NEW s \in Seqs, Lose(s) PROVE ScheduleInv'
    BY <1>4, <1>10 DEF Lose, clientVars, windowVars
<1>11. CASE UNCHANGED vars
    BY <1>4, <1>11 DEF vars, clientVars, windowVars
<1> QED
    BY <1>5, <1>6, <1>7, <1>8, <1>9, <1>10, <1>11 DEF Next, Timeout

LEMMA InitScheduleInv == Init => ScheduleInv
<1> SUFFICES ASSUME Init PROVE ScheduleInv
    OBVIOUS
<1>1. /\ m_retransmit = FALSE /\ m_retransmissions = <<>> /\ rtoEvents = {}
      /\ m_receivedPackets = {} /\ m_retransmitPackets = {}
      /\ m_seqNum = 0 /\ m_ackNum = 0 /\ m_sent = 0
      /\ \A s \in Seqs : m_timers[s] = -1
    BY DEF Init, ClientInit, NoEvent
<1>2. Open = {} /\ Queued = {}
    BY <1>1 DEF Open, Seqs, Queued
<1> QED
    BY <1>1, <1>2
       DEF ScheduleInv, OnSchedule, RangesAreUnits, CurrentIsNumber,
           PairsAreNext, Identities, EventsDiffer, EchoesPassed, DuesDiffer,
           OpenTimed, OpenInOrder, OpenIsNewer, SlotsSuffice, LastIsAlone

\* While Send may still run, no two timers expire in the same interval, those
\* of the packets nobody has heard of expire in the order of the packets, and
\* what waits for retransmission is worked off before any of them does.
THEOREM ScheduleInvariant ==
    ASSUME WindowSize <= SeqMod
    PROVE  Spec => []ScheduleInv
<1>1. WindowInv /\ WindowInv' /\ WaitInv /\ WaitInv' /\ EventInv
          /\ EventInv' /\ ScheduleInv /\ [Next]_vars => ScheduleInv'
    BY StepKeepsSchedule
<1> QED
    BY <1>1, InitScheduleInv, WindowInvariant, WaitInvariant, EventInvariant, PTL
       DEF Spec

\* A range of Send ends after one packet, over any network and for ever, also
\* when the last sequence number is lost and when the numbers have begun again:
\* Send never takes the pair <<65535, 0>> from the queue, provided the window is no
\* larger than the sequence numbers are many.
THEOREM UnitRangesAlways ==
    ASSUME WindowSize <= SeqMod
    PROVE  Spec => []RangesAreUnits
<1>1. ScheduleInv => RangesAreUnits
    BY DEF ScheduleInv
<1> QED
    BY <1>1, ScheduleInvariant, PTL
===============================================================================
