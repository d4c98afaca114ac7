----------------------- MODULE UdpReliableEchoClient -----------------------
(***************************************************************************)
(* The selective-repeat sender of assignment03/udp-reliable-echo-client.   *)
(* Every handler of the ns-3 application is one operator over the client's *)
(* variables; the modules that compose the client with a network           *)
(* (ClientOverUdp, ReliableEcho) conjoin each handler with what it does to *)
(* the datagrams.                                                          *)
(*                                                                         *)
(* ns-3 runs one event at a time, so a handler is one atomic step.  The    *)
(* pending events are state: sendEvents and logEvents count the Send and   *)
(* PpsLog events in the simulator's queue, rtoEvents is the set of pending *)
(* HandleTimeout events.  Time is counted in transmission intervals: while *)
(* the chain of Send events lives there is one Send per m_interval, so a   *)
(* timer started by one Send expires just before the RtoTicks-th Send      *)
(* after it.                                                               *)
(***************************************************************************)
EXTENDS Integers, Sequences, FiniteSets

CONSTANTS
    MaxPackets,   \* m_count, attribute "MaxPackets"
    WindowSize,   \* m_windowSize
    RtoTicks,     \* m_rto in units of m_interval, rounded up
    SeqMod,       \* 2^16, the range of a uint16_t
    WordMod,      \* 2^32, the range of a uint32_t
    PpsLimit      \* bound of the model: periodic PpsLog events that run

ASSUME ConstantsAssumption ==
    /\ MaxPackets \in Nat
    /\ WindowSize \in Nat \ {0}
    /\ RtoTicks \in Nat \ {0}
    /\ SeqMod \in Nat \ {0}
    /\ WordMod \in Nat
    /\ WordMod > SeqMod + WindowSize
    /\ PpsLimit \in Nat

VARIABLES
    phase,                \* "created", then "running", then "stopped"
    spinning,             \* a handler is in a loop it never leaves
    m_sent,               \* datagrams handed to the socket
    m_seqNum,             \* next fresh sequence number
    m_windowBase,         \* lower edge of the window
    m_ackNum,             \* next sequence number expected back
    m_receivedPackets,    \* sequence numbers echoed or given up
    m_retransmit,         \* is the next Send a retransmission?
    m_retransSeq,         \* next sequence number to retransmit ...
    m_retransStop,        \* ... and the one that ends the current range
    m_retransmissions,    \* the ranges that wait behind it
    m_retransmitPackets,  \* sequence numbers already retransmitted
    m_timers,             \* the EventId kept for each sequence number
    rtoEvents,            \* HandleTimeout events in the simulator's queue
    m_packetSent, m_packetRetrans, m_packetLost, m_retransRecv,
    sendEvents,           \* Send events in the simulator's queue
    logEvents,            \* PpsLog events in the simulator's queue
    reported,             \* the static counters of PpsLog
    ppsLogs               \* periodic PpsLog events that have run

windowVars == <<m_seqNum, m_windowBase, m_ackNum, m_receivedPackets>>
rangeVars  == <<m_retransmit, m_retransSeq, m_retransStop, m_retransmissions>>
timerVars  == <<m_timers, rtoEvents>>
statVars   == <<m_packetSent, m_packetRetrans, m_packetLost, m_retransRecv>>
logVars    == <<logEvents, reported, ppsLogs>>
clientVars == <<phase, spinning, m_sent, windowVars, rangeVars,
                m_retransmitPackets, timerVars, statVars, sendEvents, logVars>>

Seqs == 0 .. SeqMod - 1

\* The EventId of no event.
NoEvent == -1

\* What a uint16_t (an RdtHeader field, a key of the maps and sets, a member
\* of a queued pair) and a uint32_t keep of a number.
U16(n) == n % SeqMod
U32(n) == n % WordMod

TypeOK ==
    /\ phase \in {"created", "running", "stopped"}
    /\ spinning \in BOOLEAN
    /\ m_sent \in Nat
    /\ m_seqNum \in Nat
    /\ m_windowBase \in Nat
    /\ m_ackNum \in Nat
    /\ m_receivedPackets \in SUBSET Seqs
    /\ m_retransmit \in BOOLEAN
    /\ m_retransSeq \in Nat
    /\ m_retransStop \in Nat
    /\ m_retransmissions \in Seq(Seqs \X Seqs)
    /\ m_retransmitPackets \in SUBSET Seqs
    /\ m_timers \in [Seqs -> Nat \cup {NoEvent}]
    /\ rtoEvents \in SUBSET [id : Nat, seq : Seqs, due : Nat]
    /\ m_packetSent \in Nat
    /\ m_packetRetrans \in Nat
    /\ m_packetLost \in Nat
    /\ m_retransRecv \in Nat
    /\ sendEvents \in Nat
    /\ logEvents \in Nat
    /\ reported \in [sent : Nat, lost : Nat, retrans : Nat]
    /\ ppsLogs \in Nat

ClientInit ==
    /\ phase = "created"
    /\ spinning = FALSE
    /\ m_sent = 0
    /\ m_seqNum = 0
    /\ m_windowBase = 0
    /\ m_ackNum = 0
    /\ m_receivedPackets = {}
    /\ m_retransmit = FALSE
    /\ m_retransSeq = 0
    /\ m_retransStop = 0
    /\ m_retransmissions = <<>>
    /\ m_retransmitPackets = {}
    /\ m_timers = [s \in Seqs |-> NoEvent]
    /\ rtoEvents = {}
    /\ m_packetSent = 0
    /\ m_packetRetrans = 0
    /\ m_packetLost = 0
    /\ m_retransRecv = 0
    /\ sendEvents = 0
    /\ logEvents = 0
    /\ reported = [sent |-> 0, lost |-> 0, retrans |-> 0]
    /\ ppsLogs = 0

----------------------------------------------------------------------------
(* Starting and stopping.                                                  *)

\* Simulator::Cancel on the handle of an event of which n are pending.
Cancelled(n) == IF n > 0 THEN n - 1 ELSE 0

\* Cancel the timers m_timers knows of for the packets of S, and forget them.
ForgetTimers(S) ==
    /\ m_timers' = [s \in Seqs |-> IF s \in S THEN NoEvent ELSE m_timers[s]]
    /\ UNCHANGED rtoEvents
CancelTimers(S) ==
    /\ rtoEvents' = {e \in rtoEvents : \A s \in S : m_timers[s] # e.id}
    /\ m_timers' = [s \in Seqs |-> IF s \in S THEN NoEvent ELSE m_timers[s]]

\* The report StopApplication makes schedules the next one; what is left of
\* the PpsLog events once that one is cancelled too.
LogEventsCancelledOnce == Cancelled(logEvents) + 1
LogEventsAfterStop     == Cancelled(Cancelled(logEvents) + 1)

\* The values PpsLog keeps for the next report.
Counters == [sent |-> m_packetSent, lost |-> m_packetLost,
             retrans |-> m_packetRetrans]

\* StartApplication opens the socket and schedules the first report and the
\* first Send.
StartApplication ==
    /\ phase = "created"
    /\ phase' = "running"
    /\ logEvents' = logEvents + 1
    /\ sendEvents' = sendEvents + 1
    /\ UNCHANGED <<spinning, m_sent, windowVars, rangeVars, m_retransmitPackets,
                   timerVars, statVars, reported, ppsLogs>>

\* StopApplication closes the socket, cancels the timers m_timers knows of,
\* reports once more (which schedules the next report) and cancels that report
\* and the next Send.
StopApplication ==
    /\ phase = "running"
    /\ ~spinning
    /\ phase' = "stopped"
    /\ CancelTimers(Seqs)
    /\ reported' = Counters
    /\ logEvents' = LogEventsAfterStop
    /\ sendEvents' = Cancelled(sendEvents)
    /\ UNCHANGED <<spinning, m_sent, windowVars, rangeVars, m_retransmitPackets,
                   statVars, ppsLogs>>

\* The periodic report: remember the counters, schedule the next one.
PpsLog ==
    /\ ~spinning
    /\ logEvents > 0
    /\ ppsLogs < PpsLimit
    /\ ppsLogs' = ppsLogs + 1
    /\ reported' = Counters
    /\ UNCHANGED <<phase, spinning, m_sent, windowVars, rangeVars,
                   m_retransmitPackets, timerVars, statVars, sendEvents, logEvents>>

----------------------------------------------------------------------------
(* Send.                                                                   *)

\* The Send event runs when its interval is over; a timer that expires by
\* then was scheduled earlier, so the simulator runs it first.
SendIsDue ==
    /\ ~spinning
    /\ sendEvents > 0
    /\ \A e \in rtoEvents : e.due > 0

\* The timers that stay pending, one interval older.
OlderTimers == {[e EXCEPT !.due = @ - 1] : e \in rtoEvents}

WindowIsOverfull == U32(m_seqNum - m_windowBase) > WindowSize
WindowIsFull     == U32(m_seqNum - m_windowBase) >= WindowSize

\* Does Send schedule the next one after the n-th datagram?
OneTooMany(n)   == n <= MaxPackets
BudgetAllows(n) == n < MaxPackets

\* The end of Send once it has chosen the sequence number h of its datagram:
\* start the timer of h and, below the packet budget, schedule the next Send.
Transmit(h) ==
    /\ rtoEvents' = OlderTimers \cup
                      {[id |-> m_sent, seq |-> h, due |-> RtoTicks - 1]}
    /\ m_timers' = [m_timers EXCEPT ![h] = m_sent]
    /\ m_sent' = m_sent + 1
    /\ sendEvents' = IF BudgetAllows(m_sent + 1) THEN sendEvents
                                                ELSE sendEvents - 1

\* Leave m_retransSeq behind; at the end of its range take the next one from
\* the queue or stop retransmitting.
AdvanceRange ==
    LET next == U32(m_retransSeq + 1)
    IN  \/ /\ next # m_retransStop
           /\ m_retransSeq' = next
           /\ UNCHANGED <<m_retransmit, m_retransStop, m_retransmissions>>
        \/ /\ next = m_retransStop
           /\ m_retransmissions = <<>>
           /\ m_retransmit' = FALSE
           /\ m_retransSeq' = next
           /\ UNCHANGED <<m_retransStop, m_retransmissions>>
        \/ /\ next = m_retransStop
           /\ m_retransmissions # <<>>
           /\ m_retransSeq' = Head(m_retransmissions)[1]
           /\ m_retransStop' = Head(m_retransmissions)[2]
           /\ m_retransmissions' = Tail(m_retransmissions)
           /\ UNCHANGED m_retransmit

\* The window is full and nothing is to be retransmitted: try again later.
SendWaits ==
    /\ SendIsDue
    /\ WindowIsFull
    /\ ~m_retransmit
    /\ rtoEvents' = OlderTimers
    /\ UNCHANGED <<phase, spinning, m_sent, windowVars, rangeVars,
                   m_retransmitPackets, m_timers, statVars, sendEvents, logVars>>

\* The header of a fresh datagram, and of a retransmitted one.
FullSeqNum    == m_seqNum
FreshHeader   == U16(m_seqNum)
RetransHeader == U16(m_retransSeq)

\* A fresh packet.
SendFresh ==
    /\ SendIsDue
    /\ ~WindowIsFull
    /\ ~m_retransmit
    /\ Transmit(FreshHeader)
    /\ m_seqNum' = m_seqNum + 1
    /\ m_packetSent' = m_packetSent + 1
    /\ UNCHANGED <<phase, spinning, m_windowBase, m_ackNum, m_receivedPackets,
                   rangeVars, m_retransmitPackets, m_packetRetrans, m_packetLost,
                   m_retransRecv, logVars>>

\* Is h to be sent?  A packet is retransmitted once.
EveryTime(h)         == TRUE
NotRetransmitted(h)  == h \notin m_retransmitPackets

\* A packet that has not been retransmitted yet.
SendRetransmission ==
    /\ SendIsDue
    /\ m_retransmit
    /\ NotRetransmitted(RetransHeader)
    /\ Transmit(RetransHeader)
    /\ m_retransmitPackets' = m_retransmitPackets \cup {RetransHeader}
    /\ m_packetRetrans' = m_packetRetrans + 1
    /\ AdvanceRange
    /\ UNCHANGED <<phase, spinning, windowVars, m_packetSent, m_packetLost,
                   m_retransRecv, logVars>>

\* A packet that has been retransmitted before is skipped: nothing is sent and
\* the next Send is scheduled.
SendSkips ==
    /\ SendIsDue
    /\ m_retransmit
    /\ ~NotRetransmitted(RetransHeader)
    /\ AdvanceRange
    /\ rtoEvents' = OlderTimers
    /\ UNCHANGED <<phase, spinning, m_sent, windowVars, m_retransmitPackets,
                   m_timers, statVars, sendEvents, logVars>>

----------------------------------------------------------------------------
(* Losses.                                                                 *)

\* The elements of a finite set of numbers from the least to the greatest:
\* the order in which a loop over the sequence numbers meets them.
Ascending(S) ==
    CHOOSE f \in [1 .. Cardinality(S) -> S] :
        \A i, j \in 1 .. Cardinality(S) : i < j => f[i] < f[j]

\* One range <<s, s+1>> per sequence number, as the queue's pairs hold it.
RangesOf(lost) == [i \in DOMAIN lost |-> <<lost[i], U16(lost[i] + 1)>>]

\* Nothing waits behind the current range.
EnqueueFirst(lost) ==
    \/ /\ lost = <<>> \/ m_retransmit
       /\ UNCHANGED rangeVars
    \/ /\ lost # <<>>
       /\ ~m_retransmit
       /\ m_retransmit' = TRUE
       /\ m_retransSeq' = Head(lost)
       /\ m_retransStop' = Head(lost) + 1
       /\ UNCHANGED m_retransmissions

\* Schedule the retransmission of a sequence of lost packets.  The first one
\* is current at once if nothing else is; the others wait in the queue.
Enqueue(lost) ==
    \/ /\ lost = <<>>
       /\ UNCHANGED rangeVars
    \/ /\ lost # <<>>
       /\ ~m_retransmit
       /\ m_retransmit' = TRUE
       /\ m_retransSeq' = Head(lost)
       /\ m_retransStop' = Head(lost) + 1
       /\ m_retransmissions' = m_retransmissions \o RangesOf(Tail(lost))
    \/ /\ lost # <<>>
       /\ m_retransmit
       /\ m_retransmissions' = m_retransmissions \o RangesOf(lost)
       /\ UNCHANGED <<m_retransmit, m_retransSeq, m_retransStop>>

\* The loop that moves the window over the members of m_receivedPackets looks
\* sequence numbers up as uint16_t: it never ends once all of them are there.
BaseIsFree(received) == U16(m_windowBase) \notin received
SlideEnds(received)  == received # Seqs

\* Where that loop leaves m_windowBase.
SlidByOne(received) == m_windowBase + 1
SlidTo(received) ==
    CHOOSE b \in m_windowBase .. m_windowBase + SeqMod :
        /\ U16(b) \notin received
        /\ \A c \in m_windowBase .. b - 1 : U16(c) \in received

----------------------------------------------------------------------------
(* HandleRead: the echo of seq arrives.  The client reads one datagram per *)
(* call, because the socket reports every datagram on its own.             *)

\* The socket has a receive callback.
Listening == phase = "running" /\ ~spinning

\* The packets before seq that are taken for lost.
NotEchoedBefore(seq) ==
    {l \in m_ackNum .. seq - 1 : l \notin m_receivedPackets}
LostBefore(seq) ==
    {l \in m_ackNum .. seq - 1 :
        l \notin m_receivedPackets /\ l \notin m_retransmitPackets}

\* The sequence number expected after seq.
ExpectOneMore(seq) == m_ackNum + 1
ExpectAfter(seq)   == seq + 1

HandleRead(seq) ==
    LET received == m_receivedPackets \cup {seq}
        lost     == LostBefore(seq)
        settled  == lost \cup {seq}   \* their timers are cancelled
    IN  /\ Listening
        /\ SlideEnds(received)
        /\ m_receivedPackets' = received
        /\ CancelTimers(settled)
        /\ m_packetLost' = m_packetLost + Cardinality(lost)
        /\ Enqueue(Ascending(lost))
        /\ \/ /\ seq >= m_ackNum
              /\ m_ackNum' = ExpectAfter(seq)
              /\ UNCHANGED m_retransRecv
           \/ /\ seq < m_ackNum
              /\ m_retransRecv' = m_retransRecv + 1
              /\ UNCHANGED m_ackNum
        /\ m_windowBase' = SlidTo(received)
        /\ UNCHANGED <<phase, spinning, m_sent, m_seqNum, m_retransmitPackets,
                       m_packetSent, m_packetRetrans, sendEvents, logVars>>

\* The same call when its last loop does not end.  What the call has changed
\* by then is left out: nothing runs afterwards that could see it.
HandleReadSpins(seq) ==
    /\ Listening
    /\ ~SlideEnds(m_receivedPackets \cup {seq})
    /\ spinning' = TRUE
    /\ UNCHANGED <<phase, m_sent, windowVars, rangeVars, m_retransmitPackets,
                   timerVars, statVars, sendEvents, logVars>>

----------------------------------------------------------------------------
(* HandleTimeout: the timer of a packet expires.                           *)

\* Timers expire in the order of their deadlines and, while Send events keep
\* the time, not before their deadline.
ExpiredAnyOrder(e) == ~spinning
Expired(e) ==
    /\ ~spinning
    /\ \A f \in rtoEvents : e.due <= f.due
    /\ sendEvents > 0 => e.due = 0

\* The timer of a packet that was sent once: it is lost, retransmit it.
TimeoutOfFirst(e) ==
    /\ Expired(e)
    /\ e.seq \notin m_retransmitPackets
    /\ m_packetLost' = m_packetLost + 1
    /\ Enqueue(<<e.seq>>)
    /\ m_timers' = [m_timers EXCEPT ![e.seq] = NoEvent]
    /\ rtoEvents' = rtoEvents \ {e}
    /\ UNCHANGED <<phase, spinning, m_sent, windowVars, m_retransmitPackets,
                   m_packetSent, m_packetRetrans, m_retransRecv, sendEvents, logVars>>

\* The timer of a retransmitted packet: give it up by counting it as received.
\* It is queued again all the same; Send will skip it.
NotGivenUp(seq)   == m_receivedPackets
WithGivenUp(seq)  == m_receivedPackets \cup {seq}

TimeoutOfRetransmission(e) ==
    LET received == WithGivenUp(e.seq)
    IN  /\ Expired(e)
        /\ e.seq \in m_retransmitPackets
        /\ SlideEnds(received)
        /\ m_receivedPackets' = received
        /\ m_windowBase' = SlidTo(received)
        /\ Enqueue(<<e.seq>>)
        /\ m_timers' = [m_timers EXCEPT ![e.seq] = NoEvent]
        /\ rtoEvents' = rtoEvents \ {e}
        /\ UNCHANGED <<phase, spinning, m_sent, m_seqNum, m_ackNum,
                       m_retransmitPackets, statVars, sendEvents, logVars>>

\* The same call when the loop that moves the window does not end.
\* Again nothing runs afterwards.
TimeoutSpins(e) ==
    /\ Expired(e)
    /\ e.seq \in m_retransmitPackets
    /\ ~SlideEnds(m_receivedPackets \cup {e.seq})
    /\ spinning' = TRUE
    /\ UNCHANGED <<phase, m_sent, windowVars, rangeVars, m_retransmitPackets,
                   timerVars, statVars, sendEvents, logVars>>

HandleTimeout(e) ==
    TimeoutOfFirst(e) \/ TimeoutOfRetransmission(e) \/ TimeoutSpins(e)

----------------------------------------------------------------------------
(* The figures the destructor prints, in per cent.                         *)

DropRate ==
    IF m_packetSent > 0 THEN (m_packetLost * 100) \div m_packetSent ELSE 0

RetransmissionSuccessRate ==
    IF m_packetRetrans > 0 THEN (m_retransRecv * 100) \div m_packetRetrans ELSE 0

----------------------------------------------------------------------------
(* What the client must keep true.                                         *)

Sent == 0 .. m_seqNum - 1

\* The sequence numbers that wait for retransmission.
Queued ==
    (IF m_retransmit THEN {m_retransSeq} ELSE {})
        \cup {m_retransmissions[i][1] : i \in DOMAIN m_retransmissions}

\* HandleRead, HandleTimeout and Send together keep the send window: its base
\* is the first packet neither echoed nor given up, and Send never runs more
\* than m_windowSize packets ahead of it.
WindowBound ==
    /\ m_windowBase <= m_seqNum
    /\ m_seqNum <= m_windowBase + WindowSize
    /\ m_windowBase \notin m_receivedPackets
    /\ \A s \in 0 .. m_windowBase - 1 : s \in m_receivedPackets

\* m_timers and the simulator's queue agree: every EventId kept is that of a
\* pending HandleTimeout of the same packet, and no pending HandleTimeout has
\* been forgotten (StopApplication could not cancel it).
TimersMatch ==
    /\ \A s \in Seqs : m_timers[s] # NoEvent =>
           \E e \in rtoEvents : e.seq = s /\ e.id = m_timers[s]
    /\ \A e \in rtoEvents : m_timers[e.seq] = e.id

\* While the client runs, no packet of the window is forgotten: unless echoed
\* or given up it has a timer, or waits for its first retransmission.
NoStrandedPacket ==
    phase = "running" =>
        \A s \in Sent \ m_receivedPackets :
            \/ m_timers[s] # NoEvent
            \/ s \in Queued \ m_retransmitPackets

\* While Send finds the window full and nothing to retransmit it only tries
\* again later; the packet that keeps the window closed then has a timer that
\* expires within m_rto, so HandleTimeout ends the wait if no echo does.
WaitIsTimed ==
    phase = "running" /\ WindowIsFull /\ ~m_retransmit =>
        \E e \in rtoEvents : e.seq = m_windowBase /\ e.due < RtoTicks

\* Send, ScheduleTransmit and StopApplication keep one chain of Send events:
\* never two (Send asserts that m_sendEvent has expired) and none missing
\* while the budget lasts.
OneSendChain ==
    sendEvents = IF phase = "running" /\ (m_sent < MaxPackets \/ m_sent = 0)
                 THEN 1 ELSE 0

\* The counters of PpsLog and of the destructor count what they are named for:
\* every datagram is a first transmission or a retransmission, no packet is
\* retransmitted twice, and only packets counted as lost are retransmitted.
Accounting ==
    /\ m_sent = m_packetSent + m_packetRetrans
    /\ m_packetSent = m_seqNum
    /\ m_packetRetrans = Cardinality(m_retransmitPackets)
    /\ m_packetRetrans <= m_packetLost

\* Timeouts and gaps may queue a packet again while it waits, but the queue of
\* HandleRead and HandleTimeout stays bounded: no packet waits more than twice.
QueueBound ==
    \A s \in Sent :
        Cardinality({i \in DOMAIN m_retransmissions : m_retransmissions[i][1] = s})
            + (IF m_retransmit /\ m_retransSeq = s THEN 1 ELSE 0) <= 2

\* After StopApplication nothing is pending, not even the report that its own
\* call of PpsLog schedules, and the last report holds the final counters.
QuietAfterStop ==
    phase = "stopped" =>
        /\ sendEvents = 0
        /\ logEvents = 0
        /\ rtoEvents = {}
        /\ reported = Counters

\* The client never stops sending before its budget of packets is used up: a
\* full window is opened again by an echo, a retransmission's echo or a timeout.
RunsToItsBudget ==
    phase = "running" ~> m_sent >= MaxPackets \/ phase = "stopped"

\* The client leaves its handlers as long as the sequence numbers last: the
\* loops over m_receivedPackets end until all of 0 .. 65535 have been used.
SpinsOnlyAtTheEnd == spinning => m_seqNum >= SeqMod

\* A range of Send ends after one packet.  The queue of uint16_t pairs would
\* hold the range of the last sequence number as <<65535, 0>>, which Send never
\* ends; the order of the timers keeps that packet from ever waiting behind
\* another one.
RangesAreUnits ==
    m_retransmit => m_retransStop = m_retransSeq + 1
============================================================================
