----------------------------- MODULE Assignment01 -----------------------------
(***************************************************************************)
(* The measurement of assignment01/assignment01.cc.  Three flows of        *)
(* datagrams cross one point-to-point link; a packet sink counts what      *)
(* arrives of each (Rxtime), and MeasureThroughput logs the rate of every  *)
(* flow once per period and starts to count anew.  Shell scripts split the *)
(* log into one file per flow for the plots.                               *)
(*                                                                         *)
(* Time is counted in periods of MeasureThroughput, sizes in datagrams.    *)
(***************************************************************************)
EXTENDS Integers

CONSTANTS
    StartAt, StopAt,    \* of each flow's application
    EndAt,              \* Simulator::Stop
    Queue,              \* datagrams one direction of the link holds
    MaxDatagrams        \* bound of the model: datagrams of one flow

Flows == {"Flow1", "Flow2", "FlowBack"}

ASSUME ScenarioAssumption ==
    /\ StartAt \in [Flows -> Nat] /\ StopAt \in [Flows -> Nat]
    /\ EndAt \in Nat /\ Queue \in Nat /\ MaxDatagrams \in Nat
    /\ \A f \in Flows : StartAt[f] < StopAt[f] /\ StopAt[f] < EndAt

VARIABLES
    now,         \* Simulator::Now
    sources,     \* the flows whose application runs
    sinks,       \* the flows whose sink has started
    underWay,    \* datagrams on the link, by destination
    g_bytes,     \* g_bytesFlow1, g_bytesFlow2, g_bytesFlowBack
    g_lastTime,
    sent,        \* datagrams sent in each flow
    received,    \* datagrams Rxtime was called for
    logged       \* the sum of the rates in the log

vars == <<now, sources, sinks, underWay, g_bytes, g_lastTime, sent, received, logged>>

\* The address and the port, counted from "port", each flow is sent to.
Destination ==
    [Flow1    |-> <<"csmaNodes2.0", 1>>,
     Flow2    |-> <<"csmaNodes1.0", 2>>,
     FlowBack |-> <<"csmaNodes2.0", 0>>]
Destinations == {Destination[f] : f \in Flows}

\* The context the sink at each destination is traced with.
SwappedContext(d) ==
    CASE d = <<"csmaNodes2.0", 1>> -> "FlowBack"
      [] d = <<"csmaNodes2.0", 0>> -> "Flow1"
      [] d = <<"csmaNodes1.0", 2>> -> "Flow2"
Context(d) ==
    CASE d = <<"csmaNodes2.0", 0>> -> "FlowBack"
      [] d = <<"csmaNodes2.0", 1>> -> "Flow1"
      [] d = <<"csmaNodes1.0", 2>> -> "Flow2"

\* Destinations on one side of the link share one of its queues.
HeldFor(f, d) ==
    IF Destination[f][1] = d[1] THEN underWay[Destination[f]] ELSE 0
Backlog(d) == HeldFor("Flow1", d) + HeldFor("Flow2", d) + HeldFor("FlowBack", d)

Zeros == [f \in Flows |-> 0]

Init ==
    /\ now = 0
    /\ sources = {}
    /\ sinks = {}
    /\ underWay = [d \in Destinations |-> 0]
    /\ g_bytes = Zeros
    /\ g_lastTime = 0
    /\ sent = Zeros
    /\ received = Zeros
    /\ logged = Zeros

----------------------------------------------------------------------------
\* Simulator::Stop has ended the simulation.
Running == now < EndAt

\* An application and its sink start at the same time, in either order.
StartSource(f) ==
    /\ Running
    /\ now = StartAt[f] /\ f \notin sources
    /\ sources' = sources \cup {f}
    /\ UNCHANGED <<now, sinks, underWay, g_bytes, g_lastTime, sent, received, logged>>

StartSink(f) ==
    /\ Running
    /\ now = StartAt[f] /\ f \notin sinks
    /\ sinks' = sinks \cup {f}
    /\ UNCHANGED <<now, sources, underWay, g_bytes, g_lastTime, sent, received, logged>>

\* The on-off application of f sends: the datagram crosses the link or finds
\* its queue full.
SendDatagram(f) ==
    LET d == Destination[f]
    IN  /\ Running
        /\ f \in sources /\ now < StopAt[f]
        /\ sent[f] < MaxDatagrams
        /\ sent' = [sent EXCEPT ![f] = @ + 1]
        /\ underWay' = [underWay EXCEPT ![d] = IF Backlog(d) < Queue THEN @ + 1 ELSE @]
        /\ UNCHANGED <<now, sources, sinks, g_bytes, g_lastTime, received, logged>>

\* A datagram reaches its node, and Rxtime is called if the sink there has
\* started.
Arrive(d) ==
    LET f == Context(d)
    IN  /\ Running
        /\ underWay[d] > 0
        /\ underWay' = [underWay EXCEPT ![d] = @ - 1]
        /\ \/ /\ f \in sinks
              /\ g_bytes' = [g_bytes EXCEPT ![f] = @ + 1]
              /\ received' = [received EXCEPT ![f] = @ + 1]
           \/ /\ f \notin sinks
              /\ UNCHANGED <<g_bytes, received>>
        /\ UNCHANGED <<now, sources, sinks, g_lastTime, sent, logged>>

\* What MeasureThroughput leaves in the counters.
BackForgotten  == [g_bytes EXCEPT !["Flow1"] = 0, !["Flow2"] = 0]
CountersReset  == Zeros

\* The period ends and MeasureThroughput runs: it logs the rate of each flow
\* over the time since its last run (a rate of 0 is not logged, which leaves
\* the sum as it is) and schedules itself anew.
KeptLastTime == g_lastTime
MeasuredNow  == now + 1

MeasureThroughput ==
    /\ Running /\ now + 1 < EndAt
    /\ \A f \in Flows : now = StartAt[f] => f \in sources /\ f \in sinks
    /\ now' = now + 1
    /\ LET elapsed == now' - g_lastTime
       IN  logged' = [f \in Flows |-> logged[f] + g_bytes[f] \div elapsed]
    /\ g_bytes' = CountersReset
    /\ g_lastTime' = MeasuredNow
    /\ UNCHANGED <<sources, sinks, underWay, sent, received>>

\* The end of the simulation comes before the MeasureThroughput of that time.
End ==
    /\ Running /\ now + 1 = EndAt
    /\ now' = EndAt
    /\ UNCHANGED <<sources, sinks, underWay, g_bytes, g_lastTime, sent, received, logged>>

Next ==
    \/ \E f \in Flows : StartSource(f) \/ StartSink(f) \/ SendDatagram(f)
    \/ \E d \in Destinations : Arrive(d)
    \/ MeasureThroughput
    \/ End

Spec == Init /\ [][Next]_vars

----------------------------------------------------------------------------
\* MeasureThroughput runs in every period: the time it divides by is one
\* period, never none.
TypeOK ==
    /\ now \in 0 .. EndAt
    /\ sources \in SUBSET Flows /\ sinks \in SUBSET Flows
    /\ underWay \in [Destinations -> 0 .. Queue]
    /\ g_bytes \in [Flows -> Nat]
    /\ g_lastTime = IF now = EndAt THEN EndAt - 1 ELSE now
    /\ sent \in [Flows -> Nat] /\ received \in [Flows -> Nat] /\ logged \in [Flows -> Nat]

\* Rxtime and MeasureThroughput count every datagram once: the rates logged
\* for a flow, each over one period, add up to what its sink has received,
\* but for the datagrams of the current period.
RatesAddUp == \A f \in Flows : logged[f] + g_bytes[f] = received[f]

\* What is logged as a flow was sent in that flow: the ports and the contexts
\* of the sinks agree with the remotes of the applications.
CreditedToItsFlow == \A f \in Flows : received[f] + underWay[Destination[f]] <= sent[f]
===============================================================================
