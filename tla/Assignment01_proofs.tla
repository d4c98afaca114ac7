-------------------------- MODULE Assignment01_proofs --------------------------
(***************************************************************************)
(* What the measurement of assignment01.cc counts, for all start and stop  *)
(* times of the applications, all lengths of the simulation and any queue: *)
(* each datagram is logged once and in the flow it was sent in, and the    *)
(* queues of the link hold no more than they have room for.                *)
(***************************************************************************)
EXTENDS Assignment01, TLAPS

USE ScenarioAssumption

\* The types, with the period MeasureThroughput divides by, and what it counts.
MeasureInv == TypeOK /\ RatesAddUp /\ CreditedToItsFlow

\* The traffic of a flow ends before the simulation does.
LEMMA EndIsLate == EndAt \in Nat /\ EndAt > 0
BY DEF Flows

\* The sinks are traced with the contexts of the flows that are sent to them.
LEMMA ContextsMatch ==
    /\ \A d \in Destinations : Context(d) \in Flows /\ Destination[Context(d)] = d
    /\ \A f \in Flows : Destination[f] \in Destinations /\ Context(Destination[f]) = f
BY DEF Destinations, Destination, Context, Flows

LEMMA InitMeasures == Init => MeasureInv
<1> SUFFICES ASSUME Init PROVE MeasureInv
    OBVIOUS
<1>1. TypeOK
    BY EndIsLate DEF Init, TypeOK, Zeros
<1>2. RatesAddUp /\ CreditedToItsFlow
    BY ContextsMatch DEF Init, Zeros, RatesAddUp, CreditedToItsFlow
<1> QED
    BY <1>1, <1>2 DEF MeasureInv

LEMMA StartMeasures ==
    ASSUME MeasureInv, NEW f \in Flows, StartSource(f) \/ StartSink(f)
    PROVE  MeasureInv'
BY DEF MeasureInv, TypeOK, RatesAddUp, CreditedToItsFlow, StartSource, StartSink

\* A queue holds at least what is on its way to each of its destinations.
LEMMA BacklogCounts ==
    ASSUME TypeOK, NEW f \in Flows
    PROVE  /\ Backlog(Destination[f]) \in Nat
           /\ underWay[Destination[f]] <= Backlog(Destination[f])
<1>1. \A g \in Flows : underWay[Destination[g]] \in Nat
    BY ContextsMatch DEF TypeOK
<1>2. /\ \A g \in Flows : HeldFor(g, Destination[f]) \in Nat
      /\ HeldFor(f, Destination[f]) = underWay[Destination[f]]
    BY <1>1 DEF HeldFor
<1>3. f = "Flow1" \/ f = "Flow2" \/ f = "FlowBack"
    BY DEF Flows
<1> QED
    BY <1>2, <1>3 DEF Backlog, Flows

LEMMA SendMeasures ==
    ASSUME MeasureInv, NEW f \in Flows, SendDatagram(f)
    PROVE  MeasureInv'
<1> DEFINE d == Destination[f]
<1>1. /\ TypeOK /\ RatesAddUp /\ CreditedToItsFlow
      /\ UNCHANGED <<now, sources, sinks, g_bytes, g_lastTime, received, logged>>
      /\ sent' = [sent EXCEPT ![f] = @ + 1]
      /\ \/ underWay' = underWay
         \/ Backlog(d) < Queue /\ underWay' = [underWay EXCEPT ![d] = @ + 1]
    <2>1. underWay \in [Destinations -> 0 .. Queue]
        BY DEF MeasureInv, TypeOK
    <2>2. [underWay EXCEPT ![d] = underWay[d]] = underWay
        BY <2>1
    <2> QED
        BY <2>2 DEF MeasureInv, SendDatagram
<1>2. d \in Destinations
    BY ContextsMatch
<1>3. TypeOK'
    <2>1. /\ underWay \in [Destinations -> 0 .. Queue]
          /\ sent \in [Flows -> Nat]
          /\ Backlog(d) < Queue => underWay[d] + 1 \in 0 .. Queue
        <3>1. underWay[d] <= Backlog(d) /\ Backlog(d) \in Nat
            BY <1>1, BacklogCounts
        <3> QED
            BY <1>1, <1>2, <3>1 DEF TypeOK
    <2>2. underWay' \in [Destinations -> 0 .. Queue] /\ sent' \in [Flows -> Nat]
        BY <1>1, <1>2, <2>1
    <2> QED
        BY <1>1, <2>2 DEF TypeOK
<1>4. ASSUME NEW g \in Flows
      PROVE  received[g] + underWay'[Destination[g]] <= sent'[g]
    <2>1. /\ received[g] \in Nat /\ sent[g] \in Nat
          /\ Destination[g] \in Destinations /\ underWay[Destination[g]] \in Nat
          /\ received[g] + underWay[Destination[g]] <= sent[g]
        BY <1>1, ContextsMatch DEF TypeOK, CreditedToItsFlow
    <2>2. CASE g = f
        BY <1>1, <1>2, <2>1, <2>2 DEF TypeOK
    <2>3. CASE g # f
        <3>1. Destination[g] # d
            BY <2>3, ContextsMatch
        <3>2. underWay'[Destination[g]] = underWay[Destination[g]] /\ sent'[g] = sent[g]
            BY <1>1, <2>1, <2>3, <3>1 DEF TypeOK
        <3> QED
            BY <2>1, <3>2
    <2> QED
        BY <2>2, <2>3
<1>5. RatesAddUp'
    BY <1>1 DEF RatesAddUp
<1> QED
    BY <1>1, <1>3, <1>4, <1>5 DEF MeasureInv, CreditedToItsFlow

\* Rxtime counts a datagram in the flow of the sink it is called for.
LEMMA ArriveMeasures ==
    ASSUME MeasureInv, NEW d \in Destinations, Arrive(d)
    PROVE  MeasureInv'
<1> DEFINE f == Context(d)
<1>1. f \in Flows /\ Destination[f] = d
    BY ContextsMatch
<1>2. /\ TypeOK /\ RatesAddUp /\ CreditedToItsFlow
      /\ UNCHANGED <<now, sources, sinks, g_lastTime, sent, logged>>
      /\ underWay[d] > 0 /\ underWay' = [underWay EXCEPT ![d] = @ - 1]
      /\ \/ /\ g_bytes' = [g_bytes EXCEPT ![f] = @ + 1]
            /\ received' = [received EXCEPT ![f] = @ + 1]
         \/ UNCHANGED <<g_bytes, received>>
    BY DEF MeasureInv, Arrive
<1> HIDE DEF f
<1>3. TypeOK'
    BY <1>1, <1>2 DEF TypeOK
<1>4. RatesAddUp'
    BY <1>1, <1>2 DEF RatesAddUp, TypeOK
<1>5. ASSUME NEW g \in Flows
      PROVE  received'[g] + underWay'[Destination[g]] <= sent[g]
    <2>1. /\ received[g] \in Nat /\ sent[g] \in Nat
          /\ Destination[g] \in Destinations /\ underWay[Destination[g]] \in Nat
          /\ received[g] + underWay[Destination[g]] <= sent[g]
        BY <1>2, ContextsMatch DEF TypeOK, CreditedToItsFlow
    <2>2. CASE g = f
        BY <1>1, <1>2, <2>1, <2>2 DEF TypeOK
    <2>3. CASE g # f
        <3>1. Destination[g] # d
            BY <2>3, ContextsMatch DEF f
        <3>2. underWay'[Destination[g]] = underWay[Destination[g]]
              /\ received'[g] = received[g]
            BY <1>1, <1>2, <2>1, <2>3, <3>1 DEF TypeOK
        <3> QED
            BY <2>1, <3>2
    <2> QED
        BY <2>2, <2>3
<1> QED
    BY <1>2, <1>3, <1>4, <1>5 DEF MeasureInv, CreditedToItsFlow

\* MeasureThroughput runs once per period, so that the rates it logs are the
\* counts themselves, and starts to count anew.
LEMMA PeriodMeasures ==
    ASSUME MeasureInv, MeasureThroughput
    PROVE  MeasureInv'
<1>1. /\ TypeOK /\ RatesAddUp /\ CreditedToItsFlow
      /\ now + 1 < EndAt /\ now' = now + 1 /\ g_lastTime' = now + 1
      /\ g_bytes' = Zeros
      /\ UNCHANGED <<sources, sinks, underWay, sent, received>>
    BY DEF MeasureInv, MeasureThroughput, MeasuredNow, CountersReset
<1>2. now \in Nat /\ now' - g_lastTime = 1
    BY <1>1 DEF TypeOK
<1>3. logged' = [f \in Flows |-> logged[f] + g_bytes[f]]
    <2>1. logged' = [f \in Flows |-> logged[f] + g_bytes[f] \div (now' - g_lastTime)]
        BY DEF MeasureThroughput
    <2>2. \A f \in Flows : g_bytes[f] \div 1 = g_bytes[f]
        BY <1>1 DEF TypeOK
    <2> QED
        BY <1>2, <2>1, <2>2
<1>4. TypeOK'
    BY <1>1, <1>2, <1>3 DEF TypeOK, Zeros
<1>5. RatesAddUp'
    BY <1>1, <1>3 DEF RatesAddUp, TypeOK, Zeros
<1>6. CreditedToItsFlow'
    BY <1>1 DEF CreditedToItsFlow
<1> QED
    BY <1>4, <1>5, <1>6 DEF MeasureInv

LEMMA EndMeasures ==
    ASSUME MeasureInv, End
    PROVE  MeasureInv'
BY EndIsLate
   DEF MeasureInv, TypeOK, RatesAddUp, CreditedToItsFlow, End, Running

LEMMA StepMeasures ==
    ASSUME MeasureInv, [Next]_vars
    PROVE  MeasureInv'
<1>1. CASE UNCHANGED vars
    BY <1>1
       DEF vars, MeasureInv, TypeOK, RatesAddUp, CreditedToItsFlow
<1> QED
    BY <1>1, StartMeasures, SendMeasures, ArriveMeasures, PeriodMeasures, EndMeasures
       DEF Next

----------------------------------------------------------------------------
\* Counters, rates and datagrams under way balance at every moment of the
\* simulation.
THEOREM MeasureInvariant == Spec => []MeasureInv
BY InitMeasures, StepMeasures, PTL DEF Spec

\* Every variable keeps its type: a queue of the link holds no more than Queue
\* datagrams, whichever flows share it.
THEOREM MeasureTypesHold == Spec => []TypeOK
<1>1. MeasureInv => TypeOK
    BY DEF MeasureInv
<1> QED
    BY <1>1, MeasureInvariant, PTL

\* MeasureThroughput divides by one period, never by none, and its rates, with
\* what Rxtime has counted since, add up to what the sink of the flow received.
THEOREM RatesAreCounts == Spec => []RatesAddUp
<1>1. MeasureInv => RatesAddUp
    BY DEF MeasureInv
<1> QED
    BY <1>1, MeasureInvariant, PTL

\* What Rxtime counts as a flow was sent in that flow, whenever the sinks and
\* the sources start: their ports and contexts agree.
THEOREM FlowsAreApart == Spec => []CreditedToItsFlow
<1>1. MeasureInv => CreditedToItsFlow
    BY DEF MeasureInv
<1> QED
    BY <1>1, MeasureInvariant, PTL
================================================================================
