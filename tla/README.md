# NetworkProject in TLA+

TLA+ specifications of the ns-3 programs of this repository, the TLC
configurations that check them on small instances, and theorems about them with
proofs that TLAPS checks. Every definition is read off the code; `PROJECT.json`
lists for each one the lines it models.

The repository is course work for ns-3. Most of its programs configure
applications and links that ns-3 provides. Its own logic is in a few places,
and above all in assignment 3: a selective-repeat sender over UDP with timers,
a retransmission queue and statistics. That is the core of this project.

## 1. Inventory

ns-3 is a discrete-event simulator with one thread. A handler runs to its end
before the next event, so a handler is one action here. Concurrency is the
order of the events: datagrams, timers, Send events, reports, starts and stops.

### Components

| component | state | operations | talks to |
|---|---|---|---|
| Reliable echo client (`assignment03/udp-reliable-echo-client`) | window (`m_seqNum`, `m_windowBase`, `m_ackNum`, `m_receivedPackets`), retransmission (`m_retransmit`, `m_retransSeq`, `m_retransStop`, `m_retransmissions`, `m_retransmitPackets`), timers (`m_timers` and the pending events), counters | StartApplication, StopApplication, Send, HandleRead, HandleTimeout, PpsLog | the server, by datagrams; the simulator, by events it schedules and cancels |
| Its payload | `m_data`, `m_dataSize`, `m_size` | SetDataSize, three SetFill | read by Send |
| Echo server (`udp-reliable-echo-server`) | two sockets | start, stop, HandleRead | the client |
| Scenario (`assn3.cc`) | queues of the links, error model | one client, one server, one disturbing flow | all of the above |
| Echo helpers (`udp-reliable-echo-helper`) | the attributes of the next application | SetAttribute, Install | client and server, which they create before the run |
| MyApp (`assignment02/week10_modify.cc`) | running, packets sent, the pending SendPacket | start, stop, SendPacket, ScheduleTx | a TCP socket each; one shared link |
| Throughput measurement (`assignment01/assignment01.cc`) | byte counters, time of the last measurement | Rxtime, MeasureThroughput | sinks of three flows over one link |
| LTE multi-cell scenario (`week13/week13_lte-multicell-skel.cc`) | which eNB serves which UE | the attach loop, the report loop | sinks of the UEs |
| LTE downlink, Wi-Fi, CSMA, echo and point-to-point scenarios (weeks 4 to 13) | none of their own | configure ns-3 | |
| Plots and scripts, container | none | | read the logs |

### What is hard, and what makes each component correct

The client. Four handlers (Send, HandleRead, HandleTimeout, StopApplication)
share the window, the timers and the queue of retransmissions. A packet is
sent, declared lost by its timer or by an echo that overtook it, queued,
retransmitted once, and in the end received or given up; any handler may be
next. The client is correct if

- the window base is the first packet neither echoed nor given up, and at most
  `m_windowSize` packets are ahead of it (`WindowBound`);
- the timers it knows of are the timers that are pending (`TimersMatch`), and
  every packet that is not settled has one or waits for its retransmission
  (`NoStrandedPacket`);
- a packet whose echo comes before it is taken for lost is left alone from then
  on (`EchoedInTime`). An echo that comes later does not stop the
  retransmission that waits: the code looks only at what it has retransmitted;
- a full window is never waited on without a timer: with nothing to retransmit,
  the packet at its base has one that runs out within `m_rto` (`WaitIsTimed`);
- there is one chain of Send events (`OneSendChain`), which goes on until the
  budget is used up (`RunsToItsBudget`);
- the queue stays bounded (`QueueBound`) and its `uint16_t` ranges mean what
  Send reads in them (`RangesAreUnits`);
- a stop leaves nothing pending (`QuietAfterStop`), and the counters it reports
  count what they are named for (`Accounting`);
- seen from outside it is a selective-repeat sender (`SelectiveRepeat`).

Several clients. The helpers install as many as there are nodes. They share
the server, which must answer the client a datagram came from
(`EchoesToSender`), and the counters PpsLog remembers, which are `static`: the
lines of the log must add up all the same (`LogAddsUp`).

The scenario. First-in first-out links lose but keep the order; then the gap
rule of HandleRead is right (`GapLossIsReal`) and so is the success count of
the retransmissions (`RetransRecvIsReal`).

The payload. The setters share a buffer that is replaced only when the size
differs: `m_data`, `m_dataSize` and `m_size` must agree and no byte of an
earlier fill may be sent (`SizesAgree`, `PayloadAsAsked`).

MyApp. One chain of events per application, none after its stop, as many
packets as asked for, and an off-by-one at 2^32-1 packets that does not happen
(`OneSendChain`, `SendsOnlyWhenConnected`, `OffersAsAsked`, `SendsAll`).

The measurement. Each datagram is in one line of the log, under its own flow
(`RatesAddUp`, `CreditedToItsFlow`).

The LTE scenario. Every UE is attached once, to a nearest eNB, and reported
(`AttachedOnce`, `NearestCell`, `EveryUeReported`).

## 2. The modules

```
SelectiveRepeat          what the client promises
      ^ implements
ClientOverUdp            client + a network that loses and reorders
      | extends                       ^ implements
UdpReliableEchoClient                 |
      ^ extended by                   |
ReliableEcho ------------------------ +   client + UdpReliableEchoServer + FIFO links
      | implements, with one client
      v
EchoFleet                several clients reduced to their counters, one server,
                         two instances of UdpReliableEchoHelper
```

`PacketFill`, `MyApp`, `Assignment01` and `LteMulticell` stand alone. The
modules `MC*` instantiate a specification for TLC and add the statements that
the code does not keep. The theorems are in modules of their own:

```
NumberLemmas             numbers, remainders, finite sets, members of a sequence
      ^ extended by
ClientOverUdp_proofs     window, events, refinement, timers, queue, waits, schedule
      ^ INSTANCE, with the lines as the network
ReliableEcho_proofs      the scenario

PacketFill_proofs, EchoFleet_proofs    (with NumberLemmas as well)
MyApp_proofs, Assignment01_proofs, LteMulticell_proofs
```

### UdpReliableEchoClient

One operator per handler, over variables with the names of the members.

| code | here |
|---|---|
| `StartApplication` | `StartApplication` |
| `StopApplication` with the `PpsLog` it calls | `StopApplication`, `LogEventsAfterStop` |
| `Send`, returning early because the window is full | `SendWaits` |
| `Send`, fresh packet | `SendFresh` |
| `Send`, retransmission; packet already retransmitted | `SendRetransmission`; `SendSkips` |
| end of `Send`: timer, counter, `ScheduleTransmit` | `Transmit` |
| `HandleRead` | `HandleRead`, `HandleReadSpins` |
| `HandleTimeout` | `TimeoutOfFirst`, `TimeoutOfRetransmission`, `TimeoutSpins` |
| periodic `PpsLog` | `PpsLog` |
| figures of the destructor | `DropRate`, `RetransmissionSuccessRate` |

- *Events.* `sendEvents` and `logEvents` count pending events instead of
  holding an `EventId`, so a second chain can exist in the model.
  `rtoEvents` is the simulator's set of pending timeouts and `m_timers` the
  client's map; that they agree is a property.
- *Time.* A unit is one `m_interval`. While the chain of Send events lives
  there is one Send per unit, so Send makes all timers one unit older, and a
  timer runs before the Send of the same instant, because it was scheduled
  earlier. Once the chain has ended, timers expire in the order of their
  deadlines. `RtoTicks` is `m_rto / m_interval`, 800 in `assn3.cc`. So an
  interval is assumed to last: with the attribute `Interval` 0 a full window
  makes Send schedule itself at the same instant for ever, and no timeout or
  echo comes to open the window.
- *Widths.* `SeqMod` is 2^16 and `WordMod` 2^32; `U16` and `U32` are applied
  where the code stores or computes with that width: header, sets and map
  keys, the queued pairs, `m_seqNum - m_windowBase`.
- *Loops.* The two `while` loops that move the window look up
  `m_windowBase` as a `uint16_t` in a set that is never pruned. If the set is
  full they do not end: `spinning` then stops every other action. What the
  handler changed before its last loop is left out, as nothing can see it.
- *Sockets.* Each datagram is reported by a call of its own, so HandleRead
  handles one datagram. Receive callbacks are removed by the stop.

### ClientOverUdp, SelectiveRepeat

`ClientOverUdp` adds `flight`, the number of datagrams and echoes of each
sequence number under way: the weakest network the client may get, one that
reorders and loses at any time but does not duplicate. `SelectiveRepeat` has
the window, the settled and the resent packets, and no timers, queue or events:
each packet is sent once, resent at most once, and given up only after that.
The refinement mapping is by variables (`SR`).

### UdpReliableEchoServer, ReliableEcho

The server echoes a datagram while its sockets are open. `ReliableEcho` is
`assn3.cc`: two lines of `LinkCapacity` datagrams, which lose at a full queue,
and, towards the client, by the error model. The on-off traffic of the
scenario shares the queues, so a queue may be full with few datagrams of the
client in it: `Join` may drop at any time. `Udp` maps the lines to `flight`.

### UdpReliableEchoHelper, EchoFleet

A helper is an object factory: `SetAttribute` changes what applications
created later get, `Install` creates one for every node of a container.
`EchoFleet` is a `main` that calls them in any order and then runs what they
created; a container is any sequence of `Nodes`. Its clients are reduced to what several of them share or contend for:
counters, datagrams under way, the chain of reports. When a client sends and
which packets it takes for lost is left open, within the budget and within
`Losses`: a packet is lost by a timer and by a gap, at most. That this leaves
nothing out is checked by `ImplementsFleet`: `ReliableEcho`, with the whole
client, implements `EchoFleet` with one client.

`old` are the static variables of PpsLog and `logged` is what the lines of the
log add up to. `assn3.cc` has one client; then they add up to its counters. With
more, each report subtracts what another client has left, modulo 2^32, so a
single line may be wrong by any amount, and the sum is the counters of the
client that stopped last, not the sum over the clients. `LogAddsUp` states what
is true of any number.

### PacketFill

The setters over a buffer of symbolic bytes; a freshly allocated byte is
`Unset`, and a copy outside the buffer is not kept. `Payload` is what Send puts
into the packet. A pattern is not empty: with `fillSize` 0 the loop of
`SetFill` would not advance, and no caller in the repository does that. The
loop is a recursive function of its two variables, how much is `filled` and the
buffer; its condition `filled + fillSize < dataSize` is computed in a `uint32_t`
(`U32`). A size is that of a datagram, so that two of them do not overflow:
`FillAssumption` has `2 * MaxSize < WordMod`.

### MyApp

Any number of applications with their TCP sockets reduced to a send buffer,
which refuses packets when full; SendPacket does not look at the result.
StartApplication sends before it asks whether there is anything to send, so an
application with no packets sends one (`Asked`). A socket is `connected` once
Connect has been called: the handshake is not modelled, and what is sent during
it waits in the buffer like everything else.
`++m_packetsSent` is a `uint32_t` and `NPackets` may be 2^32-1, as in `main`.

### Assignment01

Three flows, their ports, sinks and trace contexts, with time in periods of
MeasureThroughput and sizes in datagrams. Applications start at given times, an
application and its sink in either order. A rate is the counter divided by the
time since the last measurement, in periods.

### LteMulticell

`main` as a loop with a counter: attach, run, report. Positions are those of
the list `main` allocates, in order and cyclically. `numberOfNodes` is the
argument of the command line.

## 3. The runs

### Passing

| run | module, cfg | shows |
|---|---|---|
| `client_safety` | `MCClient`, `MCClient.cfg` | window, timers, waits, queue and counters of the client, that nothing echoed in time is queued (`EchoedInTime`), that it implements `SelectiveRepeat`, and `RunsToItsBudget`: whatever is lost, a closed window is opened again |
| `client_wrap` | `MCClient`, `MCClientWrap.cfg` | more packets than sequence numbers: `SpinsOnlyAtTheEnd`, `RangesAreUnits`, window and timers until then, and the stop at any time |
| `echo_scenario` | `MCEcho`, `MCEcho.cfg` | the scenario implements `ClientOverUdp` and `EchoFleet`, and its client runs to its budget; gaps and counted echoes are real |
| `echo_fleet` | `MCFleet`, `MCFleet.cfg` | one or two clients with different attributes: echoes reach their client, and what the log adds up to |
| `packet_fill` | `MCFill`, `MCFill.cfg` | every sequence of setters leaves what Send asserts and the last one asked for |
| `my_app` | `MCMyApp`, `MCMyApp.cfg` | three applications with 0, 1 and 2^w-1 packets: one chain of events each, and what each sends in all |
| `throughput` | `MCAssignment01`, `MCAssignment01.cfg` | rates add up, under the right flow |
| `lte_two_cells` | `MCLte`, `MCLte.cfg` | attach and report loops with two eNBs |

Deadlock is not checked where a program ends: a client that has used its
budget, been stopped, or hangs in a loop has no event left; the same holds of
the applications, the measurement and the LTE program.

### Violations

These runs check what the repository says of a program and TLC refutes it.

- `tail_packet` (`MCClientTail.cfg`): "Every packet sent should be returned".
  Retransmissions use up the budget too. A packet declared lost once the budget
  is gone waits in the queue for ever. `NoStrandedPacket` still holds: it does
  wait; there is no Send to serve it.
- `sequence_space` (`MCClientHang.cfg`): a client with more packets to send
  than there are sequence numbers hangs. `assn3.cc` asks for 1000000 packets,
  but its 59 seconds end long before 65536 of them have been settled (the logs
  kept with it show a few thousand), so that run does not meet it: it bounds
  how long the scenario may be made.
- `drop_rate` (`MCEchoDropRate.cfg`): a packet can be counted as lost by its
  timer and again by the gap rule before it is retransmitted, so the printed
  drop rate can exceed 100 %.
- `lte_three_cells` (`MCLteCells.cfg`): the attach loop has the number of
  cells written into it; with another number the command line offers, UEs are
  attached twice or never.

Another difference needs no run: with `MaxPackets` 0 the client sends one
packet all the same, because StartApplication schedules the first Send
unconditionally and Send looks at the budget after sending. `OneSendChain`
states what the code does (`m_sent = 0` in its condition).

### Bounds

- `MaxPackets` 6 or 7 with a window of 3: several windows are sent, and
  losses, gaps, both timeouts and the queue of retransmissions occur together.
- `RtoTicks` is greater than `WindowSize` in `client_safety` and
  `echo_scenario`, so that the window fills before the
  first timer expires, as 10 packets do within 800 intervals. In `client_wrap`
  it is 2, so that timers matter while all `SeqMod` = 5 numbers are used; there
  a packet's number is far from being reused before its timer expires, as 800
  is from 65536.
- `SeqMod` exceeds `MaxPackets` where wrap-around is not the question.
  `WordMod` is greater than any number the model reaches, but small enough for
  `U32` to show a negative difference as a huge one.
- `PpsLimit` periodic reports: one is enough to see a report before and after
  the other handlers; the second Cancel of the stop is independent of it. It
  is 0 in `client_safety`, where no property depends on the reports.
- The client's types are checked where its numbers run out (`client_wrap`); the
  states of the other runs are of the same kind. Those of the scenario and of
  MyApp are proved only (`ScenarioTypes`, `TypesHold`).
- `MCFleet`: two clients are enough for one to overtake the other's reports;
  they have 2 packets each, or 0 (which sends one all the same). `WordMod` 8 is
  above every counter, so only a difference that is negative wraps.
- `LinkCapacity` 2: the lines are shorter than the window, so they overflow.
- `MaxSize` 5: patterns of 1 to 5 bytes with exact, partial and several
  repetitions, and strings with their terminator. A string may be one byte
  longer than `MaxSize`. `WordMod` 16 is above two sizes, as 2^32 is.
- `WordMod` 5 in `my_app`: the count comes up to 2^w-1. `BufferSize` 2 fills.
- Times of `MCAssignment01` keep the order of the starts and stops in
  `assignment01.cc`; 3 datagrams per flow and a queue of 2 fill the link.
- `MaxDatagrams` 1 in the LTE runs: the figures of the UEs need only differ.

### Fairness

The simulator runs every event of its queue: Start, Send and timeouts are
weakly fair. A datagram under way is delivered or lost in the end, so
`Receive or Lose` is weakly fair, but it may always be lost; nothing is assumed
of the network's kindness. Reports and stops are not fair: `RunsToItsBudget`
holds up to a stop. `SendsAll` needs the starts and the SendPacket events only,
not that the sockets empty their buffers. `ReliableEcho` asks the same of its starts and of both
lines, each of which may lose every datagram.

## 4. The theorems

Checked by TLAPS for all values of the constants, under the assumptions
`ConstantsAssumption` (positive window, timeout and sequence space; a machine
word holds a sequence number plus a window), `LinkAssumption` (a link holds a
datagram), `FleetAssumption` (containers are sequences of nodes, counts are
numbers), `AppAssumption` (packet counts are words), `ScenarioAssumption`
(each flow starts before it stops, and stops before the simulation does),
`FillAssumption` (two sizes add up within a word) and `NodesAssumption` (two eNBs
or more: with one, `main` reads devices that do not exist).

Much of what is said about the client holds only while there are sequence numbers
left: once `m_seqNum` reaches 65536 a header no longer names a packet, and
`sequence_space` shows what follows. `NumbersLeft` (`Lasting` in the scenario) is
`m_seqNum < SeqMod`. The theorems below that need it state
`Spec => [](NumbersLeft => P)`, so they hold of `assn3.cc`, which asks for more
packets than there are numbers, for as long as they can. With a budget below
65536 the condition is always true (`NumbersLast`, `SmallBudgetsLast`), and that
is how the runs, which have enough numbers, check `P` itself.

| what | theorem | condition |
|---|---|---|
| types of the client, `WindowBound`, `SpinsOnlyAtTheEnd`, `OneSendChain` | `TypeCorrect`, `WindowSafe`, `LoopsEnd`, `OneChain` | none |
| the budget of Send | `BudgetIsKept` | none |
| refinement of `SelectiveRepeat` | `ClientRefines` | `0 < MaxPackets <= SeqMod` |
| `TimersMatch`, `NoStrandedPacket`, `QuietAfterStop`, `QueueBound`, `Accounting`, at most two losses per packet, `WaitIsTimed` | `TimersAgree`, `NoneStranded`, `StopIsQuiet`, `QueueIsBounded`, `CountersAddUp`, `LossesBounded`, `WaitsAreTimed` | until the numbers run out |
| each step leaves alone what was echoed in time; `EchoedInTime` | `EchoedAreLeftAlone`; `EchoedInTimeAlways` | until the numbers run out; `MaxPackets < SeqMod` |
| `RangesAreUnits`, the schedule of the timers | `UnitRangesAlways`, `ScheduleInvariant` | `WindowSize <= SeqMod` |
| types of the scenario, refinement of `ClientOverUdp` | `ScenarioTypes`, `ScenarioRefines` | none |
| all the client's properties, in the scenario | `NoneStrandedOnLinks`, `ScenarioKeepsPromises` | as for the client |
| `GapLossIsReal`, `RetransRecvIsReal` | `GapsAreLosses`, `SuccessesAreReal` | `m_seqNum <= SeqMod` |
| refinement of `EchoFleet` | `ScenarioRefinesFleet` | the numbers last; `2 * SeqMod <= WordMod` |
| the same, and all the conditional ones, for ever | `SmallBudgetsRefineFleet`, `SmallBudgetsKeepAll` | `MaxPackets < SeqMod` |
| `EchoesToSender` | `EchoesReturn` | none |
| types of the fleet, `LogAddsUp` | `FleetTypesHold`, `LogIsOfTheLast`, `FleetLogs` | counters fit in a word, as they do if twice every budget does (`CountersStayFit`) |
| types, `SizesAgree`, `PayloadAsAsked` of the payload | `BytesAreWritten`, `SizesStayEqual`, `PayloadIsAsAsked` | none |
| types, `OneSendChain`, `SendsOnlyWhenConnected`, `OffersAsAsked` of MyApp | `TypesHold`, `OneChainEach`, `SendsToConnected`, `OffersWhatIsAsked` | none |
| types, `RatesAddUp`, `CreditedToItsFlow` of the measurement | `MeasureTypesHold`, `RatesAreCounts`, `FlowsAreApart` | none |
| types of the LTE scenario | `LteTypesHold` | none |
| `AttachedOnce`, `NearestCell`, `EveryUeReported` | `TwoCellsAttachOnce`, `TwoCellsServeTheNearest`, `TwoCellsReported` | two eNBs |
| that none of this but the types holds of more | `MoreCellsAttachWrongly`, `MoreCellsUnreported` | three eNBs or more |

### The window (`ClientOverUdp_proofs`)

- `TypeCorrect`: the type invariant. `Cancelled` and the branch of `Transmit`
  keep the counts of pending events natural numbers.
- `WindowSafe`: `WindowBound`.
- `LoopsEnd`: `SpinsOnlyAtTheEnd`.

None of them is inductive. That the base does not pass
`m_seqNum` needs that only packets that have been sent are ever received,
retransmitted or timed (`SentOnly`): a datagram under way, a pending timer and
a queued range name packets below `m_seqNum`. For retransmissions this rests on
ranges holding one packet (`UnitRanges`): otherwise Send would run on to numbers
nobody sent. And that holds only while there are sequence numbers left, because
65535 + 1 is stored as 0. `WindowInv` is the conjunction; `SpinsOnlyAtTheEnd` is
part of it because a set of sent packets can only be full when all numbers have
been sent. The proof has one lemma per action (`FreshKeepsWindow`, ...,
`SecondTimeoutKeepsWindow`) over lemmas for the operators the actions share:
what the loop over the lost packets lists (`AscendingLists`), where the window
loops end (`SlidToFirstMissing`, from the least missing number of a finite
set), what the queue gains and Send takes from it. `NumberLemmas` has the
arithmetic and the facts on finite sets of numbers.

### Events, counters and the abstract sender (also `ClientOverUdp_proofs`)

- `OneChain`: `OneSendChain`.
- `BudgetIsKept`: at most `MaxPackets` datagrams, or the first one.
- `ClientRefines`: the client implements `SelectiveRepeat` if
  `0 < MaxPackets <= SeqMod`.

`OneChain` needs that nothing has been sent before the start, because the first
Send is scheduled whatever the budget is, and that the count of Send events is
0 or 1, so that the branch at the end of Send leaves the right one. `EventInv`
adds the chain of reports and the sum `m_sent = m_packetSent + m_packetRetrans`.

The refinement maps each handler to a step of the sender: a fresh Send to
`SendNew`, a retransmission to `Resend`, HandleRead to `Deliver`, the timeout of
a retransmitted packet to `Abandon`, everything else to `Lose` or to a stutter.
Budget and window of the abstract step come from `EventInv` (a pending Send
means budget left), `RetransCounted` (`m_packetRetrans` is the size of
`m_retransmitPackets`) and `WindowInv`. The assumption is needed: with
`MaxPackets` 0 one packet is sent over budget, and with more packets than
sequence numbers packets share their names.

### Timers (also `ClientOverUdp_proofs`)

- `TimersAgree`: `TimersMatch`; `NoneStranded`: `NoStrandedPacket`;
  `StopIsQuiet`: `QuietAfterStop`.
- `EchoedAreLeftAlone`, `EchoedInTimeAlways`: `EchoedInTime`.

The first three are one invariant, `TimerInv`. CancelTimers compares identities,
so it removes the right events only if identities differ (`EventsDiffer`: each
is the value `m_sent` had, and older than the next). Send overwrites the
`EventId` of the packet it sends, so that packet must not have a timer: a fresh
one has none because it was never sent (`SentOnly`), a retransmission has none
because a packet that waits for its first retransmission is untimed
(`WaitsUntimed`). That in turn is why a packet is never without both. The lemmas
`EnqueueAdds` and `AdvanceRemoves` say what the queue operations do to the set of
packets that wait, `CancelTimersExact`, `TransmitMatches` and `ExpiryMatches` what
the timer operations do to the map and the events.

`EchoedInTime` is about steps. HandleRead queues no packet that was received
(`LostBefore`); HandleTimeout queues the packet of a pending timer, and a packet
received before it was retransmitted has none (`SettledUntimed`, an invariant of
its own: HandleRead cancels it, a fresh Send is for a packet nobody has received,
and a retransmission is excepted). Send only takes packets out of the queue.

### The queue (also `ClientOverUdp_proofs`)

- `QueueIsBounded`: `QueueBound`; `CountersAddUp`: `Accounting`.
- `LossesBounded`: `m_packetLost <= 2 * m_packetSent`.

That a packet waits at most twice is not inductive: what can be added depends on
why it waits. `Bounded` keeps apart a packet with a timer (waits at most once,
before its retransmission not at all), one that a gap may still hit (its number
is at least `m_ackNum`; at most once) and the rest (at most twice).
`EnqueueOften` and `AdvanceOften` count the entries of a packet, over lemmas on
how often a sequence lists a member. `Accounting` needs that every packet in the
queue or retransmitted was counted in `m_packetLost`: `LossInv` bounds the size
of the union by the counter.

`LossesBounded` is the other side of `drop_rate`: the printed rate can pass 100 %,
but not 200 %. `ChanceInv` counts the chances a packet still has of being taken
for lost: its first timer (`TimedOnce`) and a gap (`Ahead`). Losses plus chances
are at most twice the packets sent: Send gives a new packet both, HandleTimeout
and HandleRead each use one up for what they count, and a retransmission takes
both away. That a timeout uses up a chance needs `TimersMatch`: the timer that
expires is the one the client knows of.

### The waits of Send (also `ClientOverUdp_proofs`)

- `WaitsAreTimed`: `WaitIsTimed`.

With the window full and nothing to retransmit Send does nothing but schedule
itself, so something else must open the window. This is the safety half of
`RunsToItsBudget`: a timer is there and its deadline is near; that it runs is the
simulator's part (fairness). The packet at the base has been sent and is not
settled (`WindowInv`), so it has a timer or waits for its retransmission
(`TimerInv`). It does not wait, because ranges are queued only behind a current
one and Send leaves none behind it when it stops retransmitting
(`NothingBehind`), and no timer is more than `RtoTicks - 1` intervals away
(`DueInTime`). `WaitInv`, which joins the two, is inductive relative to the types.

### The schedule of the timers (also `ClientOverUdp_proofs`)

- `UnitRangesAlways`: `RangesAreUnits`, from `ScheduleInvariant`.

Behind another packet, 65535 would be queued as `<65535, 0>`: 65535 + 1 does not
fit in a `uint16_t`, and Send, which counts in a `uint32_t`, would not end that
range. So the theorem is about what happens when and after the last number is
used, and cannot assume that there are numbers left. It says that packet 65535
only ever waits alone (`LastIsAlone`), where the end of its range is computed in
a `uint32_t`. The one condition is that the window is no larger than the
number of sequence numbers.

The reason is the time a retransmission takes. `Open` are the packets sent that
no echo has passed yet and that have not been retransmitted. Send sends one
datagram per interval, so no two timers are due in the same interval
(`DuesDiffer`), and open packets expire in the order in which they were sent
(`OpenInOrder`). Each packet that waits needs one interval, and before the timer
of an open packet there are at least as many free intervals, those in which no
other timer expires, as packets wait (`SlotsSuffice`). A Send that retransmits takes one interval and works off one
packet (`FreeLater`, `AdvanceWorksOff`); a timeout queues one packet and leaves its
own interval free (`FreeAfterExpiry`); a gap queues several and cancels their
timers, which frees as many (`GapMakesRoom`). When the timer of the last number
expires no interval is before it, so nothing waits; and no gap reaches the last
number, for there is no echo of a later one.

The invariant survives the end of the numbers: one that Send uses again is below
the window, hence received, hence passed by an echo or retransmitted before, so
it is not open again and nothing is asked of its timer (`FreshOpens`; this is
where `WindowSize <= SeqMod` is needed). Once Send has no event left the queue is
not worked off any more, and only `RangesAreUnits` itself is carried on
(`GoneForGood`).

### The payload (`PacketFill_proofs`)

- `BytesAreWritten`, `SizesStayEqual`, `PayloadIsAsAsked`: the three invariants of
  `PacketFill`, for every size and every set of byte values.

`FillInv` adds that `m_data` is a buffer of `m_dataSize` written bytes; a setter
starts from it or from a new one. All but one setter follow from what one
`memcpy` does (`CopiedFits`, `RepeatedBytes`). `SetFillPattern` needs what the loop
computes, which is a recursive function. Two facts replace the induction that the
provers cannot be given. A function that satisfies the recursion exists, because
one can be written down: `TiledFrom`, the pattern repeated behind what is already
filled, is unchanged by one more whole copy (`CopyThenTile`) and is what the last,
partial copy leaves (`LastCopyTiles`, `LoopRepeats`). And there is only one: of
the rounds where two solutions differ, the one with the least left to fill is
followed by a round where they agree (`RoundsAgree`, from the least element of a
set of numbers). So the loop computes `Repeated` (`TiledRepeats`). That the loop
condition does not wrap is `SumFits`, from `FillAssumption`.

### The scenario (`ReliableEcho_proofs`)

- `ScenarioInvariant`, `ScenarioTypes`, `ScenarioRefines`: the types, and the
  refinement of `ClientOverUdp`.

`Flight` is what `ClientOverUdp` calls `flight`: how often each number is listed
in the two lines. `Client` instantiates the proof module `ClientOverUdp_proofs` with
it, so once every step of the scenario is a step of `Client`
(`StepIsClientStep`) its theorems can be cited about the scenario. Joining a line
is a `Launch` (`JoinIsLaunch`), leaving it a `Land` (`TailIsLand`), and an echo
moves a datagram from one line to the other, which is a stutter, or loses it
(`EchoKeepsFlight`). The `Same...` lemmas say that the operators of the instance
are those of the scenario, which the provers do not see by themselves.

- `GapsAreLosses`, `SuccessesAreReal`.

Neither is inductive, and neither follows from the lines being first-in
first-out alone: a retransmission is behind packets that are later. `PathInv`
looks at both lines as one path to the client, `downlink \o uplink`. A packet
behind a later one has been sent again (`InOrder`): so what the gap rule finds
missing is not behind the echo that revealed it. And the echoes that will be
counted as echoes of retransmissions (`Late`: those below `m_ackNum`, or behind a
number at least as great) are, together with those counted, at most the
retransmissions. A step appends to the path or takes one datagram out of it, at
the front or at the seam of the two lines: `JoinedInOrder`, `JoinedLate`,
`WithoutInOrder` and `WithoutLate` say what that does to order and count.
`m_seqNum <= SeqMod` is needed, for a number given twice is late the second time.

- `ScenarioRefinesFleet`: the scenario implements `EchoFleet` with one client.

Each handler moves the counters as a step of the fleet (`ControlMoves`,
`SendMoves`, `TimeoutMoves`, `EchoMoves`, `ReceiveMoves`) or leaves them alone.
`ClientFacts` collects what those steps ask for, from the theorems about the
client: Send has budget left (`OneSendChain`), a retransmission follows a loss
(`Accounting`), a loss is one of two (`LossesBounded`), a timer expires only
while the client runs (`TimersAgree`, `StopIsQuiet`). A report brings the log up to
the counters because they fit in a word: `2 * SeqMod <= WordMod`, 2^17 and 2^32 in
the code.

### Several clients (`EchoFleet_proofs`)

- `FleetTypesHold`, `EchoesReturn`, `LogIsOfTheLast`, `CountersStayFit`.

`FleetInv` has, besides the types, what the helpers leave before the run
(`NothingRanYet`), the budget of each client (`BudgetKept`), the datagrams under
way (`EchoesKept`), that reports end with the client (`ReportsEnd`), and two facts
about the log: its lines always add up to `old` (`LogIsOld`), and once all clients
are stopped `old` is what the last one reported (`LastToStop`). The second
needs the first, and the first needs that `b + (a - b)` is `a` modulo 2^32, which
holds for numbers below 2^32 only (`DifferenceAddsUp`). So `CountersFit` is a
condition; `CountersStayFit` derives it from the budgets. `assn3.cc` asks for
1000000 packets, `MaxPackets` can be up to 2^32-1.

### MyApp (`MyApp_proofs`)

- `TypesHold`: `TypeOK`.
- `OneChainEach`: `OneSendChain` for any number of applications and packets,
  2^32-1 included. The strengthening `ChainInv` adds that an application runs
  exactly while its socket is connected.
- `SendsToConnected`: the action property `SendsOnlyWhenConnected`.
- `OffersWhatIsAsked`: `OffersAsAsked`, the safety half of `SendsAll`. `OfferInv`
  says that `m_packetsSent` counts the packets handed over and stays within
  `1 .. NPackets`, unless none is asked for; that no SendPacket comes after the
  last one is `OneSendChain`.

### The measurement (`Assignment01_proofs`)

- `MeasureTypesHold`, `RatesAreCounts`, `FlowsAreApart`.

The conjunction `MeasureInv` is inductive. `RatesAddUp` needs from the types that
the time since the last measurement is one period, so that dividing by it loses
nothing. `CreditedToItsFlow` needs that the sink of each destination is traced
with the context of the flow sent there (`ContextsMatch`).

### The LTE scenario (`LteMulticell_proofs`)

- `LteTypesHold`: the types, for any number of eNBs from two on.
- `TwoCellsAttachOnce`, `TwoCellsServeTheNearest`, `TwoCellsReported`: with two.
- `MoreCellsAttachWrongly`, `MoreCellsUnreported`: with more.

`LoopInv` says how far the loops are: `Cells(u, n)` counts the cells among the
first `n` that have UE `u`, and each UE has been attached that often
(`AttachedByCells`); the report so far is that of the first UEs (`PrintedSoFar`);
and nothing reaches a UE that is not attached (`ServedIfAttached`). For two eNBs
`Cells` is 1 everywhere. For more it is 2 for the third UE and 0 for the last,
which is what `lte_three_cells` finds for three.

### Only model-checked

- Liveness (`RunsToItsBudget`, `SendsAll`): TLAPS has no rules for fairness
  here. Their safety halves are proved (`WaitsAreTimed`, `NoneStranded` and
  `OneChain`; `OffersWhatIsAsked`).
- The statements the violation runs refute are not theorems, of course; what
  holds in their place is: `LoopsEnd` for `sequence_space`, `LossesBounded` for
  `drop_rate`, `NoneStranded` for `tail_packet`, `MoreCellsAttachWrongly` for
  `lte_three_cells`.

## 5. Not modelled

- The TCP traces and flow statistics of assignment 2 print what ns-3 counts.
- LTE downlink, Wi-Fi, CSMA, echo and point-to-point scenarios: straight-line
  configuration. The running average of week 5 is what assignment 1 replaced.
- ns-3 (event queue, sockets, links, TCP, LTE) is external: only what the
  programs rely on is in the models.
- Plots, shell scripts, container: input and output.
- In the client: trace callbacks, logging, addresses, IPv6 beside IPv4, the
  serialisation of the header but for its width.

## 6. Plan

Done: inventory; the client with its network, abstract specification, scenario
and helpers; several clients; payload, MyApp, measurement and LTE; the proofs of
every safety and action property that a passing run checks (with the conditions
of section 4), of the refinement of
`SelectiveRepeat` by the client, and of `ClientOverUdp` and `EchoFleet` by the
scenario.

Left:

1. A bound on how long a full window lasts, counted in Sends: `WaitsAreTimed`
   bounds one wait, and each packet can be waited for twice (its timer and that of
   its retransmission).
2. The second disturbing flow of `assn3.cc` as an action of its own, and the
   running average of week 5 compared with the measurement of assignment 1.
