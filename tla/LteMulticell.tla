----------------------------- MODULE LteMulticell -----------------------------
(***************************************************************************)
(* The downlink of week13/week13_lte-multicell-skel.cc: main attaches the  *)
(* user equipments (UEs) to the base stations (eNBs), one client per UE    *)
(* sends to it from the remote host, and main reports what the sinks have  *)
(* received.                                                               *)
(***************************************************************************)
EXTENDS Integers, Sequences, FiniteSets, Functions

CONSTANTS
    numberOfNodes,    \* a command line argument: eNBs, and a third of the UEs
    MaxDatagrams      \* bound of the model: datagrams of one client

\* With a single eNB, main reads devices and applications that do not exist.
ASSUME NodesAssumption == numberOfNodes \in Nat \ {0, 1} /\ MaxDatagrams \in Nat

VARIABLES
    step,        \* what main does: "attach", "run", "report", "done"
    i,           \* the counter of main's loops
    attached,    \* the eNBs each UE was attached to, in this order
    sent,        \* datagrams sent to each UE
    totalRx,     \* datagrams each sink has received
    printed      \* the figures reported for the UEs

vars == <<step, i, attached, sent, totalRx, printed>>

Enbs == 0 .. numberOfNodes - 1
Ues  == 0 .. 3 * numberOfNodes - 1

Init ==
    /\ step = "attach"
    /\ i = 0
    /\ attached = [u \in Ues |-> <<>>]
    /\ sent = [u \in Ues |-> 0]
    /\ totalRx = [u \in Ues |-> 0]
    /\ printed = <<>>

----------------------------------------------------------------------------
\* The positions handed out in turn, to the eNBs first.
Positions ==
    << <<-100, 0>>, <<100, 0>>, <<-100, 10>>, <<100, 10>>,
       <<-100, -100>>, <<100, -100>>, <<-1, 0>>, <<1, 0>> >>
Position(node) == Positions[(node % Len(Positions)) + 1]

EnbPosition(e) == Position(e)
UePosition(u)  == Position(numberOfNodes + u)

\* The UEs main attaches to eNB e.
Adjacent(e) == {e, e + 1, e + 2}
Cell(e)     == {e, e + 2, e + 4}

\* Is the loop over once i has become n?
OneRoundMore(n) == n > numberOfNodes
AllAttached(n)  == n = numberOfNodes

\* One round of the loop that attaches the UEs.
Attach ==
    /\ step = "attach"
    /\ attached' = [u \in Ues |-> IF u \in Cell(i) THEN Append(attached[u], i)
                                                  ELSE attached[u]]
    /\ i' = i + 1
    /\ step' = IF AllAttached(i') THEN "run" ELSE "attach"
    /\ UNCHANGED <<sent, totalRx, printed>>

\* While the simulation runs: the client of u sends a datagram ...
SendDatagram(u) ==
    /\ step = "run"
    /\ sent[u] < MaxDatagrams
    /\ sent' = [sent EXCEPT ![u] = @ + 1]
    /\ UNCHANGED <<step, i, attached, totalRx, printed>>

\* ... and an eNB that serves u brings it to the sink of u.
Deliver(u) ==
    /\ step = "run"
    /\ totalRx[u] < sent[u]
    /\ attached[u] # <<>>
    /\ totalRx' = [totalRx EXCEPT ![u] = @ + 1]
    /\ UNCHANGED <<step, i, attached, sent, printed>>

\* Simulator::Stop
StopSimulation ==
    /\ step = "run"
    /\ step' = "report"
    /\ i' = 0
    /\ UNCHANGED <<attached, sent, totalRx, printed>>

\* How many UEs are reported.
SinksButLast == 5
Sinks        == 6

\* One round of the loop that prints the throughput of the UEs.
Report ==
    /\ step = "report"
    /\ printed' = Append(printed, totalRx[i])
    /\ i' = i + 1
    /\ step' = IF i' = Sinks THEN "done" ELSE "report"
    /\ UNCHANGED <<attached, sent, totalRx>>

Next ==
    \/ Attach
    \/ \E u \in Ues : SendDatagram(u) \/ Deliver(u)
    \/ StopSimulation
    \/ Report

Spec == Init /\ [][Next]_vars

----------------------------------------------------------------------------
TypeOK ==
    /\ step \in {"attach", "run", "report", "done"}
    /\ i \in Nat
    /\ attached \in [Ues -> Seq(Enbs)]
    /\ sent \in [Ues -> 0 .. MaxDatagrams]
    /\ totalRx \in [Ues -> 0 .. MaxDatagrams]
    /\ printed \in Seq(Nat)

\* "Number of eNodeBs + UE pairs": once the simulation runs, every UE has been
\* attached to an eNB, and to one only.
AttachedOnce == step # "attach" => \A u \in Ues : Len(attached[u]) = 1

\* The loop that attaches the UEs fits the list of positions: no UE is served
\* by an eNB while another one is nearer.
Distance2(p, q) == (p[1] - q[1]) * (p[1] - q[1]) + (p[2] - q[2]) * (p[2] - q[2])
NearestCell ==
    \A u \in Ues : \A e \in Range(attached[u]), f \in Enbs :
        Distance2(UePosition(u), EnbPosition(e))
            <= Distance2(UePosition(u), EnbPosition(f))

\* In the end there is a figure for every UE, and it is the UE's own.
EveryUeReported == step = "done" => printed = [u \in 1 .. Cardinality(Ues) |-> totalRx[u - 1]]
===============================================================================
