------------------------- MODULE LteMulticell_proofs -------------------------
(***************************************************************************)
(* What the loops of main do for every number of eNBs: which UEs are       *)
(* attached how often, and which are reported.  Two eNBs are the one       *)
(* number they fit.                                                        *)
(***************************************************************************)
EXTENDS LteMulticell, FiniteSetTheorems, TLAPS

USE NodesAssumption

\* Where main is in its loops.
LoopBounds ==
    /\ step = "attach" => i < numberOfNodes
    /\ step = "report" => i < Sinks
    /\ step = "done" => i = Sinks

\* The eNBs the loop has been through.
Through == IF step = "attach" THEN i ELSE numberOfNodes

\* How many of the first n eNBs have UE u in their cell.
Cells(u, n) ==
    (IF u < n THEN 1 ELSE 0)
        + (IF 2 <= u /\ u - 2 < n THEN 1 ELSE 0)
        + (IF 4 <= u /\ u - 4 < n THEN 1 ELSE 0)

\* Each UE has been attached by every round that has it in its cell.
AttachedByCells ==
    \A u \in Ues :
        /\ Len(attached[u]) = Cells(u, Through)
        /\ \A k \in 1 .. Len(attached[u]) :
               attached[u][k] < Through /\ u \in Cell(attached[u][k])

\* The figures printed are those of the first UEs.
PrintedSoFar ==
    /\ step \in {"attach", "run"} => printed = <<>>
    /\ step \in {"report", "done"} => printed = [k \in 1 .. i |-> totalRx[k - 1]]

\* Nothing reaches a UE that is not attached.
ServedIfAttached == \A u \in Ues : attached[u] = <<>> => totalRx[u] = 0

LoopInv ==
    TypeOK /\ LoopBounds /\ AttachedByCells /\ PrintedSoFar /\ ServedIfAttached

----------------------------------------------------------------------------
LEMMA AppendedLast ==
    ASSUME NEW S, NEW s \in Seq(S), NEW x \in S
    PROVE  /\ Len(Append(s, x)) = Len(s) + 1
           /\ \A k \in 1 .. Len(s) : Append(s, x)[k] = s[k]
           /\ Append(s, x)[Len(s) + 1] = x
OBVIOUS

LEMMA AttachKeeps ==
    ASSUME LoopInv, Attach
    PROVE  LoopInv'
<1>1. /\ step = "attach" /\ i \in Enbs /\ i \in Nat /\ i' = i + 1
      /\ attached \in [Ues -> Seq(Enbs)]
      /\ printed = <<>>
    BY DEF LoopInv, TypeOK, LoopBounds, PrintedSoFar, Attach, Enbs
<1>2. /\ step' \in {"attach", "run"}
      /\ step' = "attach" => i' < numberOfNodes
      /\ Through = i /\ Through' = i + 1
    BY <1>1 DEF Attach, AllAttached, Through, Enbs
<1>3. ASSUME NEW u \in Ues
      PROVE  attached'[u] = IF u \in Cell(i) THEN Append(attached[u], i) ELSE attached[u]
    BY DEF Attach
<1>4. attached' \in [Ues -> Seq(Enbs)]
    <2>1. \A u \in Ues : (IF u \in Cell(i) THEN Append(attached[u], i) ELSE attached[u])
                             \in Seq(Enbs)
        BY <1>1
    <2> QED
        BY <2>1 DEF Attach
<1>5. ASSUME NEW u \in Ues
      PROVE  /\ Len(attached'[u]) = Cells(u, i + 1)
             /\ \A k \in 1 .. Len(attached'[u]) :
                    attached'[u][k] < i + 1 /\ u \in Cell(attached'[u][k])
    <2>1. /\ attached[u] \in Seq(Enbs) /\ u \in Nat
          /\ Len(attached[u]) = Cells(u, i)
          /\ \A k \in 1 .. Len(attached[u]) :
                 attached[u][k] < i /\ u \in Cell(attached[u][k])
        BY <1>1, <1>2 DEF LoopInv, AttachedByCells, Ues
    <2>2. CASE u \in Cell(i)
        <3>1. attached'[u] = Append(attached[u], i)
            BY <1>3, <2>2
        <3>2. Cells(u, i + 1) = Cells(u, i) + 1
            BY <1>1, <2>1, <2>2 DEF Cells, Cell
        <3>3. /\ Len(attached'[u]) = Len(attached[u]) + 1
              /\ \A k \in 1 .. Len(attached[u]) : attached'[u][k] = attached[u][k]
              /\ attached'[u][Len(attached[u]) + 1] = i
            BY <1>1, <2>1, <3>1, AppendedLast
        <3>4. ASSUME NEW k \in 1 .. Len(attached'[u])
              PROVE  attached'[u][k] < i + 1 /\ u \in Cell(attached'[u][k])
            <4>1. CASE k \in 1 .. Len(attached[u])
                <5>1. attached[u][k] \in Enbs /\ attached[u][k] < i
                    BY <2>1, <4>1
                <5> QED
                    BY <1>1, <2>1, <3>3, <4>1, <5>1 DEF Enbs
            <4>2. CASE k = Len(attached[u]) + 1
                BY <1>1, <2>2, <3>3, <4>2
            <4> QED
                BY <2>1, <3>3, <4>1, <4>2
        <3> QED
            BY <2>1, <3>2, <3>3, <3>4
    <2>3. CASE u \notin Cell(i)
        <3>1. attached'[u] = attached[u]
            BY <1>3, <2>3
        <3>2. Cells(u, i + 1) = Cells(u, i)
            BY <1>1, <2>1, <2>3 DEF Cells, Cell
        <3>3. \A k \in 1 .. Len(attached[u]) : attached[u][k] \in Enbs
            BY <2>1
        <3> QED
            BY <1>1, <2>1, <3>1, <3>2, <3>3 DEF Enbs
    <2> QED
        BY <2>2, <2>3
<1>6. TypeOK'
    BY <1>1, <1>2, <1>4 DEF LoopInv, TypeOK, Attach
<1>7. LoopBounds'
    BY <1>2 DEF LoopBounds
<1>8. AttachedByCells'
    BY <1>2, <1>5 DEF AttachedByCells
<1>9. PrintedSoFar'
    BY <1>1, <1>2 DEF PrintedSoFar, Attach
<1>10. ServedIfAttached'
    <2>1. ASSUME NEW u \in Ues, attached'[u] = <<>> PROVE attached[u] = <<>>
        <3>1. attached[u] \in Seq(Enbs) /\ Append(attached[u], i) # <<>>
            BY <1>1
        <3> QED
            BY <1>3, <2>1, <3>1
    <2>2. totalRx' = totalRx
        BY DEF Attach
    <2> QED
        BY <2>1, <2>2 DEF LoopInv, ServedIfAttached
<1> QED
    BY <1>6, <1>7, <1>8, <1>9, <1>10 DEF LoopInv

LEMMA TrafficKeeps ==
    ASSUME LoopInv, NEW u \in Ues, SendDatagram(u) \/ Deliver(u)
    PROVE  LoopInv'
<1>1. /\ step = "run" /\ UNCHANGED <<step, i, attached, printed>>
      /\ printed = <<>>
    BY DEF SendDatagram, Deliver, LoopInv, PrintedSoFar
<1>2. /\ sent \in [Ues -> 0 .. MaxDatagrams] /\ totalRx \in [Ues -> 0 .. MaxDatagrams]
      /\ sent[u] \in 0 .. MaxDatagrams /\ totalRx[u] \in 0 .. MaxDatagrams
      /\ ServedIfAttached
    BY DEF LoopInv, TypeOK
<1>3. /\ sent' \in [Ues -> 0 .. MaxDatagrams] /\ totalRx' \in [Ues -> 0 .. MaxDatagrams]
      /\ ServedIfAttached'
    <2>1. CASE SendDatagram(u)
        <3>1. sent[u] + 1 \in 0 .. MaxDatagrams
            BY <1>2, <2>1 DEF SendDatagram
        <3> QED
            BY <1>2, <2>1, <3>1 DEF SendDatagram, ServedIfAttached
    <2>2. CASE Deliver(u)
        <3>1. totalRx[u] + 1 \in 0 .. MaxDatagrams
            BY <1>2, <2>2 DEF Deliver
        <3> QED
            BY <1>2, <2>2, <3>1 DEF Deliver, ServedIfAttached
    <2> QED
        BY <2>1, <2>2
<1>4. TypeOK'
    BY <1>1, <1>3 DEF LoopInv, TypeOK
<1>5. LoopBounds' /\ AttachedByCells' /\ PrintedSoFar'
    BY <1>1
    DEF LoopInv, LoopBounds, AttachedByCells, Through, Cells, Cell, PrintedSoFar
<1> QED
    BY <1>3, <1>4, <1>5 DEF LoopInv

LEMMA StopKeeps ==
    ASSUME LoopInv, StopSimulation
    PROVE  LoopInv'
<1>1. /\ step = "run" /\ step' = "report" /\ i' = 0
      /\ UNCHANGED <<attached, sent, totalRx, printed>>
      /\ printed = <<>>
    BY DEF StopSimulation, LoopInv, PrintedSoFar
<1>2. printed' = [k \in 1 .. i' |-> totalRx'[k - 1]]
    BY <1>1
<1>3. TypeOK' /\ LoopBounds'
    BY <1>1 DEF LoopInv, TypeOK, LoopBounds, Sinks
<1>4. AttachedByCells'
    BY <1>1 DEF LoopInv, AttachedByCells, Through, Cells, Cell
<1> QED
    BY <1>1, <1>2, <1>3, <1>4 DEF LoopInv, PrintedSoFar, ServedIfAttached

LEMMA ReportKeeps ==
    ASSUME LoopInv, Report
    PROVE  LoopInv'
<1>1. /\ step = "report" /\ i \in Nat /\ i < Sinks /\ i' = i + 1
      /\ printed \in Seq(Nat) /\ printed = [k \in 1 .. i |-> totalRx[k - 1]]
      /\ printed' = Append(printed, totalRx[i])
      /\ UNCHANGED <<attached, sent, totalRx>>
    BY DEF Report, LoopInv, TypeOK, LoopBounds, PrintedSoFar
<1>2. totalRx[i] \in Nat
    <2>1. i \in Ues
        BY <1>1 DEF Ues, Sinks
    <2> QED
        BY <2>1 DEF LoopInv, TypeOK
<1>3. step' \in {"report", "done"}
    BY DEF Report
<1>4. TypeOK'
    BY <1>1, <1>2, <1>3 DEF LoopInv, TypeOK
<1>5. LoopBounds'
    BY <1>1, <1>3 DEF LoopBounds, Report, Sinks
<1>6. AttachedByCells'
    BY <1>1, <1>3 DEF LoopInv, AttachedByCells, Through, Cells, Cell
<1>7. printed' = [k \in 1 .. i' |-> totalRx'[k - 1]]
    <2>1. Len(printed) = i
        BY <1>1
    <2>2. /\ Len(printed') = i + 1
          /\ \A k \in 1 .. i : printed'[k] = totalRx[k - 1]
          /\ printed'[i + 1] = totalRx[i]
        <3>1. \A k \in 1 .. i : printed[k] = totalRx[k - 1]
            BY <1>1
        <3> QED
            BY <1>1, <1>2, <2>1, <3>1, AppendedLast
    <2>3. printed' \in Seq(Nat)
        BY <1>1, <1>2
    <2>4. printed' = [k \in 1 .. i + 1 |-> printed'[k]]
        BY <1>1, <2>2, <2>3
    <2>5. \A k \in 1 .. i + 1 : printed'[k] = totalRx'[k - 1]
        BY <1>1, <2>2
    <2> QED
        BY <1>1, <2>4, <2>5
<1> QED
    BY <1>1, <1>3, <1>4, <1>5, <1>6, <1>7 DEF LoopInv, PrintedSoFar, ServedIfAttached

\* What the loops of main have done so far, whatever the number of eNBs.
THEOREM LoopInvariant == Spec => []LoopInv
<1>1. Init => LoopInv
    <2> SUFFICES ASSUME Init PROVE LoopInv
        OBVIOUS
    <2>1. AttachedByCells
        BY DEF Init, AttachedByCells, Cells, Through, Ues
    <2> QED
        BY <2>1 DEF Init, LoopInv, TypeOK, LoopBounds, PrintedSoFar, ServedIfAttached, Sinks
<1>2. LoopInv /\ [Next]_vars => LoopInv'
    <2> SUFFICES ASSUME LoopInv, [Next]_vars PROVE LoopInv'
        OBVIOUS
    <2>1. CASE Attach
        BY <2>1, AttachKeeps
    <2>2. ASSUME NEW u \in Ues, SendDatagram(u) \/ Deliver(u) PROVE LoopInv'
        BY <2>2, TrafficKeeps
    <2>3. CASE StopSimulation
        BY <2>3, StopKeeps
    <2>4. CASE Report
        BY <2>4, ReportKeeps
    <2>5. CASE UNCHANGED vars
        BY <2>5 DEF vars, LoopInv, TypeOK, LoopBounds, AttachedByCells, Through, Cells, Cell,
                    PrintedSoFar, ServedIfAttached
    <2> QED
        BY <2>1, <2>2, <2>3, <2>4, <2>5 DEF Next
<1> QED
    BY <1>1, <1>2, PTL DEF Spec

\* The devices and applications main reads exist for any number of eNBs but
\* one: the loops stay within the UEs and the eNBs.
THEOREM LteTypesHold == Spec => []TypeOK
BY LoopInvariant, PTL DEF LoopInv

----------------------------------------------------------------------------
(* Two eNBs, and more.                                                     *)

\* With two eNBs, as main has by default, every UE is attached to one of them.
THEOREM TwoCellsAttachOnce ==
    ASSUME numberOfNodes = 2
    PROVE  Spec => []AttachedOnce
<1>1. ASSUME LoopInv PROVE AttachedOnce
    <2> SUFFICES ASSUME step # "attach", NEW u \in Ues PROVE Len(attached[u]) = 1
        BY DEF AttachedOnce
    <2>1. Len(attached[u]) = Cells(u, 2)
        BY <1>1 DEF LoopInv, AttachedByCells, Through
    <2> QED
        BY <2>1 DEF Cells, Ues
<1> QED
    BY <1>1, LoopInvariant, PTL

\* With any other number they are not: the third UE is attached to two eNBs,
\* and the last one to none, so that no datagram ever reaches it.
LastUe == 3 * numberOfNodes - 1
THEOREM MoreCellsAttachWrongly ==
    ASSUME numberOfNodes > 2
    PROVE  Spec => [](step # "attach" =>
                          /\ Len(attached[2]) = 2
                          /\ attached[LastUe] = <<>> /\ totalRx[LastUe] = 0)
<1>1. ASSUME LoopInv, step # "attach"
      PROVE  /\ Len(attached[2]) = 2
             /\ attached[LastUe] = <<>> /\ totalRx[LastUe] = 0
    <2>1. 2 \in Ues /\ LastUe \in Ues
        BY DEF Ues, LastUe
    <2>2. /\ Len(attached[2]) = Cells(2, numberOfNodes)
          /\ Len(attached[LastUe]) = Cells(LastUe, numberOfNodes)
        BY <1>1, <2>1 DEF LoopInv, AttachedByCells, Through
    <2>3. Cells(2, numberOfNodes) = 2 /\ Cells(LastUe, numberOfNodes) = 0
        BY DEF Cells, LastUe
    <2>4. attached[LastUe] \in Seq(Enbs)
        BY <1>1, <2>1 DEF LoopInv, TypeOK
    <2>5. Len(attached[2]) = 2 /\ attached[LastUe] = <<>>
        BY <2>2, <2>3, <2>4
    <2> QED
        BY <1>1, <2>1, <2>5 DEF LoopInv, ServedIfAttached
<1> QED
    BY <1>1, LoopInvariant, PTL

LEMMA DistancesOfTwo ==
    ASSUME numberOfNodes = 2, NEW u \in 0 .. 5, NEW e \in 0 .. 1, NEW f \in 0 .. 1,
           u = e \/ u = e + 2 \/ u = e + 4
    PROVE  Distance2(UePosition(u), EnbPosition(e))
               <= Distance2(UePosition(u), EnbPosition(f))
<1>1. /\ Position(0) = <<-100, 0>> /\ Position(1) = <<100, 0>>
      /\ Position(2) = <<-100, 10>> /\ Position(3) = <<100, 10>>
      /\ Position(4) = <<-100, -100>> /\ Position(5) = <<100, -100>>
      /\ Position(6) = <<-1, 0>> /\ Position(7) = <<1, 0>>
    BY DEF Position, Positions
<1>2. CASE e = 0
    BY <1>1, <1>2 DEF Distance2, UePosition, EnbPosition
<1>3. CASE e = 1
    BY <1>1, <1>3 DEF Distance2, UePosition, EnbPosition
<1> QED
    BY <1>2, <1>3

\* With two eNBs no UE is served by the more distant one.
THEOREM TwoCellsServeTheNearest ==
    ASSUME numberOfNodes = 2
    PROVE  Spec => []NearestCell
<1>1. ASSUME LoopInv PROVE NearestCell
    <2> SUFFICES ASSUME NEW u \in Ues, NEW e \in Range(attached[u]), NEW f \in Enbs
                 PROVE  Distance2(UePosition(u), EnbPosition(e))
                            <= Distance2(UePosition(u), EnbPosition(f))
        BY DEF NearestCell
    <2>1. attached[u] \in Seq(Enbs)
        BY <1>1 DEF LoopInv, TypeOK
    <2>2. PICK k \in 1 .. Len(attached[u]) : attached[u][k] = e
        BY <2>1 DEF Range
    <2>3. e \in Enbs /\ u \in Cell(e)
        BY <1>1, <2>1, <2>2 DEF LoopInv, AttachedByCells
    <2>4. /\ u \in 0 .. 5 /\ e \in 0 .. 1 /\ f \in 0 .. 1
          /\ u = e \/ u = e + 2 \/ u = e + 4
        BY <2>3 DEF Ues, Enbs, Cell
    <2> QED
        BY <2>4, DistancesOfTwo
<1> QED
    BY <1>1, LoopInvariant, PTL

\* The report is about the first six UEs, so it is complete for two eNBs ...
THEOREM TwoCellsReported ==
    ASSUME numberOfNodes = 2
    PROVE  Spec => []EveryUeReported
<1>1. Cardinality(Ues) = 6
    <2>1. Ues = 0 .. 5
        BY DEF Ues
    <2>2. Cardinality(0 .. 5) = IF 0 > 5 THEN 0 ELSE 5 - 0 + 1
        <3>1. 0 \in Int /\ 5 \in Int
            OBVIOUS
        <3> QED
            BY <3>1, FS_Interval, Zenon
    <2> QED
        BY <2>1, <2>2
<1>2. LoopInv => EveryUeReported
    BY <1>1 DEF LoopInv, LoopBounds, PrintedSoFar, EveryUeReported, Sinks
<1> QED
    BY <1>2, LoopInvariant, PTL

\* ... and for no more than that: the others are left out.
THEOREM MoreCellsUnreported ==
    ASSUME numberOfNodes > 2
    PROVE  Spec => [](step = "done" => Len(printed) < Cardinality(Ues))
<1>1. Cardinality(Ues) = 3 * numberOfNodes
    <2>1. Cardinality(0 .. LastUe) = LastUe - 0 + 1
        <3>1. 0 \in Int /\ LastUe \in Int /\ 0 <= LastUe
            BY DEF LastUe
        <3> QED
            BY <3>1, FS_Interval
    <2> QED
        BY <2>1 DEF Ues, LastUe
<1>2. LoopInv => (step = "done" => Len(printed) < Cardinality(Ues))
    <2> SUFFICES ASSUME LoopInv, step = "done" PROVE Len(printed) < Cardinality(Ues)
        OBVIOUS
    <2>1. i = 6 /\ printed = [k \in 1 .. i |-> totalRx[k - 1]] /\ printed \in Seq(Nat)
        BY DEF LoopInv, LoopBounds, PrintedSoFar, Sinks, TypeOK
    <2>2. Len(printed) = 6
        BY <2>1
    <2> QED
        BY <1>1, <2>2
<1> QED
    BY <1>2, LoopInvariant, PTL
===============================================================================
