--------------------------- MODULE SelectiveRepeat ---------------------------
(***************************************************************************)
(* What the client of assignment03 promises about the datagrams it sends,  *)
(* without its timers, queues and events: a window of packets, each sent   *)
(* once and retransmitted at most once, and given up only after that.      *)
(***************************************************************************)
EXTENDS Integers, FiniteSets

CONSTANTS
    Packets,      \* the sequence numbers, from 0
    WindowSize,   \* how far the sender may run ahead
    Budget        \* datagrams the sender may hand to the network

VARIABLES
    base,      \* every packet below it is settled
    next,      \* the first packet not sent yet
    settled,   \* packets whose echo has arrived or that were given up
    resent,    \* packets sent twice
    flight     \* for each packet, its datagrams and echoes under way

srVars == <<base, next, settled, resent, flight>>

Init ==
    /\ base = 0
    /\ next = 0
    /\ settled = {}
    /\ resent = {}
    /\ flight = [s \in Packets |-> 0]

\* A datagram enters the network unless it is lost at once; it leaves it.
Launch(s) == flight' = [flight EXCEPT ![s] = @ + 1] \/ UNCHANGED flight
Land(s)   == flight[s] > 0 /\ flight' = [flight EXCEPT ![s] = @ - 1]

\* The window has room and the budget is not used up.
SendNew ==
    /\ next < base + WindowSize
    /\ next + Cardinality(resent) < Budget
    /\ next' = next + 1
    /\ Launch(next)
    /\ UNCHANGED <<base, settled, resent>>

Resend(s) ==
    /\ s < next
    /\ s \notin resent
    /\ next + Cardinality(resent) < Budget
    /\ resent' = resent \cup {s}
    /\ Launch(s)
    /\ UNCHANGED <<base, next, settled>>

\* Settle s and move the base to the first packet that is not settled.
Settle(s) ==
    /\ settled' = settled \cup {s}
    /\ base' \in base .. next
    /\ base' \notin settled'
    /\ \A b \in base .. base' - 1 : b \in settled'
    /\ UNCHANGED <<next, resent>>

\* An echo arrives: its packet is settled.
Deliver(s) == Land(s) /\ Settle(s)

\* A packet that was sent twice is given up.
Abandon(s) == s \in resent /\ Settle(s) /\ UNCHANGED flight

Lose(s) == Land(s) /\ UNCHANGED <<base, next, settled, resent>>

Next ==
    \/ SendNew
    \/ \E s \in Packets : Resend(s) \/ Deliver(s) \/ Abandon(s) \/ Lose(s)

Spec == Init /\ [][Next]_srVars
==============================================================================
