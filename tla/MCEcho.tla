------------------------------- MODULE MCEcho -------------------------------
(* The scenario of assn3.cc with a handful of packets.                       *)
EXTENDS ReliableEcho

\* The destructor prints "Packet Drop Rate: " in per cent of the packets sent:
\* no packet is lost more often than it was sent first.
DropRateIsAPercentage == DropRate <= 100
=============================================================================
