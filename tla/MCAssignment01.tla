---------------------------- MODULE MCAssignment01 ----------------------------
(* The flows of assignment01.cc with their starts (4 s, 10 s, 12 s) and stops *)
(* (25 s, 20 s, 28 s) in the same order, a few periods apart.                 *)
EXTENDS Assignment01

Starts == [FlowBack |-> 0, Flow1 |-> 1, Flow2 |-> 2]
Stops  == [FlowBack |-> 4, Flow1 |-> 3, Flow2 |-> 5]
===============================================================================
