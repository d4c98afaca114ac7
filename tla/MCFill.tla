-------------------------------- MODULE MCFill --------------------------------
(* All sequences of setters with two byte values and packets of a few bytes.  *)
EXTENDS PacketFill
===============================================================================
