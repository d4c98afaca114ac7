-------------------------------- MODULE MCLte ---------------------------------
(* Two cells, as the program runs by default, and three.                      *)
EXTENDS LteMulticell
===============================================================================
