------------------------------- MODULE MCMyApp --------------------------------
(* Three applications as in week10_modify.cc, with a few packets each.        *)
EXTENDS MyApp, TLC

CONSTANTS a, b, c

AppSet == {a, b, c}

\* No packets, one packet, and the largest number a uint32_t holds.
PacketsOf == a :> 0 @@ b :> 1 @@ c :> WordMod - 1
===============================================================================
