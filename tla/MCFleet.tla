------------------------------- MODULE MCFleet -------------------------------
(* One or two clients, installed together or one after the other.            *)
EXTENDS EchoFleet

CONSTANTS a, b    \* nodes

OneOrTwoNodes == {<<a>>, <<a, b>>}
=============================================================================
