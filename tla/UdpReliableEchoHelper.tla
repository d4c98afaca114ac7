----------------------- MODULE UdpReliableEchoHelper -----------------------
(***************************************************************************)
(* The helpers of assignment03/udp-reliable-echo-helper.  The server's and *)
(* the client's helper are alike: an object factory with attributes, which *)
(* creates one application for every node of a container and adds it to    *)
(* that node.  EchoFleet has an instance for each.                         *)
(***************************************************************************)
EXTENDS Sequences

VARIABLES
    m_factory,   \* the attributes of the next application
    apps         \* the applications created so far, in order

SetAttribute(name, value) ==
    /\ m_factory' = [m_factory EXCEPT ![name] = value]
    /\ UNCHANGED apps

\* The application created for a node: its attributes are those of the factory
\* now, whatever is set later.
InstallPriv(node) == [node |-> node, attributes |-> m_factory]

Install(container) ==
    /\ apps' = apps \o [i \in DOMAIN container |-> InstallPriv(container[i])]
    /\ UNCHANGED m_factory
=============================================================================
