-------------------------- MODULE MCPeerMembership --------------------------
(***************************************************************************)
(* A small instance of PeerMembership.                                     *)
(***************************************************************************)
EXTENDS PeerMembership

(* Nodes 2 to 4 ask node 1, which asks node 5; node 5 was told its own     *)
(* address, and node 6 none.                                               *)
Arguments == [n \in Node |-> CASE n = 1 -> 5 [] n = 5 -> 5 [] n = 6 -> NoPeer [] OTHER -> 1]

=============================================================================
