----------------------------- MODULE MCPeerSync -----------------------------
(***************************************************************************)
(* Small instances of PeerSync.                                            *)
(***************************************************************************)
EXTENDS PeerSync

(* The nodes were started at different times. *)
MCUptime == [n \in Node |-> 4 * (n - 1)]

=============================================================================
