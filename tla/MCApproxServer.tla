--------------------------- MODULE MCApproxServer ---------------------------
(***************************************************************************)
(* Small instances of ApproxServer.                                        *)
(***************************************************************************)
EXTENDS ApproxServer, TLC

(* "Ab" waits one second for its STATE, "abc" three. *)
MCDelay == [id \in PlayerId |-> IF id = "Ab" THEN 1 ELSE 3]

(* A connection's address is only ever compared for equality. *)
AddrSymmetry == Permutations(Addr)

=============================================================================
