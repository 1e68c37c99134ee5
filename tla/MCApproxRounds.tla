--------------------------- MODULE MCApproxRounds ---------------------------
(***************************************************************************)
(* ApproxServer with the history of a game: how many correct PUTs the      *)
(* server has processed in it, whoever sent them.                          *)
(***************************************************************************)
EXTENDS MCApproxServer

VARIABLE processed

RoundInit == Init /\ processed = 0

(* Only a correct PUT raises total_correct_puts, and only a reset, after   *)
(* the end of a game, takes stopping back.                                 *)
RoundNext ==
    /\ Next
    /\ processed' = IF stopping /\ ~stopping' THEN 0
                    ELSE IF total_correct_puts' > total_correct_puts THEN processed + 1
                    ELSE processed

RoundSpec == RoundInit /\ [][RoundNext]_<<vars, processed>>

(* README.md: the game ends after a collective total of M valid PUT        *)
(* commands have been processed by the server across all players.          *)
EndsAfterMPuts == processed >= M => stopping

=============================================================================
