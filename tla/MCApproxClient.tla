--------------------------- MODULE MCApproxClient ---------------------------
(***************************************************************************)
(* Small instances of ApproxClient.                                        *)
(***************************************************************************)
EXTENDS ApproxClient

(* Over the points 0, 1, 2: -6, -3, 6, where the best point is not known   *)
(* at first and two errors are equally large.                              *)
MCCoeffs == {<<-6, 0, 3>>}

(* The powers fit an int of eight bits, as BestPutIsTaken requires.        *)
ASSUME FitAssumption == PowersFit

=============================================================================
