--------------------------- MODULE ApproxSession ----------------------------
(***************************************************************************)
(* What the game server promises one client: the conversation over one     *)
(* connection, without the other players, the poll loop, the timers and    *)
(* the descriptors.  ApproxServer keeps this promise to every address      *)
(* (SessionsAreServed), and it is what ApproxClient plays against.         *)
(***************************************************************************)
EXTENDS ApproxRules

VARIABLES
    requests,   \* lines the client has sent and the server has not handled
    answers,    \* answers given and not yet received by the client
    seat        \* what the server knows of this client

vars == <<requests, answers, seat>>

(* "owed" counts the delayed answers on their way and "over" tells that    *)
(* the game has ended and only the end of the connection is left.          *)
Seat == [open : BOOLEAN, known : BOOLEAN, can_put : BOOLEAN, over : BOOLEAN,
         owed : [{"STATE", "BAD_PUT"} -> Nat], approximations : Approximation]

NewSeat == [open |-> TRUE, known |-> FALSE, can_put |-> FALSE, over |-> FALSE,
            owed |-> [kind \in {"STATE", "BAD_PUT"} |-> 0], approximations |-> Zeros]
ClosedSeat == [NewSeat EXCEPT !.open = FALSE]

Init == requests = <<>> /\ answers = <<>> /\ seat = NewSeat

-----------------------------------------------------------------------------
(* The client. *)
SendLine(line) ==
    /\ requests' = Append(requests, line)
    /\ UNCHANGED <<answers, seat>>

Receive(n) ==
    /\ n \in 1..Len(answers)
    /\ answers' = SubSeq(answers, n + 1, Len(answers))
    /\ UNCHANGED <<requests, seat>>

-----------------------------------------------------------------------------
(* The server. *)
Serves == seat.open /\ ~seat.over

Line == Head(requests)
Takes ==
    /\ Serves /\ requests # <<>>
    /\ requests' = Tail(requests)

TakeHello ==
    /\ Takes /\ Line[1] = "HELLO" /\ ~seat.known
    /\ seat' = [seat EXCEPT !.known = TRUE, !.can_put = TRUE]
    /\ answers' = Append(answers, "COEFF")

(* An early PUT is penalised at once, one out of range is answered later,  *)
(* and a PUT that is both gets both.                                       *)
TakeRejectedPut ==
    /\ Takes /\ Line[1] = "PUT" /\ seat.known
    /\ LET bad == OutOfRange(Line[2], Line[3]) IN
        /\ ~seat.can_put \/ bad
        /\ seat' = [seat EXCEPT !.can_put = FALSE,
                                !.owed["BAD_PUT"] = IF bad THEN @ + 1 ELSE @]
    /\ answers' = IF seat.can_put THEN answers ELSE Append(answers, "PENALTY")

(* A correct PUT is applied and its STATE is owed; it may be the one that  *)
(* ends the game.                                                          *)
TakePut(last) ==
    /\ Takes /\ Line[1] = "PUT" /\ seat.known
    /\ seat.can_put /\ ~OutOfRange(Line[2], Line[3])
    /\ seat' = [seat EXCEPT !.can_put = FALSE, !.owed["STATE"] = @ + 1, !.over = last,
                            !.approximations = Put(@, Line[2], Line[3])]
    /\ answers' = IF last THEN Append(answers, "SCORING") ELSE answers

TakeIgnored ==
    /\ Takes /\ Line[1] # "PUT" /\ seat.known
    /\ UNCHANGED <<answers, seat>>

(* A delayed answer is given, and the client may PUT again. *)
Answer(kind) ==
    /\ Serves /\ seat.owed[kind] > 0
    /\ seat' = [seat EXCEPT !.owed[kind] = @ - 1, !.can_put = TRUE]
    /\ answers' = Append(answers, kind)
    /\ UNCHANGED requests

(* Somebody else's PUT ends the game. *)
GameOver ==
    /\ Serves
    /\ seat' = [seat EXCEPT !.over = TRUE]
    /\ answers' = IF seat.known THEN Append(answers, "SCORING") ELSE answers
    /\ UNCHANGED requests

(* The connection ends, for whatever reason, and any part of what the      *)
(* client has not received yet may be lost with it.  Requests that are     *)
(* left were not read: the kernel answers them by a reset.                 *)
Close ==
    /\ seat.open
    /\ seat' = ClosedSeat
    /\ \E n \in 0..Len(answers) : answers' = SubSeq(answers, 1, n)
    /\ requests' \in {<<>>, requests}

(* Every line has its action except the first one of a client when it is   *)
(* no HELLO, and any HELLO the server has no coefficients left for: there  *)
(* is only Close for those.                                                *)
TakeLine == TakeHello \/ TakeRejectedPut \/ (\E last \in BOOLEAN : TakePut(last)) \/ TakeIgnored

ServerStep == TakeLine \/ (\E kind \in {"STATE", "BAD_PUT"} : Answer(kind)) \/ GameOver \/ Close

Next ==
    \/ \E line \in ClientLine : SendLine(line)
    \/ \E n \in 1..Len(answers) : Receive(n)
    \/ ServerStep

Spec == Init /\ [][Next]_vars

=============================================================================
