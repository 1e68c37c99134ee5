----------------------------- MODULE ApproxWire -----------------------------
(***************************************************************************)
(* Messages of the-great-approximator on a TCP connection: the sender      *)
(* writes them as MsgParser does, the connection hands the symbols over in *)
(* pieces of any length, and the receiver, network_receiver of the client  *)
(* or handle_read_from_client of the server, cuts lines out of its buffer  *)
(* and parses them.  The other end may also be a program that writes any   *)
(* PUT it likes.                                                           *)
(***************************************************************************)
EXTENDS MsgParser

CONSTANTS
    Samples,       \* messages the programs send
    RawSymbols,    \* symbols of the lines another program sends
    MaxRaw,        \* bound: length of the parameters of such a line
    MaxSent        \* bound: messages sent

ASSUME WireAssumption == MaxRaw \in Nat /\ MaxSent \in Nat

VARIABLES
    sent,          \* what the lines sent mean
    wire,          \* symbols sent and not received
    buffer,        \* recv_buffer, client_buffers[fd]
    received       \* what the receiver has understood

vars == <<sent, wire, buffer, received>>

Init == sent = <<>> /\ wire = <<>> /\ buffer = <<>> /\ received = <<>>

-----------------------------------------------------------------------------
(* What a PUT of another program means, by the shape of its text: an       *)
(* integer, a space, and a decimal number of which either side of the      *)
(* point may be missing, but not both.                                     *)

DigitsAt(str, first, last) == \A k \in first..last : isdigit(str[k])

IsDecimal(str) ==
    \E sign, point \in {0, 1}, whole \in 0..Len(str), fraction \in 0..max_fractional_digits :
        /\ sign + whole + point + fraction = Len(str)
        /\ whole + fraction > 0 /\ (fraction > 0 => point = 1)
        /\ sign = 1 => str[1] = "-"
        /\ DigitsAt(str, sign + 1, sign + whole)
        /\ point = 1 => str[sign + whole + 1] = "."
        /\ DigitsAt(str, sign + whole + point + 1, Len(str))

(* The worth of each digit is given by where it stands. *)
DecimalWorth(str) ==
    LET point == SelectInSeq(Append(str, "."), LAMBDA c : c = ".")
        place(k) == max_fractional_digits + (IF k < point THEN point - 1 - k ELSE point - k)
        worth(k) == IF isdigit(str[k])
                    THEN (SelectInSeq(Digits, LAMBDA d : d = str[k]) - 1) * 10^place(k) ELSE 0
        total == FoldLeft(LAMBDA n, k : n + worth(k), 0, [k \in DOMAIN str |-> k])
    IN  IF str[1] = "-" THEN -total ELSE total

PutMeaning(str) ==
    LET one == 10^max_fractional_digits
        space == SelectInSeq(Append(str, " "), LAMBDA c : c = " ")
        point == SubSeq(str, 1, space - 1)
        value == From(str, space + 1)
    IN  IF /\ IsDecimal(point) /\ ~Contains(point, ".") /\ IsDecimal(value)
           /\ DecimalWorth(point) \div one \in -(2^(IntBits - 1))..(2^(IntBits - 1) - 1)
        THEN MakeMessage("PUT", <<>>, <<DecimalWorth(point) \div one, DecimalWorth(value)>>)
        ELSE NoMessage

-----------------------------------------------------------------------------
(* The scoreboard arrives in the order of the names. *)
Send(m) ==
    /\ Len(sent) < MaxSent /\ ~Contains(sent, NoMessage)
    /\ sent' = Append(sent, IF m.type = "SCORING" THEN Sorted(m) ELSE m)
    /\ wire' = wire \o getRawMessage(m)
    /\ UNCHANGED <<buffer, received>>

SendRaw(str) ==
    /\ sent = <<>>
    /\ sent' = <<PutMeaning(str)>>
    /\ wire' = <<"PUT", " ">> \o str \o crlf
    /\ UNCHANGED <<buffer, received>>

(* The positions of CRLF. *)
LineEnds(str) == {k \in 1..(Len(str) - 1) : str[k] = "CR" /\ str[k + 1] = "LF"}

(* The lines cut from the buffer in one read.  Mutant: only one of them.   *)
LinesOf_OnlyFirst(str) ==
    IF LineEnds(str) = {} THEN <<>> ELSE <<SubSeq(str, 1, Min(LineEnds(str)) - 1)>>
LinesOf(str) == Pieces(str, LineEnds(str), 2)
RestOf(str, lines) == From(str, 1 + Len(FlattenSeq(lines)) + 2 * Len(lines))

Recv(n) ==
    LET all == buffer \o SubSeq(wire, 1, n)
        lines == LinesOf(all) IN
    /\ n \in 1..Len(wire)
    /\ wire' = From(wire, n + 1)
    /\ buffer' = RestOf(all, lines)
    /\ received' = received \o [k \in DOMAIN lines |-> createMessage(lines[k] \o crlf)]
    /\ UNCHANGED sent

Next ==
    \/ \E m \in Samples : Send(m)
    \/ \E str \in BoundedSeq(RawSymbols, MaxRaw) : SendRaw(str)
    \/ \E n \in 1..Len(wire) : Recv(n)

Spec == Init /\ [][Next]_vars

-----------------------------------------------------------------------------
(* Properties *)

(* However the connection cuts the text up, the receiver understands what  *)
(* was said, all of it, in order: a message of the programs comes out as   *)
(* it went in, down to the sign and the last digit, and of the lines of    *)
(* another program exactly the well-formed PUTs are taken, for their       *)
(* worth.                                                                  *)
Understood ==
    /\ IsPrefix(received, sent)
    /\ wire = <<>> => received = sent

(* A line is handled by the read that completes it, also when that read    *)
(* completes several or begins between CR and LF: nothing would wake the   *)
(* receiver for a line it left in its buffer.                              *)
NoLineWaits == LineEnds(buffer) = {}

(* What was understood can be said again, and is understood as the same:   *)
(* the server answers a PUT by BAD_PUT or PENALTY with the numbers it      *)
(* read, and uses the result of createMessage unchecked.                   *)
CanBeSaidAgain ==
    \A k \in DOMAIN received :
        LET m == received[k] IN
        m # NoMessage =>
            \A type \in IF m.type = "PUT" THEN {"PUT", "BAD_PUT", "PENALTY"} ELSE {m.type} :
                createMessage(getRawMessage([m EXCEPT !.type = type])) = [m EXCEPT !.type = type]

=============================================================================
