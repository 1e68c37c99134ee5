----------------------------- MODULE MsgParser ------------------------------
(***************************************************************************)
(* The text protocol of the-great-approximator, msg_parser.cpp: which      *)
(* lines are messages, what they say, and how a message is written.        *)
(*                                                                         *)
(* A text is a sequence of symbols, a symbol one character, except that    *)
(* the name of a command, which is only ever compared as a whole, is one   *)
(* symbol, and so are CR and LF.  A double is the whole number of units of *)
(* its last fractional digit; what a double cannot hold of a longer number *)
(* is left out.                                                            *)
(***************************************************************************)
EXTENDS Integers, SequencesExt

CONSTANTS
    max_fractional_digits,  \* constants.h, 7 in the build
    max_n, max_k,           \* constants.h: degree and points
    max_coeff,              \* constants.h: bound of a coefficient, in ones
    IntBits,                \* width of an int, 32 in the build
    Letters                 \* the letters in use, in the order of their codes

ASSUME ParserAssumption ==
    /\ max_fractional_digits \in Nat \ {0}
    /\ max_n \in Nat /\ max_k \in Nat /\ max_coeff \in Nat
    /\ IntBits \in Nat \ {0}

Digits == <<"0", "1", "2", "3", "4", "5", "6", "7", "8", "9">>
Command == {"HELLO", "COEFF", "PUT", "BAD_PUT", "STATE", "PENALTY", "SCORING"}
crlf == <<"CR", "LF">>

isdigit(c) == c \in ToSet(Digits)
isalnum(c) == isdigit(c) \/ c \in ToSet(Letters) \/ c \in Command \ {"BAD_PUT"}
isAlphanumeric(str) == \A k \in DOMAIN str : isalnum(str[k])

From(str, k) == SubSeq(str, k, Len(str))
StartsWith(str, c) == str # <<>> /\ Head(str) = c

-----------------------------------------------------------------------------
(* Numbers *)

Unsigned(str) == IF StartsWith(str, "-") THEN Tail(str) ELSE str
DigitCount(str) == Max({n \in 0..Len(str) : \A k \in 1..n : isdigit(str[k])})
Natural(str) ==
    FoldLeft(LAMBDA n, c : 10 * n + SelectInSeq(Digits, LAMBDA d : d = c) - 1, 0, str)
Signed(str, n) == IF StartsWith(str, "-") THEN -n ELSE n

isValidIntegerStringFormat(str) ==
    Unsigned(str) # <<>> /\ DigitCount(Unsigned(str)) = Len(Unsigned(str))

IntegerOf(str) == Signed(str, Natural(Unsigned(str)))
parseInteger(str) ==
    /\ isValidIntegerStringFormat(str)
    /\ IntegerOf(str) \in -(2^(IntBits - 1))..(2^(IntBits - 1) - 1)

(* The digits in front of the point, and what is behind it. *)
Whole(str) == SubSeq(Unsigned(str), 1, DigitCount(Unsigned(str)))
Behind(str) ==
    LET rest == From(Unsigned(str), Len(Whole(str)) + 1)
    IN  IF StartsWith(rest, ".") THEN Tail(rest) ELSE rest

isValidDoubleStringFormat(str) ==
    LET fractional == DigitCount(Behind(str)) IN
    /\ fractional <= max_fractional_digits
    /\ Len(Whole(str)) + fractional > 0
    /\ fractional = Len(Behind(str))

Padding(n) == [k \in 1..n |-> "0"]
DoubleOf(str) ==
    Signed(str, Natural(Whole(str) \o Behind(str)
                          \o Padding(max_fractional_digits - Len(Behind(str)))))

to_string(n) ==
    LET m == IF n < 0 THEN -n ELSE n
        length == CHOOSE l \in 1..20 : m < 10^l /\ (l = 1 \/ m >= 10^(l - 1))
    IN  (IF n < 0 THEN <<"-">> ELSE <<>>)
          \o [k \in 1..length |-> Digits[((m \div 10^(length - k)) % 10) + 1]]

(* std::fixed with max_fractional_digits.  One mutant puts the sign in     *)
(* with the digits in front of the point, and loses it when these are 0;   *)
(* the other writes one digit more than the parser takes.                  *)
doubleToString_SignOfWhole(u) ==
    LET one == 10^max_fractional_digits
        m == IF u < 0 THEN -u ELSE u
        whole == IF u < 0 THEN -(m \div one) ELSE m \div one
    IN  to_string(whole) \o <<".">> \o Tail(to_string(one + (m % one)))
doubleToString_OneMoreDigit(u) ==
    LET one == 10^max_fractional_digits
        m == IF u < 0 THEN -u ELSE u
    IN  (IF u < 0 THEN <<"-">> ELSE <<>>)
          \o to_string(m \div one) \o <<".">> \o Tail(to_string(one + (m % one))) \o <<"0">>
doubleToString(u) ==
    LET one == 10^max_fractional_digits
        m == IF u < 0 THEN -u ELSE u
    IN  (IF u < 0 THEN <<"-">> ELSE <<>>)
          \o to_string(m \div one) \o <<".">> \o Tail(to_string(one + (m % one)))

-----------------------------------------------------------------------------
(* A line is a command and words, each word behind one space. *)

ParamsAccepted(str) ==
    /\ \A k \in DOMAIN str : isalnum(str[k]) \/ str[k] \in {"-", ".", " "}
    /\ \A k \in DOMAIN str : str[k] = " " =>
          k > 1 /\ k < Len(str) /\ str[k - 1] # " "

(* The pieces of str between the positions in cuts, each sep symbols long. *)
Pieces(str, cuts, sep) ==
    LET ends == SetToSortSeq(cuts, <)
        first(k) == IF k = 1 THEN 1 ELSE ends[k - 1] + sep
    IN  [k \in DOMAIN ends |-> SubSeq(str, first(k), ends[k] - 1)]

splitParams(str) ==
    IF str = <<>> THEN <<>>
    ELSE Pieces(str, {k \in DOMAIN str : str[k] = " "} \cup {Len(str) + 1}, 1)

CommandEnd(line) == SelectInSeq(Append(line, " "), LAMBDA c : c = " ")
extractCommandAndParams(line) ==
    line # <<>> /\ CommandEnd(line) # 1 /\ CommandEnd(line) # Len(line)

-----------------------------------------------------------------------------
(* A message holds the names and the numbers it carries; NoMessage is the  *)
(* nullptr of createMessage.                                               *)
MakeMessage(type, names, numbers) == [type |-> type, names |-> names, numbers |-> numbers]
NoMessage == MakeMessage("none", <<>>, <<>>)

AllDoubles(params) == \A k \in DOMAIN params : isValidDoubleStringFormat(params[k])
Doubles(params) == [k \in DOMAIN params |-> DoubleOf(params[k])]

InCoeffRange(u) ==
    u \in -(max_coeff * 10^max_fractional_digits)..(max_coeff * 10^max_fractional_digits)

(* parseMessage of each type *)
Accepted(type, params) ==
    CASE type = "HELLO" -> Len(params) = 1 /\ isAlphanumeric(params[1])
      [] type = "COEFF" ->
            /\ Len(params) \in 1..(max_n + 1)
            /\ AllDoubles(params)
            /\ \A k \in DOMAIN params : InCoeffRange(DoubleOf(params[k]))
      [] type = "STATE" -> Len(params) \in 1..(max_k + 1) /\ AllDoubles(params)
      [] type \in {"PUT", "BAD_PUT", "PENALTY"} ->
            /\ Len(params) = 2
            /\ parseInteger(params[1]) /\ isValidDoubleStringFormat(params[2])
      [] type = "SCORING" ->
            /\ Len(params) % 2 = 0
            /\ \A k \in DOMAIN params : IF k % 2 = 1 THEN isAlphanumeric(params[k])
                                        ELSE isValidDoubleStringFormat(params[k])
      [] OTHER -> FALSE

Meaning(type, params) ==
    CASE type = "HELLO" -> MakeMessage(type, params, <<>>)
      [] type \in {"COEFF", "STATE"} -> MakeMessage(type, <<>>, Doubles(params))
      [] type \in {"PUT", "BAD_PUT", "PENALTY"} ->
            MakeMessage(type, <<>>, <<IntegerOf(params[1]), DoubleOf(params[2])>>)
      [] type = "SCORING" ->
            MakeMessage(type, [k \in 1..(Len(params) \div 2) |-> params[2 * k - 1]],
                        [k \in 1..(Len(params) \div 2) |-> DoubleOf(params[2 * k])])

(* Message::createMessage on a line with its CRLF *)
createMessage(line) ==
    LET body == SubSeq(line, 1, Len(line) - 2)
        command == SubSeq(body, 1, CommandEnd(body) - 1)
        params_str == From(body, CommandEnd(body) + 1)
        params == splitParams(params_str)
    IN  IF /\ IsSuffix(crlf, line)
           /\ extractCommandAndParams(body) /\ ParamsAccepted(params_str)
           /\ Len(command) = 1 /\ Accepted(command[1], params)
        THEN Meaning(command[1], params) ELSE NoMessage

-----------------------------------------------------------------------------
(* The createMessage of each type, as the words it writes; SCORING sorts   *)
(* its players.                                                            *)

Code(c) == SelectInSeq(Digits \o Letters, LAMBDA d : d = c)
NameLess(s, t) ==
    \/ IsStrictPrefix(s, t)
    \/ \E k \in DOMAIN s \cap DOMAIN t :
          SubSeq(s, 1, k - 1) = SubSeq(t, 1, k - 1) /\ Code(s[k]) < Code(t[k])
PlayerLess(p, q) == NameLess(p[1], q[1]) \/ (p[1] = q[1] /\ p[2] < q[2])

Sorted(m) ==
    LET players == SortSeq([k \in DOMAIN m.names |-> <<m.names[k], m.numbers[k]>>], PlayerLess)
    IN  MakeMessage("SCORING", [k \in DOMAIN players |-> players[k][1]],
                    [k \in DOMAIN players |-> players[k][2]])

WordsOf(m) ==
    CASE m.type = "HELLO" -> m.names
      [] m.type \in {"COEFF", "STATE"} -> [k \in DOMAIN m.numbers |-> doubleToString(m.numbers[k])]
      [] m.type \in {"PUT", "BAD_PUT", "PENALTY"} ->
            <<to_string(m.numbers[1]), doubleToString(m.numbers[2])>>
      [] m.type = "SCORING" ->
            [k \in 1..(2 * Len(m.names)) |->
                IF k % 2 = 1 THEN Sorted(m).names[(k + 1) \div 2]
                ELSE doubleToString(Sorted(m).numbers[k \div 2])]

getRawMessage(m) ==
    <<m.type>> \o FlattenSeq([k \in DOMAIN WordsOf(m) |-> <<" ">> \o WordsOf(m)[k]]) \o crlf

=============================================================================
