---------------------------- MODULE ApproxRules -----------------------------
(***************************************************************************)
(* The rules of the-great-approximator that server and client share: the   *)
(* numbers of constants.h, what a client may say, which PUT is out of      *)
(* range, and how far an approximation is from its polynomial.             *)
(*                                                                         *)
(* The programs compute with doubles.  Every coefficient and every value   *)
(* has at most max_fractional_digits digits behind the point and a point   *)
(* is an integer, so all of them are whole multiples of one smallest unit; *)
(* they are integers here, and the unit of an instance is 1.  That also    *)
(* makes the tolerance eps of the comparisons, less than a unit, idle.     *)
(***************************************************************************)
EXTENDS Integers, Sequences, Functions

CONSTANTS
    PlayerId,    \* names a client may say HELLO with
    K,           \* the points are 0..K
    Points,      \* points the clients use in PUT
    Values       \* values the clients use in PUT

ASSUME RulesAssumption ==
    /\ K \in Nat \ {0}
    /\ Points \subseteq Int /\ Values \subseteq Int

(* constants.h *)
min_put_value     == -5
max_put_value     == 5
early_put_penalty == 20
bad_put_penalty   == 10
bad_put_delay     == 1
hello_wait_time   == 3

(* Lines a client may send: HELLO, PUT, and anything else, be it a message *)
(* of another type or a line the parser refuses.                           *)
ClientLine == {<<"HELLO", id>> : id \in PlayerId}
                \cup {<<"PUT", p, v>> : p \in Points, v \in Values}
                \cup {<<"JUNK">>}

AnswerType == {"COEFF", "STATE", "BAD_PUT", "PENALTY", "SCORING"}

Approximation == [0..K -> Int]
Zeros == [x \in 0..K |-> 0]

OutOfRange(p, v) == p \notin 0..K \/ v < min_put_value \/ v > max_put_value

Put(approximation, p, v) == [approximation EXCEPT ![p] = @ + v]

-----------------------------------------------------------------------------
(* x_pow after n turns of the loop: 1 before the first, for x = 0 as well. *)
Power(x, n) ==
    LET x_pow[turn \in Nat] == IF turn = 0 THEN 1 ELSE x_pow[turn - 1] * x
    IN  x_pow[n]

(* coeffs[j] belongs to the power j - 1. *)
player_poly_at(coeffs, x) ==
    SumFunction([j \in DOMAIN coeffs |-> coeffs[j] * Power(x, j - 1)])

(* calculate_score without the penalty, over the points of approximation.  *)
SquaredError(coeffs, approximation) ==
    SumFunction([x \in DOMAIN approximation |->
                    (player_poly_at(coeffs, x) - approximation[x])
                      * (player_poly_at(coeffs, x) - approximation[x])])

=============================================================================
