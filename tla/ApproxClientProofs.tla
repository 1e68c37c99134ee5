------------------------- MODULE ApproxClientProofs -------------------------
(***************************************************************************)
(* Proofs about ApproxClient: its types, and that the automatic strategy   *)
(* keeps in step with the server in every interleaving of the threads, and *)
(* makes the best PUT each time.                                           *)
(*                                                                         *)
(* A message keeps its place among those under way while it goes from a    *)
(* queue to a thread and from there to the socket, so the threads only     *)
(* matter where they put one in or take one out.  Seen like this the auto  *)
(* client goes through the phases of Turn, one after the other.            *)
(***************************************************************************)
EXTENDS ApproxClient, ApproxRulesProofs

(* A thread has a message in its hands exactly between taking it and       *)
(* passing it on.                                                          *)
InHand ==
    /\ sending # <<>> <=> pc["sender"] = "write"
    /\ processing # <<>> <=> pc["processor"] \in {"log", "process"}
    /\ put # <<>> <=> pc["strategy"] \in {"log", "put"}

(* The answers under way are s, and the end of the game behind them if the *)
(* server no longer serves.                                                *)
Coming(s) == Inbound = s \/ (~Session!Serves /\ Inbound = Append(s, "SCORING"))

(* What the server knows of the client, unless the connection is over.     *)
SeatIs(known, can_put, states) ==
    server.open => /\ server.known = known /\ server.can_put = can_put
                   /\ server.owed = [kind \in {"STATE", "BAD_PUT"} |->
                                        IF kind = "STATE" THEN states ELSE 0]

Hello == <<"HELLO", CHOOSE id \in PlayerId : TRUE>>

(* HELLO is not sent, or not yet taken, or its COEFF is lost. *)
Introducing ==
    /\ is_first_message /\ puts_without_answer = 1 /\ pc["strategy"] \in {"wait", "done"}
    /\ Inbound = <<>>
    /\ Outbound = <<>> \/ (pc["main"] # "hello" /\ Outbound = <<Hello>>)
    /\ SeatIs(FALSE, FALSE, 0)

(* The COEFF is under way. *)
Introduced ==
    /\ is_first_message /\ puts_without_answer = 1 /\ pc["strategy"] \in {"wait", "done"}
    /\ pc["main"] # "hello" /\ Outbound = <<>>
    /\ Coming(<<"COEFF">>) /\ SeatIs(TRUE, TRUE, 0)

(* Nothing is under way and the strategy may go on. *)
Free ==
    /\ ~is_first_message /\ puts_without_answer = 0
    /\ pc["strategy"] \in {"wait", "count", "done"}
    /\ pc["main"] # "hello" /\ Outbound = <<>>
    /\ Coming(<<>>) /\ SeatIs(TRUE, TRUE, 0)

(* It has counted the PUT that it is about to choose. *)
Choosing ==
    /\ ~is_first_message /\ puts_without_answer = 1 /\ pc["strategy"] = "choose"
    /\ pc["main"] # "hello" /\ Outbound = <<>>
    /\ Coming(<<>>) /\ SeatIs(TRUE, TRUE, 0)

(* A PUT, one the server has to accept, is under way. *)
Putting ==
    /\ ~is_first_message /\ puts_without_answer = 1
    /\ pc["strategy"] \in {"log", "put", "wait", "done"}
    /\ pc["main"] # "hello"
    /\ \E p \in DOMAIN current_approximation, v \in min_put_value..max_put_value :
          Outbound = <<<<"PUT", p, v>>>>
    /\ Coming(<<>>) /\ SeatIs(TRUE, TRUE, 0)

(* The server owes the STATE, or the connection is over and it is lost. *)
Awaiting ==
    /\ ~is_first_message /\ puts_without_answer = 1 /\ pc["strategy"] \in {"wait", "done"}
    /\ pc["main"] # "hello" /\ Outbound = <<>>
    /\ Coming(<<>>) /\ SeatIs(TRUE, FALSE, 1)

(* The STATE is under way. *)
Answered ==
    /\ ~is_first_message /\ puts_without_answer = 1 /\ pc["strategy"] \in {"wait", "done"}
    /\ pc["main"] # "hello" /\ Outbound = <<>>
    /\ Coming(<<"STATE">>) /\ SeatIs(TRUE, TRUE, 0)

Turn ==
    is_auto_strategy =>
        Introducing \/ Introduced \/ Free \/ Choosing \/ Putting \/ Awaiting \/ Answered

(* The points are known once the COEFF is processed. *)
KnownPoints ==
    IF is_first_message THEN current_approximation \in [0..(-1) -> Int]
    ELSE \E top \in {1, K} : current_approximation \in [0..top -> Int]

(* The copy at a point, 0 if it is not known, and what is on its way there. *)
Copy(x) == IF x \in DOMAIN current_approximation THEN current_approximation[x] ELSE 0
Due(x) == IF Outbound # <<>> /\ Outbound[1][1] = "PUT" /\ Outbound[1][2] = x
          THEN Outbound[1][3] ELSE 0
CopyIsRight ==
    is_auto_strategy /\ server.open =>
        \A x \in 0..K : Copy(x) = server.approximations[x] + Due(x)

ClosedOwesNothing == ~server.open => server.owed = [kind \in {"STATE", "BAD_PUT"} |-> 0]

Base == TypeOK /\ InHand /\ KnownPoints /\ ClosedOwesNothing
ClientInv == Base /\ Turn /\ CopyIsRight

(* The printer stops when there is nothing left to print from before the   *)
(* end of the game.                                                        *)
PrinterInv ==
    /\ pc["printer"] \in {"last", "drain", "done"} => game_over
    /\ pc["printer"] = "done" => \A k \in DOMAIN logs : logs[k] = "late"
    /\ outcome = "finished" => pc["printer"] = "done"

-----------------------------------------------------------------------------
(* The session. *)

(* The rules, as ApproxSession sees them, are the rules.                   *)
LEMMA SameRules ==
  /\ Session!Zeros = Zeros /\ Session!Approximation = Approximation
  /\ Session!AnswerType = AnswerType
  /\ \A p, v : Session!OutOfRange(p, v) <=> OutOfRange(p, v)
  /\ \A f, p, v : Session!Put(f, p, v) = Put(f, p, v)
BY DEF Session!Zeros, Zeros, Session!Approximation, Approximation, Session!OutOfRange,
       OutOfRange, Session!Put, Put, Session!min_put_value, min_put_value,
       Session!max_put_value, max_put_value, Session!AnswerType, AnswerType

(* The fields of a seat, and of a seat that is changed. *)
LEMMA SeatFields ==
  ASSUME NEW s \in Session!Seat
  PROVE  /\ s.open \in BOOLEAN /\ s.known \in BOOLEAN /\ s.can_put \in BOOLEAN
         /\ s.over \in BOOLEAN /\ s.owed \in [{"STATE", "BAD_PUT"} -> Nat]
         /\ s.approximations \in Approximation
BY SameRules DEF Session!Seat

(* The client has introduced itself. *)
LEMMA KnownSeat ==
  ASSUME NEW s \in Session!Seat, NEW r, r = [s EXCEPT !.known = TRUE, !.can_put = TRUE]
  PROVE  /\ r \in Session!Seat /\ r.open = s.open /\ r.over = s.over /\ r.known /\ r.can_put
         /\ r.owed = s.owed /\ r.approximations = s.approximations
BY DEF Session!Seat

(* A PUT was refused. *)
LEMMA RejectedSeat ==
  ASSUME NEW s \in Session!Seat, NEW r, NEW n \in Nat,
         r = [s EXCEPT !.can_put = FALSE, !.owed["BAD_PUT"] = n]
  PROVE  /\ r \in Session!Seat /\ r.open = s.open /\ r.over = s.over /\ r.known = s.known
         /\ ~r.can_put /\ r.approximations = s.approximations
BY DEF Session!Seat

(* A PUT was taken. *)
Improves(s, r, n, over, f) ==
    r = [s EXCEPT !.can_put = FALSE, !.owed["STATE"] = n, !.over = over, !.approximations = f]

(* It owes the STATE, and the other fields are as before. *)
LEMMA ImprovedSeat ==
  ASSUME NEW s \in Session!Seat, NEW r, NEW n \in Nat, NEW over \in BOOLEAN,
         NEW f \in Session!Approximation, Improves(s, r, n, over, f)
  PROVE  /\ r \in Session!Seat /\ r.open = s.open /\ r.over = over /\ r.known = s.known
         /\ ~r.can_put /\ r.owed = [s.owed EXCEPT !["STATE"] = n] /\ r.approximations = f
BY DEF Session!Seat, Improves

(* An answer was given. *)
Answers(s, r, kind, n) == r = [s EXCEPT !.owed[kind] = n, !.can_put = TRUE]

(* It is owed no longer, and the other fields are as before. *)
LEMMA AnsweredSeat ==
  ASSUME NEW s \in Session!Seat, NEW r, NEW kind \in {"STATE", "BAD_PUT"}, NEW n \in Nat,
         Answers(s, r, kind, n)
  PROVE  /\ r \in Session!Seat /\ r.open = s.open /\ r.over = s.over /\ r.known = s.known
         /\ r.can_put /\ r.owed = [s.owed EXCEPT ![kind] = n]
         /\ r.approximations = s.approximations
BY DEF Session!Seat, Answers

(* The game is over. *)
LEMMA OverSeat ==
  ASSUME NEW s \in Session!Seat, NEW r, r = [s EXCEPT !.over = TRUE]
  PROVE  /\ r \in Session!Seat /\ r.open = s.open /\ r.over /\ r.known = s.known
         /\ r.can_put = s.can_put /\ r.owed = s.owed /\ r.approximations = s.approximations
BY DEF Session!Seat

(* The seat of a new connection, and of one that is over. *)
LEMMA FreshSeats ==
  /\ Session!NewSeat \in Session!Seat /\ Session!NewSeat.open /\ ~Session!NewSeat.over
  /\ ~Session!NewSeat.known /\ ~Session!NewSeat.can_put
  /\ Session!NewSeat.owed = [kind \in {"STATE", "BAD_PUT"} |-> 0]
  /\ Session!NewSeat.approximations = Zeros
  /\ Session!ClosedSeat \in Session!Seat /\ ~Session!ClosedSeat.open
  /\ Session!ClosedSeat.owed = [kind \in {"STATE", "BAD_PUT"} |-> 0]
<1>1. Zeros \in Approximation
  BY RulesAssumption DEF Zeros, Approximation
<1> QED
  BY <1>1, SameRules DEF Session!NewSeat, Session!ClosedSeat, Session!Seat

(* HELLO is taken. *)
LEMMA TakeHelloEffect ==
  ASSUME server \in Session!Seat, Session!TakeHello
  PROVE  /\ server.open /\ ~server.over /\ ~server.known
         /\ to_server # <<>> /\ Head(to_server)[1] = "HELLO" /\ to_server' = Tail(to_server)
         /\ to_client' = Append(to_client, "COEFF")
         /\ server' \in Session!Seat /\ server'.open /\ ~server'.over
         /\ server'.known /\ server'.can_put /\ server'.owed = server.owed
         /\ server'.approximations = server.approximations
<1>1. server' = [server EXCEPT !.known = TRUE, !.can_put = TRUE]
  BY DEF Session!TakeHello
<1>2. /\ server' \in Session!Seat /\ server'.open = server.open /\ server'.over = server.over
      /\ server'.known /\ server'.can_put /\ server'.owed = server.owed
      /\ server'.approximations = server.approximations
  BY <1>1, KnownSeat
<1> QED
  BY <1>2 DEF Session!TakeHello, Session!Takes, Session!Serves, Session!Line

(* A PUT is refused: it comes early or is out of range. *)
LEMMA TakeRejectedEffect ==
  ASSUME server \in Session!Seat, Session!TakeRejectedPut
  PROVE  /\ server.open /\ ~server.over /\ server.known
         /\ to_server # <<>> /\ Head(to_server)[1] = "PUT" /\ to_server' = Tail(to_server)
         /\ ~server.can_put \/ OutOfRange(Head(to_server)[2], Head(to_server)[3])
         /\ to_client' = to_client \/ to_client' = Append(to_client, "PENALTY")
         /\ server' \in Session!Seat /\ server'.open
<1> DEFINE bad == Session!OutOfRange(Session!Line[2], Session!Line[3])
           n == IF bad THEN server.owed["BAD_PUT"] + 1 ELSE server.owed["BAD_PUT"]
<1>1. server' = [server EXCEPT !.can_put = FALSE, !.owed["BAD_PUT"] = n]
  BY DEF Session!TakeRejectedPut
<1>2. server.owed \in [{"STATE", "BAD_PUT"} -> Nat]
  BY SeatFields
<1>3. n \in Nat
  BY <1>2
<1> HIDE DEF n, bad
<1>4. server' \in Session!Seat /\ server'.open = server.open
  BY <1>1, <1>3, RejectedSeat
<1>5. OutOfRange(Head(to_server)[2], Head(to_server)[3]) <=> bad
  BY SameRules DEF bad, Session!Line
<1> QED
  BY <1>4, <1>5 DEF Session!TakeRejectedPut, Session!Takes, Session!Serves, Session!Line, bad

(* A PUT leaves an approximation one. *)
LEMMA PutType ==
  ASSUME NEW f \in Approximation, NEW p, NEW v \in Int
  PROVE  Put(f, p, v) \in Approximation
<1>1. CASE p \in 0..K
  BY <1>1 DEF Put, Approximation
<1>2. CASE p \notin 0..K
  <2>1. Put(f, p, v) = f
    BY <1>2 DEF Put, Approximation
  <2> QED
    BY <2>1
<1> QED
  BY <1>1, <1>2

(* A PUT is taken. *)
LEMMA TakePutEffect ==
  ASSUME server \in Session!Seat, NEW last \in BOOLEAN, Session!TakePut(last),
         Head(to_server)[3] \in Int
  PROVE  /\ server.open /\ ~server.over /\ server.known /\ server.can_put
         /\ to_server # <<>> /\ Head(to_server)[1] = "PUT" /\ to_server' = Tail(to_server)
         /\ ~OutOfRange(Head(to_server)[2], Head(to_server)[3])
         /\ to_client' = IF last THEN Append(to_client, "SCORING") ELSE to_client
         /\ server' \in Session!Seat /\ server'.open /\ server'.over = last
         /\ server'.known /\ ~server'.can_put
         /\ server'.owed = [server.owed EXCEPT !["STATE"] = server.owed["STATE"] + 1]
         /\ server'.approximations
              = Put(server.approximations, Head(to_server)[2], Head(to_server)[3])
<1> DEFINE n == server.owed["STATE"] + 1
           f == Put(server.approximations, Head(to_server)[2], Head(to_server)[3])
<1>1. Improves(server, server', n, last, f)
  <2>1. server' = [server EXCEPT !.can_put = FALSE, !.owed["STATE"] = n, !.over = last,
                     !.approximations = Session!Put(server.approximations, Session!Line[2], Session!Line[3])]
    BY DEF Session!TakePut
  <2>2. Session!Put(server.approximations, Session!Line[2], Session!Line[3]) = f
    BY SameRules DEF Session!Line
  <2> QED
    BY <2>1, <2>2 DEF Improves
<1>2. /\ server.owed \in [{"STATE", "BAD_PUT"} -> Nat] /\ server.approximations \in Approximation
      /\ server.open \in BOOLEAN
  BY SeatFields
<1>3. n \in Nat
  BY <1>2
<1>4. f \in Session!Approximation
  BY <1>2, SameRules, PutType
<1>5. OutOfRange(Head(to_server)[2], Head(to_server)[3])
        <=> Session!OutOfRange(Session!Line[2], Session!Line[3])
  BY SameRules DEF Session!Line
<1> HIDE DEF n, f
<1>6. /\ server' \in Session!Seat /\ server'.open = server.open /\ server'.over = last
      /\ server'.known = server.known /\ ~server'.can_put
      /\ server'.owed = [server.owed EXCEPT !["STATE"] = n] /\ server'.approximations = f
  <2>1. PICK s \in Session!Seat, r \in {server'} : s = server /\ r = server'
    OBVIOUS
  <2>2. Improves(s, r, n, last, f)
    BY <1>1, <2>1
  <2>3. /\ r \in Session!Seat /\ r.open = s.open /\ r.over = last /\ r.known = s.known
        /\ ~r.can_put /\ r.owed = [s.owed EXCEPT !["STATE"] = n] /\ r.approximations = f
    BY <1>3, <1>4, <2>2, ImprovedSeat
  <2> QED
    BY <2>1, <2>3
<1>7. /\ server.open /\ ~server.over /\ server.known /\ server.can_put
      /\ to_server # <<>> /\ Head(to_server)[1] = "PUT" /\ to_server' = Tail(to_server)
      /\ ~Session!OutOfRange(Session!Line[2], Session!Line[3])
      /\ to_client' = IF last THEN Append(to_client, "SCORING") ELSE to_client
  BY DEF Session!TakePut, Session!Takes, Session!Serves, Session!Line
<1> QED
  BY <1>5, <1>6, <1>7 DEF n, f

(* An answer is given. *)
LEMMA AnswerEffect ==
  ASSUME server \in Session!Seat, NEW kind \in {"STATE", "BAD_PUT"}, Session!Answer(kind)
  PROVE  /\ server.open /\ ~server.over /\ server.owed[kind] > 0
         /\ to_client' = Append(to_client, kind) /\ to_server' = to_server
         /\ server' \in Session!Seat /\ server'.open /\ ~server'.over
         /\ server'.known = server.known /\ server'.can_put
         /\ server'.owed = [server.owed EXCEPT ![kind] = server.owed[kind] - 1]
         /\ server'.approximations = server.approximations
<1> DEFINE n == server.owed[kind] - 1
<1>1. Answers(server, server', kind, n)
  BY DEF Session!Answer, Answers
<1>2. server.owed \in [{"STATE", "BAD_PUT"} -> Nat]
  BY SeatFields
<1>3. /\ server.open /\ ~server.over /\ server.owed[kind] > 0
      /\ to_client' = Append(to_client, kind) /\ to_server' = to_server
  BY DEF Session!Answer, Session!Serves
<1>4. n \in Nat
  BY <1>2, <1>3
<1> HIDE DEF n
<1>5. /\ server' \in Session!Seat /\ server'.open = server.open /\ server'.over = server.over
      /\ server'.known = server.known /\ server'.can_put
      /\ server'.owed = [server.owed EXCEPT ![kind] = n]
      /\ server'.approximations = server.approximations
  <2>1. PICK s \in Session!Seat, r \in {server'} : s = server /\ r = server'
    OBVIOUS
  <2>2. Answers(s, r, kind, n)
    BY <1>1, <2>1
  <2>3. /\ r \in Session!Seat /\ r.open = s.open /\ r.over = s.over /\ r.known = s.known
        /\ r.can_put /\ r.owed = [s.owed EXCEPT ![kind] = n]
        /\ r.approximations = s.approximations
    BY <1>4, <2>2, AnsweredSeat
  <2> QED
    BY <2>1, <2>3
<1> QED
  BY <1>3, <1>5 DEF n

(* The game ends. *)
LEMMA GameOverEffect ==
  ASSUME server \in Session!Seat, Session!GameOver
  PROVE  /\ server.open /\ ~server.over
         /\ to_client' = IF server.known THEN Append(to_client, "SCORING") ELSE to_client
         /\ to_server' = to_server
         /\ server' \in Session!Seat /\ server'.open /\ server'.over
         /\ server'.known = server.known /\ server'.can_put = server.can_put
         /\ server'.owed = server.owed /\ server'.approximations = server.approximations
<1>1. server' = [server EXCEPT !.over = TRUE]
  BY DEF Session!GameOver
<1>2. /\ server' \in Session!Seat /\ server'.open = server.open /\ server'.over
      /\ server'.known = server.known /\ server'.can_put = server.can_put
      /\ server'.owed = server.owed /\ server'.approximations = server.approximations
  BY <1>1, OverSeat
<1> QED
  BY <1>2 DEF Session!GameOver, Session!Serves

-----------------------------------------------------------------------------
(* The choice of the automatic strategy. *)

(* The value of the polynomial is an int, or a sum of products of ints. *)
LEMMA PolyAtType ==
  ASSUME coeffs \in Seq(Int), NEW x \in Int
  PROVE  poly_at(x) \in Int
<1>1. HalfRange \in Nat \ {0}
  <2>1. PICK n \in Nat : n = IntBits - 1
    BY ClientAssumption
  <2>2. Power(2, n) \in Nat \ {0}
    BY PowerOfTwo
  <2> QED
    BY <2>1, <2>2 DEF HalfRange
<1>2. \A n \in Int : ToInt(n) \in Int
  BY <1>1 DEF ToInt
<1>3. DOMAIN coeffs = 1..Len(coeffs) /\ Len(coeffs) \in Nat
      /\ \A j \in 1..Len(coeffs) : coeffs[j] \in Int
  BY LenProperties, ElementOfSeq
<1>4. ASSUME NEW j \in DOMAIN coeffs
      PROVE  coeffs[j] * ToInt(Power(x, j - 1)) \in Int
  <2>1. j - 1 \in Nat /\ coeffs[j] \in Int
    BY <1>3
  <2>2. Power(x, j - 1) \in Int
    BY <2>1, PowerIsInt
  <2>3. ToInt(Power(x, j - 1)) \in Int
    BY <1>2, <2>2
  <2> QED
    BY <2>1, <2>3
<1> DEFINE f == [j \in DOMAIN coeffs |-> coeffs[j] * ToInt(Power(x, j - 1))]
<1>5. IsFiniteSet(DOMAIN f) /\ f \in [DOMAIN f -> Int]
  <2>1. IsFiniteSet(1..Len(coeffs))
    BY <1>3, FS_Interval
  <2> QED
    BY <1>3, <1>4, <2>1
<1> HIDE DEF f
<1>6. SumFunction(f) \in Int
  BY <1>5, SumIsInt
<1> QED
  BY <1>6 DEF f, poly_at

(* std::clamp *)
LEMMA ClampedType ==
  ASSUME NEW d \in Int
  PROVE  Clamped(d) \in min_put_value..max_put_value
<1>1. CASE d < min_put_value
  BY <1>1 DEF Clamped, min_put_value, max_put_value
<1>2. CASE d > max_put_value
  BY <1>2 DEF Clamped, min_put_value, max_put_value
<1>3. CASE min_put_value <= d /\ d <= max_put_value
  BY <1>3 DEF Clamped, min_put_value, max_put_value
<1> QED
  BY <1>1, <1>2, <1>3 DEF min_put_value, max_put_value

(* How far the copy is from the polynomial, as get_best_put sees it. *)
Gap(x) == poly_at(x) - current_approximation[x]
LargestGap(p, v, top) ==
    v = Clamped(Gap(p)) /\ \A y \in 0..top : Gap(y) * Gap(y) <= Gap(p) * Gap(p)

(* get_best_put finds the point of the largest gap among those it knows,   *)
(* and a value the server accepts.                                         *)
LEMMA BestPutEffect ==
  ASSUME coeffs \in Seq(Int), NEW top \in Nat, current_approximation \in [0..top -> Int]
  PROVE  \E p \in 0..top, v \in min_put_value..max_put_value :
            best_put = <<"PUT", p, v>> /\ LargestGap(p, v, top)
<1> DEFINE diff(x) == real_values[x] - current_approximation[x]
           square(x) == diff(x) * diff(x)
           Best(x) == \A y \in DOMAIN current_approximation :
                         square(y) < square(x) \/ (square(y) = square(x) /\ x <= y)
           p == CHOOSE x \in DOMAIN current_approximation : Best(x)
<1>1. DOMAIN current_approximation = 0..top
  OBVIOUS
<1>2. \A x \in 0..top : diff(x) \in Int
  <2>1. \A x \in 0..top : poly_at(x) \in Int
    <3> TAKE x \in 0..top
    <3>1. x \in Int
      OBVIOUS
    <3> QED
      BY <3>1, PolyAtType
  <2> QED
    BY <1>1, <2>1 DEF real_values
<1>g. \A x \in 0..top : diff(x) = Gap(x)
  BY <1>1 DEF real_values, Gap
<1> HIDE DEF diff
<1>3. \A x \in 0..top : square(x) \in Int
  BY <1>2
<1> DEFINE g == [x \in 0..top |-> square(x)]
<1>4. g \in [0..top -> Int]
  BY <1>3
<1>5. PICK x \in 0..top : \A y \in 0..top : g[y] < g[x] \/ (g[y] = g[x] /\ x <= y)
  <2> HIDE DEF g
  <2> QED
    BY <1>4, FirstLargest DEF First
<1>6. Best(x) /\ x \in DOMAIN current_approximation
  BY <1>1, <1>5
<1> HIDE DEF Best
<1>7. p \in 0..top /\ Best(p)
  BY <1>1, <1>6
<1>8. Clamped(diff(p)) \in min_put_value..max_put_value
  <2>1. diff(p) \in Int
    BY <1>2, <1>7
  <2> HIDE DEF p
  <2> QED
    BY <2>1, ClampedType
<1>9. best_put = <<"PUT", p, Clamped(diff(p))>>
  BY DEF best_put, p, Best, diff
<1>10. LargestGap(p, Clamped(diff(p)), top)
  <2>1. \A y \in 0..top : square(y) <= square(p)
    <3> TAKE y \in 0..top
    <3>1. square(y) \in Int /\ square(p) \in Int
      BY <1>3, <1>7
    <3>2. square(y) < square(p) \/ square(y) = square(p)
      BY <1>1, <1>7 DEF Best
    <3> HIDE DEF square
    <3> QED
      BY <3>1, <3>2
  <2> HIDE DEF p
  <2> QED
    BY <1>g, <1>7, <2>1 DEF LargestGap
<1> QED
  BY <1>7, <1>8, <1>9, <1>10

(* Cutting the largest difference to what one PUT may carry gains most. *)
LEMMA BestGain ==
  ASSUME NEW d \in Int, NEW e \in Int, NEW w \in min_put_value..max_put_value, e * e <= d * d
  PROVE  /\ Clamped(d) \in Int
         /\ (d - Clamped(d)) * (d - Clamped(d)) - d * d <= (e - w) * (e - w) - e * e
<1>1. w \in -5..5
  BY DEF min_put_value, max_put_value
<1>2. /\ (e - w) * (e - w) - e * e >= -(e * e)
      /\ (e - w) * (e - w) - e * e >= 25 - 10 * Size(e) \/ Size(e) <= 5
  BY <1>1, GainBounded
<1>3. Size(e) \in Nat /\ Size(d) \in Nat /\ Size(e) <= Size(d)
  BY SizeOrder
<1>4. d * d \in Int /\ e * e \in Int /\ (e - w) * (e - w) \in Int
  BY <1>1
<1>5. CASE Size(d) <= 5
  <2>1. Clamped(d) = d /\ (d - d) * (d - d) = 0
    BY <1>5 DEF Clamped, min_put_value, max_put_value, Size
  <2> QED
    BY <1>2, <1>4, <2>1
<1>6. CASE Size(d) > 5
  <2>1. /\ Clamped(d) \in Int
        /\ (d - Clamped(d)) * (d - Clamped(d)) - d * d = 25 - 10 * Size(d)
    <3>1. CASE d < 0
      <4>1. Clamped(d) = -5 /\ Size(d) = -d
        BY <1>6, <3>1 DEF Clamped, min_put_value, max_put_value, Size
      <4>2. (d - (-5)) * (d - (-5)) = d * d + 10 * d + 25
        OBVIOUS
      <4> QED
        BY <1>4, <4>1, <4>2
    <3>2. CASE d >= 0
      <4>1. Clamped(d) = 5 /\ Size(d) = d
        BY <1>6, <3>2 DEF Clamped, min_put_value, max_put_value, Size
      <4>2. (d - 5) * (d - 5) = d * d - 10 * d + 25
        OBVIOUS
      <4> QED
        BY <1>4, <4>1, <4>2
    <3> QED
      BY <3>1, <3>2
  <2>2. e * e <= 25 \/ Size(e) > 5
    <3>1. CASE Size(e) <= 5
      <4>1. e \in -5..5
        BY <3>1 DEF Size
      <4>2. e \in {-5, -4, -3, -2, -1, 0, 1, 2, 3, 4, 5}
        BY <4>1
      <4> QED
        BY <4>2
    <3> QED
      BY <1>3, <3>1
  <2> DEFINE r == (e - w) * (e - w) - e * e
  <2>3. r \in Int
    BY <1>4
  <2>4. r >= -(e * e) /\ (r >= 25 - 10 * Size(e) \/ Size(e) <= 5)
    BY <1>2
  <2>5. 25 - 10 * Size(d) <= r
    <3> HIDE DEF r
    <3> QED
      BY <1>3, <1>4, <1>6, <2>2, <2>3, <2>4
  <2> QED
    BY <2>1, <2>5
<1> QED
  BY <1>3, <1>5, <1>6

(* The polynomial is an integer at every point. *)
LEMMA PolyType ==
  ASSUME NEW c \in Seq(Int), NEW x \in Int
  PROVE  player_poly_at(c, x) \in Int
<1>1. /\ DOMAIN c = 1..Len(c) /\ Len(c) \in Nat
      /\ \A j \in 1..Len(c) : c[j] \in Int
  BY LenProperties, ElementOfSeq
<1>2. ASSUME NEW j \in DOMAIN c PROVE c[j] * Power(x, j - 1) \in Int
  <2>1. j - 1 \in Nat /\ c[j] \in Int
    BY <1>1
  <2>2. Power(x, j - 1) \in Int
    BY <2>1, PowerIsInt
  <2> QED
    BY <2>1, <2>2
<1> DEFINE f == [j \in DOMAIN c |-> c[j] * Power(x, j - 1)]
<1>3. IsFiniteSet(DOMAIN f) /\ f \in [DOMAIN f -> Int]
  BY <1>1, <1>2, FS_Interval
<1> HIDE DEF f
<1>4. SumFunction(f) \in Int
  BY <1>3, SumIsInt
<1> QED
  BY <1>4 DEF f, player_poly_at

(* How far off the server's approximation is, and the square of that. *)
Off(c, a, x) == player_poly_at(c, x) - a[x]
Errors(c, a) == [x \in 0..K |-> Off(c, a, x) * Off(c, a, x)]

(* A PUT changes one term of the squared error. *)
LEMMA ErrorOfPut ==
  ASSUME NEW c \in Seq(Int), NEW a \in Approximation, NEW p \in 0..K, NEW v \in Int
  PROVE  /\ Off(c, a, p) \in Int /\ SquaredError(c, a) \in Int
         /\ SquaredError(c, Put(a, p, v))
              = SquaredError(c, a)
                  + ((Off(c, a, p) - v) * (Off(c, a, p) - v) - Off(c, a, p) * Off(c, a, p))
<1>1. K \in Nat /\ IsFiniteSet(0..K)
  BY RulesAssumption, FS_Interval
<1>2. ASSUME NEW b \in Approximation
      PROVE  /\ Errors(c, b) \in [0..K -> Int] /\ SquaredError(c, b) = SumFunction(Errors(c, b))
             /\ \A x \in 0..K : Off(c, b, x) \in Int
  <2>1. \A x \in 0..K : Off(c, b, x) \in Int
    <3> TAKE x \in 0..K
    <3>1. x \in Int /\ b[x] \in Int
      BY DEF Approximation
    <3>2. player_poly_at(c, x) \in Int
      BY <3>1, PolyType
    <3> QED
      BY <3>1, <3>2 DEF Off
  <2>2. Errors(c, b) \in [0..K -> Int]
    BY <2>1 DEF Errors
  <2>3. DOMAIN b = 0..K
    BY DEF Approximation
  <2> QED
    BY <2>1, <2>2, <2>3 DEF SquaredError, Errors, Off
<1> DEFINE b == Put(a, p, v)
           f == Errors(c, b)
           h == Errors(c, a)
<1>3. b \in Approximation
  BY PutType
<1>4. \A x \in 0..K : b[x] = IF x = p THEN a[x] + v ELSE a[x]
  BY DEF Put, Approximation
<1>5. f \in [0..K -> Int] /\ h \in [0..K -> Int]
  BY <1>2, <1>3
<1>6. \A x \in 0..K : x # p => f[x] = h[x]
  BY <1>4 DEF Errors, Off
<1>7. Off(c, b, p) = Off(c, a, p) - v
  <2>1. player_poly_at(c, p) \in Int /\ a[p] \in Int
    <3>1. p \in Int
      OBVIOUS
    <3> QED
      BY <3>1, PolyType DEF Approximation
  <2> QED
    BY <1>4, <2>1 DEF Off
<1>8. /\ f[p] = (Off(c, a, p) - v) * (Off(c, a, p) - v)
      /\ h[p] = Off(c, a, p) * Off(c, a, p)
  BY <1>7 DEF Errors
<1>9. SquaredError(c, b) = SumFunction(f) /\ SquaredError(c, a) = SumFunction(h)
  BY <1>2, <1>3
<1> HIDE DEF b, f, h
<1>10. SumFunction(f) = SumFunction(h) + (f[p] - h[p])
  <2>1. PICK S : S = 0..K
    OBVIOUS
  <2>2. PICK ff \in [S -> Int], hh \in [S -> Int] : ff = f /\ hh = h
    BY <1>5, <2>1
  <2>3. IsFiniteSet(S) /\ p \in S /\ DifferAt(ff, hh, S, p)
    BY <1>1, <1>6, <2>1, <2>2 DEF DifferAt
  <2>4. SumFunction(ff) = SumFunction(hh) + (ff[p] - hh[p])
    BY <2>3, SumChange
  <2> QED
    BY <2>2, <2>4
<1>11. SumFunction(h) \in Int
  BY <1>1, <1>5, SumIsInt
<1> QED
  BY <1>2, <1>8, <1>9, <1>10, <1>11 DEF b

(* As much as one PUT may carry, where the approximation is furthest off,  *)
(* is the best PUT among the points considered.                            *)
BestAt(c, a, p, v, top) ==
    /\ p \in 0..top /\ v = Clamped(Off(c, a, p))
    /\ \A y \in 0..top : Off(c, a, y) * Off(c, a, y) <= Off(c, a, p) * Off(c, a, p)

(* No other value and no other of these points is better. *)
LEMMA BestOfAll ==
  ASSUME NEW c \in Seq(Int), NEW a \in Approximation, NEW top \in {1, K}, NEW p, NEW v,
         BestAt(c, a, p, v, top), NEW q \in 0..top, NEW w \in min_put_value..max_put_value
  PROVE  SquaredError(c, Put(a, p, v)) <= SquaredError(c, Put(a, q, w))
<1>1. p \in 0..K /\ q \in 0..K /\ w \in Int
  BY RulesAssumption DEF BestAt, min_put_value, max_put_value
<1> DEFINE d == Off(c, a, p)
           e == Off(c, a, q)
<1>2. d \in Int /\ e \in Int /\ SquaredError(c, a) \in Int
  BY <1>1, ErrorOfPut
<1>3. e * e <= d * d /\ v = Clamped(d)
  BY DEF BestAt
<1>4. SquaredError(c, Put(a, q, w)) = SquaredError(c, a) + ((e - w) * (e - w) - e * e)
  BY <1>1, ErrorOfPut
<1> HIDE DEF d, e
<1>5. /\ v \in Int
      /\ (d - v) * (d - v) - d * d <= (e - w) * (e - w) - e * e
  BY <1>2, <1>3, BestGain
<1>6. SquaredError(c, Put(a, p, v)) = SquaredError(c, a) + ((d - v) * (d - v) - d * d)
  BY <1>1, <1>5, ErrorOfPut DEF d
<1>7. /\ (d - v) * (d - v) - d * d \in Int /\ (e - w) * (e - w) - e * e \in Int
  BY <1>1, <1>2, <1>5
<1> QED
  BY <1>2, <1>4, <1>5, <1>6, <1>7

(* A number that fits an int is not changed. *)
LEMMA ToIntFits ==
  ASSUME NEW n \in Nat, n < HalfRange
  PROVE  ToInt(n) = n
<1>1. HalfRange \in Nat \ {0}
  <2>1. PICK m \in Nat : m = IntBits - 1
    BY ClientAssumption
  <2>2. Power(2, m) \in Nat \ {0}
    BY PowerOfTwo
  <2> QED
    BY <2>1, <2>2 DEF HalfRange
<1>2. PICK h \in Nat \ {0} : h = HalfRange
  BY <1>1
<1>3. PICK m \in Nat, k \in Nat : m = n + h /\ k = 2 * h /\ m < k
  BY <1>2
<1>4. m % k = m
  BY <1>3
<1> QED
  BY <1>2, <1>3, <1>4 DEF ToInt

(* The client computes the polynomial that the server scores. *)
LEMMA SamePoly ==
  ASSUME PowersFit, coeffs \in Coeffs, NEW x \in 0..K
  PROVE  poly_at(x) = player_poly_at(coeffs, x)
<1>1. coeffs \in Seq(Int) /\ DOMAIN coeffs = 1..Len(coeffs) /\ Len(coeffs) \in Nat
  BY ClientAssumption, LenProperties
<1>2. ASSUME NEW j \in DOMAIN coeffs PROVE ToInt(Power(x, j - 1)) = Power(x, j - 1)
  <2>1. j - 1 \in Nat
    BY <1>1
  <2>2. x \in Nat /\ 1 \in Nat /\ \A v \in Nat : v * x \in Nat
    OBVIOUS
  <2>3. Power(x, j - 1) \in Nat
    BY <2>1, <2>2, PowerIn
  <2>4. Power(x, j - 1) < HalfRange
    BY DEF PowersFit
  <2> QED
    BY <2>3, <2>4, ToIntFits
<1>3. [j \in DOMAIN coeffs |-> coeffs[j] * ToInt(Power(x, j - 1))]
        = [j \in DOMAIN coeffs |-> coeffs[j] * Power(x, j - 1)]
  BY <1>2
<1> QED
  BY <1>3 DEF poly_at, player_poly_at

-----------------------------------------------------------------------------
(* Steps that leave alone what is under way. *)

(* What the phases of Turn are about, but for the places of the threads. *)
Untouched ==
    /\ Outbound' = Outbound /\ Inbound' = Inbound /\ server' = server
    /\ is_auto_strategy' = is_auto_strategy /\ puts_without_answer' = puts_without_answer
    /\ is_first_message' = is_first_message
    /\ current_approximation' = current_approximation
    /\ coeffs' = coeffs /\ K_set' = K_set

(* A thread goes from one place to another. *)
LEMMA GotoEffect ==
  ASSUME TypeOK, NEW t \in Thread, NEW from, NEW to \in Place, Goto(t, from, to)
  PROVE  /\ pc[t] = from /\ pc' \in [Thread -> Place] /\ pc'[t] = to
         /\ \A u \in Thread : u # t => pc'[u] = pc[u]
         /\ is_auto_strategy' = is_auto_strategy /\ coeffs' = coeffs /\ outcome = "running"
BY DEF TypeOK, Goto

(* It takes no message in its hands and passes none on. *)
KeepsHands(t, from, to) ==
    /\ t = "sender" => (from = "write" <=> to = "write")
    /\ t = "processor" => (from \in {"log", "process"} <=> to \in {"log", "process"})
    /\ t = "strategy" => (from \in {"log", "put"} <=> to \in {"log", "put"})

(* A thread that only goes on, logs or prints. *)
LEMMA Moves ==
  ASSUME Base, NEW t \in Thread, NEW from, NEW to \in Place, Goto(t, from, to),
         KeepsHands(t, from, to), logs' \in Seq({"early", "late"}), game_over' \in BOOLEAN,
         outcome' \in {"running", "finished", "disconnect", "syserr"}, puts' \in Nat,
         UNCHANGED <<inVars, outVars, autoVars, put, netVars>>
  PROVE  Base' /\ Untouched
<1>1. TypeOK /\ InHand /\ KnownPoints /\ ClosedOwesNothing
  BY DEF Base
<1>2. /\ pc[t] = from /\ pc' \in [Thread -> Place] /\ pc'[t] = to
      /\ \A u \in Thread : u # t => pc'[u] = pc[u]
      /\ is_auto_strategy' = is_auto_strategy /\ coeffs' = coeffs
  BY <1>1, GotoEffect
<1>3. /\ UNCHANGED <<incoming_messages, processing, is_first_message, scoring_received>>
      /\ UNCHANGED <<outgoing_messages, sending, put>>
      /\ UNCHANGED <<K_set, current_approximation, puts_without_answer>>
      /\ UNCHANGED <<to_server, to_client, server>>
  BY DEF inVars, outVars, autoVars, netVars
<1>4. TypeOK'
  BY <1>1, <1>2, <1>3 DEF TypeOK
<1>5. InHand'
  <2>1. pc'["sender"] = "write" <=> pc["sender"] = "write"
    BY <1>2 DEF KeepsHands, Thread
  <2>2. pc'["processor"] \in {"log", "process"} <=> pc["processor"] \in {"log", "process"}
    BY <1>2 DEF KeepsHands, Thread
  <2>3. pc'["strategy"] \in {"log", "put"} <=> pc["strategy"] \in {"log", "put"}
    BY <1>2 DEF KeepsHands, Thread
  <2> QED
    BY <1>1, <1>3, <2>1, <2>2, <2>3 DEF InHand
<1>6. KnownPoints' /\ ClosedOwesNothing'
  BY <1>1, <1>3 DEF KnownPoints, ClosedOwesNothing
<1>7. Untouched
  BY <1>2, <1>3 DEF Untouched, Outbound, Inbound
<1> QED
  BY <1>4, <1>5, <1>6, <1>7 DEF Base

(* Where main and the strategy may go without doing anything that matters. *)
Onward ==
    /\ pc["main"] # "hello" => pc'["main"] # "hello"
    /\ pc["main"] = "hello" => pc'["main"] = "hello"
    /\ \/ pc'["strategy"] = pc["strategy"]
       \/ pc["strategy"] \in {"wait", "put"} /\ pc'["strategy"] \in {"wait", "done"}
       \/ pc["strategy"] = "log" /\ pc'["strategy"] = "put"
Quiet == Untouched /\ Onward

(* Such a step leaves the phase as it is. *)
LEMMA QuietTurn ==
  ASSUME Turn, Quiet
  PROVE  Turn'
<1>1. /\ Outbound' = Outbound /\ Inbound' = Inbound /\ server' = server
      /\ is_auto_strategy' = is_auto_strategy /\ puts_without_answer' = puts_without_answer
      /\ is_first_message' = is_first_message
      /\ current_approximation' = current_approximation
  BY DEF Quiet, Untouched
<1>2. Onward
  BY DEF Quiet
<1>3. /\ \A s : Coming(s) => Coming(s)'
      /\ \A known, can_put, states :
           SeatIs(known, can_put, states) => SeatIs(known, can_put, states)'
  BY <1>1 DEF Coming, SeatIs, Session!Serves
<1> HIDE DEF Coming, SeatIs
<1>4. (Introducing => Introducing') /\ (Introduced => Introduced')
  BY <1>1, <1>2, <1>3 DEF Onward, Introducing, Introduced
<1>5. (Free => Free') /\ (Choosing => Choosing')
  BY <1>1, <1>2, <1>3 DEF Onward, Free, Choosing
<1>6. Putting => Putting'
  BY <1>1, <1>2, <1>3 DEF Onward, Putting
<1>7. (Awaiting => Awaiting') /\ (Answered => Answered')
  BY <1>1, <1>2, <1>3 DEF Onward, Awaiting, Answered
<1> QED
  BY <1>1, <1>4, <1>5, <1>6, <1>7 DEF Turn

(* A thread that goes on quietly. *)
GoesOn(t, from, to) ==
    /\ t # "main" /\ KeepsHands(t, from, to)
    /\ t = "strategy" => \/ from = "wait" /\ to \in {"wait", "done"}
                         \/ from = "log" /\ to = "put"

(* Nothing that matters changes. *)
LEMMA QuietMove ==
  ASSUME Base, NEW t \in Thread, NEW from, NEW to \in Place, Goto(t, from, to),
         GoesOn(t, from, to), logs' \in Seq({"early", "late"}), game_over' \in BOOLEAN,
         outcome' \in {"running", "finished", "disconnect", "syserr"}, puts' \in Nat,
         UNCHANGED <<inVars, outVars, autoVars, put, netVars>>
  PROVE  Base' /\ Quiet
<1>1. KeepsHands(t, from, to)
  BY DEF GoesOn
<1>2. Base' /\ Untouched
  BY <1>1, Moves
<1>3. /\ pc[t] = from /\ pc'[t] = to
      /\ \A u \in Thread : u # t => pc'[u] = pc[u]
  BY GotoEffect DEF Base
<1>4. pc'["main"] = pc["main"]
  BY <1>3 DEF GoesOn, Thread
<1>5. CASE t # "strategy"
  BY <1>2, <1>3, <1>4, <1>5 DEF Quiet, Onward, Thread
<1>6. CASE t = "strategy"
  BY <1>2, <1>3, <1>4, <1>6 DEF Quiet, Onward, GoesOn
<1> QED
  BY <1>5, <1>6

(* The variables that have a simple type. *)
LEMMA BaseTypes ==
  ASSUME Base
  PROVE  /\ logs \in Seq({"early", "late"}) /\ game_over \in BOOLEAN /\ puts \in Nat
         /\ outcome \in {"running", "finished", "disconnect", "syserr"}
BY DEF Base, TypeOK

(* A thread goes on and does nothing else. *)
LEMMA QuietStep ==
  ASSUME Base, NEW t \in Thread, NEW from, NEW to \in Place, Step(t, from, to),
         GoesOn(t, from, to)
  PROVE  Base' /\ Quiet
<1>1. /\ Goto(t, from, to) /\ logs' = logs /\ game_over' = game_over /\ puts' = puts
      /\ outcome' = outcome /\ UNCHANGED <<inVars, outVars, autoVars, put, netVars>>
  BY DEF Step, logVars, putVars
<1>2. /\ logs' \in Seq({"early", "late"}) /\ game_over' \in BOOLEAN /\ puts' \in Nat
      /\ outcome' \in {"running", "finished", "disconnect", "syserr"}
  BY <1>1, BaseTypes
<1> QED
  BY <1>1, <1>2, QuietMove

(* A log line is queued. *)
LEMMA LogType ==
  ASSUME Base, Log
  PROVE  logs' \in Seq({"early", "late"})
<1>1. logs \in Seq({"early", "late"})
  BY BaseTypes
<1>2. CASE game_over
  BY <1>1, <1>2, AppendProperties DEF Log
<1>3. CASE ~game_over
  BY <1>1, <1>3, AppendProperties DEF Log
<1> QED
  BY <1>2, <1>3

(* A thread queues a log line. *)
LEMMA QuietLog ==
  ASSUME Base, NEW t \in Thread, NEW from, NEW to \in Place, Goto(t, from, to), Log,
         GoesOn(t, from, to),
         UNCHANGED <<game_over, inVars, outVars, autoVars, putVars, outcome, netVars>>
  PROVE  Base' /\ Quiet
<1>1. /\ game_over' = game_over /\ puts' = puts
      /\ outcome' = outcome /\ UNCHANGED <<inVars, outVars, autoVars, put, netVars>>
  BY DEF putVars
<1>2. /\ logs' \in Seq({"early", "late"}) /\ game_over' \in BOOLEAN /\ puts' \in Nat
      /\ outcome' \in {"running", "finished", "disconnect", "syserr"}
  BY <1>1, BaseTypes, LogType
<1> QED
  BY <1>1, <1>2, QuietMove

(* The printer takes one. *)
LEMMA QuietPrint ==
  ASSUME Base, NEW from, NEW to \in Place, Goto("printer", from, to), logs # <<>>,
         logs' = Tail(logs),
         UNCHANGED <<game_over, inVars, outVars, autoVars, putVars, outcome, netVars>>
  PROVE  Base' /\ Quiet
<1>1. /\ game_over' = game_over /\ puts' = puts
      /\ outcome' = outcome /\ UNCHANGED <<inVars, outVars, autoVars, put, netVars>>
  BY DEF putVars
<1>2. /\ logs' \in Seq({"early", "late"}) /\ game_over' \in BOOLEAN /\ puts' \in Nat
      /\ outcome' \in {"running", "finished", "disconnect", "syserr"}
  BY <1>1, BaseTypes, HeadTailProperties
<1>3. "printer" \in Thread /\ GoesOn("printer", from, to)
  BY DEF Thread, GoesOn, KeepsHands
<1> QED
  BY <1>1, <1>2, <1>3, QuietMove

(* Every step of log_printer is quiet. *)
LEMMA PrinterQuiet ==
  ASSUME Base, Printer
  PROVE  Base' /\ Quiet
<1>1. ASSUME NEW from, NEW to \in Place, Step("printer", from, to)
      PROVE  Base' /\ Quiet
  <2>1. "printer" \in Thread /\ GoesOn("printer", from, to)
    BY DEF Thread, GoesOn, KeepsHands
  <2> QED
    BY <1>1, <2>1, QuietStep
<1>2. CASE LeaveLoop("printer")
  <2>1. Step("printer", "wait", "last") /\ "last" \in Place
    BY <1>2 DEF LeaveLoop, BehindLoop, Place
  <2> QED
    BY <1>1, <2>1
<1>3. CASE logs = <<>> /\ Step("printer", "last", AfterLastWait)
  <2>1. AfterLastWait \in Place
    BY DEF AfterLastWait, Place
  <2> QED
    BY <1>1, <1>3, <2>1
<1>4. CASE logs = <<>> /\ Step("printer", "drain", "done")
  <2>1. "done" \in Place
    BY DEF Place
  <2> QED
    BY <1>1, <1>4, <2>1
<1>5. ASSUME NEW from \in {"wait", "last", "drain"}, PrintLog(from)
      PROVE  Base' /\ Quiet
  <2>1. \E to \in Place : Goto("printer", from, to)
    BY <1>5 DEF PrintLog, NextTurn, BehindLoop, AfterLastWait, Place
  <2>2. /\ logs # <<>> /\ logs' = Tail(logs)
        /\ UNCHANGED <<game_over, inVars, outVars, autoVars, putVars, outcome, netVars>>
    BY <1>5 DEF PrintLog
  <2> QED
    BY <2>1, <2>2, QuietPrint
<1> QED
  BY <1>2, <1>3, <1>4, <1>5 DEF Printer

(* The process ends, or has ended. *)
LEMMA StillQuiet ==
  ASSUME Base, outcome' \in {"running", "finished", "disconnect", "syserr"},
         UNCHANGED <<is_auto_strategy, coeffs, pc, game_over, logVars, inVars, outVars,
                     autoVars, putVars, netVars>>
  PROVE  Base' /\ Quiet
<1>1. /\ UNCHANGED <<is_auto_strategy, coeffs, pc, game_over, logs, put, puts>>
      /\ UNCHANGED <<incoming_messages, processing, is_first_message, scoring_received>>
      /\ UNCHANGED <<outgoing_messages, sending>>
      /\ UNCHANGED <<K_set, current_approximation, puts_without_answer>>
      /\ UNCHANGED <<to_server, to_client, server>>
  BY DEF logVars, inVars, outVars, autoVars, putVars, netVars
<1>2. TypeOK'
  BY <1>1 DEF Base, TypeOK
<1>3. InHand' /\ KnownPoints' /\ ClosedOwesNothing'
  BY <1>1 DEF Base, InHand, KnownPoints, ClosedOwesNothing
<1>4. Quiet
  BY <1>1 DEF Quiet, Untouched, Onward, Outbound, Inbound
<1> QED
  BY <1>2, <1>3, <1>4 DEF Base

(* fatal and syserr. *)
LEMMA EndsQuiet ==
  ASSUME Base, NEW t, NEW from, NEW how \in {"finished", "disconnect", "syserr"},
         Ends(t, from, how)
  PROVE  Base' /\ Quiet
<1>1. outcome' \in {"running", "finished", "disconnect", "syserr"}
  BY DEF Ends
<1> QED
  BY <1>1, StillQuiet DEF Ends

(* Nothing happens. *)
LEMMA VarsQuiet ==
  ASSUME Base, UNCHANGED vars
  PROVE  Base' /\ Quiet
<1>1. outcome' \in {"running", "finished", "disconnect", "syserr"}
  BY BaseTypes DEF vars
<1> QED
  BY <1>1, StillQuiet DEF vars

(* join_threads is quiet. *)
LEMMA JoinQuiet ==
  ASSUME Base, JoinThreads
  PROVE  Base' /\ Quiet
<1>1. /\ Goto("main", "join", "done") /\ outcome' = "finished" /\ game_over' = game_over
      /\ logs' = logs /\ puts' = puts /\ UNCHANGED <<inVars, outVars, autoVars, put, netVars>>
  BY DEF JoinThreads, logVars, putVars
<1>2. /\ "main" \in Thread /\ "done" \in Place /\ KeepsHands("main", "join", "done")
  BY DEF Thread, Place, KeepsHands
<1>3. /\ logs' \in Seq({"early", "late"}) /\ game_over' \in BOOLEAN /\ puts' \in Nat
      /\ outcome' \in {"running", "finished", "disconnect", "syserr"}
  BY <1>1, BaseTypes
<1>4. Base' /\ Untouched
  BY <1>1, <1>2, <1>3, Moves
<1>5. /\ pc["main"] = "join" /\ pc'["main"] = "done"
      /\ \A u \in Thread : u # "main" => pc'[u] = pc[u]
  BY <1>1, <1>2, GotoEffect DEF Base
<1>6. Onward
  BY <1>5 DEF Onward, Thread
<1> QED
  BY <1>4, <1>6 DEF Quiet

(* A message goes from the queue of the sender into its hands ... *)
LEMMA PopOutgoingQuiet ==
  ASSUME Base, PopOutgoing
  PROVE  Base' /\ Quiet
<1> DEFINE m == Head(outgoing_messages)
           q == Tail(outgoing_messages)
<1>1. TypeOK /\ InHand /\ KnownPoints /\ ClosedOwesNothing
  BY DEF Base
<1>2. /\ outgoing_messages # <<>> /\ Goto("sender", "wait", "write")
      /\ sending' = <<m>> /\ outgoing_messages' = q
      /\ UNCHANGED <<game_over, logs, put, puts, outcome>>
      /\ UNCHANGED <<incoming_messages, processing, is_first_message, scoring_received>>
      /\ UNCHANGED <<K_set, current_approximation, puts_without_answer>>
      /\ UNCHANGED <<to_server, to_client, server>>
  BY DEF PopOutgoing, logVars, inVars, autoVars, putVars, netVars
<1>3. "sender" \in Thread /\ "write" \in Place
  BY DEF Thread, Place
<1>4. /\ pc["sender"] = "wait" /\ pc' \in [Thread -> Place] /\ pc'["sender"] = "write"
      /\ \A u \in Thread : u # "sender" => pc'[u] = pc[u]
      /\ is_auto_strategy' = is_auto_strategy /\ coeffs' = coeffs
  BY <1>1, <1>2, <1>3, GotoEffect
<1>5. outgoing_messages \in Seq(Line) /\ to_server \in Seq(Line)
  BY <1>1 DEF TypeOK
<1>6. m \in Line /\ q \in Seq(Line)
  BY <1>2, <1>5, HeadFirst
<1>7. sending = <<>>
  BY <1>1, <1>4 DEF InHand
<1>8. (to_server \o <<m>>) \o q = (to_server \o <<>>) \o outgoing_messages
  BY <1>2, <1>5, Picked
<1> HIDE DEF m, q
<1>9. <<m>> \in Seq(Line) /\ Len(<<m>>) = 1 /\ <<m>> # <<>>
  BY <1>6
<1>10. TypeOK'
  <2>1. sending' \in Seq(Line) /\ Len(sending') <= 1 /\ outgoing_messages' \in Seq(Line)
    BY <1>2, <1>6, <1>9
  <2>2. /\ UNCHANGED <<game_over, logs, put, puts, outcome>>
        /\ UNCHANGED <<incoming_messages, processing, is_first_message, scoring_received>>
        /\ UNCHANGED <<K_set, current_approximation, puts_without_answer>>
        /\ UNCHANGED <<to_server, to_client, server>>
    BY <1>2
  <2> QED
    BY <1>1, <1>4, <2>1, <2>2 DEF TypeOK
<1>11. InHand' /\ KnownPoints' /\ ClosedOwesNothing'
  BY <1>1, <1>2, <1>4, <1>9 DEF InHand, Thread, KnownPoints, ClosedOwesNothing
<1>12. Outbound' = Outbound /\ Inbound' = Inbound
  BY <1>2, <1>7, <1>8 DEF Outbound, Inbound
<1>13. Onward
  BY <1>4 DEF Onward, Thread
<1> QED
  BY <1>2, <1>4, <1>10, <1>11, <1>12, <1>13 DEF Base, Quiet, Untouched

(* ... and into the socket.                                                *)
LEMMA WriteSocketQuiet ==
  ASSUME Base, WriteSocket
  PROVE  Base' /\ Quiet
<1>1. TypeOK /\ InHand /\ KnownPoints /\ ClosedOwesNothing
  BY DEF Base
<1>2. /\ to_server' = Append(to_server, sending[1]) /\ sending' = <<>>
      /\ UNCHANGED <<game_over, logs, put, puts, outcome, outgoing_messages>>
      /\ UNCHANGED <<incoming_messages, processing, is_first_message, scoring_received>>
      /\ UNCHANGED <<K_set, current_approximation, puts_without_answer>>
      /\ UNCHANGED <<to_client, server>>
  BY DEF WriteSocket, Session!SendLine, logVars, inVars, autoVars, putVars
<1>3. PICK to \in {"wait", "done"} : Goto("sender", "write", to)
  BY DEF WriteSocket, NextTurn, BehindLoop
<1>4. "sender" \in Thread /\ to \in Place
  BY <1>3 DEF Thread, Place
<1>5. /\ pc["sender"] = "write" /\ pc' \in [Thread -> Place] /\ pc'["sender"] = to
      /\ \A u \in Thread : u # "sender" => pc'[u] = pc[u]
      /\ is_auto_strategy' = is_auto_strategy /\ coeffs' = coeffs
  BY <1>1, <1>3, <1>4, GotoEffect
<1>6. sending \in Seq(Line) /\ Len(sending) <= 1 /\ to_server \in Seq(Line) /\ sending # <<>>
  BY <1>1, <1>5 DEF TypeOK, InHand
<1>7. Append(to_server, sending[1]) \o <<>> = to_server \o sending
  BY <1>6, PassedOn
<1>8. sending[1] \in Line
  BY <1>6, Single
<1>9. Append(to_server, sending[1]) \in Seq(Line) /\ <<>> \in Seq(Line) /\ Len(<<>>) = 0
  BY <1>6, <1>8, AppendProperties, EmptySeq
<1>10. TypeOK'
  <2>1. sending' \in Seq(Line) /\ Len(sending') <= 1 /\ to_server' \in Seq(Line)
    BY <1>2, <1>9
  <2>2. /\ UNCHANGED <<game_over, logs, put, puts, outcome, outgoing_messages>>
        /\ UNCHANGED <<incoming_messages, processing, is_first_message, scoring_received>>
        /\ UNCHANGED <<K_set, current_approximation, puts_without_answer>>
        /\ UNCHANGED <<to_client, server>>
    BY <1>2
  <2> QED
    BY <1>1, <1>5, <2>1, <2>2 DEF TypeOK
<1>11. InHand' /\ KnownPoints' /\ ClosedOwesNothing'
  BY <1>1, <1>2, <1>3, <1>5 DEF InHand, Thread, KnownPoints, ClosedOwesNothing
<1>12. Outbound' = Outbound /\ Inbound' = Inbound
  BY <1>2, <1>7 DEF Outbound, Inbound
<1>13. Onward
  BY <1>5 DEF Onward, Thread
<1> QED
  BY <1>2, <1>5, <1>10, <1>11, <1>12, <1>13 DEF Base, Quiet, Untouched

(* Every step of network_sender is quiet. *)
LEMMA SenderQuiet ==
  ASSUME Base, Sender
  PROVE  Base' /\ Quiet
<1>1. CASE LeaveLoop("sender")
  <2>1. /\ Step("sender", "wait", "done") /\ "done" \in Place /\ "sender" \in Thread
        /\ GoesOn("sender", "wait", "done")
    BY <1>1 DEF LeaveLoop, BehindLoop, Place, Thread, GoesOn, KeepsHands
  <2> QED
    BY <2>1, QuietStep
<1>2. CASE PopOutgoing
  BY <1>2, PopOutgoingQuiet
<1>3. CASE WriteSocket
  BY <1>3, WriteSocketQuiet
<1>4. CASE Ends("sender", "write", "syserr")
  BY <1>4, EndsQuiet
<1> QED
  BY <1>1, <1>2, <1>3, <1>4 DEF Sender

(* What is received goes from the wire into the queue ... *)
LEMMA RecvQuiet ==
  ASSUME Base, Recv
  PROVE  Base' /\ Quiet
<1>1. TypeOK /\ InHand /\ KnownPoints /\ ClosedOwesNothing
  BY DEF Base
<1>2. /\ UNCHANGED <<game_over, logs, put, puts, outcome, outgoing_messages, sending>>
      /\ UNCHANGED <<processing, is_first_message, scoring_received>>
      /\ UNCHANGED <<K_set, current_approximation, puts_without_answer>>
      /\ UNCHANGED <<to_server, server>>
  BY DEF Recv, Session!Receive, logVars, outVars, autoVars, putVars
<1>3. PICK n \in 1..Len(to_client) :
         /\ to_client' = SubSeq(to_client, n + 1, Len(to_client))
         /\ incoming_messages' = incoming_messages \o SubSeq(to_client, 1, n)
  BY DEF Recv, Session!Receive
<1>4. PICK to \in {"wait", "end"} : Goto("receiver", "wait", to)
  BY DEF Recv, NextTurn, BehindLoop
<1>5. "receiver" \in Thread /\ to \in Place
  BY <1>4 DEF Thread, Place
<1>6. /\ pc["receiver"] = "wait" /\ pc' \in [Thread -> Place] /\ pc'["receiver"] = to
      /\ \A u \in Thread : u # "receiver" => pc'[u] = pc[u]
      /\ is_auto_strategy' = is_auto_strategy /\ coeffs' = coeffs
  BY <1>1, <1>4, <1>5, GotoEffect
<1>7. /\ processing \in Seq(AnswerType) /\ incoming_messages \in Seq(AnswerType)
      /\ to_client \in Seq(AnswerType)
  BY <1>1 DEF TypeOK
<1>8. PICK x \in Seq(AnswerType), y \in Seq(AnswerType) :
         x = SubSeq(to_client, 1, n) /\ y = SubSeq(to_client, n + 1, Len(to_client))
         /\ x \o y = to_client
  <2>1. PICK c \in Seq(AnswerType) : c = to_client /\ n \in 1..Len(c)
    BY <1>3, <1>7
  <2>2. /\ SubSeq(c, 1, n) \in Seq(AnswerType) /\ SubSeq(c, n + 1, Len(c)) \in Seq(AnswerType)
        /\ SubSeq(c, 1, n) \o SubSeq(c, n + 1, Len(c)) = c
    BY <2>1, Parted
  <2> QED
    BY <2>1, <2>2
<1>9. Receives(processing, incoming_messages, x, y)
  BY <1>7, <1>8, Received
<1>10. Outbound' = Outbound /\ Inbound' = Inbound
  BY <1>2, <1>3, <1>8, <1>9 DEF Outbound, Inbound, Receives
<1>11. incoming_messages' \in Seq(AnswerType) /\ to_client' \in Seq(AnswerType)
  BY <1>3, <1>7, <1>8, ConcatProperties
<1>12. TypeOK'
  BY <1>1, <1>2, <1>6, <1>11 DEF TypeOK
<1>13. InHand' /\ KnownPoints' /\ ClosedOwesNothing'
  BY <1>1, <1>2, <1>6 DEF InHand, Thread, KnownPoints, ClosedOwesNothing
<1>14. Onward
  BY <1>6 DEF Onward, Thread
<1> QED
  BY <1>2, <1>6, <1>10, <1>12, <1>13, <1>14 DEF Base, Quiet, Untouched

(* ... and from there into the hands of the processor.                     *)
LEMMA PopIncomingQuiet ==
  ASSUME Base, PopIncoming
  PROVE  Base' /\ Quiet
<1> DEFINE m == Head(incoming_messages)
           q == Tail(incoming_messages)
<1>1. TypeOK /\ InHand /\ KnownPoints /\ ClosedOwesNothing
  BY DEF Base
<1>2. /\ UNCHANGED <<game_over, logs, put, puts, outcome, outgoing_messages, sending>>
      /\ UNCHANGED <<is_first_message, scoring_received>>
      /\ UNCHANGED <<K_set, current_approximation, puts_without_answer>>
      /\ UNCHANGED <<to_server, to_client, server>>
  BY DEF PopIncoming, logVars, outVars, autoVars, putVars, netVars
<1>3. /\ incoming_messages # <<>> /\ Goto("processor", "wait", "log")
      /\ processing' = <<m>> /\ incoming_messages' = q
  BY DEF PopIncoming
<1>4. "processor" \in Thread /\ "log" \in Place
  BY DEF Thread, Place
<1>5. /\ pc["processor"] = "wait" /\ pc' \in [Thread -> Place] /\ pc'["processor"] = "log"
      /\ \A u \in Thread : u # "processor" => pc'[u] = pc[u]
      /\ is_auto_strategy' = is_auto_strategy /\ coeffs' = coeffs
  BY <1>1, <1>3, <1>4, GotoEffect
<1>6. incoming_messages \in Seq(AnswerType) /\ to_client \in Seq(AnswerType)
  BY <1>1 DEF TypeOK
<1>7. m \in AnswerType /\ q \in Seq(AnswerType) /\ incoming_messages = <<m>> \o q
  BY <1>3, <1>6, HeadFirst
<1>8. processing = <<>>
  BY <1>1, <1>5 DEF InHand
<1>9. <<>> \o incoming_messages = incoming_messages
  BY <1>6, ConcatEmptySeq
<1> HIDE DEF m, q
<1>10. <<m>> \in Seq(AnswerType) /\ Len(<<m>>) = 1 /\ <<m>> # <<>>
  BY <1>7
<1>11. /\ processing' \in Seq(AnswerType) /\ Len(processing') <= 1 /\ processing' # <<>>
       /\ incoming_messages' \in Seq(AnswerType)
  BY <1>3, <1>7, <1>10
<1>12. Outbound' = Outbound /\ Inbound' = Inbound
  BY <1>2, <1>3, <1>7, <1>8, <1>9 DEF Outbound, Inbound
<1>13. TypeOK'
  BY <1>1, <1>2, <1>5, <1>11 DEF TypeOK
<1>14. InHand' /\ KnownPoints' /\ ClosedOwesNothing'
  BY <1>1, <1>2, <1>5, <1>11 DEF InHand, Thread, KnownPoints, ClosedOwesNothing
<1>15. Onward
  BY <1>5 DEF Onward, Thread
<1> QED
  BY <1>2, <1>5, <1>12, <1>13, <1>14, <1>15 DEF Base, Quiet, Untouched

(* Every step of network_receiver is quiet. *)
LEMMA ReceiverQuiet ==
  ASSUME Base, Receiver
  PROVE  Base' /\ Quiet
<1>1. /\ "receiver" \in Thread /\ "done" \in Place /\ "end" \in Place
      /\ \A from, to : GoesOn("receiver", from, to)
  BY DEF Thread, Place, GoesOn, KeepsHands
<1>2. CASE LeaveLoop("receiver")
  <2>1. Step("receiver", "wait", "end")
    BY <1>2 DEF LeaveLoop, BehindLoop
  <2> QED
    BY <1>1, <2>1, QuietStep
<1>3. CASE Step("receiver", "end", "done")
  BY <1>1, <1>3, QuietStep
<1>4. CASE LogPartialMessage
  BY <1>1, <1>4, QuietLog DEF LogPartialMessage
<1>5. CASE Recv
  BY <1>5, RecvQuiet
<1>6. CASE RecvEndOfFile
  <2>1. /\ Goto("receiver", "wait", "end") /\ game_over' = TRUE /\ logs' = logs
        /\ puts' = puts /\ outcome' = outcome
        /\ UNCHANGED <<inVars, outVars, autoVars, put, netVars>>
    BY <1>6 DEF RecvEndOfFile, logVars, putVars
  <2>2. /\ logs' \in Seq({"early", "late"}) /\ game_over' \in BOOLEAN /\ puts' \in Nat
        /\ outcome' \in {"running", "finished", "disconnect", "syserr"}
    BY <2>1, BaseTypes
  <2> QED
    BY <1>1, <2>1, <2>2, QuietMove
<1>7. CASE Ends("receiver", "wait", "syserr")
  BY <1>7, EndsQuiet
<1> QED
  BY <1>2, <1>3, <1>4, <1>5, <1>6, <1>7 DEF Receiver

(* The strategy passes its PUT on. *)
LEMMA PutSentQuiet ==
  ASSUME Base, PutSent
  PROVE  Base' /\ Quiet
<1>1. TypeOK /\ InHand /\ KnownPoints /\ ClosedOwesNothing
  BY DEF Base
<1>2. /\ UNCHANGED <<game_over, logs, puts, outcome, sending>>
      /\ UNCHANGED <<incoming_messages, processing, is_first_message, scoring_received>>
      /\ UNCHANGED <<K_set, current_approximation, puts_without_answer>>
      /\ UNCHANGED <<to_server, to_client, server>>
  BY DEF PutSent, logVars, inVars, autoVars, netVars
<1>3. outgoing_messages' = outgoing_messages \o put /\ put' = <<>>
  BY DEF PutSent
<1>4. PICK to \in {"wait", "done"} : Goto("strategy", "put", to)
  BY DEF PutSent, NextTurn, InputTurn, BehindLoop
<1>5. "strategy" \in Thread /\ to \in Place
  BY <1>4 DEF Thread, Place
<1>6. /\ pc["strategy"] = "put" /\ pc' \in [Thread -> Place] /\ pc'["strategy"] = to
      /\ \A u \in Thread : u # "strategy" => pc'[u] = pc[u]
      /\ is_auto_strategy' = is_auto_strategy /\ coeffs' = coeffs
  BY <1>1, <1>4, <1>5, GotoEffect
<1>7. /\ put \in Seq(Line) /\ outgoing_messages \in Seq(Line)
      /\ to_server \in Seq(Line) /\ sending \in Seq(Line)
  BY <1>1 DEF TypeOK
<1>8. PICK a \in Seq(Line) : a = to_server \o sending
  BY <1>7, ConcatProperties
<1>9. Queues(a, outgoing_messages, put)
  BY <1>7, Queued
<1>10. Outbound' = Outbound /\ Inbound' = Inbound
  BY <1>2, <1>3, <1>8, <1>9 DEF Outbound, Inbound, Queues
<1>11. /\ outgoing_messages' \in Seq(Line) /\ put' \in Seq(Line) /\ Len(put') <= 1
       /\ put' = <<>>
  BY <1>3, <1>7, ConcatProperties, EmptySeq
<1>12. TypeOK'
  BY <1>1, <1>2, <1>6, <1>11 DEF TypeOK
<1>13. InHand' /\ KnownPoints' /\ ClosedOwesNothing'
  BY <1>1, <1>2, <1>4, <1>6, <1>11 DEF InHand, Thread, KnownPoints, ClosedOwesNothing
<1>14. Onward
  BY <1>4, <1>6 DEF Onward, Thread
<1> QED
  BY <1>2, <1>6, <1>10, <1>12, <1>13, <1>14 DEF Base, Quiet, Untouched

(* A quiet step preserves the invariant. *)
LEMMA QuietInv ==
  ASSUME ClientInv, Base', Quiet
  PROVE  ClientInv'
<1>1. Turn'
  BY QuietTurn DEF ClientInv
<1>2. CopyIsRight'
  BY DEF ClientInv, CopyIsRight, Copy, Due, Quiet, Untouched
<1> QED
  BY <1>1, <1>2 DEF ClientInv

-----------------------------------------------------------------------------
(* Steps of the client that matter. *)

(* With nothing on its way to the server, no thread and no queue has a     *)
(* message for it.                                                         *)
LEMMA NothingOutbound ==
  ASSUME TypeOK, Outbound = <<>>
  PROVE  to_server = <<>> /\ sending = <<>> /\ outgoing_messages = <<>> /\ put = <<>>
<1>1. /\ to_server \in Seq(Line) /\ sending \in Seq(Line)
      /\ outgoing_messages \in Seq(Line) /\ put \in Seq(Line)
  BY DEF TypeOK
<1> QED
  BY <1>1, AllEmpty DEF Outbound

(* One message, and no other before or behind it. *)
LEMMA OneMessage ==
  ASSUME NEW m
  PROVE  /\ ((<<>> \o <<>>) \o <<m>>) \o <<>> = <<m>>
         /\ ((<<>> \o <<>>) \o <<>>) \o <<m>> = <<m>>
         /\ Append(<<>>, m) = <<m>>
<1>1. <<>> \in Seq({m}) /\ <<m>> \in Seq({m}) /\ m \in {m}
  OBVIOUS
<1>2. \A s \in Seq({m}) : <<>> \o s = s /\ s \o <<>> = s
  BY ConcatEmptySeq
<1> QED
  BY <1>1, <1>2

(* The HELLO is a line. *)
LEMMA HelloType ==
  Hello \in Line /\ Hello[1] = "HELLO"
BY ClientAssumption DEF Hello, Line

(* HELLO is queued. *)
LEMMA SendHelloInv ==
  ASSUME ClientInv, SendHello
  PROVE  ClientInv'
<1>1. TypeOK /\ InHand /\ KnownPoints /\ ClosedOwesNothing /\ Turn /\ CopyIsRight
  BY DEF ClientInv, Base
<1>2. /\ UNCHANGED <<game_over, logs, put, puts, outcome, sending>>
      /\ UNCHANGED <<incoming_messages, processing, is_first_message, scoring_received>>
      /\ UNCHANGED <<K_set, current_approximation, puts_without_answer>>
      /\ UNCHANGED <<to_server, to_client, server>>
  BY DEF SendHello, logVars, inVars, autoVars, putVars, netVars
<1>3. Goto("main", "hello", "join") /\ outgoing_messages' = Append(outgoing_messages, Hello)
  BY DEF SendHello, Hello
<1>4. "main" \in Thread /\ "join" \in Place
  BY DEF Thread, Place
<1>5. /\ pc["main"] = "hello" /\ pc' \in [Thread -> Place] /\ pc'["main"] = "join"
      /\ \A u \in Thread : u # "main" => pc'[u] = pc[u]
      /\ is_auto_strategy' = is_auto_strategy /\ coeffs' = coeffs
  BY <1>1, <1>3, <1>4, GotoEffect
<1>6. outgoing_messages' \in Seq(Line)
  BY <1>1, <1>3, HelloType, AppendProperties DEF TypeOK
<1>7. Base'
  <2>1. TypeOK'
    BY <1>1, <1>2, <1>5, <1>6 DEF TypeOK
  <2>2. InHand' /\ KnownPoints' /\ ClosedOwesNothing'
    BY <1>1, <1>2, <1>5 DEF InHand, Thread, KnownPoints, ClosedOwesNothing
  <2> QED
    BY <2>1, <2>2 DEF Base
<1>8. CASE ~is_auto_strategy
  BY <1>5, <1>7, <1>8 DEF ClientInv, Turn, CopyIsRight
<1>9. CASE is_auto_strategy
  <2>1. Introducing /\ Outbound = <<>>
    BY <1>1, <1>5, <1>9 DEF Turn, Introducing, Introduced, Free, Choosing, Putting, Awaiting,
                           Answered
  <2>2. Outbound' = <<Hello>>
    <3>1. to_server = <<>> /\ sending = <<>> /\ outgoing_messages = <<>> /\ put = <<>>
      BY <1>1, <2>1, NothingOutbound
    <3> QED
      BY <1>2, <1>3, <3>1, OneMessage DEF Outbound
  <2>3. Inbound' = Inbound /\ pc'["strategy"] = pc["strategy"]
    BY <1>2, <1>5 DEF Inbound, Thread
  <2>4. Introducing'
    BY <1>2, <1>5, <2>1, <2>2, <2>3 DEF Introducing, SeatIs
  <2>5. Outbound'[1] = Hello
    BY <2>2
  <2>6. CopyIsRight'
    BY <1>1, <1>2, <1>5, <2>1, <2>5, HelloType DEF CopyIsRight, Copy, Due
  <2> QED
    BY <1>7, <2>4, <2>6 DEF ClientInv, Turn
<1> QED
  BY <1>8, <1>9

(* All answers are in: the strategy goes on ... *)
LEMMA WaitForPutsInv ==
  ASSUME ClientInv, is_auto_strategy, WaitForPuts
  PROVE  ClientInv'
<1>1. Base /\ Turn /\ CopyIsRight
  BY DEF ClientInv
<1>2. /\ Goto("strategy", "wait", "count") /\ puts' = puts + 1 /\ game_over' = game_over
      /\ logs' = logs /\ outcome' = outcome
      /\ UNCHANGED <<inVars, outVars, autoVars, put, netVars>>
  BY DEF WaitForPuts, logVars
<1>3. /\ logs' \in Seq({"early", "late"}) /\ game_over' \in BOOLEAN /\ puts' \in Nat
      /\ outcome' \in {"running", "finished", "disconnect", "syserr"}
  BY <1>1, <1>2, BaseTypes
<1>4. "strategy" \in Thread /\ "count" \in Place /\ KeepsHands("strategy", "wait", "count")
  BY DEF Thread, Place, KeepsHands
<1>5. Base' /\ Untouched
  BY <1>1, <1>2, <1>3, <1>4, Moves
<1>6. /\ pc["strategy"] = "wait" /\ pc'["strategy"] = "count" /\ pc'["main"] = pc["main"]
  BY <1>1, <1>2, <1>4, GotoEffect DEF Base, Thread
<1>7. Free
  <2>1. puts_without_answer = 0
    BY DEF WaitForPuts, AnswersAreIn
  <2>2. ~Introducing /\ ~Introduced /\ ~Choosing
    BY <2>1 DEF Introducing, Introduced, Choosing
  <2>3. ~Putting /\ ~Awaiting /\ ~Answered
    BY <2>1 DEF Putting, Awaiting, Answered
  <2> QED
    BY <1>1, <2>2, <2>3 DEF Turn
<1>8. Free'
  BY <1>5, <1>6, <1>7 DEF Untouched, Free, Coming, SeatIs, Session!Serves
<1>9. CopyIsRight'
  BY <1>1, <1>5 DEF CopyIsRight, Copy, Due, Untouched
<1> QED
  BY <1>5, <1>8, <1>9 DEF ClientInv, Turn

(* ... and counts the PUT it is about to choose.                           *)
LEMMA IncrementPutsInv ==
  ASSUME ClientInv, is_auto_strategy, IncrementPuts
  PROVE  ClientInv'
<1>1. TypeOK /\ InHand /\ KnownPoints /\ ClosedOwesNothing /\ Turn /\ CopyIsRight
  BY DEF ClientInv, Base
<1>2. /\ UNCHANGED <<game_over, logs, put, puts, outcome, outgoing_messages, sending>>
      /\ UNCHANGED <<incoming_messages, processing, is_first_message, scoring_received>>
      /\ UNCHANGED <<K_set, current_approximation>>
      /\ UNCHANGED <<to_server, to_client, server>>
  BY DEF IncrementPuts, logVars, inVars, outVars, putVars, netVars
<1>3. Goto("strategy", "count", "choose") /\ puts_without_answer' = puts_without_answer + 1
  BY DEF IncrementPuts
<1>4. "strategy" \in Thread /\ "choose" \in Place
  BY DEF Thread, Place
<1>5. /\ pc["strategy"] = "count" /\ pc' \in [Thread -> Place] /\ pc'["strategy"] = "choose"
      /\ \A u \in Thread : u # "strategy" => pc'[u] = pc[u]
      /\ is_auto_strategy' = is_auto_strategy /\ coeffs' = coeffs
  BY <1>1, <1>3, <1>4, GotoEffect
<1>6. Base'
  <2>1. puts_without_answer' \in Nat
    BY <1>1, <1>3 DEF TypeOK
  <2>2. TypeOK'
    BY <1>1, <1>2, <1>5, <2>1 DEF TypeOK
  <2>3. InHand' /\ KnownPoints' /\ ClosedOwesNothing'
    BY <1>1, <1>2, <1>5 DEF InHand, Thread, KnownPoints, ClosedOwesNothing
  <2> QED
    BY <2>2, <2>3 DEF Base
<1>7. Free
  BY <1>1, <1>5 DEF Turn, Introducing, Introduced, Free, Choosing, Putting, Awaiting, Answered
<1>8. /\ Outbound' = Outbound /\ Inbound' = Inbound /\ pc'["main"] = pc["main"]
      /\ puts_without_answer' = 1
  BY <1>2, <1>3, <1>5, <1>7 DEF Outbound, Inbound, Thread, Free
<1>9. Choosing'
  BY <1>2, <1>5, <1>7, <1>8 DEF Free, Choosing, Coming, SeatIs, Session!Serves
<1>10. CopyIsRight'
  BY <1>1, <1>2, <1>5, <1>8 DEF CopyIsRight, Copy, Due
<1> QED
  BY <1>5, <1>6, <1>9, <1>10 DEF ClientInv, Turn

(* It chooses. *)
LEMMA GetBestPutInv ==
  ASSUME ClientInv, is_auto_strategy, GetBestPut
  PROVE  ClientInv'
<1>1. TypeOK /\ InHand /\ KnownPoints /\ ClosedOwesNothing /\ Turn /\ CopyIsRight
  BY DEF ClientInv, Base
<1>2. /\ UNCHANGED <<game_over, logs, puts, outcome, outgoing_messages, sending>>
      /\ UNCHANGED <<incoming_messages, processing, is_first_message, scoring_received>>
      /\ UNCHANGED <<K_set, puts_without_answer>>
      /\ UNCHANGED <<to_server, to_client, server>>
  BY DEF GetBestPut, logVars, inVars, outVars, netVars
<1>3. /\ Goto("strategy", "choose", "log")
      /\ put' = <<best_put>> /\ current_approximation' = WithPut(current_approximation, best_put)
  BY DEF GetBestPut
<1>4. "strategy" \in Thread /\ "log" \in Place
  BY DEF Thread, Place
<1>5. /\ pc["strategy"] = "choose" /\ pc' \in [Thread -> Place] /\ pc'["strategy"] = "log"
      /\ \A u \in Thread : u # "strategy" => pc'[u] = pc[u]
      /\ is_auto_strategy' = is_auto_strategy /\ coeffs' = coeffs
  BY <1>1, <1>3, <1>4, GotoEffect
<1>6. Choosing
  BY <1>1, <1>5 DEF Turn, Introducing, Introduced, Free, Choosing, Putting, Awaiting, Answered
<1>7. PICK top \in {1, K} : current_approximation \in [0..top -> Int]
  BY <1>1, <1>6 DEF Choosing, KnownPoints
<1>8. top \in Nat /\ 0..top \subseteq 0..K
  BY <1>7, RulesAssumption
<1>9. PICK p \in 0..top, v \in min_put_value..max_put_value : best_put = <<"PUT", p, v>>
  <2>1. coeffs \in Seq(Int)
    BY <1>1, ClientAssumption DEF TypeOK
  <2> QED
    BY <1>7, <1>8, <2>1, BestPutEffect
<1>10. p \in Int /\ v \in Int
  BY <1>9 DEF min_put_value, max_put_value
<1>11. /\ put' = <<<<"PUT", p, v>>>>
       /\ current_approximation' = [current_approximation EXCEPT ![p] = @ + v]
  BY <1>3, <1>9 DEF WithPut, Put
<1>12. /\ current_approximation' \in [0..top -> Int]
       /\ \A x \in 0..top : current_approximation'[x]
                              = IF x = p THEN current_approximation[x] + v
                                ELSE current_approximation[x]
  BY <1>7, <1>9, <1>10, <1>11
<1>13. <<"PUT", p, v>> \in Line
  BY <1>10 DEF Line
<1>14. Base'
  <2>1. put' \in Seq(Line) /\ Len(put') <= 1 /\ put' # <<>>
    BY <1>11, <1>13
  <2>2. \E t \in {-1, 1, K} : current_approximation' \in [0..t -> Int]
    BY <1>7, <1>12
  <2>3. TypeOK'
    BY <1>1, <1>2, <1>5, <2>1, <2>2 DEF TypeOK
  <2>4. InHand'
    BY <1>1, <1>2, <1>5, <2>1 DEF InHand, Thread
  <2>5. KnownPoints' /\ ClosedOwesNothing'
    BY <1>1, <1>2, <1>6, <1>7, <1>12 DEF KnownPoints, ClosedOwesNothing, Choosing
  <2> QED
    BY <2>3, <2>4, <2>5 DEF Base
<1>15. Outbound = <<>> /\ Outbound' = <<<<"PUT", p, v>>>>
  <2>1. Outbound = <<>>
    BY <1>6 DEF Choosing
  <2>2. to_server = <<>> /\ sending = <<>> /\ outgoing_messages = <<>> /\ put = <<>>
    BY <1>1, <2>1, NothingOutbound
  <2> QED
    BY <1>2, <1>11, <2>1, <2>2, OneMessage DEF Outbound
<1>16. Putting'
  <2>1. Inbound' = Inbound /\ pc'["main"] = pc["main"]
    BY <1>2, <1>5 DEF Inbound, Thread
  <2>2. Coming(<<>>)' /\ SeatIs(TRUE, TRUE, 0)'
    BY <1>2, <1>6, <2>1 DEF Choosing, Coming, SeatIs, Session!Serves
  <2>3. \E pp \in DOMAIN current_approximation', vv \in min_put_value..max_put_value :
           Outbound' = <<<<"PUT", pp, vv>>>>
    BY <1>9, <1>12, <1>15
  <2> QED
    BY <1>2, <1>5, <1>6, <2>1, <2>2, <2>3 DEF Choosing, Putting
<1>17. CopyIsRight'
  <2>1. SUFFICES ASSUME server.open, NEW x \in 0..K
                 PROVE  Copy(x)' = server.approximations[x] + Due(x)'
    BY <1>2, <1>5 DEF CopyIsRight
  <2>2. Copy(x) = server.approximations[x] + Due(x) /\ Due(x) = 0
    BY <1>1, <1>15, <2>1 DEF CopyIsRight, Due
  <2>3. server.approximations[x] \in Int
    BY <1>1, SeatFields DEF TypeOK, Approximation
  <2>4. Due(x)' = IF x = p THEN v ELSE 0
    BY <1>15 DEF Due
  <2>5. Copy(x)' = IF x = p THEN Copy(x) + v ELSE Copy(x)
    BY <1>7, <1>9, <1>12 DEF Copy
  <2> QED
    BY <1>10, <2>2, <2>3, <2>4, <2>5
<1> QED
  BY <1>5, <1>14, <1>16, <1>17 DEF ClientInv, Turn

(* A line of input. *)
LEMMA ReadInputInv ==
  ASSUME ClientInv, ~is_auto_strategy, ReadInput
  PROVE  ClientInv'
<1>1. TypeOK /\ InHand /\ KnownPoints /\ ClosedOwesNothing /\ Base
  BY DEF ClientInv, Base
<1>2. /\ UNCHANGED <<game_over, outcome, outgoing_messages, sending>>
      /\ UNCHANGED <<incoming_messages, processing, is_first_message, scoring_received>>
      /\ UNCHANGED <<K_set, current_approximation, puts_without_answer>>
      /\ UNCHANGED <<to_server, to_client, server>> /\ puts' = puts + 1 /\ Log
  BY DEF ReadInput, inVars, outVars, autoVars, netVars
<1>3. PICK to \in {"wait", "done", "put"} :
         /\ Goto("strategy", "wait", to)
         /\ IF to = "put" THEN \E p \in Points, v \in Values : put' = <<<<"PUT", p, v>>>>
            ELSE put' = put
  BY DEF ReadInput, InputTurn, NextTurn, BehindLoop
<1>4. "strategy" \in Thread /\ to \in Place
  BY <1>3 DEF Thread, Place
<1>5. /\ pc["strategy"] = "wait" /\ pc' \in [Thread -> Place] /\ pc'["strategy"] = to
      /\ \A u \in Thread : u # "strategy" => pc'[u] = pc[u]
      /\ is_auto_strategy' = is_auto_strategy /\ coeffs' = coeffs
  BY <1>1, <1>3, <1>4, GotoEffect
<1>6. put' \in Seq(Line) /\ Len(put') <= 1 /\ (put' # <<>> <=> to = "put")
  <2>1. CASE to = "put"
    <3>1. PICK p \in Points, v \in Values : put' = <<<<"PUT", p, v>>>>
      BY <1>3, <2>1
    <3>2. <<"PUT", p, v>> \in Line
      BY <3>1, RulesAssumption DEF Line
    <3> QED
      BY <2>1, <3>1, <3>2
  <2>2. CASE to # "put"
    BY <1>1, <1>3, <1>5, <2>2 DEF TypeOK, InHand
  <2> QED
    BY <2>1, <2>2
<1>7. puts' \in Nat /\ logs' \in Seq({"early", "late"})
  BY <1>1, <1>2, LogType DEF TypeOK
<1>8. TypeOK'
  BY <1>1, <1>2, <1>5, <1>6, <1>7 DEF TypeOK
<1>9. InHand'
  BY <1>1, <1>2, <1>3, <1>5, <1>6 DEF InHand, Thread
<1>10. KnownPoints' /\ ClosedOwesNothing'
  BY <1>1, <1>2 DEF KnownPoints, ClosedOwesNothing
<1> QED
  BY <1>5, <1>8, <1>9, <1>10 DEF ClientInv, Base, Turn, CopyIsRight

(* Every step of the strategies preserves the invariant. *)
LEMMA StrategyInv ==
  ASSUME ClientInv, Strategy
  PROVE  ClientInv'
<1>1. Base /\ "strategy" \in Thread /\ "done" \in Place /\ "put" \in Place
  BY DEF ClientInv, Thread, Place
<1>2. CASE LeaveLoop("strategy")
  <2>1. Step("strategy", "wait", "done") /\ GoesOn("strategy", "wait", "done")
    BY <1>2 DEF LeaveLoop, BehindLoop, GoesOn, KeepsHands
  <2> QED
    BY <1>1, <2>1, QuietStep, QuietInv
<1>3. CASE is_auto_strategy /\ WaitForPuts
  BY <1>3, WaitForPutsInv
<1>4. CASE is_auto_strategy /\ IncrementPuts
  BY <1>4, IncrementPutsInv
<1>5. CASE is_auto_strategy /\ GetBestPut
  BY <1>5, GetBestPutInv
<1>6. CASE LogPut
  <2>1. GoesOn("strategy", "log", "put")
    BY DEF GoesOn, KeepsHands
  <2>2. Base' /\ Quiet
    BY <1>1, <1>6, <2>1, QuietLog DEF LogPut
  <2> QED
    BY <2>2, QuietInv
<1>7. CASE ~is_auto_strategy /\ ReadInput
  BY <1>7, ReadInputInv
<1>8. CASE PutSent
  BY <1>1, <1>8, PutSentQuiet, QuietInv
<1> QED
  BY <1>2, <1>3, <1>4, <1>5, <1>6, <1>7, <1>8 DEF Strategy

(* The processor takes the first of the answers under way. *)
LEMMA FirstInbound ==
  ASSUME TypeOK, processing # <<>>
  PROVE  /\ Inbound # <<>> /\ Head(Inbound) = processing[1] /\ processing[1] \in AnswerType
         /\ (<<>> \o incoming_messages) \o to_client = Tail(Inbound)
<1>1. /\ processing \in Seq(AnswerType) /\ Len(processing) <= 1
      /\ incoming_messages \in Seq(AnswerType) /\ to_client \in Seq(AnswerType)
  BY DEF TypeOK
<1>2. /\ Head(processing) = processing[1] /\ Tail(processing) = <<>>
      /\ processing[1] \in AnswerType
  BY <1>1, Single
<1>3. PICK pi \in Seq(AnswerType) : pi = processing \o incoming_messages
  BY <1>1, ConcatProperties
<1>4. /\ pi # <<>> /\ Head(pi) = Head(processing)
      /\ Tail(processing) \o incoming_messages = Tail(pi)
  BY <1>1, <1>3, TakenOut
<1>5. /\ pi \o to_client # <<>> /\ Head(pi \o to_client) = Head(pi)
      /\ Tail(pi) \o to_client = Tail(pi \o to_client)
  BY <1>1, <1>4, TakenOut
<1> QED
  BY <1>2, <1>3, <1>4, <1>5 DEF Inbound

(* Taking the first answer: what it was, and what is left. *)
LEMMA NoneComing ==
  ASSUME Coming(<<>>), Inbound # <<>>, Inbound' = Tail(Inbound), server' = server
  PROVE  Head(Inbound) = "SCORING" /\ Coming(<<>>)'
<1>1. Inbound = <<"SCORING">>
  BY OneMessage DEF Coming
<1>2. Head(Inbound) = "SCORING" /\ Inbound' = <<>>
  BY <1>1
<1> QED
  BY <1>2 DEF Coming

(* The same with an answer in front of the end of the game. *)
LEMMA OneComing ==
  ASSUME NEW m, Coming(<<m>>), Inbound' = Tail(Inbound), server' = server
  PROVE  Head(Inbound) = m /\ Coming(<<>>)'
<1>1. CASE Inbound = <<m>>
  BY <1>1 DEF Coming
<1>2. CASE ~Session!Serves /\ Inbound = Append(<<m>>, "SCORING")
  <2>1. <<m>> \in Seq({m}) /\ <<m>> # <<>> /\ Head(<<m>>) = m /\ Tail(<<m>>) = <<>>
    OBVIOUS
  <2>2. Head(Inbound) = m /\ Inbound' = Append(<<>>, "SCORING")
    BY <1>2, <2>1, HeadTailAppend
  <2>3. ~Session!Serves'
    BY <1>2 DEF Session!Serves
  <2> QED
    BY <2>2, <2>3 DEF Coming
<1> QED
  BY <1>1, <1>2 DEF Coming

(* More points, and nothing at the new ones. *)
LEMMA ResizedType ==
  ASSUME TypeOK, NEW top \in {1, K}
  PROVE  Resized(top) \in [0..top -> Int]
<1>1. PICK t \in {-1, 1, K} : current_approximation \in [0..t -> Int]
  BY DEF TypeOK
<1> QED
  BY <1>1 DEF Resized

(* A message is processed: types and hands. *)
LEMMA ProcessBase ==
  ASSUME Base, Process
  PROVE  /\ Base' /\ Outbound' = Outbound /\ server' = server /\ ~is_first_message'
         /\ is_auto_strategy' = is_auto_strategy
         /\ pc'["strategy"] = pc["strategy"] /\ pc'["main"] = pc["main"]
         /\ Inbound # <<>> /\ Inbound' = Tail(Inbound) /\ Head(Inbound) = processing[1]
<1>1. TypeOK /\ InHand /\ KnownPoints /\ ClosedOwesNothing
  BY DEF Base
<1>2. /\ UNCHANGED <<logs, put, puts, outcome, outgoing_messages, sending>>
      /\ UNCHANGED <<incoming_messages, to_server, to_client, server>>
      /\ processing' = <<>> /\ is_first_message' = FALSE
      /\ scoring_received' = (scoring_received \/ processing[1] = "SCORING")
      /\ game_over' = (game_over \/ processing[1] = "SCORING")
  BY DEF Process, logVars, outVars, putVars, netVars
<1>3. PICK to \in {"wait", "end"} : Goto("processor", "process", to)
  BY DEF Process, NextTurn, BehindLoop
<1>4. "processor" \in Thread /\ to \in Place
  BY <1>3 DEF Thread, Place
<1>5. /\ pc["processor"] = "process" /\ pc' \in [Thread -> Place] /\ pc'["processor"] = to
      /\ \A u \in Thread : u # "processor" => pc'[u] = pc[u]
      /\ is_auto_strategy' = is_auto_strategy /\ coeffs' = coeffs
  BY <1>1, <1>3, <1>4, GotoEffect
<1>6. processing # <<>>
  BY <1>1, <1>5 DEF InHand
<1>7. /\ Inbound # <<>> /\ Head(Inbound) = processing[1] /\ Inbound' = Tail(Inbound)
  BY <1>1, <1>2, <1>6, FirstInbound DEF Inbound
<1>8. puts_without_answer' \in Nat
  <2>1. puts_without_answer \in Nat
    BY <1>1 DEF TypeOK
  <2>2. \/ puts_without_answer' = puts_without_answer
        \/ puts_without_answer > 0 /\ puts_without_answer' = puts_without_answer - 1
    BY DEF Process
  <2> QED
    BY <2>1, <2>2
<1>9. K_set' \in BOOLEAN
  BY <1>1 DEF TypeOK, Process
<1>10. \E top \in {1, K} : current_approximation' \in [0..top -> Int]
  <2>1. \/ current_approximation' = Resized(1) \/ current_approximation' = Resized(K)
        \/ ~is_first_message /\ current_approximation' = current_approximation
    BY DEF Process
  <2>2. CASE current_approximation' = Resized(1)
    BY <1>1, <2>2, ResizedType
  <2>3. CASE current_approximation' = Resized(K)
    BY <1>1, <2>3, ResizedType
  <2>4. CASE ~is_first_message /\ current_approximation' = current_approximation
    BY <1>1, <2>4 DEF KnownPoints
  <2> QED
    BY <2>1, <2>2, <2>3, <2>4
<1>11. TypeOK'
  <2>1. \E top \in {-1, 1, K} : current_approximation' \in [0..top -> Int]
    BY <1>10
  <2>2. processing' \in Seq(AnswerType) /\ Len(processing') <= 1
    BY <1>2, EmptySeq
  <2>3. game_over' \in BOOLEAN /\ scoring_received' \in BOOLEAN /\ is_first_message' \in BOOLEAN
    BY <1>1, <1>2 DEF TypeOK
  <2>4. /\ UNCHANGED <<logs, put, puts, outcome, outgoing_messages, sending>>
        /\ UNCHANGED <<incoming_messages, to_server, to_client, server>>
    BY <1>2
  <2> QED
    BY <1>1, <1>5, <1>8, <1>9, <2>1, <2>2, <2>3, <2>4 DEF TypeOK
<1>12. InHand'
  BY <1>1, <1>2, <1>3, <1>5 DEF InHand, Thread
<1>13. KnownPoints' /\ ClosedOwesNothing'
  BY <1>1, <1>2, <1>10 DEF KnownPoints, ClosedOwesNothing
<1>14. Outbound' = Outbound
  BY <1>2 DEF Outbound
<1> QED
  BY <1>2, <1>5, <1>7, <1>11, <1>12, <1>13, <1>14 DEF Base, Thread

(* What it does to the copy. *)
LEMMA ProcessCopy ==
  ASSUME Base, Process, NEW x \in 0..K
  PROVE  Copy(x)' = Copy(x)
<1>1. TypeOK /\ KnownPoints
  BY DEF Base
<1>2. PICK t \in {-1, 1, K} : current_approximation \in [0..t -> Int]
  BY <1>1 DEF TypeOK
<1>3. CASE is_first_message /\ current_approximation' = Resized(1)
  <2>1. current_approximation \in [0..(-1) -> Int]
    BY <1>1, <1>3 DEF KnownPoints
  <2>2. Copy(x) = 0
    BY <2>1 DEF Copy
  <2> QED
    BY <1>3, <2>1, <2>2 DEF Copy, Resized
<1>4. CASE current_approximation' = Resized(K)
  BY <1>2, <1>4, RulesAssumption DEF Copy, Resized
<1>5. CASE current_approximation' = current_approximation
  BY <1>5 DEF Copy
<1> QED
  BY <1>3, <1>4, <1>5 DEF Process

(* The phase after it. *)
LEMMA ProcessTurn ==
  ASSUME Base, Turn, is_auto_strategy, Process
  PROVE  Turn'
<1>1. /\ Outbound' = Outbound /\ server' = server /\ ~is_first_message'
      /\ is_auto_strategy' = is_auto_strategy
      /\ pc'["strategy"] = pc["strategy"] /\ pc'["main"] = pc["main"]
      /\ Inbound # <<>> /\ Inbound' = Tail(Inbound) /\ Head(Inbound) = processing[1]
  BY ProcessBase
<1>2. /\ puts_without_answer' = IF Decrements(processing[1]) /\ puts_without_answer > 0
                                THEN puts_without_answer - 1 ELSE puts_without_answer
      /\ ~is_first_message /\ processing[1] = "SCORING"
           => current_approximation' = current_approximation
  BY DEF Process
<1>3. \A known, can_put, states :
         SeatIs(known, can_put, states) => SeatIs(known, can_put, states)'
  BY <1>1 DEF SeatIs
<1>4. ASSUME Coming(<<>>), ~is_first_message
      PROVE  /\ Coming(<<>>)' /\ puts_without_answer' = puts_without_answer
             /\ current_approximation' = current_approximation
  <2>1. processing[1] = "SCORING" /\ Coming(<<>>)'
    BY <1>1, <1>4, NoneComing
  <2>2. ~Decrements(processing[1])
    BY <1>4, <2>1 DEF Decrements
  <2> QED
    BY <1>2, <1>4, <2>1, <2>2
<1>5. CASE Introducing
  BY <1>1, <1>5 DEF Introducing
<1>6. CASE Introduced
  <2>1. Coming(<<>>)'
    BY <1>1, <1>6, OneComing DEF Introduced
  <2>2. puts_without_answer' = 0
    BY <1>2, <1>6 DEF Introduced, Decrements
  <2>3. Free'
    BY <1>1, <1>3, <1>6, <2>1, <2>2 DEF Introduced, Free
  <2> QED
    BY <2>3 DEF Turn
<1>7. CASE Free
  <2>1. Free'
    BY <1>1, <1>3, <1>4, <1>7 DEF Free
  <2> QED
    BY <2>1 DEF Turn
<1>8. CASE Choosing
  <2>1. Choosing'
    BY <1>1, <1>3, <1>4, <1>8 DEF Choosing
  <2> QED
    BY <2>1 DEF Turn
<1>9. CASE Putting
  <2>1. Putting'
    BY <1>1, <1>3, <1>4, <1>9 DEF Putting
  <2> QED
    BY <2>1 DEF Turn
<1>10. CASE Awaiting
  <2>1. Awaiting'
    BY <1>1, <1>3, <1>4, <1>10 DEF Awaiting
  <2> QED
    BY <2>1 DEF Turn
<1>11. CASE Answered
  <2>1. processing[1] = "STATE" /\ Coming(<<>>)'
    BY <1>1, <1>11, OneComing DEF Answered
  <2>2. puts_without_answer' = 0
    BY <1>2, <1>11, <2>1 DEF Answered, Decrements
  <2>3. Free'
    BY <1>1, <1>3, <1>11, <2>1, <2>2 DEF Answered, Free
  <2> QED
    BY <2>3 DEF Turn
<1> QED
  BY <1>5, <1>6, <1>7, <1>8, <1>9, <1>10, <1>11 DEF Turn

(* Every step of message_processor preserves the invariant. *)
LEMMA ProcessorInv ==
  ASSUME ClientInv, Processor
  PROVE  ClientInv'
<1>1. Base /\ "processor" \in Thread /\ {"done", "end", "process"} \subseteq Place
  BY DEF ClientInv, Thread, Place
<1>2. CASE LeaveLoop("processor")
  <2>1. Step("processor", "wait", "end") /\ GoesOn("processor", "wait", "end")
    BY <1>2 DEF LeaveLoop, BehindLoop, GoesOn, KeepsHands
  <2> QED
    BY <1>1, <2>1, QuietStep, QuietInv
<1>3. CASE PopIncoming
  BY <1>1, <1>3, PopIncomingQuiet, QuietInv
<1>4. CASE LogMessage
  <2>1. GoesOn("processor", "log", "process")
    BY DEF GoesOn, KeepsHands
  <2>2. Base' /\ Quiet
    BY <1>1, <1>4, <2>1, QuietLog DEF LogMessage
  <2> QED
    BY <2>2, QuietInv
<1>5. CASE Process
  <2>1. /\ Base' /\ Outbound' = Outbound /\ server' = server
        /\ is_auto_strategy' = is_auto_strategy
    BY <1>1, <1>5, ProcessBase
  <2>2. CopyIsRight'
    <3>1. \A x \in 0..K : Copy(x)' = Copy(x)
      BY <1>1, <1>5, ProcessCopy
    <3>2. \A x \in 0..K : Due(x)' = Due(x)
      BY <2>1 DEF Due
    <3> QED
      BY <2>1, <3>1, <3>2 DEF ClientInv, CopyIsRight
  <2>3. Turn'
    <3>1. CASE is_auto_strategy
      BY <1>1, <1>5, <3>1, ProcessTurn DEF ClientInv
    <3>2. CASE ~is_auto_strategy
      BY <2>1, <3>2 DEF Turn
    <3> QED
      BY <3>1, <3>2
  <2> QED
    BY <2>1, <2>2, <2>3 DEF ClientInv
<1>6. CASE Step("processor", "end", "done")
  <2>1. GoesOn("processor", "end", "done")
    BY DEF GoesOn, KeepsHands
  <2> QED
    BY <1>1, <1>6, <2>1, QuietStep, QuietInv
<1>7. CASE Ends("processor", "end", "disconnect")
  BY <1>1, <1>7, EndsQuiet, QuietInv
<1> QED
  BY <1>2, <1>3, <1>4, <1>5, <1>6, <1>7 DEF Processor

-----------------------------------------------------------------------------
(* Steps of the server. *)

(* What a line is. *)
LEMMA LineFields ==
  ASSUME NEW line \in Line
  PROVE  \/ line[1] = "HELLO"
         \/ line[1] = "PUT" /\ line[2] \in Int /\ line[3] \in Int
BY DEF Line

(* The client stays as it is. *)
Still ==
    /\ is_auto_strategy' = is_auto_strategy /\ puts_without_answer' = puts_without_answer
    /\ is_first_message' = is_first_message
    /\ current_approximation' = current_approximation
    /\ coeffs' = coeffs /\ K_set' = K_set
    /\ pc' = pc /\ sending' = sending /\ outgoing_messages' = outgoing_messages /\ put' = put
    /\ processing' = processing /\ incoming_messages' = incoming_messages

(* A step of the server keeps the types. *)
LEMMA ElsewhereBase ==
  ASSUME Base, Elsewhere, server' \in Session!Seat, to_server' \in Seq(Line),
         to_client' \in Seq(AnswerType), ClosedOwesNothing'
  PROVE  Base' /\ Still
<1>1. TypeOK /\ InHand /\ KnownPoints
  BY DEF Base
<1>2. /\ UNCHANGED <<is_auto_strategy, coeffs, pc, game_over, logs, put, puts, outcome>>
      /\ UNCHANGED <<incoming_messages, processing, is_first_message, scoring_received>>
      /\ UNCHANGED <<outgoing_messages, sending>>
      /\ UNCHANGED <<K_set, current_approximation, puts_without_answer>>
  BY DEF Elsewhere, logVars, inVars, outVars, autoVars, putVars
<1>3. TypeOK'
  BY <1>1, <1>2 DEF TypeOK
<1>4. InHand' /\ KnownPoints'
  BY <1>1, <1>2 DEF InHand, KnownPoints
<1> QED
  BY <1>2, <1>3, <1>4 DEF Base, Still

(* A line is taken from what is under way. *)
LEMMA LineTaken ==
  ASSUME TypeOK, Still, to_server # <<>>, to_server' = Tail(to_server)
  PROVE  /\ Outbound # <<>> /\ Head(Outbound) = Head(to_server) /\ Outbound' = Tail(Outbound)
         /\ Head(to_server) \in Line /\ to_server' \in Seq(Line)
<1>1. /\ to_server \in Seq(Line) /\ sending \in Seq(Line)
      /\ outgoing_messages \in Seq(Line) /\ put \in Seq(Line)
  BY DEF TypeOK
<1>2. Head(to_server) \in Line /\ Tail(to_server) \in Seq(Line)
  BY <1>1, HeadFirst
<1>3. PICK a \in Seq(Line), b \in Seq(Line), c \in Seq(Line), d \in Seq(Line) :
         a = to_server /\ b = sending /\ c = outgoing_messages /\ d = put
  BY <1>1
<1>4. FrontOfFour(a, b, c, d)
  BY <1>3, FirstOfFour
<1>5. Outbound = ((a \o b) \o c) \o d /\ Outbound' = ((Tail(a) \o b) \o c) \o d
  BY <1>3 DEF Still, Outbound
<1> QED
  BY <1>2, <1>3, <1>4, <1>5 DEF FrontOfFour

(* The only one under way was taken: no thread holds another. *)
LEMMA LastTaken ==
  ASSUME Base, Still, to_server # <<>>, to_server' = Tail(to_server), Outbound' = <<>>
  PROVE  pc["strategy"] \notin {"log", "put"}
<1>1. /\ to_server \in Seq(Line) /\ sending \in Seq(Line)
      /\ outgoing_messages \in Seq(Line) /\ put \in Seq(Line)
  BY DEF Base, TypeOK
<1>2. PICK a \in Seq(Line) : a = Tail(to_server)
  BY <1>1, HeadFirst
<1>3. ((a \o sending) \o outgoing_messages) \o put = <<>>
  BY <1>2 DEF Still, Outbound
<1>4. put = <<>>
  BY <1>1, <1>3, AllEmpty
<1> QED
  BY <1>4 DEF Base, InHand

(* An answer is given behind those under way. *)
LEMMA AnswerGiven ==
  ASSUME TypeOK, Still, NEW m \in AnswerType, to_client' = Append(to_client, m)
  PROVE  Inbound' = Append(Inbound, m) /\ to_client' \in Seq(AnswerType)
<1>1. /\ processing \in Seq(AnswerType) /\ incoming_messages \in Seq(AnswerType)
      /\ to_client \in Seq(AnswerType)
  BY DEF TypeOK
<1>2. PICK a \in Seq(AnswerType) : a = processing \o incoming_messages
  BY <1>1, ConcatProperties
<1>3. a \o Append(to_client, m) = Append(a \o to_client, m)
  BY <1>1, PutBehind
<1>4. Append(to_client, m) \in Seq(AnswerType)
  BY <1>1, AppendProperties
<1> QED
  BY <1>2, <1>3, <1>4 DEF Still, Inbound

(* HELLO is taken and COEFF given. *)
LEMMA TakeHelloInv ==
  ASSUME ClientInv, Elsewhere, Session!TakeHello
  PROVE  ClientInv'
<1>1. TypeOK /\ Base /\ Turn /\ CopyIsRight
  BY DEF ClientInv, Base
<1>2. server \in Session!Seat
  BY <1>1 DEF TypeOK
<1>3. /\ server.open /\ ~server.over /\ ~server.known
      /\ to_server # <<>> /\ Head(to_server)[1] = "HELLO" /\ to_server' = Tail(to_server)
      /\ to_client' = Append(to_client, "COEFF")
      /\ server' \in Session!Seat /\ server'.open /\ ~server'.over
      /\ server'.known /\ server'.can_put /\ server'.owed = server.owed
      /\ server'.approximations = server.approximations
  BY <1>2, TakeHelloEffect
<1>4. "COEFF" \in AnswerType /\ to_client \in Seq(AnswerType) /\ to_server \in Seq(Line)
  BY <1>1 DEF AnswerType, TypeOK
<1>5. to_client' \in Seq(AnswerType) /\ to_server' \in Seq(Line)
  BY <1>3, <1>4, AppendProperties, HeadFirst
<1>6. ClosedOwesNothing'
  BY <1>3 DEF ClosedOwesNothing
<1>7. Base' /\ Still
  BY <1>1, <1>3, <1>5, <1>6, ElsewhereBase
<1>8. CASE ~is_auto_strategy
  BY <1>7, <1>8 DEF ClientInv, Still, Turn, CopyIsRight
<1>9. CASE is_auto_strategy
  <2>1. /\ Outbound # <<>> /\ Head(Outbound) = Head(to_server) /\ Outbound' = Tail(Outbound)
    BY <1>1, <1>3, <1>7, LineTaken
  <2>2. Inbound' = Append(Inbound, "COEFF")
    BY <1>1, <1>3, <1>4, <1>7, AnswerGiven
  <2>3. Introducing
    BY <1>1, <1>3, <1>9 DEF Turn, Introduced, Free, Choosing, Putting, Awaiting, Answered, SeatIs
  <2>4. Outbound = <<Hello>> /\ pc["main"] # "hello" /\ Inbound = <<>>
    BY <2>1, <2>3 DEF Introducing
  <2>5. Outbound' = <<>>
    BY <2>1, <2>4
  <2>6. Inbound' = <<"COEFF">>
    BY <2>2, <2>4, OneMessage
  <2>7. SeatIs(TRUE, TRUE, 0)'
    BY <1>3, <2>3 DEF Introducing, SeatIs
  <2>8. Introduced'
    BY <1>7, <2>3, <2>4, <2>5, <2>6, <2>7 DEF Introducing, Introduced, Still, Coming
  <2>9. Outbound[1] = Hello
    BY <2>4
  <2>10. CopyIsRight'
    BY <1>1, <1>3, <1>7, <1>9, <2>5, <2>9, HelloType DEF CopyIsRight, Copy, Due, Still
  <2> QED
    BY <1>7, <2>8, <2>10 DEF ClientInv, Turn
<1> QED
  BY <1>8, <1>9

(* A PUT is refused, or a line ignored: not of the automatic strategy. *)
LEMMA TakeRejectedInv ==
  ASSUME ClientInv, Elsewhere, Session!TakeRejectedPut \/ Session!TakeIgnored
  PROVE  ClientInv'
<1>1. TypeOK /\ Base /\ Turn /\ CopyIsRight
  BY DEF ClientInv, Base
<1>2. server \in Session!Seat /\ to_client \in Seq(AnswerType) /\ to_server \in Seq(Line)
  BY <1>1 DEF TypeOK
<1>3. /\ server.open /\ server.known
      /\ to_server # <<>> /\ to_server' = Tail(to_server)
      /\ \/ Head(to_server)[1] # "PUT"
         \/ ~server.can_put \/ OutOfRange(Head(to_server)[2], Head(to_server)[3])
      /\ to_client' = to_client \/ to_client' = Append(to_client, "PENALTY")
      /\ server' \in Session!Seat /\ server'.open
  <2>1. CASE Session!TakeRejectedPut
    BY <1>2, <2>1, TakeRejectedEffect
  <2>2. CASE Session!TakeIgnored
    BY <1>2, <2>2 DEF Session!TakeIgnored, Session!Takes, Session!Serves, Session!Line
  <2> QED
    BY <2>1, <2>2
<1>4. "PENALTY" \in AnswerType
  BY DEF AnswerType
<1>5. to_client' \in Seq(AnswerType) /\ to_server' \in Seq(Line)
  BY <1>2, <1>3, <1>4, AppendProperties, HeadFirst
<1>6. ClosedOwesNothing'
  BY <1>3 DEF ClosedOwesNothing
<1>7. Base' /\ Still
  BY <1>1, <1>3, <1>5, <1>6, ElsewhereBase
<1>8. CASE ~is_auto_strategy
  BY <1>7, <1>8 DEF ClientInv, Still, Turn, CopyIsRight
<1>9. CASE is_auto_strategy
  <2>1. /\ Outbound # <<>> /\ Head(Outbound) = Head(to_server)
    BY <1>1, <1>3, <1>7, LineTaken
  <2>2. Putting
    BY <1>1, <1>3, <1>9, <2>1 DEF Turn, Introducing, Introduced, Free, Choosing, Awaiting,
                                 Answered, SeatIs
  <2>3. PICK p \in DOMAIN current_approximation, v \in min_put_value..max_put_value :
           Outbound = <<<<"PUT", p, v>>>>
    BY <2>2 DEF Putting
  <2>4. Head(to_server) = <<"PUT", p, v>>
    BY <2>1, <2>3
  <2>5. p \in 0..K
    <3>1. PICK t \in {-1, 1, K} : current_approximation \in [0..t -> Int]
      BY <1>1 DEF TypeOK
    <3>2. p \in 0..t
      BY <2>3, <3>1
    <3> QED
      BY <3>1, <3>2, RulesAssumption
  <2>6. ~OutOfRange(p, v)
    BY <2>3, <2>5 DEF OutOfRange, min_put_value, max_put_value
  <2>7. server.can_put
    BY <1>3, <2>2 DEF Putting, SeatIs
  <2> QED
    BY <1>3, <2>4, <2>6, <2>7
<1> QED
  BY <1>8, <1>9

(* The server has nothing to say while it serves but what it owes. *)
LEMMA ServedComing ==
  ASSUME NEW s, Coming(s), server.open, ~server.over
  PROVE  Inbound = s
BY DEF Coming, Session!Serves

(* The PUT is taken, and its STATE owed. *)
LEMMA TakePutInv ==
  ASSUME ClientInv, Elsewhere, NEW last \in BOOLEAN, Session!TakePut(last)
  PROVE  ClientInv'
<1>1. TypeOK /\ Base /\ Turn /\ CopyIsRight
  BY DEF ClientInv, Base
<1>2. server \in Session!Seat /\ to_client \in Seq(AnswerType) /\ to_server \in Seq(Line)
  BY <1>1 DEF TypeOK
<1>3. Head(to_server)[3] \in Int
  <2>1. to_server # <<>> /\ Head(to_server)[1] = "PUT"
    BY DEF Session!TakePut, Session!Takes, Session!Line
  <2>2. Head(to_server) \in Line
    BY <1>2, <2>1, HeadFirst
  <2> QED
    BY <2>1, <2>2, LineFields
<1>4. /\ server.open /\ ~server.over /\ server.known /\ server.can_put
      /\ to_server # <<>> /\ Head(to_server)[1] = "PUT" /\ to_server' = Tail(to_server)
      /\ to_client' = IF last THEN Append(to_client, "SCORING") ELSE to_client
      /\ server' \in Session!Seat /\ server'.open /\ server'.over = last
      /\ server'.known /\ ~server'.can_put
      /\ server'.owed = [server.owed EXCEPT !["STATE"] = server.owed["STATE"] + 1]
      /\ server'.approximations
           = Put(server.approximations, Head(to_server)[2], Head(to_server)[3])
  BY <1>2, <1>3, TakePutEffect
<1>5. "SCORING" \in AnswerType
  BY DEF AnswerType
<1>6. to_client' \in Seq(AnswerType) /\ to_server' \in Seq(Line)
  BY <1>2, <1>4, <1>5, AppendProperties, HeadFirst
<1>7. ClosedOwesNothing'
  BY <1>4 DEF ClosedOwesNothing
<1>8. Base' /\ Still
  BY <1>1, <1>4, <1>6, <1>7, ElsewhereBase
<1>9. CASE ~is_auto_strategy
  BY <1>8, <1>9 DEF ClientInv, Still, Turn, CopyIsRight
<1>10. CASE is_auto_strategy
  <2>1. /\ Outbound # <<>> /\ Head(Outbound) = Head(to_server) /\ Outbound' = Tail(Outbound)
    BY <1>1, <1>4, <1>8, LineTaken
  <2>2. Putting
    BY <1>1, <1>4, <1>10, <2>1 DEF Turn, Introducing, Introduced, Free, Choosing, Awaiting,
                                  Answered, SeatIs
  <2>3. PICK p \in DOMAIN current_approximation, v \in min_put_value..max_put_value :
           Outbound = <<<<"PUT", p, v>>>>
    BY <2>2 DEF Putting
  <2>4. Head(to_server) = <<"PUT", p, v>> /\ Outbound' = <<>>
    BY <2>1, <2>3
  <2>5. pc["strategy"] \in {"wait", "done"}
    BY <1>1, <1>4, <1>8, <2>2, <2>4, LastTaken DEF Putting
  <2>6. Inbound = <<>>
    BY <1>4, <2>2, ServedComing DEF Putting
  <2>7. Coming(<<>>)'
    <3>1. CASE last
      <4>1. Inbound' = Append(Inbound, "SCORING")
        BY <1>1, <1>4, <1>5, <1>8, <3>1, AnswerGiven
      <4> QED
        BY <1>4, <2>6, <3>1, <4>1 DEF Coming, Session!Serves
    <3>2. CASE ~last
      BY <1>4, <1>8, <2>6, <3>2 DEF Coming, Inbound, Still
    <3> QED
      BY <3>1, <3>2
  <2>8. SeatIs(TRUE, FALSE, 1)'
    <3>1. server.owed = [kind \in {"STATE", "BAD_PUT"} |-> 0]
      BY <1>4, <2>2 DEF Putting, SeatIs
    <3>2. server'.owed = [kind \in {"STATE", "BAD_PUT"} |-> IF kind = "STATE" THEN 1 ELSE 0]
      BY <1>4, <3>1
    <3> QED
      BY <1>4, <3>2 DEF SeatIs
  <2>9. Awaiting'
    BY <1>8, <2>2, <2>4, <2>5, <2>7, <2>8 DEF Putting, Awaiting, Still
  <2>10. CopyIsRight'
    <3>1. v \in Int
      BY <2>3 DEF min_put_value, max_put_value
    <3>2. server.approximations \in Approximation
      BY <1>2, SeatFields
    <3>3. server'.approximations = [server.approximations EXCEPT ![p] = @ + v]
      BY <1>4, <2>4 DEF Put
    <3>4. SUFFICES ASSUME NEW x \in 0..K
                   PROVE  Copy(x)' = server'.approximations[x] + Due(x)'
      BY DEF CopyIsRight
    <3>5. Copy(x) = server.approximations[x] + Due(x)
      BY <1>1, <1>4, <1>10 DEF CopyIsRight
    <3>6. Due(x) = IF x = p THEN v ELSE 0
      BY <2>3 DEF Due
    <3>7. server.approximations[x] \in Int
      BY <3>2 DEF Approximation
    <3>8. server'.approximations[x] = IF x = p THEN server.approximations[x] + v
                                      ELSE server.approximations[x]
      BY <3>2, <3>3 DEF Approximation
    <3>9. Copy(x)' = Copy(x) /\ Due(x)' = 0
      BY <1>8, <2>4 DEF Copy, Due, Still
    <3> QED
      BY <3>1, <3>5, <3>6, <3>7, <3>8, <3>9
  <2> QED
    BY <1>8, <2>9, <2>10 DEF ClientInv, Turn
<1> QED
  BY <1>9, <1>10

(* An answer is given. *)
LEMMA AnswerInv ==
  ASSUME ClientInv, Elsewhere, NEW kind \in {"STATE", "BAD_PUT"}, Session!Answer(kind)
  PROVE  ClientInv'
<1>1. TypeOK /\ Base /\ Turn /\ CopyIsRight
  BY DEF ClientInv, Base
<1>2. server \in Session!Seat /\ to_client \in Seq(AnswerType) /\ to_server \in Seq(Line)
  BY <1>1 DEF TypeOK
<1>3. /\ server.open /\ ~server.over /\ server.owed[kind] > 0
      /\ to_client' = Append(to_client, kind) /\ to_server' = to_server
      /\ server' \in Session!Seat /\ server'.open /\ ~server'.over
      /\ server'.known = server.known /\ server'.can_put
      /\ server'.owed = [server.owed EXCEPT ![kind] = server.owed[kind] - 1]
      /\ server'.approximations = server.approximations
  BY <1>2, AnswerEffect
<1>4. kind \in AnswerType
  BY DEF AnswerType
<1>5. to_client' \in Seq(AnswerType) /\ to_server' \in Seq(Line)
  BY <1>2, <1>3, <1>4, AppendProperties
<1>6. ClosedOwesNothing'
  BY <1>3 DEF ClosedOwesNothing
<1>7. Base' /\ Still
  BY <1>1, <1>3, <1>5, <1>6, ElsewhereBase
<1>8. CASE ~is_auto_strategy
  BY <1>7, <1>8 DEF ClientInv, Still, Turn, CopyIsRight
<1>9. CASE is_auto_strategy
  <2>1. Inbound' = Append(Inbound, kind) /\ Outbound' = Outbound
    BY <1>1, <1>3, <1>4, <1>7, AnswerGiven DEF Outbound, Still
  <2>2. ASSUME SeatIs(TRUE, TRUE, 0) \/ SeatIs(FALSE, FALSE, 0) PROVE FALSE
    BY <1>3, <2>2 DEF SeatIs
  <2>3. Awaiting
    BY <1>1, <1>9, <2>2 DEF Turn, Introducing, Introduced, Free, Choosing, Putting, Answered
  <2>4. server.owed = [k \in {"STATE", "BAD_PUT"} |-> IF k = "STATE" THEN 1 ELSE 0]
        /\ server.known
    BY <1>3, <2>3 DEF Awaiting, SeatIs
  <2>5. kind = "STATE"
    BY <1>3, <2>4
  <2>6. server'.owed = [k \in {"STATE", "BAD_PUT"} |-> 0]
    BY <1>3, <2>4, <2>5
  <2>7. SeatIs(TRUE, TRUE, 0)'
    BY <1>3, <2>4, <2>6 DEF SeatIs
  <2>8. Inbound = <<>>
    BY <1>3, <2>3, ServedComing DEF Awaiting
  <2>9. Inbound' = <<"STATE">>
    BY <2>1, <2>5, <2>8, OneMessage
  <2>10. Answered'
    BY <1>7, <2>1, <2>3, <2>7, <2>9 DEF Awaiting, Answered, Still, Coming
  <2>11. CopyIsRight'
    BY <1>1, <1>3, <1>7, <2>1 DEF CopyIsRight, Copy, Due, Still
  <2> QED
    BY <1>7, <2>10, <2>11 DEF ClientInv, Turn
<1> QED
  BY <1>8, <1>9

(* Somebody else ends the game. *)
LEMMA GameOverInv ==
  ASSUME ClientInv, Elsewhere, Session!GameOver
  PROVE  ClientInv'
<1>1. TypeOK /\ Base /\ Turn /\ CopyIsRight
  BY DEF ClientInv, Base
<1>2. server \in Session!Seat /\ to_client \in Seq(AnswerType) /\ to_server \in Seq(Line)
  BY <1>1 DEF TypeOK
<1>3. /\ server.open /\ ~server.over
      /\ to_client' = IF server.known THEN Append(to_client, "SCORING") ELSE to_client
      /\ to_server' = to_server
      /\ server' \in Session!Seat /\ server'.open /\ server'.over
      /\ server'.known = server.known /\ server'.can_put = server.can_put
      /\ server'.owed = server.owed /\ server'.approximations = server.approximations
  BY <1>2, GameOverEffect
<1>4. "SCORING" \in AnswerType
  BY DEF AnswerType
<1>5. to_client' \in Seq(AnswerType) /\ to_server' \in Seq(Line)
  BY <1>2, <1>3, <1>4, AppendProperties
<1>6. ClosedOwesNothing'
  BY <1>3 DEF ClosedOwesNothing
<1>7. Base' /\ Still
  BY <1>1, <1>3, <1>5, <1>6, ElsewhereBase
<1>8. CASE ~is_auto_strategy
  BY <1>7, <1>8 DEF ClientInv, Still, Turn, CopyIsRight
<1>9. CASE is_auto_strategy
  <2>1. Outbound' = Outbound
    BY <1>3, <1>7 DEF Outbound, Still
  <2>2. server.known => Inbound' = Append(Inbound, "SCORING")
    BY <1>1, <1>3, <1>4, <1>7, AnswerGiven
  <2>3. ~server.known => Inbound' = Inbound
    BY <1>3, <1>7 DEF Inbound, Still
  <2>4. \A known, can_put, states :
           SeatIs(known, can_put, states) => SeatIs(known, can_put, states)'
    BY <1>3 DEF SeatIs
  <2>5. \A s, can_put, states : Coming(s) /\ SeatIs(TRUE, can_put, states) => Coming(s)'
    <3> TAKE s, can_put, states
    <3> HAVE Coming(s) /\ SeatIs(TRUE, can_put, states)
    <3>1. Inbound = s
      BY <1>3, ServedComing
    <3>2. server.known
      BY <1>3 DEF SeatIs
    <3> QED
      BY <1>3, <2>2, <3>1, <3>2 DEF Coming, Session!Serves
  <2>6. Introducing => Introducing'
    <3>1. SeatIs(FALSE, FALSE, 0) => ~server.known
      BY <1>3 DEF SeatIs
    <3> QED
      BY <1>7, <2>1, <2>3, <2>4, <3>1 DEF Introducing, Still
  <2>7. (Introduced => Introduced') /\ (Free => Free') /\ (Choosing => Choosing')
    BY <1>7, <2>1, <2>4, <2>5 DEF Introduced, Free, Choosing, Still
  <2>8. Putting => Putting'
    BY <1>7, <2>1, <2>4, <2>5 DEF Putting, Still
  <2>9. (Awaiting => Awaiting') /\ (Answered => Answered')
    BY <1>7, <2>1, <2>4, <2>5 DEF Awaiting, Answered, Still
  <2>10. Turn'
    BY <1>1, <1>9, <2>6, <2>7, <2>8, <2>9 DEF Turn
  <2>11. CopyIsRight'
    BY <1>1, <1>3, <1>7, <2>1 DEF CopyIsRight, Copy, Due, Still
  <2> QED
    BY <1>7, <2>10, <2>11 DEF ClientInv
<1> QED
  BY <1>8, <1>9

(* The connection ends: what is left of the answers is a front of them ... *)
LEMMA AnswersLost ==
  ASSUME TypeOK, Still, NEW n \in 0..Len(to_client), to_client' = SubSeq(to_client, 1, n)
  PROVE  /\ to_client' \in Seq(AnswerType) /\ Inbound' \in Seq(AnswerType)
         /\ \E y \in Seq(AnswerType) : Inbound' \o y = Inbound
<1>1. /\ processing \in Seq(AnswerType) /\ incoming_messages \in Seq(AnswerType)
      /\ to_client \in Seq(AnswerType)
  BY DEF TypeOK
<1>2. PICK a \in Seq(AnswerType), c \in Seq(AnswerType) :
         a = processing \o incoming_messages /\ c = to_client
  BY <1>1, ConcatProperties
<1>3. PICK x \in Seq(AnswerType), y \in Seq(AnswerType) :
         x = SubSeq(c, 1, n) /\ x \o y = c
  <2>1. CASE n = 0
    <3>1. SubSeq(c, 1, 0) = <<>>
      BY SubSeqEmpty
    <3>2. <<>> \o c = c /\ <<>> \in Seq(AnswerType)
      BY ConcatEmptySeq, EmptySeq
    <3> QED
      BY <2>1, <3>1, <3>2
  <2>2. CASE n # 0
    <3>1. n \in 1..Len(c)
      BY <1>2, <2>2
    <3>2. /\ SubSeq(c, 1, n) \in Seq(AnswerType) /\ SubSeq(c, n + 1, Len(c)) \in Seq(AnswerType)
          /\ SubSeq(c, 1, n) \o SubSeq(c, n + 1, Len(c)) = c
      BY <3>1, Parted
    <3> QED
      BY <3>2
  <2> QED
    BY <2>1, <2>2
<1>4. a \o x \in Seq(AnswerType)
  BY ConcatProperties
<1>5. Regroups(a, x, y)
  BY <1>3, Regrouped
<1>6. Inbound' = a \o x /\ Inbound = a \o c
  BY <1>2, <1>3 DEF Still, Inbound
<1>7. (a \o x) \o y = a \o c
  BY <1>3, <1>5 DEF Regroups
<1> QED
  BY <1>2, <1>3, <1>4, <1>6, <1>7

(* ... so these are the answers that may be left of those of a phase.      *)
LEMMA ComingLost ==
  ASSUME TypeOK, Still, NEW n \in 0..Len(to_client), to_client' = SubSeq(to_client, 1, n),
         ~server'.open
  PROVE  /\ Inbound = <<>> => Inbound' = <<>>
         /\ Coming(<<>>) => Coming(<<>>)'
         /\ \A m \in AnswerType : Coming(<<m>>) => Inbound' = <<>> \/ Coming(<<m>>)'
<1>1. PICK y \in Seq(AnswerType) : Inbound' \o y = Inbound
  BY AnswersLost
<1>2. PICK s \in Seq(AnswerType) : s = Inbound'
  BY AnswersLost
<1>3. s \o y = Inbound
  BY <1>1, <1>2
<1>4. "SCORING" \in AnswerType /\ Append(<<>>, "SCORING") = <<"SCORING">>
  BY OneMessage DEF AnswerType
<1>5. ~Session!Serves'
  BY DEF Session!Serves
<1>6. \A t : s = t \/ s = Append(t, "SCORING") => Coming(t)'
  BY <1>2, <1>5 DEF Coming
<1>7. ASSUME Inbound = <<>> PROVE s = <<>>
  BY <1>3, <1>7, NothingJoined
<1>8. ASSUME Coming(<<>>) PROVE s = <<>> \/ s = Append(<<>>, "SCORING")
  <2>1. CASE Inbound = <<>>
    BY <1>7, <2>1
  <2>2. CASE Inbound = <<"SCORING">>
    <3>1. s \o y = <<"SCORING">>
      BY <1>3, <2>2
    <3>2. s = <<>> \/ s = <<"SCORING">>
      BY <1>4, <3>1, Front
    <3> QED
      BY <1>4, <3>2
  <2> QED
    BY <1>4, <1>8, <2>1, <2>2 DEF Coming
<1>9. ASSUME NEW m \in AnswerType, Coming(<<m>>)
      PROVE  s = <<>> \/ s = <<m>> \/ s = Append(<<m>>, "SCORING")
  <2>1. CASE s \o y = <<m>>
    BY <2>1, Front
  <2>2. CASE s \o y = Append(<<m>>, "SCORING")
    BY <1>4, <2>2, Fronts
  <2> QED
    BY <1>3, <1>9, <2>1, <2>2 DEF Coming
<1> QED
  BY <1>2, <1>6, <1>7, <1>8, <1>9

(* What is left of at most one line under way is that line or nothing. *)
LEMMA LineLost ==
  ASSUME Base, Still, to_server' \in {<<>>, to_server}
  PROVE  /\ to_server' \in Seq(Line)
         /\ Outbound = <<>> => Outbound' = <<>>
         /\ \A m : Outbound = <<m>> =>
               \/ Outbound' = Outbound
               \/ Outbound' = <<>> /\ pc["strategy"] \notin {"log", "put"}
<1>1. /\ to_server \in Seq(Line) /\ sending \in Seq(Line)
      /\ outgoing_messages \in Seq(Line) /\ put \in Seq(Line)
  BY DEF Base, TypeOK
<1>2. CASE to_server' = to_server
  BY <1>1, <1>2 DEF Still, Outbound
<1>3. CASE to_server = <<>>
  BY <1>1, <1>3 DEF Still, Outbound
<1>4. CASE to_server # <<>> /\ to_server' = <<>>
  <2>1. PICK a \in Seq(Line), b \in Seq(Line), c \in Seq(Line), d \in Seq(Line) :
           a = to_server /\ b = sending /\ c = outgoing_messages /\ d = put
    BY <1>1
  <2>2. FrontOfFour(a, b, c, d)
    BY <1>4, <2>1, FirstOfFour
  <2>3. Outbound # <<>> /\ ((Tail(a) \o b) \o c) \o d = Tail(Outbound)
    BY <2>1, <2>2 DEF FrontOfFour, Outbound
  <2>4. ASSUME NEW m, Outbound = <<m>>
        PROVE  Outbound' = <<>> /\ pc["strategy"] \notin {"log", "put"}
    <3>1. PICK t \in Seq(Line) : t = Tail(a)
      BY <1>4, <2>1, HeadFirst
    <3>2. Tail(Outbound) = <<>>
      BY <2>4
    <3>3. ((t \o b) \o c) \o d = <<>>
      BY <2>3, <3>1, <3>2
    <3>4. b = <<>> /\ c = <<>> /\ d = <<>>
      BY <3>3, AllEmpty
    <3>5. Outbound' = ((<<>> \o <<>>) \o <<>>) \o <<>>
      BY <1>4, <2>1, <3>4 DEF Outbound, Still
    <3>6. <<>> \o <<>> = <<>>
      BY ConcatEmptySeq, EmptySeq
    <3>7. put = <<>>
      BY <2>1, <3>4
    <3> QED
      BY <3>5, <3>6, <3>7 DEF Base, InHand
  <2>5. to_server' \in Seq(Line)
    BY <1>4, EmptySeq
  <2> QED
    BY <2>3, <2>4, <2>5
<1> QED
  BY <1>2, <1>3, <1>4

(* The connection ends. *)
LEMMA CloseInv ==
  ASSUME ClientInv, Elsewhere, Session!Close
  PROVE  ClientInv'
<1>1. TypeOK /\ Base /\ Turn /\ CopyIsRight
  BY DEF ClientInv, Base
<1>2. PICK n \in 0..Len(to_client) : to_client' = SubSeq(to_client, 1, n)
  BY DEF Session!Close
<1>3. server' = Session!ClosedSeat /\ to_server' \in {<<>>, to_server}
  BY DEF Session!Close
<1>4. /\ server' \in Session!Seat /\ ~server'.open
      /\ server'.owed = [kind \in {"STATE", "BAD_PUT"} |-> 0]
  BY <1>3, FreshSeats
<1>5. ClosedOwesNothing'
  BY <1>4 DEF ClosedOwesNothing
<1>6. Still
  BY DEF Elsewhere, Still, inVars, outVars, autoVars, putVars
<1>7. to_client' \in Seq(AnswerType)
  BY <1>1, <1>2, <1>6, AnswersLost
<1>8. /\ to_server' \in Seq(Line)
      /\ Outbound = <<>> => Outbound' = <<>>
      /\ \A m : Outbound = <<m>> =>
            \/ Outbound' = Outbound
            \/ Outbound' = <<>> /\ pc["strategy"] \notin {"log", "put"}
  BY <1>1, <1>3, <1>6, LineLost
<1>9. Base'
  BY <1>1, <1>4, <1>5, <1>7, <1>8, ElsewhereBase
<1>10. CopyIsRight'
  BY <1>4 DEF CopyIsRight
<1>11. CASE ~is_auto_strategy
  BY <1>6, <1>9, <1>10, <1>11 DEF ClientInv, Still, Turn
<1>12. CASE is_auto_strategy
  <2>1. /\ Inbound = <<>> => Inbound' = <<>>
        /\ Coming(<<>>) => Coming(<<>>)'
        /\ \A m \in AnswerType : Coming(<<m>>) => Inbound' = <<>> \/ Coming(<<m>>)'
    BY <1>1, <1>2, <1>4, <1>6, ComingLost
  <2>2. \A known, can_put, states : SeatIs(known, can_put, states)'
    BY <1>4 DEF SeatIs
  <2>3. Inbound' = <<>> => Coming(<<>>)'
    BY DEF Coming
  <2>4. "COEFF" \in AnswerType /\ "STATE" \in AnswerType
    BY DEF AnswerType
  <2>5. CASE Introducing
    <3>1. Introducing'
      BY <1>6, <1>8, <2>1, <2>2, <2>5 DEF Introducing, Still
    <3> QED
      BY <1>9, <1>10, <3>1 DEF Turn, ClientInv
  <2>6. CASE Introduced
    <3>1. Inbound' = <<>> \/ Coming(<<"COEFF">>)'
      BY <2>1, <2>4, <2>6 DEF Introduced
    <3>2. Introducing' \/ Introduced'
      BY <1>6, <1>8, <2>2, <2>6, <3>1 DEF Introducing, Introduced, Still
    <3> QED
      BY <1>9, <1>10, <3>2 DEF Turn, ClientInv
  <2>7. CASE Free
    <3>1. Free'
      BY <1>6, <1>8, <2>1, <2>2, <2>7 DEF Free, Still
    <3> QED
      BY <1>9, <1>10, <3>1 DEF Turn, ClientInv
  <2>8. CASE Choosing
    <3>1. Choosing'
      BY <1>6, <1>8, <2>1, <2>2, <2>8 DEF Choosing, Still
    <3> QED
      BY <1>9, <1>10, <3>1 DEF Turn, ClientInv
  <2>9. CASE Putting
    <3>1. CASE Outbound' = Outbound
      <4>1. Putting'
        BY <1>6, <2>1, <2>2, <2>9, <3>1 DEF Putting, Still
      <4> QED
        BY <1>9, <1>10, <4>1 DEF Turn, ClientInv
    <3>2. CASE Outbound' = <<>> /\ pc["strategy"] \notin {"log", "put"}
      <4>1. Awaiting'
        BY <1>6, <2>1, <2>2, <2>9, <3>2 DEF Putting, Awaiting, Still
      <4> QED
        BY <1>9, <1>10, <4>1 DEF Turn, ClientInv
    <3>3. PICK p, v : Outbound = <<<<"PUT", p, v>>>>
      BY <2>9 DEF Putting
    <3> QED
      BY <1>8, <3>1, <3>2, <3>3
  <2>10. CASE Awaiting
    <3>1. Awaiting'
      BY <1>6, <1>8, <2>1, <2>2, <2>10 DEF Awaiting, Still
    <3> QED
      BY <1>9, <1>10, <3>1 DEF Turn, ClientInv
  <2>11. CASE Answered
    <3>1. Coming(<<>>)' \/ Coming(<<"STATE">>)'
      BY <2>1, <2>3, <2>4, <2>11 DEF Answered
    <3>2. Awaiting' \/ Answered'
      BY <1>6, <1>8, <2>2, <2>11, <3>1 DEF Awaiting, Answered, Still
    <3> QED
      BY <1>9, <1>10, <3>2 DEF Turn, ClientInv
  <2> QED
    BY <1>1, <1>12, <2>5, <2>6, <2>7, <2>8, <2>9, <2>10, <2>11 DEF Turn
<1> QED
  BY <1>11, <1>12

-----------------------------------------------------------------------------
(* The theorems. *)

(* The invariant holds at the start. *)
LEMMA InitInv ==
  Init => ClientInv
<1> SUFFICES ASSUME Init PROVE ClientInv
  OBVIOUS
<1>1. /\ is_auto_strategy \in BOOLEAN /\ coeffs \in Coeffs
      /\ pc = [t \in Thread |-> IF t = "main" THEN "hello" ELSE "wait"]
      /\ game_over = FALSE /\ logs = <<"early">> /\ incoming_messages = <<>>
      /\ outgoing_messages = <<>> /\ K_set = FALSE
      /\ current_approximation = [x \in {} |-> 0] /\ puts_without_answer = 1
      /\ put = <<>> /\ sending = <<>> /\ processing = <<>>
      /\ is_first_message = TRUE /\ scoring_received = FALSE /\ puts = 0
      /\ outcome = "running" /\ to_server = <<>> /\ to_client = <<>>
      /\ server = Session!NewSeat
  BY DEF Init, InitialPuts, Session!Init
<1>2. 0..(-1) = {}
  OBVIOUS
<1>3. current_approximation \in [0..(-1) -> Int]
  BY <1>1, <1>2
<1>4. pc \in [Thread -> Place]
  BY <1>1 DEF Place
<1>5. /\ <<>> \in Seq(AnswerType) /\ <<>> \in Seq(Line) /\ Len(<<>>) = 0
      /\ <<"early">> \in Seq({"early", "late"})
  BY EmptySeq
<1>6. /\ server \in Session!Seat /\ server.open /\ ~server.over /\ ~server.known
      /\ ~server.can_put /\ server.owed = [kind \in {"STATE", "BAD_PUT"} |-> 0]
      /\ server.approximations = Zeros
  BY <1>1, FreshSeats
<1>7. TypeOK
  <2>1. /\ incoming_messages \in Seq(AnswerType) /\ to_client \in Seq(AnswerType)
        /\ outgoing_messages \in Seq(Line) /\ to_server \in Seq(Line)
        /\ processing \in Seq(AnswerType) /\ Len(processing) <= 1
        /\ put \in Seq(Line) /\ Len(put) <= 1 /\ sending \in Seq(Line) /\ Len(sending) <= 1
        /\ logs \in Seq({"early", "late"})
    BY <1>1, <1>5
  <2>2. /\ puts_without_answer \in Nat /\ puts \in Nat /\ game_over \in BOOLEAN
        /\ K_set \in BOOLEAN /\ is_first_message \in BOOLEAN /\ scoring_received \in BOOLEAN
        /\ outcome \in {"running", "finished", "disconnect", "syserr"}
        /\ is_auto_strategy \in BOOLEAN /\ coeffs \in Coeffs
    BY <1>1
  <2>3. \E top \in {-1, 1, K} : current_approximation \in [0..top -> Int]
    BY <1>3
  <2> QED
    BY <1>4, <1>6, <2>1, <2>2, <2>3 DEF TypeOK
<1>8. InHand
  BY <1>1 DEF InHand, Thread
<1>9. KnownPoints /\ ClosedOwesNothing
  BY <1>1, <1>3, <1>6 DEF KnownPoints, ClosedOwesNothing
<1>10. Outbound = <<>> /\ Inbound = <<>>
  <2>1. <<>> \o <<>> = <<>>
    BY ConcatEmptySeq, EmptySeq
  <2> QED
    BY <1>1, <2>1 DEF Outbound, Inbound
<1>11. Turn
  <2>1. SeatIs(FALSE, FALSE, 0)
    BY <1>6 DEF SeatIs
  <2>2. Introducing
    BY <1>1, <1>10, <2>1 DEF Introducing, Thread
  <2> QED
    BY <2>2 DEF Turn
<1>12. CopyIsRight
  <2>1. \A x \in 0..K : Copy(x) = 0 /\ Due(x) = 0 /\ server.approximations[x] = 0
    BY <1>1, <1>6, <1>10 DEF Copy, Due, Zeros
  <2> QED
    BY <2>1 DEF CopyIsRight
<1> QED
  BY <1>7, <1>8, <1>9, <1>11, <1>12 DEF ClientInv, Base

(* Every step preserves it. *)
LEMMA NextInv ==
  ClientInv /\ [Next]_vars => ClientInv'
<1> SUFFICES ASSUME ClientInv, [Next]_vars PROVE ClientInv'
  OBVIOUS
<1>1. Base
  BY DEF ClientInv
<1>2. CASE SendHello
  BY <1>2, SendHelloInv
<1>3. CASE JoinThreads
  BY <1>1, <1>3, JoinQuiet, QuietInv
<1>4. CASE Printer
  BY <1>1, <1>4, PrinterQuiet, QuietInv
<1>5. CASE Strategy
  BY <1>5, StrategyInv
<1>6. CASE Receiver
  BY <1>1, <1>6, ReceiverQuiet, QuietInv
<1>7. CASE Sender
  BY <1>1, <1>7, SenderQuiet, QuietInv
<1>8. CASE Processor
  BY <1>8, ProcessorInv
<1>9. CASE ServerTakes
  <2>1. Elsewhere /\ Session!TakeLine
    BY <1>9 DEF ServerTakes
  <2>2. CASE Session!TakeHello
    BY <2>1, <2>2, TakeHelloInv
  <2>3. CASE Session!TakeRejectedPut \/ Session!TakeIgnored
    BY <2>1, <2>3, TakeRejectedInv
  <2>4. CASE \E last \in BOOLEAN : Session!TakePut(last)
    BY <2>1, <2>4, TakePutInv
  <2> QED
    BY <2>1, <2>2, <2>3, <2>4 DEF Session!TakeLine
<1>10. CASE ServerAnswers
  BY <1>10, AnswerInv DEF ServerAnswers
<1>11. CASE ServerEnds
  BY <1>11, GameOverInv, CloseInv DEF ServerEnds
<1>12. CASE UNCHANGED vars
  BY <1>1, <1>12, VarsQuiet, QuietInv
<1> QED
  BY <1>2, <1>3, <1>4, <1>5, <1>6, <1>7, <1>8, <1>9, <1>10, <1>11, <1>12 DEF Next, Ended

(* The automatic strategy goes through its phases, and its copy of the     *)
(* approximation stays right, in every interleaving of the threads of the  *)
(* client with each other and with the server.                             *)
THEOREM InvariantHolds == Spec => []ClientInv
<1>1. Init => ClientInv
  BY InitInv
<1>2. ClientInv /\ [Next]_vars => ClientInv'
  BY NextInv
<1> QED
  BY <1>1, <1>2, PTL DEF Spec

(* The variables of the client, its threads and its queues keep their      *)
(* types, whatever K, the polynomial and the input are: no thread ever     *)
(* holds two messages, and the approximation always has no point, two      *)
(* points or all of them.                                                  *)
THEOREM TypeCorrect == Spec => []TypeOK
<1>1. ClientInv => TypeOK
  BY DEF ClientInv, Base
<1> QED
  BY <1>1, InvariantHolds, PTL

-----------------------------------------------------------------------------
(* What is coming, message by message. *)
LEMMA NoneComingCount ==
  ASSUME Coming(<<>>)
  PROVE  /\ \A k \in DOMAIN Inbound : Inbound[k] = "SCORING"
         /\ Count(Inbound, {"STATE", "BAD_PUT"}) = 0
<1>1. Inbound = <<>> \/ Inbound = <<"SCORING">>
  BY OneMessage DEF Coming
<1>2. \A k \in DOMAIN Inbound : Inbound[k] = "SCORING"
  BY <1>1
<1>3. {k \in DOMAIN Inbound : Inbound[k] \in {"STATE", "BAD_PUT"}} = {}
  BY <1>2
<1> QED
  BY <1>2, <1>3, FS_EmptySet DEF Count

(* The same with one answer. *)
LEMMA OneComingCount ==
  ASSUME NEW m \in AnswerType, Coming(<<m>>)
  PROVE  /\ \A k \in DOMAIN Inbound : Inbound[k] = m \/ Inbound[k] = "SCORING"
         /\ Count(Inbound, {"STATE", "BAD_PUT"}) = IF m \in {"STATE", "BAD_PUT"} THEN 1 ELSE 0
<1>1. /\ 1 \in DOMAIN Inbound /\ Inbound[1] = m
      /\ \A k \in DOMAIN Inbound : k = 1 \/ Inbound[k] = "SCORING"
  <2>1. CASE Inbound = <<m>>
    BY <2>1
  <2>2. CASE Inbound = Append(<<m>>, "SCORING")
    <3>1. "SCORING" \in AnswerType
      BY DEF AnswerType
    <3>2. PICK t \in Seq(AnswerType) : t = <<m>> /\ Len(t) = 1 /\ t[1] = m
      <4>1. <<m>> \in Seq(AnswerType) /\ Len(<<m>>) = 1 /\ <<m>>[1] = m
        OBVIOUS
      <4> QED
        BY <4>1
    <3>3. /\ Append(t, "SCORING") \in Seq(AnswerType) /\ Len(Append(t, "SCORING")) = Len(t) + 1
          /\ \A i \in 1..Len(t) : Append(t, "SCORING")[i] = t[i]
          /\ Append(t, "SCORING")[Len(t) + 1] = "SCORING"
      BY <3>1, AppendProperties
    <3>4. DOMAIN Append(t, "SCORING") = 1..Len(Append(t, "SCORING"))
      BY <3>3, LenProperties
    <3>5. Inbound = Append(t, "SCORING")
      BY <2>2, <3>2
    <3> HIDE DEF Inbound
    <3> QED
      BY <3>2, <3>3, <3>4, <3>5
  <2> QED
    BY <2>1, <2>2 DEF Coming
<1>2. CASE m \in {"STATE", "BAD_PUT"}
  <2>1. {k \in DOMAIN Inbound : Inbound[k] \in {"STATE", "BAD_PUT"}} = {1}
    BY <1>1, <1>2
  <2> QED
    BY <1>1, <1>2, <2>1, FS_Singleton DEF Count
<1>3. CASE m \notin {"STATE", "BAD_PUT"}
  <2>1. {k \in DOMAIN Inbound : Inbound[k] \in {"STATE", "BAD_PUT"}} = {}
    BY <1>1, <1>3
  <2> QED
    BY <1>1, <1>3, <2>1, FS_EmptySet DEF Count
<1> QED
  BY <1>2, <1>3

(* What the auto client has to hear of. *)
LEMMA InboundHarmless ==
  ASSUME ClientInv, is_auto_strategy
  PROVE  \A k \in DOMAIN Inbound : Inbound[k] \notin {"PENALTY", "BAD_PUT"}
<1>1. Turn
  BY DEF ClientInv
<1>2. "COEFF" \in AnswerType /\ "STATE" \in AnswerType
  BY DEF AnswerType
<1>3. CASE Introducing
  BY <1>3 DEF Introducing
<1>4. CASE Coming(<<>>)
  BY <1>4, NoneComingCount
<1>5. CASE Coming(<<"COEFF">>)
  BY <1>2, <1>5, OneComingCount
<1>6. CASE Coming(<<"STATE">>)
  BY <1>2, <1>6, OneComingCount
<1> QED
  BY <1>1, <1>3, <1>4, <1>5, <1>6 DEF Turn, Introduced, Free, Choosing, Putting, Awaiting, Answered

(* What the phases say about the server's side. *)
LEMMA Penalties ==
  ClientInv => NeverPenalized
<1> SUFFICES ASSUME ClientInv, is_auto_strategy
             PROVE  /\ \A k \in DOMAIN to_client : to_client[k] \notin {"PENALTY", "BAD_PUT"}
                    /\ server.owed["BAD_PUT"] = 0
                    /\ server.open /\ ~server.known /\ to_server # <<>>
                         => to_server[1][1] = "HELLO"
  BY DEF NeverPenalized
<1>1. TypeOK /\ Turn /\ ClosedOwesNothing
  BY DEF ClientInv, Base
<1>2. ASSUME NEW k \in DOMAIN to_client PROVE to_client[k] \notin {"PENALTY", "BAD_PUT"}
  <2>1. /\ processing \in Seq(AnswerType) /\ incoming_messages \in Seq(AnswerType)
        /\ to_client \in Seq(AnswerType)
    BY <1>1 DEF TypeOK
  <2>2. PICK a \in Seq(AnswerType), c \in Seq(AnswerType) :
           a = processing \o incoming_messages /\ c = to_client
    BY <2>1, ConcatProperties
  <2>3. /\ a \o c \in Seq(AnswerType) /\ Len(a \o c) = Len(a) + Len(c)
        /\ \A i \in 1..(Len(a) + Len(c)) :
              (a \o c)[i] = IF i <= Len(a) THEN a[i] ELSE c[i - Len(a)]
    BY ConcatProperties
  <2>4. DOMAIN (a \o c) = 1..(Len(a) + Len(c)) /\ Len(a) \in Nat /\ Len(c) \in Nat
        /\ k \in 1..Len(c)
    BY <1>2, <2>2, <2>3, LenProperties
  <2>5. PICK j \in 1..(Len(a) + Len(c)) : j = Len(a) + k
    BY <2>4
  <2>6. (a \o c)[j] = c[k]
    <3>1. ~(j <= Len(a)) /\ j - Len(a) = k
      BY <2>4, <2>5
    <3> QED
      BY <2>3, <2>5, <3>1
  <2>7. Inbound = a \o c
    BY <2>2 DEF Inbound
  <2>8. j \in DOMAIN Inbound /\ Inbound[j] = to_client[k]
    BY <2>2, <2>4, <2>5, <2>6, <2>7
  <2> QED
    BY <2>8, InboundHarmless
<1>3. server.owed["BAD_PUT"] = 0
  BY <1>1 DEF ClosedOwesNothing, Turn, Introducing, Introduced, Free, Choosing, Putting, Awaiting,
              Answered, SeatIs
<1>4. ASSUME server.open, ~server.known, to_server # <<>> PROVE to_server[1][1] = "HELLO"
  <2>1. Introducing
    BY <1>1, <1>4 DEF Turn, Introduced, Free, Choosing, Putting, Awaiting, Answered, SeatIs
  <2>2. PICK a \in Seq(Line), b \in Seq(Line), c \in Seq(Line), d \in Seq(Line) :
           a = to_server /\ b = sending /\ c = outgoing_messages /\ d = put
    BY <1>1 DEF TypeOK
  <2>3. FrontOfFour(a, b, c, d)
    BY <1>4, <2>2, FirstOfFour
  <2>4. Outbound # <<>> /\ Head(Outbound) = Head(to_server)
    BY <2>2, <2>3 DEF FrontOfFour, Outbound
  <2>5. Head(to_server) = Hello
    BY <2>1, <2>4 DEF Introducing
  <2>6. to_server[1] = Head(to_server)
    BY <1>4, <2>2
  <2> QED
    BY <2>5, <2>6, HelloType
<1> QED
  BY <1>2, <1>3, <1>4

(* With every interleaving of its threads, and every point at which the    *)
(* connection or the game may end, the automatic strategy gives the server *)
(* nothing to penalise and introduces itself first: wait_for_puts and      *)
(* increment_puts_without_answer keep a second PUT back, and get_best_put  *)
(* chooses a point and a value in range.                                   *)
THEOREM NoPenalty == Spec => []NeverPenalized
BY InvariantHolds, Penalties, PTL

-----------------------------------------------------------------------------
(* The lines that are PUTs. *)
LEMMA PutsUnderWay ==
  /\ Outbound = <<>> => UnderWay = {}
  /\ Outbound = <<Hello>> => UnderWay = {}
  /\ \A p, v : Outbound = <<<<"PUT", p, v>>>> => UnderWay = {1}
<1>1. Outbound = <<>> => UnderWay = {}
  BY DEF UnderWay
<1>2. ASSUME Outbound = <<Hello>> PROVE UnderWay = {}
  <2>1. DOMAIN Outbound = 1..1 /\ Outbound[1] = Hello
    BY <1>2
  <2> HIDE DEF Outbound
  <2> QED
    BY <2>1, HelloType DEF UnderWay
<1>3. ASSUME NEW p, NEW v, Outbound = <<<<"PUT", p, v>>>> PROVE UnderWay = {1}
  <2>1. DOMAIN Outbound = 1..1 /\ Outbound[1] = <<"PUT", p, v>>
    BY <1>3
  <2>2. Outbound[1][1] = "PUT"
    BY <2>1
  <2> HIDE DEF Outbound
  <2> QED
    BY <2>1, <2>2 DEF UnderWay
<1> QED
  BY <1>1, <1>2, <1>3

(* The terms of PutsCounted, phase by phase. *)
LEMMA Counted ==
  ClientInv => PutsCounted
<1> SUFFICES ASSUME ClientInv, is_auto_strategy PROVE PutsCounted
  BY DEF PutsCounted
<1>1. TypeOK /\ Turn /\ ClosedOwesNothing
  BY DEF ClientInv, Base
<1> DEFINE first == IF is_first_message THEN 1 ELSE 0
           counted == IF pc["strategy"] = "choose" THEN 1 ELSE 0
           c == Cardinality(UnderWay)
           n == Count(Inbound, {"STATE", "BAD_PUT"})
           s == server.owed["STATE"]
           b == server.owed["BAD_PUT"]
<1>2. SUFFICES /\ first + counted + c + s + b + n \in Nat
               /\ IF server.open THEN puts_without_answer = first + counted + c + s + b + n
                  ELSE puts_without_answer >= first + counted + c + s + b + n
  BY DEF PutsCounted
<1>3. Cardinality({}) = 0 /\ Cardinality({1}) = 1
  BY FS_EmptySet, FS_Singleton
<1>4. "COEFF" \in AnswerType /\ "STATE" \in AnswerType
  BY DEF AnswerType
<1>5. ~server.open => s = 0 /\ b = 0
  BY <1>1 DEF ClosedOwesNothing
<1>6. \A known, can_put, states : SeatIs(known, can_put, states) /\ server.open
                                    => s = states /\ b = 0
  BY DEF SeatIs
<1>7. CASE Introducing
  <2>1. first = 1 /\ counted = 0 /\ puts_without_answer = 1
    BY <1>7 DEF Introducing
  <2>2. c = 0
    BY <1>3, <1>7, PutsUnderWay DEF Introducing
  <2>3. n = 0
    BY <1>7, NoneComingCount DEF Introducing, Coming
  <2>4. s = 0 /\ b = 0
    BY <1>5, <1>6, <1>7 DEF Introducing
  <2> HIDE DEF first, counted, c, n, s, b
  <2> QED
    BY <2>1, <2>2, <2>3, <2>4
<1>8. CASE Introduced
  <2>1. first = 1 /\ counted = 0 /\ puts_without_answer = 1
    BY <1>8 DEF Introduced
  <2>2. c = 0
    BY <1>3, <1>8, PutsUnderWay DEF Introduced
  <2>3. n = 0
    BY <1>4, <1>8, OneComingCount DEF Introduced
  <2>4. s = 0 /\ b = 0
    BY <1>5, <1>6, <1>8 DEF Introduced
  <2> HIDE DEF first, counted, c, n, s, b
  <2> QED
    BY <2>1, <2>2, <2>3, <2>4
<1>9. CASE Free
  <2>1. first = 0 /\ counted = 0 /\ puts_without_answer = 0
    BY <1>9 DEF Free
  <2>2. c = 0
    BY <1>3, <1>9, PutsUnderWay DEF Free
  <2>3. n = 0
    BY <1>9, NoneComingCount DEF Free
  <2>4. s = 0 /\ b = 0
    BY <1>5, <1>6, <1>9 DEF Free
  <2> HIDE DEF first, counted, c, n, s, b
  <2> QED
    BY <2>1, <2>2, <2>3, <2>4
<1>10. CASE Choosing
  <2>1. first = 0 /\ counted = 1 /\ puts_without_answer = 1
    BY <1>10 DEF Choosing
  <2>2. c = 0
    BY <1>3, <1>10, PutsUnderWay DEF Choosing
  <2>3. n = 0
    BY <1>10, NoneComingCount DEF Choosing
  <2>4. s = 0 /\ b = 0
    BY <1>5, <1>6, <1>10 DEF Choosing
  <2> HIDE DEF first, counted, c, n, s, b
  <2> QED
    BY <2>1, <2>2, <2>3, <2>4
<1>11. CASE Putting
  <2>1. first = 0 /\ counted = 0 /\ puts_without_answer = 1
    BY <1>11 DEF Putting
  <2>2. c = 1
    <3>1. PICK p, v : Outbound = <<<<"PUT", p, v>>>>
      BY <1>11 DEF Putting
    <3> QED
      BY <1>3, <3>1, PutsUnderWay
  <2>3. n = 0
    BY <1>11, NoneComingCount DEF Putting
  <2>4. s = 0 /\ b = 0
    BY <1>5, <1>6, <1>11 DEF Putting
  <2> HIDE DEF first, counted, c, n, s, b
  <2> QED
    BY <2>1, <2>2, <2>3, <2>4
<1>12. CASE Awaiting
  <2>1. first = 0 /\ counted = 0 /\ puts_without_answer = 1
    BY <1>12 DEF Awaiting
  <2>2. c = 0
    BY <1>3, <1>12, PutsUnderWay DEF Awaiting
  <2>3. n = 0
    BY <1>12, NoneComingCount DEF Awaiting
  <2>4. b = 0 /\ s = IF server.open THEN 1 ELSE 0
    BY <1>5, <1>6, <1>12 DEF Awaiting
  <2> HIDE DEF first, counted, c, n, s, b
  <2> QED
    BY <2>1, <2>2, <2>3, <2>4
<1>13. CASE Answered
  <2>1. first = 0 /\ counted = 0 /\ puts_without_answer = 1
    BY <1>13 DEF Answered
  <2>2. c = 0
    BY <1>3, <1>13, PutsUnderWay DEF Answered
  <2>3. n = 1
    BY <1>4, <1>13, OneComingCount DEF Answered
  <2>4. s = 0 /\ b = 0
    BY <1>5, <1>6, <1>13 DEF Answered
  <2> HIDE DEF first, counted, c, n, s, b
  <2> QED
    BY <2>1, <2>2, <2>3, <2>4
<1> QED
  BY <1>1, <1>7, <1>8, <1>9, <1>10, <1>11, <1>12, <1>13 DEF Turn

(* puts_without_answer is what is on its way, in either direction and      *)
(* wherever it is, whatever the threads do: the count that the processor   *)
(* decreases and the strategy waits for never runs ahead or behind.        *)
THEOREM CountIsRight == Spec => []PutsCounted
BY InvariantHolds, Counted, PTL

(* The sum over the PUTs under way has one term at most. *)
LEMMA SumUnderWay ==
  ASSUME ClientInv, is_auto_strategy, NEW x
  PROVE  SumFunction([k \in UnderWay |-> IF Outbound[k][2] = x THEN Outbound[k][3] ELSE 0])
           = Due(x)
<1> DEFINE f == [k \in UnderWay |-> IF Outbound[k][2] = x THEN Outbound[k][3] ELSE 0]
<1>1. Turn
  BY DEF ClientInv
<1>2. CASE Outbound = <<>> \/ Outbound = <<Hello>>
  <2>1. UnderWay = {}
    BY <1>2, PutsUnderWay
  <2>2. DOMAIN f = {}
    BY <2>1
  <2>3. SumFunction(f) = 0
    <3> HIDE DEF f
    <3> QED
      BY <2>2, SumOfNone
  <2>4. Due(x) = 0
    BY <1>2, HelloType DEF Due
  <2> QED
    BY <2>3, <2>4
<1>3. CASE \E p, v \in Int : Outbound = <<<<"PUT", p, v>>>>
  <2>1. PICK p, v \in Int : Outbound = <<<<"PUT", p, v>>>>
    BY <1>3
  <2>2. UnderWay = {1}
    BY <2>1, PutsUnderWay
  <2>3. /\ Outbound # <<>> /\ Outbound[1][1] = "PUT" /\ Outbound[1][2] = p /\ Outbound[1][3] = v
    BY <2>1
  <2>4. DOMAIN f = {1} /\ f[1] = IF p = x THEN v ELSE 0
    BY <2>2, <2>3
  <2>5. Due(x) = f[1] /\ f[1] \in Int
    BY <2>3, <2>4 DEF Due
  <2>6. SumFunction(f) = f[1]
    <3> HIDE DEF f
    <3> QED
      BY <2>4, <2>5, SumOfOne
  <2> QED
    BY <2>5, <2>6
<1>4. Putting => \E p, v \in Int : Outbound = <<<<"PUT", p, v>>>>
  <2>1. SUFFICES ASSUME Putting PROVE \E p, v \in Int : Outbound = <<<<"PUT", p, v>>>>
    OBVIOUS
  <2>2. PICK p \in DOMAIN current_approximation, v \in min_put_value..max_put_value :
           Outbound = <<<<"PUT", p, v>>>>
    BY <2>1 DEF Putting
  <2>3. PICK t \in {-1, 1, K} : current_approximation \in [0..t -> Int]
    BY DEF ClientInv, Base, TypeOK
  <2>4. p \in Int /\ v \in Int
    BY <2>2, <2>3 DEF min_put_value, max_put_value
  <2> QED
    BY <2>2, <2>4
<1> QED
  BY <1>1, <1>2, <1>3, <1>4 DEF Turn, Introducing, Introduced, Free, Choosing, Awaiting, Answered

(* What is due at a point is the sum. *)
LEMMA CopyMatches ==
  ClientInv => CopyMatchesServer
<1> SUFFICES ASSUME ClientInv, is_auto_strategy, server.open,
                    NEW x \in DOMAIN current_approximation
             PROVE  current_approximation[x] =
                      server.approximations[x]
                        + SumFunction([k \in UnderWay |->
                                         IF Outbound[k][2] = x THEN Outbound[k][3] ELSE 0])
  BY DEF CopyMatchesServer
<1>1. TypeOK /\ CopyIsRight
  BY DEF ClientInv, Base
<1>2. PICK t \in {-1, 1, K} : current_approximation \in [0..t -> Int]
  BY <1>1 DEF TypeOK
<1>3. x \in 0..K
  BY <1>2, RulesAssumption
<1>4. Copy(x) = server.approximations[x] + Due(x)
  BY <1>1, <1>3 DEF CopyIsRight
<1>5. SumFunction([k \in UnderWay |-> IF Outbound[k][2] = x THEN Outbound[k][3] ELSE 0])
        = Due(x)
  BY SumUnderWay
<1> QED
  BY <1>4, <1>5 DEF Copy

(* The copy that get_best_put chooses from is the server's approximation   *)
(* and the PUTs that are still on their way to it, although no STATE is    *)
(* ever read back and the vector is resized under way.                     *)
THEOREM CopyIsExact == Spec => []CopyMatchesServer
BY InvariantHolds, CopyMatches, PTL

-----------------------------------------------------------------------------
(* Another thread leaves the printer where it is, and adds one line to the *)
(* logs at most.                                                           *)
Unprinted ==
    /\ pc'["printer"] = pc["printer"] /\ (game_over => game_over')
    /\ logs' = logs \/ Log
    /\ outcome' # "finished" \/ outcome' = outcome

(* Such a step preserves the invariant of the printer. *)
LEMMA UnprintedInv ==
  ASSUME TypeOK, PrinterInv, Unprinted
  PROVE  PrinterInv'
<1>1. ASSUME pc["printer"] = "done" PROVE \A k \in DOMAIN logs' : logs'[k] = "late"
  <2>1. game_over /\ \A k \in DOMAIN logs : logs[k] = "late"
    BY <1>1 DEF PrinterInv
  <2>2. CASE logs' = logs
    BY <2>1, <2>2
  <2>3. CASE Log
    <3>1. logs \in Seq({"early", "late"}) /\ logs' = Append(logs, "late")
      BY <2>1, <2>3 DEF TypeOK, Log
    <3>2. /\ logs' \in Seq({"early", "late"}) /\ Len(logs') = Len(logs) + 1
          /\ \A i \in 1..Len(logs) : logs'[i] = logs[i]
          /\ logs'[Len(logs) + 1] = "late" /\ Len(logs) \in Nat
      BY <3>1, AppendProperties, LenProperties
    <3>3. DOMAIN logs = 1..Len(logs) /\ DOMAIN logs' = 1..Len(logs')
      BY <3>1, <3>2, LenProperties
    <3>4. ASSUME NEW k \in DOMAIN logs' PROVE logs'[k] = "late"
      <4>1. k \in 1..Len(logs) \/ k = Len(logs) + 1
        BY <3>2, <3>3, <3>4
      <4> QED
        BY <2>1, <3>2, <3>3, <4>1
    <3> QED
      BY <3>4
  <2> QED
    BY <2>2, <2>3 DEF Unprinted
<1> QED
  BY <1>1 DEF PrinterInv, Unprinted

(* Steps of the other threads are like that. *)
LEMMA OthersUnprinted ==
  ASSUME TypeOK,
         \/ SendHello \/ Strategy \/ Receiver \/ Sender \/ Processor
         \/ ServerTakes \/ ServerAnswers \/ ServerEnds \/ UNCHANGED vars
  PROVE  Unprinted
<1>1. ASSUME NEW t \in Thread, NEW from, NEW to, t # "printer", Goto(t, from, to)
      PROVE  pc'["printer"] = pc["printer"]
  BY <1>1 DEF TypeOK, Goto, Thread
<1>2. \A t \in {"strategy", "receiver", "sender", "processor", "main"} :
         t \in Thread /\ t # "printer"
  BY DEF Thread
<1>3. ASSUME NEW t \in {"strategy", "receiver", "sender", "processor"}, NEW from, NEW to,
             Step(t, from, to)
      PROVE  Unprinted
  <2>1. pc'["printer"] = pc["printer"]
    BY <1>1, <1>2, <1>3 DEF Step
  <2> QED
    BY <1>3, <2>1 DEF Step, Unprinted, logVars
<1>4. ASSUME NEW t, NEW from, NEW how \in {"disconnect", "syserr"}, Ends(t, from, how)
      PROVE  Unprinted
  BY <1>4 DEF Ends, Unprinted, logVars
<1>5. CASE SendHello
  <2>1. pc'["printer"] = pc["printer"]
    BY <1>1, <1>2, <1>5 DEF SendHello
  <2> QED
    BY <1>5, <2>1 DEF SendHello, Unprinted, logVars
<1>6. CASE Strategy
  <2>1. CASE LeaveLoop("strategy")
    BY <1>3, <2>1 DEF LeaveLoop
  <2>2. CASE WaitForPuts \/ IncrementPuts \/ GetBestPut
    <3>1. pc'["printer"] = pc["printer"]
      BY <1>1, <1>2, <2>2 DEF WaitForPuts, IncrementPuts, GetBestPut
    <3> QED
      BY <2>2, <3>1 DEF WaitForPuts, IncrementPuts, GetBestPut, Unprinted, logVars
  <2>3. CASE LogPut
    <3>1. pc'["printer"] = pc["printer"]
      BY <1>1, <1>2, <2>3 DEF LogPut
    <3> QED
      BY <2>3, <3>1 DEF LogPut, Unprinted
  <2>4. CASE ReadInput
    <3>1. pc'["printer"] = pc["printer"]
      BY <1>1, <1>2, <2>4 DEF ReadInput, InputTurn, NextTurn
    <3> QED
      BY <2>4, <3>1 DEF ReadInput, Unprinted
  <2>5. CASE PutSent
    <3>1. pc'["printer"] = pc["printer"]
      BY <1>1, <1>2, <2>5 DEF PutSent, InputTurn, NextTurn
    <3> QED
      BY <2>5, <3>1 DEF PutSent, Unprinted, logVars
  <2> QED
    BY <1>6, <2>1, <2>2, <2>3, <2>4, <2>5 DEF Strategy
<1>7. CASE Receiver
  <2>1. CASE LeaveLoop("receiver") \/ Step("receiver", "end", "done")
    BY <1>3, <2>1 DEF LeaveLoop
  <2>2. CASE LogPartialMessage
    <3>1. pc'["printer"] = pc["printer"]
      BY <1>1, <1>2, <2>2 DEF LogPartialMessage
    <3> QED
      BY <2>2, <3>1 DEF LogPartialMessage, Unprinted
  <2>3. CASE Recv
    <3>1. pc'["printer"] = pc["printer"]
      BY <1>1, <1>2, <2>3 DEF Recv, NextTurn
    <3> QED
      BY <2>3, <3>1 DEF Recv, Unprinted, logVars
  <2>4. CASE RecvEndOfFile
    <3>1. pc'["printer"] = pc["printer"]
      BY <1>1, <1>2, <2>4 DEF RecvEndOfFile
    <3> QED
      BY <2>4, <3>1 DEF RecvEndOfFile, Unprinted, logVars
  <2>5. CASE Ends("receiver", "wait", "syserr")
    BY <1>4, <2>5
  <2> QED
    BY <1>7, <2>1, <2>2, <2>3, <2>4, <2>5 DEF Receiver
<1>8. CASE Sender
  <2>1. CASE LeaveLoop("sender")
    BY <1>3, <2>1 DEF LeaveLoop
  <2>2. CASE PopOutgoing \/ WriteSocket
    <3>1. pc'["printer"] = pc["printer"]
      BY <1>1, <1>2, <2>2 DEF PopOutgoing, WriteSocket, NextTurn
    <3> QED
      BY <2>2, <3>1 DEF PopOutgoing, WriteSocket, Unprinted, logVars
  <2>3. CASE Ends("sender", "write", "syserr")
    BY <1>4, <2>3
  <2> QED
    BY <1>8, <2>1, <2>2, <2>3 DEF Sender
<1>9. CASE Processor
  <2>1. CASE LeaveLoop("processor") \/ Step("processor", "end", "done")
    BY <1>3, <2>1 DEF LeaveLoop
  <2>2. CASE PopIncoming
    <3>1. pc'["printer"] = pc["printer"]
      BY <1>1, <1>2, <2>2 DEF PopIncoming
    <3> QED
      BY <2>2, <3>1 DEF PopIncoming, Unprinted, logVars
  <2>3. CASE LogMessage
    <3>1. pc'["printer"] = pc["printer"]
      BY <1>1, <1>2, <2>3 DEF LogMessage
    <3> QED
      BY <2>3, <3>1 DEF LogMessage, Unprinted
  <2>4. CASE Process
    <3>1. pc'["printer"] = pc["printer"]
      BY <1>1, <1>2, <2>4 DEF Process, NextTurn
    <3>2. logs' = logs /\ (game_over => game_over') /\ outcome' = outcome
      BY <2>4 DEF Process, logVars
    <3> QED
      BY <3>1, <3>2 DEF Unprinted
  <2>5. CASE Ends("processor", "end", "disconnect")
    BY <1>4, <2>5
  <2> QED
    BY <1>9, <2>1, <2>2, <2>3, <2>4, <2>5 DEF Processor
<1>10. CASE ServerTakes \/ ServerAnswers \/ ServerEnds
  <2>1. Elsewhere
    BY <1>10 DEF ServerTakes, ServerAnswers, ServerEnds
  <2> QED
    BY <2>1 DEF Elsewhere, Unprinted, logVars
<1>11. CASE UNCHANGED vars
  BY <1>11 DEF vars, Unprinted, logVars
<1> QED
  BY <1>5, <1>6, <1>7, <1>8, <1>9, <1>10, <1>11

(* The printer ends when it finds nothing more to print. *)
LEMMA PrinterStepInv ==
  ASSUME TypeOK, PrinterInv, Printer
  PROVE  PrinterInv'
<1>1. "printer" \in Thread /\ pc \in [Thread -> Place]
  BY DEF Thread, TypeOK
<1>2. outcome = "running" /\ game_over' = game_over /\ outcome' = outcome
  BY DEF Printer, LeaveLoop, PrintLog, NextTurn, Step, Goto
<1>3. CASE LeaveLoop("printer")
  <2>1. game_over /\ pc' = [pc EXCEPT !["printer"] = "last"]
    BY <1>3 DEF LeaveLoop, BehindLoop, Step, Goto
  <2> QED
    BY <1>1, <1>2, <2>1 DEF PrinterInv
<1>4. CASE PrintLog("wait")
  <2>1. pc' = [pc EXCEPT !["printer"] = IF game_over THEN "last" ELSE "wait"]
    BY <1>4 DEF PrintLog, NextTurn, BehindLoop, Goto
  <2> QED
    BY <1>1, <1>2, <2>1 DEF PrinterInv
<1>5. CASE PrintLog("last") \/ PrintLog("drain") \/ Step("printer", "last", AfterLastWait)
  <2>1. pc["printer"] \in {"last", "drain"} /\ pc' = [pc EXCEPT !["printer"] = "drain"]
    BY <1>5 DEF PrintLog, AfterLastWait, Step, Goto
  <2> QED
    BY <1>1, <1>2, <2>1 DEF PrinterInv
<1>6. CASE logs = <<>> /\ Step("printer", "drain", "done")
  <2>1. /\ pc["printer"] = "drain" /\ pc' = [pc EXCEPT !["printer"] = "done"] /\ logs' = <<>>
    BY <1>6 DEF Step, Goto, logVars
  <2> QED
    BY <1>1, <1>2, <2>1 DEF PrinterInv
<1> QED
  BY <1>3, <1>4, <1>5, <1>6 DEF Printer

(* The invariant of the printer. *)
LEMMA PrinterInvHolds ==
  Spec => []PrinterInv
<1>1. Init => PrinterInv
  <2>1. SUFFICES ASSUME Init PROVE PrinterInv
    OBVIOUS
  <2>2. pc["printer"] = "wait" /\ outcome = "running"
    BY <2>1 DEF Init, Thread
  <2> QED
    BY <2>2 DEF PrinterInv
<1>2. TypeOK /\ PrinterInv /\ [Next]_vars => PrinterInv'
  <2>1. SUFFICES ASSUME TypeOK, PrinterInv, [Next]_vars PROVE PrinterInv'
    OBVIOUS
  <2>2. CASE Printer
    BY <2>1, <2>2, PrinterStepInv
  <2>3. CASE JoinThreads
    <3>1. pc["printer"] = "done" /\ "main" \in Thread /\ pc \in [Thread -> Place]
      BY <2>1, <2>3 DEF JoinThreads, Thread, TypeOK
    <3>2. pc' = [pc EXCEPT !["main"] = "done"]
      BY <2>3 DEF JoinThreads, Goto
    <3>3. pc'["printer"] = "done"
      BY <3>1, <3>2 DEF Thread
    <3>4. logs' = logs /\ game_over' = game_over
      BY <2>3 DEF JoinThreads, logVars
    <3> QED
      BY <2>1, <3>1, <3>3, <3>4 DEF PrinterInv
  <2>4. CASE ~Printer /\ ~JoinThreads
    <3>1. Unprinted
      BY <2>1, <2>4, OthersUnprinted DEF Next, Ended
    <3> QED
      BY <2>1, <3>1, UnprintedInv
  <2> QED
    BY <2>2, <2>3, <2>4
<1> QED
  BY <1>1, <1>2, TypeCorrect, PTL DEF Spec

(* A process that ends in join_threads has printed whatever was logged     *)
(* before the game was over: log_printer waits once more after its loop    *)
(* and drains the queue, and no interleaving of the other threads' last    *)
(* lines with that leaves an earlier one behind.                           *)
THEOREM NothingUnprinted == Spec => []LogsPrinted
<1>1. PrinterInv => LogsPrinted
  BY DEF PrinterInv, LogsPrinted
<1> QED
  BY <1>1, PrinterInvHolds, PTL

-----------------------------------------------------------------------------
(* The best PUT. *)

(* All points are known once K is. *)
AllKnown == is_auto_strategy /\ K_set => DOMAIN current_approximation = 0..K

(* A PUT that counted is answered by a STATE, and with it come the points. *)
Learnt ==
    is_auto_strategy /\ server.open /\ server.approximations # Zeros =>
        \/ DOMAIN current_approximation = 0..K \/ ~server.can_put
        \/ Inbound # <<>> /\ Inbound[1] = "STATE"

(* The PUT under way is the best for the approximation it will meet.       *)
PutIsBest ==
    is_auto_strategy /\ server.open /\ Outbound # <<>> /\ Outbound[1][1] = "PUT" =>
        \E top \in {1, K} :
            /\ server.approximations # Zeros => top = K
            /\ BestAt(coeffs, server.approximations, Outbound[1][2], Outbound[1][3], top)

BestInv == AllKnown /\ Learnt /\ PutIsBest

(* A step that touches none of this. *)
LEMMA UntouchedBest ==
  ASSUME BestInv, Untouched
  PROVE  BestInv'
<1>1. AllKnown' /\ Learnt'
  BY DEF BestInv, AllKnown, Learnt, Untouched
<1>2. PutIsBest'
  BY DEF BestInv, PutIsBest, Untouched
<1> QED
  BY <1>1, <1>2 DEF BestInv

(* With another strategy there is nothing to show. *)
LEMMA ManualBest ==
  ASSUME ~is_auto_strategy'
  PROVE  BestInv'
BY DEF BestInv, AllKnown, Learnt, PutIsBest

(* What a PUT under way tells of the phase. *)
LEMMA PutUnderWay ==
  ASSUME Turn, is_auto_strategy, Outbound # <<>>, Outbound[1][1] = "PUT"
  PROVE  Putting
<1>1. ~Introducing
  <2>1. <<Hello>>[1] = Hello
    OBVIOUS
  <2> QED
    BY <2>1, HelloType DEF Introducing
<1>2. ~Introduced /\ ~Free /\ ~Choosing /\ ~Awaiting /\ ~Answered
  BY DEF Introduced, Free, Choosing, Awaiting, Answered
<1> QED
  BY <1>1, <1>2 DEF Turn

(* Before the COEFF is processed nothing was put. *)
LEMMA FirstIsZero ==
  ASSUME ClientInv, is_auto_strategy, server.open, is_first_message
  PROVE  server.approximations = Zeros
<1>1. TypeOK /\ KnownPoints /\ Turn /\ CopyIsRight
  BY DEF ClientInv, Base
<1>2. server.approximations \in Approximation
  BY <1>1, SeatFields DEF TypeOK
<1>3. ~(Outbound # <<>> /\ Outbound[1][1] = "PUT")
  BY <1>1, PutUnderWay DEF Putting
<1>4. ASSUME NEW x \in 0..K PROVE server.approximations[x] = 0
  <2>1. Copy(x) = 0
    BY <1>1 DEF KnownPoints, Copy
  <2>2. Due(x) = 0
    BY <1>3 DEF Due
  <2>3. server.approximations[x] \in Int
    BY <1>2 DEF Approximation
  <2> QED
    BY <1>1, <2>1, <2>2, <2>3 DEF CopyIsRight
<1> QED
  BY <1>2, <1>4 DEF Approximation, Zeros

(* HELLO is queued: it is no PUT. *)
LEMMA SendHelloBest ==
  ASSUME ClientInv, ClientInv', BestInv, is_auto_strategy, SendHello
  PROVE  BestInv'
<1>1. /\ UNCHANGED <<processing, incoming_messages, is_first_message, K_set>>
      /\ UNCHANGED <<current_approximation, to_client, server>>
      /\ pc["main"] = "hello" /\ is_auto_strategy' = is_auto_strategy
  BY DEF SendHello, inVars, autoVars, netVars, Goto
<1>2. Introducing
  BY <1>1 DEF ClientInv, Turn, Introduced, Free, Choosing, Putting, Awaiting, Answered
<1>3. AllKnown' /\ Learnt'
  BY <1>1 DEF BestInv, AllKnown, Learnt, Inbound
<1>4. ~Putting'
  BY <1>1, <1>2 DEF Introducing, Putting
<1>5. ASSUME Outbound' # <<>>, Outbound'[1][1] = "PUT" PROVE FALSE
  <2>1. (Turn /\ is_auto_strategy /\ Outbound # <<>> /\ Outbound[1][1] = "PUT" => Putting)'
    BY PutUnderWay, PTL
  <2> QED
    BY <1>1, <1>4, <1>5, <2>1 DEF ClientInv
<1> QED
  BY <1>3, <1>5 DEF BestInv, PutIsBest

(* All answers are in, and the PUT is counted. *)
LEMMA CountBest ==
  ASSUME BestInv, WaitForPuts \/ IncrementPuts
  PROVE  BestInv'
<1>1. /\ UNCHANGED <<processing, incoming_messages, is_first_message, K_set>>
      /\ UNCHANGED <<current_approximation, to_server, to_client, server>>
      /\ UNCHANGED <<outgoing_messages, sending, put, is_auto_strategy, coeffs>>
  BY DEF WaitForPuts, IncrementPuts, inVars, outVars, autoVars, putVars, netVars, Goto
<1>2. Outbound' = Outbound /\ Inbound' = Inbound
  BY <1>1 DEF Outbound, Inbound
<1>3. AllKnown' /\ Learnt'
  BY <1>1, <1>2 DEF BestInv, AllKnown, Learnt
<1>4. PutIsBest'
  BY <1>1, <1>2 DEF BestInv, PutIsBest
<1> QED
  BY <1>3, <1>4 DEF BestInv

(* The PUT is chosen: the copy is what the server has, and the polynomial  *)
(* is the one it scores.                                                   *)
LEMMA GetBestPutBest ==
  ASSUME PowersFit, ClientInv, BestInv, is_auto_strategy, GetBestPut
  PROVE  BestInv'
<1>1. TypeOK /\ KnownPoints /\ Turn /\ CopyIsRight
  BY DEF ClientInv, Base
<1>2. /\ UNCHANGED <<outgoing_messages, sending, to_server, to_client, server>>
      /\ UNCHANGED <<incoming_messages, processing, is_first_message, K_set>>
      /\ UNCHANGED <<is_auto_strategy, coeffs>> /\ pc["strategy"] = "choose"
      /\ put' = <<best_put>> /\ current_approximation' = WithPut(current_approximation, best_put)
  BY DEF GetBestPut, inVars, outVars, netVars, Goto
<1>3. Choosing
  BY <1>1, <1>2 DEF Turn, Introducing, Introduced, Free, Putting, Awaiting, Answered
<1>4. PICK top \in {1, K} : current_approximation \in [0..top -> Int]
  BY <1>1, <1>3 DEF Choosing, KnownPoints
<1>5. top \in Nat /\ 0..top \subseteq 0..K
  BY <1>4, RulesAssumption
<1>6. coeffs \in Coeffs /\ coeffs \in Seq(Int)
  BY <1>1, ClientAssumption DEF TypeOK
<1>7. PICK p \in 0..top, v \in min_put_value..max_put_value :
         best_put = <<"PUT", p, v>> /\ LargestGap(p, v, top)
  BY <1>4, <1>5, <1>6, BestPutEffect
<1>8. DOMAIN current_approximation' = DOMAIN current_approximation
  BY <1>2 DEF WithPut, Put
<1>9. Outbound = <<>> /\ Outbound' = <<<<"PUT", p, v>>>>
  <2>1. Outbound = <<>>
    BY <1>3 DEF Choosing
  <2>2. to_server = <<>> /\ sending = <<>> /\ outgoing_messages = <<>> /\ put = <<>>
    BY <1>1, <2>1, NothingOutbound
  <2> QED
    BY <1>2, <1>7, <2>1, <2>2, OneMessage DEF Outbound
<1>10. AllKnown' /\ Learnt'
  BY <1>2, <1>8 DEF BestInv, AllKnown, Learnt, Inbound
<1>11. PutIsBest'
  <2> SUFFICES ASSUME server.open
               PROVE  \E t \in {1, K} :
                         /\ server.approximations # Zeros => t = K
                         /\ BestAt(coeffs, server.approximations, p, v, t)
    <3>1. Outbound'[1] = <<"PUT", p, v>>
      BY <1>9
    <3> QED
      BY <1>2, <3>1 DEF PutIsBest
  <2>1. server.approximations # Zeros => 0..top = 0..K
    <3>1. server.can_put
      BY <1>3 DEF Choosing, SeatIs
    <3>2. ~(Inbound # <<>> /\ Inbound[1] = "STATE")
      <4>1. Inbound = <<>> \/ Inbound = <<"SCORING">>
        BY <1>3, OneMessage DEF Choosing, Coming
      <4> QED
        BY <4>1
    <3>3. DOMAIN current_approximation = 0..top
      BY <1>4
    <3> QED
      BY <3>1, <3>2, <3>3 DEF BestInv, Learnt
  <2>2. server.approximations # Zeros => top = K
    <3>1. top \in 0..top /\ K \in 0..K
      BY <1>5, RulesAssumption
    <3> QED
      BY <1>5, <2>1, <3>1, RulesAssumption
  <2>3. ASSUME NEW x \in 0..top PROVE Gap(x) = Off(coeffs, server.approximations, x)
    <3>1. x \in 0..K
      BY <1>5
    <3>2. poly_at(x) = player_poly_at(coeffs, x)
      BY <1>6, <3>1, SamePoly
    <3>3. Copy(x) = server.approximations[x] + Due(x) /\ Due(x) = 0
      BY <1>1, <1>9, <3>1 DEF CopyIsRight, Due
    <3>4. server.approximations[x] \in Int
      BY <1>1, <3>1, SeatFields DEF TypeOK, Approximation
    <3>5. Copy(x) = current_approximation[x]
      BY <1>4 DEF Copy
    <3>6. current_approximation[x] = server.approximations[x]
      BY <3>3, <3>4, <3>5
    <3> QED
      BY <3>2, <3>6 DEF Gap, Off
  <2>4. BestAt(coeffs, server.approximations, p, v, top)
    <3>1. v = Clamped(Gap(p)) /\ \A y \in 0..top : Gap(y) * Gap(y) <= Gap(p) * Gap(p)
      BY <1>7 DEF LargestGap
    <3> QED
      BY <1>7, <2>3, <3>1 DEF BestAt
  <2> QED
    BY <2>2, <2>4
<1> QED
  BY <1>10, <1>11 DEF BestInv

(* A message is processed: the first STATE makes all points known.         *)
LEMMA ProcessBest ==
  ASSUME ClientInv, BestInv, is_auto_strategy, Process
  PROVE  BestInv'
<1>1. Base /\ TypeOK /\ KnownPoints /\ Turn
  BY DEF ClientInv, Base
<1>2. /\ Outbound' = Outbound /\ server' = server /\ is_auto_strategy' = is_auto_strategy
      /\ Inbound # <<>> /\ Inbound' = Tail(Inbound) /\ Head(Inbound) = processing[1]
  BY <1>1, ProcessBase
<1> DEFINE m == processing[1]
<1>3. /\ coeffs' = coeffs /\ K_set' = (K_set \/ (is_auto_strategy /\ m = "STATE" /\ ~K_set))
      /\ current_approximation' = IF is_first_message THEN Resized(1)
                                  ELSE IF is_auto_strategy /\ m = "STATE" /\ ~K_set
                                       THEN Resized(K) ELSE current_approximation
  BY DEF Process, Goto, NextTurn
<1>4. DOMAIN Resized(K) = 0..K
  BY DEF Resized
<1>5. PutIsBest'
  BY <1>2, <1>3 DEF BestInv, PutIsBest
<1>6. CASE is_first_message
  <2>1. Introduced
    BY <1>1, <1>2, <1>6 DEF Turn, Introducing, Free, Choosing, Putting, Awaiting, Answered
  <2>2. m = "COEFF"
    BY <1>2, <2>1, OneComing DEF Introduced
  <2>3. ~K_set
    <3>1. DOMAIN current_approximation = 0..(-1)
      BY <1>1, <1>6 DEF KnownPoints
    <3>2. 0 \in 0..K /\ 0 \notin 0..(-1)
      BY RulesAssumption
    <3> QED
      BY <3>1, <3>2 DEF BestInv, AllKnown
  <2>4. AllKnown'
    BY <1>3, <2>2, <2>3 DEF AllKnown
  <2>5. Learnt'
    BY <1>2, <1>6, FirstIsZero DEF Learnt
  <2> QED
    BY <1>5, <2>4, <2>5 DEF BestInv
<1>7. CASE ~is_first_message /\ m = "STATE"
  <2>1. DOMAIN current_approximation' = 0..K
    BY <1>3, <1>4, <1>7 DEF BestInv, AllKnown
  <2> QED
    BY <1>5, <2>1 DEF BestInv, AllKnown, Learnt
<1>8. CASE ~is_first_message /\ m # "STATE"
  <2>1. current_approximation' = current_approximation /\ K_set' = K_set
    BY <1>1, <1>3, <1>8 DEF TypeOK
  <2>2. ~(Inbound # <<>> /\ Inbound[1] = "STATE")
    <3>1. Inbound \in Seq(AnswerType) /\ Inbound # <<>>
      BY <1>1, <1>2, ConcatProperties DEF TypeOK, Inbound
    <3>2. Head(Inbound) = Inbound[1]
      BY <3>1
    <3> QED
      BY <1>2, <1>8, <3>2
  <2> QED
    BY <1>2, <1>5, <2>1, <2>2 DEF BestInv, AllKnown, Learnt
<1> QED
  BY <1>6, <1>7, <1>8

(* The server takes a line: HELLO, when nothing was put yet, or the PUT.   *)
LEMMA TakeBest ==
  ASSUME ClientInv, ClientInv', BestInv, is_auto_strategy, Elsewhere, Session!TakeLine
  PROVE  BestInv'
<1>1. TypeOK /\ Turn /\ server \in Session!Seat
  BY DEF ClientInv, Base, TypeOK
<1>2. Still
  BY DEF Elsewhere, Still, inVars, outVars, autoVars, putVars
<1>3. server.open /\ to_server # <<>> /\ to_server' = Tail(to_server)
  BY DEF Session!TakeLine, Session!TakeHello, Session!TakeRejectedPut, Session!TakePut,
         Session!TakeIgnored, Session!Takes, Session!Serves
<1>4. Outbound # <<>> /\ Outbound' = Tail(Outbound)
  BY <1>1, <1>2, <1>3, LineTaken
<1>5. Outbound' = <<>>
  <2>1. \E m : Outbound = <<m>>
    BY <1>1, <1>4 DEF Turn, Introducing, Introduced, Free, Choosing, Putting, Awaiting, Answered
  <2>2. ASSUME NEW m, Outbound = <<m>> PROVE Tail(Outbound) = <<>>
    BY <2>2
  <2> QED
    BY <1>4, <2>1, <2>2
<1>6. AllKnown' /\ PutIsBest'
  BY <1>2, <1>5 DEF BestInv, AllKnown, PutIsBest, Still
<1>7. CASE Session!TakeHello
  <2>1. ~server.known /\ server'.approximations = server.approximations
    BY <1>1, <1>7, TakeHelloEffect
  <2>2. Introducing
    BY <1>1, <1>3, <2>1 DEF Turn, Introduced, Free, Choosing, Putting, Awaiting, Answered, SeatIs
  <2>3. server.approximations = Zeros
    BY <1>3, <2>2, FirstIsZero DEF Introducing
  <2> QED
    BY <1>6, <2>1, <2>3 DEF BestInv, Learnt
<1>8. CASE Session!TakeRejectedPut \/ (\E last \in BOOLEAN : Session!TakePut(last))
  <2>1. ~server'.can_put
    BY <1>1, <1>8 DEF Session!TakeRejectedPut, Session!TakePut, Session!Seat
  <2> QED
    BY <1>6, <2>1 DEF BestInv, Learnt
<1>9. CASE Session!TakeIgnored
  <2>1. server' = server /\ to_client' = to_client
    BY <1>9 DEF Session!TakeIgnored
  <2>2. Inbound' = Inbound
    BY <1>2, <2>1 DEF Inbound, Still
  <2> QED
    BY <1>2, <1>6, <2>1, <2>2 DEF BestInv, Learnt, Still
<1> QED
  BY <1>7, <1>8, <1>9 DEF Session!TakeLine

(* The server gives an answer, or ends the game.                           *)
LEMMA AnswerBest ==
  ASSUME ClientInv, ClientInv', BestInv, is_auto_strategy, Elsewhere,
         (\E kind \in {"STATE", "BAD_PUT"} : Session!Answer(kind)) \/ Session!GameOver
  PROVE  BestInv'
<1>1. TypeOK /\ Turn /\ server \in Session!Seat
  BY DEF ClientInv, Base, TypeOK
<1>2. Still
  BY DEF Elsewhere, Still, inVars, outVars, autoVars, putVars
<1>3. /\ server.open /\ ~server.over /\ to_server' = to_server
      /\ server'.approximations = server.approximations
  BY <1>1, AnswerEffect, GameOverEffect
<1>4. Outbound' = Outbound
  BY <1>2, <1>3 DEF Outbound, Still
<1>5. AllKnown' /\ PutIsBest'
  BY <1>2, <1>3, <1>4 DEF BestInv, AllKnown, PutIsBest, Still
<1>6. ASSUME NEW kind \in {"STATE", "BAD_PUT"}, Session!Answer(kind) PROVE Learnt'
  <2>1. server.owed[kind] > 0 /\ to_client' = Append(to_client, kind) /\ kind \in AnswerType
    BY <1>1, <1>6, AnswerEffect DEF AnswerType
  <2>2. ASSUME SeatIs(TRUE, TRUE, 0) \/ SeatIs(FALSE, FALSE, 0) PROVE FALSE
    BY <1>3, <2>1, <2>2 DEF SeatIs
  <2>3. Awaiting
    BY <1>1, <2>2 DEF Turn, Introducing, Introduced, Free, Choosing, Putting, Answered
  <2>4. kind = "STATE" /\ Inbound = <<>>
    BY <1>3, <2>1, <2>3, ServedComing DEF Awaiting, SeatIs
  <2>5. Inbound' = <<"STATE">>
    BY <1>1, <1>2, <2>1, <2>4, AnswerGiven, OneMessage
  <2>6. Inbound' # <<>> /\ Inbound'[1] = "STATE"
    BY <2>5
  <2> QED
    BY <2>6 DEF Learnt
<1>7. ASSUME Session!GameOver PROVE Learnt'
  <2>1. /\ server'.can_put = server.can_put
        /\ to_client' = IF server.known THEN Append(to_client, "SCORING") ELSE to_client
    BY <1>1, <1>7, GameOverEffect
  <2>2. Inbound' = Inbound \/ Inbound' = Append(Inbound, "SCORING")
    <3>1. CASE server.known
      <4>1. "SCORING" \in AnswerType
        BY DEF AnswerType
      <4> QED
        BY <1>1, <1>2, <2>1, <3>1, <4>1, AnswerGiven
    <3>2. CASE ~server.known
      BY <1>2, <2>1, <3>2 DEF Inbound, Still
    <3> QED
      BY <3>1, <3>2
  <2>3. Inbound # <<>> /\ Inbound[1] = "STATE" => Inbound' # <<>> /\ Inbound'[1] = "STATE"
    <3>1. Inbound \in Seq(AnswerType)
      BY <1>1, ConcatProperties DEF TypeOK, Inbound
    <3> QED
      BY <2>2, <3>1, AppendProperties, EmptySeq
  <2> QED
    BY <1>2, <1>3, <2>1, <2>3 DEF BestInv, Learnt, Still
<1> QED
  BY <1>5, <1>6, <1>7 DEF BestInv

(* Every step keeps the PUT under way the best.                            *)
LEMMA NextBest ==
  ASSUME PowersFit, ClientInv, ClientInv', BestInv, [Next]_vars
  PROVE  BestInv'
<1>1. Base
  BY DEF ClientInv
<1>2. ASSUME Base' /\ Quiet PROVE BestInv'
  BY <1>2, UntouchedBest DEF Quiet
<1>3. is_auto_strategy' = is_auto_strategy
  <2>1. CASE SendHello \/ JoinThreads \/ Printer
    BY <2>1 DEF SendHello, JoinThreads, Printer, PrintLog, LeaveLoop, Step, NextTurn, Goto
  <2>2. CASE Strategy
    BY <2>2 DEF Strategy, LeaveLoop, WaitForPuts, IncrementPuts, GetBestPut, LogPut, ReadInput,
                PutSent, InputTurn, Step, NextTurn, Goto
  <2>3. CASE Receiver \/ Sender
    BY <2>3 DEF Receiver, Sender, LeaveLoop, LogPartialMessage, Recv, RecvEndOfFile, PopOutgoing,
                WriteSocket, Ends, Step, NextTurn, Goto
  <2>4. CASE Processor
    BY <2>4 DEF Processor, LeaveLoop, PopIncoming, LogMessage, Process, Ends, Step, NextTurn, Goto
  <2>5. CASE ServerTakes \/ ServerAnswers \/ ServerEnds
    BY <2>5 DEF ServerTakes, ServerAnswers, ServerEnds, Elsewhere
  <2>6. CASE UNCHANGED vars
    BY <2>6 DEF vars
  <2> QED
    BY <2>1, <2>2, <2>3, <2>4, <2>5, <2>6 DEF Next, Ended
<1>4. CASE ~is_auto_strategy
  BY <1>3, <1>4, ManualBest
<1>5. CASE is_auto_strategy
  <2>1. CASE SendHello
    BY <1>5, <2>1, SendHelloBest
  <2>2. CASE JoinThreads \/ Printer \/ Receiver \/ Sender \/ UNCHANGED vars
    BY <1>1, <1>2, <2>2, JoinQuiet, PrinterQuiet, ReceiverQuiet, SenderQuiet, VarsQuiet
  <2>3. CASE Strategy
    <3>1. "strategy" \in Thread /\ "done" \in Place /\ "put" \in Place
      BY DEF Thread, Place
    <3>2. CASE LeaveLoop("strategy")
      <4>1. Step("strategy", "wait", "done") /\ GoesOn("strategy", "wait", "done")
        BY <3>2 DEF LeaveLoop, BehindLoop, GoesOn, KeepsHands
      <4> QED
        BY <1>1, <1>2, <3>1, <4>1, QuietStep
    <3>3. CASE WaitForPuts \/ IncrementPuts
      BY <3>3, CountBest
    <3>4. CASE GetBestPut
      BY <1>5, <3>4, GetBestPutBest
    <3>5. CASE LogPut
      <4>1. GoesOn("strategy", "log", "put")
        BY DEF GoesOn, KeepsHands
      <4> QED
        BY <1>1, <1>2, <3>1, <3>5, <4>1, QuietLog DEF LogPut
    <3>6. CASE PutSent
      BY <1>1, <1>2, <3>6, PutSentQuiet
    <3> QED
      BY <1>5, <2>3, <3>2, <3>3, <3>4, <3>5, <3>6 DEF Strategy
  <2>4. CASE Processor
    <3>1. "processor" \in Thread /\ {"done", "end", "process"} \subseteq Place
      BY DEF Thread, Place
    <3>2. CASE LeaveLoop("processor")
      <4>1. Step("processor", "wait", "end") /\ GoesOn("processor", "wait", "end")
        BY <3>2 DEF LeaveLoop, BehindLoop, GoesOn, KeepsHands
      <4> QED
        BY <1>1, <1>2, <3>1, <4>1, QuietStep
    <3>3. CASE PopIncoming
      BY <1>1, <1>2, <3>3, PopIncomingQuiet
    <3>4. CASE LogMessage
      <4>1. GoesOn("processor", "log", "process")
        BY DEF GoesOn, KeepsHands
      <4> QED
        BY <1>1, <1>2, <3>1, <3>4, <4>1, QuietLog DEF LogMessage
    <3>5. CASE Process
      BY <1>5, <3>5, ProcessBest
    <3>6. CASE Step("processor", "end", "done")
      <4>1. GoesOn("processor", "end", "done")
        BY DEF GoesOn, KeepsHands
      <4> QED
        BY <1>1, <1>2, <3>1, <3>6, <4>1, QuietStep
    <3>7. CASE Ends("processor", "end", "disconnect")
      BY <1>1, <1>2, <3>7, EndsQuiet
    <3> QED
      BY <2>4, <3>2, <3>3, <3>4, <3>5, <3>6, <3>7 DEF Processor
  <2>5. CASE ServerTakes
    BY <1>5, <2>5, TakeBest DEF ServerTakes
  <2>6. CASE ServerAnswers
    BY <1>5, <2>6, AnswerBest DEF ServerAnswers
  <2>7. CASE ServerEnds
    <3>1. CASE Session!GameOver
      BY <1>5, <2>7, <3>1, AnswerBest DEF ServerEnds
    <3>2. CASE Session!Close
      <4>1. ~server'.open
        BY <3>2, FreshSeats DEF Session!Close
      <4>2. AllKnown'
        BY <2>7 DEF ServerEnds, Elsewhere, autoVars, BestInv, AllKnown
      <4> QED
        BY <4>1, <4>2 DEF BestInv, Learnt, PutIsBest
    <3> QED
      BY <2>7, <3>1, <3>2 DEF ServerEnds
  <2> QED
    BY <2>1, <2>2, <2>3, <2>4, <2>5, <2>6, <2>7 DEF Next, Ended
<1> QED
  BY <1>4, <1>5

(* The first PUT taken is the best at 0 and 1, and every other one that    *)
(* the server takes the best at all points.                                *)
LEMMA BestStep ==
  ASSUME ClientInv, BestInv, [Next]_vars, is_auto_strategy, server.open, server'.open,
         server'.approximations # server.approximations,
         NEW q \in 0..(IF server.approximations = Zeros THEN 1 ELSE K),
         NEW w \in min_put_value..max_put_value
  PROVE  SquaredError(coeffs, server'.approximations)
           <= SquaredError(coeffs, Put(server.approximations, q, w))
<1>1. TypeOK /\ Base /\ Turn /\ server \in Session!Seat
  BY DEF ClientInv, Base, TypeOK
<1>2. server' # server
  OBVIOUS
<1>3. ~Quiet
  BY <1>2 DEF Quiet, Untouched
<1>4. ~(SendHello \/ Strategy \/ Processor)
  <2>1. SendHello => server' = server
    BY DEF SendHello, netVars
  <2>2. Strategy => server' = server
    BY DEF Strategy, LeaveLoop, Step, WaitForPuts, IncrementPuts, GetBestPut, LogPut, ReadInput,
           PutSent, netVars
  <2>3. Processor => server' = server
    BY DEF Processor, LeaveLoop, Step, PopIncoming, LogMessage, Process, Ends, netVars
  <2> QED
    BY <1>2, <2>1, <2>2, <2>3
<1>5. ~(JoinThreads \/ Printer \/ Receiver \/ Sender \/ UNCHANGED vars)
  BY <1>1, <1>3, JoinQuiet, PrinterQuiet, ReceiverQuiet, SenderQuiet, VarsQuiet
<1>6. ~ServerAnswers /\ ~(Session!GameOver)
  BY <1>1, AnswerEffect, GameOverEffect DEF ServerAnswers
<1>7. ~(Session!Close)
  BY FreshSeats DEF Session!Close
<1>8. Elsewhere /\ Session!TakeLine
  BY <1>4, <1>5, <1>6, <1>7 DEF Next, Ended, ServerTakes, ServerEnds
<1>9. ~(Session!TakeHello) /\ ~(Session!TakeIgnored)
  BY <1>1, TakeHelloEffect DEF Session!TakeIgnored
<1>10. ~(Session!TakeRejectedPut)
  <2>1. Session!TakeRejectedPut => server'.approximations = server.approximations
    BY <1>1 DEF Session!TakeRejectedPut, Session!Seat
  <2> QED
    BY <2>1
<1>11. PICK last \in BOOLEAN : Session!TakePut(last)
  BY <1>8, <1>9, <1>10 DEF Session!TakeLine
<1>12. to_server # <<>> /\ Head(to_server)[1] = "PUT" /\ to_server' = Tail(to_server)
  BY <1>11 DEF Session!TakePut, Session!Takes, Session!Line
<1>13. Still
  BY <1>8 DEF Elsewhere, Still, inVars, outVars, autoVars, putVars
<1>14. Outbound # <<>> /\ Head(Outbound) = Head(to_server) /\ Head(to_server) \in Line
  BY <1>1, <1>12, <1>13, LineTaken
<1>15. Outbound[1] = Head(to_server)
  BY <1>14
<1>16. Head(to_server)[3] \in Int
  BY <1>12, <1>14, LineFields
<1> DEFINE a == server.approximations
           p == Outbound[1][2]
           v == Outbound[1][3]
<1>17. server'.approximations = Put(a, p, v)
  BY <1>1, <1>11, <1>15, <1>16, TakePutEffect
<1>18. PICK top \in {1, K} : (a # Zeros => top = K) /\ BestAt(coeffs, a, p, v, top)
  BY <1>12, <1>14, <1>15 DEF BestInv, PutIsBest
<1>19. q \in 0..top
  <2>1. CASE a = Zeros
    BY <1>18, <2>1, RulesAssumption
  <2>2. CASE a # Zeros
    BY <1>18, <2>2
  <2> QED
    BY <2>1, <2>2
<1>20. coeffs \in Seq(Int) /\ a \in Approximation
  BY <1>1, ClientAssumption, SeatFields DEF TypeOK
<1> HIDE DEF a, p, v
<1>21. SquaredError(coeffs, Put(a, p, v)) <= SquaredError(coeffs, Put(a, q, w))
  BY <1>18, <1>19, <1>20, BestOfAll
<1> QED
  BY <1>17, <1>21 DEF a

(* Every PUT of the automatic client that the server takes leaves the      *)
(* score at least as good as any other PUT would have (of the points 0 and *)
(* 1, until the first STATE tells K), whatever the threads and the server  *)
(* do between the choice and its arrival: get_best_put works on a private  *)
(* copy, and what it chose is still the best when it is applied.  For      *)
(* every K and all polynomials whose powers fit an int.                    *)
THEOREM BestPutIsTaken == PowersFit => (Spec => BestPutTaken)
<1> SUFFICES ASSUME PowersFit PROVE Spec => BestPutTaken
  OBVIOUS
<1>1. Init => BestInv
  <2>1. Init => ~K_set /\ server.approximations = Zeros /\ Outbound = <<>>
    BY FreshSeats, ConcatEmptySeq DEF Init, Session!Init, Outbound
  <2> QED
    BY <2>1 DEF BestInv, AllKnown, Learnt, PutIsBest
<1>2. ClientInv /\ ClientInv' /\ BestInv /\ [Next]_vars => BestInv'
  BY NextBest
<1>3. ClientInv /\ BestInv /\ [Next]_vars =>
        [is_auto_strategy /\ server.open /\ server'.open
           /\ server'.approximations # server.approximations
         => \A p \in 0..(IF server.approximations = Zeros THEN 1 ELSE K),
               v \in min_put_value..max_put_value :
                 SquaredError(coeffs, server'.approximations)
                   <= SquaredError(coeffs, Put(server.approximations, p, v))]_vars
  BY BestStep
<1> QED
  BY <1>1, <1>2, <1>3, InvariantHolds, PTL DEF Spec, BestPutTaken

=============================================================================
