------------------------ MODULE ApproxSessionProofs -------------------------
(***************************************************************************)
(* Proofs that ApproxServer keeps the promise of ApproxSession to every    *)
(* client.                                                                 *)
(***************************************************************************)
EXTENDS ApproxLedgerProofs

-----------------------------------------------------------------------------
(* The session of an address, as the state of the server keeps it *)

Ended == {"exited", "crashed"}

(* The seat of the client on descriptor g.                                 *)
SeatOf(g) ==
    [open |-> TRUE, known |-> players[g].is_known, can_put |-> players[g].can_put,
     over |-> stopping, owed |-> [kind \in {"STATE", "BAD_PUT"} |-> Waits(g, kind)],
     approximations |-> players[g].approximations]
NobodySeat ==
    [open |-> TRUE, known |-> FALSE, can_put |-> FALSE, over |-> FALSE,
     owed |-> [kind \in {"STATE", "BAD_PUT"} |-> 0], approximations |-> Zeros]
GoneSeat ==
    [open |-> FALSE, known |-> FALSE, can_put |-> FALSE, over |-> FALSE,
     owed |-> [kind \in {"STATE", "BAD_PUT"} |-> 0], approximations |-> Zeros]

SeatRecord ==
    [open : BOOLEAN, known : BOOLEAN, can_put : BOOLEAN, over : BOOLEAN,
     owed : [{"STATE", "BAD_PUT"} -> Nat], approximations : Approximation]

(* Seats with the same fields are the same.                                *)
LEMMA SeatEqual ==
    ASSUME NEW s \in SeatRecord, NEW t \in SeatRecord,
           s.open = t.open, s.known = t.known, s.can_put = t.can_put, s.over = t.over,
           s.owed = t.owed, s.approximations = t.approximations
    PROVE  s = t
BY DEF SeatRecord

(* The seats of nobody.                                                    *)
LEMMA EmptySeats ==
    NobodySeat \in SeatRecord /\ GoneSeat \in SeatRecord
BY ZerosType DEF NobodySeat, GoneSeat, SeatRecord

(* ApproxSession has the same rules and the same empty seats.              *)
LEMMA SameSession ==
    ASSUME NEW a
    PROVE  /\ \A p, v : Session(a)!OutOfRange(p, v) <=> OutOfRange(p, v)
           /\ \A f, p, v : Session(a)!Put(f, p, v) = Put(f, p, v)
           /\ Session(a)!ClientLine = ClientLine
           /\ Session(a)!NewSeat = NobodySeat /\ Session(a)!ClosedSeat = GoneSeat
<1>1. /\ \A p, v : Session(a)!OutOfRange(p, v) <=> OutOfRange(p, v)
      /\ \A f, p, v : Session(a)!Put(f, p, v) = Put(f, p, v)
  BY DEF Session!OutOfRange, OutOfRange, Session!Put, Put, Session!min_put_value,
         min_put_value, Session!max_put_value, max_put_value
<1>2. Session(a)!ClientLine = ClientLine
  BY DEF Session!ClientLine, ClientLine
<1>3. Session(a)!NewSeat = NobodySeat
  BY DEF NobodySeat, Session!NewSeat, Session!Zeros, Zeros
<1>4. Session(a)!ClosedSeat = GoneSeat
  <2>1. PICK r : r = [NobodySeat EXCEPT !.open = FALSE]
    OBVIOUS
  <2>2. /\ r \in SeatRecord /\ r.open = FALSE /\ r.known = NobodySeat.known
        /\ r.can_put = NobodySeat.can_put /\ r.over = NobodySeat.over
        /\ r.owed = NobodySeat.owed /\ r.approximations = NobodySeat.approximations
    BY <2>1, EmptySeats DEF SeatRecord
  <2>3. /\ GoneSeat.open = FALSE /\ GoneSeat.known = NobodySeat.known
        /\ GoneSeat.can_put = NobodySeat.can_put /\ GoneSeat.over = NobodySeat.over
        /\ GoneSeat.owed = NobodySeat.owed /\ GoneSeat.approximations = NobodySeat.approximations
    BY DEF GoneSeat, NobodySeat
  <2>4. r = GoneSeat
    BY <2>2, <2>3, EmptySeats, SeatEqual
  <2> QED  BY <1>3, <2>1, <2>4, Zenon DEF Session!ClosedSeat
<1> QED  BY <1>1, <1>2, <1>3, <1>4

(* The session of a client that is in the game.                            *)
LEMMA SeatedView ==
    ASSUME AddrInv, NEW g \in DOMAIN players, pc \notin Ended,
           NEW a, a = players[g].addr
    PROVE  /\ SessionOpen(a)
           /\ SessionRequests(a) = client_buffers[g] \o conn[a].inq
           /\ SessionAnswers(a) = Heard(g)
           /\ SessionSeat(a) = SeatOf(g)
<1>1. SessionOpen(a)
  BY DEF AddrInv, Seats, SessionOpen, Ended
<1>2. Seated(a) = {g}
  BY DEF AddrInv, Seats, Seated
<1>3. (CHOOSE fd \in Seated(a) : TRUE) = g /\ Seated(a) # {}
  BY <1>2
<1>4. Told(g) = Heard(g) /\ \A kind : TimesPending(g, kind) = Waits(g, kind)
  BY BookNames
<1>5. players[g].is_known \in BOOLEAN /\ players[g].can_put \in BOOLEAN /\ stopping \in BOOLEAN
  <2>1. GameType
    BY TypeParts DEF AddrInv, StepInv, TypeInv
  <2>2. players[g] \in PlayerInfo /\ stopping \in BOOLEAN
    BY <2>1 DEF GameType
  <2> QED  BY <2>2 DEF PlayerInfo
<1>6. SessionRequests(a) = client_buffers[g] \o conn[a].inq /\ SessionAnswers(a) = Heard(g)
  BY <1>1, <1>3, <1>4 DEF SessionRequests, SessionAnswers
<1>7. /\ (SessionOpen(a) /\ \E fd \in Seated(a) : players[fd].is_known) = players[g].is_known
      /\ (SessionOpen(a) /\ \E fd \in Seated(a) : players[fd].can_put) = players[g].can_put
      /\ (SessionOpen(a) /\ stopping /\ Seated(a) # {}) = stopping
      /\ SessionOpen(a) = TRUE
  BY <1>1, <1>2, <1>3, <1>5
<1>8. Owed(g) = [kind \in {"STATE", "BAD_PUT"} |-> Waits(g, kind)]
  BY <1>4 DEF Owed
<1>9. SessionSeat(a) = SeatOf(g)
  BY <1>1, <1>3, <1>7, <1>8 DEF SessionSeat, SeatOf
<1> QED  BY <1>1, <1>6, <1>9

(* The session of a client that is not, or not yet.                        *)
LEMMA UnseatedView ==
    ASSUME NEW a, Seated(a) = {}, SessionOpen(a)
    PROVE  SessionRequests(a) = <<>> /\ SessionAnswers(a) = <<>> /\ SessionSeat(a) = NobodySeat
<1>1. SessionRequests(a) = <<>> /\ SessionAnswers(a) = <<>>
  BY DEF SessionRequests, SessionAnswers
<1>2. /\ (SessionOpen(a) /\ \E fd \in Seated(a) : players[fd].is_known) = FALSE
      /\ (SessionOpen(a) /\ \E fd \in Seated(a) : players[fd].can_put) = FALSE
      /\ (SessionOpen(a) /\ stopping /\ Seated(a) # {}) = FALSE
      /\ SessionOpen(a) = TRUE
  OBVIOUS
<1> QED  BY <1>1, <1>2 DEF SessionSeat, NobodySeat

(* A session that is over.                                                 *)
LEMMA ClosedView ==
    ASSUME NEW a, ~SessionOpen(a)
    PROVE  SessionRequests(a) = <<>> /\ SessionAnswers(a) = <<>> /\ SessionSeat(a) = GoneSeat
<1>1. SessionRequests(a) = <<>> /\ SessionAnswers(a) = <<>>
  BY DEF SessionRequests, SessionAnswers
<1>2. /\ (SessionOpen(a) /\ \E fd \in Seated(a) : players[fd].is_known) = FALSE
      /\ (SessionOpen(a) /\ \E fd \in Seated(a) : players[fd].can_put) = FALSE
      /\ (SessionOpen(a) /\ stopping /\ Seated(a) # {}) = FALSE
      /\ SessionOpen(a) = FALSE
  OBVIOUS
<1> QED  BY <1>1, <1>2 DEF SessionSeat, GoneSeat

(* The sessions start as ApproxSession does.                               *)
LEMMA SessionsInit ==
    ASSUME Init, NEW a \in Addr
    PROVE  Session(a)!Init
<1>1. Seated(a) = {} /\ SessionOpen(a)
  BY DEF Init, Seated, SessionOpen
<1>2. SessionRequests(a) = <<>> /\ SessionAnswers(a) = <<>> /\ SessionSeat(a) = NobodySeat
  BY <1>1, UnseatedView
<1>3. NobodySeat = Session(a)!NewSeat
  BY SameSession
<1> QED  BY <1>2, <1>3 DEF Session!Init

-----------------------------------------------------------------------------
(* The same before and after a step *)

Shows(a, requests, answers, seat) ==
    /\ SessionRequests(a) = requests
    /\ SessionAnswers(a) = answers
    /\ SessionSeat(a) = seat
Views ==
    /\ AddrInv /\ pc \notin Ended =>
          \A g \in DOMAIN players :
              Shows(players[g].addr, client_buffers[g] \o conn[players[g].addr].inq,
                    Heard(g), SeatOf(g))
    /\ \A a \in Addr : Seated(a) = {} /\ SessionOpen(a) => Shows(a, <<>>, <<>>, NobodySeat)
    /\ \A a \in Addr : ~SessionOpen(a) => Shows(a, <<>>, <<>>, GoneSeat)

(* The three views in one formula, which is true of every state.           *)
LEMMA ViewsHold == Views
<1>1. ASSUME AddrInv, pc \notin Ended, NEW g \in DOMAIN players
      PROVE  Shows(players[g].addr, client_buffers[g] \o conn[players[g].addr].inq,
                   Heard(g), SeatOf(g))
  BY <1>1, SeatedView DEF Shows
<1>2. ASSUME NEW a \in Addr, Seated(a) = {}, SessionOpen(a)
      PROVE  Shows(a, <<>>, <<>>, NobodySeat)
  BY <1>2, UnseatedView DEF Shows
<1>3. ASSUME NEW a \in Addr, ~SessionOpen(a) PROVE Shows(a, <<>>, <<>>, GoneSeat)
  BY <1>3, ClosedView DEF Shows
<1> QED  BY <1>1, <1>2, <1>3 DEF Views

(* The same for the state after a step.                                    *)
LEMMA ViewsHoldNext == Views'
BY ViewsHold, PTL

(* What a step does to the session of an address.                          *)
SessionKept(a) == UNCHANGED <<SessionRequests(a), SessionAnswers(a), SessionSeat(a)>>
SessionStep(a) == UNCHANGED Session(a)!vars \/ Session(a)!Next

(* Nothing, if it leaves the three parts alone.                            *)
LEMMA KeptIsStep ==
    ASSUME NEW a, SessionKept(a)
    PROVE  SessionStep(a)
BY DEF SessionKept, SessionStep, Session!vars

(* A player that stays: its session before and after.                      *)
LEMMA StayingViews ==
    ASSUME AddrInv, AddrInv', pc \notin Ended, pc' \notin Ended,
           NEW g \in DOMAIN players, g \in DOMAIN players', Stays(g),
           NEW a, a = players[g].addr
    PROVE  /\ SessionRequests(a) = client_buffers[g] \o conn[a].inq
           /\ SessionRequests(a)' = client_buffers'[g] \o conn'[a].inq
           /\ SessionAnswers(a) = Heard(g) /\ SessionAnswers(a)' = Heard(g)'
           /\ SessionSeat(a) = SeatOf(g) /\ SessionSeat(a)' = SeatOf(g)'
<1>1. Shows(a, client_buffers[g] \o conn[a].inq, Heard(g), SeatOf(g))
  BY ViewsHold DEF Views
<1>2. Shows(players[g].addr, client_buffers[g] \o conn[players[g].addr].inq,
            Heard(g), SeatOf(g))'
  BY ViewsHoldNext DEF Views
<1>3. players'[g].addr = a
  BY DEF Stays
<1> QED  BY <1>1, <1>2, <1>3 DEF Shows

(* A player that a step leaves alone keeps its seat as it is.              *)
LEMMA KeptSeatOf ==
    ASSUME NEW g, SeatKept(g), stopping' = stopping
    PROVE  SeatOf(g)' = SeatOf(g)
<1>1. /\ players'[g].approximations = players[g].approximations
      /\ players'[g].is_known = players[g].is_known /\ players'[g].can_put = players[g].can_put
  BY DEF SeatKept, SameAccount
<1>2. /\ Waits(g, "STATE")' = Waits(g, "STATE")
      /\ Waits(g, "BAD_PUT")' = Waits(g, "BAD_PUT")
  BY DEF SeatKept, SameWaits, AnswerKind
<1>3. [kind \in {"STATE", "BAD_PUT"} |-> Waits(g, kind)]'
        = [kind \in {"STATE", "BAD_PUT"} |-> Waits(g, kind)]
  BY <1>2
<1> QED  BY <1>1, <1>3 DEF SeatOf

(* And sees nothing of the step.                                           *)
LEMMA KeptSession ==
    ASSUME AddrInv, AddrInv', pc \notin Ended, pc' \notin Ended,
           NEW g \in DOMAIN players, g \in DOMAIN players', SeatKept(g), stopping' = stopping,
           NEW a, a = players[g].addr,
           client_buffers'[g] \o conn'[a].inq = client_buffers[g] \o conn[a].inq
    PROVE  SessionStep(a)
<1>1. Stays(g)
  BY DEF SeatKept, Remains
<1>2. Heard(g)' = Heard(g)
  BY DEF SeatKept
<1>3. SeatOf(g)' = SeatOf(g)
  BY KeptSeatOf
<1>4. SessionKept(a)
  BY <1>1, <1>2, <1>3, StayingViews DEF SessionKept
<1> QED  BY <1>4, KeptIsStep

(* A session that is over after the step was over before, or ends now.     *)
LEMMA EndsSession ==
    ASSUME AddrInv, NEW a \in Addr, ~SessionOpen(a)'
    PROVE  SessionStep(a)
<1>1. /\ SessionRequests(a)' = <<>> /\ SessionAnswers(a)' = <<>>
      /\ SessionSeat(a)' = GoneSeat
  <2>1. Shows(a, <<>>, <<>>, GoneSeat)'
    BY ViewsHoldNext DEF Views
  <2> QED  BY <2>1 DEF Shows, GoneSeat
<1>2. CASE ~SessionOpen(a)
  <2>1. Shows(a, <<>>, <<>>, GoneSeat)
    BY <1>2, ViewsHold DEF Views
  <2>2. SessionKept(a)
    BY <1>1, <2>1 DEF Shows, SessionKept
  <2> QED  BY <2>2, KeptIsStep
<1>3. CASE SessionOpen(a)
  <2>1. SessionAnswers(a) \in Seq(AnswerType) /\ SessionSeat(a).open
    <3>1. CASE Seated(a) = {}
      <4>1. Shows(a, <<>>, <<>>, NobodySeat)
        BY <1>3, <3>1, ViewsHold DEF Views
      <4>2. <<>> \in Seq(AnswerType)
        BY EmptySeq
      <4> QED  BY <4>1, <4>2 DEF Shows, NobodySeat
    <3>2. ASSUME NEW g \in Seated(a) PROVE SessionAnswers(a) \in Seq(AnswerType) /\ SessionSeat(a).open
      <4>1. g \in DOMAIN players /\ players[g].addr = a /\ pc \notin Ended
        BY <1>3, <3>2 DEF Seated, SessionOpen, Ended
      <4>2. Heard(g) \in Seq(AnswerType)
        BY <4>1, BookNames
      <4>3. SessionAnswers(a) = Heard(g) /\ SessionSeat(a) = SeatOf(g)
        BY <4>1, SeatedView
      <4> QED  BY <4>2, <4>3 DEF SeatOf
    <3> QED  BY <3>1, <3>2
  <2>2. Len(SessionAnswers(a)) \in Nat /\ 0 \in 0..Len(SessionAnswers(a))
    BY <2>1, LenProperties
  <2>3. SubSeq(SessionAnswers(a), 1, 0) = <<>>
    BY SubSeqEmpty
  <2>4. GoneSeat = Session(a)!ClosedSeat
    BY SameSession
  <2>5. \E n \in 0..Len(SessionAnswers(a)) :
            SessionAnswers(a)' = SubSeq(SessionAnswers(a), 1, n)
    BY <1>1, <2>2, <2>3
  <2>6. Session(a)!Close
    BY <1>1, <2>1, <2>4, <2>5 DEF Session!Close
  <2> QED  BY <2>6 DEF SessionStep, Session!Next, Session!ServerStep
<1> QED  BY <1>2, <1>3

(* A connection nobody has accepted yet.                                   *)
LEMMA UnseatedSession ==
    ASSUME NEW a \in Addr, Seated(a) = {}, Seated(a)' = {}, SessionOpen(a), SessionOpen(a)'
    PROVE  SessionStep(a)
<1>1. Shows(a, <<>>, <<>>, NobodySeat)
  BY ViewsHold DEF Views
<1>2. Shows(a, <<>>, <<>>, NobodySeat)'
  BY ViewsHoldNext DEF Views
<1>3. SessionKept(a)
  BY <1>1, <1>2 DEF Shows, SessionKept, NobodySeat
<1> QED  BY <1>3, KeptIsStep

-----------------------------------------------------------------------------
(* The seats, and how they change *)

SeatsTyped ==
    AddrInv => \A g \in DOMAIN players :
        /\ SeatOf(g) \in SeatRecord
        /\ SeatOf(g).open /\ SeatOf(g).known = players[g].is_known
        /\ SeatOf(g).can_put = players[g].can_put /\ SeatOf(g).over = stopping
        /\ SeatOf(g).owed = [kind \in {"STATE", "BAD_PUT"} |-> Waits(g, kind)]
        /\ SeatOf(g).approximations = players[g].approximations

(* The fields of a seat.                                                   *)
LEMMA SeatsTypedHold == SeatsTyped
<1> SUFFICES ASSUME AddrInv, NEW g \in DOMAIN players
             PROVE  /\ SeatOf(g) \in SeatRecord
                    /\ SeatOf(g).open /\ SeatOf(g).known = players[g].is_known
                    /\ SeatOf(g).can_put = players[g].can_put /\ SeatOf(g).over = stopping
                    /\ SeatOf(g).owed = [kind \in {"STATE", "BAD_PUT"} |-> Waits(g, kind)]
                    /\ SeatOf(g).approximations = players[g].approximations
  BY DEF SeatsTyped
<1>1. players[g] \in PlayerInfo /\ \A kind : Waits(g, kind) \in Nat
  BY PlayerFacts
<1>2. stopping \in BOOLEAN
  BY TypeParts DEF AddrInv, StepInv, TypeInv, GameType
<1>3. /\ players[g].is_known \in BOOLEAN /\ players[g].can_put \in BOOLEAN
      /\ players[g].approximations \in Approximation
  BY <1>1 DEF PlayerInfo
<1> QED  BY <1>1, <1>2, <1>3 DEF SeatOf, SeatRecord

(* The same after a step.                                                  *)
LEMMA SeatsTypedNext == SeatsTyped'
BY SeatsTypedHold, PTL

(* A player that stays: its seat before and after.                         *)
LEMMA StayingSeats ==
    ASSUME AddrInv, AddrInv', NEW g \in DOMAIN players, g \in DOMAIN players',
           NEW s, s = SeatOf(g), NEW t, t = SeatOf(g)'
    PROVE  /\ s \in SeatRecord /\ s.open /\ s.known = players[g].is_known
           /\ s.can_put = players[g].can_put /\ s.over = stopping
           /\ s.owed = [kind \in {"STATE", "BAD_PUT"} |-> Waits(g, kind)]
           /\ s.approximations = players[g].approximations
           /\ t \in SeatRecord /\ t.open /\ t.known = players'[g].is_known
           /\ t.can_put = players'[g].can_put /\ t.over = stopping'
           /\ t.owed = [kind \in {"STATE", "BAD_PUT"} |-> Waits(g, kind)']
           /\ t.approximations = players'[g].approximations
BY SeatsTypedHold, SeatsTypedNext DEF SeatsTyped

(* HELLO, as a change of the seat.                                         *)
LEMMA KnownSeat ==
    ASSUME NEW s \in SeatRecord, NEW t \in SeatRecord,
           t.open = s.open, t.known, t.can_put, t.over = s.over, t.owed = s.owed,
           t.approximations = s.approximations
    PROVE  t = [s EXCEPT !.known = TRUE, !.can_put = TRUE]
<1>1. PICK r : r = [s EXCEPT !.known = TRUE, !.can_put = TRUE]
  OBVIOUS
<1>2. /\ r \in SeatRecord /\ r.open = s.open /\ r.known = TRUE /\ r.can_put = TRUE
      /\ r.over = s.over /\ r.owed = s.owed /\ r.approximations = s.approximations
  BY <1>1 DEF SeatRecord
<1>3. t.known = TRUE /\ t.can_put = TRUE
  BY DEF SeatRecord
<1>4. t = r
  BY <1>2, <1>3, SeatEqual
<1> QED  BY <1>1, <1>4, Zenon

(* A PUT that is refused, with n answers BAD_PUT owed now.                 *)
LEMMA RefusedSeat ==
    ASSUME NEW s \in SeatRecord, NEW t \in SeatRecord, NEW n \in Nat,
           t.open = s.open, t.known = s.known, ~t.can_put, t.over = s.over,
           t.owed = [s.owed EXCEPT !["BAD_PUT"] = n], t.approximations = s.approximations
    PROVE  t = [s EXCEPT !.can_put = FALSE, !.owed["BAD_PUT"] = n]
<1>1. PICK r : r = [s EXCEPT !.can_put = FALSE, !.owed["BAD_PUT"] = n]
  OBVIOUS
<1>2. /\ r \in SeatRecord /\ r.open = s.open /\ r.known = s.known /\ r.can_put = FALSE
      /\ r.over = s.over /\ r.owed = [s.owed EXCEPT !["BAD_PUT"] = n]
      /\ r.approximations = s.approximations
  BY <1>1 DEF SeatRecord
<1>3. t.can_put = FALSE
  BY DEF SeatRecord
<1>4. t = r
  BY <1>2, <1>3, SeatEqual
<1> QED  BY <1>1, <1>4, Zenon

(* A PUT that is taken, with n STATEs owed now.                            *)
TakenAs(s, t, n, last, f) ==
    t = [s EXCEPT !.can_put = FALSE, !.owed["STATE"] = n, !.over = last, !.approximations = f]

(* The STATE is owed, and the other fields are as before.                  *)
LEMMA TakenSeat ==
    ASSUME NEW s \in SeatRecord, NEW t \in SeatRecord, NEW n \in Nat, NEW last \in BOOLEAN,
           NEW f \in Approximation, t.open = s.open, t.known = s.known, ~t.can_put,
           t.over = last, t.owed = [s.owed EXCEPT !["STATE"] = n], t.approximations = f
    PROVE  TakenAs(s, t, n, last, f)
<1>1. PICK r : r = [s EXCEPT !.can_put = FALSE, !.owed["STATE"] = n, !.over = last,
                             !.approximations = f]
  OBVIOUS
<1>2. /\ r \in SeatRecord /\ r.open = s.open /\ r.known = s.known /\ r.can_put = FALSE
      /\ r.over = last /\ r.owed = [s.owed EXCEPT !["STATE"] = n]
      /\ r.approximations = f
  BY <1>1 DEF SeatRecord
<1>3. t.can_put = FALSE
  BY DEF SeatRecord
<1>4. t = r
  BY <1>2, <1>3, SeatEqual
<1> QED  BY <1>1, <1>4, Zenon DEF TakenAs

(* A delayed answer, with n of its kind owed still.                        *)
ServedAs(s, t, kind, n) == t = [s EXCEPT !.owed[kind] = n, !.can_put = TRUE]

(* It is owed no longer, and the other fields are as before.               *)
LEMMA ServedSeat ==
    ASSUME NEW s \in SeatRecord, NEW t \in SeatRecord, NEW kind \in AnswerKind, NEW n \in Nat,
           t.open = s.open, t.known = s.known, t.can_put, t.over = s.over,
           t.owed = [s.owed EXCEPT ![kind] = n], t.approximations = s.approximations
    PROVE  ServedAs(s, t, kind, n)
<1>1. PICK r : r = [s EXCEPT !.owed[kind] = n, !.can_put = TRUE]
  OBVIOUS
<1>2. /\ r \in SeatRecord /\ r.open = s.open /\ r.known = s.known /\ r.can_put = TRUE
      /\ r.over = s.over /\ r.owed = [s.owed EXCEPT ![kind] = n]
      /\ r.approximations = s.approximations
  BY <1>1 DEF SeatRecord, AnswerKind
<1>3. t.can_put = TRUE
  BY DEF SeatRecord
<1>4. t = r
  BY <1>2, <1>3, SeatEqual
<1> QED  BY <1>1, <1>4, Zenon DEF ServedAs

(* The end of the game.                                                    *)
LEMMA OverSeat ==
    ASSUME NEW s \in SeatRecord, NEW t \in SeatRecord,
           t.open = s.open, t.known = s.known, t.can_put = s.can_put, t.over,
           t.owed = s.owed, t.approximations = s.approximations
    PROVE  t = [s EXCEPT !.over = TRUE]
<1>1. PICK r : r = [s EXCEPT !.over = TRUE]
  OBVIOUS
<1>2. /\ r \in SeatRecord /\ r.open = s.open /\ r.known = s.known /\ r.can_put = s.can_put
      /\ r.over = TRUE /\ r.owed = s.owed /\ r.approximations = s.approximations
  BY <1>1 DEF SeatRecord
<1>3. t.over = TRUE
  BY DEF SeatRecord
<1>4. t = r
  BY <1>2, <1>3, SeatEqual
<1> QED  BY <1>1, <1>4, Zenon

-----------------------------------------------------------------------------
(* The steps of a session *)

(* The first line of the buffer is the first one the client has sent.      *)
LEMMA FirstLine ==
    ASSUME NEW S, NEW b \in Seq(S), NEW q \in Seq(S), b # <<>>
    PROVE  b \o q # <<>> /\ Head(b \o q) = Head(b) /\ Tail(b \o q) = Tail(b) \o q
<1> DEFINE c == b \o q
           r == Tail(b)
           d == r \o q
           e == Tail(c)
<1>1. /\ c \in Seq(S) /\ Len(c) = Len(b) + Len(q) /\ Len(b) \in Nat \ {0} /\ Len(q) \in Nat
      /\ \A k \in 1..(Len(b) + Len(q)) : c[k] = IF k <= Len(b) THEN b[k] ELSE q[k - Len(b)]
  BY ConcatProperties, LenProperties, EmptySeq
<1>2. /\ r \in Seq(S) /\ Len(r) = Len(b) - 1 /\ Head(b) = b[1]
      /\ \A k \in 1..Len(r) : r[k] = b[k + 1]
  BY HeadTailProperties
<1> HIDE DEF c, r
<1>3. c # <<>>
  BY <1>1, EmptySeq
<1>4. /\ e \in Seq(S) /\ Len(e) = Len(c) - 1 /\ Head(c) = c[1]
      /\ \A k \in 1..Len(e) : e[k] = c[k + 1]
  BY <1>1, <1>3, HeadTailProperties
<1>5. /\ d \in Seq(S) /\ Len(d) = Len(r) + Len(q)
      /\ \A k \in 1..(Len(r) + Len(q)) : d[k] = IF k <= Len(r) THEN r[k] ELSE q[k - Len(r)]
  BY <1>2, ConcatProperties
<1> HIDE DEF d, e
<1>6. Head(c) = Head(b)
  BY <1>1, <1>2, <1>4
<1>7. ASSUME NEW k \in 1..Len(e) PROVE e[k] = d[k]
  <2>1. /\ k \in 1..(Len(r) + Len(q)) /\ k + 1 \in 1..(Len(b) + Len(q))
        /\ k + 1 <= Len(b) <=> k <= Len(r)
        /\ (k + 1) - Len(b) = k - Len(r)
    BY <1>1, <1>2, <1>4
  <2>2. e[k] = IF k + 1 <= Len(b) THEN b[k + 1] ELSE q[(k + 1) - Len(b)]
    BY <1>1, <1>4, <2>1
  <2>3. d[k] = IF k <= Len(r) THEN r[k] ELSE q[k - Len(r)]
    BY <1>5, <2>1
  <2>4. k <= Len(r) => r[k] = b[k + 1]
    BY <1>1, <1>2, <2>1
  <2> QED  BY <2>1, <2>2, <2>3, <2>4
<1>8. Len(e) = Len(d)
  BY <1>1, <1>2, <1>4, <1>5
<1>9. e = d
  BY <1>4, <1>5, <1>7, <1>8, SeqEqual
<1> QED  BY <1>3, <1>6, <1>9 DEF c, d, e, r

(* The server takes the first line of a session.                           *)
LEMMA TakesLine ==
    ASSUME AddrInv, AddrInv', NEW fd, NEW line, Takes(fd, line), TakeLine(fd),
           UNCHANGED <<conn, pc>>, fd \in DOMAIN players', Stays(fd),
           NEW a, a = players[fd].addr
    PROVE  /\ Session(a)!Takes /\ Session(a)!Line = line
           /\ fd \in DOMAIN players /\ pc \notin Ended /\ ~stopping
<1>1. TypeInv /\ PollType /\ KernelType
  BY TypeParts DEF AddrInv, StepInv, TypeInv
<1>2. /\ fd \in DOMAIN players /\ fd \in FD /\ a \in Addr /\ pc = "read" /\ ~stopping
      /\ client_buffers[fd] \in Seq(ClientLine) /\ client_buffers[fd] # <<>>
      /\ line = Head(client_buffers[fd])
  BY <1>1, TakesPlayer
<1>3. conn[a].inq \in Seq(ClientLine)
  BY <1>1, <1>2 DEF KernelType, Connection
<1>4. client_buffers'[fd] = Tail(client_buffers[fd])
  BY <1>1, <1>2 DEF TakeLine, PollType
<1>5. pc \notin Ended /\ pc' \notin Ended
  BY <1>2 DEF Ended
<1>6. /\ SessionRequests(a) = client_buffers[fd] \o conn[a].inq
      /\ SessionRequests(a)' = client_buffers'[fd] \o conn'[a].inq
      /\ SessionSeat(a) = SeatOf(fd)
  BY <1>2, <1>5, StayingViews
<1>7. /\ SessionRequests(a) # <<>> /\ Head(SessionRequests(a)) = line
      /\ SessionRequests(a)' = Tail(SessionRequests(a))
  <2>1. PICK b \in Seq(ClientLine), q \in Seq(ClientLine) :
             b = client_buffers[fd] /\ q = conn[a].inq
    BY <1>2, <1>3
  <2>2. b \o q # <<>> /\ Head(b \o q) = Head(b) /\ Tail(b \o q) = Tail(b) \o q
    BY <1>2, <2>1, FirstLine
  <2> QED  BY <1>2, <1>4, <1>6, <2>1, <2>2
<1>8. SessionSeat(a).open /\ ~SessionSeat(a).over
  BY <1>2, <1>6, SeatsTypedHold DEF SeatsTyped
<1>9. Session(a)!Takes /\ Session(a)!Line = line
  BY <1>7, <1>8 DEF Session!Takes, Session!Serves, Session!Line
<1> QED  BY <1>2, <1>5, <1>9

(* HELLO.                                                                  *)
LEMMA HelloSession ==
    ASSUME AddrInv, AddrInv', NEW fd \in FD, NEW id \in PlayerId, ReadHello(fd, id),
           sent' = sent, NEW a, a = players[fd].addr
    PROVE  SessionStep(a)
<1>1. fd \in DOMAIN players /\ DOMAIN players' = DOMAIN players /\ SeatHello(fd)
  BY HelloSeats
<1>2. Stays(fd) /\ SameWaits(fd)
  BY <1>1 DEF SeatHello, Remains
<1>3. /\ Takes(fd, <<"HELLO", id>>) /\ TakeLine(fd)
      /\ UNCHANGED <<conn, pc, stopping>>
  BY DEF ReadHello
<1>4. Session(a)!Takes /\ Session(a)!Line = <<"HELLO", id>> /\ pc \notin Ended /\ pc' \notin Ended
  BY <1>1, <1>2, <1>3, TakesLine
<1>5. /\ SessionAnswers(a) = Heard(fd) /\ SessionAnswers(a)' = Heard(fd)'
      /\ SessionSeat(a) = SeatOf(fd) /\ SessionSeat(a)' = SeatOf(fd)'
  BY <1>1, <1>2, <1>4, StayingViews
<1>6. PICK s, t : s = SeatOf(fd) /\ t = SeatOf(fd)'
  OBVIOUS
<1>7. /\ s \in SeatRecord /\ s.open /\ s.known = players[fd].is_known /\ s.over = stopping
      /\ s.owed = [kind \in {"STATE", "BAD_PUT"} |-> Waits(fd, kind)]
      /\ s.approximations = players[fd].approximations
      /\ t \in SeatRecord /\ t.open /\ t.known = players'[fd].is_known
      /\ t.can_put = players'[fd].can_put /\ t.over = stopping'
      /\ t.owed = [kind \in {"STATE", "BAD_PUT"} |-> Waits(fd, kind)']
      /\ t.approximations = players'[fd].approximations
  BY <1>1, <1>6, StayingSeats
<1>8. /\ ~players[fd].is_known /\ players'[fd].is_known /\ players'[fd].can_put
      /\ players'[fd].approximations = players[fd].approximations
      /\ Heard(fd)' = Append(Heard(fd), "COEFF")
  BY <1>1 DEF SeatHello, SameAccount
<1>9. /\ t.owed = s.owed /\ t.open = s.open /\ t.over = s.over
      /\ t.approximations = s.approximations /\ t.known /\ t.can_put /\ ~s.known
  BY <1>2, <1>3, <1>7, <1>8 DEF SameWaits, AnswerKind, SeatRecord
<1>10. t = [s EXCEPT !.known = TRUE, !.can_put = TRUE]
  BY <1>7, <1>9, KnownSeat, Zenon
<1>11. Session(a)!TakeHello
  <2>1. <<"HELLO", id>>[1] = "HELLO"
    OBVIOUS
  <2> QED  BY <1>4, <1>5, <1>6, <1>8, <1>9, <1>10, <2>1 DEF Session!TakeHello
<1> QED  BY <1>11 DEF SessionStep, Session!Next, Session!ServerStep, Session!TakeLine

(* A PUT that is early or out of range.                                    *)
LEMMA RejectedSession ==
    ASSUME AddrInv, AddrInv', NEW fd \in FD, NEW p \in Points, NEW v \in Values,
           ReadRejectedPut(fd, p, v), sent' = sent, NEW a, a = players[fd].addr
    PROVE  SessionStep(a)
<1>1. /\ fd \in DOMAIN players /\ DOMAIN players' = DOMAIN players
      /\ \E early, bad \in BOOLEAN : (bad <=> OutOfRange(p, v)) /\ SeatRejected(fd, early, bad)
  BY RejectedSeats
<1>2. PICK early \in BOOLEAN, bad \in BOOLEAN :
           (bad <=> OutOfRange(p, v)) /\ SeatRejected(fd, early, bad)
  BY <1>1
<1>3. /\ Stays(fd) /\ players[fd].is_known /\ players'[fd].is_known /\ (early \/ bad)
      /\ early <=> ~players[fd].can_put
      /\ ~players'[fd].can_put /\ players'[fd].approximations = players[fd].approximations
      /\ Heard(fd)' = IF early THEN Append(Heard(fd), "PENALTY") ELSE Heard(fd)
      /\ Waits(fd, "STATE")' = Waits(fd, "STATE")
      /\ Waits(fd, "BAD_PUT")' = Waits(fd, "BAD_PUT") + (IF bad THEN 1 ELSE 0)
  BY <1>2 DEF SeatRejected, Remains, BothKnown
<1>4. /\ Takes(fd, <<"PUT", p, v>>) /\ TakeLine(fd)
      /\ UNCHANGED <<conn, pc, stopping>>
  BY DEF ReadRejectedPut
<1>5. Session(a)!Takes /\ Session(a)!Line = <<"PUT", p, v>> /\ pc \notin Ended /\ pc' \notin Ended
  BY <1>1, <1>3, <1>4, TakesLine
<1>6. /\ SessionAnswers(a) = Heard(fd) /\ SessionAnswers(a)' = Heard(fd)'
      /\ SessionSeat(a) = SeatOf(fd) /\ SessionSeat(a)' = SeatOf(fd)'
  BY <1>1, <1>3, <1>5, StayingViews
<1>7. PICK s, t : s = SeatOf(fd) /\ t = SeatOf(fd)'
  OBVIOUS
<1>8. /\ s \in SeatRecord /\ s.open /\ s.known = players[fd].is_known /\ s.over = stopping
      /\ s.can_put = players[fd].can_put
      /\ s.owed = [kind \in {"STATE", "BAD_PUT"} |-> Waits(fd, kind)]
      /\ s.approximations = players[fd].approximations
      /\ t \in SeatRecord /\ t.open /\ t.known = players'[fd].is_known
      /\ t.can_put = players'[fd].can_put /\ t.over = stopping'
      /\ t.owed = [kind \in {"STATE", "BAD_PUT"} |-> Waits(fd, kind)']
      /\ t.approximations = players'[fd].approximations
  BY <1>1, <1>7, StayingSeats
<1>9. PICK n : n = IF bad THEN s.owed["BAD_PUT"] + 1 ELSE s.owed["BAD_PUT"]
  OBVIOUS
<1>10. n \in Nat /\ t.owed = [s.owed EXCEPT !["BAD_PUT"] = n]
  <2>1. s.owed["BAD_PUT"] = Waits(fd, "BAD_PUT") /\ s.owed["BAD_PUT"] \in Nat
    BY <1>8 DEF SeatRecord
  <2>2. n \in Nat /\ n = Waits(fd, "BAD_PUT")'
    BY <1>3, <1>9, <2>1
  <2> QED  BY <1>3, <1>8, <2>2
<1>11. /\ t.open = s.open /\ t.known = s.known /\ t.over = s.over /\ ~t.can_put
       /\ t.approximations = s.approximations /\ s.known /\ (early <=> ~s.can_put)
  BY <1>3, <1>4, <1>8 DEF SeatRecord
<1>12. t = [s EXCEPT !.can_put = FALSE, !.owed["BAD_PUT"] = n]
  BY <1>8, <1>10, <1>11, RefusedSeat, Zenon
<1>13. Session(a)!OutOfRange(p, v) <=> bad
  BY <1>2, SameSession
<1>14. n = IF Session(a)!OutOfRange(p, v) THEN s.owed["BAD_PUT"] + 1 ELSE s.owed["BAD_PUT"]
  BY <1>9, <1>13
<1>15. t = [s EXCEPT !.can_put = FALSE,
                     !.owed["BAD_PUT"] = IF Session(a)!OutOfRange(p, v)
                                         THEN s.owed["BAD_PUT"] + 1 ELSE s.owed["BAD_PUT"]]
  BY <1>12, <1>14, Zenon
<1>16. SessionAnswers(a)' = IF s.can_put THEN SessionAnswers(a)
                           ELSE Append(SessionAnswers(a), "PENALTY")
  BY <1>3, <1>6, <1>11
<1>17. PICK line : line = <<"PUT", p, v>>
  OBVIOUS
<1>18. line[1] = "PUT" /\ line[2] = p /\ line[3] = v /\ Session(a)!Line = line
  BY <1>5, <1>17
<1>19. SessionSeat(a) = s /\ SessionSeat(a)' = t
  BY <1>6, <1>7
<1>20. Session(a)!TakeRejectedPut
  <2>1. ~s.can_put \/ Session(a)!OutOfRange(p, v)
    BY <1>3, <1>11, <1>13
  <2>2. /\ Session(a)!Takes /\ Session(a)!Line[1] = "PUT" /\ SessionSeat(a).known
    BY <1>5, <1>11, <1>18, <1>19
  <2>3. Session(a)!Line[2] = p /\ Session(a)!Line[3] = v
    BY <1>18
  <2> QED  BY <1>15, <1>16, <1>19, <2>1, <2>2, <2>3 DEF Session!TakeRejectedPut
<1> QED  BY <1>20 DEF SessionStep, Session!Next, Session!ServerStep, Session!TakeLine

(* A correct PUT, for the player that sent it.                             *)
LEMMA PutSession ==
    ASSUME AddrInv, AddrInv', NEW fd \in FD, NEW p \in Points, NEW v \in Values,
           ReadPut(fd, p, v), sent' = sent, NEW a, a = players[fd].addr
    PROVE  SessionStep(a)
<1>1. /\ fd \in DOMAIN players /\ DOMAIN players' = DOMAIN players /\ stopping' \in BOOLEAN
      /\ SeatPut(fd) /\ players'[fd].approximations = Put(players[fd].approximations, p, v)
  BY PutSeats
<1>2. /\ Stays(fd) /\ players[fd].is_known /\ players'[fd].is_known /\ ~players'[fd].can_put
      /\ Heard(fd)' = IF stopping' THEN Append(Heard(fd), "SCORING") ELSE Heard(fd)
      /\ Waits(fd, "STATE")' = Waits(fd, "STATE") + 1
      /\ Waits(fd, "BAD_PUT")' = Waits(fd, "BAD_PUT")
  BY <1>1 DEF SeatPut, Remains, BothKnown
<1>3. /\ Takes(fd, <<"PUT", p, v>>) /\ TakeLine(fd) /\ UNCHANGED <<conn, pc>>
      /\ players[fd].can_put /\ ~OutOfRange(p, v)
  BY DEF ReadPut
<1>4. Session(a)!Takes /\ Session(a)!Line = <<"PUT", p, v>> /\ pc \notin Ended /\ pc' \notin Ended
  BY <1>1, <1>2, <1>3, TakesLine
<1>5. /\ SessionAnswers(a) = Heard(fd) /\ SessionAnswers(a)' = Heard(fd)'
      /\ SessionSeat(a) = SeatOf(fd) /\ SessionSeat(a)' = SeatOf(fd)'
  BY <1>1, <1>2, <1>4, StayingViews
<1>6. PICK s, t : s = SeatOf(fd) /\ t = SeatOf(fd)'
  OBVIOUS
<1>7. /\ s \in SeatRecord /\ s.open /\ s.known = players[fd].is_known
      /\ s.can_put = players[fd].can_put
      /\ s.owed = [kind \in {"STATE", "BAD_PUT"} |-> Waits(fd, kind)]
      /\ s.approximations = players[fd].approximations
      /\ t \in SeatRecord /\ t.open /\ t.known = players'[fd].is_known
      /\ t.can_put = players'[fd].can_put /\ t.over = stopping'
      /\ t.owed = [kind \in {"STATE", "BAD_PUT"} |-> Waits(fd, kind)']
      /\ t.approximations = players'[fd].approximations
  BY <1>1, <1>6, StayingSeats
<1>8. PICK last \in BOOLEAN : last = stopping'
  BY <1>1
<1>9. PICK n, f : n = s.owed["STATE"] + 1 /\ f = Put(s.approximations, p, v)
  OBVIOUS
<1>10. n \in Nat /\ t.owed = [s.owed EXCEPT !["STATE"] = n]
  <2>1. s.owed["STATE"] = Waits(fd, "STATE") /\ s.owed["STATE"] \in Nat
    BY <1>7 DEF SeatRecord
  <2>2. n \in Nat /\ n = Waits(fd, "STATE")'
    BY <1>2, <1>9, <2>1
  <2> QED  BY <1>2, <1>7, <2>2
<1>11. /\ t.open = s.open /\ t.known = s.known /\ t.over = last /\ ~t.can_put
       /\ t.approximations = f /\ f \in Approximation /\ s.known /\ s.can_put
  BY <1>1, <1>2, <1>3, <1>7, <1>8, <1>9 DEF SeatRecord
<1>12. TakenAs(s, t, n, last, f)
  <2>1. s \in SeatRecord /\ t \in SeatRecord /\ n \in Nat /\ f \in Approximation
    BY <1>7, <1>10, <1>11
  <2>2. t.owed = [s.owed EXCEPT !["STATE"] = n]
    BY <1>10
  <2> QED  BY <1>11, <2>1, <2>2, TakenSeat, Zenon
<1>13. /\ ~Session(a)!OutOfRange(p, v)
       /\ f = Session(a)!Put(s.approximations, p, v)
  BY <1>3, <1>9, SameSession
<1>14. t = [s EXCEPT !.can_put = FALSE, !.owed["STATE"] = s.owed["STATE"] + 1, !.over = last,
                     !.approximations = Session(a)!Put(s.approximations, p, v)]
  BY <1>9, <1>12, <1>13, Zenon DEF TakenAs
<1>15. SessionAnswers(a)' = IF last THEN Append(SessionAnswers(a), "SCORING")
                            ELSE SessionAnswers(a)
  BY <1>2, <1>5, <1>8
<1>16. PICK line : line = <<"PUT", p, v>>
  OBVIOUS
<1>17. line[1] = "PUT" /\ line[2] = p /\ line[3] = v /\ Session(a)!Line = line
  BY <1>4, <1>16
<1>18. SessionSeat(a) = s /\ SessionSeat(a)' = t
  BY <1>5, <1>6
<1>19. Session(a)!TakePut(last)
  <2>1. /\ Session(a)!Takes /\ Session(a)!Line[1] = "PUT" /\ SessionSeat(a).known
        /\ SessionSeat(a).can_put
    BY <1>4, <1>11, <1>17, <1>18
  <2>2. Session(a)!Line[2] = p /\ Session(a)!Line[3] = v
    BY <1>17
  <2> QED  BY <1>13, <1>14, <1>15, <1>18, <2>1, <2>2 DEF Session!TakePut
<1> QED  BY <1>19 DEF SessionStep, Session!Next, Session!ServerStep, Session!TakeLine

(* A correct PUT, for the others: it may have been the last one.           *)
LEMMA WatchingSession ==
    ASSUME AddrInv, AddrInv', pc \notin Ended, pc' \notin Ended, ~stopping,
           NEW g \in DOMAIN players, g \in DOMAIN players', SeatWatches(g),
           stopping' \in BOOLEAN, NEW a, a = players[g].addr,
           client_buffers'[g] \o conn'[a].inq = client_buffers[g] \o conn[a].inq
    PROVE  SessionStep(a)
<1>1. /\ Remains(g) /\ Stays(g) /\ SameAccount(g) /\ SameWaits(g)
      /\ players'[g].is_known = players[g].is_known
      /\ players'[g].can_put = players[g].can_put
      /\ Heard(g)' = IF stopping' /\ players[g].is_known THEN Append(Heard(g), "SCORING")
                     ELSE Heard(g)
      /\ Waits(g, "HELLO")' = Waits(g, "HELLO")
  BY DEF SeatWatches, Remains
<1>2. CASE ~stopping'
  <2>1. SeatKept(g) /\ stopping' = stopping
    <3>1. stopping \in BOOLEAN
      BY TypeParts DEF AddrInv, StepInv, TypeInv, GameType
    <3> QED  BY <1>1, <1>2, <3>1 DEF SeatKept
  <2> QED  BY <2>1, KeptSession
<1>3. CASE stopping'
  <2>1. /\ SessionRequests(a)' = SessionRequests(a)
        /\ SessionAnswers(a) = Heard(g) /\ SessionAnswers(a)' = Heard(g)'
        /\ SessionSeat(a) = SeatOf(g) /\ SessionSeat(a)' = SeatOf(g)'
    BY <1>1, StayingViews
  <2>2. PICK s, t : s = SeatOf(g) /\ t = SeatOf(g)'
    OBVIOUS
  <2>3. /\ s \in SeatRecord /\ s.open /\ s.known = players[g].is_known
        /\ s.can_put = players[g].can_put /\ s.over = stopping
        /\ s.owed = [kind \in {"STATE", "BAD_PUT"} |-> Waits(g, kind)]
        /\ s.approximations = players[g].approximations
        /\ t \in SeatRecord /\ t.open /\ t.known = players'[g].is_known
        /\ t.can_put = players'[g].can_put /\ t.over = stopping'
        /\ t.owed = [kind \in {"STATE", "BAD_PUT"} |-> Waits(g, kind)']
        /\ t.approximations = players'[g].approximations
    BY <2>2, StayingSeats
  <2>4. /\ t.owed = s.owed /\ t.open = s.open /\ t.known = s.known
        /\ t.can_put = s.can_put /\ t.approximations = s.approximations /\ t.over /\ ~s.over
    BY <1>1, <1>3, <2>3 DEF SameWaits, SameAccount, AnswerKind, SeatRecord
  <2>5. t = [s EXCEPT !.over = TRUE]
    BY <2>3, <2>4, OverSeat, Zenon
  <2>6. SessionSeat(a) = s /\ SessionSeat(a)' = t
    BY <2>1, <2>2
  <2>7. SessionAnswers(a)' = IF s.known THEN Append(SessionAnswers(a), "SCORING")
                             ELSE SessionAnswers(a)
    BY <1>1, <1>3, <2>1, <2>3
  <2>8. Session(a)!GameOver
    BY <2>1, <2>3, <2>4, <2>5, <2>6, <2>7 DEF Session!GameOver, Session!Serves
  <2> QED  BY <2>8 DEF SessionStep, Session!Next, Session!ServerStep
<1> QED  BY <1>2, <1>3

(* A delayed answer.                                                       *)
LEMMA AnsweredSession ==
    ASSUME AddrInv, AddrInv', AnswerEvent, ~stopping,
           NEW g \in DOMAIN players, g \in DOMAIN players',
           NEW kind \in AnswerKind, SeatAnswered(g, kind), NEW a, a = players[g].addr
    PROVE  SessionStep(a)
<1>1. /\ Stays(g) /\ SameAccount(g) /\ players[g].is_known /\ players'[g].is_known
      /\ players'[g].can_put /\ Heard(g)' = Append(Heard(g), kind)
      /\ \A other \in AnswerKind :
            Waits(g, other) = Waits(g, other)' + (IF other = kind THEN 1 ELSE 0)
  BY DEF SeatAnswered, Remains, BothKnown
<1>2. /\ UNCHANGED <<conn, client_buffers, stopping>>
      /\ pc \notin Ended /\ pc' \notin Ended
  BY DEF AnswerEvent, pollVars, Ended
<1>3. /\ SessionRequests(a)' = SessionRequests(a)
      /\ SessionAnswers(a) = Heard(g) /\ SessionAnswers(a)' = Heard(g)'
      /\ SessionSeat(a) = SeatOf(g) /\ SessionSeat(a)' = SeatOf(g)'
  BY <1>1, <1>2, StayingViews
<1>4. PICK s, t : s = SeatOf(g) /\ t = SeatOf(g)'
  OBVIOUS
<1>5. /\ s \in SeatRecord /\ s.open /\ s.known = players[g].is_known /\ s.over = stopping
      /\ s.owed = [k \in {"STATE", "BAD_PUT"} |-> Waits(g, k)]
      /\ s.approximations = players[g].approximations
      /\ t \in SeatRecord /\ t.open /\ t.known = players'[g].is_known
      /\ t.can_put = players'[g].can_put /\ t.over = stopping'
      /\ t.owed = [k \in {"STATE", "BAD_PUT"} |-> Waits(g, k)']
      /\ t.approximations = players'[g].approximations
  BY <1>4, StayingSeats
<1>6. PICK n : n = s.owed[kind] - 1
  OBVIOUS
<1>7. n \in Nat /\ s.owed[kind] > 0 /\ t.owed = [s.owed EXCEPT ![kind] = n]
  <2>1. s.owed[kind] = Waits(g, kind) /\ s.owed[kind] \in Nat /\ t.owed[kind] = Waits(g, kind)'
        /\ t.owed[kind] \in Nat
    BY <1>5 DEF SeatRecord, AnswerKind
  <2>2. Waits(g, kind) = Waits(g, kind)' + 1
    BY <1>1
  <2>3. n \in Nat /\ s.owed[kind] > 0 /\ t.owed[kind] = n
    BY <1>6, <2>1, <2>2
  <2>4. ASSUME NEW other \in AnswerKind, other # kind PROVE t.owed[other] = s.owed[other]
    <3>1. s.owed[other] = Waits(g, other) /\ t.owed[other] = Waits(g, other)'
          /\ t.owed[other] \in Nat
      BY <1>5 DEF SeatRecord, AnswerKind
    <3> QED  BY <1>1, <2>4, <3>1
  <2>5. s.owed \in [AnswerKind -> Nat] /\ t.owed \in [AnswerKind -> Nat]
    BY <1>5 DEF SeatRecord, AnswerKind
  <2> QED  BY <2>3, <2>4, <2>5
<1>8. /\ t.open = s.open /\ t.known = s.known /\ t.over = s.over /\ t.can_put
      /\ t.approximations = s.approximations /\ ~s.over
  BY <1>1, <1>2, <1>5 DEF SameAccount, SeatRecord
<1>9. ServedAs(s, t, kind, n)
  BY <1>5, <1>7, <1>8, ServedSeat
<1>10. t = [s EXCEPT !.owed[kind] = s.owed[kind] - 1, !.can_put = TRUE]
  BY <1>6, <1>9, Zenon DEF ServedAs
<1>11. SessionSeat(a) = s /\ SessionSeat(a)' = t
  BY <1>3, <1>4
<1>12. Session(a)!Answer(kind)
  BY <1>1, <1>3, <1>5, <1>7, <1>8, <1>10, <1>11 DEF Session!Answer, Session!Serves
<1> QED  BY <1>12 DEF SessionStep, Session!Next, Session!ServerStep, AnswerKind

(* A line is sent, or is ignored.                                          *)
LEMMA SentSession ==
    ASSUME AddrInv, AddrInv', NEW b \in Addr, NEW line \in ClientLine, SendLine(b, line),
           NEW g \in DOMAIN players, g \in DOMAIN players', SeatKept(g), stopping' = stopping,
           NEW a, a = players[g].addr
    PROVE  SessionStep(a)
<1>1. Stays(g)
  BY DEF SeatKept, Remains
<1>2. /\ pc = "poll" /\ pc' = "poll" /\ conn' = [conn EXCEPT ![b].inq = Append(@, line)]
      /\ client_buffers' = client_buffers
  BY DEF SendLine, pollVars
<1>3. pc \notin Ended /\ pc' \notin Ended
  BY <1>2 DEF Ended
<1>4. /\ KernelType /\ PollType /\ g \in FD /\ a \in Addr
  <2>1. GameType /\ KernelType /\ PollType
    BY TypeParts DEF AddrInv, StepInv, TypeInv
  <2> QED  BY <2>1, PlayerFacts DEF GameType
<1>5. conn[a].inq \in Seq(ClientLine) /\ client_buffers[g] \in Seq(ClientLine)
  BY <1>4 DEF KernelType, PollType, Connection
<1>6. CASE b # a
  <2>1. conn'[a] = conn[a]
    BY <1>2, <1>4, <1>6 DEF KernelType
  <2> QED  BY <1>2, <1>3, <2>1, KeptSession
<1>7. CASE b = a
  <2>1. conn'[a].inq = Append(conn[a].inq, line)
    BY <1>2, <1>4, <1>7 DEF KernelType, Connection
  <2>2. PICK x \in Seq(ClientLine), y \in Seq(ClientLine) :
             x = client_buffers[g] /\ y = conn[a].inq
    BY <1>5
  <2>3. x \o Append(y, line) = Append(x \o y, line)
    <3>1. x \o (y \o <<line>>) = (x \o y) \o <<line>>
      BY ConcatAssociative
    <3>2. Append(y, line) = y \o <<line>> /\ x \o y \in Seq(ClientLine)
      BY AppendIsConcat, ConcatProperties
    <3>3. Append(x \o y, line) = (x \o y) \o <<line>>
      BY <3>2, AppendIsConcat
    <3> QED  BY <3>1, <3>2, <3>3
  <2>4. /\ SessionRequests(a) = client_buffers[g] \o conn[a].inq
        /\ SessionRequests(a)' = client_buffers'[g] \o conn'[a].inq
        /\ SessionAnswers(a) = Heard(g) /\ SessionAnswers(a)' = Heard(g)'
        /\ SessionSeat(a) = SeatOf(g) /\ SessionSeat(a)' = SeatOf(g)'
    BY <1>1, <1>3, StayingViews
  <2>5. SessionRequests(a)' = Append(SessionRequests(a), line)
    BY <1>2, <2>1, <2>2, <2>3, <2>4
  <2>6. Heard(g)' = Heard(g) /\ SeatOf(g)' = SeatOf(g)
    BY KeptSeatOf DEF SeatKept
  <2>7. Session(a)!SendLine(line)
    BY <2>4, <2>5, <2>6 DEF Session!SendLine
  <2>8. line \in Session(a)!ClientLine
    BY SameSession
  <2> QED  BY <2>7, <2>8 DEF SessionStep, Session!Next
<1> QED  BY <1>6, <1>7

(* recv() moves lines from the kernel to the buffer.                       *)
LEMMA ReceivedSession ==
    ASSUME AddrInv, AddrInv', Receive,
           NEW g \in DOMAIN players, g \in DOMAIN players', SeatKept(g), stopping' = stopping,
           NEW a, a = players[g].addr
    PROVE  SessionStep(a)
<1>1. /\ TypeInv /\ GameType /\ KernelType /\ PollType /\ LoopType /\ Index /\ Seats
      /\ g \in FD /\ a \in Addr
  <2>1. TypeInv /\ GameType /\ KernelType /\ PollType /\ LoopType /\ Index
    BY TypeParts DEF AddrInv, StepInv, TypeInv
  <2> QED  BY <2>1, PlayerFacts DEF GameType, AddrInv
<1> DEFINE fd == poll_fds[i]
           b  == players[fd].addr
<1>2. /\ pc = "clients" /\ pc' = "read" /\ i <= Len(poll_fds)
      /\ client_buffers' = [client_buffers EXCEPT ![fd] = @ \o conn[b].inq]
      /\ conn' = [conn EXCEPT ![b].inq = <<>>]
  BY DEF Receive
<1>3. pc \notin Ended /\ pc' \notin Ended
  BY <1>2 DEF Ended
<1>4. i \in 1..Len(poll_fds)
  BY <1>1, <1>2 DEF LoopType, Index, PollType
<1>5. fd \in DOMAIN players /\ fd \in FD /\ b \in Addr
  BY <1>1, <1>4, PolledIsPlayer DEF TypeInv
<1>6. conn[a].inq \in Seq(ClientLine) /\ client_buffers[g] \in Seq(ClientLine)
  BY <1>1 DEF KernelType, PollType, Connection
<1> HIDE DEF fd
<1>7. CASE g # fd
  <2>1. b # a
    BY <1>1, <1>5, <1>7 DEF Seats
  <2>2. conn'[a] = conn[a] /\ client_buffers'[g] = client_buffers[g]
    BY <1>1, <1>2, <1>5, <1>7, <2>1 DEF KernelType, PollType
  <2> QED  BY <1>3, <2>2, KeptSession
<1>8. CASE g = fd
  <2>1. conn'[a].inq = <<>> /\ client_buffers'[g] = client_buffers[g] \o conn[a].inq
    BY <1>1, <1>2, <1>5, <1>8 DEF KernelType, Connection, PollType
  <2>2. PICK x \in Seq(ClientLine), y \in Seq(ClientLine) :
             x = client_buffers[g] /\ y = conn[a].inq
    BY <1>6
  <2>3. (x \o y) \o <<>> = x \o y
    BY ConcatProperties, ConcatEmptySeq
  <2>4. client_buffers'[g] \o conn'[a].inq = client_buffers[g] \o conn[a].inq
    BY <2>1, <2>2, <2>3
  <2> QED  BY <1>3, <2>4, KeptSession
<1> QED  BY <1>7, <1>8

(* A line the server ignores.                                              *)
LEMMA IgnoredSession ==
    ASSUME AddrInv, AddrInv', NEW fd \in FD, NEW line \in ClientLine, ReadIgnored(fd, line),
           NEW g \in DOMAIN players, g \in DOMAIN players', SeatKept(g), stopping' = stopping,
           NEW a, a = players[g].addr
    PROVE  SessionStep(a)
<1>1. Stays(g)
  BY DEF SeatKept, Remains
<1>2. /\ Takes(fd, line) /\ players[fd].is_known /\ line[1] # "PUT" /\ TakeLine(fd)
      /\ UNCHANGED <<conn, pc>> /\ pc \notin Ended
  BY DEF ReadIgnored, Takes, Ended
<1>3. CASE g # fd
  <2>1. client_buffers'[g] = client_buffers[g]
    <3>1. PollType /\ GameType
      BY TypeParts DEF AddrInv, StepInv, TypeInv
    <3> QED  BY <1>2, <1>3, <3>1 DEF TakeLine, PollType, GameType
  <2> QED  BY <1>2, <2>1, KeptSession
<1>4. CASE g = fd
  <2>1. Session(a)!Takes /\ Session(a)!Line = line
    BY <1>1, <1>2, <1>4, TakesLine
  <2>2. /\ SessionAnswers(a) = Heard(g) /\ SessionAnswers(a)' = Heard(g)'
        /\ SessionSeat(a) = SeatOf(g) /\ SessionSeat(a)' = SeatOf(g)'
    BY <1>1, <1>2, StayingViews
  <2>3. Heard(g)' = Heard(g) /\ SeatOf(g)' = SeatOf(g)
    BY KeptSeatOf DEF SeatKept
  <2>4. SessionSeat(a).known
    BY <1>2, <1>4, <2>2, SeatsTypedHold DEF SeatsTyped
  <2>5. Session(a)!TakeIgnored
    BY <1>2, <2>1, <2>2, <2>3, <2>4 DEF Session!TakeIgnored
  <2> QED  BY <2>5 DEF SessionStep, Session!Next, Session!ServerStep, Session!TakeLine
<1> QED  BY <1>3, <1>4

-----------------------------------------------------------------------------
(* Connections begin and end *)

(* The steps of the game that leave the connections alone.                 *)
LEMMA SameConnections ==
    ASSUME Plays, ~\E a \in Addr : Accept(a), ~\E fd \in FD : Leaves(fd)
    PROVE  conn' = conn
BY DEF Plays, Tick, SkipEvent, AnswerEvent, ReadHello, ReadRejectedPut, ReadPut, Write

(* What becomes of a connection in a step.                                 *)
LEMMA ConnectionSteps ==
    ASSUME AddrInv, [Next]_vars, NEW a \in Addr
    PROVE  /\ conn[a].st = "closed" => conn'[a].st = "closed"
           /\ conn'[a].st \in {"new", "backlog"} => conn[a].st \in {"new", "backlog"}
           /\ (\E line \in ClientLine : SendLine(a, line)) \/ conn'[a].inq \in {conn[a].inq, <<>>}
<1>1. StepInv /\ KernelType
  BY TypeParts DEF AddrInv, StepInv, TypeInv
<1> USE DEF KernelType, Connection
<1>2. CASE Quiet
  <2>1. \/ conn'[a].st = conn[a].st
        \/ conn[a].st = "new" /\ conn'[a].st = "backlog"
    BY <1>2 DEF Quiet
  <2>2. CASE LinesStay
    BY <2>1, <2>2 DEF LinesStay
  <2>3. ASSUME NEW b \in Addr, NEW line \in ClientLine, SendLine(b, line)
        PROVE  SendLine(a, line) \/ conn'[a].inq = conn[a].inq
    BY <1>1, <2>3 DEF SendLine
  <2>4. ASSUME Receive PROVE conn'[a].inq \in {conn[a].inq, <<>>}
    <3>1. PICK b : conn' = [conn EXCEPT ![b].inq = <<>>]
      BY <2>4 DEF Receive
    <3> QED  BY <1>1, <3>1
  <2>5. ASSUME NEW fd \in FD, NEW line \in ClientLine, ReadIgnored(fd, line) PROVE conn' = conn
    BY <2>5 DEF ReadIgnored
  <2>6. CASE LinesMove
    BY <2>1, <2>3, <2>4, <2>5, <2>6 DEF LinesMove
  <2> QED  BY <1>2, <2>2, <2>6 DEF Quiet
<1>3. CASE Restarts
  <2>1. conn'[a] = conn[a] \/ conn'[a] = [conn[a] EXCEPT !.st = "closed", !.inq = <<>>]
    BY <1>3 DEF Restarts
  <2> QED  BY <1>1, <2>1
<1>4. ASSUME NEW b \in Addr, Accept(b)
      PROVE  /\ conn[a].st = "closed" => conn'[a].st = "closed"
             /\ conn'[a].st \in {"new", "backlog"} => conn[a].st \in {"new", "backlog"}
             /\ conn'[a].inq = conn[a].inq
  BY <1>1, <1>4 DEF Accept
<1>5. ASSUME NEW fd \in FD, Leaves(fd)
      PROVE  conn'[a] = conn[a] \/ conn'[a] = [conn[a] EXCEPT !.st = "closed", !.inq = <<>>]
  BY <1>1, <1>5 DEF Leaves, Closed
<1>6. CASE Plays /\ (\E fd \in FD : Leaves(fd))
  BY <1>1, <1>5, <1>6
<1>7. CASE Plays /\ ~(\E b \in Addr : Accept(b)) /\ ~(\E fd \in FD : Leaves(fd))
  BY <1>7, SameConnections
<1> QED  BY <1>1, <1>2, <1>3, <1>4, <1>6, <1>7, Steps

(* A process that has ended does nothing more.                             *)
LEMMA EndedStays ==
    ASSUME [Next]_vars, pc \in Ended
    PROVE  pc' \in Ended
<1>1. ~Clients /\ ~Tick
  BY DEF Ended, Clients, Connect, SendLine, Hangup, Tick
<1>2. ~ServerStep
  <2>1. ~(Poll \/ ResetServer \/ ResetKilled \/ SkipEvent \/ AnswerEvent \/ HelloTimeout \/ EndTimers)
    BY DEF Ended, Poll, ResetServer, ResetKilled, SkipEvent, AnswerEvent, HelloTimeout, EndTimers
  <2>2. ~((\E a \in Addr : Accept(a)) \/ AcceptFails \/ EndClients \/ DropClient \/ Receive
            \/ NothingToRead \/ NothingReported)
    BY DEF Ended, Accept, AcceptFails, EndClients, DropClient, Receive, NothingToRead,
           NothingReported
  <2>3. ~(ReadLine \/ EndRead)
    <3>1. \A fd, line : ~Takes(fd, line)
      BY DEF Ended, Takes
    <3>2. ASSUME NEW fd \in FD, NEW id \in PlayerId
          PROVE  ~ReadHello(fd, id) /\ ~ReadHelloNoCoeff(fd, id)
      BY <3>1 DEF ReadHello, ReadHelloNoCoeff
    <3>3. ASSUME NEW fd \in FD, NEW p \in Points, NEW v \in Values
          PROVE  ~ReadRejectedPut(fd, p, v) /\ ~ReadPut(fd, p, v)
      BY <3>1 DEF ReadRejectedPut, ReadPut
    <3>4. ASSUME NEW fd \in FD, NEW line \in ClientLine
          PROVE  ~ReadIgnored(fd, line) /\ ~ReadBeforeHello(fd, line)
      BY <3>1 DEF ReadIgnored, ReadBeforeHello
    <3>5. ~EndRead
      BY DEF Ended, EndRead
    <3> QED  BY <3>2, <3>3, <3>4, <3>5 DEF ReadLine
  <2>4. ~(NothingToWrite \/ StopWatching \/ (\E whole \in BOOLEAN : Write(whole))
            \/ WriteFails \/ WriteKilled \/ WriteToListener)
    BY DEF Ended, NothingToWrite, StopWatching, Write, WriteFails, WriteKilled, WriteToListener
  <2> QED  BY <2>1, <2>2, <2>3, <2>4 DEF ServerStep
<1>3. Halted \/ UNCHANGED vars
  BY <1>1, <1>2 DEF Next, Server
<1> QED  BY <1>3 DEF Halted, vars

(* A session that is open was open before.                                 *)
LEMMA OpenBefore ==
    ASSUME AddrInv, [Next]_vars, NEW a \in Addr, SessionOpen(a)'
    PROVE  SessionOpen(a) /\ pc \notin Ended /\ pc' \notin Ended
<1>1. pc' \notin Ended /\ conn'[a].st # "closed"
  BY DEF SessionOpen, Ended
<1>2. pc \notin Ended
  BY <1>1, EndedStays
<1>3. conn[a].st # "closed"
  BY <1>1, ConnectionSteps
<1> QED  BY <1>1, <1>2, <1>3 DEF SessionOpen, Ended

(* A client can send nothing before it is accepted.                        *)
NoInput == \A a \in Addr : conn[a].st \in {"new", "backlog"} => conn[a].inq = <<>>

(* At the start nothing has been sent.                                     *)
LEMMA NoInputInit == Init => NoInput
BY DEF Init, NoInput

(* Only an open connection takes a line.                                   *)
LEMMA NoInputNext ==
    ASSUME AddrInv, NoInput, [Next]_vars
    PROVE  NoInput'
<1> SUFFICES ASSUME NEW a \in Addr, conn'[a].st \in {"new", "backlog"} PROVE conn'[a].inq = <<>>
  BY DEF NoInput
<1>1. conn[a].st \in {"new", "backlog"} /\ conn[a].inq = <<>>
  BY ConnectionSteps DEF NoInput
<1>2. ~\E line \in ClientLine : SendLine(a, line)
  BY <1>1 DEF SendLine
<1> QED  BY <1>1, <1>2, ConnectionSteps

(* A player stays, and keeps its address, while its session is open; and a *)
(* new player is one that was accepted.                                    *)
LEMMA PlayersStay ==
    ASSUME AddrInv, [Next]_vars
    PROVE  /\ \A g \in DOMAIN players : \/ g \in DOMAIN players' /\ Stays(g)
                                        \/ conn'[players[g].addr].st = "closed"
           /\ \A g \in DOMAIN players' : Stays(g) \/ (sent' = sent /\ Accept(players'[g].addr))
<1>1. StepInv /\ KernelType
  BY TypeParts DEF AddrInv, StepInv, TypeInv
<1>2. \A g \in DOMAIN players : players[g].addr \in Addr
  BY PlayerFacts
<1>3. ASSUME DOMAIN players' = DOMAIN players, \A g \in DOMAIN players : Remains(g)
      PROVE  \A g \in DOMAIN players : g \in DOMAIN players' /\ Stays(g)
  BY <1>3 DEF Remains
<1>a. ASSUME NEW g, SeatKept(g) PROVE Remains(g)
  BY <1>a DEF SeatKept
<1>4. CASE Quiet
  BY <1>4 DEF Quiet, gameVars, Stays
<1>5. CASE Restarts
  <2>1. ASSUME NEW g \in DOMAIN players PROVE conn'[players[g].addr].st = "closed"
    BY <1>1, <1>2, <1>5 DEF Restarts, KernelType, Connection
  <2> QED  BY <1>5, <2>1 DEF Restarts
<1>6. CASE Tick \/ SkipEvent
  BY <1>6 DEF Tick, SkipEvent, Stays
<1>7. CASE AnswerEvent
  <2>1. PICK fd, kind : /\ SeatAnswered(fd, kind) /\ DOMAIN players' = DOMAIN players
                        /\ \A g \in DOMAIN players : g # fd => SeatKept(g)
    BY <1>7, AnswerSeats
  <2>2. \A g \in DOMAIN players : Remains(g)
    BY <1>a, <2>1 DEF SeatAnswered
  <2> QED  BY <1>3, <2>1, <2>2
<1>8. ASSUME NEW a \in Addr, Accept(a), sent' = sent
      PROVE  /\ \A g \in DOMAIN players : g \in DOMAIN players' /\ Stays(g)
             /\ \A g \in DOMAIN players' : Stays(g) \/ (sent' = sent /\ Accept(players'[g].addr))
  <2>1. PICK fd \in FD : /\ DOMAIN players' = DOMAIN players \cup {fd} /\ players'[fd].addr = a
                         /\ \A g \in DOMAIN players : SeatKept(g)
    BY <1>8, AcceptSeats
  <2>2. \A g \in DOMAIN players : Stays(g)
    BY <1>a, <2>1 DEF Remains
  <2> QED  BY <1>8, <2>1, <2>2
<1>9. ASSUME NEW fd \in FD, NEW id \in PlayerId, ReadHello(fd, id), sent' = sent
      PROVE  DOMAIN players' = DOMAIN players /\ \A g \in DOMAIN players : Remains(g)
  BY <1>a, <1>9, HelloSeats DEF SeatHello
<1>10. ASSUME NEW fd \in FD, NEW p \in Points, NEW v \in Values, ReadRejectedPut(fd, p, v),
              sent' = sent
       PROVE  DOMAIN players' = DOMAIN players /\ \A g \in DOMAIN players : Remains(g)
  BY <1>a, <1>10, RejectedSeats DEF SeatRejected
<1>11. ASSUME NEW fd \in FD, NEW p \in Points, NEW v \in Values, ReadPut(fd, p, v), sent' = sent
       PROVE  DOMAIN players' = DOMAIN players /\ \A g \in DOMAIN players : Remains(g)
  BY <1>11, PutSeats DEF SeatPut, SeatWatches
<1>12. ASSUME NEW whole \in BOOLEAN, Write(whole), sent' = sent
       PROVE  DOMAIN players' = DOMAIN players /\ \A g \in DOMAIN players : Remains(g)
  BY <1>a, <1>12, WriteSeats
<1>13. ASSUME NEW fd \in FD, Leaves(fd)
       PROVE  /\ \A g \in DOMAIN players : \/ g \in DOMAIN players' /\ Stays(g)
                                           \/ conn'[players[g].addr].st = "closed"
              /\ \A g \in DOMAIN players' : Stays(g)
  <2>1. /\ fd \in DOMAIN players /\ DOMAIN players' = DOMAIN players \ {fd}
        /\ \A g \in DOMAIN players' : players'[g] = players[g]
        /\ conn' = Closed(players[fd].addr)
    BY <1>13 DEF Leaves
  <2>2. conn'[players[fd].addr].st = "closed"
    BY <1>1, <1>2, <2>1 DEF Closed, KernelType, Connection
  <2> QED  BY <2>1, <2>2 DEF Stays
<1> QED  BY <1>1, <1>3, <1>4, <1>5, <1>6, <1>7, <1>8, <1>9, <1>10, <1>11, <1>12, <1>13, Steps
         DEF Plays
-----------------------------------------------------------------------------
(* Every step of the server is a step of every session *)

(* accept() seats a client as one the server knows nothing of yet.         *)
LEMMA NewSession ==
    ASSUME AddrInv, AddrInv', NoInput, NEW a \in Addr, Accept(a), sent' = sent
    PROVE  SessionStep(a)
<1>1. /\ TypeInv /\ StoppedHere /\ Seats /\ KernelType /\ PollType /\ GameType
  BY TypeParts DEF AddrInv, StepInv, TypeInv
<1>2. /\ pc = "accept" /\ pc' = "clients" /\ conn[a].st = "backlog"
      /\ conn' = [conn EXCEPT ![a].st = "open"] /\ stopping' = stopping
  BY DEF Accept
<1>3. stopping' = FALSE
  BY <1>1, <1>2 DEF StoppedHere, GameType
<1>4. Seated(a) = {} /\ SessionOpen(a)
  BY <1>1, <1>2 DEF Seats, Seated, SessionOpen
<1>5. PICK fd \in FD : /\ fd \in DOMAIN players' /\ players'[fd].addr = a /\ SeatNew(fd)
                       /\ client_buffers' = [client_buffers EXCEPT ![fd] = <<>>]
  BY AcceptSeats
<1>6. Shows(a, <<>>, <<>>, NobodySeat)
  BY <1>4, ViewsHold DEF Views
<1>7. Shows(players[fd].addr, client_buffers[fd] \o conn[players[fd].addr].inq,
            Heard(fd), SeatOf(fd))'
  BY <1>2, <1>5, ViewsHoldNext DEF Views, Ended
<1>8. /\ SessionRequests(a)' = client_buffers'[fd] \o conn'[a].inq
      /\ SessionAnswers(a)' = Heard(fd)' /\ SessionSeat(a)' = SeatOf(fd)'
  BY <1>5, <1>7 DEF Shows
<1>9. client_buffers'[fd] = <<>> /\ conn'[a].inq = <<>>
  BY <1>1, <1>2, <1>5 DEF PollType, KernelType, Connection, NoInput
<1>10. <<>> \o <<>> = <<>>
  OBVIOUS
<1>11. SessionRequests(a)' = <<>> /\ SessionAnswers(a)' = <<>>
  BY <1>5, <1>8, <1>9, <1>10 DEF SeatNew
<1>12. PICK t : t = SeatOf(fd)'
  OBVIOUS
<1>13. /\ t \in SeatRecord /\ t.open /\ t.known = players'[fd].is_known
       /\ t.can_put = players'[fd].can_put /\ t.over = stopping'
       /\ t.owed = [kind \in {"STATE", "BAD_PUT"} |-> Waits(fd, kind)']
       /\ t.approximations = players'[fd].approximations
  BY <1>5, <1>12, SeatsTypedNext DEF SeatsTyped
<1>14. PICK s : s = NobodySeat
  OBVIOUS
<1>15. /\ s \in SeatRecord /\ s.open /\ ~s.known /\ ~s.can_put /\ ~s.over
       /\ s.owed = [kind \in {"STATE", "BAD_PUT"} |-> 0] /\ s.approximations = Zeros
  BY <1>14, EmptySeats DEF NobodySeat
<1>16. t.owed = s.owed
  <2>1. Waits(fd, "STATE")' = 0 /\ Waits(fd, "BAD_PUT")' = 0
    BY <1>5 DEF SeatNew, AnswerKind
  <2> QED  BY <1>13, <1>15, <2>1
<1>17. t = s
  <2>1. /\ t.open /\ ~t.known /\ ~t.can_put /\ ~t.over /\ t.approximations = s.approximations
    BY <1>3, <1>5, <1>13, <1>15 DEF SeatNew
  <2>2. t.open = s.open /\ t.known = s.known /\ t.can_put = s.can_put /\ t.over = s.over
    BY <1>13, <1>15, <2>1 DEF SeatRecord
  <2> QED  BY <1>13, <1>15, <1>16, <2>1, <2>2, SeatEqual
<1>18. SessionSeat(a)' = NobodySeat
  BY <1>8, <1>12, <1>14, <1>17
<1>19. SessionKept(a)
  BY <1>6, <1>11, <1>18 DEF Shows, SessionKept
<1> QED  BY <1>19, KeptIsStep

(* A line taken from one buffer leaves the others alone.                   *)
LEMMA OtherBuffers ==
    ASSUME AddrInv, NEW fd, TakeLine(fd), NEW g \in DOMAIN players, g # fd
    PROVE  client_buffers'[g] = client_buffers[g]
<1>1. PollType /\ GameType
  BY TypeParts DEF AddrInv, StepInv, TypeInv
<1> QED  BY <1>1 DEF TakeLine, PollType, GameType

(* A player that stays in the game.                                        *)
LEMMA SeatedSession ==
    ASSUME AddrInv, AddrInv', [Next]_vars, pc \notin Ended, pc' \notin Ended,
           NEW g \in DOMAIN players, g \in DOMAIN players', NEW a, a = players[g].addr
    PROVE  SessionStep(a)
<1>1. /\ StepInv /\ Seats /\ KernelType /\ PollType /\ GameType /\ g \in FD /\ a \in Addr
  <2>1. StepInv /\ Seats /\ KernelType /\ PollType /\ GameType
    BY TypeParts DEF AddrInv, StepInv, TypeInv
  <2> QED  BY <2>1, PlayerFacts DEF GameType
<1>2. CASE Quiet
  <2>1. SeatKept(g) /\ stopping' = stopping
    BY <1>2, QuietSeats DEF Quiet, gameVars
  <2>2. CASE LinesStay
    BY <1>1, <2>1, <2>2, KeptSession DEF LinesStay
  <2>3. CASE LinesMove
    BY <2>1, <2>3, SentSession, ReceivedSession, IgnoredSession DEF LinesMove
  <2> QED  BY <1>2, <2>2, <2>3 DEF Quiet
<1>3. ASSUME SeatKept(g), UNCHANGED <<conn, client_buffers, stopping>> PROVE SessionStep(a)
  BY <1>3, KeptSession
<1>4. CASE Tick \/ SkipEvent
  <2>1. UNCHANGED <<conn, client_buffers, stopping>>
    BY <1>4 DEF Tick, SkipEvent, pollVars
  <2> QED  BY <1>3, <1>4, <2>1, TickSeats, SkipSeats
<1>5. CASE AnswerEvent /\ ~stopping
  <2>1. PICK fd, kind : /\ kind \in AnswerKind /\ SeatAnswered(fd, kind)
                        /\ \A h \in DOMAIN players : h # fd => SeatKept(h)
    BY <1>5, AnswerSeats
  <2>2. UNCHANGED <<conn, client_buffers, stopping>>
    BY <1>5 DEF AnswerEvent, pollVars
  <2>3. CASE g = fd
    BY <1>5, <2>1, <2>3, AnsweredSession
  <2>4. CASE g # fd
    BY <1>3, <2>1, <2>2, <2>4
  <2> QED  BY <2>3, <2>4
<1>6. ASSUME NEW b \in Addr, Accept(b), sent' = sent PROVE SessionStep(a)
  <2>1. PICK fd \in FD : /\ fd \notin DOMAIN players /\ SeatKept(g)
                         /\ client_buffers' = [client_buffers EXCEPT ![fd] = <<>>]
    BY <1>6, AcceptSeats
  <2>2. conn'[a].inq = conn[a].inq /\ stopping' = stopping
    BY <1>1, <1>6 DEF Accept, KernelType, Connection
  <2>3. client_buffers'[g] = client_buffers[g]
    BY <1>1, <2>1 DEF PollType
  <2> QED  BY <2>1, <2>2, <2>3, KeptSession
<1>7. ASSUME NEW fd \in FD, NEW id \in PlayerId, ReadHello(fd, id), sent' = sent
      PROVE  SessionStep(a)
  <2>1. CASE g = fd
    BY <1>7, <2>1, HelloSession
  <2>2. CASE g # fd
    <3>1. TakeLine(fd) /\ UNCHANGED <<conn, stopping>>
      BY <1>7 DEF ReadHello
    <3> QED  BY <1>7, <2>2, <3>1, HelloSeats, OtherBuffers, KeptSession
  <2> QED  BY <2>1, <2>2
<1>8. ASSUME NEW fd \in FD, NEW p \in Points, NEW v \in Values, ReadRejectedPut(fd, p, v),
             sent' = sent
      PROVE  SessionStep(a)
  <2>1. CASE g = fd
    BY <1>8, <2>1, RejectedSession
  <2>2. CASE g # fd
    <3>1. TakeLine(fd) /\ UNCHANGED <<conn, stopping>>
      BY <1>8 DEF ReadRejectedPut
    <3> QED  BY <1>8, <2>2, <3>1, RejectedSeats, OtherBuffers, KeptSession
  <2> QED  BY <2>1, <2>2
<1>9. ASSUME NEW fd \in FD, NEW p \in Points, NEW v \in Values, ReadPut(fd, p, v), sent' = sent
      PROVE  SessionStep(a)
  <2>1. CASE g = fd
    BY <1>9, <2>1, PutSession
  <2>2. CASE g # fd
    <3>1. TakeLine(fd) /\ UNCHANGED conn /\ ~stopping
      BY <1>9 DEF ReadPut, Takes
    <3> QED  BY <1>9, <2>2, <3>1, PutSeats, OtherBuffers, WatchingSession
  <2> QED  BY <2>1, <2>2
<1>10. ASSUME NEW whole \in BOOLEAN, Write(whole), sent' = sent PROVE SessionStep(a)
  <2>1. UNCHANGED <<conn, client_buffers, stopping>>
    BY <1>10 DEF Write, pollVars
  <2> QED  BY <1>3, <1>10, <2>1, WriteSeats
<1>11. ASSUME NEW fd \in FD, Leaves(fd) PROVE SessionStep(a)
  <2>1. SeatKept(g)
    BY <1>11, LeavesSeats
  <2>2. /\ fd \in DOMAIN players /\ g # fd /\ stopping' = stopping
        /\ conn' = Closed(players[fd].addr)
        /\ client_buffers' = [client_buffers EXCEPT ![fd] = <<>>]
    BY <1>11 DEF Leaves
  <2>3. players[fd].addr # a
    BY <1>1, <2>2 DEF Seats
  <2>4. conn'[a] = conn[a] /\ client_buffers'[g] = client_buffers[g]
    BY <1>1, <2>2, <2>3 DEF KernelType, PollType, Closed
  <2> QED  BY <2>1, <2>2, <2>4, KeptSession
<1>12. ~Restarts
  BY DEF Restarts
<1> QED  BY <1>1, <1>2, <1>4, <1>5, <1>6, <1>7, <1>8, <1>9, <1>10, <1>11, <1>12, Steps DEF Plays

(* Every step of the server is one of the session of each address, or does *)
(* not touch it.                                                           *)
LEMMA SessionNext ==
    ASSUME AddrInv, AddrInv', NoInput, [Next]_vars, NEW a \in Addr
    PROVE  SessionStep(a)
<1>1. CASE ~SessionOpen(a)'
  BY <1>1, EndsSession
<1>2. CASE SessionOpen(a)'
  <2>1. SessionOpen(a) /\ pc \notin Ended /\ pc' \notin Ended /\ conn'[a].st # "closed"
    BY <1>2, OpenBefore DEF SessionOpen
  <2>2. ASSUME NEW g \in DOMAIN players, players[g].addr = a PROVE SessionStep(a)
    BY <2>1, <2>2, PlayersStay, SeatedSession
  <2>3. ASSUME Seated(a) = {}, NEW g \in DOMAIN players', players'[g].addr = a
        PROVE  SessionStep(a)
    <3>1. ~Stays(g)
      BY <2>3 DEF Seated, Stays
    <3>2. sent' = sent /\ Accept(a)
      BY <2>3, <3>1, PlayersStay
    <3> QED  BY <3>2, NewSession
  <2>4. CASE Seated(a) = {} /\ Seated(a)' = {}
    BY <1>2, <2>1, <2>4, UnseatedSession
  <2>5. CASE Seated(a) = {} /\ Seated(a)' # {}
    BY <2>3, <2>5 DEF Seated
  <2>6. CASE Seated(a) # {}
    BY <2>2, <2>6 DEF Seated
  <2> QED  BY <2>4, <2>5, <2>6
<1> QED  BY <1>1, <1>2

(* The server implements the session of every client: whatever the others  *)
(* do and however the poll loop, the timers and the reuse of descriptors   *)
(* fall, what an address sees of each step is a step of ApproxSession or   *)
(* nothing at all.                                                         *)
THEOREM SessionsAreServed == Spec => ServesSessions
<1>1. Init => \A a \in Addr : Session(a)!Init
  BY SessionsInit
<1>2. Spec => []NoInput
  <2>1. AddrInv /\ NoInput /\ [Next]_vars => NoInput'
    BY NoInputNext
  <2> QED  BY <2>1, NoInputInit, AddrInvariant, PTL DEF Spec
<1>3. AddrInv /\ AddrInv' /\ NoInput /\ [Next]_vars
        => [\A a \in Addr : UNCHANGED Session(a)!vars \/ Session(a)!Next]_vars
  BY SessionNext DEF SessionStep
<1> QED  BY <1>1, <1>2, <1>3, AddrInvariant, PTL DEF Spec, ServesSessions

=============================================================================
