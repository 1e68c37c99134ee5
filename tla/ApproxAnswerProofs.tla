------------------------- MODULE ApproxAnswerProofs -------------------------
(***************************************************************************)
(* Proofs about the answers of ApproxServer: whom they go to, in which     *)
(* order, and that none is lost, doubled or left out.                      *)
(***************************************************************************)
EXTENDS ApproxServerProofs

-----------------------------------------------------------------------------
(* Addresses *)

(* An address is used for one connection: the players have different ones, *)
(* all of open connections, and a callback names a connection that was     *)
(* accepted.  A callback that answers a PUT of a connection still served   *)
(* carries the name its player gave in HELLO.                              *)
Seats ==
    /\ \A fd \in DOMAIN players : conn[players[fd].addr].st = "open"
    /\ \A fd, g \in DOMAIN players : players[fd].addr = players[g].addr => fd = g
Callbacks ==
    /\ \A k \in DOMAIN events : conn[events[k].addr].st \in {"open", "closed"}
    /\ \A k \in DOMAIN events, fd \in DOMAIN players :
          events[k].kind # "HELLO" /\ events[k].fd = fd /\ events[k].addr = players[fd].addr
            => players[fd].is_known /\ events[k].id = players[fd].id
SilentBefore ==
    \A a \in Addr : conn[a].st \in {"new", "backlog"} => got[a] = <<>>

AddrInv == StepInv /\ Seats /\ Callbacks /\ SilentBefore

(* No connection is served at the start.                                   *)
LEMMA AddrInit == Init => Seats /\ Callbacks /\ SilentBefore
BY DEF Init, Seats, Callbacks, SilentBefore

(* The elements of a sequence without its head.                            *)
LEMMA TailElements ==
    ASSUME NEW S, NEW s \in Seq(S), s # <<>>
    PROVE  /\ 1 \in DOMAIN s /\ Len(s) \in Nat \ {0}
           /\ DOMAIN Tail(s) = 1..(Len(s) - 1)
           /\ \A k \in DOMAIN Tail(s) : k + 1 \in DOMAIN s /\ Tail(s)[k] = s[k + 1]
           /\ \A k \in DOMAIN s : k # 1 => k - 1 \in DOMAIN Tail(s) /\ Tail(s)[k - 1] = s[k]
<1>1. Len(s) \in Nat \ {0} /\ DOMAIN s = 1..Len(s)
  BY EmptySeq, LenProperties
<1>2. /\ Tail(s) \in Seq(S) /\ Len(Tail(s)) = Len(s) - 1
      /\ \A k \in 1..Len(Tail(s)) : Tail(s)[k] = s[k + 1]
  BY HeadTailProperties
<1> QED  BY <1>1, <1>2

(* The effect of the callbacks that answer a PUT.                          *)
LEMMA AnswerEffect ==
    ASSUME StepInv, AnswerEvent
    PROVE  LET e == events[1] IN
           /\ e \in Event /\ e.kind # "HELLO" /\ e.fd \in DOMAIN players
           /\ players[e.fd].addr = e.addr /\ players[e.fd].id = e.id
           /\ players[e.fd] \in PlayerInfo
           /\ MakeAnswer(e.kind, e.addr, e.approx) \in Answer
           /\ DOMAIN players' = DOMAIN players
           /\ players'[e.fd] =
                [players[e.fd] EXCEPT
                    !.messages = Append(players[e.fd].messages,
                                        MakeAnswer(e.kind, e.addr, e.approx)),
                    !.can_put = TRUE]
           /\ \A g \in DOMAIN players : g # e.fd => players'[g] = players[g]
           /\ events \in Seq(Event) /\ events # <<>> /\ events' = Tail(events)
           /\ UNCHANGED <<conn, total_correct_puts, stopping, coeff_file, got>>
<1> DEFINE e == events[1]
<1>1. TypeInv /\ GameType
  BY TypeParts DEF StepInv, TypeInv
<1>2. e \in Event /\ events # <<>>
  BY <1>1, FirstEvent DEF AnswerEvent
<1>3. /\ e.kind # "HELLO" /\ e.fd \in DOMAIN players
      /\ players[e.fd].addr = e.addr /\ players[e.fd].id = e.id
      /\ players' = [players EXCEPT ![e.fd] = Answered(@, e)]
      /\ events' = Tail(events)
      /\ UNCHANGED <<conn, total_correct_puts, stopping, coeff_file, got>>
  BY DEF AnswerEvent, LiveEvent, validate_client, is_client_connected
<1> HIDE DEF e
<1>4. players[e.fd] \in PlayerInfo
  BY <1>1, <1>3 DEF GameType
<1>5. Answered(players[e.fd], e) =
        [players[e.fd] EXCEPT !.messages = Append(players[e.fd].messages,
                                                  MakeAnswer(e.kind, e.addr, e.approx)),
                              !.can_put = TRUE]
  BY <1>2, <1>3, <1>4, AnsweredType
<1>6. MakeAnswer(e.kind, e.addr, e.approx) \in Answer
  BY <1>2, <1>3, MadeAnswer DEF Event, EventKind, AnswerType
<1>7. /\ DOMAIN players' = DOMAIN players
      /\ players'[e.fd] = Answered(players[e.fd], e)
      /\ \A g \in DOMAIN players : g # e.fd => players'[g] = players[g]
  BY <1>3
<1>8. events \in Seq(Event)
  BY <1>1 DEF GameType
<1> QED  BY <1>2, <1>3, <1>4, <1>5, <1>6, <1>7, <1>8 DEF e

(* The SCORING does not change who a player is.                            *)
LEMMA FinalKeeps ==
    ASSUME NEW player \in PlayerInfo, NEW over \in BOOLEAN
    PROVE  LET final == Final(player, over)
               m == MakeAnswer("SCORING", player.addr, Zeros) IN
           /\ final.addr = player.addr /\ final.id = player.id
           /\ final.is_known = player.is_known /\ final.can_put = player.can_put
           /\ final.correct_puts = player.correct_puts
           /\ final.penalty = player.penalty /\ final.approximations = player.approximations
           /\ final.messages = IF over /\ player.is_known THEN Append(player.messages, m)
                               ELSE player.messages
BY DEF Final, Scored, PlayerInfo

(* A correct PUT does not change who a player is or what it is told.       *)
LEMMA ImprovedKeeps ==
    ASSUME NEW player \in PlayerInfo, NEW p, NEW v
    PROVE  LET new == Improved(player, p, v) IN
           /\ new.addr = player.addr /\ new.id = player.id
           /\ new.is_known = player.is_known /\ ~new.can_put
           /\ new.messages = player.messages /\ new.penalty = player.penalty
           /\ new.correct_puts = player.correct_puts + 1
           /\ new.approximations = Put(player.approximations, p, v)
BY DEF Improved, PlayerInfo

(* Nor does a rejected one.                                                *)
LEMMA RejectedKeeps ==
    ASSUME NEW player \in PlayerInfo, NEW early, NEW bad
    PROVE  LET new == Rejected(player, early, bad) IN
           /\ new.addr = player.addr /\ new.id = player.id
           /\ new.is_known = player.is_known /\ ~new.can_put
           /\ new.correct_puts = player.correct_puts
           /\ new.approximations = player.approximations
           /\ new.penalty = player.penalty + Charge(early, bad)
           /\ new.messages =
                IF early THEN Append(player.messages, MakeAnswer("PENALTY", player.addr, Zeros))
                ELSE player.messages
BY DEF Rejected, PlayerInfo

(* Who a player is changes in HELLO only.                                  *)
LEMMA Identity ==
    ASSUME StepInv, sent' = sent,
           \/ AnswerEvent
           \/ \E fd \in FD, p \in Points, v \in Values : ReadRejectedPut(fd, p, v)
           \/ \E fd \in FD, p \in Points, v \in Values : ReadPut(fd, p, v)
           \/ \E whole \in BOOLEAN : Write(whole)
    PROVE  /\ DOMAIN players' = DOMAIN players
           /\ \A g \in DOMAIN players : /\ players'[g].addr = players[g].addr
                                        /\ players'[g].id = players[g].id
                                        /\ players'[g].is_known = players[g].is_known
<1>1. TypeInv /\ \A g \in DOMAIN players : players[g] \in PlayerInfo
  BY TypeParts DEF StepInv, TypeInv, GameType
<1> DEFINE Kept == /\ DOMAIN players' = DOMAIN players
                   /\ \A g \in DOMAIN players : /\ players'[g].addr = players[g].addr
                                                /\ players'[g].id = players[g].id
                                                /\ players'[g].is_known = players[g].is_known
<1>2. CASE AnswerEvent
  <2>1. PICK e : e \in Event /\ e = events[1]
    BY <1>2, AnswerEffect
  <2>2. /\ e.fd \in DOMAIN players /\ DOMAIN players' = DOMAIN players
        /\ players'[e.fd] =
             [players[e.fd] EXCEPT !.messages = Append(players[e.fd].messages,
                                                 MakeAnswer(e.kind, e.addr, e.approx)),
                                   !.can_put = TRUE]
        /\ \A g \in DOMAIN players : g # e.fd => players'[g] = players[g]
    BY <1>2, <2>1, AnswerEffect
  <2>3. /\ players'[e.fd].addr = players[e.fd].addr /\ players'[e.fd].id = players[e.fd].id
        /\ players'[e.fd].is_known = players[e.fd].is_known
    BY <1>1, <2>2 DEF PlayerInfo
  <2> QED  BY <2>2, <2>3
<1>3. ASSUME NEW fd \in FD, NEW p \in Points, NEW v \in Values, ReadRejectedPut(fd, p, v)
      PROVE  Kept
  <2>1. /\ fd \in DOMAIN players /\ DOMAIN players' = DOMAIN players
        /\ players'[fd] = Rejected(players[fd], ~players[fd].can_put, OutOfRange(p, v))
        /\ \A g \in DOMAIN players : g # fd => players'[g] = players[g]
    BY <1>1, <1>3, RejectedPutEffect
  <2>2. /\ players'[fd].addr = players[fd].addr /\ players'[fd].id = players[fd].id
        /\ players'[fd].is_known = players[fd].is_known
    BY <1>1, <2>1, RejectedKeeps
  <2> QED  BY <2>1, <2>2
<1>4. ASSUME NEW fd \in FD, NEW p \in Points, NEW v \in Values, ReadPut(fd, p, v)
      PROVE  Kept
  <2>1. /\ fd \in DOMAIN players /\ DOMAIN players' = DOMAIN players
        /\ Improved(players[fd], p, v) \in PlayerInfo
        /\ players'[fd] = Final(Improved(players[fd], p, v), stopping')
        /\ \A g \in DOMAIN players : g # fd => players'[g] = Final(players[g], stopping')
    BY <1>1, <1>4, PutEffect
  <2>2. stopping' \in BOOLEAN
    <3>1. TypeInv'
      BY <1>1, <1>4, PutEffect
    <3> QED  BY <3>1 DEF TypeInv, TypeOK
  <2>3. /\ players'[fd].addr = players[fd].addr /\ players'[fd].id = players[fd].id
        /\ players'[fd].is_known = players[fd].is_known
    BY <1>1, <2>1, <2>2, FinalKeeps, ImprovedKeeps
  <2>4. ASSUME NEW g \in DOMAIN players, g # fd
        PROVE  /\ players'[g].addr = players[g].addr /\ players'[g].id = players[g].id
               /\ players'[g].is_known = players[g].is_known
    BY <1>1, <2>1, <2>2, <2>4, FinalKeeps
  <2> QED  BY <2>1, <2>3, <2>4
<1>5. ASSUME NEW whole \in BOOLEAN, Write(whole) PROVE Kept
  <2>1. PICK fd \in DOMAIN players :
           /\ DOMAIN players' = DOMAIN players
           /\ players'[fd] =
                [players[fd] EXCEPT !.messages =
                    IF whole THEN Tail(players[fd].messages)
                    ELSE append_message_front(Tail(players[fd].messages),
                            [Head(players[fd].messages) EXCEPT !.rest = TRUE])]
           /\ \A g \in DOMAIN players : g # fd => players'[g] = players[g]
    BY <1>1, <1>5, WriteEffect
  <2>2. /\ players'[fd].addr = players[fd].addr /\ players'[fd].id = players[fd].id
        /\ players'[fd].is_known = players[fd].is_known
    BY <1>1, <2>1 DEF PlayerInfo
  <2> QED  BY <2>1, <2>2
<1> QED  BY <1>2, <1>3, <1>4, <1>5

(* Every step keeps addresses apart.                                       *)
LEMMA AddrNext == AddrInv /\ [Next]_vars => (Seats /\ Callbacks /\ SilentBefore)'
<1> SUFFICES ASSUME AddrInv, [Next]_vars PROVE (Seats /\ Callbacks /\ SilentBefore)'
  OBVIOUS
<1>1. /\ StepInv /\ TypeInv /\ GameType /\ KernelType
      /\ Seats /\ Callbacks /\ SilentBefore
      /\ events \in Seq(Event)
      /\ \A k \in DOMAIN events : events[k] \in Event
      /\ \A g \in DOMAIN players : players[g] \in PlayerInfo /\ players[g].addr \in Addr
  <2>1. /\ StepInv /\ TypeInv /\ GameType /\ KernelType /\ Seats /\ Callbacks /\ SilentBefore
    BY TypeParts DEF AddrInv, StepInv, TypeInv
  <2>2. events \in Seq(Event)
    BY <2>1 DEF GameType
  <2> QED  BY <2>1, <2>2 DEF GameType, PlayerInfo
<1>2. \A k \in DOMAIN events : events[k].addr \in Addr
  BY <1>1 DEF Event
<1>3. CASE Quiet
  <2>1. players' = players /\ events' = events /\ got' = got
    BY <1>3 DEF Quiet, gameVars
  <2>2. \A a \in Addr : /\ conn[a].st \in {"open", "closed"} => conn'[a].st = conn[a].st
                        /\ conn'[a].st \in {"new", "backlog"} => conn[a].st \in {"new", "backlog"}
    BY <1>3 DEF Quiet
  <2>3. Seats'
    BY <1>1, <2>1, <2>2 DEF Seats
  <2>4. Callbacks'
    BY <1>1, <1>2, <2>1, <2>2 DEF Callbacks
  <2>5. SilentBefore'
    BY <1>1, <2>1, <2>2 DEF SilentBefore
  <2> QED  BY <2>3, <2>4, <2>5
<1>4. CASE Restarts
  <2>1. DOMAIN players' = {} /\ events' = <<>> /\ got' = [a \in Addr |-> <<>>]
    BY <1>4 DEF Restarts
  <2>2. DOMAIN events' = {}
    BY <2>1
  <2> QED  BY <2>1, <2>2 DEF Seats, Callbacks, SilentBefore
<1>5. ASSUME UNCHANGED <<conn, players, got>>,
             \A k \in DOMAIN events' : \E j \in DOMAIN events :
                /\ events'[k].kind = events[j].kind /\ events'[k].fd = events[j].fd
                /\ events'[k].addr = events[j].addr /\ events'[k].id = events[j].id
      PROVE  (Seats /\ Callbacks /\ SilentBefore)'
  <2>1. Seats' /\ SilentBefore'
    BY <1>1, <1>5 DEF Seats, SilentBefore
  <2>2. Callbacks'
    BY <1>1, <1>5 DEF Callbacks
  <2> QED  BY <2>1, <2>2
<1>6. CASE Tick
  <2>1. /\ UNCHANGED <<conn, players, got>> /\ DOMAIN events' = DOMAIN events
        /\ \A k \in DOMAIN events : events'[k] = [events[k] EXCEPT !.due = events[k].due - 1]
    BY <1>1, <1>6, TickEffect
  <2>2. \A k \in DOMAIN events' :
                /\ events'[k].kind = events[k].kind /\ events'[k].fd = events[k].fd
                /\ events'[k].addr = events[k].addr /\ events'[k].id = events[k].id
    BY <1>1, <2>1 DEF Event
  <2> QED  BY <1>5, <2>1, <2>2
<1>7. CASE SkipEvent
  <2>1. /\ UNCHANGED <<conn, players, got>> /\ events' = Tail(events) /\ events # <<>>
    BY <1>7 DEF SkipEvent, Due
  <2>2. \A k \in DOMAIN events' : k + 1 \in DOMAIN events /\ events'[k] = events[k + 1]
    BY <1>1, <2>1, TailElements
  <2> QED  BY <1>5, <2>1, <2>2
<1>8. CASE AnswerEvent /\ sent' = sent
  <2>1. /\ DOMAIN players' = DOMAIN players
        /\ \A g \in DOMAIN players : /\ players'[g].addr = players[g].addr
                                     /\ players'[g].id = players[g].id
                                     /\ players'[g].is_known = players[g].is_known
    BY <1>1, <1>8, Identity
  <2>2. events' = Tail(events) /\ events # <<>> /\ UNCHANGED <<conn, got>>
    BY <1>1, <1>8, AnswerEffect
  <2>3. \A k \in DOMAIN events' : k + 1 \in DOMAIN events /\ events'[k] = events[k + 1]
    BY <1>1, <2>2, TailElements
  <2>4. Seats' /\ SilentBefore'
    BY <1>1, <2>1, <2>2 DEF Seats, SilentBefore
  <2>5. Callbacks'
    BY <1>1, <2>1, <2>2, <2>3 DEF Callbacks
  <2> QED  BY <2>4, <2>5
<1>9. ASSUME NEW a \in Addr, Accept(a), sent' = sent
      PROVE  (Seats /\ Callbacks /\ SilentBefore)'
  <2>1. PICK fd \in FD :
             LET e == [kind |-> "HELLO", due |-> hello_wait_time, fd |-> fd,
                       addr |-> a, id |-> UNKNOWN, approx |-> Zeros] IN
             /\ fd \notin DOMAIN players /\ DOMAIN players' = DOMAIN players \cup {fd}
             /\ players'[fd] = NewPlayer(a)
             /\ \A g \in DOMAIN players : players'[g] = players[g]
             /\ e \in Event /\ events' = add_event(events, e)
    BY <1>1, <1>9, AcceptEffect
  <2> DEFINE e == [kind |-> "HELLO", due |-> hello_wait_time, fd |-> fd,
                   addr |-> a, id |-> UNKNOWN, approx |-> Zeros]
  <2>2. /\ conn[a].st = "backlog" /\ conn' = [conn EXCEPT ![a].st = "open"] /\ got' = got
    BY <1>9 DEF Accept
  <2>3. conn'[a].st = "open" /\ \A b \in Addr : b # a => conn'[b] = conn[b]
    BY <1>1, <2>2 DEF KernelType, Connection
  <2>4. \A g \in DOMAIN players : players[g].addr # a
    BY <1>1, <2>2 DEF Seats
  <2>5. \A k \in DOMAIN events : events[k].addr # a
    BY <1>1, <2>2 DEF Callbacks
  <2>6. players'[fd].addr = a
    BY <2>1 DEF NewPlayer
  <2>7. Seats'
    BY <1>1, <2>1, <2>3, <2>4, <2>6 DEF Seats
  <2>8. SilentBefore'
    BY <1>1, <2>2, <2>3 DEF SilentBefore
  <2>9. e.kind = "HELLO" /\ e.addr = a /\ e \in Event
    BY <2>1
  <2>10. events' = add_event(events, e)
    BY <2>1
  <2> HIDE DEF e
  <2>11. ASSUME NEW k \in DOMAIN events'
         PROVE  events'[k] = e \/ \E j \in DOMAIN events : events'[k] = events[j]
    BY <1>1, <2>9, <2>10, AddEventProperties
  <2>12. Callbacks'
    <3>1. ASSUME NEW k \in DOMAIN events' PROVE conn'[events'[k].addr].st \in {"open", "closed"}
      BY <1>1, <1>2, <2>3, <2>5, <2>9, <2>11 DEF Callbacks
    <3>2. ASSUME NEW k \in DOMAIN events', NEW g \in DOMAIN players',
                 events'[k].kind # "HELLO", events'[k].fd = g, events'[k].addr = players'[g].addr
          PROVE  players'[g].is_known /\ events'[k].id = players'[g].id
      <4>1. PICK j \in DOMAIN events : events'[k] = events[j]
        BY <2>9, <2>11, <3>2
      <4>2. g # fd
        BY <2>5, <2>6, <3>2, <4>1
      <4> QED  BY <1>1, <2>1, <3>2, <4>1, <4>2 DEF Callbacks
    <3> QED  BY <3>1, <3>2 DEF Callbacks
  <2> QED  BY <2>7, <2>8, <2>12
<1>10. ASSUME NEW fd \in FD, NEW id \in PlayerId, ReadHello(fd, id), sent' = sent
       PROVE  (Seats /\ Callbacks /\ SilentBefore)'
  <2>1. /\ fd \in DOMAIN players /\ DOMAIN players' = DOMAIN players
        /\ ~players[fd].is_known
        /\ \A g \in DOMAIN players : g # fd => players'[g] = players[g]
    BY <1>1, <1>10, HelloEffect
  <2>2. players'[fd].addr = players[fd].addr
    <3>1. players'[fd] =
                [players[fd] EXCEPT
                    !.messages = Append(players[fd].messages,
                                        MakeAnswer("COEFF", players[fd].addr, Zeros)),
                    !.id = id, !.is_known = TRUE, !.can_put = TRUE,
                    !.coefficients = coeff_file + 1]
      BY <1>1, <1>10, HelloEffect
    <3> QED  BY <1>1, <2>1, <3>1 DEF PlayerInfo
  <2>3. UNCHANGED <<conn, events, got>>
    BY <1>10 DEF ReadHello
  <2>4. Seats' /\ SilentBefore'
    BY <1>1, <2>1, <2>2, <2>3 DEF Seats, SilentBefore
  <2>5. Callbacks'
    BY <1>1, <2>1, <2>2, <2>3 DEF Callbacks
  <2> QED  BY <2>4, <2>5
<1>11. ASSUME NEW fd \in FD, NEW p \in Points, NEW v \in Values, ReadRejectedPut(fd, p, v),
              sent' = sent
       PROVE  (Seats /\ Callbacks /\ SilentBefore)'
  <2> DEFINE e == respond_with_bad_put(fd, players[fd])
  <2>1. /\ fd \in DOMAIN players /\ players[fd].is_known /\ e \in Event
        /\ events' = events \/ events' = add_event(events, e)
    BY <1>1, <1>11, RejectedPutEffect
  <2>2. /\ DOMAIN players' = DOMAIN players
        /\ \A g \in DOMAIN players : /\ players'[g].addr = players[g].addr
                                     /\ players'[g].id = players[g].id
                                     /\ players'[g].is_known = players[g].is_known
    BY <1>1, <1>11, Identity
  <2>3. UNCHANGED <<conn, got>>
    BY <1>11 DEF ReadRejectedPut
  <2>4. e.fd = fd /\ e.addr = players[fd].addr /\ e.id = players[fd].id
    BY DEF respond_with_bad_put
  <2> HIDE DEF e
  <2>5. ASSUME NEW k \in DOMAIN events'
        PROVE  events'[k] = e \/ \E j \in DOMAIN events : events'[k] = events[j]
    <3>1. CASE events' = events
      BY <3>1
    <3>2. CASE events' = add_event(events, e)
      BY <1>1, <2>1, <3>2, AddEventProperties
    <3> QED  BY <2>1, <3>1, <3>2
  <2>6. Seats' /\ SilentBefore'
    BY <1>1, <2>2, <2>3 DEF Seats, SilentBefore
  <2>7. ASSUME NEW k \in DOMAIN events' PROVE conn'[events'[k].addr].st \in {"open", "closed"}
    BY <1>1, <2>1, <2>3, <2>4, <2>5 DEF Callbacks, Seats
  <2>8. ASSUME NEW k \in DOMAIN events', NEW g \in DOMAIN players',
               events'[k].kind # "HELLO", events'[k].fd = g, events'[k].addr = players'[g].addr
        PROVE  players'[g].is_known /\ events'[k].id = players'[g].id
    <3>1. CASE events'[k] = e
      BY <2>1, <2>2, <2>4, <2>8, <3>1
    <3>2. ASSUME NEW j \in DOMAIN events, events'[k] = events[j]
          PROVE  players'[g].is_known /\ events'[k].id = players'[g].id
      BY <1>1, <2>2, <2>8, <3>2 DEF Callbacks
    <3> QED  BY <2>5, <3>1, <3>2
  <2>9. Callbacks'
    BY <2>7, <2>8 DEF Callbacks
  <2> QED  BY <2>6, <2>9
<1>12. ASSUME NEW fd \in FD, NEW p \in Points, NEW v \in Values, ReadPut(fd, p, v),
              sent' = sent
       PROVE  (Seats /\ Callbacks /\ SilentBefore)'
  <2> DEFINE e == respond_with_state(fd, players[fd], Put(players[fd].approximations, p, v))
  <2>1. /\ fd \in DOMAIN players /\ players[fd].is_known /\ e \in Event
        /\ events' = add_event(events, e)
    BY <1>1, <1>12, PutEffect
  <2>2. /\ DOMAIN players' = DOMAIN players
        /\ \A g \in DOMAIN players : /\ players'[g].addr = players[g].addr
                                     /\ players'[g].id = players[g].id
                                     /\ players'[g].is_known = players[g].is_known
    BY <1>1, <1>12, Identity
  <2>3. UNCHANGED <<conn, got>>
    BY <1>12 DEF ReadPut
  <2>4. e.fd = fd /\ e.addr = players[fd].addr /\ e.id = players[fd].id
    BY DEF respond_with_state
  <2> HIDE DEF e
  <2>5. ASSUME NEW k \in DOMAIN events'
        PROVE  events'[k] = e \/ \E j \in DOMAIN events : events'[k] = events[j]
    BY <1>1, <2>1, AddEventProperties
  <2>6. Seats' /\ SilentBefore'
    BY <1>1, <2>2, <2>3 DEF Seats, SilentBefore
  <2>7. ASSUME NEW k \in DOMAIN events' PROVE conn'[events'[k].addr].st \in {"open", "closed"}
    BY <1>1, <2>1, <2>3, <2>4, <2>5 DEF Callbacks, Seats
  <2>8. ASSUME NEW k \in DOMAIN events', NEW g \in DOMAIN players',
               events'[k].kind # "HELLO", events'[k].fd = g, events'[k].addr = players'[g].addr
        PROVE  players'[g].is_known /\ events'[k].id = players'[g].id
    <3>1. CASE events'[k] = e
      BY <2>1, <2>2, <2>4, <2>8, <3>1
    <3>2. ASSUME NEW j \in DOMAIN events, events'[k] = events[j]
          PROVE  players'[g].is_known /\ events'[k].id = players'[g].id
      BY <1>1, <2>2, <2>8, <3>2 DEF Callbacks
    <3> QED  BY <2>5, <3>1, <3>2
  <2>9. Callbacks'
    BY <2>7, <2>8 DEF Callbacks
  <2> QED  BY <2>6, <2>9
<1>13. ASSUME NEW whole \in BOOLEAN, Write(whole), sent' = sent
       PROVE  (Seats /\ Callbacks /\ SilentBefore)'
  <2>1. PICK fd \in DOMAIN players :
           /\ UNCHANGED <<conn, events>>
           /\ got' = IF whole THEN [got EXCEPT ![players[fd].addr] =
                                       Append(@, Head(players[fd].messages).type)] ELSE got
    BY <1>1, <1>13, WriteEffect
  <2>2. /\ DOMAIN players' = DOMAIN players
        /\ \A g \in DOMAIN players : /\ players'[g].addr = players[g].addr
                                     /\ players'[g].id = players[g].id
                                     /\ players'[g].is_known = players[g].is_known
    BY <1>1, <1>13, Identity
  <2>3. conn[players[fd].addr].st = "open"
    BY <1>1 DEF Seats
  <2>4. \A a \in Addr : a # players[fd].addr => got'[a] = got[a]
    BY <1>1, <2>1 DEF KernelType
  <2>5. Seats' /\ Callbacks'
    BY <1>1, <2>1, <2>2 DEF Seats, Callbacks
  <2>6. SilentBefore'
    BY <1>1, <2>1, <2>3, <2>4 DEF SilentBefore
  <2> QED  BY <2>5, <2>6
<1>14. ASSUME NEW fd \in FD, Leaves(fd) PROVE (Seats /\ Callbacks /\ SilentBefore)'
  <2> DEFINE a == players[fd].addr
  <2>1. /\ fd \in DOMAIN players /\ DOMAIN players' = DOMAIN players \ {fd}
        /\ \A g \in DOMAIN players' : players'[g] = players[g]
        /\ conn' = [conn EXCEPT ![a] = [@ EXCEPT !.st = "closed", !.inq = <<>>]]
        /\ got' = [got EXCEPT ![a] = <<>>]
    BY <1>14 DEF Leaves, Closed
  <2>2. /\ a \in Addr /\ conn'[a].st = "closed" /\ got'[a] = <<>>
        /\ \A b \in Addr : b # a => conn'[b] = conn[b] /\ got'[b] = got[b]
    BY <1>1, <2>1 DEF KernelType, Connection
  <2>3. \A g \in DOMAIN players' : players[g].addr # a
    BY <1>1, <2>1 DEF Seats
  <2>4. Seats'
    BY <1>1, <2>1, <2>2, <2>3 DEF Seats
  <2>5. SilentBefore'
    BY <1>1, <2>2 DEF SilentBefore
  <2>6. ASSUME NEW k \in DOMAIN events' PROVE \E j \in DOMAIN events : events'[k] = events[j]
    <3>1. CASE events' = events
      BY <3>1
    <3>2. CASE Due /\ events' = Tail(events)
      <4>1. events # <<>>
        BY <3>2 DEF Due
      <4>2. k + 1 \in DOMAIN events /\ events'[k] = events[k + 1]
        BY <1>1, <3>2, <4>1, TailElements
      <4> QED  BY <4>2
    <3> QED  BY <1>14, <3>1, <3>2 DEF Leaves
  <2>7. \A b \in Addr : conn[b].st \in {"open", "closed"} => conn'[b].st \in {"open", "closed"}
    BY <2>2
  <2>8. Callbacks'
    BY <1>1, <1>2, <2>1, <2>6, <2>7 DEF Callbacks
  <2> QED  BY <2>4, <2>5, <2>8
<1> QED  BY <1>1, <1>3, <1>4, <1>6, <1>7, <1>8, <1>9, <1>10, <1>11, <1>12, <1>13, <1>14, Steps
         DEF Plays

(* Addresses stay apart.                                                   *)
LEMMA AddrInvariant == Spec => []AddrInv
<1>1. Init => AddrInv
  BY TypeInit, StoppedInit, AddrInit DEF AddrInv, StepInv
<1>2. AddrInv /\ [Next]_vars => AddrInv'
  BY TypeNext, StoppedNext, AddrNext DEF AddrInv, StepInv
<1> QED  BY <1>1, <1>2, PTL DEF Spec

-----------------------------------------------------------------------------
(* What a step does to the queue of one player *)

Stays(g) ==
    /\ g \in DOMAIN players
    /\ players'[g].addr = players[g].addr

QueueNew(g) ==
    /\ g \notin DOMAIN players /\ ~players'[g].is_known
    /\ players'[g].messages = <<>> /\ got'[players'[g].addr] = <<>>
    /\ ~stopping'
QueueSame(g) ==
    /\ Stays(g) /\ players'[g].messages = players[g].messages
    /\ players'[g].is_known = players[g].is_known
    /\ got'[players[g].addr] = got[players[g].addr]
    /\ stopping => stopping'
    /\ stopping' => stopping \/ ~players[g].is_known
QueueGrows(g, m) ==
    /\ Stays(g) /\ players'[g].messages = Append(players[g].messages, m)
    /\ m.owner = players[g].addr /\ ~m.rest
    /\ got'[players[g].addr] = got[players[g].addr]
    /\ players'[g].is_known /\ (players[g].is_known <=> m.type # "COEFF")
    /\ ~stopping /\ (stopping' <=> m.type = "SCORING")
QueueSent(g) ==
    LET q == players[g].messages IN
    /\ Stays(g) /\ q # <<>> /\ players'[g].messages = Tail(q)
    /\ players'[g].is_known = players[g].is_known
    /\ got'[players[g].addr] = Append(got[players[g].addr], Head(q).type)
    /\ ~stopping /\ ~stopping'
QueuePartly(g) ==
    LET q == players[g].messages IN
    /\ Stays(g) /\ q # <<>>
    /\ players'[g].messages = <<[Head(q) EXCEPT !.rest = TRUE]>> \o Tail(q)
    /\ players'[g].is_known = players[g].is_known
    /\ got'[players[g].addr] = got[players[g].addr]
    /\ ~stopping /\ ~stopping'

QueueStep(g) ==
    \/ QueueNew(g) \/ QueueSame(g) \/ (\E m \in Answer : QueueGrows(g, m))
    \/ QueueSent(g) \/ QueuePartly(g)

(* A queue is new, stays, grows by one answer of its own player, or has    *)
(* its first message written, whole or in part.                            *)
LEMMA QueueSteps ==
    ASSUME AddrInv, [Next]_vars
    PROVE  \A g \in DOMAIN players' : QueueStep(g)
<1>1. /\ StepInv /\ TypeInv /\ GameType /\ KernelType /\ Seats /\ Callbacks /\ SilentBefore
      /\ \A g \in DOMAIN players : players[g] \in PlayerInfo /\ players[g].addr \in Addr
  BY TypeParts DEF AddrInv, StepInv, TypeInv, GameType, PlayerInfo
<1>2. ASSUME NEW g \in DOMAIN players, players'[g] = players[g], stopping' = stopping,
             got'[players[g].addr] = got[players[g].addr]
      PROVE  QueueStep(g)
  BY <1>2 DEF QueueStep, QueueSame, Stays
<1>3. CASE Quiet
  BY <1>2, <1>3 DEF Quiet, gameVars
<1>4. CASE Restarts
  BY <1>4 DEF Restarts
<1>5. ASSUME ~stopping, Tick \/ SkipEvent PROVE \A g \in DOMAIN players' : QueueStep(g)
  BY <1>2, <1>5 DEF Tick, SkipEvent
<1>6. ASSUME ~stopping, AnswerEvent PROVE \A g \in DOMAIN players' : QueueStep(g)
  <2> DEFINE e == events[1]
             m == MakeAnswer(e.kind, e.addr, e.approx)
  <2>1. /\ e \in Event /\ e.kind # "HELLO" /\ e.fd \in DOMAIN players
        /\ players[e.fd].addr = e.addr
        /\ m \in Answer /\ DOMAIN players' = DOMAIN players
        /\ players'[e.fd] = [players[e.fd] EXCEPT !.messages = Append(players[e.fd].messages, m),
                                                  !.can_put = TRUE]
        /\ \A g \in DOMAIN players : g # e.fd => players'[g] = players[g]
        /\ UNCHANGED <<stopping, got>> /\ events \in Seq(Event) /\ events # <<>>
    BY <1>1, <1>6, AnswerEffect
  <2>2. players[e.fd].is_known
    <3>1. 1 \in DOMAIN events
      BY <2>1, TailElements
    <3> QED  BY <1>1, <2>1, <3>1 DEF Callbacks
  <2>3. m.type = e.kind /\ m.owner = e.addr /\ ~m.rest /\ e.kind \notin {"COEFF", "SCORING"}
    BY <2>1 DEF MakeAnswer, Event, EventKind
  <2> HIDE DEF m, e
  <2>4. /\ players'[e.fd].addr = players[e.fd].addr
        /\ players'[e.fd].messages = Append(players[e.fd].messages, m)
        /\ players'[e.fd].is_known = players[e.fd].is_known
    BY <1>1, <2>1 DEF PlayerInfo
  <2>5. QueueGrows(e.fd, m)
    BY <1>6, <2>1, <2>2, <2>3, <2>4 DEF QueueGrows, Stays
  <2>6. QueueStep(e.fd)
    BY <2>1, <2>5 DEF QueueStep
  <2> QED  BY <1>2, <2>1, <2>6
<1>7. ASSUME ~stopping, NEW a \in Addr, Accept(a), sent' = sent
      PROVE  \A g \in DOMAIN players' : QueueStep(g)
  <2>1. PICK fd \in FD :
             /\ fd \notin DOMAIN players /\ DOMAIN players' = DOMAIN players \cup {fd}
             /\ players'[fd] = NewPlayer(a)
             /\ \A g \in DOMAIN players : players'[g] = players[g]
    BY <1>1, <1>7, AcceptEffect
  <2>2. conn[a].st = "backlog" /\ UNCHANGED <<stopping, got>>
    BY <1>7 DEF Accept
  <2>3. got'[a] = <<>>
    BY <1>1, <2>2 DEF SilentBefore
  <2>4. QueueNew(fd)
    BY <1>7, <2>1, <2>2, <2>3 DEF QueueNew, NewPlayer
  <2>5. QueueStep(fd)
    BY <2>4 DEF QueueStep
  <2> QED  BY <1>2, <2>1, <2>2, <2>5
<1>8. ASSUME ~stopping, NEW fd \in FD, NEW id \in PlayerId, ReadHello(fd, id), sent' = sent
      PROVE  \A g \in DOMAIN players' : QueueStep(g)
  <2> DEFINE m == MakeAnswer("COEFF", players[fd].addr, Zeros)
  <2>1. /\ fd \in DOMAIN players /\ DOMAIN players' = DOMAIN players
        /\ ~players[fd].is_known /\ m \in Answer
        /\ players'[fd] =
             [players[fd] EXCEPT !.messages = Append(players[fd].messages, m),
                 !.id = id, !.is_known = TRUE, !.can_put = TRUE, !.coefficients = coeff_file + 1]
        /\ \A g \in DOMAIN players : g # fd => players'[g] = players[g]
    BY <1>1, <1>8, HelloEffect
  <2>2. UNCHANGED <<stopping, got>>
    BY <1>8 DEF ReadHello
  <2>3. m.type = "COEFF" /\ m.owner = players[fd].addr /\ ~m.rest
    BY DEF MakeAnswer
  <2> HIDE DEF m
  <2>4. /\ players'[fd].addr = players[fd].addr
        /\ players'[fd].messages = Append(players[fd].messages, m) /\ players'[fd].is_known
    BY <1>1, <2>1 DEF PlayerInfo
  <2>5. QueueGrows(fd, m)
    BY <1>8, <2>1, <2>2, <2>3, <2>4 DEF QueueGrows, Stays
  <2>6. QueueStep(fd)
    BY <2>1, <2>5 DEF QueueStep
  <2> QED  BY <1>2, <2>1, <2>2, <2>6
<1>9. ASSUME ~stopping, NEW fd \in FD, NEW p \in Points, NEW v \in Values,
             ReadRejectedPut(fd, p, v), sent' = sent
      PROVE  \A g \in DOMAIN players' : QueueStep(g)
  <2> DEFINE m == MakeAnswer("PENALTY", players[fd].addr, Zeros)
             early == ~players[fd].can_put
  <2>1. /\ fd \in DOMAIN players /\ DOMAIN players' = DOMAIN players
        /\ players[fd].is_known /\ m \in Answer
        /\ players'[fd] = Rejected(players[fd], early, OutOfRange(p, v))
        /\ \A g \in DOMAIN players : g # fd => players'[g] = players[g]
    BY <1>1, <1>9, RejectedPutEffect
  <2>2. UNCHANGED <<stopping, got>>
    BY <1>9 DEF ReadRejectedPut
  <2>3. m.type = "PENALTY" /\ m.owner = players[fd].addr /\ ~m.rest
    BY DEF MakeAnswer
  <2>4. /\ players'[fd].addr = players[fd].addr /\ players'[fd].is_known = players[fd].is_known
        /\ players'[fd].messages = IF early THEN Append(players[fd].messages, m)
                                   ELSE players[fd].messages
    <3>1. players[fd] \in PlayerInfo
      BY <1>1, <2>1
    <3> HIDE DEF early
    <3>2. LET new == Rejected(players[fd], early, OutOfRange(p, v)) IN
          /\ new.addr = players[fd].addr /\ new.is_known = players[fd].is_known
          /\ new.messages = IF early
                            THEN Append(players[fd].messages,
                                        MakeAnswer("PENALTY", players[fd].addr, Zeros))
                            ELSE players[fd].messages
      BY <3>1, RejectedKeeps
    <3> QED  BY <2>1, <3>2
  <2> HIDE DEF m, early
  <2>5. CASE early
    <3>1. QueueGrows(fd, m)
      BY <1>9, <2>1, <2>2, <2>3, <2>4, <2>5 DEF QueueGrows, Stays
    <3> QED  BY <1>2, <2>1, <2>2, <3>1 DEF QueueStep
  <2>6. CASE ~early
    <3>1. QueueSame(fd)
      BY <1>9, <2>1, <2>2, <2>4, <2>6 DEF QueueSame, Stays
    <3> QED  BY <1>2, <2>1, <2>2, <3>1 DEF QueueStep
  <2> QED  BY <2>5, <2>6
<1>10. ASSUME ~stopping, NEW fd \in FD, NEW p \in Points, NEW v \in Values,
              ReadPut(fd, p, v), sent' = sent
       PROVE  \A g \in DOMAIN players' : QueueStep(g)
  <2>1. /\ fd \in DOMAIN players /\ DOMAIN players' = DOMAIN players
        /\ Improved(players[fd], p, v) \in PlayerInfo
        /\ players'[fd] = Final(Improved(players[fd], p, v), stopping')
        /\ \A g \in DOMAIN players : g # fd => players'[g] = Final(players[g], stopping')
        /\ TypeInv'
    BY <1>1, <1>10, PutEffect
  <2>2. got' = got
    BY <1>10 DEF ReadPut
  <2>3. stopping' \in BOOLEAN
    BY <2>1 DEF TypeInv, TypeOK
  <2>4. ASSUME NEW g \in DOMAIN players, NEW player \in PlayerInfo,
               players'[g] = Final(player, stopping'), player.addr = players[g].addr,
               player.messages = players[g].messages, player.is_known = players[g].is_known
        PROVE  QueueStep(g)
    <3> DEFINE m == MakeAnswer("SCORING", player.addr, Zeros)
    <3>1. m.type = "SCORING" /\ m.owner = players[g].addr /\ ~m.rest
      BY <2>4 DEF MakeAnswer
    <3>2. /\ players'[g].addr = players[g].addr /\ players'[g].is_known = players[g].is_known
          /\ players'[g].messages = IF stopping' /\ player.is_known
                                    THEN Append(players[g].messages, m)
                                    ELSE players[g].messages
      BY <2>3, <2>4, FinalKeeps
    <3>3. player.is_known => m \in Answer
      BY <2>3, FinalType
    <3> HIDE DEF m
    <3>4. CASE stopping' /\ player.is_known
      <4>1. QueueGrows(g, m)
        BY <1>10, <2>2, <2>4, <3>1, <3>2, <3>4 DEF QueueGrows, Stays
      <4> QED  BY <3>3, <3>4, <4>1 DEF QueueStep
    <3>5. CASE ~(stopping' /\ player.is_known)
      <4>1. QueueSame(g)
        BY <1>10, <2>2, <2>4, <3>2, <3>5 DEF QueueSame, Stays
      <4> QED  BY <4>1 DEF QueueStep
    <3> QED  BY <3>4, <3>5
  <2>5. QueueStep(fd)
    <3>1. /\ Improved(players[fd], p, v).addr = players[fd].addr
          /\ Improved(players[fd], p, v).messages = players[fd].messages
          /\ Improved(players[fd], p, v).is_known = players[fd].is_known
      BY <1>1, <2>1, ImprovedKeeps
    <3> QED  BY <2>1, <2>4, <3>1
  <2>6. ASSUME NEW g \in DOMAIN players, g # fd PROVE QueueStep(g)
    BY <1>1, <2>1, <2>4, <2>6
  <2> QED  BY <2>1, <2>5, <2>6
<1>11. ASSUME ~stopping, NEW whole \in BOOLEAN, Write(whole), sent' = sent
       PROVE  \A g \in DOMAIN players' : QueueStep(g)
  <2>1. PICK fd \in DOMAIN players :
             /\ players[fd].messages # <<>>
             /\ DOMAIN players' = DOMAIN players
             /\ players'[fd] =
                  [players[fd] EXCEPT !.messages =
                      IF whole THEN Tail(players[fd].messages)
                      ELSE append_message_front(Tail(players[fd].messages),
                              [Head(players[fd].messages) EXCEPT !.rest = TRUE])]
             /\ \A g \in DOMAIN players : g # fd => players'[g] = players[g]
             /\ got' = IF whole THEN [got EXCEPT ![players[fd].addr] =
                                         Append(@, Head(players[fd].messages).type)] ELSE got
             /\ stopping' = stopping
    BY <1>1, <1>11, WriteEffect
  <2>2. got \in [Addr -> Seq(AnswerType)]
    BY <1>1 DEF KernelType
  <2>3. /\ players'[fd].addr = players[fd].addr /\ players'[fd].is_known = players[fd].is_known
        /\ players'[fd].messages =
             IF whole THEN Tail(players[fd].messages)
             ELSE <<[Head(players[fd].messages) EXCEPT !.rest = TRUE]>> \o Tail(players[fd].messages)
    BY <1>1, <2>1 DEF PlayerInfo, append_message_front
  <2>4. ASSUME NEW g \in DOMAIN players, g # fd
        PROVE  got'[players[g].addr] = got[players[g].addr]
    <3>1. players[g].addr # players[fd].addr
      BY <1>1, <2>4 DEF Seats
    <3> QED  BY <2>1, <2>2, <3>1
  <2>5. QueueStep(fd)
    <3>1. CASE whole
      <4>1. got'[players[fd].addr] = Append(got[players[fd].addr], Head(players[fd].messages).type)
        BY <1>1, <2>1, <2>2, <3>1
      <4>2. QueueSent(fd)
        BY <1>11, <2>1, <2>3, <3>1, <4>1 DEF QueueSent, Stays
      <4> QED  BY <4>2 DEF QueueStep
    <3>2. CASE ~whole
      <4>1. got' = got
        BY <2>1, <3>2
      <4>2. QueuePartly(fd)
        BY <1>11, <2>1, <2>3, <3>2, <4>1 DEF QueuePartly, Stays
      <4> QED  BY <4>2 DEF QueueStep
    <3> QED  BY <3>1, <3>2
  <2> QED  BY <1>2, <2>1, <2>4, <2>5
<1>12. ASSUME ~stopping, NEW fd \in FD, Leaves(fd) PROVE \A g \in DOMAIN players' : QueueStep(g)
  <2>1. /\ fd \in DOMAIN players /\ DOMAIN players' = DOMAIN players \ {fd}
        /\ \A g \in DOMAIN players' : players'[g] = players[g]
        /\ got' = [got EXCEPT ![players[fd].addr] = <<>>]
        /\ stopping' = stopping
    BY <1>12 DEF Leaves
  <2>2. \A g \in DOMAIN players' : g \in DOMAIN players /\ players[g].addr # players[fd].addr
    BY <1>1, <2>1 DEF Seats
  <2>3. \A g \in DOMAIN players' : got'[players[g].addr] = got[players[g].addr]
    BY <1>1, <2>1, <2>2 DEF KernelType
  <2> QED  BY <1>2, <2>1, <2>2, <2>3
<1> QED  BY <1>1, <1>3, <1>4, <1>5, <1>6, <1>7, <1>8, <1>9, <1>10, <1>11, <1>12, Steps DEF Plays

-----------------------------------------------------------------------------
(* The queues *)

(* Elements of the sequences a queue step makes.                           *)
LEMMA AppendElements ==
    ASSUME NEW S, NEW s \in Seq(S), NEW e \in S
    PROVE  /\ Len(Append(s, e)) = Len(s) + 1 /\ Len(s) \in Nat
           /\ DOMAIN Append(s, e) = 1..(Len(s) + 1) /\ DOMAIN s = 1..Len(s)
           /\ \A k \in DOMAIN s : Append(s, e)[k] = s[k]
           /\ Append(s, e)[Len(s) + 1] = e
BY AppendProperties, LenProperties

(* The rest of a message put back in front of the others.                  *)
LEMMA FrontElements ==
    ASSUME NEW S, NEW s \in Seq(S), s # <<>>, NEW e \in S
    PROVE  LET t == <<e>> \o Tail(s) IN
           /\ t \in Seq(S) /\ Len(t) = Len(s) /\ DOMAIN t = DOMAIN s
           /\ t[1] = e
           /\ \A k \in DOMAIN s : k # 1 => t[k] = s[k]
<1>1. /\ Tail(s) \in Seq(S) /\ Len(Tail(s)) = Len(s) - 1 /\ Len(s) \in Nat \ {0}
      /\ \A k \in 1..Len(Tail(s)) : Tail(s)[k] = s[k + 1]
  BY HeadTailProperties, EmptySeq
<1> DEFINE h == <<e>>
           rest == Tail(s)
<1>2. h \in Seq(S) /\ Len(h) = 1 /\ h[1] = e
  OBVIOUS
<1> HIDE DEF h, rest
<1> DEFINE t == h \o rest
<1>3. /\ t \in Seq(S) /\ Len(t) = 1 + Len(rest)
      /\ \A k \in 1..(1 + Len(rest)) : t[k] = IF k <= 1 THEN h[k] ELSE rest[k - 1]
  <2>1. rest \in Seq(S)
    BY <1>1 DEF rest
  <2>2. /\ t \in Seq(S) /\ Len(t) = Len(h) + Len(rest)
        /\ \A k \in 1..(Len(h) + Len(rest)) : t[k] = IF k <= Len(h) THEN h[k] ELSE rest[k - Len(h)]
    BY <1>2, <2>1, ConcatProperties
  <2> QED  BY <1>2, <2>2
<1> HIDE DEF t
<1>4. DOMAIN t = 1..Len(s) /\ DOMAIN s = 1..Len(s) /\ Len(t) = Len(s)
  BY <1>1, <1>3 DEF rest
<1>5. t[1] = e
  BY <1>1, <1>2, <1>3 DEF rest
<1>6. ASSUME NEW k \in 1..Len(s), k # 1 PROVE t[k] = s[k]
  <2>1. k - 1 \in 1..Len(Tail(s)) /\ t[k] = Tail(s)[k - 1]
    BY <1>1, <1>3, <1>6 DEF rest
  <2> QED  BY <1>1, <2>1, <1>6
<1> QED  BY <1>3, <1>4, <1>5, <1>6 DEF t, h, rest

(* Every queue starts empty.                                               *)
LEMMA QueuesInit == Init => NoCrossTalk /\ RestOnlyAtHead /\ ScoringLast
BY DEF Init, NoCrossTalk, RestOnlyAtHead, ScoringLast

(* The queue of a player before and after a step.                          *)
LEMMA QueueTypes ==
    ASSUME AddrInv, [Next]_vars
    PROVE  /\ TypeInv' /\ \A g \in DOMAIN players' : players'[g].messages \in Seq(Answer)
           /\ \A g \in DOMAIN players : players[g].messages \in Seq(Answer)
           /\ \A g \in DOMAIN players' : QueueStep(g)
<1>1. TypeInv /\ TypeInv'
  BY TypeNext DEF AddrInv, StepInv
<1>2. GameType /\ GameType'
  BY <1>1, TypeParts, TypePartsPrime DEF TypeInv
<1>3. /\ \A g \in DOMAIN players' : players'[g].messages \in Seq(Answer)
      /\ \A g \in DOMAIN players : players[g].messages \in Seq(Answer)
  BY <1>2 DEF GameType, PlayerInfo
<1> QED  BY <1>1, <1>3, QueueSteps

(* A queue only ever holds what its own player is owed.                    *)
LEMMA CrossTalkNext == AddrInv /\ NoCrossTalk /\ [Next]_vars => NoCrossTalk'
<1> SUFFICES ASSUME AddrInv, NoCrossTalk, [Next]_vars, NEW g \in DOMAIN players'
             PROVE  \A k \in DOMAIN players'[g].messages :
                       players'[g].messages[k].owner = players'[g].addr
  BY DEF NoCrossTalk
<1> DEFINE q == players[g].messages
<1>1. QueueStep(g) /\ (g \in DOMAIN players => q \in Seq(Answer))
  BY QueueTypes
<1>2. CASE QueueNew(g)
  BY <1>2 DEF QueueNew
<1>3. CASE QueueSame(g)
  BY <1>3 DEF QueueSame, Stays, NoCrossTalk
<1>4. ASSUME NEW m \in Answer, QueueGrows(g, m)
      PROVE  \A k \in DOMAIN players'[g].messages :
                players'[g].messages[k].owner = players'[g].addr
  <2>1. /\ g \in DOMAIN players /\ players'[g].messages = Append(q, m)
        /\ m.owner = players[g].addr /\ players'[g].addr = players[g].addr
    BY <1>4 DEF QueueGrows, Stays
  <2>2. \A k \in DOMAIN q : q[k].owner = players[g].addr
    BY <2>1 DEF NoCrossTalk
  <2> HIDE DEF q
  <2> QED  BY <1>1, <2>1, <2>2, AppendElements
<1>5. CASE QueueSent(g)
  <2>1. /\ g \in DOMAIN players /\ q # <<>> /\ players'[g].messages = Tail(q)
        /\ players'[g].addr = players[g].addr
    BY <1>5 DEF QueueSent, Stays
  <2>2. \A k \in DOMAIN q : q[k].owner = players[g].addr
    BY <2>1 DEF NoCrossTalk
  <2> HIDE DEF q
  <2> QED  BY <1>1, <2>1, <2>2, TailElements
<1>6. CASE QueuePartly(g)
  <2> DEFINE h == [Head(q) EXCEPT !.rest = TRUE]
  <2>1. /\ g \in DOMAIN players /\ q # <<>> /\ players'[g].messages = <<h>> \o Tail(q)
        /\ players'[g].addr = players[g].addr
    BY <1>6 DEF QueuePartly, Stays
  <2>2. \A k \in DOMAIN q : q[k].owner = players[g].addr
    BY <2>1 DEF NoCrossTalk
  <2> HIDE DEF q
  <2>3. 1 \in DOMAIN q /\ q[1] \in Answer /\ Head(q) = q[1]
    BY <1>1, <2>1, TailElements
  <2>4. h \in Answer /\ h.owner = q[1].owner
    BY <2>3 DEF Answer
  <2> HIDE DEF h
  <2> QED  BY <1>1, <2>1, <2>2, <2>3, <2>4, FrontElements
<1> QED  BY <1>1, <1>2, <1>3, <1>4, <1>5, <1>6 DEF QueueStep

(* Only the first message of a queue may be half written.                  *)
LEMMA RestNext == AddrInv /\ RestOnlyAtHead /\ [Next]_vars => RestOnlyAtHead'
<1> SUFFICES ASSUME AddrInv, RestOnlyAtHead, [Next]_vars, NEW g \in DOMAIN players'
             PROVE  \A k \in DOMAIN players'[g].messages :
                       players'[g].messages[k].rest => k = 1
  BY DEF RestOnlyAtHead
<1> DEFINE q == players[g].messages
<1>1. QueueStep(g) /\ (g \in DOMAIN players => q \in Seq(Answer))
  BY QueueTypes
<1>2. CASE QueueNew(g)
  BY <1>2 DEF QueueNew
<1>3. CASE QueueSame(g)
  BY <1>3 DEF QueueSame, Stays, RestOnlyAtHead
<1>4. ASSUME NEW m \in Answer, QueueGrows(g, m)
      PROVE  \A k \in DOMAIN players'[g].messages : players'[g].messages[k].rest => k = 1
  <2>1. /\ g \in DOMAIN players /\ players'[g].messages = Append(q, m) /\ ~m.rest
    BY <1>4 DEF QueueGrows, Stays
  <2>2. \A k \in DOMAIN q : q[k].rest => k = 1
    BY <2>1 DEF RestOnlyAtHead
  <2> HIDE DEF q
  <2> QED  BY <1>1, <2>1, <2>2, AppendElements
<1>5. CASE QueueSent(g)
  <2>1. g \in DOMAIN players /\ q # <<>> /\ players'[g].messages = Tail(q)
    BY <1>5 DEF QueueSent, Stays
  <2>2. \A k \in DOMAIN q : q[k].rest => k = 1
    BY <2>1 DEF RestOnlyAtHead
  <2> HIDE DEF q
  <2>3. \A k \in DOMAIN Tail(q) : k + 1 \in DOMAIN q /\ Tail(q)[k] = q[k + 1] /\ k + 1 # 1
    BY <1>1, <2>1, TailElements
  <2> QED  BY <2>1, <2>2, <2>3
<1>6. CASE QueuePartly(g)
  <2> DEFINE h == [Head(q) EXCEPT !.rest = TRUE]
  <2>1. g \in DOMAIN players /\ q # <<>> /\ players'[g].messages = <<h>> \o Tail(q)
    BY <1>6 DEF QueuePartly, Stays
  <2>2. \A k \in DOMAIN q : q[k].rest => k = 1
    BY <2>1 DEF RestOnlyAtHead
  <2> HIDE DEF q
  <2>3. Head(q) \in Answer
    BY <1>1, <2>1, HeadTailProperties
  <2>4. h \in Answer
    BY <2>3 DEF Answer
  <2> HIDE DEF h
  <2> QED  BY <1>1, <2>1, <2>2, <2>4, FrontElements
<1> QED  BY <1>1, <1>2, <1>3, <1>4, <1>5, <1>6 DEF QueueStep

(* SCORING is the last thing queued.                                       *)
LEMMA ScoringNext == AddrInv /\ ScoringLast /\ [Next]_vars => ScoringLast'
<1> SUFFICES ASSUME AddrInv, ScoringLast, [Next]_vars, NEW g \in DOMAIN players'
             PROVE  {k \in DOMAIN players'[g].messages : players'[g].messages[k].type = "SCORING"}
                      = IF stopping' /\ players'[g].is_known THEN {Len(players'[g].messages)} ELSE {}
  BY DEF ScoringLast
<1> DEFINE q == players[g].messages
           new == players'[g].messages
           Scorings(s) == {k \in DOMAIN s : s[k].type = "SCORING"}
<1>1. QueueStep(g) /\ (g \in DOMAIN players => q \in Seq(Answer))
  BY QueueTypes
<1>2. g \in DOMAIN players =>
        Scorings(q) = IF stopping /\ players[g].is_known THEN {Len(q)} ELSE {}
  BY DEF ScoringLast
<1>3. CASE QueueNew(g)
  BY <1>3 DEF QueueNew
<1>4. CASE QueueSame(g)
  BY <1>2, <1>4 DEF QueueSame, Stays
<1>5. ASSUME NEW m \in Answer, QueueGrows(g, m)
      PROVE  Scorings(new) = IF stopping' /\ players'[g].is_known THEN {Len(new)} ELSE {}
  <2>1. /\ g \in DOMAIN players /\ new = Append(q, m) /\ players'[g].is_known
        /\ ~stopping /\ (stopping' <=> m.type = "SCORING")
    BY <1>5 DEF QueueGrows, Stays
  <2>2. \A k \in DOMAIN q : q[k].type # "SCORING"
    BY <1>2, <2>1
  <2> HIDE DEF q, new
  <2>3. /\ Len(new) = Len(q) + 1 /\ DOMAIN new = 1..(Len(q) + 1) /\ Len(q) \in Nat
        /\ \A k \in 1..Len(q) : new[k].type # "SCORING"
        /\ new[Len(q) + 1] = m
    BY <1>1, <2>1, <2>2, AppendElements
  <2>4. CASE m.type = "SCORING"
    <3>1. \A k \in DOMAIN new : new[k].type = "SCORING" <=> k = Len(new)
      BY <2>3, <2>4
    <3>2. Len(new) \in DOMAIN new
      BY <2>3
    <3>3. Scorings(new) = {Len(new)}
      BY <3>1, <3>2
    <3> QED  BY <2>1, <2>4, <3>3
  <2>5. CASE m.type # "SCORING"
    <3>1. \A k \in DOMAIN new : new[k].type # "SCORING"
      BY <2>3, <2>5
    <3>2. Scorings(new) = {}
      BY <3>1
    <3> QED  BY <2>1, <2>5, <3>2
  <2> QED  BY <2>4, <2>5
<1>6. CASE QueueSent(g)
  <2>1. g \in DOMAIN players /\ q # <<>> /\ new = Tail(q) /\ ~stopping /\ ~stopping'
    BY <1>6 DEF QueueSent, Stays
  <2>2. \A k \in DOMAIN q : q[k].type # "SCORING"
    BY <1>2, <2>1
  <2> HIDE DEF q, new
  <2>3. \A k \in DOMAIN new : new[k].type # "SCORING"
    BY <1>1, <2>1, <2>2, TailElements
  <2>4. Scorings(new) = {}
    BY <2>3
  <2> QED  BY <2>1, <2>4 DEF new
<1>7. CASE QueuePartly(g)
  <2> DEFINE h == [Head(q) EXCEPT !.rest = TRUE]
  <2>1. g \in DOMAIN players /\ q # <<>> /\ new = <<h>> \o Tail(q) /\ ~stopping /\ ~stopping'
    BY <1>7 DEF QueuePartly, Stays
  <2>2. \A k \in DOMAIN q : q[k].type # "SCORING"
    BY <1>2, <2>1
  <2> HIDE DEF q, new
  <2>3. 1 \in DOMAIN q /\ q[1] \in Answer /\ Head(q) = q[1]
    BY <1>1, <2>1, TailElements
  <2>4. h \in Answer /\ h.type = q[1].type
    BY <2>3 DEF Answer
  <2> HIDE DEF h
  <2>5. \A k \in DOMAIN new : new[k].type # "SCORING"
    BY <1>1, <2>1, <2>2, <2>3, <2>4, FrontElements
  <2>6. Scorings(new) = {}
    BY <2>5
  <2> QED  BY <2>1, <2>6 DEF new
<1> QED  BY <1>1, <1>3, <1>4, <1>5, <1>6, <1>7 DEF QueueStep

(* No answer is ever queued for another client than the one it answers,    *)
(* however soon a descriptor is reused: validate_client is enough.         *)
THEOREM NoAnswerStrays == Spec => []NoCrossTalk
<1>1. Init => NoCrossTalk
  BY QueuesInit
<1> QED  BY <1>1, CrossTalkNext, AddrInvariant, PTL DEF Spec

(* A half written message stays in front, so messages never mix.           *)
THEOREM RestStaysFirst == Spec => []RestOnlyAtHead
<1>1. Init => RestOnlyAtHead
  BY QueuesInit
<1> QED  BY <1>1, RestNext, AddrInvariant, PTL DEF Spec

(* At the end of the game every known player has exactly one SCORING       *)
(* queued, behind everything else, and nobody has one before that.         *)
THEOREM ScoringComesLast == Spec => []ScoringLast
<1>1. Init => ScoringLast
  BY QueuesInit
<1> QED  BY <1>1, ScoringNext, AddrInvariant, PTL DEF Spec

=============================================================================
