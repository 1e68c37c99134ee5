------------------------- MODULE ApproxServerProofs -------------------------
(***************************************************************************)
(* Proofs about ApproxServer, for any number of clients, descriptors,      *)
(* players, points and lines.                                              *)
(***************************************************************************)
EXTENDS ApproxServer, FiniteSetTheorems, SequenceTheorems, TLAPS

-----------------------------------------------------------------------------
(* Sequences *)

(* What poll_fds.erase leaves: the others, in order.                       *)
LEMMA EraseProperties ==
    ASSUME NEW S, NEW s \in Seq(S), NEW k \in 1..Len(s)
    PROVE  /\ Erase(s, k) \in Seq(S)
           /\ Len(Erase(s, k)) = Len(s) - 1
           /\ \A j \in 1..(Len(s) - 1) : Erase(s, k)[j] = IF j < k THEN s[j] ELSE s[j + 1]
<1> DEFINE front == SubSeq(s, 1, k - 1)
           back  == SubSeq(s, k + 1, Len(s))
<1>1. /\ front \in Seq(S) /\ Len(front) = k - 1
      /\ \A j \in 1..(k - 1) : front[j] = s[j]
  BY SubSeqProperties
<1>2. /\ back \in Seq(S) /\ Len(back) = Len(s) - k
      /\ \A j \in 1..(Len(s) - k) : back[j] = s[k + j]
  BY SubSeqProperties
<1> HIDE DEF front, back
<1>3. Erase(s, k) = front \o back
  BY DEF Erase, front, back
<1>4. /\ front \o back \in Seq(S)
      /\ Len(front \o back) = Len(front) + Len(back)
      /\ \A j \in 1..(Len(front) + Len(back)) :
            (front \o back)[j] = IF j <= Len(front) THEN front[j] ELSE back[j - Len(front)]
  BY <1>1, <1>2, ConcatProperties
<1> QED  BY <1>1, <1>2, <1>3, <1>4

(* What a multimap holds after an insertion behind its first n elements.   *)
LEMMA InsertProperties ==
    ASSUME NEW S, NEW s \in Seq(S), NEW e \in S, NEW n \in 0..Len(s)
    PROVE  /\ InsertBehind(s, e, n) \in Seq(S)
           /\ Len(InsertBehind(s, e, n)) = Len(s) + 1
           /\ \A j \in 1..(Len(s) + 1) :
                InsertBehind(s, e, n)[j] =
                    IF j <= n THEN s[j] ELSE IF j = n + 1 THEN e ELSE s[j - 1]
<1> DEFINE front == SubSeq(s, 1, n)
           back  == SubSeq(s, n + 1, Len(s))
           mid   == front \o <<e>>
<1>1. /\ front \in Seq(S) /\ Len(front) = n
      /\ \A j \in 1..n : front[j] = s[j]
  BY SubSeqProperties
<1>2. /\ back \in Seq(S) /\ Len(back) = Len(s) - n
      /\ \A j \in 1..(Len(s) - n) : back[j] = s[n + j]
  BY SubSeqProperties
<1> HIDE DEF front, back
<1>3. /\ mid \in Seq(S) /\ Len(mid) = n + 1
      /\ \A j \in 1..n : mid[j] = s[j]
      /\ mid[n + 1] = e
  BY <1>1
<1>4. InsertBehind(s, e, n) = mid \o back
  BY DEF InsertBehind, front, back
<1> HIDE DEF mid
<1>5. /\ mid \o back \in Seq(S)
      /\ Len(mid \o back) = Len(mid) + Len(back)
      /\ \A j \in 1..(Len(mid) + Len(back)) :
            (mid \o back)[j] = IF j <= Len(mid) THEN mid[j] ELSE back[j - Len(mid)]
  BY <1>3, <1>2, ConcatProperties
<1>6. ASSUME NEW j \in 1..(Len(s) + 1)
      PROVE  (mid \o back)[j] = IF j <= n THEN s[j] ELSE IF j = n + 1 THEN e ELSE s[j - 1]
  <2>0. j <= n \/ j = n + 1 \/ j > n + 1
    OBVIOUS
  <2>1. CASE j <= n
    BY <2>1, <1>2, <1>3, <1>5
  <2>2. CASE j = n + 1
    BY <2>2, <1>2, <1>3, <1>5
  <2>3. CASE j > n + 1
    <3>1. (mid \o back)[j] = back[j - (n + 1)] /\ j - (n + 1) \in 1..(Len(s) - n)
      BY <2>3, <1>2, <1>3, <1>5
    <3> QED  BY <2>3, <3>1, <1>2
  <2> QED  BY <2>0, <2>1, <2>2, <2>3
<1>7. Len(mid \o back) = Len(s) + 1
  BY <1>2, <1>3, <1>5
<1> QED  BY <1>4, <1>5, <1>6, <1>7

(* The size of an initial segment of the numbers.                          *)
LEMMA SegmentSize ==
    ASSUME NEW n \in Nat
    PROVE  IsFiniteSet(1..n) /\ Cardinality(1..n) = n
<1>1. 1 \in Int /\ n \in Int
  OBVIOUS
<1>2. IsFiniteSet(1..n) /\ Cardinality(1..n) = IF 1 > n THEN 0 ELSE n - 1 + 1
  BY <1>1, FS_Interval
<1> QED  BY <1>2

(* add_event inserts somewhere.                                            *)
LEMMA AddEventInserts ==
    ASSUME NEW S, NEW evs \in Seq(S), NEW ev
    PROVE  \E n \in 0..Len(evs) : add_event(evs, ev) = InsertBehind(evs, ev, n)
<1>1. IsFiniteSet(DOMAIN evs) /\ Cardinality(DOMAIN evs) = Len(evs)
  <2>1. DOMAIN evs = 1..Len(evs) /\ Len(evs) \in Nat
    BY LenProperties
  <2>2. IsFiniteSet(1..Len(evs)) /\ Cardinality(1..Len(evs)) = Len(evs)
    BY <2>1, SegmentSize
  <2> QED  BY <2>1, <2>2
<1>2. NotLater(evs, ev) \in SUBSET DOMAIN evs
  BY DEF NotLater
<1>3. IsFiniteSet(NotLater(evs, ev)) /\ Cardinality(NotLater(evs, ev)) <= Len(evs)
  BY <1>1, <1>2, FS_Subset
<1>4. Cardinality(NotLater(evs, ev)) \in 0..Len(evs)
  BY <1>3, FS_CardinalityType
<1> QED  BY <1>4 DEF add_event

(* The events after add_event: the old ones and the new one.               *)
LEMMA AddEventProperties ==
    ASSUME NEW S, NEW evs \in Seq(S), NEW ev \in S
    PROVE  /\ add_event(evs, ev) \in Seq(S)
           /\ \A k \in DOMAIN evs : \E j \in DOMAIN add_event(evs, ev) :
                 add_event(evs, ev)[j] = evs[k]
           /\ \E j \in DOMAIN add_event(evs, ev) : add_event(evs, ev)[j] = ev
           /\ \A j \in DOMAIN add_event(evs, ev) :
                 \/ add_event(evs, ev)[j] = ev
                 \/ \E k \in DOMAIN evs : add_event(evs, ev)[j] = evs[k]
<1>1. PICK n \in 0..Len(evs) : add_event(evs, ev) = InsertBehind(evs, ev, n)
  BY AddEventInserts
<1>2. n \in 0..Len(evs)
  BY <1>1
<1> DEFINE new == InsertBehind(evs, ev, n)
<1>3. /\ new \in Seq(S) /\ Len(new) = Len(evs) + 1
      /\ \A j \in 1..(Len(evs) + 1) :
            new[j] = IF j <= n THEN evs[j] ELSE IF j = n + 1 THEN ev ELSE evs[j - 1]
  BY <1>2, InsertProperties
<1> HIDE DEF new
<1>4. DOMAIN new = 1..(Len(evs) + 1) /\ DOMAIN evs = 1..Len(evs)
  BY <1>3
<1>5. ASSUME NEW k \in DOMAIN evs PROVE \E j \in DOMAIN new : new[j] = evs[k]
  <2>1. CASE k <= n
    BY <2>1, <1>2, <1>3, <1>4
  <2>2. CASE k > n
    <3>1. k + 1 \in DOMAIN new /\ new[k + 1] = evs[k]
      BY <2>2, <1>2, <1>3, <1>4
    <3> QED  BY <3>1
  <2> QED  BY <2>1, <2>2, <1>2, <1>4
<1>6. n + 1 \in DOMAIN new /\ new[n + 1] = ev
  BY <1>2, <1>3, <1>4
<1>7. ASSUME NEW j \in DOMAIN new PROVE new[j] = ev \/ \E k \in DOMAIN evs : new[j] = evs[k]
  <2>1. CASE j <= n
    BY <2>1, <1>2, <1>3, <1>4
  <2>2. CASE j = n + 1
    BY <2>2, <1>6
  <2>3. CASE j > n + 1
    <3>1. j - 1 \in DOMAIN evs /\ new[j] = evs[j - 1]
      BY <2>3, <1>2, <1>3, <1>4
    <3> QED  BY <3>1
  <2> QED  BY <2>1, <2>2, <2>3, <1>2, <1>4
<1> QED  BY <1>1, <1>3, <1>5, <1>6, <1>7 DEF new

-----------------------------------------------------------------------------
(* Type correctness, with what poll_fds and the loop index need to keep it *)

(* i is where the reference pollfd points, but for a client dropped while  *)
(* its lines were read: then main() goes on to the write with i one less.  *)
Index ==
    /\ pc \in {"poll", "timers", "accept", "clients", "read"} => i = slot
    /\ pc = "read" => i <= Len(poll_fds)
    /\ pc = "write" => i = slot \/ i = slot - 1

(* A player that is known has said who it is.                              *)
KnownHasId ==
    \A fd \in DOMAIN players : players[fd].is_known => players[fd].id \in PlayerId

TypeInv == TypeOK /\ PollMirrorsPlayers /\ Index /\ KnownHasId

(* The server main() starts with is well formed.                           *)
LEMMA TypeInit == Init => TypeInv
<1> SUFFICES ASSUME Init PROVE TypeInv
  OBVIOUS
<1>1. TypeOK
  <2>1. conn \in [Addr -> Connection]
    BY DEF Init, Connection
  <2>2. /\ client_buffers \in [FD -> Seq(ClientLine)]
        /\ got \in [Addr -> Seq(AnswerType)]
        /\ revents \in [FD -> SUBSET {"IN", "OUT", "HUP"}]
    BY DEF Init
  <2>3. events \in Seq(Event) /\ poll_fds \in Seq(FD)
    BY DEF Init
  <2>4. coeff_file \in 0..CoeffLines
    BY ServerAssumption DEF Init
  <2>5. DOMAIN players \subseteq FD /\ \A fd \in DOMAIN players : players[fd] \in PlayerInfo
    BY DEF Init
  <2>6. pollout \subseteq FD /\ sent \in Nat /\ total_correct_puts \in Int
        /\ i \in Nat /\ slot \in Nat \ {0}
    BY DEF Init
  <2>7. pc = "poll" /\ stopping = FALSE
    BY DEF Init
  <2> QED  BY <2>1, <2>2, <2>3, <2>4, <2>5, <2>6, <2>7 DEF TypeOK
<1>2. PollMirrorsPlayers
  BY DEF Init, PollMirrorsPlayers, Range
<1> QED  BY <1>1, <1>2 DEF Init, TypeInv, Index, KnownHasId

(* The entries of poll_fds are the descriptors of the players.             *)
LEMMA PolledIsPlayer ==
    ASSUME TypeOK, PollMirrorsPlayers, NEW k \in 1..Len(poll_fds)
    PROVE  /\ poll_fds[k] \in DOMAIN players /\ poll_fds[k] \in FD
           /\ players[poll_fds[k]] \in PlayerInfo
           /\ players[poll_fds[k]].addr \in Addr
<1>1. k \in DOMAIN poll_fds
  BY DEF TypeOK
<1>2. poll_fds[k] \in DOMAIN players
  BY <1>1 DEF PollMirrorsPlayers, Range
<1> QED  BY <1>2 DEF TypeOK, PlayerInfo

(* A connection stays well formed when it is closed.                       *)
LEMMA ClosedConnection ==
    ASSUME NEW c \in Connection
    PROVE  [c EXCEPT !.st = "closed", !.inq = <<>>] \in Connection
BY EmptySeq DEF Connection

(* disconnect_client takes the client out of every table, the others stay. *)
LEMMA Disconnect ==
    ASSUME TypeOK, PollMirrorsPlayers, NEW k \in 1..Len(poll_fds),
           NEW fd, fd = poll_fds[k], disconnect_client(fd, k)
    PROVE  /\ conn' \in [Addr -> Connection]
           /\ DOMAIN players' = DOMAIN players \ {fd}
           /\ \A g \in DOMAIN players' : players'[g] = players[g]
           /\ total_correct_puts' \in Int
           /\ poll_fds' \in Seq(FD) /\ Len(poll_fds') = Len(poll_fds) - 1
           /\ pollout' \subseteq FD
           /\ revents' \in [FD -> SUBSET {"IN", "OUT", "HUP"}]
           /\ client_buffers' \in [FD -> Seq(ClientLine)]
           /\ got' \in [Addr -> Seq(AnswerType)]
           /\ PollMirrorsPlayers'
<1>1. fd \in DOMAIN players /\ fd \in FD /\ players[fd] \in PlayerInfo
      /\ players[fd].addr \in Addr
  BY PolledIsPlayer
<1>2. /\ DOMAIN players' = DOMAIN players \ {fd}
      /\ \A g \in DOMAIN players' : players'[g] = players[g]
      /\ total_correct_puts' = total_correct_puts - players[fd].correct_puts
      /\ conn' = [conn EXCEPT ![players[fd].addr] = [@ EXCEPT !.st = "closed", !.inq = <<>>]]
      /\ got' = [got EXCEPT ![players[fd].addr] = <<>>]
      /\ poll_fds' = Erase(poll_fds, k)
      /\ pollout' = pollout \ {fd}
      /\ revents' = [revents EXCEPT ![fd] = {}]
      /\ client_buffers' = [client_buffers EXCEPT ![fd] = <<>>]
  BY DEF disconnect_client, handle_client_disconnect, Closed
<1>3. total_correct_puts' \in Int
  <2>1. players[fd].correct_puts \in Int
    BY <1>1 DEF PlayerInfo
  <2> QED  BY <1>2, <2>1 DEF TypeOK
<1>4. conn' \in [Addr -> Connection]
  <2>1. conn[players[fd].addr] \in Connection
    BY <1>1 DEF TypeOK
  <2>2. [conn[players[fd].addr] EXCEPT !.st = "closed", !.inq = <<>>] \in Connection
    BY <2>1, ClosedConnection
  <2> QED  BY <1>2, <2>2 DEF TypeOK
<1>5. /\ poll_fds' \in Seq(FD) /\ Len(poll_fds') = Len(poll_fds) - 1
      /\ \A j \in 1..(Len(poll_fds) - 1) :
            poll_fds'[j] = IF j < k THEN poll_fds[j] ELSE poll_fds[j + 1]
  <2>1. poll_fds \in Seq(FD)
    BY DEF TypeOK
  <2> QED  BY <1>2, <2>1, EraseProperties
<1>6. /\ pollout' \subseteq FD
      /\ revents' \in [FD -> SUBSET {"IN", "OUT", "HUP"}]
      /\ client_buffers' \in [FD -> Seq(ClientLine)]
      /\ got' \in [Addr -> Seq(AnswerType)]
  <2>1. pollout' \subseteq FD /\ revents' \in [FD -> SUBSET {"IN", "OUT", "HUP"}]
    BY <1>1, <1>2 DEF TypeOK
  <2>2. /\ client_buffers' \in [FD -> Seq(ClientLine)]
        /\ got' \in [Addr -> Seq(AnswerType)]
    BY <1>1, <1>2 DEF TypeOK
  <2> QED  BY <2>1, <2>2
<1>7. /\ DOMAIN poll_fds = 1..Len(poll_fds) /\ Len(poll_fds) \in Nat
      /\ DOMAIN poll_fds' = 1..(Len(poll_fds) - 1)
  BY <1>5 DEF TypeOK
<1> DEFINE at(j) == IF j < k THEN j ELSE j + 1
<1>8. ASSUME NEW j \in DOMAIN poll_fds'
      PROVE  at(j) \in DOMAIN poll_fds /\ at(j) # k /\ poll_fds'[j] = poll_fds[at(j)]
  BY <1>5, <1>7
<1>9. ASSUME NEW m \in DOMAIN poll_fds, m # k
      PROVE  \E j \in DOMAIN poll_fds' : at(j) = m
  <2>1. CASE m < k
    BY <2>1, <1>7
  <2>2. CASE m > k
    <3>1. m - 1 \in DOMAIN poll_fds' /\ at(m - 1) = m
      BY <2>2, <1>7
    <3> QED  BY <3>1
  <2> QED  BY <2>1, <2>2, <1>7, <1>9
<1>13. \A j, m \in DOMAIN poll_fds' : j # m => at(j) # at(m)
  BY <1>7
<1> HIDE DEF at
<1>14. \A m \in DOMAIN poll_fds : m # k => poll_fds[m] # fd
  BY <1>7 DEF PollMirrorsPlayers
<1>10. Range(poll_fds') = DOMAIN players'
  <2>1. Range(poll_fds') = {poll_fds[m] : m \in DOMAIN poll_fds \ {k}}
    BY <1>8, <1>9 DEF Range
  <2>2. {poll_fds[m] : m \in DOMAIN poll_fds \ {k}} = Range(poll_fds) \ {fd}
    BY <1>7, <1>14 DEF Range
  <2> QED  BY <1>2, <2>1, <2>2 DEF PollMirrorsPlayers
<1>11. \A j, m \in DOMAIN poll_fds' : j # m => poll_fds'[j] # poll_fds'[m]
  BY <1>8, <1>13 DEF PollMirrorsPlayers
<1>12. PollMirrorsPlayers'
  BY <1>2, <1>10, <1>11 DEF PollMirrorsPlayers
<1> QED  BY <1>2, <1>3, <1>4, <1>5, <1>6, <1>12

(* TypeOK by the part of the program that keeps the variables.             *)
GameType ==
    /\ DOMAIN players \subseteq FD
    /\ \A fd \in DOMAIN players : players[fd] \in PlayerInfo
    /\ total_correct_puts \in Int
    /\ stopping \in BOOLEAN
    /\ coeff_file \in 0..CoeffLines
    /\ events \in Seq(Event)
PollType ==
    /\ poll_fds \in Seq(FD)
    /\ pollout \subseteq FD
    /\ revents \in [FD -> SUBSET {"IN", "OUT", "HUP"}]
    /\ client_buffers \in [FD -> Seq(ClientLine)]
KernelType ==
    /\ conn \in [Addr -> Connection]
    /\ sent \in Nat
    /\ got \in [Addr -> Seq(AnswerType)]
LoopType ==
    /\ pc \in {"poll", "timers", "accept", "clients", "read", "write", "exited", "crashed"}
    /\ i \in Nat /\ slot \in Nat \ {0}

(* The parts make the whole, before a step.                                *)
LEMMA TypeParts == TypeOK <=> GameType /\ PollType /\ KernelType /\ LoopType
BY DEF TypeOK, GameType, PollType, KernelType, LoopType

(* The parts make the whole, after a step.                                 *)
LEMMA TypePartsPrime == TypeOK' <=> GameType' /\ PollType' /\ KernelType' /\ LoopType'
BY DEF TypeOK, GameType, PollType, KernelType, LoopType

(* What a step leaves alone stays well formed.                             *)
LEMMA GameSame ==
    ASSUME TypeInv, UNCHANGED gameVars
    PROVE  GameType' /\ KnownHasId'
<1>1. GameType /\ KnownHasId
  BY TypeParts DEF TypeInv
<1> QED  BY <1>1 DEF gameVars, GameType, KnownHasId

(* The same for the tables of the poll loop.                               *)
LEMMA MirrorSame ==
    ASSUME TypeInv, poll_fds' = poll_fds, pollout' \subseteq DOMAIN players,
           DOMAIN players' = DOMAIN players
    PROVE  PollMirrorsPlayers'
BY DEF TypeInv, PollMirrorsPlayers, Range

(* Steps of the clients.                                                   *)
LEMMA ClientsType == TypeInv /\ Clients => TypeInv'
<1> SUFFICES ASSUME TypeInv, NEW a \in Addr,
                    \/ Connect(a)
                    \/ \E line \in ClientLine : SendLine(a, line)
                    \/ \E how \in {"fin", "rst"} : Hangup(a, how)
             PROVE  TypeInv'
  BY DEF Clients
<1>1. GameType /\ PollType /\ KernelType /\ LoopType /\ PollMirrorsPlayers /\ Index
  BY TypeParts DEF TypeInv
<1>2. /\ UNCHANGED <<gameVars, pollVars, pc, i, slot, got>>
      /\ sent' \in Nat
  BY <1>1 DEF Connect, SendLine, Hangup, KernelType
<1>3. conn[a] \in Connection
  BY <1>1 DEF KernelType
<1>4. conn' \in [Addr -> Connection]
  <2>1. CASE Connect(a)
    BY <1>1, <1>3, <2>1 DEF Connect, KernelType, Connection
  <2>2. ASSUME NEW line \in ClientLine, SendLine(a, line) PROVE conn' \in [Addr -> Connection]
    <3>1. Append(conn[a].inq, line) \in Seq(ClientLine)
      BY <1>3 DEF Connection
    <3> QED  BY <1>1, <1>3, <2>2, <3>1 DEF SendLine, KernelType, Connection
  <2>3. ASSUME NEW how \in {"fin", "rst"}, Hangup(a, how) PROVE conn' \in [Addr -> Connection]
    BY <1>1, <1>3, <2>3 DEF Hangup, KernelType, Connection
  <2> QED  BY <2>1, <2>2, <2>3
<1>5. GameType' /\ KnownHasId'
  BY <1>2, GameSame
<1>6. PollType' /\ KernelType' /\ LoopType'
  BY <1>1, <1>2, <1>4 DEF pollVars, PollType, KernelType, LoopType
<1>7. PollMirrorsPlayers'
  BY <1>1, <1>2, MirrorSame DEF gameVars, pollVars, PollMirrorsPlayers
<1>8. Index'
  BY <1>1, <1>2 DEF Index, pollVars
<1> QED  BY <1>5, <1>6, <1>7, <1>8, TypePartsPrime DEF TypeInv

(* A step that changes one player.                                         *)
LEMMA OnePlayer ==
    ASSUME TypeInv, NEW fd \in DOMAIN players, NEW p \in PlayerInfo,
           p.is_known => p.id \in PlayerId, players' = [players EXCEPT ![fd] = p]
    PROVE  /\ DOMAIN players' = DOMAIN players /\ DOMAIN players' \subseteq FD
           /\ \A g \in DOMAIN players' : players'[g] \in PlayerInfo
           /\ players'[fd] = p
           /\ \A g \in DOMAIN players : g # fd => players'[g] = players[g]
           /\ KnownHasId'
BY TypeParts DEF TypeInv, GameType, KnownHasId

(* A queued answer is well formed.                                         *)
LEMMA MadeAnswer ==
    ASSUME NEW type \in AnswerType, NEW owner \in Addr, NEW approx \in Approximation
    PROVE  MakeAnswer(type, owner, approx) \in Answer
BY DEF MakeAnswer, Answer

(* So is an all zero approximation.                                        *)
LEMMA ZerosType == Zeros \in Approximation
BY DEF Zeros, Approximation

(* An answer goes behind the others of the player.                         *)
LEMMA AppendedMessage ==
    ASSUME NEW p \in PlayerInfo, NEW m \in Answer
    PROVE  /\ append_message_back(p, m) \in PlayerInfo
           /\ append_message_back(p, m) = [p EXCEPT !.messages = Append(p.messages, m)]
<1>1. Append(p.messages, m) \in Seq(Answer)
  BY DEF PlayerInfo
<1> QED  BY <1>1 DEF append_message_back, PlayerInfo

(* The first event.                                                        *)
LEMMA FirstEvent ==
    ASSUME TypeInv, Due
    PROVE  /\ events[1] \in Event /\ Tail(events) \in Seq(Event)
           /\ events # <<>> /\ Len(events) \in Nat \ {0}
<1>1. events \in Seq(Event) /\ events # <<>>
  BY TypeParts DEF TypeInv, GameType, Due
<1> QED  BY <1>1, HeadTailProperties, EmptySeq

(* The callback of respond_with_state and respond_with_bad_put.            *)
LEMMA AnsweredType ==
    ASSUME NEW p \in PlayerInfo, NEW e \in Event, e.kind # "HELLO"
    PROVE  /\ Answered(p, e) \in PlayerInfo
           /\ Answered(p, e) =
                [p EXCEPT !.messages = Append(p.messages, MakeAnswer(e.kind, e.addr, e.approx)),
                          !.can_put = TRUE]
<1> DEFINE m == MakeAnswer(e.kind, e.addr, e.approx)
<1>1. m \in Answer
  BY MadeAnswer DEF Event, EventKind, AnswerType
<1> HIDE DEF m
<1>2. /\ append_message_back(p, m) \in PlayerInfo
      /\ append_message_back(p, m) = [p EXCEPT !.messages = Append(p.messages, m)]
  BY <1>1, AppendedMessage
<1>3. Answered(p, e) = [append_message_back(p, m) EXCEPT !.can_put = TRUE]
  BY DEF Answered, m
<1>4. [append_message_back(p, m) EXCEPT !.can_put = TRUE]
        = [p EXCEPT !.messages = Append(p.messages, m), !.can_put = TRUE]
  BY <1>2 DEF PlayerInfo
<1>5. [append_message_back(p, m) EXCEPT !.can_put = TRUE] \in PlayerInfo
  BY <1>2 DEF PlayerInfo
<1> QED  BY <1>3, <1>4, <1>5 DEF m

(* The timers.                                                             *)
LEMMA TimersType ==
    TypeInv /\ (SkipEvent \/ AnswerEvent \/ HelloTimeout \/ EndTimers) /\ sent' = sent => TypeInv'
<1> SUFFICES ASSUME TypeInv, SkipEvent \/ AnswerEvent \/ HelloTimeout \/ EndTimers, sent' = sent
             PROVE  TypeInv'
  OBVIOUS
<1>1. GameType /\ PollType /\ KernelType /\ LoopType /\ PollMirrorsPlayers /\ Index /\ KnownHasId
  BY TypeParts DEF TypeInv
<1>2. CASE SkipEvent
  <2>1. Tail(events) \in Seq(Event)
    BY <1>2, FirstEvent DEF SkipEvent
  <2>2. GameType' /\ KnownHasId'
    BY <1>1, <1>2, <2>1 DEF SkipEvent, GameType, KnownHasId
  <2>3. PollType' /\ KernelType' /\ LoopType' /\ Index'
    BY <1>1, <1>2 DEF SkipEvent, pollVars, PollType, KernelType, LoopType, Index
  <2>4. PollMirrorsPlayers'
    BY <1>1, <1>2, MirrorSame DEF SkipEvent, pollVars, PollMirrorsPlayers
  <2> QED  BY <2>2, <2>3, <2>4, TypePartsPrime DEF TypeInv
<1>3. CASE AnswerEvent
  <2> DEFINE e == events[1]
  <2>1. /\ e \in Event /\ e.kind # "HELLO" /\ e.fd \in DOMAIN players
        /\ players' = [players EXCEPT ![e.fd] = Answered(@, e)]
        /\ events' = Tail(events) /\ Tail(events) \in Seq(Event)
        /\ UNCHANGED <<conn, total_correct_puts, stopping, coeff_file, pollVars, pc, i, slot, got>>
    BY <1>3, FirstEvent DEF AnswerEvent, LiveEvent, validate_client, is_client_connected
  <2> HIDE DEF e
  <2>2. players[e.fd] \in PlayerInfo
    BY <1>1, <2>1 DEF GameType
  <2>3. /\ Answered(players[e.fd], e) \in PlayerInfo
        /\ Answered(players[e.fd], e).is_known = players[e.fd].is_known
        /\ Answered(players[e.fd], e).id = players[e.fd].id
    <3>1. /\ Answered(players[e.fd], e) \in PlayerInfo
          /\ Answered(players[e.fd], e) =
                [players[e.fd] EXCEPT
                    !.messages = Append(players[e.fd].messages, MakeAnswer(e.kind, e.addr, e.approx)),
                    !.can_put = TRUE]
      BY <2>1, <2>2, AnsweredType
    <3> QED  BY <2>2, <3>1 DEF PlayerInfo
  <2>4. /\ DOMAIN players' = DOMAIN players /\ DOMAIN players' \subseteq FD
        /\ \A g \in DOMAIN players' : players'[g] \in PlayerInfo
        /\ KnownHasId'
    BY <1>1, <2>1, <2>3, OnePlayer DEF KnownHasId
  <2>5. GameType' /\ KnownHasId'
    BY <1>1, <2>1, <2>4 DEF GameType
  <2>6. PollType' /\ KernelType' /\ LoopType' /\ Index'
    BY <1>1, <2>1 DEF pollVars, PollType, KernelType, LoopType, Index
  <2>7. PollMirrorsPlayers'
    BY <1>1, <2>1, <2>4, MirrorSame DEF pollVars, PollMirrorsPlayers
  <2> QED  BY <2>5, <2>6, <2>7, TypePartsPrime DEF TypeInv
<1>4. CASE HelloTimeout
  <2>1. Tail(events) \in Seq(Event)
    BY <1>4, FirstEvent DEF HelloTimeout
  <2>2. PICK k \in DOMAIN poll_fds : disconnect_client(poll_fds[k], k)
    BY <1>4 DEF HelloTimeout
  <2>3. k \in 1..Len(poll_fds) /\ TypeOK
    BY <1>1, <2>2 DEF PollType, TypeInv
  <2>4. /\ conn' \in [Addr -> Connection]
        /\ DOMAIN players' = DOMAIN players \ {poll_fds[k]}
        /\ \A g \in DOMAIN players' : players'[g] = players[g]
        /\ total_correct_puts' \in Int
        /\ got' \in [Addr -> Seq(AnswerType)]
        /\ PollMirrorsPlayers' /\ PollType'
    BY <1>1, <2>2, <2>3, Disconnect DEF PollType
  <2>5. events' = Tail(events) /\ UNCHANGED <<stopping, coeff_file, pc, i, slot>> /\ pc = "timers"
    BY <1>4 DEF HelloTimeout
  <2>6. GameType' /\ KnownHasId'
    BY <1>1, <2>1, <2>4, <2>5 DEF GameType, KnownHasId
  <2>7. KernelType' /\ LoopType' /\ Index'
    BY <1>1, <2>4, <2>5 DEF KernelType, LoopType, Index
  <2> QED  BY <2>4, <2>6, <2>7, TypePartsPrime DEF TypeInv
<1>5. CASE EndTimers
  <2>1. GameType' /\ KnownHasId'
    BY <1>5, GameSame DEF EndTimers
  <2>2. /\ UNCHANGED <<conn, gameVars, poll_fds, revents, client_buffers, i, slot, got>>
        /\ pc = "timers" /\ pc' \in {"poll", "accept", "clients"}
        /\ pollout' = pollout \cup {fd \in DOMAIN players : has_pending_messages(fd)}
    BY <1>5 DEF EndTimers
  <2>3. pollout' \subseteq DOMAIN players
    BY <1>1, <2>2 DEF PollMirrorsPlayers
  <2>4. PollType' /\ KernelType' /\ LoopType' /\ Index'
    BY <1>1, <2>2, <2>3 DEF PollType, KernelType, LoopType, Index, GameType
  <2>5. PollMirrorsPlayers'
    BY <2>2, <2>3, MirrorSame DEF gameVars
  <2> QED  BY <2>1, <2>4, <2>5, TypePartsPrime DEF TypeInv
<1> QED  BY <1>2, <1>3, <1>4, <1>5

(* handle_read_from_client handles a line of a player.                     *)
LEMMA TakesPlayer ==
    ASSUME TypeInv, NEW fd, NEW line, Takes(fd, line)
    PROVE  /\ i \in 1..Len(poll_fds) /\ fd = poll_fds[i] /\ ~stopping /\ pc = "read"
           /\ fd \in DOMAIN players /\ fd \in FD
           /\ players[fd] \in PlayerInfo /\ players[fd].addr \in Addr
           /\ client_buffers[fd] \in Seq(ClientLine) /\ client_buffers[fd] # <<>>
           /\ line = Head(client_buffers[fd])
<1>1. PollType /\ LoopType /\ Index /\ TypeOK /\ PollMirrorsPlayers
  BY TypeParts DEF TypeInv
<1>2. /\ pc = "read" /\ ~stopping /\ fd = poll_fds[i]
      /\ client_buffers[fd] # <<>> /\ line = Head(client_buffers[fd])
  BY DEF Takes
<1>3. i \in 1..Len(poll_fds)
  BY <1>1, <1>2 DEF Index, LoopType, PollType
<1>4. /\ fd \in DOMAIN players /\ fd \in FD
      /\ players[fd] \in PlayerInfo /\ players[fd].addr \in Addr
  BY <1>1, <1>2, <1>3, PolledIsPlayer
<1> QED  BY <1>1, <1>2, <1>3, <1>4 DEF PollType

(* The buffers stay well formed when the line is taken.                    *)
LEMMA TakeLineType ==
    ASSUME TypeInv, NEW fd, NEW line, Takes(fd, line), TakeLine(fd)
    PROVE  client_buffers' \in [FD -> Seq(ClientLine)]
<1>1. fd \in FD /\ client_buffers[fd] \in Seq(ClientLine) /\ client_buffers[fd] # <<>>
  BY TakesPlayer
<1>2. Tail(client_buffers[fd]) \in Seq(ClientLine)
  BY <1>1, HeadTailProperties
<1>3. client_buffers \in [FD -> Seq(ClientLine)]
  BY TypeParts DEF TypeInv, PollType
<1> QED  BY <1>1, <1>2, <1>3 DEF TakeLine

(* What is left to show for a line that leaves its client where it is.     *)
LEMMA ReadType ==
    ASSUME TypeInv, NEW fd, NEW line, Takes(fd, line), TakeLine(fd),
           UNCHANGED <<conn, sent, poll_fds, pollout, revents, pc, i, slot, got>>,
           GameType', KnownHasId', DOMAIN players' = DOMAIN players
    PROVE  TypeInv'
<1>1. PollType /\ KernelType /\ LoopType /\ Index /\ PollMirrorsPlayers
  BY TypeParts DEF TypeInv
<1>2. client_buffers' \in [FD -> Seq(ClientLine)]
  BY TakeLineType
<1>3. PollType' /\ KernelType' /\ LoopType' /\ Index'
  BY <1>1, <1>2 DEF PollType, KernelType, LoopType, Index
<1>4. PollMirrorsPlayers'
  BY <1>1, MirrorSame DEF PollMirrorsPlayers
<1> QED  BY <1>3, <1>4, TypePartsPrime DEF TypeInv

(* handle_hello makes the player known and sends it its coefficients.      *)
LEMMA HelloEffect ==
    ASSUME TypeInv, NEW fd \in FD, NEW id \in PlayerId, ReadHello(fd, id), sent' = sent
    PROVE  /\ fd \in DOMAIN players /\ DOMAIN players' = DOMAIN players
           /\ players[fd] \in PlayerInfo /\ ~players[fd].is_known
           /\ MakeAnswer("COEFF", players[fd].addr, Zeros) \in Answer
           /\ players'[fd] =
                [players[fd] EXCEPT
                    !.messages = Append(players[fd].messages,
                                        MakeAnswer("COEFF", players[fd].addr, Zeros)),
                    !.id = id, !.is_known = TRUE, !.can_put = TRUE,
                    !.coefficients = coeff_file + 1]
           /\ \A g \in DOMAIN players : g # fd => players'[g] = players[g]
           /\ TypeInv'
<1> DEFINE line == <<"HELLO", id>>
           m == MakeAnswer("COEFF", players[fd].addr, Zeros)
           p == [players[fd] EXCEPT !.messages = Append(players[fd].messages, m),
                    !.id = id, !.is_known = TRUE, !.can_put = TRUE,
                    !.coefficients = coeff_file + 1]
<1>1. /\ Takes(fd, line) /\ TakeLine(fd) /\ ~players[fd].is_known /\ coeff_file < CoeffLines
      /\ players' = [players EXCEPT ![fd] = KnownPlayer(@, id)]
      /\ coeff_file' = coeff_file + 1
      /\ UNCHANGED <<conn, total_correct_puts, stopping, events, poll_fds, pollout,
                     revents, pc, i, slot, got>>
  BY DEF ReadHello, HelloAccepted
<1>2. fd \in DOMAIN players /\ players[fd] \in PlayerInfo /\ players[fd].addr \in Addr
  BY <1>1, TakesPlayer
<1>3. GameType /\ KnownHasId
  BY TypeParts DEF TypeInv
<1>4. coeff_file + 1 \in 0..CoeffLines
  BY <1>1, <1>3, ServerAssumption DEF GameType
<1>5. m \in Answer
  BY <1>2, MadeAnswer, ZerosType DEF AnswerType
<1> HIDE DEF m
<1>6. Append(players[fd].messages, m) \in Seq(Answer)
  BY <1>2, <1>5 DEF PlayerInfo
<1>7. p \in PlayerInfo /\ p.id = id
  BY <1>2, <1>4, <1>6 DEF PlayerInfo
<1>8. KnownPlayer(players[fd], id) = p
  BY <1>2 DEF KnownPlayer, append_message_back, PlayerInfo, m
<1> HIDE DEF p
<1>9. players' = [players EXCEPT ![fd] = p]
  BY <1>1, <1>8
<1>10. /\ DOMAIN players' = DOMAIN players /\ DOMAIN players' \subseteq FD
       /\ \A g \in DOMAIN players' : players'[g] \in PlayerInfo
       /\ players'[fd] = p
       /\ \A g \in DOMAIN players : g # fd => players'[g] = players[g]
       /\ KnownHasId'
  BY <1>2, <1>7, <1>9, OnePlayer
<1>11. GameType'
  BY <1>1, <1>3, <1>4, <1>10 DEF GameType
<1> HIDE DEF line
<1>12. TypeInv'
  BY <1>1, <1>10, <1>11, ReadType
<1> QED  BY <1>1, <1>2, <1>5, <1>10, <1>12 DEF p, m

(* handle_put on a PUT that is early or out of range.                      *)
LEMMA RejectedPutEffect ==
    ASSUME TypeInv, NEW fd \in FD, NEW p, NEW v, ReadRejectedPut(fd, p, v), sent' = sent
    PROVE  LET early == ~players[fd].can_put
               bad   == OutOfRange(p, v) IN
           /\ fd \in DOMAIN players /\ DOMAIN players' = DOMAIN players
           /\ players[fd] \in PlayerInfo /\ players[fd].is_known /\ ~stopping
           /\ early \/ bad
           /\ MakeAnswer("PENALTY", players[fd].addr, Zeros) \in Answer
           /\ players'[fd] = Rejected(players[fd], early, bad)
           /\ \A g \in DOMAIN players : g # fd => players'[g] = players[g]
           /\ respond_with_bad_put(fd, players[fd]) \in Event
           /\ events' = IF bad THEN add_event(events, respond_with_bad_put(fd, players[fd]))
                        ELSE events
           /\ TypeInv'
<1> DEFINE line  == <<"PUT", p, v>>
           early == ~players[fd].can_put
           bad   == OutOfRange(p, v)
           m     == MakeAnswer("PENALTY", players[fd].addr, Zeros)
           new   == Rejected(players[fd], early, bad)
<1>1. /\ Takes(fd, line) /\ TakeLine(fd) /\ players[fd].is_known /\ (early \/ bad)
      /\ players' = [players EXCEPT ![fd] = new]
      /\ events' = IF bad THEN add_event(events, respond_with_bad_put(fd, players[fd]))
                   ELSE events
      /\ UNCHANGED <<conn, total_correct_puts, stopping, coeff_file, poll_fds, pollout,
                     revents, pc, i, slot, got>>
  BY DEF ReadRejectedPut
<1>2. /\ fd \in DOMAIN players /\ players[fd] \in PlayerInfo /\ players[fd].addr \in Addr
      /\ ~stopping
  BY <1>1, TakesPlayer
<1>3. GameType /\ KnownHasId
  BY TypeParts DEF TypeInv
<1>4. m \in Answer
  BY <1>2, MadeAnswer, ZerosType DEF AnswerType
<1>5. Append(players[fd].messages, m) \in Seq(Answer) /\ players[fd].messages \in Seq(Answer)
  BY <1>2, <1>4 DEF PlayerInfo
<1>6. Charge(early, bad) \in Nat
  BY DEF Charge, early_put_penalty, bad_put_penalty
<1>7. players[fd].penalty + Charge(early, bad) \in Nat
  BY <1>2, <1>6 DEF PlayerInfo
<1> HIDE DEF m, early, bad
<1>8. /\ new = [players[fd] EXCEPT !.can_put = FALSE,
                     !.penalty = players[fd].penalty + Charge(early, bad),
                     !.messages = IF early THEN Append(players[fd].messages, m)
                                  ELSE players[fd].messages]
  BY DEF Rejected, m
<1>9. new \in PlayerInfo /\ new.is_known = players[fd].is_known /\ new.id = players[fd].id
  BY <1>2, <1>5, <1>7, <1>8 DEF PlayerInfo
<1> HIDE DEF new, line
<1>10. /\ DOMAIN players' = DOMAIN players /\ DOMAIN players' \subseteq FD
       /\ \A g \in DOMAIN players' : players'[g] \in PlayerInfo
       /\ players'[fd] = new
       /\ \A g \in DOMAIN players : g # fd => players'[g] = players[g]
       /\ KnownHasId'
  BY <1>1, <1>2, <1>3, <1>9, OnePlayer DEF KnownHasId
<1>11. respond_with_bad_put(fd, players[fd]) \in Event
  BY <1>2, ZerosType DEF respond_with_bad_put, bad_put_delay, Event, EventKind, PlayerInfo
<1>12. events' \in Seq(Event)
  BY <1>1, <1>3, <1>11, AddEventProperties DEF GameType
<1>13. GameType'
  BY <1>1, <1>3, <1>10, <1>12 DEF GameType
<1>14. TypeInv'
  BY <1>1, <1>10, <1>13, ReadType
<1> QED  BY <1>1, <1>2, <1>4, <1>10, <1>11, <1>14 DEF new, m, early, bad

(* A player after a PUT, with the SCORING if it ends the game.             *)
Scored(player) ==
    IF player.is_known
    THEN [player EXCEPT !.messages = Append(player.messages,
                                            MakeAnswer("SCORING", player.addr, Zeros))]
    ELSE player
Final(player, over) == IF over THEN Scored(player) ELSE player

(* An approximation stays one.                                             *)
LEMMA PutType ==
    ASSUME NEW a \in Approximation, NEW p \in 0..K, NEW v \in Int
    PROVE  Put(a, p, v) \in Approximation
BY DEF Put, Approximation

(* A correct PUT leaves a player well formed.                              *)
LEMMA ImprovedType ==
    ASSUME NEW player \in PlayerInfo, NEW p \in 0..K, NEW v \in Int
    PROVE  /\ Put(player.approximations, p, v) \in Approximation
           /\ Improved(player, p, v) \in PlayerInfo
           /\ Improved(player, p, v).is_known = player.is_known
           /\ Improved(player, p, v).id = player.id
<1>1. Put(player.approximations, p, v) \in Approximation
  BY PutType DEF PlayerInfo
<1>2. player.correct_puts + 1 \in Nat
  BY DEF PlayerInfo
<1> DEFINE new == [player EXCEPT !.can_put = FALSE, !.correct_puts = player.correct_puts + 1,
                                 !.approximations = Put(player.approximations, p, v)]
<1>3. new \in PlayerInfo /\ new.is_known = player.is_known /\ new.id = player.id
  BY <1>1, <1>2 DEF PlayerInfo
<1> QED  BY <1>1, <1>3 DEF Improved

(* The SCORING leaves a player well formed.                                *)
LEMMA FinalType ==
    ASSUME NEW player \in PlayerInfo, NEW over \in BOOLEAN
    PROVE  /\ Final(player, over) \in PlayerInfo
           /\ Final(player, over).is_known = player.is_known
           /\ Final(player, over).id = player.id
           /\ player.is_known => MakeAnswer("SCORING", player.addr, Zeros) \in Answer
<1> DEFINE m == MakeAnswer("SCORING", player.addr, Zeros)
<1>1. m \in Answer
  BY MadeAnswer, ZerosType DEF AnswerType, PlayerInfo
<1> HIDE DEF m
<1>2. Append(player.messages, m) \in Seq(Answer)
  BY <1>1 DEF PlayerInfo
<1>3. Scored(player) = IF player.is_known
                       THEN [player EXCEPT !.messages = Append(player.messages, m)] ELSE player
  BY DEF Scored, m
<1>4. Scored(player) \in PlayerInfo /\ Scored(player).is_known = player.is_known
      /\ Scored(player).id = player.id
  BY <1>2, <1>3 DEF PlayerInfo
<1> QED  BY <1>1, <1>4 DEF Final, m

(* handle_put on a correct PUT.                                            *)
LEMMA PutEffect ==
    ASSUME TypeInv, NEW fd \in FD, NEW p \in Points, NEW v \in Values, ReadPut(fd, p, v),
           sent' = sent
    PROVE  LET player == players[fd]
               approx == Put(player.approximations, p, v) IN
           /\ fd \in DOMAIN players /\ DOMAIN players' = DOMAIN players
           /\ player \in PlayerInfo /\ player.is_known /\ player.can_put
           /\ ~OutOfRange(p, v) /\ ~stopping
           /\ Improved(player, p, v) \in PlayerInfo
           /\ total_correct_puts' = total_correct_puts + 1
           /\ stopping' = (total_correct_puts + 1 >= M)
           /\ players'[fd] = Final(Improved(player, p, v), stopping')
           /\ \A g \in DOMAIN players : g # fd => players'[g] = Final(players[g], stopping')
           /\ approx \in Approximation
           /\ respond_with_state(fd, player, approx) \in Event
           /\ events' = add_event(events, respond_with_state(fd, player, approx))
           /\ TypeInv'
<1> DEFINE line    == <<"PUT", p, v>>
           player  == players[fd]
           approx  == Put(player.approximations, p, v)
           over    == total_correct_puts + 1 >= M
           new     == Improved(player, p, v)
           updated == [players EXCEPT ![fd] = new]
<1>1. /\ Takes(fd, line) /\ TakeLine(fd)
      /\ player.is_known /\ player.can_put /\ ~OutOfRange(p, v)
      /\ total_correct_puts' = total_correct_puts + 1
      /\ events' = add_event(events, respond_with_state(fd, player, approx))
      /\ stopping' = over
      /\ UNCHANGED <<conn, coeff_file, poll_fds, pollout, revents, pc, i, slot, got>>
  BY DEF ReadPut
<1>2. /\ fd \in DOMAIN players /\ player \in PlayerInfo /\ player.addr \in Addr /\ ~stopping
  BY <1>1, TakesPlayer
<1>3. GameType /\ KnownHasId
  BY TypeParts DEF TypeInv
<1>4. p \in 0..K /\ v \in Int
  BY <1>1, RulesAssumption DEF OutOfRange
<1>5. approx \in Approximation
  BY <1>2, <1>4, ImprovedType
<1>6. new \in PlayerInfo /\ new.is_known = player.is_known /\ new.id = player.id
  BY <1>2, <1>4, ImprovedType
<1>7. players' = IF over THEN WithScoring(updated) ELSE updated
  BY DEF ReadPut
<1>8. respond_with_state(fd, player, approx) \in Event
  <2>1. player.id \in PlayerId /\ Delay[player.id] \in Nat
    BY <1>1, <1>2, <1>3, ServerAssumption DEF KnownHasId
  <2> QED  BY <1>2, <1>5, <2>1 DEF respond_with_state, Event, EventKind, PlayerInfo
<1>9. events' \in Seq(Event)
  BY <1>1, <1>3, <1>8, AddEventProperties DEF GameType
<1> HIDE DEF approx, line, player, over, new
<1>10. /\ DOMAIN updated = DOMAIN players /\ updated[fd] = new
       /\ \A g \in DOMAIN players : g # fd => updated[g] = players[g]
  BY <1>2
<1> HIDE DEF updated
<1>11. \A g \in DOMAIN updated : updated[g] \in PlayerInfo
  BY <1>2, <1>3, <1>6, <1>10 DEF GameType
<1>12. over \in BOOLEAN
  BY DEF over
<1>13. /\ DOMAIN players' = DOMAIN updated
       /\ \A g \in DOMAIN updated : players'[g] = Final(updated[g], over)
  <2>1. \A g \in DOMAIN updated :
            append_message_back(updated[g], MakeAnswer("SCORING", updated[g].addr, Zeros))
              = [updated[g] EXCEPT !.messages = Append(updated[g].messages,
                                     MakeAnswer("SCORING", updated[g].addr, Zeros))]
    BY <1>11 DEF append_message_back, PlayerInfo
  <2>2. CASE over
    BY <1>7, <2>1, <2>2 DEF WithScoring, Final, Scored
  <2>3. CASE ~over
    BY <1>7, <2>3 DEF Final
  <2> QED  BY <2>2, <2>3
<1>14. \A g \in DOMAIN players' : /\ players'[g] \in PlayerInfo
                                  /\ players'[g].is_known = updated[g].is_known
                                  /\ players'[g].id = updated[g].id
  BY <1>11, <1>12, <1>13, FinalType
<1>15. KnownHasId'
  BY <1>2, <1>3, <1>6, <1>10, <1>13, <1>14 DEF KnownHasId, player
<1>16. GameType'
  <2>1. DOMAIN players' \subseteq FD
    BY <1>3, <1>10, <1>13 DEF GameType
  <2>2. total_correct_puts' \in Int /\ coeff_file' \in 0..CoeffLines /\ stopping' \in BOOLEAN
    BY <1>1, <1>3, <1>12 DEF GameType
  <2> QED  BY <1>9, <1>14, <2>1, <2>2 DEF GameType
<1>17. TypeInv'
  BY <1>1, <1>10, <1>13, <1>15, <1>16, ReadType
<1>18. /\ players'[fd] = Final(new, stopping')
       /\ \A g \in DOMAIN players : g # fd => players'[g] = Final(players[g], stopping')
  BY <1>1, <1>2, <1>10, <1>13
<1> QED  BY <1>1, <1>2, <1>5, <1>6, <1>8, <1>10, <1>13, <1>17, <1>18
         DEF player, approx, over, new

(* The socket handle_write_to_client is called with is a player's.         *)
LEMMA WriteTarget ==
    ASSUME TypeInv, pc = "write", WriteWanted, i > 0
    PROVE  /\ i \in 1..Len(poll_fds)
           /\ poll_fds[i] \in DOMAIN players /\ poll_fds[i] \in FD
           /\ players[poll_fds[i]] \in PlayerInfo /\ players[poll_fds[i]].addr \in Addr
<1>1. PollType /\ LoopType /\ Index /\ TypeOK /\ PollMirrorsPlayers
  BY TypeParts DEF TypeInv
<1>2. i \in 1..Len(poll_fds)
  BY <1>1 DEF PollType, LoopType, Index, WriteWanted
<1> QED  BY <1>1, <1>2, PolledIsPlayer

(* A step that drops client k and goes on with the loop.                   *)
LEMMA LeavesType ==
    ASSUME TypeInv, NEW k \in 1..Len(poll_fds), disconnect_client(poll_fds[k], k),
           UNCHANGED <<sent, stopping, coeff_file, events>>, LoopType',
           pc' \in {"clients", "write"}, Index'
    PROVE  TypeInv'
<1>1. GameType /\ KernelType /\ TypeOK /\ PollMirrorsPlayers /\ KnownHasId
  BY TypeParts DEF TypeInv
<1>2. /\ conn' \in [Addr -> Connection]
      /\ DOMAIN players' = DOMAIN players \ {poll_fds[k]}
      /\ \A g \in DOMAIN players' : players'[g] = players[g]
      /\ total_correct_puts' \in Int
      /\ got' \in [Addr -> Seq(AnswerType)]
      /\ PollMirrorsPlayers' /\ PollType'
  BY <1>1, Disconnect DEF PollType
<1>3. GameType' /\ KnownHasId'
  BY <1>1, <1>2 DEF GameType, KnownHasId
<1>4. KernelType'
  BY <1>1, <1>2 DEF KernelType
<1> QED  BY <1>2, <1>3, <1>4, TypePartsPrime DEF TypeInv

(* A step that only moves within the loop.                                 *)
LEMMA LoopMoves ==
    ASSUME TypeInv, UNCHANGED <<sent, conn, gameVars, poll_fds, client_buffers, got>>,
           pollout' \subseteq pollout,
           revents' \in [FD -> SUBSET {"IN", "OUT", "HUP"}], LoopType', Index'
    PROVE  TypeInv'
<1>1. PollType /\ KernelType /\ PollMirrorsPlayers
  BY TypeParts DEF TypeInv
<1>2. GameType' /\ KnownHasId'
  BY GameSame
<1>3. PollType' /\ KernelType'
  BY <1>1 DEF PollType, KernelType
<1>4. PollMirrorsPlayers'
  BY <1>1, MirrorSame DEF gameVars, PollMirrorsPlayers
<1> QED  BY <1>2, <1>3, <1>4, TypePartsPrime DEF TypeInv

(* Reading one line.                                                       *)
LEMMA ReadLineType == TypeInv /\ ReadLine /\ sent' = sent => TypeInv'
<1> SUFFICES ASSUME TypeInv, ReadLine, sent' = sent PROVE TypeInv'
  OBVIOUS
<1>1. GameType /\ PollType /\ KernelType /\ LoopType /\ PollMirrorsPlayers /\ Index /\ KnownHasId
  BY TypeParts DEF TypeInv
<1>2. ASSUME NEW fd \in FD, NEW id \in PlayerId, ReadHello(fd, id) PROVE TypeInv'
  BY <1>2, HelloEffect
<1>3. ASSUME NEW fd \in FD, NEW id \in PlayerId, ReadHelloNoCoeff(fd, id) PROVE TypeInv'
  <2>1. /\ UNCHANGED <<sent, conn, gameVars, poll_fds, pollout, revents, client_buffers, got>>
        /\ UNCHANGED <<i, slot>> /\ pc' = "exited"
    BY <1>3 DEF ReadHelloNoCoeff, pollVars
  <2>2. LoopType' /\ Index' /\ revents' \in [FD -> SUBSET {"IN", "OUT", "HUP"}]
    BY <1>1, <2>1 DEF LoopType, Index, PollType
  <2> QED  BY <2>1, <2>2, LoopMoves
<1>4. ASSUME NEW fd \in FD, NEW p \in Points, NEW v \in Values, ReadRejectedPut(fd, p, v)
      PROVE  TypeInv'
  BY <1>4, RejectedPutEffect
<1>5. ASSUME NEW fd \in FD, NEW p \in Points, NEW v \in Values, ReadPut(fd, p, v)
      PROVE  TypeInv'
  BY <1>5, PutEffect
<1>6. ASSUME NEW fd \in FD, NEW line \in ClientLine, ReadIgnored(fd, line) PROVE TypeInv'
  <2>1. /\ Takes(fd, line) /\ TakeLine(fd)
        /\ UNCHANGED <<conn, sent, poll_fds, pollout, revents, pc, i, slot, got>>
        /\ UNCHANGED gameVars
    BY <1>6 DEF ReadIgnored
  <2>2. GameType' /\ KnownHasId' /\ DOMAIN players' = DOMAIN players
    BY <2>1, GameSame DEF gameVars
  <2> QED  BY <2>1, <2>2, ReadType
<1>7. ASSUME NEW fd \in FD, NEW line \in ClientLine, ReadBeforeHello(fd, line) PROVE TypeInv'
  <2>1. /\ Takes(fd, line) /\ disconnect_client(fd, i)
        /\ i' = i - 1 /\ pc' = "write" /\ slot' = slot
        /\ UNCHANGED <<sent, stopping, coeff_file, events>>
    BY <1>7 DEF ReadBeforeHello
  <2>2. i \in 1..Len(poll_fds) /\ fd = poll_fds[i] /\ pc = "read"
    BY <2>1, TakesPlayer
  <2>3. LoopType' /\ Index'
    BY <1>1, <2>1, <2>2 DEF LoopType, Index, PollType
  <2> QED  BY <2>1, <2>2, <2>3, LeavesType
<1> QED  BY <1>2, <1>3, <1>4, <1>5, <1>6, <1>7 DEF ReadLine

(* accept() seats a new client on a free descriptor.                       *)
LEMMA AcceptEffect ==
    ASSUME TypeInv, NEW a \in Addr, Accept(a), sent' = sent
    PROVE  \E fd \in FD :
             LET e == [kind |-> "HELLO", due |-> hello_wait_time, fd |-> fd,
                       addr |-> a, id |-> UNKNOWN, approx |-> Zeros] IN
             /\ fd \notin DOMAIN players /\ DOMAIN players' = DOMAIN players \cup {fd}
             /\ players'[fd] = NewPlayer(a)
             /\ \A g \in DOMAIN players : players'[g] = players[g]
             /\ e \in Event /\ events' = add_event(events, e)
             /\ client_buffers' = [client_buffers EXCEPT ![fd] = <<>>]
             /\ TypeInv'
<1>1. GameType /\ PollType /\ KernelType /\ LoopType /\ PollMirrorsPlayers /\ Index /\ KnownHasId
  BY TypeParts DEF TypeInv
<1>2. PICK fd \in FreeFD :
        /\ players' = [f \in DOMAIN players \cup {fd} |->
                          IF f = fd THEN NewPlayer(a) ELSE players[f]]
        /\ events' = add_event(events,
                        [kind |-> "HELLO", due |-> hello_wait_time, fd |-> fd,
                         addr |-> a, id |-> UNKNOWN, approx |-> Zeros])
        /\ poll_fds' = Append(poll_fds, fd)
        /\ client_buffers' = [client_buffers EXCEPT ![fd] = <<>>]
  BY DEF Accept
<1> DEFINE e == [kind |-> "HELLO", due |-> hello_wait_time, fd |-> fd,
                 addr |-> a, id |-> UNKNOWN, approx |-> Zeros]
<1>3. /\ conn' = [conn EXCEPT ![a].st = "open"]
      /\ pc' = "clients" /\ i' = 1 /\ slot' = 1
      /\ UNCHANGED <<total_correct_puts, stopping, coeff_file, pollout, revents, got>>
  BY DEF Accept
<1>4. fd \in FD /\ fd \notin DOMAIN players
  BY <1>2 DEF FreeFD
<1>5. e \in Event
  BY <1>4, ZerosType DEF Event, EventKind, hello_wait_time
<1> HIDE DEF e
<1>6. events' = add_event(events, e) /\ events' \in Seq(Event)
  <2>1. events' = add_event(events, e)
    BY <1>2 DEF e
  <2> QED  BY <1>1, <1>5, <2>1, AddEventProperties DEF GameType
<1>7. NewPlayer(a) \in PlayerInfo /\ ~NewPlayer(a).is_known
  <2>1. <<>> \in Seq(Answer) /\ Zeros \in Approximation /\ 0 \in 0..CoeffLines
    BY EmptySeq, ZerosType, ServerAssumption
  <2> QED  BY <2>1 DEF NewPlayer, PlayerInfo
<1>8. /\ DOMAIN players' = DOMAIN players \cup {fd}
      /\ players'[fd] = NewPlayer(a)
      /\ \A g \in DOMAIN players : players'[g] = players[g]
  BY <1>2, <1>4
<1>9. GameType' /\ KnownHasId'
  BY <1>1, <1>3, <1>4, <1>6, <1>7, <1>8 DEF GameType, KnownHasId
<1>10. conn' \in [Addr -> Connection]
  BY <1>1, <1>3 DEF KernelType, Connection
<1>11. KernelType' /\ LoopType' /\ Index'
  BY <1>1, <1>3, <1>10 DEF KernelType, LoopType, Index
<1>12. poll_fds' = Append(poll_fds, fd) /\ poll_fds \in Seq(FD)
  BY <1>1, <1>2 DEF PollType
<1>13. PollType'
  BY <1>1, <1>2, <1>3, <1>4, <1>12 DEF PollType
<1>14. PollMirrorsPlayers'
  <2>1. /\ DOMAIN poll_fds = 1..Len(poll_fds) /\ DOMAIN poll_fds' = 1..(Len(poll_fds) + 1)
        /\ Len(poll_fds) \in Nat
        /\ \A j \in 1..Len(poll_fds) : poll_fds'[j] = poll_fds[j] /\ poll_fds[j] \in DOMAIN players
        /\ poll_fds'[Len(poll_fds) + 1] = fd
    BY <1>1, <1>4, <1>12 DEF PollMirrorsPlayers, Range
  <2>2. Range(poll_fds') = Range(poll_fds) \cup {fd}
    <3>1. ASSUME NEW f \in Range(poll_fds') PROVE f \in Range(poll_fds) \cup {fd}
      BY <2>1 DEF Range
    <3>2. ASSUME NEW f \in Range(poll_fds) \cup {fd} PROVE f \in Range(poll_fds')
      BY <2>1 DEF Range
    <3> QED  BY <3>1, <3>2
  <2>3. \A j, k \in DOMAIN poll_fds' : j # k => poll_fds'[j] # poll_fds'[k]
    BY <1>1, <1>4, <2>1 DEF PollMirrorsPlayers
  <2> QED  BY <1>1, <1>3, <1>8, <2>2, <2>3 DEF PollMirrorsPlayers
<1>15. TypeInv'
  BY <1>9, <1>11, <1>13, <1>14, TypePartsPrime DEF TypeInv
<1> QED  BY <1>2, <1>4, <1>5, <1>6, <1>8, <1>15 DEF e

(* send() takes the message at the head of the queue, or a part of it.     *)
LEMMA WriteEffect ==
    ASSUME TypeInv, NEW whole \in BOOLEAN, Write(whole), sent' = sent
    PROVE  \E fd \in DOMAIN players :
             LET q == players[fd].messages
                 a == players[fd].addr IN
             /\ players[fd] \in PlayerInfo /\ q # <<>>
             /\ DOMAIN players' = DOMAIN players
             /\ players'[fd] =
                  [players[fd] EXCEPT !.messages =
                      IF whole THEN Tail(q)
                      ELSE append_message_front(Tail(q), [Head(q) EXCEPT !.rest = TRUE])]
             /\ players'[fd] \in PlayerInfo
             /\ \A g \in DOMAIN players : g # fd => players'[g] = players[g]
             /\ got' = IF whole THEN [got EXCEPT ![a] = Append(@, Head(q).type)] ELSE got
             /\ UNCHANGED <<conn, total_correct_puts, stopping, coeff_file, events>>
             /\ pc = "write" /\ TypeInv'
<1>1. GameType /\ PollType /\ KernelType /\ LoopType /\ PollMirrorsPlayers /\ Index /\ KnownHasId
  BY TypeParts DEF TypeInv
<1> DEFINE fd == poll_fds[i]
           a  == players[fd].addr
           q  == players[fd].messages
           nq == IF whole THEN Tail(q)
                 ELSE append_message_front(Tail(q), [Head(q) EXCEPT !.rest = TRUE])
           p  == [players[fd] EXCEPT !.messages = nq]
<1>2. /\ pc = "write" /\ WriteWanted /\ i > 0 /\ q # <<>>
      /\ players' = [players EXCEPT ![fd].messages = nq]
      /\ got' = IF whole THEN [got EXCEPT ![a] = Append(@, Head(q).type)] ELSE got
      /\ pc' = "clients" /\ i' = i + 1 /\ slot' = i + 1
      /\ UNCHANGED <<conn, total_correct_puts, stopping, coeff_file, events, pollVars>>
  BY DEF Write, NextClient
<1>3. /\ i \in 1..Len(poll_fds) /\ fd \in DOMAIN players /\ fd \in FD
      /\ players[fd] \in PlayerInfo /\ a \in Addr
  BY <1>2, WriteTarget
<1>4. /\ q \in Seq(Answer) /\ Head(q) \in Answer /\ Tail(q) \in Seq(Answer)
  BY <1>2, <1>3, HeadTailProperties DEF PlayerInfo
<1>5. nq \in Seq(Answer)
  <2>1. [Head(q) EXCEPT !.rest = TRUE] \in Answer
    BY <1>4 DEF Answer
  <2>2. append_message_front(Tail(q), [Head(q) EXCEPT !.rest = TRUE]) \in Seq(Answer)
    BY <1>4, <2>1 DEF append_message_front
  <2> QED  BY <1>4, <2>2
<1> HIDE DEF nq
<1>6. p \in PlayerInfo /\ p.is_known = players[fd].is_known /\ p.id = players[fd].id
  BY <1>3, <1>5 DEF PlayerInfo
<1>7. players' = [players EXCEPT ![fd] = p]
  BY <1>2
<1> HIDE DEF p, fd
<1>8. /\ DOMAIN players' = DOMAIN players /\ DOMAIN players' \subseteq FD
      /\ \A g \in DOMAIN players' : players'[g] \in PlayerInfo
      /\ players'[fd] = p
      /\ \A g \in DOMAIN players : g # fd => players'[g] = players[g]
      /\ KnownHasId'
  BY <1>1, <1>3, <1>6, <1>7, OnePlayer DEF KnownHasId
<1>9. GameType'
  BY <1>1, <1>2, <1>8 DEF GameType
<1>10. got' \in [Addr -> Seq(AnswerType)]
  <2>1. Head(q).type \in AnswerType
    BY <1>4 DEF Answer
  <2>2. got[a] \in Seq(AnswerType)
    BY <1>1, <1>3 DEF KernelType
  <2>3. Append(got[a], Head(q).type) \in Seq(AnswerType)
    BY <2>1, <2>2
  <2> HIDE DEF q, a
  <2> QED  BY <1>1, <1>2, <1>3, <2>3 DEF KernelType
<1>11. PollType' /\ KernelType' /\ LoopType' /\ Index'
  BY <1>1, <1>2, <1>10 DEF PollType, pollVars, KernelType, LoopType, Index
<1>12. PollMirrorsPlayers'
  BY <1>1, <1>2, <1>8, MirrorSame DEF pollVars, PollMirrorsPlayers
<1>13. TypeInv'
  BY <1>8, <1>9, <1>11, <1>12, TypePartsPrime DEF TypeInv
<1> QED  BY <1>2, <1>3, <1>6, <1>8, <1>13 DEF p, nq

(* The steps of the server that are left.                                  *)
LEMMA ServerType == TypeInv /\ Server => TypeInv'
<1> SUFFICES ASSUME TypeInv, ServerStep, sent' = sent PROVE TypeInv'
  BY DEF Server
<1> DEFINE Reports == [FD -> SUBSET {"IN", "OUT", "HUP"}]
<1>1. GameType /\ PollType /\ KernelType /\ LoopType /\ PollMirrorsPlayers /\ Index /\ KnownHasId
      /\ TypeOK /\ revents \in Reports
  BY TypeParts DEF TypeInv, PollType
<1>2. CASE Poll
  <2>1. PICK writable \in SUBSET pollout :
           revents' = [fd \in FD |-> IF is_client_connected(fd)
                                     THEN Reported(fd, writable) ELSE {}]
    BY <1>2 DEF Poll
  <2>2. revents' \in Reports
    BY <2>1 DEF Reported
  <2>3. /\ UNCHANGED <<sent, conn, gameVars, poll_fds, pollout, client_buffers, got>>
        /\ UNCHANGED <<i, slot>> /\ pc = "poll" /\ pc' = "timers"
    BY <1>2 DEF Poll
  <2>4. LoopType' /\ Index'
    BY <1>1, <2>3 DEF LoopType, Index
  <2> QED  BY <2>2, <2>3, <2>4, LoopMoves
<1>3. CASE ResetServer
  <2>1. /\ events' = <<>> /\ poll_fds' = <<>> /\ pollout' = {} /\ stopping' = FALSE
        /\ total_correct_puts' = 0 /\ coeff_file' = coeff_file
        /\ players' = [fd \in {} |-> NewPlayer(fd)]
    BY <1>3 DEF ResetServer, reset
  <2>2. /\ poll_fds' = <<>> /\ pollout' = {} /\ revents' = [fd \in FD |-> {}]
        /\ client_buffers' = [fd \in FD |-> <<>>] /\ got' = [a \in Addr |-> <<>>]
        /\ pc = "poll" /\ UNCHANGED <<pc, i, slot>>
        /\ conn' = [a \in Addr |->
                      IF \E fd \in DOMAIN players : players[fd].addr = a
                      THEN [conn[a] EXCEPT !.st = "closed", !.inq = <<>>] ELSE conn[a]]
    BY <1>3 DEF ResetServer, reset
  <2>3. conn' \in [Addr -> Connection]
    BY <1>1, <2>2, ClosedConnection DEF KernelType
  <2>4. GameType' /\ KnownHasId'
    <3>1. events' \in Seq(Event)
      BY <2>1, EmptySeq
    <3>2. total_correct_puts' \in Int /\ coeff_file' \in 0..CoeffLines
      <4>1. coeff_file \in 0..CoeffLines
        BY <1>1 DEF GameType
      <4> QED  BY <2>1, <4>1
    <3>3. DOMAIN players' = {}
      BY <2>1
    <3> QED  BY <2>1, <3>1, <3>2, <3>3 DEF GameType, KnownHasId
  <2>5. PollType' /\ KernelType'
    BY <1>1, <2>2, <2>3, EmptySeq DEF PollType, KernelType
  <2>6. LoopType' /\ Index'
    BY <1>1, <2>2 DEF LoopType, Index
  <2>7. PollMirrorsPlayers'
    <3>1. DOMAIN poll_fds' = {} /\ DOMAIN players' = {} /\ pollout' = {}
      BY <2>1
    <3> QED  BY <3>1 DEF PollMirrorsPlayers, Range
  <2> QED  BY <2>4, <2>5, <2>6, <2>7, TypePartsPrime DEF TypeInv
<1>4. CASE ResetKilled \/ AcceptFails \/ WriteKilled \/ WriteToListener
  <2>1. /\ UNCHANGED <<sent, conn, gameVars, poll_fds, pollout, revents, client_buffers, got>>
        /\ UNCHANGED <<i, slot>> /\ pc' \in {"exited", "crashed"}
    BY <1>4 DEF ResetKilled, AcceptFails, WriteKilled, WriteToListener, pollVars
  <2>2. LoopType' /\ Index'
    BY <1>1, <2>1 DEF LoopType, Index
  <2> QED  BY <1>1, <2>1, <2>2, LoopMoves
<1>5. CASE SkipEvent \/ AnswerEvent \/ HelloTimeout \/ EndTimers
  BY <1>5, TimersType
<1>6. ASSUME NEW a \in Addr, Accept(a) PROVE TypeInv'
  BY <1>6, AcceptEffect
<1>7. CASE EndClients
  <2>1. /\ UNCHANGED <<sent, conn, gameVars, poll_fds, pollout, client_buffers, got>>
        /\ i' = 1 /\ slot' = 1 /\ pc' = "poll" /\ revents' = [fd \in FD |-> {}]
    BY <1>7 DEF EndClients
  <2>2. LoopType' /\ Index' /\ revents' \in Reports
    BY <1>1, <2>1 DEF LoopType, Index
  <2> QED  BY <2>1, <2>2, LoopMoves
<1>8. CASE DropClient
  <2>1. /\ pc = "clients" /\ i <= Len(poll_fds) /\ disconnect_client(poll_fds[i], i)
        /\ pc' = "clients" /\ i' = i /\ slot' = i
        /\ UNCHANGED <<sent, stopping, coeff_file, events>>
    BY <1>8 DEF DropClient, NextClient
  <2>2. i \in 1..Len(poll_fds)
    BY <1>1, <2>1 DEF LoopType, Index, PollType
  <2>3. LoopType' /\ Index'
    BY <1>1, <2>1, <2>2 DEF LoopType, Index, PollType
  <2> QED  BY <2>1, <2>2, <2>3, LeavesType
<1>9. CASE Receive
  <2> DEFINE fd == poll_fds[i]
             a  == players[fd].addr
  <2>1. /\ pc = "clients" /\ i <= Len(poll_fds) /\ pc' = "read"
        /\ client_buffers' = [client_buffers EXCEPT ![fd] = @ \o conn[a].inq]
        /\ conn' = [conn EXCEPT ![a].inq = <<>>]
        /\ UNCHANGED <<gameVars, poll_fds, pollout, revents, i, slot, got>>
    BY <1>9 DEF Receive
  <2>2. i \in 1..Len(poll_fds)
    BY <1>1, <2>1 DEF LoopType, Index, PollType
  <2>3. fd \in FD /\ a \in Addr
    BY <1>1, <2>2, PolledIsPlayer
  <2>4. conn[a] \in Connection
    BY <1>1, <2>3 DEF KernelType
  <2> HIDE DEF fd, a
  <2>5. client_buffers[fd] \o conn[a].inq \in Seq(ClientLine)
    <3>1. client_buffers[fd] \in Seq(ClientLine) /\ conn[a].inq \in Seq(ClientLine)
      BY <1>1, <2>3, <2>4 DEF PollType, Connection
    <3> QED  BY <3>1, ConcatProperties
  <2>6. conn' \in [Addr -> Connection]
    BY <1>1, <2>1, <2>3, <2>4, EmptySeq DEF KernelType, Connection
  <2>7. PollType' /\ KernelType'
    BY <1>1, <2>1, <2>3, <2>5, <2>6 DEF PollType, KernelType
  <2>8. LoopType' /\ Index'
    BY <1>1, <2>1, <2>2 DEF LoopType, Index
  <2>9. GameType' /\ KnownHasId'
    BY <2>1, GameSame
  <2>10. PollMirrorsPlayers'
    BY <1>1, <2>1, MirrorSame DEF gameVars, PollMirrorsPlayers
  <2> QED  BY <2>7, <2>8, <2>9, <2>10, TypePartsPrime DEF TypeInv
<1>10. CASE NothingToRead \/ NothingReported \/ NothingToWrite
  <2>1. /\ UNCHANGED <<sent, conn, gameVars, poll_fds, pollout, revents, client_buffers, got>>
        /\ \/ pc = "clients" /\ pc' = "write" /\ UNCHANGED <<i, slot>>
           \/ pc' = "clients" /\ i' = i + 1 /\ slot' = i + 1
    BY <1>10 DEF NothingToRead, NothingReported, NothingToWrite, NextClient, pollVars
  <2>2. LoopType' /\ Index'
    BY <1>1, <2>1 DEF LoopType, Index
  <2> QED  BY <1>1, <2>1, <2>2, LoopMoves
<1>11. CASE ReadLine
  BY <1>11, ReadLineType
<1>12. CASE EndRead
  <2>1. /\ UNCHANGED <<sent, conn, gameVars, poll_fds, pollout, client_buffers, got>>
        /\ pc = "read"
        /\ \/ pc' = "poll" /\ i' = 1 /\ slot' = 1 /\ revents' = [fd \in FD |-> {}]
           \/ pc' = "write" /\ UNCHANGED <<i, slot, revents>>
    BY <1>12 DEF EndRead
  <2>2. LoopType' /\ Index' /\ revents' \in Reports
    BY <1>1, <2>1 DEF LoopType, Index
  <2> QED  BY <2>1, <2>2, LoopMoves
<1>13. CASE StopWatching
  <2>1. /\ UNCHANGED <<sent, conn, gameVars, poll_fds, revents, client_buffers, got>>
        /\ pollout' \subseteq pollout /\ pc' = "clients" /\ i' = i + 1 /\ slot' = i + 1
    BY <1>13 DEF StopWatching, NextClient
  <2>2. LoopType' /\ Index'
    BY <1>1, <2>1 DEF LoopType, Index
  <2> QED  BY <1>1, <2>1, <2>2, LoopMoves
<1>14. ASSUME NEW whole \in BOOLEAN, Write(whole) PROVE TypeInv'
  BY <1>14, WriteEffect
<1>15. CASE WriteFails
  <2>1. /\ pc = "write" /\ WriteWanted /\ i > 0 /\ disconnect_client(poll_fds[i], i)
        /\ pc' = "clients" /\ i' = i /\ slot' = i
        /\ UNCHANGED <<sent, stopping, coeff_file, events>>
    BY <1>15 DEF WriteFails, NextClient
  <2>2. i \in 1..Len(poll_fds)
    BY <2>1, WriteTarget
  <2>3. LoopType' /\ Index'
    BY <1>1, <2>1, <2>2 DEF LoopType, Index, PollType
  <2> QED  BY <2>1, <2>2, <2>3, LeavesType
<1> QED  BY <1>2, <1>3, <1>4, <1>5, <1>6, <1>7, <1>8, <1>9, <1>10, <1>11, <1>12, <1>13,
            <1>14, <1>15 DEF ServerStep

(* Time passing leaves the events well formed.                             *)
LEMMA TickEffect ==
    ASSUME TypeInv, Tick
    PROVE  /\ DOMAIN events' = DOMAIN events
           /\ \A k \in DOMAIN events : events'[k] = [events[k] EXCEPT !.due = events[k].due - 1]
           /\ UNCHANGED <<conn, players, total_correct_puts, stopping, coeff_file, got, pc>>
           /\ TypeInv'
<1>1. GameType /\ PollType /\ KernelType /\ LoopType /\ PollMirrorsPlayers /\ Index /\ KnownHasId
  BY TypeParts DEF TypeInv
<1>2. /\ \A k \in DOMAIN events : events[k].due > 0
      /\ events' = [k \in DOMAIN events |-> [events[k] EXCEPT !.due = events[k].due - 1]]
      /\ UNCHANGED <<conn, sent, players, total_correct_puts, stopping, coeff_file,
                     pollVars, pc, i, slot, got>>
  BY DEF Tick
<1>3. events \in Seq(Event) /\ DOMAIN events = 1..Len(events) /\ Len(events) \in Nat
  BY <1>1, LenProperties DEF GameType
<1>4. \A k \in 1..Len(events) : [events[k] EXCEPT !.due = events[k].due - 1] \in Event
  <2> SUFFICES ASSUME NEW k \in 1..Len(events)
               PROVE  [events[k] EXCEPT !.due = events[k].due - 1] \in Event
    OBVIOUS
  <2>1. events[k] \in Event /\ events[k].due > 0
    BY <1>2, <1>3
  <2> QED  BY <2>1 DEF Event
<1>5. events' \in Seq(Event)
  BY <1>2, <1>3, <1>4
<1>6. GameType' /\ KnownHasId'
  BY <1>1, <1>2, <1>5 DEF GameType, KnownHasId
<1>7. PollType' /\ KernelType' /\ LoopType' /\ Index'
  BY <1>1, <1>2 DEF PollType, pollVars, KernelType, LoopType, Index
<1>8. PollMirrorsPlayers'
  BY <1>1, <1>2, MirrorSame DEF pollVars, PollMirrorsPlayers
<1>9. TypeInv'
  BY <1>6, <1>7, <1>8, TypePartsPrime DEF TypeInv
<1> QED  BY <1>2, <1>3, <1>9

(* Every step leaves the server well formed.                               *)
LEMMA TypeNext == TypeInv /\ [Next]_vars => TypeInv'
<1> SUFFICES ASSUME TypeInv, [Next]_vars PROVE TypeInv'
  OBVIOUS
<1>1. CASE Halted \/ UNCHANGED vars
  <2>1. UNCHANGED vars
    BY <1>1 DEF Halted
  <2> QED  BY <2>1 DEF vars, gameVars, pollVars, TypeInv, TypeOK, PollMirrorsPlayers,
                      Index, KnownHasId
<1> QED  BY <1>1, ClientsType, TickEffect, ServerType DEF Next

(* The invariant the other proofs build on.                                *)
LEMMA TypeInvariant == Spec => []TypeInv
BY TypeInit, TypeNext, PTL DEF Spec

(* The variables of the server are what their declarations say.            *)
THEOREM TypeCorrect == Spec => []TypeOK
<1>1. TypeInv => TypeOK
  BY DEF TypeInv
<1> QED  BY <1>1, TypeInvariant, PTL

(* poll_fds and players name the same descriptors, each once, whichever    *)
(* way clients come and go: no method of ServerLogic meets a descriptor it *)
(* does not know.                                                          *)
THEOREM PollIsMirrored == Spec => []PollMirrorsPlayers
<1>1. TypeInv => PollMirrorsPlayers
  BY DEF TypeInv
<1> QED  BY <1>1, TypeInvariant, PTL

-----------------------------------------------------------------------------
(* The steps by what they do to the game.  Most steps of the poll loop     *)
(* leave it alone; a proof about the game has to look at the others only.  *)

(* Once the game is over the server leaves the loop over the clients.      *)
StoppedHere == stopping => pc \in {"read", "poll", "exited"}
StepInv == TypeInv /\ StoppedHere

(* The game starts before its end.                                         *)
LEMMA StoppedInit == Init => StoppedHere
BY DEF Init, StoppedHere

(* The lines on their way to handle_put and handle_hello move in three     *)
(* ways: a client sends one, recv() takes those of a client, and one that  *)
(* is ignored goes away.                                                   *)
LinesStay ==
    /\ client_buffers' = client_buffers
    /\ \A a \in Addr : conn'[a].inq = conn[a].inq
LinesMove ==
    \/ \E a \in Addr, line \in ClientLine : SendLine(a, line)
    \/ Receive
    \/ \E fd \in FD, line \in ClientLine : ReadIgnored(fd, line)

(* A step that leaves the game and what was sent alone.                    *)
Quiet ==
    /\ UNCHANGED <<gameVars, got>>
    /\ LinesStay \/ LinesMove
    /\ \A a \in Addr : \/ conn'[a].st = conn[a].st
                       \/ conn[a].st = "new" /\ conn'[a].st = "backlog"

(* A client leaves, by its own doing, by a failed write or by a timer.     *)
Leaves(fd) ==
    /\ fd \in DOMAIN players /\ DOMAIN players' = DOMAIN players \ {fd}
    /\ \A g \in DOMAIN players' : players'[g] = players[g]
    /\ total_correct_puts' = total_correct_puts - players[fd].correct_puts
    /\ conn' = Closed(players[fd].addr)
    /\ got' = [got EXCEPT ![players[fd].addr] = <<>>]
    /\ client_buffers' = [client_buffers EXCEPT ![fd] = <<>>]
    /\ UNCHANGED <<stopping, coeff_file>>
    /\ \/ events' = events
       \/ /\ Due /\ events[1].kind = "HELLO" /\ events[1].fd = fd
          /\ events' = Tail(events)

(* A new game.                                                             *)
Restarts ==
    /\ DOMAIN players' = {} /\ events' = <<>>
    /\ total_correct_puts' = 0 /\ stopping' = FALSE /\ coeff_file' = coeff_file
    /\ got' = [a \in Addr |-> <<>>]
    /\ conn' = [a \in Addr |->
                  IF \E fd \in DOMAIN players : players[fd].addr = a
                  THEN [conn[a] EXCEPT !.st = "closed", !.inq = <<>>] ELSE conn[a]]

Plays ==
    \/ Tick
    \/ sent' = sent /\ SkipEvent
    \/ sent' = sent /\ AnswerEvent
    \/ \E a \in Addr : sent' = sent /\ Accept(a)
    \/ \E fd \in FD, id \in PlayerId : sent' = sent /\ ReadHello(fd, id)
    \/ \E fd \in FD, p \in Points, v \in Values : sent' = sent /\ ReadRejectedPut(fd, p, v)
    \/ \E fd \in FD, p \in Points, v \in Values : sent' = sent /\ ReadPut(fd, p, v)
    \/ \E whole \in BOOLEAN : sent' = sent /\ Write(whole)
    \/ \E fd \in FD : Leaves(fd)

(* disconnect_client, as the game sees it.                                 *)
LEMMA DisconnectLeaves ==
    ASSUME StepInv, NEW k \in 1..Len(poll_fds), disconnect_client(poll_fds[k], k),
           UNCHANGED <<stopping, coeff_file>>,
           \/ events' = events
           \/ /\ Due /\ events[1].kind = "HELLO" /\ events[1].fd = poll_fds[k]
              /\ events' = Tail(events)
    PROVE  \E fd \in FD : Leaves(fd)
<1>1. poll_fds[k] \in DOMAIN players /\ poll_fds[k] \in FD
  BY PolledIsPlayer DEF StepInv, TypeInv
<1>2. Leaves(poll_fds[k])
  BY <1>1 DEF Leaves, disconnect_client, handle_client_disconnect
<1> QED  BY <1>1, <1>2

(* Every step is one of these, and only Quiet and Restarts are taken once  *)
(* the game is over.                                                       *)
LEMMA Steps ==
    ASSUME StepInv, [Next]_vars
    PROVE  \/ Quiet \/ Restarts
           \/ ~stopping /\ Plays
<1> USE DEF StepInv
<1>1. GameType /\ PollType /\ KernelType /\ LoopType /\ PollMirrorsPlayers /\ Index
      /\ StoppedHere /\ TypeInv
  BY TypeParts DEF TypeInv
<1>2. CASE Clients
  <2>1. PICK a \in Addr : \/ Connect(a)
                          \/ \E line \in ClientLine : SendLine(a, line)
                          \/ \E how \in {"fin", "rst"} : Hangup(a, how)
    BY <1>2 DEF Clients
  <2>2. conn \in [Addr -> Connection] /\ conn[a] \in Connection
    BY <1>1 DEF KernelType
  <2>3. UNCHANGED <<gameVars, got>>
    BY <2>1 DEF Connect, SendLine, Hangup
  <2>6. LinesStay \/ LinesMove
    <3>1. CASE \E line \in ClientLine : SendLine(a, line)
      BY <3>1 DEF LinesMove
    <3>2. CASE Connect(a) \/ \E how \in {"fin", "rst"} : Hangup(a, how)
      <4>1. client_buffers' = client_buffers
        BY <3>2 DEF Connect, Hangup, pollVars
      <4>2. CASE Connect(a)
        BY <2>2, <4>1, <4>2 DEF Connect, Connection, LinesStay
      <4>3. ASSUME NEW how \in {"fin", "rst"}, Hangup(a, how) PROVE LinesStay
        BY <2>2, <4>1, <4>3 DEF Hangup, Connection, LinesStay
      <4> QED  BY <3>2, <4>2, <4>3
    <3> QED  BY <2>1, <3>1, <3>2
  <2> DEFINE Kept == \A b \in Addr : b # a => conn'[b] = conn[b]
  <2>4. Kept /\ (conn'[a].st = conn[a].st \/ (conn[a].st = "new" /\ conn'[a].st = "backlog"))
    <3>1. CASE Connect(a)
      BY <2>2, <3>1 DEF Connect, Connection
    <3>2. ASSUME NEW line \in ClientLine, SendLine(a, line)
          PROVE  Kept /\ conn'[a].st = conn[a].st
      BY <2>2, <3>2 DEF SendLine, Connection
    <3>3. ASSUME NEW how \in {"fin", "rst"}, Hangup(a, how)
          PROVE  Kept /\ conn'[a].st = conn[a].st
      BY <2>2, <3>3 DEF Hangup, Connection
    <3> HIDE DEF Kept
    <3> QED  BY <2>1, <3>1, <3>2, <3>3
  <2>5. \A b \in Addr : \/ conn'[b].st = conn[b].st
                        \/ conn[b].st = "new" /\ conn'[b].st = "backlog"
    BY <2>4
  <2> QED  BY <2>3, <2>5, <2>6 DEF Quiet
<1>3. CASE Tick
  BY <1>3 DEF Tick, Plays
<1>4. CASE Halted \/ UNCHANGED vars
  <2>1. UNCHANGED vars
    BY <1>4 DEF Halted
  <2> QED  BY <2>1 DEF vars, pollVars, LinesStay, Quiet
<1>5. ASSUME UNCHANGED <<conn, gameVars, got, client_buffers>> PROVE Quiet
  BY <1>5 DEF LinesStay, Quiet
<1>6. CASE Server
  <2>1. ServerStep /\ sent' = sent
    BY <1>6 DEF Server
  <2>2. CASE ResetServer
    BY <2>2 DEF ResetServer, reset, Restarts
  <2>3. CASE Poll \/ ResetKilled \/ EndTimers \/ AcceptFails \/ EndClients \/ NothingToRead
             \/ NothingReported \/ EndRead \/ NothingToWrite \/ StopWatching \/ WriteKilled
             \/ WriteToListener
    BY <1>5, <2>3 DEF Poll, ResetKilled, EndTimers, AcceptFails, EndClients, NothingToRead,
          NothingReported, EndRead, NothingToWrite, StopWatching, WriteKilled, WriteToListener,
          pollVars
  <2>4. CASE Receive
    <3>1. /\ conn' = [conn EXCEPT ![players[poll_fds[i]].addr].inq = <<>>]
          /\ UNCHANGED <<gameVars, got>>
      BY <2>4 DEF Receive
    <3>2. conn \in [Addr -> Connection]
      BY <1>1 DEF KernelType
    <3>3. \A a \in Addr : conn'[a].st = conn[a].st
      BY <3>1, <3>2 DEF Connection
    <3> QED  BY <2>4, <3>1, <3>3 DEF LinesMove, Quiet
  <2>5. CASE SkipEvent \/ AnswerEvent
    BY <1>1, <2>1, <2>5 DEF SkipEvent, AnswerEvent, StoppedHere, Plays
  <2>6. CASE HelloTimeout
    <3>1. PICK k \in DOMAIN poll_fds : poll_fds[k] = events[1].fd /\ disconnect_client(events[1].fd, k)
      BY <2>6 DEF HelloTimeout
    <3>2. k \in 1..Len(poll_fds) /\ disconnect_client(poll_fds[k], k)
      BY <1>1, <3>1 DEF PollType
    <3>3. /\ pc = "timers" /\ UNCHANGED <<stopping, coeff_file>>
          /\ Due /\ events[1].kind = "HELLO" /\ events[1].fd = poll_fds[k]
          /\ events' = Tail(events)
      BY <2>6, <3>1 DEF HelloTimeout
    <3>4. \E fd \in FD : Leaves(fd)
      BY <3>2, <3>3, DisconnectLeaves
    <3> QED  BY <1>1, <3>3, <3>4 DEF StoppedHere, Plays
  <2>7. ASSUME NEW a \in Addr, Accept(a) PROVE ~stopping /\ Plays
    <3>1. pc = "accept"
      BY <2>7 DEF Accept
    <3> QED  BY <1>1, <2>1, <2>7, <3>1 DEF StoppedHere, Plays
  <2>8. CASE DropClient
    <3>1. /\ pc = "clients" /\ i <= Len(poll_fds) /\ disconnect_client(poll_fds[i], i)
          /\ UNCHANGED <<stopping, coeff_file, events>>
      BY <2>8 DEF DropClient
    <3>2. i \in 1..Len(poll_fds)
      BY <1>1, <3>1 DEF LoopType, Index, PollType
    <3>3. \E fd \in FD : Leaves(fd)
      BY <3>1, <3>2, DisconnectLeaves
    <3> QED  BY <1>1, <3>1, <3>3 DEF StoppedHere, Plays
  <2>9. ASSUME NEW whole \in BOOLEAN, Write(whole) PROVE ~stopping /\ Plays
    <3>1. pc = "write"
      BY <2>9 DEF Write
    <3> QED  BY <1>1, <2>1, <2>9, <3>1 DEF StoppedHere, Plays
  <2>10. CASE WriteFails
    <3>1. /\ pc = "write" /\ WriteWanted /\ i > 0 /\ disconnect_client(poll_fds[i], i)
          /\ UNCHANGED <<stopping, coeff_file, events>>
      BY <2>10 DEF WriteFails
    <3>2. i \in 1..Len(poll_fds)
      BY <1>1, <3>1, WriteTarget
    <3>3. \E fd \in FD : Leaves(fd)
      BY <3>1, <3>2, DisconnectLeaves
    <3> QED  BY <1>1, <3>1, <3>3 DEF StoppedHere, Plays
  <2>11. CASE ReadLine
    <3>1. ASSUME NEW fd \in FD, NEW id \in PlayerId, ReadHello(fd, id) PROVE ~stopping /\ Plays
      <4>1. ~stopping
        BY <3>1 DEF ReadHello, Takes
      <4> QED  BY <2>1, <3>1, <4>1 DEF Plays
    <3>2. ASSUME NEW fd \in FD, NEW id \in PlayerId, ReadHelloNoCoeff(fd, id) PROVE Quiet
      BY <1>5, <3>2 DEF ReadHelloNoCoeff, pollVars
    <3>3. ASSUME NEW fd \in FD, NEW p \in Points, NEW v \in Values, ReadRejectedPut(fd, p, v)
          PROVE  ~stopping /\ Plays
      <4>1. ~stopping
        BY <3>3 DEF ReadRejectedPut, Takes
      <4> QED  BY <2>1, <3>3, <4>1 DEF Plays
    <3>4. ASSUME NEW fd \in FD, NEW p \in Points, NEW v \in Values, ReadPut(fd, p, v)
          PROVE  ~stopping /\ Plays
      <4>1. ~stopping
        BY <3>4 DEF ReadPut, Takes
      <4> QED  BY <2>1, <3>4, <4>1 DEF Plays
    <3>5. ASSUME NEW fd \in FD, NEW line \in ClientLine, ReadIgnored(fd, line) PROVE Quiet
      <4>1. UNCHANGED <<conn, gameVars, got>>
        BY <3>5 DEF ReadIgnored
      <4>2. LinesMove
        BY <3>5 DEF LinesMove
      <4> QED  BY <4>1, <4>2 DEF Quiet
    <3>6. ASSUME NEW fd \in FD, NEW line, ReadBeforeHello(fd, line) PROVE ~stopping /\ Plays
      <4>1. /\ Takes(fd, line) /\ disconnect_client(fd, i)
            /\ UNCHANGED <<stopping, coeff_file, events>>
        BY <3>6 DEF ReadBeforeHello
      <4>2. i \in 1..Len(poll_fds) /\ fd = poll_fds[i] /\ ~stopping
        BY <1>1, <4>1, TakesPlayer
      <4>3. \E f \in FD : Leaves(f)
        BY <4>1, <4>2, DisconnectLeaves
      <4> QED  BY <4>2, <4>3 DEF Plays
    <3> QED  BY <2>11, <3>1, <3>2, <3>3, <3>4, <3>5, <3>6 DEF ReadLine
  <2> QED  BY <2>1, <2>2, <2>3, <2>4, <2>5, <2>6, <2>7, <2>8, <2>9, <2>10, <2>11 DEF ServerStep
<1> QED  BY <1>2, <1>3, <1>4, <1>6 DEF Next

(* The step invariant is kept.                                             *)
LEMMA StoppedNext == StepInv /\ [Next]_vars => StoppedHere'
<1> SUFFICES ASSUME StepInv, [Next]_vars PROVE StoppedHere'
  OBVIOUS
<1> USE DEF StepInv
<1>1. CASE Quiet
  <2>1. CASE ~stopping
    BY <1>1, <2>1 DEF Quiet, gameVars, StoppedHere
  <2>2. CASE stopping
    <3>1. pc \in {"read", "poll", "exited"}
      BY <2>2 DEF StoppedHere
    <3>2. ASSUME ServerStep PROVE pc' \in {"read", "poll", "exited"}
      <4>1. ~ReadLine
        BY <2>2 DEF ReadLine, ReadHello, ReadHelloNoCoeff, ReadRejectedPut, ReadPut,
                    ReadIgnored, ReadBeforeHello, Takes
      <4>2. ~(SkipEvent \/ AnswerEvent \/ HelloTimeout \/ EndTimers \/ AcceptFails
                 \/ EndClients \/ DropClient \/ Receive \/ NothingToRead \/ NothingReported)
        BY <3>1 DEF SkipEvent, AnswerEvent, HelloTimeout, EndTimers, AcceptFails,
                    EndClients, DropClient, Receive, NothingToRead, NothingReported
      <4>3. ~(NothingToWrite \/ StopWatching \/ WriteFails \/ WriteKilled \/ WriteToListener)
        BY <3>1 DEF NothingToWrite, StopWatching, WriteFails, WriteKilled, WriteToListener
      <4>4. /\ ~\E a \in Addr : Accept(a)
            /\ ~\E whole \in BOOLEAN : Write(whole)
        BY <3>1 DEF Accept, Write
      <4>5. Poll \/ ResetServer \/ ResetKilled \/ EndRead
        BY <3>2, <4>1, <4>2, <4>3, <4>4 DEF ServerStep
      <4> QED  BY <2>2, <3>1, <4>5 DEF Poll, ResetServer, ResetKilled, EndRead
    <3>3. ASSUME Clients \/ Tick \/ Halted \/ UNCHANGED vars PROVE pc' = pc
      BY <3>3 DEF Clients, Connect, SendLine, Hangup, Tick, Halted, vars
    <3>4. pc' \in {"read", "poll", "exited"}
      BY <3>1, <3>2, <3>3 DEF Next, Server
    <3> QED  BY <3>4 DEF StoppedHere
  <2> QED  BY <2>1, <2>2
<1>2. CASE Restarts
  BY <1>2 DEF Restarts, StoppedHere
<1>3. CASE ~stopping /\ Plays
  <2>1. ASSUME NEW fd \in FD, NEW p \in Points, NEW v \in Values, ReadPut(fd, p, v)
        PROVE  StoppedHere'
    BY <2>1 DEF ReadPut, Takes, StoppedHere
  <2>2. CASE ~\E fd \in FD, p \in Points, v \in Values : ReadPut(fd, p, v)
    BY <1>3, <2>2 DEF Plays, Tick, SkipEvent, AnswerEvent, Accept, ReadHello, ReadRejectedPut,
                      Write, Leaves, StoppedHere
  <2> QED  BY <2>1, <2>2
<1> QED  BY <1>1, <1>2, <1>3, Steps

(* Both hold throughout.                                                   *)
LEMMA StepInvariant == Spec => []StepInv
<1>1. Init => StepInv
  BY TypeInit, StoppedInit DEF StepInv
<1>2. StepInv /\ [Next]_vars => StepInv'
  BY TypeNext, StoppedNext DEF StepInv
<1> QED  BY <1>1, <1>2, PTL DEF Spec

=============================================================================
