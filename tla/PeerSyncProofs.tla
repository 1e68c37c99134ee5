--------------------------- MODULE PeerSyncProofs ---------------------------
(***************************************************************************)
(* Proofs about PeerSync, for any nodes that get to know each other in any *)
(* order, any start times, delays and bounds, and any loss, overtaking and *)
(* duplication of datagrams.                                               *)
(***************************************************************************)
EXTENDS PeerSync, TLAPS

USE SyncAssumption

-----------------------------------------------------------------------------
(* Arithmetic *)

(* C's division by two is off by at most a half.                           *)
LEMMA HalfBounds ==
    ASSUME NEW s \in Int
    PROVE  Half(s) \in Int /\ 2 * Half(s) <= s + 1 /\ s <= 2 * Half(s) + 1
<1>1. CASE s >= 0
  BY <1>1 DEF Half
<1>2. CASE s < 0
  BY <1>2 DEF Half
<1> QED  BY <1>1, <1>2

(* A timer is never set to a time that is past.                            *)
LEMMA TimerAhead ==
    ASSUME NEW x \in Nat, now \in Nat
    PROVE  in_x_seconds(x) \in Nat /\ in_x_seconds(x) >= now
           /\ in_x_seconds(0) = now /\ in_x_seconds(1) = now + Second
<1>1. x * Second \in Nat
  OBVIOUS
<1> QED  BY <1>1 DEF in_x_seconds

-----------------------------------------------------------------------------
(* Types and levels.  Neither is inductive without the other: a level has  *)
(* room for one more only if no offer of the last levels is taken.         *)
TypeAndLevels == TypeOK /\ LevelsLeaveRoom

(* The clock of a node is a timestamp, and "shift" is what it is behind.   *)
LEMMA ClockType ==
    ASSUME TypeOK, NEW n \in Node
    PROVE  get_natural_clock(n) \in Nat /\ get_clock(n) \in Nat
<1>1. get_natural_clock(n) \in Nat
  BY DEF TypeOK, get_natural_clock
<1>2. node[n].offset_ms \in Int
  BY DEF TypeOK, NodeData
<1> QED  BY <1>1, <1>2 DEF get_clock

(* NodeData is not initialised completely, but well enough.                *)
LEMMA TypeInit == Init => TypeAndLevels
<1> SUFFICES ASSUME Init PROVE TypeAndLevels
  OBVIOUS
<1>1. PICK garbage \in [Node -> Garbage] :
         node = [n \in Node |->
            [sync_level |-> CLOCK_UNSYNCHRONIZED, offset_ms |-> 0,
             synchronized_peer |-> garbage[n],
             next_sync_start |-> Unset, next_sync_check |-> Unset, last_sync_start |-> 0,
             asked_to_synchronize |-> {}, synchronizing |-> FALSE,
             synchronizing_level |-> 0, peer_to_sync |-> NoPeer,
             waiting_for_delay_response |-> Unset,
             T1 |-> 0, T2 |-> 0, T3 |-> 0, shift |-> 0]]
  BY DEF Init
<1>2. node \in [Node -> NodeData]
  BY <1>1 DEF NodeData, Level, Time, Unset
<1>3. \A n \in Node : node[n].synchronizing = FALSE
  BY <1>1
<1> QED  BY <1>2, <1>3 DEF Init, TypeAndLevels, TypeOK, LevelsLeaveRoom

(* What receiving a datagram does to everything but the node itself.       *)
LEMMA ReceiveFacts ==
    ASSUME TypeOK, NEW m, NEW replies, replies \subseteq Message, Receive(m, replies)
    PROVE  /\ m \in net /\ m.dst \in Node
           /\ net' \subseteq net \cup replies /\ net' \subseteq Message
           /\ at' = [at EXCEPT ![m.dst] = "timers"]
           /\ at' \in [Node -> {"timers", "recv"}]
           /\ copies' \in Nat
           /\ UNCHANGED <<now, peer_list, wake, commands>>
BY DEF Receive, TypeOK, Message

(* The offers of the timers are well formed and leave room.                *)
LEMMA OffersOK ==
    ASSUME TypeOK, NEW n \in Node, TimeToOffer(node[n])
    PROVE  /\ Offers(n) \subseteq Message
           /\ \A m \in Offers(n) : m.type = "SYNC_START" /\ m.level < CLOCK_UNSYNCHRONIZED - 1
                                   /\ m.src = n /\ m.dst \in peer_list[n]
                                   /\ m.ts + m.shift = now
<1>1. get_clock(n) \in Nat /\ now \in Nat
  BY ClockType DEF TypeOK
<1>2. node[n].sync_level \in Level /\ node[n].sync_level < CLOCK_UNSYNCHRONIZED - 1
  BY DEF TypeOK, NodeData, TimeToOffer
<1> QED  BY <1>1, <1>2 DEF Offers, Message, TypeOK

(* What check_and_handle_timers makes of the NodeData: sync is lost, or    *)
(* offers are sent, or nothing happens.                                    *)
LEMMA TimersCases ==
    ASSUME TypeOK, NEW n \in Node, check_and_handle_timers(n)
    PROVE  \/ /\ SyncLost(node[n])
              /\ node' = [node EXCEPT ![n] = Unsynchronized(node[n])] /\ net' = net
           \/ /\ ~SyncLost(node[n]) /\ TimeToOffer(node[n])
              /\ node' = [node EXCEPT ![n] = Offered(n, node[n])] /\ net' = net \cup Offers(n)
           \/ /\ ~SyncLost(node[n]) /\ ~TimeToOffer(node[n])
              /\ node' = [node EXCEPT ![n] = node[n]] /\ net' = net
<1>1. node[n] \in NodeData
  BY DEF TypeOK
<1>2. ~TimeToOffer(Unsynchronized(node[n]))
  BY <1>1 DEF TimeToOffer, Unsynchronized, NodeData
<1> QED  BY <1>2 DEF check_and_handle_timers

(* The NodeData stays well formed through each of its changes.             *)
LEMMA UnsynchronizedType ==
    ASSUME NEW d \in NodeData
    PROVE  Unsynchronized(d) \in NodeData
<1> DEFINE With(level, offset) == [d EXCEPT !.sync_level = level, !.offset_ms = offset]
<1>1. ASSUME NEW level \in Level, NEW offset \in Int PROVE With(level, offset) \in NodeData
  BY DEF NodeData
<1>2. Unsynchronized(d) = With(CLOCK_UNSYNCHRONIZED, 0)
  BY DEF Unsynchronized
<1>3. CLOCK_UNSYNCHRONIZED \in Level /\ 0 \in Int
  BY DEF Level
<1> HIDE DEF With
<1> QED  BY <1>1, <1>2, <1>3

(* The same for the bookkeeping of an offer ...                            *)
LEMMA OfferedType ==
    ASSUME TypeOK, NEW n \in Node
    PROVE  Offered(n, node[n]) \in NodeData
<1>1. node[n] \in NodeData /\ now \in Nat /\ get_natural_clock(n) \in Nat
  BY ClockType DEF TypeOK
<1>2. in_x_seconds(SYNC_START_DELAY) \in Nat
  BY <1>1, TimerAhead
<1> DEFINE With(asked, last, next) ==
              [node[n] EXCEPT !.asked_to_synchronize = asked, !.last_sync_start = last,
                              !.next_sync_start = next]
<1>3. ASSUME NEW asked \in SUBSET Node, NEW last \in Nat, NEW next \in Time
      PROVE  With(asked, last, next) \in NodeData
  BY <1>1 DEF NodeData
<1>4. PICK asked \in SUBSET Node :
         Offered(n, node[n]) = With(asked, get_natural_clock(n), in_x_seconds(SYNC_START_DELAY))
  <2>1. peer_list[n] \in SUBSET Node /\ node[n].asked_to_synchronize \in SUBSET Node
    BY <1>1 DEF TypeOK, NodeData
  <2> QED  BY <2>1 DEF Offered
<1>5. in_x_seconds(SYNC_START_DELAY) \in Time
  BY <1>2 DEF Time
<1> HIDE DEF With
<1> QED  BY <1>1, <1>3, <1>4, <1>5

(* ... for the begin of a handshake ...                                    *)
LEMMA SynchronizingType ==
    ASSUME TypeOK, NEW m \in net, m.type = "SYNC_START"
    PROVE  Synchronizing(m.dst, m) \in NodeData
<1> DEFINE n == m.dst
<1>1. m.src \in Node /\ n \in Node /\ m.level \in Level /\ m.ts \in Nat /\ m.shift \in Int
  BY DEF TypeOK, Message
<1>2. node[n] \in NodeData /\ now \in Nat /\ get_natural_clock(n) \in Nat
  BY <1>1, ClockType DEF TypeOK
<1>3. /\ in_x_seconds(SYNCHRONIZATION_CHECK_DELAY) \in Time
      /\ in_x_seconds(DELAY_RESPONSE_TIME) \in Time
  BY <1>2, TimerAhead DEF Time
<1>4. ASSUME NEW check \in Time
      PROVE  [node[n] EXCEPT
                !.next_sync_check = check,
                !.synchronizing = TRUE, !.synchronizing_level = m.level,
                !.peer_to_sync = m.src, !.T1 = m.ts, !.shift = m.shift,
                !.T2 = get_natural_clock(n), !.T3 = get_natural_clock(n),
                !.waiting_for_delay_response = in_x_seconds(DELAY_RESPONSE_TIME)]
             \in NodeData
  BY <1>1, <1>2, <1>3 DEF NodeData
<1>5. node[n].next_sync_check \in Time
  BY <1>2 DEF NodeData
<1> QED  BY <1>3, <1>4, <1>5 DEF Synchronizing

(* ... and for its end.                                                    *)
LEMMA SynchronizedType ==
    ASSUME TypeAndLevels, NEW m \in net, m.type = "DELAY_RESPONSE", Expected(m.dst, m)
    PROVE  Synchronized(node[m.dst], m) \in NodeData
<1> DEFINE n == m.dst
           d == node[n]
<1>1. m.src \in Node /\ n \in Node /\ m.level \in Level /\ m.ts \in Nat
  BY DEF TypeAndLevels, TypeOK, Message
<1>2. d \in NodeData /\ now \in Nat
  BY <1>1 DEF TypeAndLevels, TypeOK
<1>3. m.level + 1 \in Level
  BY <1>1 DEF TypeAndLevels, LevelsLeaveRoom, Expected, Level
<1>4. update_offset(d.T1, d.T2, d.T3, m.ts) \in Int
  <2>1. d.T1 \in Nat /\ d.T2 \in Nat /\ d.T3 \in Nat
    BY <1>2 DEF NodeData
  <2>2. (d.T2 - d.T1) + (d.T3 - m.ts) \in Int
    BY <1>1, <2>1
  <2> QED  BY <2>2, HalfBounds DEF update_offset
<1>5. FirstOffer(d, m.level) \in Time /\ in_x_seconds(SYNCHRONIZATION_CHECK_DELAY) \in Time
  BY <1>2, TimerAhead DEF FirstOffer, Time, NodeData
<1> DEFINE With(start, level, offset, check, unset, lowest, zero) ==
             [d EXCEPT !.next_sync_start = start, !.sync_level = level,
                       !.offset_ms = offset, !.synchronized_peer = m.src,
                       !.next_sync_check = check,
                       !.synchronizing = FALSE, !.synchronizing_level = lowest,
                       !.peer_to_sync = NoPeer, !.waiting_for_delay_response = unset,
                       !.T1 = zero, !.T2 = zero, !.T3 = zero, !.shift = zero]
<1>6. ASSUME NEW start \in Time, NEW level \in Level, NEW offset \in Int, NEW check \in Time,
             NEW unset \in Time, NEW lowest \in Level, NEW zero \in Nat
      PROVE  With(start, level, offset, check, unset, lowest, zero) \in NodeData
  <2>1. zero \in Int /\ NoPeer \in Node \cup {NoPeer} /\ m.src \in Node \cup {NoPeer}
    BY <1>1
  <2> QED  BY <1>2, <2>1 DEF NodeData
<1>7. Unset \in Time /\ 0 \in Level /\ 0 \in Nat
  BY DEF Unset, Time, Level
<1>8. Synchronized(d, m) = With(FirstOffer(d, m.level), m.level + 1,
                                update_offset(d.T1, d.T2, d.T3, m.ts),
                                in_x_seconds(SYNCHRONIZATION_CHECK_DELAY), Unset, 0, 0)
  BY DEF Synchronized, Upstream
<1> HIDE DEF With
<1> QED  BY <1>3, <1>4, <1>5, <1>6, <1>7, <1>8

-----------------------------------------------------------------------------
(* A LEADER message, and what it makes of the NodeData.                    *)
LEMMA LeaderType ==
    ASSUME TypeOK, NEW n \in Node, NEW level, handle_leader(n, level)
    PROVE  /\ node' \in [Node -> NodeData]
           /\ \A p \in Node \ {n} : node'[p] = node[p]
           /\ node'[n].synchronizing = node[n].synchronizing
           /\ node'[n].synchronizing_level = node[n].synchronizing_level
<1>1. node[n] \in NodeData /\ in_x_seconds(LEADER_SYNCHRONIZATION_DELAY) \in Time
  BY TimerAhead DEF TypeOK, Time
<1>2. CLOCK_LEADER \in Level /\ CLOCK_UNSYNCHRONIZED \in Level
  BY DEF Level, CLOCK_LEADER
<1>3. CASE node' = [node EXCEPT ![n].sync_level = CLOCK_LEADER,
                     ![n].next_sync_start = in_x_seconds(LEADER_SYNCHRONIZATION_DELAY)]
  BY <1>1, <1>2, <1>3 DEF TypeOK, NodeData
<1>4. CASE node' = [node EXCEPT ![n].sync_level = CLOCK_UNSYNCHRONIZED]
  BY <1>1, <1>2, <1>4 DEF TypeOK, NodeData
<1> QED  BY <1>3, <1>4 DEF handle_leader

-----------------------------------------------------------------------------
(* Every step keeps the types and leaves room for the levels.              *)
LEMMA TypeNext == TypeAndLevels /\ [Next]_vars => TypeAndLevels'
<1> SUFFICES ASSUME TypeAndLevels, [Next]_vars PROVE TypeAndLevels'
  OBVIOUS
<1> USE DEF TypeAndLevels
<1>0. TypeOK /\ now \in Nat /\ node \in [Node -> NodeData]
  BY DEF TypeOK
<1>1. ASSUME NEW n \in Node, check_and_handle_timers(n) PROVE TypeAndLevels'
  <2>1. /\ at' = [at EXCEPT ![n] = "recv"] /\ wake' = [wake EXCEPT ![n] = in_x_seconds(1)]
        /\ UNCHANGED <<now, peer_list, commands, copies, measured>>
    BY <1>1 DEF check_and_handle_timers
  <2>2. in_x_seconds(1) \in Nat
    BY <1>0, TimerAhead
  <2>3. CASE node' = [node EXCEPT ![n] = Unsynchronized(node[n])] /\ net' = net
    <3>1. node' \in [Node -> NodeData]
      BY <1>0, <2>3, UnsynchronizedType
    <3>2. TypeOK'
      BY <1>0, <2>1, <2>2, <2>3, <3>1 DEF TypeOK
    <3>3. \A p \in Node : /\ node'[p].synchronizing = node[p].synchronizing
                          /\ node'[p].synchronizing_level = node[p].synchronizing_level
      BY <1>0, <2>3 DEF Unsynchronized, NodeData
    <3> QED  BY <2>3, <3>2, <3>3 DEF LevelsLeaveRoom
  <2>4. CASE /\ TimeToOffer(node[n])
             /\ node' = [node EXCEPT ![n] = Offered(n, node[n])] /\ net' = net \cup Offers(n)
    <3>1. node' \in [Node -> NodeData]
      BY <1>0, <2>4, OfferedType
    <3>2. net' \subseteq Message /\ \A m \in net' : m.type = "SYNC_START" => m.level < CLOCK_UNSYNCHRONIZED - 1
      BY <1>0, <2>4, OffersOK DEF TypeOK, LevelsLeaveRoom
    <3>3. TypeOK'
      BY <1>0, <2>1, <2>2, <3>1, <3>2 DEF TypeOK
    <3>4. \A p \in Node : /\ node'[p].synchronizing = node[p].synchronizing
                          /\ node'[p].synchronizing_level = node[p].synchronizing_level
      BY <1>0, <2>4 DEF Offered, NodeData
    <3> QED  BY <3>2, <3>3, <3>4 DEF LevelsLeaveRoom
  <2>5. CASE node' = [node EXCEPT ![n] = node[n]] /\ net' = net
    <3>1. node' = node
      BY <1>0, <2>5
    <3> QED  BY <1>0, <2>1, <2>2, <2>5, <3>1 DEF TypeOK, LevelsLeaveRoom
  <2> QED  BY <1>0, <1>1, <2>3, <2>4, <2>5, TimersCases
<1>2. ASSUME NEW n \in Node, ReceiveTimeout(n) PROVE TypeAndLevels'
  BY <1>0, <1>2 DEF ReceiveTimeout, TypeOK, LevelsLeaveRoom
<1>3. ASSUME NEW n \in Node, NEW level, handle_leader(n, level) PROVE TypeAndLevels'
  <2>1. /\ at' = [at EXCEPT ![n] = "timers"] /\ commands' = commands + 1
        /\ UNCHANGED <<now, peer_list, wake, net, copies, measured>>
    BY <1>3 DEF handle_leader
  <2>2. node' \in [Node -> NodeData]
    BY <1>0, <1>3, LeaderType
  <2>3. \A p \in Node : /\ node'[p].synchronizing = node[p].synchronizing
                        /\ node'[p].synchronizing_level = node[p].synchronizing_level
    BY <1>0, <1>3, LeaderType
  <2>4. at' \in [Node -> {"timers", "recv"}] /\ commands' \in Nat
    BY <2>1 DEF TypeOK
  <2>5. TypeOK'
    BY <1>0, <2>1, <2>2, <2>4 DEF TypeOK
  <2>6. LevelsLeaveRoom'
    BY <2>1, <2>3 DEF LevelsLeaveRoom
  <2> QED  BY <2>5, <2>6
<1>4. ASSUME NEW m \in net, handle_sync_start(m) PROVE TypeAndLevels'
  <2> DEFINE n == m.dst
             request == [type |-> "DELAY_REQUEST", src |-> n, dst |-> m.src]
  <2>1. n \in Node /\ m.src \in Node /\ m.level \in Level /\ m.type = "SYNC_START"
    BY <1>0, <1>4 DEF TypeOK, Message, handle_sync_start
  <2>2. request \in Message
    BY <2>1 DEF Message
  <2>3. PICK replies \in SUBSET {request} : Receive(m, replies)
    BY <1>4 DEF handle_sync_start
  <2>4. /\ net' \subseteq net \cup {request} /\ net' \subseteq Message
        /\ at' \in [Node -> {"timers", "recv"}] /\ copies' \in Nat
        /\ UNCHANGED <<now, peer_list, wake, commands>>
    BY <1>0, <2>2, <2>3, ReceiveFacts
  <2>5. measured' = measured
    BY <1>4 DEF handle_sync_start
  <2>6. \A k \in net' : k.type = "SYNC_START" => k.level < CLOCK_UNSYNCHRONIZED - 1
    BY <2>4 DEF LevelsLeaveRoom
  <2>7. CASE node' = [node EXCEPT ![n] = Unsynchronized(@)]
    <3>1. node' \in [Node -> NodeData]
      BY <1>0, <2>1, <2>7, UnsynchronizedType
    <3>2. \A p \in Node : /\ node'[p].synchronizing = node[p].synchronizing
                          /\ node'[p].synchronizing_level = node[p].synchronizing_level
      BY <1>0, <2>1, <2>7 DEF Unsynchronized, NodeData
    <3> QED  BY <1>0, <2>4, <2>5, <2>6, <3>1, <3>2 DEF TypeOK, LevelsLeaveRoom
  <2>8. CASE TakesOffer(n, m) /\ node' = [node EXCEPT ![n] = Synchronizing(n, m)]
    <3>1. node' \in [Node -> NodeData]
      BY <1>0, <2>1, <2>8, SynchronizingType
    <3>2. m.level < CLOCK_UNSYNCHRONIZED - 1
      BY <2>8 DEF TakesOffer, check_sync_start
    <3>3. Synchronizing(n, m).synchronizing_level = m.level
      BY <1>0, <2>1 DEF Synchronizing, NodeData
    <3>4. \A p \in Node : node'[p].synchronizing =>
                             node'[p].synchronizing_level < CLOCK_UNSYNCHRONIZED - 1
      BY <1>0, <2>1, <2>8, <3>2, <3>3 DEF LevelsLeaveRoom
    <3> QED  BY <1>0, <2>4, <2>5, <2>6, <3>1, <3>4 DEF TypeOK, LevelsLeaveRoom
  <2>9. CASE node' = [node EXCEPT ![n] = @]
    <3>1. node' = node
      BY <1>0, <2>1, <2>9
    <3> QED  BY <1>0, <2>4, <2>5, <2>6, <3>1 DEF TypeOK, LevelsLeaveRoom
  <2> QED  BY <1>4, <2>7, <2>8, <2>9 DEF handle_sync_start
<1>5. ASSUME NEW m \in net, handle_delay_request(m) PROVE TypeAndLevels'
  <2> DEFINE n == m.dst
             response == [type |-> "DELAY_RESPONSE", src |-> n, dst |-> m.src,
                          level |-> node[n].sync_level, ts |-> get_clock(n),
                          shift |-> now - get_clock(n)]
  <2>1. n \in Node /\ m.src \in Node
    BY <1>0 DEF TypeOK, Message
  <2>2. response \in Message
    <3>1. get_clock(n) \in Nat /\ now - get_clock(n) \in Int /\ node[n].sync_level \in Level
      BY <1>0, <2>1, ClockType DEF NodeData
    <3> QED  BY <2>1, <3>1 DEF Message
  <2>3. PICK replies \in SUBSET {response} : Receive(m, replies)
    BY <1>5 DEF handle_delay_request
  <2>4. /\ net' \subseteq net \cup {response} /\ net' \subseteq Message
        /\ at' \in [Node -> {"timers", "recv"}] /\ copies' \in Nat
        /\ UNCHANGED <<now, peer_list, wake, commands>>
    BY <1>0, <2>2, <2>3, ReceiveFacts
  <2>5. UNCHANGED <<node, measured>>
    BY <1>5 DEF handle_delay_request
  <2>6. \A k \in net' : k.type = "SYNC_START" => k.level < CLOCK_UNSYNCHRONIZED - 1
    BY <2>4 DEF LevelsLeaveRoom
  <2> QED  BY <1>0, <2>4, <2>5, <2>6 DEF TypeOK, LevelsLeaveRoom
<1>6. ASSUME NEW m \in net, handle_delay_response(m) PROVE TypeAndLevels'
  <2> DEFINE n == m.dst
             sample == [before |-> node[n].shift, after |-> m.shift, rtt |-> m.ts - node[n].T1]
  <2>1. n \in Node /\ m.type = "DELAY_RESPONSE" /\ m.ts \in Nat /\ m.shift \in Int
    BY <1>0, <1>6 DEF TypeOK, Message, handle_delay_response
  <2>2. /\ net' \subseteq net /\ net' \subseteq Message
        /\ at' \in [Node -> {"timers", "recv"}] /\ copies' \in Nat
        /\ UNCHANGED <<now, peer_list, wake, commands>>
    BY <1>0, <1>6, ReceiveFacts DEF handle_delay_response
  <2>3. \A k \in net' : k.type = "SYNC_START" => k.level < CLOCK_UNSYNCHRONIZED - 1
    BY <2>2 DEF LevelsLeaveRoom
  <2>4. CASE Expected(n, m)
    <3>1. /\ node' = [node EXCEPT ![n] = Synchronized(@, m)]
          /\ measured' = [measured EXCEPT ![n] = {sample}]
      BY <1>6, <2>4 DEF handle_delay_response
    <3>2. node' \in [Node -> NodeData]
      BY <1>0, <2>1, <2>4, <3>1, SynchronizedType
    <3>3. sample \in [before : Int, after : Int, rtt : Int]
      BY <1>0, <2>1 DEF NodeData
    <3>4. measured' \in [Node -> SUBSET [before : Int, after : Int, rtt : Int]]
      BY <2>1, <3>1, <3>3 DEF TypeOK
    <3>5. Synchronized(node[n], m).synchronizing = FALSE
      BY <1>0, <2>1 DEF Synchronized, NodeData
    <3>6. \A p \in Node : node'[p].synchronizing =>
                             node'[p].synchronizing_level < CLOCK_UNSYNCHRONIZED - 1
      BY <1>0, <2>1, <3>1, <3>5 DEF LevelsLeaveRoom
    <3> QED  BY <1>0, <2>2, <2>3, <3>2, <3>4, <3>6 DEF TypeOK, LevelsLeaveRoom
  <2>5. CASE ~Expected(n, m)
    <3>1. UNCHANGED <<node, measured>>
      BY <1>6, <2>5 DEF handle_delay_response
    <3> QED  BY <1>0, <2>2, <2>3, <3>1 DEF TypeOK, LevelsLeaveRoom
  <2> QED  BY <2>4, <2>5
<1>7. ASSUME NEW m \in net, Lose(m) PROVE TypeAndLevels'
  BY <1>0, <1>7 DEF Lose, TypeOK, LevelsLeaveRoom
<1>8. CASE Tick
  BY <1>0, <1>8 DEF Tick, TypeOK, LevelsLeaveRoom
<1>9. CASE UNCHANGED vars
  BY <1>0, <1>9 DEF vars, TypeOK, LevelsLeaveRoom
<1>10. ASSUME NEW n \in Node, OtherDatagram(n) PROVE TypeAndLevels'
  <2>1. peer_list' \in [Node -> SUBSET Node] /\ at' \in [Node -> {"timers", "recv"}]
    BY <1>10 DEF OtherDatagram, TypeOK
  <2> QED  BY <1>0, <1>10, <2>1 DEF OtherDatagram, TypeOK, LevelsLeaveRoom
<1> QED  BY <1>1, <1>2, <1>3, <1>4, <1>5, <1>6, <1>7, <1>8, <1>9, <1>10 DEF Next, Handle

(* The NodeData and the datagrams stay well formed: no level overflows its *)
(* byte and no timestamp is negative.                                      *)
THEOREM TypeCorrect == Spec => []TypeOK
BY TypeInit, TypeNext, PTL DEF Spec, TypeAndLevels

(* No offer is made or taken that leaves no room for the level of who      *)
(* takes it: the tests of check_and_handle_timers, handle_sync_start and   *)
(* handle_delay_response fit together.                                     *)
THEOREM LevelsHaveRoom == Spec => []LevelsLeaveRoom
BY TypeInit, TypeNext, PTL DEF Spec, TypeAndLevels

-----------------------------------------------------------------------------
(* What a step can do to one node *)

Led(d) == [d EXCEPT !.sync_level = CLOCK_LEADER,
                    !.next_sync_start = in_x_seconds(LEADER_SYNCHRONIZATION_DELAY)]
NoLonger(d) == [d EXCEPT !.sync_level = CLOCK_UNSYNCHRONIZED]

NodeStep(n) ==
    \/ node'[n] = node[n]
    \/ /\ now' = now
       /\ \/ node'[n] = Unsynchronized(node[n])
          \/ node'[n] = Offered(n, node[n])
          \/ node'[n] = Led(node[n])
          \/ node'[n] = NoLonger(node[n])
          \/ \E m \in net : /\ m.type = "SYNC_START" /\ m.dst = n /\ TakesOffer(n, m)
                            /\ node'[n] = Synchronizing(n, m)
          \/ \E m \in net : /\ m.type = "DELAY_RESPONSE" /\ m.dst = n /\ Expected(n, m)
                            /\ node'[n] = Synchronized(node[n], m)

(* Every step is one of these for every node, and time does not run back.  *)
LEMMA NodeSteps ==
    ASSUME TypeOK, [Next]_vars
    PROVE  /\ \A n \in Node : NodeStep(n)
           /\ now' = now \/ now' = now + 1
<1>0. node \in [Node -> NodeData]
  BY DEF TypeOK
<1>1. ASSUME NEW p \in Node, check_and_handle_timers(p)
      PROVE  now' = now /\ \A n \in Node : NodeStep(n)
  <2>1. now' = now
    BY <1>1 DEF check_and_handle_timers
  <2>2. \/ node' = [node EXCEPT ![p] = Unsynchronized(node[p])]
        \/ node' = [node EXCEPT ![p] = Offered(p, node[p])]
        \/ node' = [node EXCEPT ![p] = node[p]]
    BY <1>1, TimersCases
  <2> QED  BY <1>0, <2>1, <2>2 DEF NodeStep
<1>2. ASSUME NEW p \in Node, NEW level, handle_leader(p, level)
      PROVE  now' = now /\ \A n \in Node : NodeStep(n)
  <2>1. now' = now
    BY <1>2 DEF handle_leader
  <2>2. \/ node' = [node EXCEPT ![p] = Led(@)]
        \/ node' = [node EXCEPT ![p] = NoLonger(@)]
    BY <1>2 DEF handle_leader, Led, NoLonger
  <2> QED  BY <1>0, <2>1, <2>2 DEF NodeStep
<1>3. ASSUME NEW m \in net, handle_sync_start(m)
      PROVE  now' = now /\ \A n \in Node : NodeStep(n)
  <2>1. now' = now /\ m.type = "SYNC_START"
    BY <1>3 DEF handle_sync_start, Receive
  <2>2. \/ node' = [node EXCEPT ![m.dst] = Unsynchronized(@)]
        \/ TakesOffer(m.dst, m) /\ node' = [node EXCEPT ![m.dst] = Synchronizing(m.dst, m)]
        \/ node' = [node EXCEPT ![m.dst] = @]
    BY <1>3 DEF handle_sync_start
  <2> QED  BY <1>0, <2>1, <2>2 DEF NodeStep
<1>4. ASSUME NEW m \in net, handle_delay_response(m)
      PROVE  now' = now /\ \A n \in Node : NodeStep(n)
  <2>1. now' = now /\ m.type = "DELAY_RESPONSE"
    BY <1>4 DEF handle_delay_response, Receive
  <2>2. \/ Expected(m.dst, m) /\ node' = [node EXCEPT ![m.dst] = Synchronized(@, m)]
        \/ node' = node
    BY <1>4 DEF handle_delay_response
  <2> QED  BY <1>0, <2>1, <2>2 DEF NodeStep
<1>5. ASSUME NEW m \in net, handle_delay_request(m) \/ Lose(m)
      PROVE  now' = now /\ \A n \in Node : NodeStep(n)
  BY <1>5 DEF handle_delay_request, Receive, Lose, NodeStep
<1>6. ASSUME NEW n \in Node, ReceiveTimeout(n) \/ OtherDatagram(n) PROVE now' = now /\ node' = node
  BY <1>6 DEF ReceiveTimeout, OtherDatagram
<1>7. CASE Tick
  BY <1>7 DEF Tick, NodeStep
<1>8. CASE UNCHANGED vars
  BY <1>8 DEF vars, NodeStep
<1> QED  BY <1>1, <1>2, <1>3, <1>4, <1>5, <1>6, <1>7, <1>8 DEF Next, Handle, NodeStep

(* Peers only come, and never the node itself.                             *)
LEMMA PeersCome ==
    ASSUME TypeOK, [Next]_vars, NEW n \in Node
    PROVE  /\ peer_list[n] \subseteq peer_list'[n]
           /\ n \notin peer_list[n] => n \notin peer_list'[n]
<1>1. ASSUME NEW p \in Node, OtherDatagram(p)
      PROVE  /\ peer_list[n] \subseteq peer_list'[n]
             /\ n \notin peer_list[n] => n \notin peer_list'[n]
  BY <1>1 DEF OtherDatagram, TypeOK
<1>2. \/ \E p \in Node : OtherDatagram(p)
      \/ peer_list' = peer_list
  BY DEF Next, Handle, vars, Receive, check_and_handle_timers, ReceiveTimeout, handle_leader,
         handle_sync_start, handle_delay_request, handle_delay_response, Lose, Tick
<1> QED  BY <1>1, <1>2

-----------------------------------------------------------------------------
(* Timers, upstream peer and offset *)

(* For one node: the timers it may look at are armed, the peer it follows, *)
(* or is about to follow, is one of its own, and its offset, or the one it *)
(* is about to compute, is one its clock has passed.                       *)
Sound(n, d) ==
    /\ d.sync_level < CLOCK_UNSYNCHRONIZED - 1 => d.next_sync_start # Unset
    /\ CLOCK_LEADER < d.sync_level /\ d.sync_level < CLOCK_UNSYNCHRONIZED
          => d.next_sync_check # Unset /\ d.synchronized_peer \in peer_list[n]
    /\ d.synchronizing => /\ d.peer_to_sync \in peer_list[n]
                          /\ d.T2 = d.T3 /\ d.T2 <= get_natural_clock(n)
    /\ d.offset_ms <= get_natural_clock(n)
SoundInv == \A n \in Node : Sound(n, node[n]) /\ n \notin peer_list[n]

(* An offset computed from T2 = T3 is at most T2, for timestamps are not   *)
(* negative and the response is no older than the offer.                   *)
LEMMA OffsetBelowT2 ==
    ASSUME NEW T1 \in Nat, NEW T2 \in Nat, NEW T4 \in Nat
    PROVE  update_offset(T1, T2, T2, T4) <= T2
<1> DEFINE sum == (T2 - T1) + (T2 - T4)
<1>1. sum \in Int /\ sum <= 2 * T2
  OBVIOUS
<1>2. CASE sum >= 0
  BY <1>1, <1>2 DEF update_offset, Half
<1>3. CASE sum < 0
  BY <1>1, <1>3 DEF update_offset, Half
<1> QED  BY <1>1, <1>2, <1>3

(* Each change of the NodeData keeps it sound.                             *)
LEMMA SoundStep ==
    ASSUME TypeAndLevels, SoundInv, NEW n \in Node, NodeStep(n), now' = now
    PROVE  Sound(n, node'[n])
<1> DEFINE d == node[n]
<1>0. /\ d \in NodeData /\ now \in Nat /\ Sound(n, d) /\ get_natural_clock(n) \in Nat
  BY ClockType DEF TypeAndLevels, TypeOK, SoundInv
<1>u. ASSUME NEW x \in Nat PROVE in_x_seconds(x) \in Nat /\ in_x_seconds(x) # Unset
  BY <1>0, TimerAhead DEF Unset
<1>1. CASE node'[n] = Unsynchronized(d)
  BY <1>0, <1>1 DEF Unsynchronized, Sound, NodeData, Level
<1>2. CASE node'[n] = Offered(n, d)
  BY <1>0, <1>2, <1>u DEF Offered, Sound, NodeData, Level
<1>3. CASE node'[n] = Led(d)
  BY <1>0, <1>3, <1>u DEF Led, Sound, NodeData, Level, CLOCK_LEADER
<1>4. CASE node'[n] = NoLonger(d)
  BY <1>0, <1>4 DEF NoLonger, Sound, NodeData, Level
<1>5. ASSUME NEW m \in net, m.type = "SYNC_START", m.dst = n, TakesOffer(n, m),
             node'[n] = Synchronizing(n, m)
      PROVE  Sound(n, node'[n])
  <2>1. m.src \in peer_list[n]
    BY <1>5 DEF TakesOffer, check_sync_start
  <2> QED  BY <1>0, <1>5, <1>u, <2>1 DEF Synchronizing, Sound, NodeData, Level
<1>6. ASSUME NEW m \in net, m.type = "DELAY_RESPONSE", m.dst = n, Expected(n, m),
             node'[n] = Synchronized(d, m)
      PROVE  Sound(n, node'[n])
  <2>1. m.ts \in Nat /\ m.src \in peer_list[n] /\ m.level \in Level
    BY <1>0, <1>6 DEF TypeAndLevels, TypeOK, Message, Expected, Sound
  <2>2. update_offset(d.T1, d.T2, d.T3, m.ts) <= get_natural_clock(n)
    <3>1. /\ d.T1 \in Nat /\ d.T2 \in Nat /\ d.T3 = d.T2 /\ d.T2 <= get_natural_clock(n)
      BY <1>0, <1>6 DEF Expected, Sound, NodeData
    <3>2. update_offset(d.T1, d.T2, d.T2, m.ts) <= d.T2
      BY <2>1, <3>1, OffsetBelowT2
    <3>3. update_offset(d.T1, d.T2, d.T2, m.ts) \in Int
      <4>1. (d.T2 - d.T1) + (d.T2 - m.ts) \in Int
        BY <2>1, <3>1
      <4> QED  BY <4>1, HalfBounds DEF update_offset
    <3> QED  BY <1>0, <3>1, <3>2, <3>3
  <2>3. m.level + 1 < CLOCK_UNSYNCHRONIZED - 1 => FirstOffer(d, m.level) # Unset
    BY <1>0, <1>u, <2>1 DEF FirstOffer, Sound, NodeData, Level
  <2>4. /\ node'[n].sync_level = m.level + 1
        /\ node'[n].next_sync_start = FirstOffer(d, m.level)
        /\ node'[n].next_sync_check = in_x_seconds(SYNCHRONIZATION_CHECK_DELAY)
        /\ node'[n].synchronized_peer = m.src
        /\ node'[n].synchronizing = FALSE
        /\ node'[n].offset_ms = update_offset(d.T1, d.T2, d.T3, m.ts)
    BY <1>0, <1>6 DEF Synchronized, Upstream, NodeData
  <2> QED  BY <1>u, <2>1, <2>2, <2>3, <2>4 DEF Sound
<1> QED  BY <1>0, <1>1, <1>2, <1>3, <1>4, <1>5, <1>6 DEF NodeStep

(* Time passing keeps it sound as well.                                    *)
LEMMA SoundNext == TypeAndLevels /\ SoundInv /\ [Next]_vars => SoundInv'
<1> SUFFICES ASSUME TypeAndLevels, SoundInv, [Next]_vars, NEW n \in Node
             PROVE  Sound(n, node[n])'
  BY PeersCome DEF SoundInv, TypeAndLevels
<1>p. peer_list[n] \subseteq peer_list'[n]
  BY PeersCome DEF TypeAndLevels
<1>0. TypeOK /\ NodeStep(n) /\ (now' = now \/ now' = now + 1) /\ now \in Nat
  BY NodeSteps DEF TypeAndLevels, TypeOK
<1>1. CASE now' = now
  <2>1. Sound(n, node'[n])
    BY <1>0, <1>1, SoundStep
  <2> QED  BY <1>1, <1>p, <2>1 DEF Sound, get_natural_clock
<1>2. CASE now' = now + 1
  <2>1. node'[n] = node[n]
    BY <1>0, <1>2 DEF NodeStep
  <2>2. Sound(n, node[n]) /\ node[n] \in NodeData /\ Uptime[n] \in Nat
    BY DEF SoundInv, TypeAndLevels, TypeOK
  <2> QED  BY <1>0, <1>2, <1>p, <2>1, <2>2 DEF Sound, get_natural_clock, NodeData
<1> QED  BY <1>0, <1>1, <1>2

(* A node that has not done anything yet is sound, whatever the fields it  *)
(* does not initialise hold.                                               *)
LEMMA SoundInit == Init => SoundInv
<1> SUFFICES ASSUME Init, NEW n \in Node PROVE Sound(n, node[n])
  BY DEF SoundInv, Init
<1>1. /\ node[n].sync_level = CLOCK_UNSYNCHRONIZED /\ node[n].offset_ms = 0
      /\ node[n].synchronizing = FALSE
  BY DEF Init
<1>2. get_natural_clock(n) \in Nat
  BY DEF Init, get_natural_clock
<1> QED  BY <1>1, <1>2 DEF Sound

(* The three promises together, along every behaviour.                     *)
LEMMA SoundAlways == Spec => []SoundInv
BY TypeInit, TypeNext, SoundInit, SoundNext, PTL DEF Spec

(* No uninitialised timespec of the NodeData is ever read by               *)
(* check_and_handle_timers.                                                *)
THEOREM TimersAlwaysArmed == Spec => []TimersArmed
<1>1. SoundInv => TimersArmed
  BY DEF SoundInv, Sound, TimersArmed
<1> QED  BY <1>1, SoundAlways, PTL

(* A node only follows members of its peer list, although the field starts *)
(* out uninitialised.                                                      *)
THEOREM AlwaysFollowsPeer == Spec => []FollowsPeer
<1>1. SoundInv => FollowsPeer
  BY DEF SoundInv, Sound, FollowsPeer
<1> QED  BY <1>1, SoundAlways, PTL

(* The fallback of get_clock "in case of unlikely overflow" is dead code.  *)
THEOREM ClockNeverStuck == Spec => []ClockNotStuck
<1>1. SoundInv => ClockNotStuck
  BY DEF SoundInv, Sound, ClockNotStuck
<1> QED  BY <1>1, SoundAlways, PTL

-----------------------------------------------------------------------------
(* The timers are heeded *)

Following(d) == CLOCK_LEADER < d.sync_level /\ d.sync_level < CLOCK_UNSYNCHRONIZED
Offering(d) == d.sync_level < CLOCK_UNSYNCHRONIZED - 1

(* Time t is no more than a second behind the timers of d.                 *)
Heeded(d, t) == /\ Following(d) => t <= d.next_sync_check + Second
                /\ Offering(d) => t <= d.next_sync_start + Second

(* TimersHeeded is not inductive: it takes that recvfrom() times out soon  *)
(* enough for it.                                                          *)
HeededInv == \A n \in Node : /\ Heeded(node[n], now)
                             /\ at[n] = "recv" => Heeded(node[n], wake[n])

(* No handler sets a timer back.                                           *)
LEMMA HeededStep ==
    ASSUME TypeAndLevels, NEW n \in Node, Heeded(node[n], now), NodeStep(n), now' = now
    PROVE  Heeded(node'[n], now)
<1> DEFINE d == node[n]
<1>0. d \in NodeData /\ now \in Nat /\ Heeded(d, now)
  BY DEF TypeAndLevels, TypeOK
<1>u. ASSUME NEW x \in Nat PROVE in_x_seconds(x) \in Nat /\ in_x_seconds(x) >= now
  BY <1>0, TimerAhead
<1>1. CASE node'[n] = Unsynchronized(d)
  BY <1>0, <1>1 DEF Unsynchronized, Heeded, Following, Offering, NodeData
<1>2. CASE node'[n] = Offered(n, d)
  <2>1. /\ node'[n].sync_level = d.sync_level /\ node'[n].next_sync_check = d.next_sync_check
        /\ node'[n].next_sync_start = in_x_seconds(SYNC_START_DELAY)
    BY <1>0, <1>2 DEF Offered, NodeData
  <2> QED  BY <1>0, <1>u, <2>1 DEF Heeded, Following, Offering
<1>3. CASE node'[n] = Led(d)
  <2>1. /\ node'[n].sync_level = CLOCK_LEADER
        /\ node'[n].next_sync_start = in_x_seconds(LEADER_SYNCHRONIZATION_DELAY)
    BY <1>0, <1>3 DEF Led, NodeData
  <2> QED  BY <1>0, <1>u, <2>1 DEF Heeded, Following, Offering, CLOCK_LEADER
<1>4. CASE node'[n] = NoLonger(d)
  BY <1>0, <1>4 DEF NoLonger, Heeded, Following, Offering, NodeData
<1>5. ASSUME NEW m \in net, node'[n] = Synchronizing(n, m) PROVE Heeded(node'[n], now)
  <2>1. /\ node'[n].sync_level = d.sync_level /\ node'[n].next_sync_start = d.next_sync_start
        /\ \/ node'[n].next_sync_check = d.next_sync_check
           \/ node'[n].next_sync_check = in_x_seconds(SYNCHRONIZATION_CHECK_DELAY)
    BY <1>0, <1>5 DEF Synchronizing, NodeData
  <2> QED  BY <1>0, <1>u, <2>1 DEF Heeded, Following, Offering
<1>6. ASSUME NEW m \in net, m.type = "DELAY_RESPONSE", node'[n] = Synchronized(d, m)
      PROVE  Heeded(node'[n], now)
  <2>1. /\ node'[n].sync_level = m.level + 1
        /\ node'[n].next_sync_start = FirstOffer(d, m.level)
        /\ node'[n].next_sync_check = in_x_seconds(SYNCHRONIZATION_CHECK_DELAY)
    BY <1>0, <1>6 DEF Synchronized, NodeData
  <2>2. m.level + 1 < CLOCK_UNSYNCHRONIZED - 1 => now <= FirstOffer(d, m.level) + Second
    <3>1. m.level \in Level /\ d.sync_level \in Level
      BY <1>0, <1>6 DEF TypeAndLevels, TypeOK, Message, NodeData
    <3>2. in_x_seconds(0) \in Nat /\ in_x_seconds(0) >= now
      BY <1>u
    <3> QED  BY <1>0, <3>1, <3>2 DEF FirstOffer, Heeded, Offering, Level
  <2> QED  BY <1>0, <1>u, <2>1, <2>2 DEF Heeded, Following, Offering
<1> QED  BY <1>0, <1>1, <1>2, <1>3, <1>4, <1>5, <1>6 DEF NodeStep

(* After the timers were looked at, both are at most a second away from    *)
(* the end of the wait that follows.                                       *)
LEMMA HeededTimers ==
    ASSUME TypeOK, NEW n \in Node, check_and_handle_timers(n)
    PROVE  Heeded(node'[n], wake'[n])
<1> DEFINE d == node[n]
<1>0. d \in NodeData /\ now \in Nat /\ node \in [Node -> NodeData]
  BY DEF TypeOK
<1>1. wake'[n] = now + Second
  BY <1>0, TimerAhead DEF check_and_handle_timers, TypeOK
<1>2. CASE SyncLost(d) /\ node' = [node EXCEPT ![n] = Unsynchronized(d)]
  BY <1>0, <1>2 DEF Unsynchronized, Heeded, Following, Offering, NodeData
<1>3. CASE ~SyncLost(d) /\ TimeToOffer(d) /\ node' = [node EXCEPT ![n] = Offered(n, d)]
  <2>1. /\ node'[n].sync_level = d.sync_level /\ node'[n].next_sync_check = d.next_sync_check
        /\ node'[n].next_sync_start = in_x_seconds(SYNC_START_DELAY)
    BY <1>0, <1>3 DEF Offered, NodeData
  <2>2. in_x_seconds(SYNC_START_DELAY) \in Nat /\ in_x_seconds(SYNC_START_DELAY) >= now
    BY <1>0, TimerAhead
  <2>3. Following(d) => now <= d.next_sync_check
    BY <1>0, <1>3 DEF SyncLost, Following, now_is_after, NodeData, Time, Unset
  <2>4. d.next_sync_check \in Int
    BY <1>0 DEF NodeData, Time, Unset
  <2> QED  BY <1>0, <1>1, <2>1, <2>2, <2>3, <2>4 DEF Heeded, Following, Offering
<1>4. CASE ~SyncLost(d) /\ ~TimeToOffer(d) /\ node' = [node EXCEPT ![n] = d]
  <2>1. node'[n] = d
    BY <1>0, <1>4
  <2>2. d.next_sync_check \in Int /\ d.next_sync_start \in Int
    BY <1>0 DEF NodeData, Time, Unset
  <2>3. /\ Following(d) => now <= d.next_sync_check
        /\ Offering(d) => now <= d.next_sync_start
    BY <1>0, <1>4, <2>2 DEF SyncLost, TimeToOffer, Following, Offering, now_is_after
  <2> QED  BY <1>0, <1>1, <2>1, <2>2, <2>3 DEF Heeded
<1> QED  BY <1>2, <1>3, <1>4, TimersCases

(* How a step moves node n through its loop.                               *)
LEMMA LoopSteps ==
    ASSUME TypeOK, [Next]_vars, NEW n \in Node
    PROVE  \/ check_and_handle_timers(n)
           \/ Tick
           \/ now' = now /\ at'[n] = "timers"
           \/ now' = now /\ node'[n] = node[n] /\ at'[n] = at[n] /\ wake'[n] = wake[n]
<1>0. node \in [Node -> NodeData] /\ at \in [Node -> {"timers", "recv"}] /\ wake \in [Node -> Nat]
  BY DEF TypeOK
<1>1. ASSUME NEW p \in Node, check_and_handle_timers(p), p # n
      PROVE  now' = now /\ node'[n] = node[n] /\ at'[n] = at[n] /\ wake'[n] = wake[n]
  BY <1>0, <1>1 DEF check_and_handle_timers
<1>2. ASSUME NEW p \in Node, ReceiveTimeout(p) \/ OtherDatagram(p)
      PROVE  \/ now' = now /\ at'[n] = "timers"
             \/ now' = now /\ node'[n] = node[n] /\ at'[n] = at[n] /\ wake'[n] = wake[n]
  BY <1>0, <1>2 DEF ReceiveTimeout, OtherDatagram
<1>3. ASSUME NEW p \in Node, NEW level, handle_leader(p, level)
      PROVE  \/ now' = now /\ at'[n] = "timers"
             \/ now' = now /\ node'[n] = node[n] /\ at'[n] = at[n] /\ wake'[n] = wake[n]
  <2>1. /\ now' = now /\ wake' = wake /\ at' = [at EXCEPT ![p] = "timers"]
        /\ p # n => node'[n] = node[n]
    BY <1>0, <1>3, LeaderType DEF handle_leader
  <2> QED  BY <1>0, <2>1
<1>4. ASSUME NEW m \in net, Handle(m)
      PROVE  \/ now' = now /\ at'[n] = "timers"
             \/ now' = now /\ node'[n] = node[n] /\ at'[n] = at[n] /\ wake'[n] = wake[n]
  <2>1. now' = now /\ wake' = wake /\ at' = [at EXCEPT ![m.dst] = "timers"]
    BY <1>4 DEF Handle, handle_sync_start, handle_delay_request, handle_delay_response, Receive
  <2>2. m.dst # n => node'[n] = node[n]
    BY <1>0, <1>4 DEF Handle, handle_sync_start, handle_delay_request, handle_delay_response
  <2> QED  BY <1>0, <2>1, <2>2
<1>5. ASSUME NEW m \in net, Lose(m)
      PROVE  now' = now /\ node'[n] = node[n] /\ at'[n] = at[n] /\ wake'[n] = wake[n]
  BY <1>5 DEF Lose
<1>6. CASE UNCHANGED vars
  BY <1>6 DEF vars
<1> QED  BY <1>1, <1>2, <1>3, <1>4, <1>5, <1>6 DEF Next

(* Every step keeps the nodes attentive: time only passes in recvfrom(),   *)
(* and only up to its timeout.                                             *)
LEMMA HeededNext == TypeAndLevels /\ HeededInv /\ [Next]_vars => HeededInv'
<1> SUFFICES ASSUME TypeAndLevels, HeededInv, [Next]_vars, NEW n \in Node
             PROVE  /\ Heeded(node'[n], now')
                    /\ at'[n] = "recv" => Heeded(node'[n], wake'[n])
  BY DEF HeededInv, Heeded, Following, Offering
<1>0. /\ TypeOK /\ now \in Nat /\ wake[n] \in Nat /\ node[n] \in NodeData
      /\ Heeded(node[n], now) /\ (at[n] = "recv" => Heeded(node[n], wake[n]))
      /\ NodeStep(n)
  BY NodeSteps DEF TypeAndLevels, TypeOK, HeededInv
<1>1. CASE check_and_handle_timers(n)
  <2>1. now' = now
    BY <1>1 DEF check_and_handle_timers
  <2> QED  BY <1>0, <1>1, <2>1, HeededStep, HeededTimers
<1>2. CASE Tick
  <2>1. /\ now' = now + 1 /\ at[n] = "recv" /\ now < wake[n]
        /\ node' = node /\ at' = at /\ wake' = wake
    BY <1>2 DEF Tick
  <2>2. node[n].next_sync_check \in Int /\ node[n].next_sync_start \in Int
    BY <1>0 DEF NodeData, Time, Unset
  <2> QED  BY <1>0, <2>1, <2>2 DEF Heeded
<1>3. CASE now' = now /\ at'[n] = "timers"
  BY <1>0, <1>3, HeededStep
<1>4. CASE now' = now /\ node'[n] = node[n] /\ at'[n] = at[n] /\ wake'[n] = wake[n]
  BY <1>0, <1>4
<1> QED  BY <1>0, <1>1, <1>2, <1>3, <1>4, LoopSteps

(* The one second receive timeout bounds how late a node is for its        *)
(* timers, for every choice of the delays.                                 *)
THEOREM TimersAlwaysHeeded == Spec => []TimersHeeded
<1>1. Init => HeededInv
  <2> SUFFICES ASSUME Init, NEW n \in Node PROVE Heeded(node[n], now) /\ at[n] # "recv"
    BY DEF HeededInv
  <2>1. node[n].sync_level = CLOCK_UNSYNCHRONIZED /\ at[n] = "timers"
    BY DEF Init
  <2> QED  BY <2>1 DEF Heeded, Following, Offering
<1>2. HeededInv => TimersHeeded
  BY DEF HeededInv, Heeded, Following, Offering, TimersHeeded
<1> QED  BY <1>1, <1>2, TypeInit, TypeNext, HeededNext, PTL DEF Spec

-----------------------------------------------------------------------------
(* Accuracy *)

(* When a datagram with a timestamp was made, by the time of the network.  *)
MadeAt(m) == m.ts + m.shift
(* The same for the SYNC_START a node is following up, and when it came.   *)
OfferedAt(d) == d.T1 + d.shift
ReceivedAt(n, d) == d.T2 - Uptime[n]

(* The DELAY_REQUESTs of node n and the DELAY_RESPONSEs for it.            *)
HandshakeOf(m, n) == \/ m.type = "DELAY_REQUEST" /\ m.src = n
                     \/ m.type = "DELAY_RESPONSE" /\ m.dst = n

(* Unless datagrams come twice, a node has one handshake under way at      *)
(* most, so no response is older than the request it is taken for.         *)
OneHandshake ==
    \A n \in Node :
        /\ \A m1, m2 \in net : HandshakeOf(m1, n) /\ HandshakeOf(m2, n) => m1 = m2
        /\ \A m \in net : HandshakeOf(m, n) =>
              /\ node[n].synchronizing
              /\ m.type = "DELAY_RESPONSE" => MadeAt(m) >= ReceivedAt(n, node[n])

(* Nothing was made in the future, and no offer was received before it was *)
(* made.                                                                   *)
Causal ==
    /\ \A m \in net : m.type = "SYNC_START" => MadeAt(m) <= now
    /\ \A n \in Node : node[n].synchronizing =>
          /\ node[n].T2 = node[n].T3
          /\ OfferedAt(node[n]) <= ReceivedAt(n, node[n])
          /\ ReceivedAt(n, node[n]) <= now

Accurate(n, d, ss) ==
    \A s \in ss :
        Following(d) /\ s.before = s.after
            => /\ 2 * (d.offset_ms - Exact(n, s.before)) <= s.rtt + 1
               /\ 2 * (Exact(n, s.before) - d.offset_ms) <= s.rtt + 1

AccuracyInv == /\ Causal
               /\ copies = 0 => OneHandshake
               /\ copies = 0 => \A n \in Node : Accurate(n, node[n], measured[n])

(* The arithmetic: if the offer was made, received and responded to in     *)
(* this order, the offset is off by half of the round trip at most.        *)
LEMMA OffsetAccuracy ==
    ASSUME NEW T1 \in Int, NEW T2 \in Int, NEW T4 \in Int, NEW U \in Int, NEW shift \in Int,
           T1 + shift <= T2 - U, T2 - U <= T4 + shift
    PROVE  /\ 2 * (update_offset(T1, T2, T2, T4) - (U + shift)) <= (T4 - T1) + 1
           /\ 2 * ((U + shift) - update_offset(T1, T2, T2, T4)) <= (T4 - T1) + 1
<1> DEFINE sum == (T2 - T1) + (T2 - T4)
           h == Half(sum)
<1>1. sum \in Int
  OBVIOUS
<1>2. h \in Int /\ 2 * h <= sum + 1 /\ sum <= 2 * h + 1
  BY <1>1, HalfBounds
<1>3. update_offset(T1, T2, T2, T4) = h
  BY DEF update_offset
<1> HIDE DEF h
<1> QED  BY <1>2, <1>3

(* Steps that touch neither the network nor a handshake.                   *)
Unmoved(n) ==
    /\ node'[n].synchronizing = node[n].synchronizing
    /\ node'[n].T1 = node[n].T1 /\ node'[n].T2 = node[n].T2 /\ node'[n].T3 = node[n].T3
    /\ node'[n].shift = node[n].shift
    /\ Following(node'[n]) => Following(node[n]) /\ node'[n].offset_ms = node[n].offset_ms

(* Losing sync, making an offer and being made or unmade a leader neither  *)
(* start nor end a handshake, and make no offset count.                    *)
LEMMA UnmovedCases ==
    ASSUME TypeOK, NEW n \in Node,
           \/ node'[n] = node[n]
           \/ node'[n] = Unsynchronized(node[n]) \/ node'[n] = Offered(n, node[n])
           \/ node'[n] = Led(node[n]) \/ node'[n] = NoLonger(node[n])
    PROVE  Unmoved(n)
<1>0. node[n] \in NodeData
  BY DEF TypeOK
<1>1. CASE node'[n] = node[n]
  BY <1>1 DEF Unmoved
<1>2. CASE node'[n] = Unsynchronized(node[n])
  BY <1>0, <1>2 DEF Unmoved, Unsynchronized, Following, NodeData
<1>3. CASE node'[n] = Offered(n, node[n])
  BY <1>0, <1>3 DEF Unmoved, Offered, Following, NodeData
<1>4. CASE node'[n] = Led(node[n])
  BY <1>0, <1>4 DEF Unmoved, Led, Following, NodeData, CLOCK_LEADER
<1>5. CASE node'[n] = NoLonger(node[n])
  BY <1>0, <1>5 DEF Unmoved, NoLonger, Following, NodeData
<1> QED  BY <1>1, <1>2, <1>3, <1>4, <1>5

(* If no node is moved, and at most offers are added to the network, the   *)
(* invariant survives.                                                     *)
LEMMA UnmovedAccuracy ==
    ASSUME TypeOK, AccuracyInv, \A n \in Node : Unmoved(n),
           now' = now \/ now' = now + 1, measured' = measured,
           copies' = 0 => copies = 0,
           \A m \in net' : m \in net \/ (m.type = "SYNC_START" /\ MadeAt(m) = now)
    PROVE  AccuracyInv'
<1>0. now \in Nat /\ node \in [Node -> NodeData] /\ net \subseteq Message
  BY DEF TypeOK
<1>1. Causal'
  <2>1. ASSUME NEW m \in net', m.type = "SYNC_START" PROVE MadeAt(m) <= now'
    <3>1. CASE m \in net
      <4>1. m.ts \in Nat /\ m.shift \in Int /\ MadeAt(m) <= now
        BY <1>0, <2>1, <3>1 DEF Message, AccuracyInv, Causal
      <4> QED  BY <1>0, <4>1 DEF MadeAt
    <3>2. CASE m \notin net
      <4>1. MadeAt(m) = now
        BY <3>2
      <4> QED  BY <1>0, <4>1
    <3> QED  BY <3>1, <3>2
  <2>2. ASSUME NEW n \in Node, node'[n].synchronizing
        PROVE  /\ node'[n].T2 = node'[n].T3
               /\ OfferedAt(node'[n]) <= ReceivedAt(n, node'[n])
               /\ ReceivedAt(n, node'[n]) <= now'
    <3>1. /\ node[n].T2 = node[n].T3 /\ OfferedAt(node[n]) <= ReceivedAt(n, node[n])
          /\ ReceivedAt(n, node[n]) <= now /\ node[n].T2 \in Nat
      BY <1>0, <2>2 DEF Unmoved, AccuracyInv, Causal, NodeData
    <3> QED  BY <1>0, <3>1 DEF Unmoved, OfferedAt, ReceivedAt
  <2> QED  BY <2>1, <2>2 DEF Causal, OfferedAt, ReceivedAt, MadeAt
<1>2. copies' = 0 => OneHandshake'
  BY DEF AccuracyInv, OneHandshake, HandshakeOf, Unmoved, ReceivedAt, MadeAt
<1>3. copies' = 0 => \A n \in Node : Accurate(n, node'[n], measured'[n])
  BY DEF AccuracyInv, Accurate, Unmoved
<1> QED  BY <1>1, <1>2, <1>3 DEF AccuracyInv, Accurate, Following, Exact

(* What receiving means for copies and, if none were made, for the network. *)
LEMMA ReceiveOnce ==
    ASSUME TypeOK, NEW m, NEW replies, Receive(m, replies)
    PROVE  /\ net' \subseteq net \cup replies /\ now' = now
           /\ copies' = 0 => copies = 0 /\ net' = (net \ {m}) \cup replies
BY DEF Receive, TypeOK

(* A handshake begins: none was under way.                                 *)
LEMMA TakesOfferAccuracy ==
    ASSUME TypeOK, AccuracyInv, NEW m \in net, m.type = "SYNC_START", TakesOffer(m.dst, m),
           Receive(m, {[type |-> "DELAY_REQUEST", src |-> m.dst, dst |-> m.src]}),
           node' = [node EXCEPT ![m.dst] = Synchronizing(m.dst, m)], measured' = measured
    PROVE  AccuracyInv'
<1> DEFINE n == m.dst
           request == [type |-> "DELAY_REQUEST", src |-> n, dst |-> m.src]
<1>0. /\ now \in Nat /\ node \in [Node -> NodeData] /\ net \subseteq Message
      /\ n \in Node /\ m.ts \in Nat /\ m.shift \in Int /\ Uptime[n] \in Nat
  BY DEF TypeOK, Message
<1>1. /\ net' \subseteq net \cup {request} /\ now' = now
      /\ copies' = 0 => copies = 0
  BY ReceiveOnce
<1>2. /\ node'[n].synchronizing /\ node'[n].T1 = m.ts /\ node'[n].shift = m.shift
      /\ node'[n].T2 = get_natural_clock(n) /\ node'[n].T3 = get_natural_clock(n)
      /\ node'[n].sync_level = node[n].sync_level /\ node'[n].offset_ms = node[n].offset_ms
  BY <1>0 DEF Synchronizing, NodeData
<1>3. \A p \in Node \ {n} : node'[p] = node[p]
  BY <1>0
<1>4. Causal'
  <2>1. \A k \in net' : k.type = "SYNC_START" => MadeAt(k) <= now'
    BY <1>1 DEF AccuracyInv, Causal
  <2>2. /\ node'[n].T2 = node'[n].T3
        /\ OfferedAt(node'[n]) <= ReceivedAt(n, node'[n])
        /\ ReceivedAt(n, node'[n]) <= now'
    <3>1. MadeAt(m) <= now
      BY DEF AccuracyInv, Causal
    <3> QED  BY <1>0, <1>1, <1>2, <3>1 DEF MadeAt, OfferedAt, ReceivedAt, get_natural_clock
  <2>3. ASSUME NEW p \in Node, node'[p].synchronizing
        PROVE  /\ node'[p].T2 = node'[p].T3
               /\ OfferedAt(node'[p]) <= ReceivedAt(p, node'[p])
               /\ ReceivedAt(p, node'[p]) <= now'
    BY <1>1, <1>3, <2>2, <2>3 DEF AccuracyInv, Causal
  <2> QED  BY <2>1, <2>3 DEF Causal, MadeAt, OfferedAt, ReceivedAt
<1>5. ASSUME copies' = 0 PROVE OneHandshake'
  <2>1. OneHandshake
    BY <1>1, <1>5 DEF AccuracyInv
  <2>2. ~node[n].synchronizing
    BY DEF TakesOffer
  <2>3. \A k \in net : ~HandshakeOf(k, n)
    BY <1>0, <2>1, <2>2 DEF OneHandshake
  <2>4. ASSUME NEW p \in Node, NEW k \in net', HandshakeOf(k, p)
        PROVE  \/ p = n /\ k = request
               \/ p # n /\ k \in net
    BY <1>1, <2>3, <2>4 DEF HandshakeOf
  <2>5. ASSUME NEW p \in Node, NEW k1 \in net', NEW k2 \in net',
               HandshakeOf(k1, p), HandshakeOf(k2, p)
        PROVE  k1 = k2
    BY <2>1, <2>4, <2>5 DEF OneHandshake
  <2>6. ASSUME NEW p \in Node, NEW k \in net', HandshakeOf(k, p)
        PROVE  /\ node'[p].synchronizing
               /\ k.type = "DELAY_RESPONSE" => MadeAt(k) >= ReceivedAt(p, node'[p])
    <3>1. CASE p = n /\ k = request
      BY <1>2, <3>1
    <3>2. CASE p # n /\ k \in net
      BY <1>3, <2>1, <2>6, <3>2 DEF OneHandshake
    <3> QED  BY <2>4, <2>6, <3>1, <3>2
  <2> QED  BY <2>5, <2>6 DEF OneHandshake, HandshakeOf, MadeAt, ReceivedAt
<1>6. ASSUME copies' = 0, NEW p \in Node PROVE Accurate(p, node'[p], measured'[p])
  <2>1. Accurate(p, node[p], measured[p])
    BY <1>1, <1>6 DEF AccuracyInv
  <2>2. node'[p].sync_level = node[p].sync_level /\ node'[p].offset_ms = node[p].offset_ms
    BY <1>2, <1>3
  <2> QED  BY <2>1, <2>2 DEF Accurate, Following
<1> QED  BY <1>4, <1>5, <1>6 DEF AccuracyInv, Accurate, Following, Exact

(* A request is answered: its response is younger than the request.        *)
LEMMA RequestAccuracy ==
    ASSUME TypeOK, AccuracyInv, NEW m \in net, handle_delay_request(m), Answerable(m.dst, m)
    PROVE  AccuracyInv'
<1> DEFINE n == m.dst
           response == [type |-> "DELAY_RESPONSE", src |-> n, dst |-> m.src,
                        level |-> node[n].sync_level, ts |-> get_clock(n),
                        shift |-> now - get_clock(n)]
<1>0. /\ now \in Nat /\ n \in Node /\ m.src \in Node /\ get_clock(n) \in Nat
      /\ m.type = "DELAY_REQUEST" /\ Receive(m, {response}) /\ UNCHANGED <<node, measured>>
  BY ClockType DEF TypeOK, Message, handle_delay_request
<1>1. /\ net' \subseteq net \cup {response} /\ now' = now
      /\ copies' = 0 => copies = 0 /\ net' = (net \ {m}) \cup {response}
  BY <1>0, ReceiveOnce
<1>2. Causal'
  <2>1. \A k \in net' : k.type = "SYNC_START" => MadeAt(k) <= now'
    BY <1>1 DEF AccuracyInv, Causal
  <2> QED  BY <1>0, <1>1, <2>1 DEF AccuracyInv, Causal, MadeAt, OfferedAt, ReceivedAt
<1>3. ASSUME copies' = 0 PROVE OneHandshake'
  <2>1. OneHandshake /\ net' = (net \ {m}) \cup {response}
    BY <1>1, <1>3 DEF AccuracyInv
  <2>2. ASSUME NEW r, r = response
        PROVE  MadeAt(r) = now /\ r.type = "DELAY_RESPONSE" /\ r.dst = m.src
    BY <1>0, <2>2 DEF MadeAt
  <2>3. HandshakeOf(m, m.src)
    BY <1>0 DEF HandshakeOf
  <2>4. node[m.src].synchronizing /\ ReceivedAt(m.src, node[m.src]) <= now
    BY <1>0, <2>1, <2>3 DEF OneHandshake, AccuracyInv, Causal
  <2>5. ASSUME NEW p \in Node, NEW k \in net', HandshakeOf(k, p)
        PROVE  \/ p = m.src /\ k = response
               \/ p # m.src /\ k \in net
    <3>1. CASE k \in net /\ k # m
      <4>1. p # m.src
        BY <2>1, <2>3, <2>5, <3>1 DEF OneHandshake
      <4> QED  BY <3>1, <4>1
    <3>2. CASE k = response
      BY <2>5, <3>2 DEF HandshakeOf
    <3> QED  BY <2>1, <3>1, <3>2
  <2>6. ASSUME NEW p \in Node, NEW k1 \in net', NEW k2 \in net',
               HandshakeOf(k1, p), HandshakeOf(k2, p)
        PROVE  k1 = k2
    BY <2>1, <2>5, <2>6 DEF OneHandshake
  <2>7. ASSUME NEW p \in Node, NEW k \in net', HandshakeOf(k, p)
        PROVE  /\ node[p].synchronizing
               /\ k.type = "DELAY_RESPONSE" => MadeAt(k) >= ReceivedAt(p, node[p])
    <3>1. CASE p = m.src /\ k = response
      <4>1. MadeAt(k) = now /\ node[p].synchronizing /\ ReceivedAt(p, node[p]) <= now
        BY <2>2, <2>4, <3>1
      <4>2. now >= ReceivedAt(p, node[p])
        BY <4>1
      <4> QED  BY <4>1, <4>2
    <3>2. CASE p # m.src /\ k \in net
      BY <2>1, <2>7, <3>2 DEF OneHandshake
    <3> QED  BY <2>5, <2>7, <3>1, <3>2
  <2> QED  BY <1>0, <2>6, <2>7 DEF OneHandshake, HandshakeOf, MadeAt, ReceivedAt
<1> QED  BY <1>0, <1>1, <1>2, <1>3 DEF AccuracyInv, Accurate, Following, Exact

(* A handshake ends: the response was made after the offer had come, so    *)
(* the offset is accurate.                                                 *)
LEMMA ResponseAccuracy ==
    ASSUME TypeAndLevels, AccuracyInv, NEW m \in net, handle_delay_response(m), Expected(m.dst, m)
    PROVE  AccuracyInv'
<1> DEFINE n == m.dst
           d == node[n]
           sample == [before |-> d.shift, after |-> m.shift, rtt |-> m.ts - d.T1]
<1>0. /\ TypeOK /\ now \in Nat /\ node \in [Node -> NodeData] /\ n \in Node
      /\ m.type = "DELAY_RESPONSE" /\ m.ts \in Nat /\ m.shift \in Int /\ Uptime[n] \in Nat
      /\ measured \in [Node -> SUBSET [before : Int, after : Int, rtt : Int]]
  BY DEF TypeAndLevels, TypeOK, Message, handle_delay_response
<1>1. /\ net' \subseteq net /\ now' = now
      /\ copies' = 0 => copies = 0 /\ net' = net \ {m}
  BY <1>0, ReceiveOnce DEF handle_delay_response
<1>2. /\ node' = [node EXCEPT ![n] = Synchronized(d, m)]
      /\ measured' = [measured EXCEPT ![n] = {sample}]
  BY DEF handle_delay_response
<1>3. /\ node'[n].synchronizing = FALSE
      /\ node'[n].offset_ms = update_offset(d.T1, d.T2, d.T3, m.ts)
  BY <1>0, <1>2 DEF Synchronized, NodeData
<1>4. \A p \in Node \ {n} : node'[p] = node[p] /\ measured'[p] = measured[p]
  BY <1>0, <1>2
<1>5. Causal'
  <2>1. \A k \in net' : k.type = "SYNC_START" => MadeAt(k) <= now'
    BY <1>1 DEF AccuracyInv, Causal
  <2>2. ASSUME NEW p \in Node, node'[p].synchronizing
        PROVE  /\ node'[p].T2 = node'[p].T3
               /\ OfferedAt(node'[p]) <= ReceivedAt(p, node'[p])
               /\ ReceivedAt(p, node'[p]) <= now'
    <3>1. p # n
      BY <1>3, <2>2
    <3> QED  BY <1>1, <1>4, <2>2, <3>1 DEF AccuracyInv, Causal
  <2> QED  BY <2>1, <2>2 DEF Causal, MadeAt, OfferedAt, ReceivedAt
<1>h. HandshakeOf(m, n)
  BY <1>0 DEF HandshakeOf
<1>6. ASSUME copies' = 0 PROVE OneHandshake'
  <2>1. OneHandshake /\ net' = net \ {m}
    BY <1>1, <1>6 DEF AccuracyInv
  <2>2. ASSUME NEW p \in Node, NEW k \in net', HandshakeOf(k, p) PROVE p # n /\ k \in net
    BY <1>h, <2>1, <2>2 DEF OneHandshake
  <2>3. ASSUME NEW p \in Node, NEW k \in net', HandshakeOf(k, p)
        PROVE  /\ node'[p].synchronizing
               /\ k.type = "DELAY_RESPONSE" => MadeAt(k) >= ReceivedAt(p, node'[p])
    BY <1>4, <2>1, <2>2, <2>3 DEF OneHandshake
  <2>4. ASSUME NEW p \in Node, NEW k1 \in net', NEW k2 \in net',
               HandshakeOf(k1, p), HandshakeOf(k2, p)
        PROVE  k1 = k2
    BY <2>1, <2>2, <2>4 DEF OneHandshake
  <2> QED  BY <2>3, <2>4 DEF OneHandshake, HandshakeOf, MadeAt, ReceivedAt
<1>7. ASSUME copies' = 0, NEW p \in Node PROVE Accurate(p, node'[p], measured'[p])
  <2>0. OneHandshake /\ \A q \in Node : Accurate(q, node[q], measured[q])
    BY <1>1, <1>7 DEF AccuracyInv
  <2>1. CASE p # n
    BY <1>4, <2>0, <2>1
  <2>2. CASE p = n
    <3>1. measured'[n] = {sample}
      BY <1>0, <1>2
    <3>2. /\ d.synchronizing /\ d.T2 = d.T3 /\ OfferedAt(d) <= ReceivedAt(n, d)
          /\ ReceivedAt(n, d) <= MadeAt(m)
      BY <1>0, <1>h, <2>0 DEF Expected, OneHandshake, AccuracyInv, Causal
    <3>3. d.T1 \in Int /\ d.T2 \in Int /\ d.shift \in Int /\ m.ts \in Int /\ Uptime[n] \in Int
      BY <1>0 DEF NodeData
    <3>4. ASSUME d.shift = m.shift
          PROVE  /\ 2 * (node'[n].offset_ms - (Uptime[n] + d.shift)) <= (m.ts - d.T1) + 1
                 /\ 2 * ((Uptime[n] + d.shift) - node'[n].offset_ms) <= (m.ts - d.T1) + 1
      <4>1. d.T1 + d.shift <= d.T2 - Uptime[n] /\ d.T2 - Uptime[n] <= m.ts + d.shift
        BY <3>2, <3>4 DEF OfferedAt, ReceivedAt, MadeAt
      <4>2. node'[n].offset_ms = update_offset(d.T1, d.T2, d.T2, m.ts)
        BY <1>3, <3>2
      <4> QED  BY <3>3, <4>1, <4>2, OffsetAccuracy
    <3> QED  BY <2>2, <3>1, <3>4 DEF Accurate, Exact
  <2> QED  BY <2>1, <2>2
<1> QED  BY <1>5, <1>6, <1>7 DEF AccuracyInv, Accurate, Following, Exact

(* Every step keeps the invariant.                                         *)
LEMMA AccuracyNext == TypeAndLevels /\ AccuracyInv /\ [Next]_vars => AccuracyInv'
<1> SUFFICES ASSUME TypeAndLevels, AccuracyInv, [Next]_vars PROVE AccuracyInv'
  OBVIOUS
<1>0. /\ TypeOK /\ node \in [Node -> NodeData] /\ net \subseteq Message
      /\ \A m \in net : m.dst \in Node
  BY DEF TypeAndLevels, TypeOK, Message
<1>1. ASSUME NEW n \in Node, check_and_handle_timers(n) PROVE AccuracyInv'
  <2>1. UNCHANGED <<now, copies, measured>>
    BY <1>1 DEF check_and_handle_timers
  <2>2. /\ \/ node' = [node EXCEPT ![n] = Unsynchronized(node[n])]
           \/ node' = [node EXCEPT ![n] = Offered(n, node[n])]
           \/ node' = [node EXCEPT ![n] = node[n]]
        /\ net' = net \/ (TimeToOffer(node[n]) /\ net' = net \cup Offers(n))
    BY <1>0, <1>1, TimersCases
  <2>3. \A p \in Node : Unmoved(p)
    BY <1>0, <2>2, UnmovedCases
  <2>4. \A m \in net' : m \in net \/ (m.type = "SYNC_START" /\ MadeAt(m) = now)
    BY <1>0, <2>2, OffersOK DEF MadeAt
  <2> QED  BY <1>0, <2>1, <2>3, <2>4, UnmovedAccuracy
<1>2. ASSUME NEW n \in Node, NEW level, handle_leader(n, level) PROVE AccuracyInv'
  <2>1. UNCHANGED <<now, net, copies, measured>>
    BY <1>2 DEF handle_leader
  <2>2. \/ node' = [node EXCEPT ![n] = Led(@)]
        \/ node' = [node EXCEPT ![n] = NoLonger(@)]
    BY <1>2 DEF handle_leader, Led, NoLonger
  <2>3. \A p \in Node : Unmoved(p)
    BY <1>0, <2>2, UnmovedCases
  <2> QED  BY <1>0, <2>1, <2>3, UnmovedAccuracy
<1>3. ASSUME NEW m \in net, handle_sync_start(m) PROVE AccuracyInv'
  <2>1. m.type = "SYNC_START" /\ measured' = measured
    BY <1>3 DEF handle_sync_start
  <2>2. m.level \in Int /\ node[m.dst].sync_level \in Int
    <3>1. m.level \in Level /\ node[m.dst].sync_level \in Level
      BY <1>0, <2>1 DEF Message, NodeData
    <3> QED  BY <3>1 DEF Level
  <2>3. ~(Abandons(m.dst, m) /\ TakesOffer(m.dst, m))
    BY <2>2 DEF Abandons, TakesOffer
  <2>4. CASE TakesOffer(m.dst, m)
    BY <1>0, <1>3, <2>1, <2>3, <2>4, TakesOfferAccuracy DEF handle_sync_start
  <2>5. CASE ~TakesOffer(m.dst, m)
    <3>1. /\ Receive(m, {})
          /\ \/ node' = [node EXCEPT ![m.dst] = Unsynchronized(@)]
             \/ node' = [node EXCEPT ![m.dst] = @]
      BY <1>3, <2>5 DEF handle_sync_start
    <3>2. net' \subseteq net /\ now' = now /\ (copies' = 0 => copies = 0)
      BY <1>0, <3>1, ReceiveOnce
    <3>3. \A p \in Node : Unmoved(p)
      BY <1>0, <3>1, UnmovedCases
    <3> QED  BY <1>0, <2>1, <3>2, <3>3, UnmovedAccuracy
  <2> QED  BY <2>4, <2>5
<1>4. ASSUME NEW m \in net, handle_delay_request(m) PROVE AccuracyInv'
  <2>1. CASE Answerable(m.dst, m)
    BY <1>0, <1>4, <2>1, RequestAccuracy
  <2>2. CASE ~Answerable(m.dst, m)
    <3>1. Receive(m, {}) /\ UNCHANGED <<node, measured>>
      BY <1>4, <2>2 DEF handle_delay_request
    <3>2. net' \subseteq net /\ now' = now /\ (copies' = 0 => copies = 0)
      BY <1>0, <3>1, ReceiveOnce
    <3>3. \A p \in Node : Unmoved(p)
      BY <1>0, <3>1, UnmovedCases
    <3> QED  BY <1>0, <3>1, <3>2, <3>3, UnmovedAccuracy
  <2> QED  BY <2>1, <2>2
<1>5. ASSUME NEW m \in net, handle_delay_response(m) PROVE AccuracyInv'
  <2>1. CASE Expected(m.dst, m)
    BY <1>5, <2>1, ResponseAccuracy
  <2>2. CASE ~Expected(m.dst, m)
    <3>1. Receive(m, {}) /\ UNCHANGED <<node, measured>>
      BY <1>5, <2>2 DEF handle_delay_response
    <3>2. net' \subseteq net /\ now' = now /\ (copies' = 0 => copies = 0)
      BY <1>0, <3>1, ReceiveOnce
    <3>3. \A p \in Node : Unmoved(p)
      BY <1>0, <3>1, UnmovedCases
    <3> QED  BY <1>0, <3>1, <3>2, <3>3, UnmovedAccuracy
  <2> QED  BY <2>1, <2>2
<1>6. ASSUME /\ node' = node /\ measured' = measured /\ copies' = copies
             /\ net' \subseteq net /\ (now' = now \/ now' = now + 1)
      PROVE  AccuracyInv'
  <2>1. \A p \in Node : Unmoved(p)
    BY <1>0, <1>6, UnmovedCases
  <2> QED  BY <1>0, <1>6, <2>1, UnmovedAccuracy
<1>7. ASSUME NEW m \in net, Lose(m) PROVE AccuracyInv'
  BY <1>6, <1>7 DEF Lose
<1>8. ASSUME NEW n \in Node, ReceiveTimeout(n) \/ OtherDatagram(n) PROVE AccuracyInv'
  BY <1>6, <1>8 DEF ReceiveTimeout, OtherDatagram
<1>9. CASE Tick \/ UNCHANGED vars
  BY <1>6, <1>9 DEF Tick, vars
<1> QED  BY <1>1, <1>2, <1>3, <1>4, <1>5, <1>7, <1>8, <1>9 DEF Next, Handle

(* However long datagrams take and whichever are lost or overtaken, a      *)
(* node's clock is off its peer's by at most half of the round trip, as    *)
(* long as none comes twice.                                               *)
THEOREM SyncIsAccurate == Spec => []SyncAccuracy
<1>1. Init => AccuracyInv
  BY DEF Init, AccuracyInv, Causal, OneHandshake, Accurate
<1>2. AccuracyInv => SyncAccuracy
  BY DEF AccuracyInv, Accurate, Following, SyncAccuracy
<1> QED  BY <1>1, <1>2, TypeInit, TypeNext, AccuracyNext, PTL DEF Spec

=============================================================================
