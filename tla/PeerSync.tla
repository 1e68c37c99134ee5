------------------------------ MODULE PeerSync ------------------------------
(***************************************************************************)
(* The clock synchronisation of peer-time-sync: the handlers of messages.c *)
(* for SYNC_START, DELAY_REQUEST, DELAY_RESPONSE and LEADER, the timers of *)
(* check_and_handle_timers, the clocks of clock.c and the receive loop of  *)
(* main.c, for nodes that get to know each other as they go.               *)
(*                                                                         *)
(* Time is counted in milliseconds by one variable, now, that every node's *)
(* monotonic clock follows.  Handling a message takes no time; messages    *)
(* take any time, overtake each other, get lost and come twice.            *)
(***************************************************************************)
EXTENDS Integers, FiniteSets

CONSTANTS
    Node,          \* the nodes, named by their address
    Uptime,        \* Uptime[n]: how long n has been running when now = 0
    NoPeer,        \* stands for an address that is no node's
    Garbage,       \* what an address that was never written may happen to be
    Second,        \* milliseconds in a second
    LEADER_SYNCHRONIZATION_DELAY, SYNC_START_DELAY,
    SYNCHRONIZATION_CHECK_DELAY, DELAY_RESPONSE_TIME,
    CLOCK_UNSYNCHRONIZED,
    MaxTime,       \* bound: the time the model runs to
    MaxCommands,   \* bound: LEADER messages an operator sends
    MaxDuplicates  \* bound: datagrams the network delivers once more

ASSUME SyncAssumption ==
    /\ Uptime \in [Node -> Nat]
    /\ NoPeer \notin Node
    /\ Garbage \subseteq Node \cup {NoPeer}
    /\ Second \in Nat \ {0}
    /\ LEADER_SYNCHRONIZATION_DELAY \in Nat /\ SYNC_START_DELAY \in Nat
    /\ SYNCHRONIZATION_CHECK_DELAY \in Nat /\ DELAY_RESPONSE_TIME \in Nat
    /\ CLOCK_UNSYNCHRONIZED \in Nat /\ CLOCK_UNSYNCHRONIZED > 2
    /\ MaxTime \in Nat /\ MaxCommands \in Nat /\ MaxDuplicates \in Nat

VARIABLES
    now,       \* the time
    node,      \* node[n]: the NodeData of n ...
    peer_list, \* ... and peer_list[n]: the list its peer_list denotes
    at,        \* at[n]: "timers" or, in recvfrom(), "recv"
    wake,      \* wake[n]: when the recvfrom() of n times out
    net,       \* the datagrams in flight
    commands,  \* LEADER messages sent so far, for the bound MaxCommands
    copies,    \* datagrams duplicated so far, for the bound MaxDuplicates
    measured   \* history: what the offset of n was computed from

vars == <<now, node, peer_list, at, wake, net, commands, copies, measured>>

-----------------------------------------------------------------------------
CLOCK_LEADER == 0
Level == 0..CLOCK_UNSYNCHRONIZED
Unset == -1       \* a timespec nobody has written to
Time == Nat \cup {Unset}

(* NodeData; T4 does not outlive its handler.  T1, T2, T3, peer_to_sync    *)
(* and synchronizing_level are only read while synchronizing and are       *)
(* forgotten afterwards.  "shift" is no field of the code: it is by how    *)
(* much the clock of the peer was behind now when it wrote T1.             *)
NodeData ==
    [sync_level : Level, offset_ms : Int, synchronized_peer : Node \cup {NoPeer},
     next_sync_start : Time, next_sync_check : Time, last_sync_start : Nat,
     asked_to_synchronize : SUBSET Node, synchronizing : BOOLEAN,
     synchronizing_level : Level, peer_to_sync : Node \cup {NoPeer},
     waiting_for_delay_response : Time, T1 : Nat, T2 : Nat, T3 : Nat, shift : Int]

(* SYNC_START and DELAY_RESPONSE carry a level and a timestamp; "shift" is *)
(* the sender's, for the history.                                          *)
Message ==
    [type : {"SYNC_START", "DELAY_RESPONSE"}, src : Node, dst : Node,
     level : Level, ts : Nat, shift : Int]
      \cup [type : {"DELAY_REQUEST"}, src : Node, dst : Node]

-----------------------------------------------------------------------------
(* clock.c *)
get_natural_clock(n) == now + Uptime[n]

get_clock(n) ==
    IF node[n].sync_level = CLOCK_UNSYNCHRONIZED THEN get_natural_clock(n)
    ELSE IF get_natural_clock(n) >= node[n].offset_ms
    THEN get_natural_clock(n) - node[n].offset_ms
    ELSE 0

in_x_seconds(x) == now + x * Second
now_is_after(t) == t < now

(* Division by two in C: towards zero. *)
Half(s) == IF s >= 0 THEN s \div 2 ELSE -((-s) \div 2)

(* update_offset.  Mutants: the two directions are mixed up; the sum is    *)
(* not halved.                                                             *)
update_offset_Swapped(T1, T2, T3, T4) == Half((T2 - T1) + (T4 - T3))
update_offset_NotHalved(T1, T2, T3, T4) == (T2 - T1) + (T3 - T4)
update_offset(T1, T2, T3, T4) == Half((T2 - T1) + (T3 - T4))

-----------------------------------------------------------------------------
(* synchronized_peer and the timers of the NodeData are not initialised.   *)
Init ==
    /\ now = 0
    /\ \E garbage \in [Node -> Garbage] :
         node = [n \in Node |->
            [sync_level |-> CLOCK_UNSYNCHRONIZED, offset_ms |-> 0,
             synchronized_peer |-> garbage[n],
             next_sync_start |-> Unset, next_sync_check |-> Unset, last_sync_start |-> 0,
             asked_to_synchronize |-> {}, synchronizing |-> FALSE,
             synchronizing_level |-> 0, peer_to_sync |-> NoPeer,
             waiting_for_delay_response |-> Unset,
             T1 |-> 0, T2 |-> 0, T3 |-> 0, shift |-> 0]]
    /\ peer_list = [n \in Node |-> {}]
    /\ at = [n \in Node |-> "timers"]
    /\ wake = [n \in Node |-> 0]
    /\ net = {}
    /\ commands = 0
    /\ copies = 0
    /\ measured = [n \in Node |-> {}]

-----------------------------------------------------------------------------
(* The main loop of node n: timers, then one datagram or a timeout.        *)

(* The first half of check_and_handle_timers: the upstream peer is silent. *)
(* Mutant: not seen by the nodes next to the leader.                       *)
SyncLost_NotNextToLeader(d) ==
    /\ CLOCK_LEADER + 1 < d.sync_level /\ d.sync_level < CLOCK_UNSYNCHRONIZED
    /\ now_is_after(d.next_sync_check)
SyncLost(d) ==
    /\ CLOCK_LEADER < d.sync_level /\ d.sync_level < CLOCK_UNSYNCHRONIZED
    /\ now_is_after(d.next_sync_check)

Unsynchronized(d) == [d EXCEPT !.sync_level = CLOCK_UNSYNCHRONIZED, !.offset_ms = 0]

(* The second half: time to offer synchronisation.  The mutant offers at   *)
(* the last level as well.                                                 *)
TimeToOffer_AnyLevel(d) ==
    d.sync_level < CLOCK_UNSYNCHRONIZED /\ now_is_after(d.next_sync_start)
TimeToOffer(d) ==
    d.sync_level < CLOCK_UNSYNCHRONIZED - 1 /\ now_is_after(d.next_sync_start)

Offers(n) ==
    {[type |-> "SYNC_START", src |-> n, dst |-> p, level |-> node[n].sync_level,
      ts |-> get_clock(n), shift |-> now - get_clock(n)] : p \in peer_list[n]}

Offered(n, d) ==
    [d EXCEPT !.asked_to_synchronize = IF peer_list[n] # {} THEN peer_list[n] ELSE @,
              !.last_sync_start = get_natural_clock(n),
              !.next_sync_start = in_x_seconds(SYNC_START_DELAY)]

check_and_handle_timers(n) ==
    LET checked == IF SyncLost(node[n]) THEN Unsynchronized(node[n]) ELSE node[n]
        offer   == TimeToOffer(checked)
    IN  /\ at[n] = "timers"
        /\ node' = [node EXCEPT ![n] = IF offer THEN Offered(n, checked) ELSE checked]
        /\ net' = IF offer THEN net \cup Offers(n) ELSE net
        /\ at' = [at EXCEPT ![n] = "recv"]
        /\ wake' = [wake EXCEPT ![n] = in_x_seconds(1)]
        /\ UNCHANGED <<now, peer_list, commands, copies, measured>>

ReceiveTimeout(n) ==
    /\ at[n] = "recv" /\ now >= wake[n]
    /\ at' = [at EXCEPT ![n] = "timers"]
    /\ UNCHANGED <<now, node, peer_list, wake, net, commands, copies, measured>>

(* Datagram m reaches its destination; the handler answers with "replies". *)
Receive(m, replies) ==
    /\ m \in net /\ at[m.dst] = "recv"
    /\ at' = [at EXCEPT ![m.dst] = "timers"]
    /\ \/ net' = (net \ {m}) \cup replies /\ UNCHANGED copies
       \/ /\ copies < MaxDuplicates /\ copies' = copies + 1
          /\ net' = net \cup replies
    /\ UNCHANGED <<now, peer_list, wake, commands>>

-----------------------------------------------------------------------------
(* SYNC_START *)

check_sync_start(n, m) == m.level < CLOCK_UNSYNCHRONIZED - 1 /\ m.src \in peer_list[n]

SynchronizedTo(n, p) ==
    node[n].sync_level < CLOCK_UNSYNCHRONIZED /\ node[n].synchronized_peer = p

(* The upstream peer is no longer closer to the leader than n. *)
Abandons(n, m) ==
    /\ check_sync_start(n, m) /\ ~node[n].synchronizing
    /\ SynchronizedTo(n, m.src) /\ m.level >= node[n].sync_level

(* n takes the offer and asks for a DELAY_RESPONSE. *)
TakesOffer(n, m) ==
    /\ check_sync_start(n, m) /\ ~node[n].synchronizing
    /\ IF SynchronizedTo(n, m.src) THEN m.level < node[n].sync_level
       ELSE m.level + 1 < node[n].sync_level

Synchronizing(n, m) ==
    [node[n] EXCEPT
        !.next_sync_check = IF SynchronizedTo(n, m.src)
                            THEN in_x_seconds(SYNCHRONIZATION_CHECK_DELAY) ELSE @,
        !.synchronizing = TRUE, !.synchronizing_level = m.level,
        !.peer_to_sync = m.src, !.T1 = m.ts, !.shift = m.shift,
        !.T2 = get_natural_clock(n), !.T3 = get_natural_clock(n),
        !.waiting_for_delay_response = in_x_seconds(DELAY_RESPONSE_TIME)]

handle_sync_start(m) ==
    LET n == m.dst IN
    /\ m.type = "SYNC_START"
    /\ Receive(m, IF TakesOffer(n, m)
                  THEN {[type |-> "DELAY_REQUEST", src |-> n, dst |-> m.src]} ELSE {})
    /\ node' = [node EXCEPT ![n] = IF Abandons(n, m) THEN Unsynchronized(@)
                                   ELSE IF TakesOffer(n, m) THEN Synchronizing(n, m)
                                   ELSE @]
    /\ UNCHANGED measured

-----------------------------------------------------------------------------
(* DELAY_REQUEST.  last_sync_start is in milliseconds, and so is the limit *)
(* it is compared with.                                                    *)
Answerable(n, m) ==
    /\ m.src \in node[n].asked_to_synchronize
    /\ get_natural_clock(n) <= node[n].last_sync_start + DELAY_RESPONSE_TIME

handle_delay_request(m) ==
    LET n == m.dst IN
    /\ m.type = "DELAY_REQUEST"
    /\ Receive(m, IF Answerable(n, m)
                  THEN {[type |-> "DELAY_RESPONSE", src |-> n, dst |-> m.src,
                         level |-> node[n].sync_level, ts |-> get_clock(n),
                         shift |-> now - get_clock(n)]}
                  ELSE {})
    /\ UNCHANGED <<node, measured>>

-----------------------------------------------------------------------------
(* DELAY_RESPONSE.  Mutant: whatever level the peer has come to is taken.   *)
Expected_AnyLevel(n, m) ==
    /\ node[n].synchronizing /\ m.src = node[n].peer_to_sync
    /\ m.ts >= node[n].T1
Expected(n, m) ==
    /\ node[n].synchronizing /\ m.src = node[n].peer_to_sync
    /\ m.level = node[n].synchronizing_level /\ m.ts >= node[n].T1

(* A node that others may now synchronise to starts offering at once; the  *)
(* mutant forgets to.                                                      *)
FirstOffer_Never(d, level) == d.next_sync_start
FirstOffer(d, level) ==
    IF d.sync_level >= CLOCK_UNSYNCHRONIZED - 1 /\ level + 1 < CLOCK_UNSYNCHRONIZED - 1
    THEN in_x_seconds(0) ELSE d.next_sync_start

(* The peer n follows from now on; the mutant leaves the last one. *)
Upstream_Last(d, m) == d.synchronized_peer
Upstream(d, m) == m.src

Synchronized(d, m) ==
    [d EXCEPT !.next_sync_start = FirstOffer(d, m.level),
              !.sync_level = m.level + 1,
              !.offset_ms = update_offset(d.T1, d.T2, d.T3, m.ts),
              !.synchronized_peer = Upstream(d, m),
              !.next_sync_check = in_x_seconds(SYNCHRONIZATION_CHECK_DELAY),
              !.synchronizing = FALSE, !.synchronizing_level = 0, !.peer_to_sync = NoPeer,
              !.waiting_for_delay_response = Unset,
              !.T1 = 0, !.T2 = 0, !.T3 = 0, !.shift = 0]

handle_delay_response(m) ==
    LET n == m.dst IN
    /\ m.type = "DELAY_RESPONSE"
    /\ Receive(m, {})
    /\ IF Expected(n, m)
       THEN /\ node' = [node EXCEPT ![n] = Synchronized(@, m)]
            /\ measured' = [measured EXCEPT ![n] =
                  {[before |-> node[n].shift, after |-> m.shift, rtt |-> m.ts - node[n].T1]}]
       ELSE UNCHANGED <<node, measured>>

-----------------------------------------------------------------------------
(* LEADER, from whoever operates the network. *)
handle_leader(n, level) ==
    /\ at[n] = "recv" /\ commands < MaxCommands
    /\ \/ level = CLOCK_LEADER
          /\ node' = [node EXCEPT ![n].sync_level = CLOCK_LEADER,
                        ![n].next_sync_start = in_x_seconds(LEADER_SYNCHRONIZATION_DELAY)]
       \/ level = CLOCK_UNSYNCHRONIZED /\ node[n].sync_level = CLOCK_LEADER
          /\ node' = [node EXCEPT ![n].sync_level = CLOCK_UNSYNCHRONIZED]
    /\ at' = [at EXCEPT ![n] = "timers"]
    /\ commands' = commands + 1
    /\ UNCHANGED <<now, peer_list, wake, net, copies, measured>>

(* Every other datagram.  The messages of PeerMembership add at most one   *)
(* peer, never the node itself, and take none away (its PeersOnlyJoin);    *)
(* GET_TIME and what is malformed or of no known type change nothing.      *)
OtherDatagram(n) ==
    /\ at[n] = "recv"
    /\ \/ UNCHANGED peer_list
       \/ \E p \in Node \ {n} : peer_list' = [peer_list EXCEPT ![n] = @ \cup {p}]
    /\ at' = [at EXCEPT ![n] = "timers"]
    /\ UNCHANGED <<now, node, wake, net, commands, copies, measured>>

-----------------------------------------------------------------------------
(* The network and the time. *)
Lose(m) ==
    /\ m \in net
    /\ net' = net \ {m}
    /\ UNCHANGED <<now, node, peer_list, at, wake, commands, copies, measured>>

(* A node is not late for its timers: time waits for the main loop. *)
Tick ==
    /\ now < MaxTime
    /\ \A n \in Node : at[n] = "recv" /\ now < wake[n]
    /\ now' = now + 1
    /\ UNCHANGED <<node, peer_list, at, wake, net, commands, copies, measured>>

Handle(m) == handle_sync_start(m) \/ handle_delay_request(m) \/ handle_delay_response(m)

Next ==
    \/ \E n \in Node :
         \/ check_and_handle_timers(n) \/ ReceiveTimeout(n) \/ OtherDatagram(n)
         \/ \E level \in {CLOCK_LEADER, CLOCK_UNSYNCHRONIZED} : handle_leader(n, level)
    \/ \E m \in net : Handle(m) \/ Lose(m)
    \/ Tick

Spec == Init /\ [][Next]_vars

-----------------------------------------------------------------------------
(* Properties *)

TypeOK ==
    /\ now \in Nat
    /\ node \in [Node -> NodeData]
    /\ peer_list \in [Node -> SUBSET Node]
    /\ at \in [Node -> {"timers", "recv"}]
    /\ wake \in [Node -> Nat]
    /\ net \subseteq Message
    /\ commands \in Nat /\ copies \in Nat
    /\ measured \in [Node -> SUBSET [before : Int, after : Int, rtt : Int]]

(* check_and_handle_timers never reads a timespec nobody has set: the      *)
(* "valid if" comments of next_sync_start and next_sync_check in           *)
(* node_data.h hold however messages and commands are interleaved.         *)
TimersArmed ==
    \A n \in Node :
        /\ node[n].sync_level < CLOCK_UNSYNCHRONIZED - 1 => node[n].next_sync_start # Unset
        /\ CLOCK_LEADER < node[n].sync_level /\ node[n].sync_level < CLOCK_UNSYNCHRONIZED
              => node[n].next_sync_check # Unset

(* Levels are bytes and one is added to them: no offer is ever out or      *)
(* being taken whose level would leave no room for the two hops below it.  *)
LevelsLeaveRoom ==
    /\ \A m \in net : m.type = "SYNC_START" => m.level < CLOCK_UNSYNCHRONIZED - 1
    /\ \A n \in Node : node[n].synchronizing =>
          node[n].synchronizing_level < CLOCK_UNSYNCHRONIZED - 1

(* A node that follows a peer follows one of its peers, never itself.      *)
FollowsPeer ==
    \A n \in Node :
        CLOCK_LEADER < node[n].sync_level /\ node[n].sync_level < CLOCK_UNSYNCHRONIZED
            => node[n].synchronized_peer \in peer_list[n] \ {n}

(* clock.c answers 0 for a clock that lags behind its own offset, "in case *)
(* of unlikely overflow".  It is never asked to: no offset is larger than  *)
(* the clock, so a synchronised clock is not stuck at 0.                   *)
ClockNotStuck ==
    \A n \in Node : node[n].offset_ms <= get_natural_clock(n)

(* What a node's offset should be if its peer's clock was "shift" behind.  *)
Exact(n, shift) == Uptime[n] + shift

(* The offset is off by at most half of the round trip the peer measured,  *)
(* if the peer's clock was not itself adjusted in between: latency is      *)
(* accounted for, whatever the delays, losses and overtaking, as long as   *)
(* no datagram comes twice.                                                *)
SyncAccuracy ==
    copies = 0 =>
        \A n \in Node : \A s \in measured[n] :
            /\ CLOCK_LEADER < node[n].sync_level /\ node[n].sync_level < CLOCK_UNSYNCHRONIZED
            /\ s.before = s.after
            => /\ 2 * (node[n].offset_ms - Exact(n, s.before)) <= s.rtt + 1
               /\ 2 * (Exact(n, s.before) - node[n].offset_ms) <= s.rtt + 1

(* The receive timeout of one second bounds how late the timers are seen   *)
(* to: no node follows a peer that was silent for longer than that, and    *)
(* who can be followed never skips an offer.                               *)
TimersHeeded ==
    \A n \in Node :
        /\ CLOCK_LEADER < node[n].sync_level /\ node[n].sync_level < CLOCK_UNSYNCHRONIZED
              => now <= node[n].next_sync_check + Second
        /\ node[n].sync_level < CLOCK_UNSYNCHRONIZED - 1
              => now <= node[n].next_sync_start + Second

(* node_data.h: waiting_for_delay_response is the deadline for waiting for *)
(* a DELAY_RESPONSE.  The loop comes round within a second of it.          *)
GivesUpWaiting ==
    \A n \in Node :
        node[n].synchronizing => now <= node[n].waiting_for_delay_response + Second

(* README.md: nodes are instructed to become or cease being a leader via a *)
(* specific control message.                                               *)
LeaderByCommandOnly ==
    [][\A n \in Node :
          node[n].sync_level = CLOCK_LEADER /\ node'[n].sync_level # CLOCK_LEADER
            => handle_leader(n, CLOCK_UNSYNCHRONIZED)]_vars

=============================================================================
