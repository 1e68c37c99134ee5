--------------------------- MODULE PeerMembership ---------------------------
(***************************************************************************)
(* How the nodes of peer-time-sync get to know each other: the handlers of *)
(* messages.c for HELLO, HELLO_REPLY, CONNECT and ACK_CONNECT, the peer    *)
(* lists of peers.cpp and the HELLO main.c starts with.                    *)
(*                                                                         *)
(* A node is named by its address and has one.  Datagrams overtake each    *)
(* other, get lost, come twice, and are gone when they come to a port that *)
(* is not bound yet.                                                       *)
(***************************************************************************)
EXTENDS Integers, FiniteSets

CONSTANTS
    Node,           \* the nodes
    known_peer,     \* the peer of each node's program arguments, or NoPeer
    NoPeer,
    MAX_CAPACITY,   \* addresses a peer list can hold
    MaxReplyPeers,  \* addresses the send buffer has room for in a HELLO_REPLY
    MaxDatagramPeers, \* ... and addresses a UDP datagram has room for, four fewer
    MaxLosses,      \* bound: datagrams lost
    MaxDuplicates   \* bound: datagrams delivered once more

ASSUME MembershipAssumption ==
    /\ NoPeer \notin Node
    /\ known_peer \in [Node -> Node \cup {NoPeer}]
    /\ IsFiniteSet(Node)
    /\ MAX_CAPACITY \in Nat /\ MaxReplyPeers \in Nat /\ MaxDatagramPeers \in Nat
    /\ MaxDatagramPeers <= MAX_CAPACITY
    /\ MaxLosses \in Nat /\ MaxDuplicates \in Nat

VARIABLES
    running,                  \* nodes whose main() has bound its port and sent its HELLO
    peer_list,                \* NodeData::peer_list of each node
    waiting_for_hello_reply,
    waiting_for_ack_connect,
    net,                      \* datagrams in flight
    losses, copies            \* for the bounds

nodeVars == <<running, peer_list, waiting_for_hello_reply, waiting_for_ack_connect>>
vars == <<nodeVars, net, losses, copies>>

-----------------------------------------------------------------------------
(* "peers" are the addresses a HELLO_REPLY lists. *)
Message == [type : {"HELLO", "HELLO_REPLY", "CONNECT", "ACK_CONNECT"},
            src : Node, dst : Node, peers : SUBSET Node]
Datagram(type, src, dst, peers) == [type |-> type, src |-> src, dst |-> dst, peers |-> peers]

(* peers.cpp *)
peer_list_full(list) == Cardinality(list) >= MAX_CAPACITY
CanAdd(list, p) == p \in list \/ ~peer_list_full(list)
(* The mutant does not look at the capacity. *)
peer_list_add_Unbounded(list, p) == list \cup {p}
peer_list_add(list, p) == IF CanAdd(list, p) THEN list \cup {p} ELSE list

(* The peers create_hello_reply_message lists for dest. *)
ReplyPeers(n, dest) == peer_list[n] \ {n, dest}

-----------------------------------------------------------------------------
Init ==
    /\ running = {}
    /\ peer_list = [n \in Node |-> {}]
    /\ waiting_for_hello_reply = [n \in Node |-> FALSE]
    /\ waiting_for_ack_connect = [n \in Node |-> {}]
    /\ net = {}
    /\ losses = 0 /\ copies = 0

(* A known peer was given; the mutant takes it for granted. *)
HasKnownPeer_Always(n) == TRUE
HasKnownPeer(n) == known_peer[n] # NoPeer

(* main() up to its loop. *)
Start(n) ==
    /\ n \notin running
    /\ running' = running \cup {n}
    /\ IF HasKnownPeer(n)
       THEN /\ waiting_for_hello_reply' = [waiting_for_hello_reply EXCEPT ![n] = TRUE]
            /\ net' = net \cup {Datagram("HELLO", n, known_peer[n], {})}
       ELSE UNCHANGED <<waiting_for_hello_reply, net>>
    /\ UNCHANGED <<peer_list, waiting_for_ack_connect, losses, copies>>

(* A running node receives datagram m and sends "replies". *)
Receive(m, replies) ==
    /\ m \in net /\ m.dst \in running
    /\ \/ net' = (net \ {m}) \cup replies /\ UNCHANGED copies
       \/ /\ copies < MaxDuplicates /\ copies' = copies + 1
          /\ net' = net \cup replies
    /\ UNCHANGED <<running, losses>>

(* Datagram m calls for nothing: it is reported and dropped. *)
Ignore(m) ==
    /\ Receive(m, {})
    /\ UNCHANGED <<peer_list, waiting_for_hello_reply, waiting_for_ack_connect>>

-----------------------------------------------------------------------------
(* A node may be told its own address as the known peer; the mutant does   *)
(* not see to it.                                                          *)
HelloWelcome_Own(n, m) ==
    /\ Cardinality(ReplyPeers(n, m.src)) <= MaxReplyPeers
    /\ CanAdd(peer_list[n], m.src)
HelloWelcome(n, m) ==
    /\ m.src # n
    /\ Cardinality(ReplyPeers(n, m.src)) <= MaxReplyPeers
    /\ CanAdd(peer_list[n], m.src)

(* The HELLO_REPLY that sendto() lets out.  The size was compared with the *)
(* buffer: above that of a datagram sendto() fails, which is reported, and *)
(* the sender of the HELLO stays in the list.                              *)
HelloReplySent(n, dest) ==
    IF Cardinality(ReplyPeers(n, dest)) <= MaxDatagramPeers
    THEN {Datagram("HELLO_REPLY", n, dest, ReplyPeers(n, dest))} ELSE {}

handle_hello(m) ==
    LET n == m.dst IN
    /\ m.type = "HELLO"
    /\ IF HelloWelcome(n, m)
       THEN /\ Receive(m, HelloReplySent(n, m.src))
            /\ peer_list' = [peer_list EXCEPT ![n] = peer_list_add(@, m.src)]
            /\ UNCHANGED <<waiting_for_hello_reply, waiting_for_ack_connect>>
       ELSE Ignore(m)

check_hello_reply(n, m) ==
    /\ waiting_for_hello_reply[n] /\ m.src = known_peer[n]
    /\ m.src # n
    /\ m.src \notin m.peers /\ n \notin m.peers

(* Mutants: the one that sent the HELLO_REPLY is forgotten; those that     *)
(* sent a HELLO while the reply was awaited are.                           *)
ReplySenderAdded_Forgotten(list, src) == list
ReplySenderAdded_Anew(list, src) == {src}
ReplySenderAdded(list, src) == peer_list_add(list, src)

(* All addresses of the reply find room among the awaited, which are none  *)
(* before: CapacityRespected.                                              *)
handle_hello_reply(m) ==
    LET n == m.dst IN
    /\ m.type = "HELLO_REPLY"
    /\ IF check_hello_reply(n, m)
       THEN /\ Receive(m, {Datagram("CONNECT", n, p, {}) : p \in m.peers})
            /\ waiting_for_hello_reply' = [waiting_for_hello_reply EXCEPT ![n] = FALSE]
            /\ waiting_for_ack_connect' = [waiting_for_ack_connect EXCEPT ![n] = @ \cup m.peers]
            /\ peer_list' = [peer_list EXCEPT ![n] = ReplySenderAdded(@, m.src)]
       ELSE Ignore(m)

handle_connect(m) ==
    LET n == m.dst IN
    /\ m.type = "CONNECT"
    /\ IF CanAdd(peer_list[n], m.src) /\ m.src # n
       THEN /\ Receive(m, {Datagram("ACK_CONNECT", n, m.src, {})})
            /\ peer_list' = [peer_list EXCEPT ![n] = peer_list_add(@, m.src)]
            /\ UNCHANGED <<waiting_for_hello_reply, waiting_for_ack_connect>>
       ELSE Ignore(m)

handle_ack_connect(m) ==
    LET n == m.dst IN
    /\ m.type = "ACK_CONNECT"
    /\ IF /\ m.src \in waiting_for_ack_connect[n]
          /\ CanAdd(peer_list[n], m.src) /\ m.src # n
       THEN /\ Receive(m, {})
            /\ waiting_for_ack_connect' = [waiting_for_ack_connect EXCEPT ![n] = @ \ {m.src}]
            /\ peer_list' = [peer_list EXCEPT ![n] = peer_list_add(@, m.src)]
            /\ UNCHANGED waiting_for_hello_reply
       ELSE Ignore(m)

-----------------------------------------------------------------------------
Lose(m) ==
    /\ losses < MaxLosses /\ losses' = losses + 1
    /\ net' = net \ {m}
    /\ UNCHANGED <<nodeVars, copies>>

(* Nobody listens at the port the datagram comes to: the kernel drops it,  *)
(* and the sender, whose socket is not connected, is not told.             *)
Unheard(m) ==
    /\ m.dst \notin running
    /\ net' = net \ {m}
    /\ UNCHANGED <<nodeVars, losses, copies>>

Handle(m) ==
    handle_hello(m) \/ handle_hello_reply(m) \/ handle_connect(m) \/ handle_ack_connect(m)

Next ==
    \/ \E n \in Node : Start(n)
    \/ \E m \in net : Handle(m) \/ Lose(m) \/ Unheard(m)

Spec == Init /\ [][Next]_vars

(* What is neither lost nor on its way for ever arrives at a node that is  *)
(* running.  Which programs are started, and when, is left open.           *)
FairSpec == Spec /\ WF_vars(\E m \in net : Handle(m))

-----------------------------------------------------------------------------
(* Properties *)

TypeOK ==
    /\ running \subseteq Node
    /\ peer_list \in [Node -> SUBSET Node]
    /\ waiting_for_hello_reply \in [Node -> BOOLEAN]
    /\ waiting_for_ack_connect \in [Node -> SUBSET Node]
    /\ net \subseteq Message
    /\ losses \in Nat /\ copies \in Nat

(* No list outgrows its capacity, whichever message an entry came by.  The *)
(* peer list is full at times and turns peers down; the list of awaited    *)
(* ACK_CONNECTs is filled without a look at the result of peer_list_add,   *)
(* and never is: one HELLO_REPLY is taken, into an empty list.             *)
CapacityRespected ==
    \A n \in Node : /\ Cardinality(peer_list[n]) <= MAX_CAPACITY
                    /\ Cardinality(waiting_for_ack_connect[n]) <= MAX_CAPACITY

(* A node never takes itself for a peer: it would offer itself a clock.    *)
NeverOwnPeer ==
    \A n \in Node : n \notin peer_list[n] /\ n \notin waiting_for_ack_connect[n]

(* What PeerSync takes the lists for: whichever message comes, a list      *)
(* gains at most one peer, not its owner, and loses none.  A lost entry    *)
(* would leave a node following a peer whose offers it ignores.            *)
PeersOnlyJoin ==
    [][\A n \in Node : \/ peer_list'[n] = peer_list[n]
                       \/ \E p \in Node \ {n} : peer_list'[n] = peer_list[n] \cup {p}]_vars

Awaits(p, n) ==
    \/ waiting_for_hello_reply[p] /\ known_peer[p] = n
    \/ n \in waiting_for_ack_connect[p]

Knows(p, n) == n \in peer_list[p] \/ peer_list_full(peer_list[p])

(* Nobody is known behind its back: who is in a peer list has the owner of *)
(* the list in its own, or no room for it there, or awaits the message     *)
(* that puts it there.  SYNC_STARTs go to the peer list and are only taken *)
(* from members of it.                                                     *)
KnowledgeReturned ==
    \A n, p \in Node : p \in peer_list[n] => Knows(p, n) \/ Awaits(p, n)

(* All others ask hub, and are started after it ... *)
ComeInThrough(hub) ==
    \A n \in running \ {hub} : known_peer[n] = hub /\ hub \in running
(* ... and what it has to tell them fits. *)
RoomForAll ==
    /\ Cardinality(running) <= MAX_CAPACITY + 1
    /\ Cardinality(running) <= MaxReplyPeers + 2
    /\ Cardinality(running) <= MaxDatagramPeers + 2

(* If all come in through one node that is up by then, not too many for    *)
(* it, and nothing is lost, those that are started know each other in the  *)
(* end, in whatever order they come, however their messages cross and      *)
(* repeat, and whoever that node was itself told to ask.  HELLO is sent    *)
(* once: a node that asks a peer before it is there may stay alone.        *)
MeshForms ==
    \A hub \in Node :
        [](losses = 0 /\ ComeInThrough(hub) /\ RoomForAll)
            => <>[](\A n \in running : peer_list[n] = running \ {n})

=============================================================================
