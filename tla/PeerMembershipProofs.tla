------------------------ MODULE PeerMembershipProofs ------------------------
(***************************************************************************)
(* Proofs about PeerMembership, for any set of nodes, any known peers, any *)
(* capacities and any number of lost and duplicated datagrams.             *)
(***************************************************************************)
EXTENDS PeerMembership, FiniteSetTheorems, TLAPS

USE MembershipAssumption

-----------------------------------------------------------------------------
(* Helpers *)

(* What is in flight after a datagram was received.                        *)
LEMMA ReceiveNet ==
    ASSUME NEW m, NEW replies, Receive(m, replies)
    PROVE  /\ m \in net /\ m.dst \in running /\ net' \subseteq net \cup replies
           /\ running' = running /\ losses' = losses
           /\ copies' = copies \/ copies' = copies + 1
BY DEF Receive

(* A peer list of nodes is finite.                                         *)
LEMMA ListFinite ==
    ASSUME NEW list \in SUBSET Node
    PROVE  IsFiniteSet(list) /\ Cardinality(list) \in Nat
           /\ Cardinality(list) <= Cardinality(Node) /\ Cardinality(Node) \in Nat
BY FS_Subset, FS_CardinalityType

(* peer_list_add only ever adds the peer it is given.                      *)
LEMMA AddType ==
    ASSUME NEW list \in SUBSET Node, NEW p \in Node
    PROVE  /\ peer_list_add(list, p) \in SUBSET Node
           /\ list \subseteq peer_list_add(list, p)
           /\ peer_list_add(list, p) \subseteq list \cup {p}
BY DEF peer_list_add

(* peer_list_add stays within the capacity.                                *)
LEMMA AddCapacity ==
    ASSUME NEW list \in SUBSET Node, NEW p \in Node, Cardinality(list) <= MAX_CAPACITY
    PROVE  Cardinality(peer_list_add(list, p)) <= MAX_CAPACITY
<1>1. IsFiniteSet(list) /\ Cardinality(list) \in Nat
  BY ListFinite
<1>2. Cardinality(list \cup {p}) = IF p \in list THEN Cardinality(list) ELSE Cardinality(list) + 1
  BY <1>1, FS_AddElement
<1> QED  BY <1>1, <1>2 DEF peer_list_add, CanAdd, peer_list_full

(* A list that grew is as full as it was.                                  *)
LEMMA FullStays ==
    ASSUME NEW list \in SUBSET Node, NEW more \in SUBSET Node, list \subseteq more,
           peer_list_full(list)
    PROVE  peer_list_full(more)
<1>1. IsFiniteSet(more) /\ Cardinality(more) \in Nat /\ Cardinality(list) \in Nat
  BY ListFinite
<1>2. Cardinality(list) <= Cardinality(more)
  BY <1>1, FS_Subset
<1> QED  BY <1>1, <1>2 DEF peer_list_full

(* Who is not added finds the list full.                                   *)
LEMMA AddedOrFull ==
    ASSUME NEW list \in SUBSET Node, NEW p \in Node
    PROVE  p \in peer_list_add(list, p) \/ peer_list_full(peer_list_add(list, p))
BY DEF peer_list_add, CanAdd

-----------------------------------------------------------------------------
(* Type correctness *)

(* The lists main.c initialises are well formed.                           *)
LEMMA TypeInit == Init => TypeOK
BY DEF Init, TypeOK

(* A datagram that is dropped leaves everything well formed.               *)
LEMMA IgnoreType ==
    ASSUME TypeOK, NEW m, Ignore(m)
    PROVE  TypeOK'
<1>1. net' \subseteq net /\ running' = running /\ losses' = losses
      /\ (copies' = copies \/ copies' = copies + 1)
  BY ReceiveNet DEF Ignore
<1> QED  BY <1>1 DEF TypeOK, Ignore

(* Every handler leaves the lists and the network well formed.             *)
LEMMA TypeNext == TypeOK /\ [Next]_vars => TypeOK'
<1> SUFFICES ASSUME TypeOK, [Next]_vars PROVE TypeOK'
  OBVIOUS
<1>1. ASSUME NEW n \in Node, Start(n) PROVE TypeOK'
  <2>1. known_peer[n] # NoPeer => Datagram("HELLO", n, known_peer[n], {}) \in Message
    BY DEF Datagram, Message
  <2> QED  BY <1>1, <2>1 DEF Start, HasKnownPeer, TypeOK
<1>2. ASSUME NEW m \in net, handle_hello(m) PROVE TypeOK'
  <2> DEFINE n == m.dst
             reply == Datagram("HELLO_REPLY", n, m.src, ReplyPeers(n, m.src))
  <2>1. m \in Message /\ n \in Node /\ m.src \in Node
    BY DEF TypeOK, Message
  <2>2. CASE ~HelloWelcome(n, m)
    BY <1>2, <2>2, IgnoreType DEF handle_hello
  <2>3. CASE HelloWelcome(n, m)
    <3>1. /\ Receive(m, HelloReplySent(n, m.src))
          /\ peer_list' = [peer_list EXCEPT ![n] = peer_list_add(@, m.src)]
          /\ UNCHANGED <<waiting_for_hello_reply, waiting_for_ack_connect>>
      BY <1>2, <2>3 DEF handle_hello
    <3>2. reply \in Message
      BY <2>1 DEF Datagram, Message, ReplyPeers, TypeOK
    <3>3. net' \subseteq net \cup {reply} /\ running' = running /\ losses' = losses
          /\ (copies' = copies \/ copies' = copies + 1)
      BY <3>1, ReceiveNet DEF HelloReplySent
    <3>4. peer_list' \in [Node -> SUBSET Node]
      BY <3>1, <2>1, AddType DEF TypeOK
    <3> QED  BY <3>1, <3>2, <3>3, <3>4 DEF TypeOK
  <2> QED  BY <2>2, <2>3
<1>3. ASSUME NEW m \in net, handle_hello_reply(m) PROVE TypeOK'
  <2> DEFINE n == m.dst
             connects == {Datagram("CONNECT", n, p, {}) : p \in m.peers}
  <2>1. m \in Message /\ n \in Node /\ m.src \in Node /\ m.peers \in SUBSET Node
    BY DEF TypeOK, Message
  <2>2. CASE ~check_hello_reply(n, m)
    BY <1>3, <2>2, IgnoreType DEF handle_hello_reply
  <2>3. CASE check_hello_reply(n, m)
    <3>1. /\ Receive(m, connects)
          /\ waiting_for_hello_reply' = [waiting_for_hello_reply EXCEPT ![n] = FALSE]
          /\ waiting_for_ack_connect' = [waiting_for_ack_connect EXCEPT ![n] = @ \cup m.peers]
          /\ peer_list' = [peer_list EXCEPT ![n] = ReplySenderAdded(@, m.src)]
      BY <1>3, <2>3 DEF handle_hello_reply
    <3>2. connects \subseteq Message
      BY <2>1 DEF Datagram, Message
    <3>3. net' \subseteq net \cup connects /\ running' = running /\ losses' = losses
          /\ (copies' = copies \/ copies' = copies + 1)
      BY <3>1, ReceiveNet
    <3>4. peer_list' \in [Node -> SUBSET Node]
      BY <3>1, <2>1, AddType DEF TypeOK, ReplySenderAdded
    <3>5. waiting_for_ack_connect' \in [Node -> SUBSET Node]
      BY <3>1, <2>1 DEF TypeOK
    <3> QED  BY <3>1, <3>2, <3>3, <3>4, <3>5 DEF TypeOK
  <2> QED  BY <2>2, <2>3
<1>4. ASSUME NEW m \in net, handle_connect(m) PROVE TypeOK'
  <2> DEFINE n == m.dst
             ack == Datagram("ACK_CONNECT", n, m.src, {})
  <2>1. m \in Message /\ n \in Node /\ m.src \in Node
    BY DEF TypeOK, Message
  <2>2. CASE ~(CanAdd(peer_list[n], m.src) /\ m.src # n)
    BY <1>4, <2>2, IgnoreType DEF handle_connect
  <2>3. CASE CanAdd(peer_list[n], m.src) /\ m.src # n
    <3>1. /\ Receive(m, {ack})
          /\ peer_list' = [peer_list EXCEPT ![n] = peer_list_add(@, m.src)]
          /\ UNCHANGED <<waiting_for_hello_reply, waiting_for_ack_connect>>
      BY <1>4, <2>3 DEF handle_connect
    <3>2. ack \in Message
      BY <2>1 DEF Datagram, Message
    <3>3. net' \subseteq net \cup {ack} /\ running' = running /\ losses' = losses
          /\ (copies' = copies \/ copies' = copies + 1)
      BY <3>1, ReceiveNet
    <3>4. peer_list' \in [Node -> SUBSET Node]
      BY <3>1, <2>1, AddType DEF TypeOK
    <3> QED  BY <3>1, <3>2, <3>3, <3>4 DEF TypeOK
  <2> QED  BY <2>2, <2>3
<1>5. ASSUME NEW m \in net, handle_ack_connect(m) PROVE TypeOK'
  <2> DEFINE n == m.dst
             accepted == /\ m.src \in waiting_for_ack_connect[n]
                         /\ CanAdd(peer_list[n], m.src) /\ m.src # n
  <2>1. m \in Message /\ n \in Node /\ m.src \in Node
    BY DEF TypeOK, Message
  <2>2. CASE ~accepted
    BY <1>5, <2>2, IgnoreType DEF handle_ack_connect
  <2>3. CASE accepted
    <3>1. /\ Receive(m, {})
          /\ waiting_for_ack_connect' = [waiting_for_ack_connect EXCEPT ![n] = @ \ {m.src}]
          /\ peer_list' = [peer_list EXCEPT ![n] = peer_list_add(@, m.src)]
          /\ UNCHANGED waiting_for_hello_reply
      BY <1>5, <2>3 DEF handle_ack_connect
    <3>2. net' \subseteq net /\ running' = running /\ losses' = losses
          /\ (copies' = copies \/ copies' = copies + 1)
      BY <3>1, ReceiveNet
    <3>3. peer_list' \in [Node -> SUBSET Node]
      BY <3>1, <2>1, AddType DEF TypeOK
    <3> QED  BY <3>1, <3>2, <3>3 DEF TypeOK
  <2> QED  BY <2>2, <2>3
<1>6. ASSUME NEW m \in net, Lose(m) \/ Unheard(m) PROVE TypeOK'
  BY <1>6 DEF Lose, Unheard, nodeVars, TypeOK
<1>7. CASE UNCHANGED vars
  BY <1>7 DEF vars, nodeVars, TypeOK
<1> QED  BY <1>1, <1>2, <1>3, <1>4, <1>5, <1>6, <1>7 DEF Next, Handle

(* What the nodes keep and send stays well formed: in particular no        *)
(* datagram is ever addressed to the missing known peer of a first node.   *)
THEOREM TypeCorrect == Spec => []TypeOK
BY TypeInit, TypeNext, PTL DEF Spec

-----------------------------------------------------------------------------
(* The steps, in the form the invariants need them *)

(* A step that changes no list of a node and sends nothing.                *)
Quiet == /\ UNCHANGED <<peer_list, waiting_for_hello_reply, waiting_for_ack_connect>>
         /\ net' \subseteq net /\ running' = running

Welcomes(m) ==
    LET n == m.dst IN
    /\ m.type = "HELLO" /\ m.src # n
    /\ net' \subseteq net \cup HelloReplySent(n, m.src) /\ running' = running
    /\ peer_list' = [peer_list EXCEPT ![n] = peer_list_add(@, m.src)]
    /\ UNCHANGED <<waiting_for_hello_reply, waiting_for_ack_connect>>

TakesReply(m) ==
    LET n == m.dst IN
    /\ m.type = "HELLO_REPLY" /\ check_hello_reply(n, m) /\ n \in running
    /\ net' \subseteq net \cup {Datagram("CONNECT", n, p, {}) : p \in m.peers}
    /\ running' = running
    /\ waiting_for_hello_reply' = [waiting_for_hello_reply EXCEPT ![n] = FALSE]
    /\ waiting_for_ack_connect' = [waiting_for_ack_connect EXCEPT ![n] = @ \cup m.peers]
    /\ peer_list' = [peer_list EXCEPT ![n] = peer_list_add(@, m.src)]

Connects(m) ==
    LET n == m.dst IN
    /\ m.type = "CONNECT" /\ m.src # n
    /\ net' \subseteq net \cup {Datagram("ACK_CONNECT", n, m.src, {})} /\ running' = running
    /\ peer_list' = [peer_list EXCEPT ![n] = peer_list_add(@, m.src)]
    /\ UNCHANGED <<waiting_for_hello_reply, waiting_for_ack_connect>>

TakesAck(m) ==
    LET n == m.dst IN
    /\ m.type = "ACK_CONNECT" /\ m.src # n /\ m.src \in waiting_for_ack_connect[n]
    /\ net' \subseteq net /\ running' = running
    /\ waiting_for_ack_connect' = [waiting_for_ack_connect EXCEPT ![n] = @ \ {m.src}]
    /\ peer_list' = [peer_list EXCEPT ![n] = peer_list_add(@, m.src)]
    /\ UNCHANGED waiting_for_hello_reply

(* Every step is the start of a node, one of the four exchanges above, or  *)
(* quiet.                                                                  *)
LEMMA Steps ==
    ASSUME [Next]_vars
    PROVE  \/ \E n \in Node : Start(n)
           \/ \E m \in net : Welcomes(m) \/ TakesReply(m) \/ Connects(m) \/ TakesAck(m)
           \/ Quiet
<1>1. ASSUME NEW m, Ignore(m) PROVE Quiet
  BY <1>1, ReceiveNet DEF Ignore, Quiet
<1>2. ASSUME NEW m \in net, handle_hello(m) PROVE Welcomes(m) \/ Quiet
  BY <1>1, <1>2, ReceiveNet DEF handle_hello, HelloWelcome, Welcomes
<1>3. ASSUME NEW m \in net, handle_hello_reply(m) PROVE TakesReply(m) \/ Quiet
  BY <1>1, <1>3, ReceiveNet DEF handle_hello_reply, ReplySenderAdded, TakesReply
<1>4. ASSUME NEW m \in net, handle_connect(m) PROVE Connects(m) \/ Quiet
  BY <1>1, <1>4, ReceiveNet DEF handle_connect, Connects
<1>5. ASSUME NEW m \in net, handle_ack_connect(m) PROVE TakesAck(m) \/ Quiet
  BY <1>1, <1>5, ReceiveNet DEF handle_ack_connect, TakesAck
<1>6. ASSUME NEW m \in net, Lose(m) \/ Unheard(m) PROVE Quiet
  BY <1>6 DEF Lose, Unheard, nodeVars, Quiet
<1>7. CASE UNCHANGED vars
  BY <1>7 DEF vars, nodeVars, Quiet
<1> QED  BY <1>2, <1>3, <1>4, <1>5, <1>6, <1>7 DEF Next, Handle

-----------------------------------------------------------------------------
(* No node is its own peer *)

(* Every handler checks the sender against the node's own address.         *)
LEMMA NeverOwnNext == TypeOK /\ NeverOwnPeer /\ [Next]_vars => NeverOwnPeer'
<1> SUFFICES ASSUME TypeOK, NeverOwnPeer, [Next]_vars PROVE NeverOwnPeer'
  OBVIOUS
<1>0. \A m \in net : m.dst \in Node /\ m.src \in Node /\ m.peers \in SUBSET Node
  BY DEF TypeOK, Message
<1>1. ASSUME NEW n \in Node, Start(n) PROVE NeverOwnPeer'
  BY <1>1 DEF Start, NeverOwnPeer
<1>2. ASSUME NEW m \in net, Welcomes(m) \/ Connects(m) PROVE NeverOwnPeer'
  BY <1>0, <1>2, AddType DEF Welcomes, Connects, NeverOwnPeer, TypeOK
<1>3. ASSUME NEW m \in net, TakesReply(m) PROVE NeverOwnPeer'
  <2>1. m.dst \notin m.peers
    BY <1>3 DEF TakesReply, check_hello_reply
  <2>3. \A n \in Node : n \notin waiting_for_ack_connect'[n]
    BY <1>0, <1>3, <2>1 DEF TakesReply, NeverOwnPeer, TypeOK
  <2>4. \A n \in Node : n \notin peer_list'[n]
    BY <1>0, <1>3, AddType DEF TakesReply, check_hello_reply, NeverOwnPeer, TypeOK
  <2> QED  BY <2>3, <2>4 DEF NeverOwnPeer
<1>4. ASSUME NEW m \in net, TakesAck(m) PROVE NeverOwnPeer'
  BY <1>0, <1>4, AddType DEF TakesAck, NeverOwnPeer, TypeOK
<1>5. CASE Quiet
  BY <1>5 DEF Quiet, NeverOwnPeer
<1> QED  BY <1>1, <1>2, <1>3, <1>4, <1>5, Steps

(* No sequence of messages makes a node its own peer, even if it was given *)
(* its own address as the known peer or is told of itself by others.       *)
THEOREM OwnPeerNever == Spec => []NeverOwnPeer
<1>1. Init => NeverOwnPeer
  BY DEF Init, NeverOwnPeer
<1> QED  BY <1>1, TypeCorrect, NeverOwnNext, PTL DEF Spec

-----------------------------------------------------------------------------
(* Capacity *)

(* CapacityRespected is not inductive for the list of awaited              *)
(* ACK_CONNECTs: that a HELLO_REPLY, which the handler puts into it        *)
(* unchecked, finds it empty and is no longer than a datagram is what      *)
(* leaves it room.                                                         *)
ShortReplies ==
    \A m \in net : m.type = "HELLO_REPLY" => Cardinality(m.peers) <= MaxDatagramPeers
NothingAwaitedYet ==
    \A n \in Node : n \notin running \/ waiting_for_hello_reply[n]
                      => waiting_for_ack_connect[n] = {}
CapacityInv == CapacityRespected /\ ShortReplies /\ NothingAwaitedYet

(* Only HELLO_REPLYs that sendto() let out are in flight.                  *)
LEMMA ShortRepliesNext == ShortReplies /\ [Next]_vars => ShortReplies'
<1> SUFFICES ASSUME ShortReplies, [Next]_vars PROVE ShortReplies'
  OBVIOUS
<1>1. ASSUME NEW n \in Node, Start(n) PROVE ShortReplies'
  BY <1>1 DEF Start, Datagram, ShortReplies
<1>2. ASSUME NEW m \in net, Welcomes(m) PROVE ShortReplies'
  BY <1>2 DEF Welcomes, HelloReplySent, Datagram, ShortReplies
<1>3. ASSUME NEW m \in net, TakesReply(m) \/ Connects(m) \/ TakesAck(m) PROVE ShortReplies'
  BY <1>3 DEF TakesReply, Connects, TakesAck, Datagram, ShortReplies
<1>4. CASE Quiet
  BY <1>4 DEF Quiet, ShortReplies
<1> QED  BY <1>1, <1>2, <1>3, <1>4, Steps

(* CONNECTs are only sent once the HELLO is answered.                      *)
LEMMA NothingAwaitedNext == TypeOK /\ NothingAwaitedYet /\ [Next]_vars => NothingAwaitedYet'
<1> SUFFICES ASSUME TypeOK, NothingAwaitedYet, [Next]_vars PROVE NothingAwaitedYet'
  OBVIOUS
<1>0. \A m \in net : m.dst \in Node
  BY DEF TypeOK, Message
<1>1. ASSUME NEW n \in Node, Start(n) PROVE NothingAwaitedYet'
  BY <1>1 DEF Start, NothingAwaitedYet, TypeOK
<1>2. ASSUME NEW m \in net, Welcomes(m) \/ Connects(m) PROVE NothingAwaitedYet'
  BY <1>2 DEF Welcomes, Connects, NothingAwaitedYet
<1>3. ASSUME NEW m \in net, TakesReply(m) PROVE NothingAwaitedYet'
  BY <1>0, <1>3 DEF TakesReply, NothingAwaitedYet, TypeOK
<1>4. ASSUME NEW m \in net, TakesAck(m) PROVE NothingAwaitedYet'
  BY <1>0, <1>4 DEF TakesAck, NothingAwaitedYet, TypeOK
<1>5. CASE Quiet
  BY <1>5 DEF Quiet, NothingAwaitedYet
<1> QED  BY <1>1, <1>2, <1>3, <1>4, <1>5, Steps

(* No handler takes a list past its capacity.                              *)
LEMMA CapacityNext == TypeOK /\ CapacityInv /\ [Next]_vars => CapacityRespected'
<1> SUFFICES ASSUME TypeOK, CapacityInv, [Next]_vars PROVE CapacityRespected'
  OBVIOUS
<1>i. CapacityRespected /\ ShortReplies /\ NothingAwaitedYet
  BY DEF CapacityInv
<1>0. \A m \in net : m.dst \in Node /\ m.src \in Node /\ m.peers \in SUBSET Node
  BY DEF TypeOK, Message
<1>a. ASSUME NEW m \in net,
             peer_list' = [peer_list EXCEPT ![m.dst] = peer_list_add(@, m.src)]
      PROVE  \A n \in Node : Cardinality(peer_list'[n]) <= MAX_CAPACITY
  BY <1>0, <1>i, <1>a, AddCapacity DEF CapacityRespected, TypeOK
<1>1. ASSUME NEW n \in Node, Start(n) PROVE CapacityRespected'
  BY <1>i, <1>1 DEF Start, CapacityRespected
<1>2. ASSUME NEW m \in net, Welcomes(m) \/ Connects(m) PROVE CapacityRespected'
  BY <1>i, <1>a, <1>2 DEF Welcomes, Connects, CapacityRespected
<1>3. ASSUME NEW m \in net, TakesReply(m) PROVE CapacityRespected'
  <2>1. waiting_for_ack_connect[m.dst] = {}
    BY <1>0, <1>i, <1>3 DEF TakesReply, check_hello_reply, NothingAwaitedYet
  <2>2. Cardinality(m.peers) <= MAX_CAPACITY
    <3>1. Cardinality(m.peers) <= MaxDatagramPeers
      BY <1>i, <1>3 DEF TakesReply, ShortReplies
    <3>2. Cardinality(m.peers) \in Nat
      BY <1>0, ListFinite
    <3> QED  BY <3>1, <3>2
  <2>3. \A n \in Node : Cardinality(waiting_for_ack_connect'[n]) <= MAX_CAPACITY
    <3>1. waiting_for_ack_connect' = [waiting_for_ack_connect EXCEPT ![m.dst] = m.peers]
      BY <1>0, <1>3, <2>1 DEF TakesReply, TypeOK
    <3> QED  BY <1>0, <1>i, <2>2, <3>1 DEF CapacityRespected, TypeOK
  <2>4. \A n \in Node : Cardinality(peer_list'[n]) <= MAX_CAPACITY
    BY <1>a, <1>3 DEF TakesReply
  <2> QED  BY <2>3, <2>4 DEF CapacityRespected
<1>4. ASSUME NEW m \in net, TakesAck(m) PROVE CapacityRespected'
  <2>1. \A n \in Node : Cardinality(peer_list'[n]) <= MAX_CAPACITY
    BY <1>a, <1>4 DEF TakesAck
  <2>2. \A n \in Node : /\ waiting_for_ack_connect[n] \in SUBSET Node
                        /\ waiting_for_ack_connect'[n] \in SUBSET waiting_for_ack_connect[n]
    BY <1>0, <1>4 DEF TakesAck, TypeOK
  <2>3. ASSUME NEW n \in Node PROVE Cardinality(waiting_for_ack_connect'[n]) <= MAX_CAPACITY
    <3>1. IsFiniteSet(waiting_for_ack_connect[n]) /\ Cardinality(waiting_for_ack_connect[n]) \in Nat
      BY <2>2, ListFinite
    <3>2. /\ IsFiniteSet(waiting_for_ack_connect'[n])
          /\ Cardinality(waiting_for_ack_connect'[n]) <= Cardinality(waiting_for_ack_connect[n])
      BY <2>2, <3>1, FS_Subset
    <3>3. Cardinality(waiting_for_ack_connect'[n]) \in Nat
      BY <3>2, FS_CardinalityType
    <3> QED  BY <1>i, <3>1, <3>2, <3>3 DEF CapacityRespected
  <2> QED  BY <2>1, <2>3 DEF CapacityRespected
<1>5. CASE Quiet
  BY <1>i, <1>5 DEF Quiet, CapacityRespected
<1> QED  BY <1>1, <1>2, <1>3, <1>4, <1>5, Steps

(* peers.cpp never holds more addresses than fit, whatever arrives and     *)
(* however often: the checks before the calls and those in peer_list_add   *)
(* agree, and the one call that is not checked always finds room.          *)
THEOREM CapacityKept == Spec => []CapacityRespected
<1>1. Init => CapacityInv
  <2>1. Init => CapacityRespected
    BY FS_EmptySet DEF Init, CapacityRespected
  <2> QED  BY <2>1 DEF Init, CapacityInv, ShortReplies, NothingAwaitedYet
<1>2. TypeOK /\ CapacityInv /\ [Next]_vars => CapacityInv'
  BY ShortRepliesNext, NothingAwaitedNext, CapacityNext DEF CapacityInv
<1>3. CapacityInv => CapacityRespected
  BY DEF CapacityInv
<1> QED  BY <1>1, <1>2, <1>3, TypeCorrect, PTL DEF Spec

-----------------------------------------------------------------------------
(* Nobody is known behind its back *)

(* What a datagram in flight says of the node that sent it: it knows the   *)
(* addressee already, or awaits the answer that makes it known.            *)
SenderReady(m) ==
    /\ m.type = "HELLO" => /\ m.dst = known_peer[m.src]
                           /\ waiting_for_hello_reply[m.src] \/ Knows(m.src, m.dst)
    /\ m.type = "CONNECT" => \/ m.dst \in waiting_for_ack_connect[m.src]
                             \/ Knows(m.src, m.dst)
    /\ m.type \in {"HELLO_REPLY", "ACK_CONNECT"} => Knows(m.src, m.dst)

Returned(n, p) == p \in peer_list[n] => Knows(p, n) \/ Awaits(p, n)

(* KnowledgeReturned is not inductive: which answers are under way depends *)
(* on what their senders know.                                             *)
ReturnedInv == /\ \A m \in net : SenderReady(m)
               /\ \A n, p \in Node : Returned(n, p)

(* What a node knows it goes on knowing, and the one it adds it knows.     *)
LEMMA KnowsStays ==
    ASSUME TypeOK, NEW d \in Node, NEW src \in Node,
           peer_list' = [peer_list EXCEPT ![d] = peer_list_add(@, src)]
    PROVE  /\ \A q, p \in Node : Knows(q, p) => Knows(q, p)'
           /\ Knows(d, src)'
           /\ \A q, p \in Node : p \in peer_list'[q] => p \in peer_list[q] \/ (q = d /\ p = src)
<1>1. peer_list'[d] = peer_list_add(peer_list[d], src) /\ peer_list[d] \in SUBSET Node
  BY DEF TypeOK
<1>2. \A q \in Node : q # d => peer_list'[q] = peer_list[q]
  BY DEF TypeOK
<1>3. /\ peer_list'[d] \in SUBSET Node /\ peer_list[d] \subseteq peer_list'[d]
      /\ peer_list'[d] \subseteq peer_list[d] \cup {src}
  BY <1>1, AddType
<1>4. peer_list_full(peer_list[d]) => peer_list_full(peer_list'[d])
  BY <1>1, <1>3, FullStays
<1>5. \A q, p \in Node : Knows(q, p) => Knows(q, p)'
  BY <1>2, <1>3, <1>4 DEF Knows, peer_list_full
<1>6. Knows(d, src)'
  BY <1>1, AddedOrFull DEF Knows, peer_list_full
<1> QED  BY <1>2, <1>3, <1>5, <1>6

(* The invariant survives every step: an entry is only made on a message   *)
(* whose sender is ready, and nobody stops waiting without making its own. *)
LEMMA ReturnedNext == TypeOK /\ ReturnedInv /\ [Next]_vars => ReturnedInv'
<1> SUFFICES ASSUME TypeOK, ReturnedInv, [Next]_vars
             PROVE  ReturnedInv'
  OBVIOUS
<1>0. \A m \in net : m.dst \in Node /\ m.src \in Node /\ m.peers \in SUBSET Node
  BY DEF TypeOK, Message
<1>r. (\A m \in net : SenderReady(m)) /\ (\A n, p \in Node : Returned(n, p))
  BY DEF ReturnedInv
<1>1. ASSUME NEW n \in Node, Start(n) PROVE ReturnedInv'
  <2>0. /\ peer_list' = peer_list /\ waiting_for_ack_connect' = waiting_for_ack_connect
        /\ \A p \in Node : waiting_for_hello_reply[p] => waiting_for_hello_reply'[p]
    BY <1>1 DEF Start, TypeOK
  <2>1. \A m \in net' : SenderReady(m)'
    <3>2. \A m \in net : SenderReady(m)'
      BY <1>0, <1>r, <2>0 DEF SenderReady, Knows
    <3>3. CASE HasKnownPeer(n)
      <4>1. waiting_for_hello_reply'[n] /\ net' = net \cup {Datagram("HELLO", n, known_peer[n], {})}
        BY <1>1, <3>3 DEF Start, TypeOK
      <4>2. SenderReady(Datagram("HELLO", n, known_peer[n], {}))'
        BY <4>1 DEF SenderReady, Datagram
      <4> QED  BY <3>2, <4>1, <4>2
    <3>4. CASE ~HasKnownPeer(n)
      BY <1>1, <3>2, <3>4 DEF Start
    <3> QED  BY <3>3, <3>4
  <2>2. \A q, p \in Node : Returned(q, p)'
    BY <1>r, <2>0 DEF Returned, Awaits, Knows
  <2> QED  BY <2>1, <2>2 DEF ReturnedInv
<1>2. ASSUME NEW m \in net, m.dst \in Node, m.src \in Node,
             peer_list' = [peer_list EXCEPT ![m.dst] = peer_list_add(@, m.src)],
             \A q, p \in Node : Awaits(q, p) => Awaits(q, p)' \/ Knows(q, p)',
             \A k \in net' : SenderReady(k)',
             Knows(m.src, m.dst) \/ Awaits(m.src, m.dst)
      PROVE  ReturnedInv'
  <2>1. ASSUME NEW q \in Node, NEW p \in Node, p \in peer_list'[q]
        PROVE  Knows(p, q)' \/ Awaits(p, q)'
    <3>1. Knows(p, q) \/ Awaits(p, q)
      BY <1>r, <1>2, <2>1, KnowsStays DEF Returned
    <3> QED  BY <1>2, <3>1, KnowsStays
  <2> QED  BY <1>2, <2>1 DEF ReturnedInv, Returned
<1>3. ASSUME NEW m \in net, Welcomes(m) PROVE ReturnedInv'
  <2> DEFINE n == m.dst
             reply == Datagram("HELLO_REPLY", n, m.src, ReplyPeers(n, m.src))
  <2>1. /\ peer_list' = [peer_list EXCEPT ![n] = peer_list_add(@, m.src)]
        /\ UNCHANGED <<waiting_for_hello_reply, waiting_for_ack_connect>>
        /\ net' \subseteq net \cup {reply} /\ m.type = "HELLO"
    BY <1>3 DEF Welcomes, HelloReplySent
  <2>2. /\ \A q, p \in Node : Knows(q, p) => Knows(q, p)'
        /\ Knows(n, m.src)'
    BY <1>0, <2>1, KnowsStays
  <2>3. \A k \in net : SenderReady(k)'
    BY <1>0, <1>r, <2>1, <2>2 DEF SenderReady
  <2>4. ASSUME NEW peers PROVE SenderReady(Datagram("HELLO_REPLY", n, m.src, peers))'
    BY <2>2 DEF SenderReady, Datagram
  <2>5. Knows(m.src, n) \/ Awaits(m.src, n)
    BY <1>r, <2>1 DEF SenderReady, Awaits
  <2>6. \A q, p \in Node : Awaits(q, p) => Awaits(q, p)'
    BY <2>1 DEF Awaits
  <2>7. \A k \in net' : SenderReady(k)'
    BY <2>1, <2>3, <2>4
  <2> QED  BY <1>0, <1>2, <2>1, <2>5, <2>6, <2>7
<1>4. ASSUME NEW m \in net, TakesReply(m) PROVE ReturnedInv'
  <2> DEFINE n == m.dst
             connects == {Datagram("CONNECT", n, p, {}) : p \in m.peers}
  <2>1. /\ peer_list' = [peer_list EXCEPT ![n] = peer_list_add(@, m.src)]
        /\ waiting_for_hello_reply' = [waiting_for_hello_reply EXCEPT ![n] = FALSE]
        /\ waiting_for_ack_connect' = [waiting_for_ack_connect EXCEPT ![n] = @ \cup m.peers]
        /\ net' \subseteq net \cup connects
        /\ m.type = "HELLO_REPLY" /\ m.src = known_peer[n]
    BY <1>4 DEF TakesReply, check_hello_reply
  <2>2. /\ \A q, p \in Node : Knows(q, p) => Knows(q, p)'
        /\ Knows(n, m.src)'
    BY <1>0, <2>1, KnowsStays
  <2>3. \A q \in Node : /\ waiting_for_ack_connect[q] \subseteq waiting_for_ack_connect'[q]
                        /\ q # n /\ waiting_for_hello_reply[q] => waiting_for_hello_reply'[q]
    BY <1>0, <2>1 DEF TypeOK
  <2>4. m.peers \subseteq waiting_for_ack_connect'[n]
    BY <1>0, <2>1 DEF TypeOK
  <2>5. ASSUME NEW k \in net PROVE SenderReady(k)'
    <3>1. SenderReady(k) /\ k.src \in Node /\ k.dst \in Node
      BY <1>0, <1>r
    <3>2. CASE k.src = n
      BY <2>1, <2>2, <2>3, <3>1, <3>2 DEF SenderReady
    <3>3. CASE k.src # n
      BY <2>2, <2>3, <3>1, <3>3 DEF SenderReady
    <3> QED  BY <3>2, <3>3
  <2>6. \A k \in connects : SenderReady(k)'
    BY <2>4 DEF SenderReady, Datagram
  <2>7. Knows(m.src, n)
    BY <1>r, <2>1 DEF SenderReady
  <2>8. \A q, p \in Node : Awaits(q, p) => Awaits(q, p)' \/ Knows(q, p)'
    BY <2>1, <2>2, <2>3 DEF Awaits
  <2>9. \A k \in net' : SenderReady(k)'
    BY <2>1, <2>5, <2>6
  <2> QED  BY <1>0, <1>2, <2>1, <2>7, <2>8, <2>9
<1>5. ASSUME NEW m \in net, Connects(m) PROVE ReturnedInv'
  <2> DEFINE n == m.dst
             ack == Datagram("ACK_CONNECT", n, m.src, {})
  <2>1. /\ peer_list' = [peer_list EXCEPT ![n] = peer_list_add(@, m.src)]
        /\ UNCHANGED <<waiting_for_hello_reply, waiting_for_ack_connect>>
        /\ net' \subseteq net \cup {ack} /\ m.type = "CONNECT"
    BY <1>5 DEF Connects
  <2>2. /\ \A q, p \in Node : Knows(q, p) => Knows(q, p)'
        /\ Knows(n, m.src)'
    BY <1>0, <2>1, KnowsStays
  <2>3. \A k \in net : SenderReady(k)'
    BY <1>0, <1>r, <2>1, <2>2 DEF SenderReady
  <2>4. SenderReady(ack)'
    BY <2>2 DEF SenderReady, Datagram
  <2>5. Knows(m.src, n) \/ Awaits(m.src, n)
    BY <1>r, <2>1 DEF SenderReady, Awaits
  <2>6. \A q, p \in Node : Awaits(q, p) => Awaits(q, p)'
    BY <2>1 DEF Awaits
  <2>7. \A k \in net' : SenderReady(k)'
    BY <2>1, <2>3, <2>4
  <2> QED  BY <1>0, <1>2, <2>1, <2>5, <2>6, <2>7
<1>6. ASSUME NEW m \in net, TakesAck(m) PROVE ReturnedInv'
  <2> DEFINE n == m.dst
  <2>1. /\ peer_list' = [peer_list EXCEPT ![n] = peer_list_add(@, m.src)]
        /\ waiting_for_ack_connect' = [waiting_for_ack_connect EXCEPT ![n] = @ \ {m.src}]
        /\ UNCHANGED waiting_for_hello_reply
        /\ net' \subseteq net /\ m.type = "ACK_CONNECT"
    BY <1>6 DEF TakesAck
  <2>2. /\ \A q, p \in Node : Knows(q, p) => Knows(q, p)'
        /\ Knows(n, m.src)'
    BY <1>0, <2>1, KnowsStays
  <2>3. \A q, p \in Node :
           p \in waiting_for_ack_connect[q] => p \in waiting_for_ack_connect'[q] \/ Knows(q, p)'
    BY <1>0, <2>1, <2>2 DEF TypeOK
  <2>4. \A k \in net' : SenderReady(k)'
    BY <1>0, <1>r, <2>1, <2>2, <2>3 DEF SenderReady
  <2>5. Knows(m.src, n)
    BY <1>r, <2>1 DEF SenderReady
  <2>6. \A q, p \in Node : Awaits(q, p) => Awaits(q, p)' \/ Knows(q, p)'
    BY <2>1, <2>3 DEF Awaits
  <2> QED  BY <1>0, <1>2, <2>1, <2>4, <2>5, <2>6
<1>7. CASE Quiet
  BY <1>7, <1>r DEF Quiet, ReturnedInv, SenderReady, Returned, Awaits, Knows
<1> QED  BY <1>1, <1>3, <1>4, <1>5, <1>6, <1>7, Steps

(* Whatever is lost, duplicated, overtaken or turned down: who is in a     *)
(* peer list knows the owner of the list, has no room for it, or awaits    *)
(* the message that tells it.                                              *)
THEOREM KnowledgeIsReturned == Spec => []KnowledgeReturned
<1>1. Init => ReturnedInv
  BY DEF Init, ReturnedInv, Returned
<1>2. ReturnedInv => KnowledgeReturned
  BY DEF ReturnedInv, Returned, KnowledgeReturned
<1> QED  BY <1>1, <1>2, TypeCorrect, ReturnedNext, PTL DEF Spec

-----------------------------------------------------------------------------
(* The handlers treat the lists the way PeerSync relies on: at most one    *)
(* peer joins at a time, never the node itself, and none leaves.           *)
THEOREM PeersJoinOnly == Spec => PeersOnlyJoin
<1> DEFINE Joins(n) == \/ peer_list'[n] = peer_list[n]
                       \/ \E p \in Node \ {n} : peer_list'[n] = peer_list[n] \cup {p}
<1>1. ASSUME TypeOK, [Next]_vars PROVE \A n \in Node : Joins(n)
  <2>1. ASSUME NEW q \in Node, NEW p \in Node, p # q,
               peer_list' = [peer_list EXCEPT ![q] = peer_list_add(@, p)]
        PROVE  \A n \in Node : Joins(n)
    BY <1>1, <2>1 DEF peer_list_add, TypeOK
  <2>2. ASSUME NEW k \in Node, Start(k) PROVE \A n \in Node : Joins(n)
    BY <2>2 DEF Start
  <2>3. ASSUME NEW m \in net, Welcomes(m) \/ TakesReply(m) \/ Connects(m) \/ TakesAck(m)
        PROVE  \A n \in Node : Joins(n)
    <3>1. m.dst \in Node /\ m.src \in Node
      BY <1>1 DEF TypeOK, Message
    <3>2. /\ peer_list' = [peer_list EXCEPT ![m.dst] = peer_list_add(@, m.src)]
          /\ m.src # m.dst
      BY <2>3 DEF Welcomes, TakesReply, check_hello_reply, Connects, TakesAck
    <3> HIDE DEF Joins
    <3> QED  BY <2>1, <3>1, <3>2
  <2>4. CASE Quiet
    BY <2>4 DEF Quiet
  <2> HIDE DEF Joins
  <2> QED  BY <1>1, <2>2, <2>3, <2>4, Steps
<1>2. TypeOK /\ [Next]_vars
        => [\A n \in Node : \/ peer_list'[n] = peer_list[n]
                            \/ \E p \in Node \ {n} : peer_list'[n] = peer_list[n] \cup {p}]_vars
  BY <1>1
<1> QED  BY <1>2, TypeCorrect, PTL DEF Spec, PeersOnlyJoin

=============================================================================
