# Verification of the computer-networks projects

The repository holds two programs: `peer-time-sync`, nodes that synchronise
their clocks over UDP, and `the-great-approximator`, a game with a TCP server
and clients. This directory holds TLA+ models of both, the TLC runs that check
them on small instances and TLAPS proofs for instances of any size.
`PROJECT.json` lists, for every definition that models code, the lines it
models.

## 1. Inventory

### peer-time-sync

| part | source | state | operations |
|---|---|---|---|
| main loop | `main.c` | the socket with a receive timeout of 1 s | first HELLO, then for ever: timers, one datagram or a timeout |
| membership | `messages.c`, `peers.cpp` | `peer_list`, `waiting_for_hello_reply`, `waiting_for_ack_connect`, bounded sets of addresses | HELLO, HELLO_REPLY, CONNECT, ACK_CONNECT |
| synchronisation | `messages.c`, `node_data.h` | level, offset, upstream peer, timers, the handshake under way | SYNC_START, DELAY_REQUEST, DELAY_RESPONSE, LEADER, timers |
| clocks | `clock.c` | the start time | natural clock, synchronised clock, deadlines, offset |
| sockets, arguments, errors | `networking.c`, `arg_parser.c`, `err.c` | none the protocol sees | set-up, reporting |

Nodes only interact by datagrams, which get lost, come twice and overtake each
other. A node is single threaded. Hard here: a LEADER command or a silent peer
in the middle of a handshake, stale and uninitialised fields of `NodeData`,
one byte of levels, two units of time, and one-sided knowledge of peers.
Right means: levels, timers and the upstream peer are valid whenever they are
used; an offset accounts for latency; a silent peer is noticed in time; who is
known knows back; no list overflows.

### the-great-approximator

| part | source | state | operations |
|---|---|---|---|
| poll loop | `approx-server.cpp` | `poll_fds`, `client_buffers`, loop index | accept, read, write, disconnect, reset |
| game logic | `server_logic.cpp` | `players`, `total_correct_puts`, `stopping`, the coefficients file | HELLO, PUT, answers, scoring, reset |
| event manager | `server_events.cpp` | callbacks by deadline | `add_event`, `check_timers`, `reset` |
| client | `client_logic.cpp`, `ts_queue.h` | `game_over`, two message queues, `puts_without_answer`, its approximation, a log queue | strategy, receiver, sender, processor and log threads |
| message parser | `msg_parser.cpp` | none | text to message and back |
| sockets, arguments, errors | `networking.cpp`, `arg_parser.cpp`, `err.cpp` | none | set-up, reporting |

The server is one thread around `poll()`; its callbacks run between `poll()`
and the reads. The client has six threads that share queues and an atomic
flag. Hard here: descriptors that are reused while callbacks for the last
client are still scheduled, an index and a reference into a vector that is
erased from, delayed answers that interleave with early and bad PUTs, partial
writes, clients that leave in the middle of a game, and in the client the end
of the connection racing the last message, a private copy of what the server
holds, and text that arrives in pieces. Right means: the structures stay in
step, no answer goes to the wrong client, every PUT is answered and charged
once, the count that ends the game is right, a finished game gives way to a
new one; the client counts its unanswered PUTs, makes the best one each time,
prints its log, and ends; what one end writes the other understands.

The full list of hazards, at their lines and with the properties aimed at
them, is `hazards` in `PROJECT.json`.

## 2. Modules

| module | models | state and actions |
|---|---|---|
| `ApproxRules` | `constants.h`, the range of a PUT, polynomial and score | operators only; server and client use it |
| `ApproxSession` | what the server promises one client | Lines sent, answers given and the server's view of the client; one action for each way a line is taken, `Answer`, `GameOver`, `Close`. No timers, descriptors or other players. |
| `ApproxServer` | poll loop, game logic, event manager | Variables carry the names of the code. `pc` says where a turn of the loop is; each handler is an action (`ReadHello`, `ReadPut`, `Accept`, `Write`, `HelloTimeout`, ...). Clients are an environment. |
| `ApproxClient` | threads and queues of the client, the automatic strategy | `pc[t]` per thread; a step is what a thread does between two operations another thread can see. The server is an instance of `ApproxSession`. |
| `MsgParser` | `msg_parser.cpp` | operators only: `createMessage` and `getRawMessage` for every type |
| `ApproxWire` | lines on a connection | `Send` writes a message, `SendRaw` the PUT of any other program, `Recv` hands over any number of symbols; the receiver cuts its buffer into lines and parses them |
| `PeerMembership` | membership, peer lists | The lists as sets, one action per message handler, `Start` for `main()` up to its loop. |
| `PeerSync` | synchronisation, clocks, main loop | `node[n]` is the `NodeData` of `n`; one action per message handler, one for the timers and `OtherDatagram` for all other messages. Time is one counter of milliseconds. |
| `MC...` | | values for the constants of the runs; `MCApproxRounds` also adds to `ApproxServer` the history of how many correct PUTs a game has seen |
| `PeerSyncProofs`, `PeerMembershipProofs` | | theorems about the two peer modules |
| `ApproxServerProofs`, `ApproxAnswerProofs`, `ApproxLedgerProofs`, `ApproxSessionProofs` | | theorems about `ApproxServer`, the last one its refinement of `ApproxSession`; each extends the one before |
| `ApproxRulesProofs` | | lemmas about sums, powers, squares, the first largest element, and sequences |
| `ApproxClientProofs` | | theorems about `ApproxClient` |

### How the modules fit together

* **Server and session.** `ApproxServer` implements `ApproxSession` for every client
  address. The mapping (`SessionSeat`, `SessionRequests`, `SessionAnswers`) finds the client's
  descriptor among `players`; the requests are what is in `client_buffers` and in the kernel's
  queue, the answers are the player's queued messages, what is owed are
  the callbacks that will still pass their check, and a connection that is closed
  or whose process has ended is a closed session. `ServesSessions` says that every step
  of the server is a step of each session or leaves it alone; both big server runs check it, and
  `SessionsAreServed` proves it for any number of clients.
* **Client and session.** `ApproxClient` plays against `ApproxSession` itself, so what
  is shown of the client holds against any server that keeps the promise, and
  `ApproxServer` is proved to. The composition of the two full models would have far too many states.
* **Membership and synchronisation.** `PeerSync` has growing peer lists and takes the
  membership messages for what `PeerMembership` guarantees of them: `PeersOnlyJoin`, a
  list gains at most one peer per message, never its owner, and loses none. That guarantee is
  checked and proved there (`PeersJoinOnly`) and is the second disjunct of
  `OtherDatagram` here. The handlers of either group touch no field of the other.

Definitions named `X_Something` next to a definition `X` are plausible mistakes
in it. Each property was seen to fail with one of them in place of `X`
(`mutants` in `PROJECT.json`); no specification uses them.

### Abstractions

* Numbers: the programs compute with doubles, the models with integers. Every number in a
  message has at most seven digits behind the point, so all are multiples of one unit;
  an instance calls that unit 1. The tolerance `eps` is smaller than a unit and plays
  no part. Rounding in sums of doubles, negative zero and numbers `stod` cannot hold are
  left out. Where the width of an `int` matters it is a constant, `IntBits`.
* Server: a line is HELLO with a name, PUT with a point and a value, or JUNK, which
  is everything `MsgParser` refuses or the server does not expect. A message that was
  written in part keeps only a flag, `rest`. Player
  coefficients are the number of the line of the file. Scores are not computed.
  `due` counts seconds; a Tick needs `poll()` to have served what was due.
  Clients act while the server is in `poll()`, as a later `poll()` reports what
  they did meanwhile; they may also hang up just before a `send()`, which meets
  the connection as it is. `send()` on a connection the client closed may end the
  process: nothing in the code ignores SIGPIPE. The build defines `NDEBUG`, so
  asserts are not there and `players.at()` throws (`WriteToListener`). An address (ip, port) connects
  once: the check of a callback (`server_logic.cpp:220`) compares descriptor, address and name, so one for
  a client that left would be taken as live if the same address came back on the same descriptor under the same name
  before its deadline. That is left out, of the runs and of the theorems. After a client
  is dropped inside the read, `pollfd` may refer behind the end of the vector; the
  bytes there are still those of the dropped client, which was never polled for
  POLLOUT, so nothing is written (`WriteWanted`).
* Client: a log line is only told from another by whether the game was over when it was
  queued. A batch of input lines is taken one at a time. An answer is its type: the client does not use
  the numbers of a STATE, only how many there are. Waits that time out are no steps.
* MsgParser, ApproxWire: a character is a symbol, and so are the name of a command, CR and LF.
  The score in a SCORING is one that can be written exactly; the server rounds it when it writes.
* PeerSync: handling a message takes no time, so
  T2 = T3; fields that are dead outside a handshake are forgotten after it, to
  have fewer states. `shift` and `measured` record the true distance of clocks
  for `SyncAccuracy`. `Garbage` is what an uninitialised address may happen to be.
  Datagrams in flight are a set: two equal ones are one, and a duplicate is a
  delivery that leaves the datagram where it is. All datagrams come from nodes that run this program, so
  the check of the level on receipt (`messages.c:353`) is modelled but never refuses one: it is the check before sending
  that bounds the levels.
* PeerMembership: a node has one address. A datagram that comes before its addressee has bound its port is
  gone (`Unheard`), without counting as lost; one still on its way by then is received. The awaited ACK_CONNECTs are
  added without a test for room: the list is filled once, from a HELLO_REPLY of at most 9357 addresses, and
  holds 65535 (`MaxDatagramPeers <= MAX_CAPACITY`; that it never overflows is part of
  `CapacityRespected`). The send buffer has room for `MaxReplyPeers` addresses
  and a datagram for `MaxDatagramPeers`, fewer: above that `sendto()` fails, is reported, and the
  sender of the HELLO stays in the list without an answer.

## 3. Runs

Bounds are constants named `Max...`; they are guards of actions. Model values
and small sets stand for addresses, names and points.

| run | bounds | shows |
|---|---|---|
| `ServerPlayer` | 2 clients, 1 descriptor, 4 lines, 2 PUTs per game, delay 3 s, 1 line of coefficients | answers: order, number, charge, content; the session is kept |
| `ServerTurn` | 2 clients, 2 descriptors, 3 lines | accounting of PUTs, structures in step, nobody wedged, no answer astray; the session is kept |
| `ServerLive` | 1 client, 4 lines, 2 PUTs per game, good and bad PUTs | silent client dropped, PUTs answered, game restarted |
| `PeerSync` | 2 nodes, 4 ms, 2 commands, losses, 1 duplicate, levels 0..3 | validity of levels, timers, upstream peer and clock; accuracy; timers heeded |
| `PeerMembership` | 6 nodes of which any number starts, in any order; lists of 3, a buffer for 2 addresses, a datagram for 1; 1 loss, 1 duplicate | capacity; nobody known behind its back, nobody its own peer, peers only join; the mesh forms if the common peer is up first and nothing is lost |
| `Client` | both strategies, 2 PUTs, points 0..2, 8-bit ints | counting of PUTs, no penalty, the copy of the approximation, best PUT, logs, the client plays on and ends |
| `Wire` | 2 messages of 8, or one PUT line of up to 5 symbols out of 6; 1 fractional digit, 5-bit ints | what is sent is understood, at once, and can be sent again |

Two clients are enough for reuse of a descriptor and for the shift of
`poll_fds`; four lines from one client reach HELLO, early, bad and good PUTs
with answers of both kinds outstanding, and the end of the game. Two PUTs of the client
reach the one it makes before it knows K and one after the STATE that tells it; its
polynomial takes -6, -3 and 6 over the points, so that the first difference is cut to 5 and the largest error
then is at a point that was unknown at first. The symbols of `Wire` make every kind of well-formed and
malformed number, with missing or double signs, points, digits and spaces, and a CR
inside a line; a five-bit `int` overflows at two digits as the real one does at ten. A second is a
millisecond in the PeerSync runs, so that a handshake, its timeout and a
re-election all fit into the time bound. `CLOCK_UNSYNCHRONIZED` is 3 or 4 instead of 255:
the theorems hold for every value above 2. In `PeerMembership` three nodes ask the same
one, which itself asks a fourth: its list is full when the last of the four comes to be added, whether by its HELLO or its HELLO_REPLY, and to the third asker
`sendto()` of the HELLO_REPLY fails. `MeshForms` is there about the node that is asked and two that ask it, each of which can be told of
the other. The fourth was told its own address, and a sixth node none. The peer runs and `Wire` do not check for
deadlock, as they stop at the time bound or when nothing is left in flight.

Violations, each of a statement the repository makes (`findings` in
`PROJECT.json` quotes it):

| run | what happens |
|---|---|
| `ServerListener` | a client dropped for its first line makes the loop write to the listening socket |
| `ServerLeaver` | a client makes a PUT and leaves: the game goes on after M correct PUTs were processed, of which the repository's README says that they end it. `PutAccounting` states the count the code keeps |
| `PeerSyncStuck` | the deadline for a DELAY_RESPONSE is never looked at |
| `PeerSyncLeader` | a node that becomes leader in the middle of a handshake is put on level 1 by the DELAY_RESPONSE |
| `ClientScoring` | a received SCORING is thrown away and reported as a disconnect |

The models also have these behaviours of the code, which no run singles out:

* HELLO is sent once. A node that is started before its known peer may send it to an unbound port and stays alone
  until somebody else is told of it: `MeshForms` fails without the hypothesis of `ComeInThrough` that the one asked is running.
* A leader that was synchronised to a peer before becomes unsynchronised by a SYNC_START of that peer
  (`messages.c:388`), the other way for a leader to lose its place beside the one `PeerSyncLeader` shows.
* A duplicated DELAY_REQUEST is answered twice, and the second answer can be taken in the next handshake; `SyncAccuracy` is
  about offsets while no datagram has come twice, and fails without that.
* A closed connection with messages pending can end the server by SIGPIPE (`ResetKilled`,
  `WriteKilled`); `GameRestarts` allows for it.
* `handle_delay_request` adds DELAY_RESPONSE_TIME, which is seconds where the requester sets its own
  deadline (`messages.c:410`), to a time in milliseconds (`messages.c:428`). With the constants of the build, a
  request that comes more than a few milliseconds after the SYNC_START is ignored (`Answerable`), and
  the requester then waits for ever (`PeerSyncStuck`).
* The client takes powers as `int` (`poly_at`), the server as `double`. With large points the powers
  wrap around and the client approximates another polynomial than the server scores; `BestPutTaken` then
  fails (with `IntBits = 3` already in the run's instance), which is why its theorem has the hypothesis `PowersFit`.
* A HELLO_REPLY that fits the buffer and not a datagram is never sent: the node asked knows the one
  that asked, which knows nobody and does not ask again.
* The strategy thread of a manual client runs before HELLO is queued and can send a
  PUT first; the server then drops the client.
* After a change of leader two nodes can be synchronised to each other until a timer
  or an offer breaks the pair up.

### Fairness

* `ApproxServer!FairSpec`: weak fairness of the server's loop (the process is
  scheduled, no call in it blocks for ever) and strong fairness of Tick: time
  passes, and Tick is only enabled in `poll()`, which the loop comes back to.
  Nothing is assumed of clients, nor of `send()` having room.
* `PeerMembership!FairSpec`: a datagram in flight to a running node is handled in the end, unless it is
  lost: the main loop returns to `recvfrom`, which nothing but a datagram or its timeout ends. Which nodes are
  started, and when, is left open; `MeshForms` is about those that are.
* `ApproxClient!FairSpec`: each thread is scheduled; every wait in them has a
  timeout (200 ms in the queues and `poll()`, SO_RCVTIMEO on the socket). Of the server it is
  assumed that it takes lines and gives the answers it owes while the connection is open, which
  `PutAnswered` shows of `ApproxServer`; not that it ever ends a game or a connection.

## 4. Proofs

`tlapm` checks every theorem below, for any set of nodes, clients, descriptors, points, names
and coefficients, any delays and any bounds. The assumptions are those the modules name, which the runs
evaluate: `SyncAssumption` (types of the constants, at least three levels), `MembershipAssumption` (types, finitely many
nodes, a datagram lists no more addresses than a list can hold), `RulesAssumption` and `ServerAssumption` (types, at least one PUT per game),
`ClientAssumption` (types, somebody to introduce, an `int` of at least one bit). No set but that of the
nodes in `PeerMembership` is assumed to be finite.

`PeerSyncProofs`:

* `TypeCorrect`, `LevelsHaveRoom`. Types alone are not inductive: that a level
  plus one is still a level needs `LevelsLeaveRoom`, so the two are proved as one
  invariant, `TypeAndLevels`.
* Peer lists grow in the model; the lemma `PeersCome` says they never shrink, which is what
  keeps a handshake and an upstream peer valid through every other step.
* `TimersAlwaysArmed`, `AlwaysFollowsPeer`, `ClockNeverStuck`. `SoundInv` adds what
  ties a handshake to the node: a node that is synchronizing does so with one of its peers,
  and T2 and T3 are equal and in the past; a timestamp in flight is
  not negative, so no offset exceeds the clock it is computed from.
* `TimersAlwaysHeeded`. `HeededInv` relates the deadlines to `wake`: a node that waits in
  `recvfrom` wakes up within a second of a deadline it has looked at, and time does not pass a node
  that is not waiting.
* `SyncIsAccurate`. `AccuracyInv` says that timestamps in flight were taken in the past, and,
  while nothing was duplicated, that a handshake has at most one DELAY_REQUEST or
  DELAY_RESPONSE under way. The response then belongs to the handshake it is used in,
  and the bound is arithmetic.

`PeerMembershipProofs`:

* `TypeCorrect`; `OwnPeerNever` (with the lists of HELLO_REPLYs in flight);
  `CapacityKept`. `CapacityInv` adds that a HELLO_REPLY in flight is no longer than a datagram can be (`ShortReplies`) and that nothing
  is awaited before the HELLO_REPLY has come (`NothingAwaitedYet`): the one call of `peer_list_add` whose result nobody looks at
  therefore finds an empty list and has room for all.
* `PeersJoinOnly`, the action property `PeersOnlyJoin` that `PeerSync` builds on, from the types of
  the datagrams and the checks of the sender in the handlers.
* `KnowledgeIsReturned`. `ReturnedInv` adds that the sender of each datagram in flight
  is itself ready for the one it is addressed to, so that whoever adds a peer on receipt is
  known or awaited by it, or was turned down by a full list. Since lists only grow, who knows a node, or
  has no room for it, does so for ever (`KnowsStays`); that lists have room need not be assumed.

`ApproxServerProofs`:

* `TypeCorrect`, `PollIsMirrored`. That the loop reads the descriptor it means needs both: the type of
  `poll_fds` after `erase` depends on `i` being inside it, which depends on `poll_fds`
  and `players` being in step. `TypeInv` is `TypeOK` with `PollMirrorsPlayers`, with `Index`
  (`i` is where `pollfd` points, or one less after a client was dropped in the read), and with `KnownHasId`. The lemmas
  `EraseProperties`, `InsertProperties` and `AddEventProperties` say what the two containers do.
* `Steps` sorts every step of the poll loop by what it does to the game: `Quiet`, `Restarts`, or one of
  `Plays`. It needs `StoppedHere` (a game that is over is not played on in the same turn). All later proofs
  look at the few steps of `Plays` only.

`ApproxAnswerProofs`:

* `AddrInv` adds that players have different addresses, all of open connections (`Seats`), that
  a callback names a connection that was accepted (`Callbacks`), and that nothing was sent to an address before that
  (`SilentBefore`). An inherited descriptor is told from its last owner by the address alone.
* `QueueSteps` says that in each step the queue of a player is new, the same, one message longer, one shorter or
  begun. `NoAnswerStrays`, `RestStaysFirst` and `ScoringComesLast` are one induction each over these.

`ApproxLedgerProofs`:

* `CoefficientsComeFirst`, `LedgerIsBalanced`, `NobodyIsForgotten`. `SeatSteps` (one lemma per action) does for a player's account what `QueueSteps`
  does for its queue: what it heard (sent and queued), what waits for it in the multimap of callbacks
  and what it is charged change together. `Introduced`, `Ledger` and `Timed` are then inductive. Counting rests on
  `CountShift`: inserting one element anywhere in a sequence adds one to the count of its kind and nothing else.
* `PutsAreAccounted`. `CountedPuts` has one element per correct PUT of a player that is there; a PUT
  adds one, a disconnect takes those of one player away, and a reset all. The total equals its
  cardinality, and `stopping` is set exactly at M.
* `NewestStateHolds`. A STATE carries the approximation as it was when its PUT was taken, so the newest one must be
  the one of the last PUT, wherever it is. That does not follow from the property alone: a new STATE is inserted into the multimap
  by its deadline, and it is the last of its player only because the events are in the order of their deadlines (`Ordered`) and no STATE
  scheduled before is due later than the delay of its player from now (`Prompt`). With these two, `Current` is inductive:
  inserting behind all others makes the new one the newest, and the one a timer takes out goes
  to the end of the player's queue.

`ApproxSessionProofs`:

* `SessionsAreServed`, the refinement. `Views` says what a session is in each of the states an address can be in: that of a
  player, that of a client the server has not accepted yet, and that of one whose connection is closed or whose server has ended. Most steps leave the view of an address as it is
  (`SameSession`, `KeptSession`); each of the others is one lemma that names the step of `ApproxSession`
  it is (`HelloSession`, `PutSession`, `AnsweredSession`, `SentSession`, `WatchingSession`, ...), from the seat steps of `ApproxLedgerProofs`.
  `NoInput` (nobody is heard before it connects), `PlayersStay` (a player keeps its descriptor and its
  address until its connection is closed, and a new player is one just accepted) and `EndedStays` make sure that a session that is over does not start again.

`ApproxRulesProofs` holds what the client's proofs need of the operators: a sum of integers is an integer,
a sum of nothing is 0 and of one number that number, changing one term changes the sum by as much, a power is an integer and
one of two positive, a set of points has a first largest difference, and how much of a square one PUT can take off. Where an induction would be needed the lemma takes the smallest counterexample.

`ApproxClientProofs`, against any server that keeps the promise of `ApproxSession`:

* `Outbound` and `Inbound` are all messages under way in either direction, in the order they will arrive, wherever they are:
  in a thread's hands, in a queue, on the wire. Passing one on from a queue to a thread, or from there to the socket, leaves them
  as they are (`Quiet`), so that of all steps of the six threads only those matter that put a message in or take one out.
* `InvariantHolds`: `ClientInv` is inductive. Its part `Turn` says that the auto client is always in one
  of seven phases, from introducing itself over choosing and putting to having its STATE under way; each phase fixes
  what is under way, the counter, where the strategy is, and what the server thinks of the client. `CopyIsRight`
  compares the copy with the server's approximation at all points; one the client does not know yet is
  0 on both sides, which the growth of the copy at the first STATE relies on.
* `TypeCorrect`, `NoPenalty`, `CountIsRight` and `CopyIsExact` follow from it.
* `BestPutIsTaken`, for polynomials whose powers fit an `int` (`PowersFit`; TLC evaluates it on the instance of the `Client` run).
  The choice is made on the client's copy and scored on the server's approximation, steps later. `PutIsBest` says that the PUT under way
  is the largest difference, cut to what a PUT may carry, of the approximation it will meet. It needs `CopyIsRight` at the moment of the choice, and
  `Learnt`: once the server has an approximation other than zero, all points are known, or the STATE that tells them
  is owed or under way. That this choice is best for the sum of squares is `BestOfAll`: a PUT changes one term
  (`ErrorOfPut`), and no term can be made to shrink by more than the largest one (`BestGain`).
* `NothingUnprinted` has an invariant of its own, `PrinterInv`: the printer takes its last look at
  the queue after the game is over, and what is queued then is late.

Only model-checked:

* liveness (`PutAnswered`, `GameRestarts`, `SilentClientLeaves`, `MeshForms`, `PlaysOn`, `ClientEnds`), which
  needs fairness and ENABLED;
* `Understood`, `NoLineWaits` and `CanBeSaidAgain`: `MsgParser` and `ApproxWire` are about folds over all texts.

## 5. Not modelled

* Program arguments of both programs, name resolution, binding, connecting and socket options: each
  runs once, before the loops, and any error in it ends the process; what it yields are the
  constants of the models.
* The numbers in SCORING: the score is a sum of squares over the server's own data that nothing reads
  again. `ApproxRules` defines it, for the client's choice.
* A coefficients file with malformed lines: it is the operator's input.
* Floating-point rounding, see the abstractions.
* Error and log texts.
* Several addresses of one node.

## 6. Plan

1. `ApproxServer`, `PeerSync`, `PeerMembership`, `ApproxClient`, their runs and the
   proofs of the two peer modules (done).
2. `ApproxSession` and the refinement; the client against it, with the log printer and the choice of
   the best PUT; growing peer lists; the parser and the wire (done).
3. Proofs for `ApproxServer` and `ApproxClient`: the types and all safety invariants (done).
4. The refinement of `ApproxSession` by `ApproxServer`, step by step, and `BestPutTaken` for powers that fit an `int` (done).
   What is left to TLC is out of the provers' reach; see the end of section 4.
