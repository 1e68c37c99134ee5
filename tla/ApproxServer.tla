---------------------------- MODULE ApproxServer ----------------------------
(***************************************************************************)
(* The game server of the-great-approximator: the poll loop of             *)
(* approx-server.cpp, the game logic of server_logic.cpp and the timers of *)
(* server_events.cpp, with the clients as an environment that connects,    *)
(* sends lines and disconnects as it likes.                                *)
(*                                                                         *)
(* The server is single threaded.  One turn of its loop is                 *)
(*   poll -> timers -> accept -> clients (read, write per client) -> poll  *)
(* and each arrow is a step here.  What clients do while the server is in  *)
(* the middle of a turn is only seen by a later poll(), so clients act     *)
(* when the server sits in poll().  The exception is send(), which meets a *)
(* connection as it is by then: a client may also hang up before a write.  *)
(***************************************************************************)
EXTENDS ApproxRules, FiniteSets

CONSTANTS
    FD,          \* descriptors the process may still open for clients
    Addr,        \* client addresses (ip, port); each is used for one connection
    Delay,       \* Delay[id] = number of lower-case letters of id
    M,           \* correct PUTs that end a game
    CoeffLines,  \* lines in the coefficients file
    MaxLines     \* bound: lines the clients send, all together

ASSUME ServerAssumption ==
    /\ FD \subseteq Nat
    /\ Delay \in [PlayerId -> Nat]
    /\ M \in Nat \ {0}
    /\ CoeffLines \in Nat /\ MaxLines \in Nat

VARIABLES
    conn,                \* kernel: the TCP connection of each address
    sent,                \* lines sent so far, for the bound MaxLines
    players,             \* ServerLogic::players, fd -> PlayerInfo
    total_correct_puts,  \* ServerLogic::total_correct_puts
    stopping,            \* ServerLogic::stopping
    coeff_file,          \* lines read so far from the coefficients file
    events,              \* EventManager::events, in deadline order
    poll_fds,            \* descriptors of poll_fds[1..], without the listener
    pollout,             \* descriptors polled for POLLOUT
    revents,             \* what the last poll() reported per descriptor
    client_buffers,      \* complete lines read and not yet handled
    pc,                  \* where the server is in its loop
    i,                   \* the loop index of main(); 0 is the listening socket
    slot,                \* the element the reference pollfd of main() denotes
    got                  \* history: what the client of an open connection was sent

gameVars == <<players, total_correct_puts, stopping, coeff_file, events>>
pollVars == <<poll_fds, pollout, revents, client_buffers>>
vars == <<conn, sent, gameVars, pollVars, pc, i, slot, got>>

-----------------------------------------------------------------------------
(* A queued answer.  "owner" is the address whose request it answers,      *)
(* "approx" the state a STATE reports, and "rest" tells that only the tail *)
(* of the text is left to write.                                           *)
Answer == [type : AnswerType, owner : Addr, approx : Approximation, rest : BOOLEAN]
MakeAnswer(type, owner, approx) ==
    [type |-> type, owner |-> owner, approx |-> approx, rest |-> FALSE]

UNKNOWN == "UNKNOWN"
PlayerInfo ==
    [id : PlayerId \cup {UNKNOWN}, addr : Addr, messages : Seq(Answer),
     approximations : Approximation, coefficients : 0..CoeffLines, penalty : Nat,
     is_known : BOOLEAN, correct_puts : Nat, can_put : BOOLEAN]

NewPlayer(addr) ==
    [id |-> UNKNOWN, addr |-> addr, messages |-> <<>>,
     approximations |-> Zeros, coefficients |-> 0, penalty |-> 0,
     is_known |-> FALSE, correct_puts |-> 0, can_put |-> FALSE]

(* A scheduled callback with what its closure captured; "due" is the time  *)
(* left to its deadline.                                                   *)
EventKind == {"HELLO", "BAD_PUT", "STATE"}
Event == [kind : EventKind, due : Nat, fd : FD, addr : Addr,
          id : PlayerId \cup {UNKNOWN}, approx : Approximation]

Connection == [st : {"new", "backlog", "open", "closed"},
               inq : Seq(ClientLine), fin : {"no", "fin", "rst"}]

-----------------------------------------------------------------------------
(* poll_fds.erase(poll_fds.begin() + k); s does not hold the listener.     *)
(* The mutant counts from the wrong end of the listener.                   *)
Erase_OffByOne(s, k) == SubSeq(s, 1, k) \o SubSeq(s, k + 2, Len(s))
Erase(s, k) == SubSeq(s, 1, k - 1) \o SubSeq(s, k + 1, Len(s))

(* EventManager::add_event: a multimap keeps equal deadlines in insertion  *)
(* order, so the new event goes behind those due no later.                 *)
NotLater(evs, ev) == {k \in DOMAIN evs : evs[k].due <= ev.due}
InsertBehind(evs, ev, k) == SubSeq(evs, 1, k) \o <<ev>> \o SubSeq(evs, k + 1, Len(evs))
(* Mutant: a map, where a second event of the same deadline is lost.       *)
add_event_Map(evs, ev) ==
    IF \E k \in DOMAIN evs : evs[k].due = ev.due THEN evs
    ELSE InsertBehind(evs, ev, Cardinality(NotLater(evs, ev)))
add_event(evs, ev) == InsertBehind(evs, ev, Cardinality(NotLater(evs, ev)))

is_client_connected(fd) == fd \in DOMAIN players
(* Mutant: any client on the descriptor will do. *)
validate_client_AnyAddr(fd, addr) == is_client_connected(fd)
validate_client(fd, addr) == is_client_connected(fd) /\ players[fd].addr = addr
has_pending_messages(fd) == players[fd].messages # <<>>

append_message_back(player, answer) == [player EXCEPT !.messages = Append(@, answer)]
(* Mutant: the rest of a message goes behind what was queued meanwhile.    *)
append_message_front_Back(queue, answer) == Append(queue, answer)
append_message_front(queue, answer) == <<answer>> \o queue

-----------------------------------------------------------------------------
Init ==
    /\ conn = [a \in Addr |-> [st |-> "new", inq |-> <<>>, fin |-> "no"]]
    /\ sent = 0
    /\ players = [fd \in {} |-> NewPlayer(fd)]
    /\ total_correct_puts = 0
    /\ stopping = FALSE
    /\ coeff_file = 0
    /\ events = <<>>
    /\ poll_fds = <<>>
    /\ pollout = {}
    /\ revents = [fd \in FD |-> {}]
    /\ client_buffers = [fd \in FD |-> <<>>]
    /\ pc = "poll"
    /\ i = 1
    /\ slot = 1
    /\ got = [a \in Addr |-> <<>>]

-----------------------------------------------------------------------------
(* The clients and the passing of time. *)

Connect(a) ==
    /\ pc = "poll" /\ conn[a].st = "new"
    /\ conn' = [conn EXCEPT ![a].st = "backlog"]
    /\ UNCHANGED <<sent, gameVars, pollVars, pc, i, slot, got>>

SendLine(a, line) ==
    /\ pc = "poll" /\ conn[a].st = "open" /\ conn[a].fin = "no"
    /\ sent < MaxLines
    /\ sent' = sent + 1
    /\ conn' = [conn EXCEPT ![a].inq = Append(@, line)]
    /\ UNCHANGED <<gameVars, pollVars, pc, i, slot, got>>

(* A closed connection is read as end of file, a reset raises POLLHUP. *)
Hangup(a, how) ==
    /\ pc \in {"poll", "write"} /\ conn[a].st = "open" /\ conn[a].fin = "no"
    /\ conn' = [conn EXCEPT ![a].fin = how]
    /\ UNCHANGED <<sent, gameVars, pollVars, pc, i, slot, got>>

(* One second passes.  poll() waits at most 100 ms, so no event that is    *)
(* due is left waiting for a whole second.                                 *)
Tick ==
    /\ pc = "poll" /\ ~stopping
    /\ events # <<>>
    /\ \A k \in DOMAIN events : events[k].due > 0
    /\ events' = [k \in DOMAIN events |-> [events[k] EXCEPT !.due = @ - 1]]
    /\ UNCHANGED <<conn, sent, players, total_correct_puts, stopping, coeff_file,
                   pollVars, pc, i, slot, got>>

-----------------------------------------------------------------------------
(* One turn of the loop. *)

Closed(a) == [conn EXCEPT ![a] = [@ EXCEPT !.st = "closed", !.inq = <<>>]]

(* Mutant: the PUTs of a client that leaves still count. *)
handle_client_disconnect_KeepsPuts(fd) ==
    /\ players' = [f \in DOMAIN players \ {fd} |-> players[f]]
    /\ UNCHANGED total_correct_puts
handle_client_disconnect(fd) ==
    /\ total_correct_puts' = total_correct_puts - players[fd].correct_puts
    /\ players' = [f \in DOMAIN players \ {fd} |-> players[f]]

disconnect_client(fd, k) ==
    /\ handle_client_disconnect(fd)
    /\ conn' = Closed(players[fd].addr)
    /\ got' = [got EXCEPT ![players[fd].addr] = <<>>]
    /\ poll_fds' = Erase(poll_fds, k)
    /\ pollout' = pollout \ {fd}
    /\ revents' = [revents EXCEPT ![fd] = {}]
    /\ client_buffers' = [client_buffers EXCEPT ![fd] = <<>>]

(* poll() reports every readable or broken socket, and those watched for   *)
(* POLLOUT whose send buffer has room.                                     *)
Reported(fd, writable) ==
    LET c == conn[players[fd].addr]
    IN  {r \in {"IN", "OUT", "HUP"} :
            \/ r = "IN" /\ (c.inq # <<>> \/ c.fin = "fin")
            \/ r = "OUT" /\ fd \in writable
            \/ r = "HUP" /\ c.fin = "rst"}

Poll ==
    /\ pc = "poll" /\ ~stopping
    /\ \E writable \in SUBSET pollout :
          revents' = [fd \in FD |-> IF is_client_connected(fd)
                                    THEN Reported(fd, writable) ELSE {}]
    /\ pc' = "timers"
    /\ UNCHANGED <<conn, gameVars, poll_fds, pollout, client_buffers, i, slot, got>>

(* ServerLogic::reset and EventManager::reset; the coefficients file goes  *)
(* on from where it is.  The mutant keeps the count of the last game.      *)
reset_KeepsTotal ==
    /\ players' = [fd \in {} |-> NewPlayer(fd)]
    /\ events' = <<>>
    /\ stopping' = FALSE
    /\ UNCHANGED <<total_correct_puts, coeff_file>>
reset ==
    /\ players' = [fd \in {} |-> NewPlayer(fd)]
    /\ events' = <<>>
    /\ total_correct_puts' = 0
    /\ stopping' = FALSE
    /\ UNCHANGED coeff_file

(* reset_server: what is still queued is written until a write falls       *)
(* short, every client is dropped, a new game starts.                      *)
ResetServer ==
    /\ pc = "poll" /\ stopping
    /\ reset
    /\ conn' = [a \in Addr |->
                  IF \E fd \in DOMAIN players : players[fd].addr = a
                  THEN [conn[a] EXCEPT !.st = "closed", !.inq = <<>>] ELSE conn[a]]
    /\ poll_fds' = <<>>
    /\ pollout' = {}
    /\ revents' = [fd \in FD |-> {}]
    /\ client_buffers' = [fd \in FD |-> <<>>]
    /\ got' = [a \in Addr |-> <<>>]
    /\ UNCHANGED <<pc, i, slot>>

(* Nothing sets MSG_NOSIGNAL or ignores SIGPIPE: send() on a connection    *)
(* whose client has closed it and answered earlier data by a reset gives   *)
(* EPIPE and ends the process.                                             *)
BrokenPipe(fd) == has_pending_messages(fd) /\ conn[players[fd].addr].fin = "fin"

ResetKilled ==
    /\ pc = "poll" /\ stopping
    /\ \E fd \in DOMAIN players : BrokenPipe(fd)
    /\ pc' = "exited"
    /\ UNCHANGED <<conn, gameVars, pollVars, i, slot, got>>

Due == events # <<>> /\ events[1].due = 0

(* A callback whose client is gone, or whose descriptor now serves another *)
(* client, does nothing; nor does a HELLO timer once HELLO has come.       *)
(* The mutant has the test on the HELLO timer the wrong way round.         *)
LiveEvent_Inverted(e) ==
    /\ validate_client(e.fd, e.addr)
    /\ IF e.kind = "HELLO" THEN players[e.fd].is_known ELSE players[e.fd].id = e.id
LiveEvent(e) ==
    /\ validate_client(e.fd, e.addr)
    /\ IF e.kind = "HELLO" THEN ~players[e.fd].is_known ELSE players[e.fd].id = e.id

SkipEvent ==
    /\ pc = "timers" /\ Due
    /\ ~LiveEvent(events[1])
    /\ events' = Tail(events)
    /\ UNCHANGED <<conn, players, total_correct_puts, stopping, coeff_file,
                   pollVars, pc, i, slot, got>>

(* The callbacks of respond_with_state and respond_with_bad_put give the   *)
(* delayed answer and let the player PUT again; the mutant forgets that.   *)
Answered_StillWaits(player, e) ==
    append_message_back(player, MakeAnswer(e.kind, e.addr, e.approx))
Answered(player, e) ==
    [append_message_back(player, MakeAnswer(e.kind, e.addr, e.approx)) EXCEPT !.can_put = TRUE]

AnswerEvent ==
    LET e == events[1] IN
    /\ pc = "timers" /\ Due
    /\ LiveEvent(e) /\ e.kind # "HELLO"
    /\ players' = [players EXCEPT ![e.fd] = Answered(@, e)]
    /\ events' = Tail(events)
    /\ UNCHANGED <<conn, total_correct_puts, stopping, coeff_file,
                   pollVars, pc, i, slot, got>>

(* The callback of handle_new_connection: no HELLO in time. *)
HelloTimeout ==
    LET e == events[1] IN
    /\ pc = "timers" /\ Due
    /\ LiveEvent(e) /\ e.kind = "HELLO"
    /\ \E k \in DOMAIN poll_fds : poll_fds[k] = e.fd /\ disconnect_client(e.fd, k)
    /\ events' = Tail(events)
    /\ UNCHANGED <<stopping, coeff_file, pc, i, slot>>

Backlog == {a \in Addr : conn[a].st = "backlog"}
Ready == Backlog # {} \/ \E fd \in FD : revents[fd] # {}

(* The timers are done.  Descriptors with something queued are polled for  *)
(* POLLOUT from now on; if poll() timed out the turn is over.              *)
EndTimers ==
    /\ pc = "timers" /\ ~Due
    /\ pollout' = pollout \cup {fd \in DOMAIN players : has_pending_messages(fd)}
    /\ pc' = IF ~Ready THEN "poll" ELSE IF Backlog # {} THEN "accept" ELSE "clients"
    /\ UNCHANGED <<conn, gameVars, poll_fds, revents, client_buffers, i, slot, got>>

FreeFD == FD \ DOMAIN players

(* accept() hands out the lowest free descriptor. *)
Accept(a) ==
    /\ pc = "accept" /\ conn[a].st = "backlog"
    /\ \E fd \in FreeFD :
        /\ \A g \in FreeFD : fd <= g
        /\ players' = [f \in DOMAIN players \cup {fd} |->
                          IF f = fd THEN NewPlayer(a) ELSE players[f]]
        /\ events' = add_event(events,
                        [kind |-> "HELLO", due |-> hello_wait_time, fd |-> fd,
                         addr |-> a, id |-> UNKNOWN, approx |-> Zeros])
        /\ poll_fds' = Append(poll_fds, fd)
        /\ client_buffers' = [client_buffers EXCEPT ![fd] = <<>>]
    /\ conn' = [conn EXCEPT ![a].st = "open"]
    /\ pc' = "clients" /\ i' = 1 /\ slot' = 1
    /\ UNCHANGED <<total_correct_puts, stopping, coeff_file, pollout, revents, got>>

(* accept() fails for want of descriptors: syserr ends the process. *)
AcceptFails ==
    /\ pc = "accept" /\ FreeFD = {}
    /\ pc' = "exited"
    /\ UNCHANGED <<conn, gameVars, pollVars, i, slot, got>>

-----------------------------------------------------------------------------
(* The loop over the client sockets. *)

NextClient(k) == pc' = "clients" /\ i' = k /\ slot' = k

EndClients ==
    /\ pc = "clients" /\ i > Len(poll_fds)
    /\ pc' = "poll" /\ i' = 1 /\ slot' = 1
    /\ revents' = [fd \in FD |-> {}]
    /\ UNCHANGED <<conn, gameVars, poll_fds, pollout, client_buffers, got>>

(* POLLHUP, or recv() returning 0. *)
DropClient ==
    /\ pc = "clients" /\ i <= Len(poll_fds)
    /\ LET fd == poll_fds[i] IN
        /\ \/ "HUP" \in revents[fd]
           \/ "IN" \in revents[fd] /\ conn[players[fd].addr].inq = <<>>
        /\ disconnect_client(fd, i)
    /\ NextClient(i)
    /\ UNCHANGED <<stopping, coeff_file, events>>

(* recv() returned what has arrived; a line that is not complete stays in  *)
(* the buffer and is not told from one that was not sent yet.              *)
Receive ==
    /\ pc = "clients" /\ i <= Len(poll_fds)
    /\ LET fd == poll_fds[i]
           a == players[fd].addr IN
        /\ revents[fd] \cap {"HUP", "IN"} = {"IN"}
        /\ conn[a].inq # <<>>
        /\ client_buffers' = [client_buffers EXCEPT ![fd] = @ \o conn[a].inq]
        /\ conn' = [conn EXCEPT ![a].inq = <<>>]
    /\ pc' = "read"
    /\ UNCHANGED <<gameVars, poll_fds, pollout, revents, i, slot, got>>

NothingToRead ==
    /\ pc = "clients" /\ i <= Len(poll_fds)
    /\ revents[poll_fds[i]] = {"OUT"}
    /\ pc' = "write"
    /\ UNCHANGED <<conn, gameVars, pollVars, i, slot, got>>

NothingReported ==
    /\ pc = "clients" /\ i <= Len(poll_fds)
    /\ revents[poll_fds[i]] = {}
    /\ NextClient(i + 1)
    /\ UNCHANGED <<conn, gameVars, pollVars, got>>

(* The line handle_read_from_client takes from the buffer of client fd. *)
(* The mutant lacks the is_stopping() test in the loop.                    *)
Takes_NoStop(fd, line) ==
    /\ pc = "read"
    /\ fd = poll_fds[i] /\ client_buffers[fd] # <<>>
    /\ line = Head(client_buffers[fd])
Takes(fd, line) ==
    /\ pc = "read" /\ ~stopping
    /\ fd = poll_fds[i] /\ client_buffers[fd] # <<>>
    /\ line = Head(client_buffers[fd])
(* The mutant forgets the lines behind it.                                 *)
TakeLine_ClearsBuffer(fd) == client_buffers' = [client_buffers EXCEPT ![fd] = <<>>]
TakeLine(fd) == client_buffers' = [client_buffers EXCEPT ![fd] = Tail(@)]

(* handle_hello on the player with the next line of the coefficients file. *)
KnownPlayer(player, id) ==
    [append_message_back(player, MakeAnswer("COEFF", player.addr, Zeros))
        EXCEPT !.id = id, !.is_known = TRUE, !.can_put = TRUE,
               !.coefficients = coeff_file + 1]

(* Mutant: a player may say HELLO again, past the end of the file too. *)
HelloAccepted_Any(fd) == TRUE
HelloAccepted(fd) == ~players[fd].is_known /\ coeff_file < CoeffLines

ReadHello(fd, id) ==
    /\ Takes(fd, <<"HELLO", id>>) /\ HelloAccepted(fd)
    /\ coeff_file' = coeff_file + 1
    /\ players' = [players EXCEPT ![fd] = KnownPlayer(@, id)]
    /\ TakeLine(fd)
    /\ UNCHANGED <<conn, total_correct_puts, stopping, events, poll_fds, pollout,
                   revents, pc, i, slot, got>>

(* No line is left in the coefficients file: fatal ends the process. *)
ReadHelloNoCoeff(fd, id) ==
    /\ Takes(fd, <<"HELLO", id>>) /\ ~players[fd].is_known
    /\ coeff_file = CoeffLines
    /\ pc' = "exited"
    /\ UNCHANGED <<conn, gameVars, pollVars, i, slot, got>>

(* What respond_with_penalty and respond_with_bad_put add to the penalty;  *)
(* the mutant takes them for exclusive.                                    *)
Charge_OnlyOne(early, bad) ==
    IF early THEN early_put_penalty ELSE IF bad THEN bad_put_penalty ELSE 0
Charge(early, bad) ==
    (IF early THEN early_put_penalty ELSE 0) + (IF bad THEN bad_put_penalty ELSE 0)

respond_with_bad_put(fd, player) ==
    [kind |-> "BAD_PUT", due |-> bad_put_delay, fd |-> fd,
     addr |-> player.addr, id |-> player.id, approx |-> Zeros]

(* The player after a PUT that comes before the last one was answered, or  *)
(* that is out of range, or both.                                          *)
Rejected(player, early, bad) ==
    [player EXCEPT !.can_put = FALSE,
                   !.penalty = player.penalty + Charge(early, bad),
                   !.messages = IF early
                                THEN Append(player.messages,
                                            MakeAnswer("PENALTY", player.addr, Zeros))
                                ELSE player.messages]

(* handle_put on such a PUT. *)
ReadRejectedPut(fd, p, v) ==
    LET player == players[fd]
        early  == ~player.can_put
        bad    == OutOfRange(p, v) IN
    /\ Takes(fd, <<"PUT", p, v>>) /\ player.is_known /\ (early \/ bad)
    /\ players' = [players EXCEPT ![fd] = Rejected(@, early, bad)]
    /\ events' = IF bad THEN add_event(events, respond_with_bad_put(fd, player))
                 ELSE events
    /\ TakeLine(fd)
    /\ UNCHANGED <<conn, total_correct_puts, stopping, coeff_file, poll_fds, pollout,
                   revents, pc, i, slot, got>>

(* send_scoring_messages: every known player gets the same SCORING.  The   *)
(* mutant sends it to those who have not said HELLO as well.               *)
WithScoring_Everyone(ps) ==
    [fd \in DOMAIN ps |->
        append_message_back(ps[fd], MakeAnswer("SCORING", ps[fd].addr, Zeros))]
WithScoring(ps) ==
    [fd \in DOMAIN ps |-> IF ps[fd].is_known
                          THEN append_message_back(ps[fd], MakeAnswer("SCORING", ps[fd].addr, Zeros))
                          ELSE ps[fd]]

(* The STATE is made when the PUT is handled and sent after the delay; the *)
(* mutant makes it before the PUT is applied.                              *)
respond_with_state_Stale(fd, player, approx) ==
    [kind |-> "STATE", due |-> Delay[player.id], fd |-> fd, addr |-> player.addr,
     id |-> player.id, approx |-> player.approximations]
respond_with_state(fd, player, approx) ==
    [kind |-> "STATE", due |-> Delay[player.id], fd |-> fd, addr |-> player.addr,
     id |-> player.id, approx |-> approx]

(* The player after a correct PUT. *)
Improved(player, p, v) ==
    [player EXCEPT !.can_put = FALSE, !.correct_puts = player.correct_puts + 1,
                   !.approximations = Put(player.approximations, p, v)]

(* handle_put on a correct PUT, which may be the one that ends the game. *)
ReadPut(fd, p, v) ==
    LET player  == players[fd]
        approx  == Put(player.approximations, p, v)
        updated == [players EXCEPT ![fd] = Improved(@, p, v)]
        over    == total_correct_puts + 1 >= M IN
    /\ Takes(fd, <<"PUT", p, v>>)
    /\ player.is_known /\ player.can_put /\ ~OutOfRange(p, v)
    /\ total_correct_puts' = total_correct_puts + 1
    /\ events' = add_event(events, respond_with_state(fd, player, approx))
    /\ players' = IF over THEN WithScoring(updated) ELSE updated
    /\ stopping' = over
    /\ TakeLine(fd)
    /\ UNCHANGED <<conn, coeff_file, poll_fds, pollout, revents, pc, i, slot, got>>

(* A known client's second HELLO, or a line that is no HELLO and no PUT. *)
ReadIgnored(fd, line) ==
    /\ Takes(fd, line) /\ players[fd].is_known /\ line[1] # "PUT"
    /\ TakeLine(fd)
    /\ UNCHANGED <<conn, gameVars, poll_fds, pollout, revents, pc, i, slot, got>>

(* The first line is no HELLO: the client is dropped and main() goes on to *)
(* the write part, where i has moved and the reference pollfd has not.     *)
ReadBeforeHello(fd, line) ==
    /\ Takes(fd, line) /\ ~players[fd].is_known /\ line[1] # "HELLO"
    /\ disconnect_client(fd, i)
    /\ i' = i - 1
    /\ pc' = "write"
    /\ UNCHANGED <<stopping, coeff_file, events, slot>>

(* The buffer is handled, or the game is over. *)
EndRead ==
    /\ pc = "read"
    /\ stopping \/ client_buffers[poll_fds[i]] = <<>>
    /\ IF stopping
       THEN pc' = "poll" /\ i' = 1 /\ slot' = 1 /\ revents' = [fd \in FD |-> {}]
       ELSE pc' = "write" /\ UNCHANGED <<i, slot, revents>>
    /\ UNCHANGED <<conn, gameVars, poll_fds, pollout, client_buffers, got>>

WriteWanted == slot <= Len(poll_fds) /\ "OUT" \in revents[poll_fds[slot]]

NothingToWrite ==
    /\ pc = "write" /\ ~WriteWanted
    /\ NextClient(i + 1)
    /\ UNCHANGED <<conn, gameVars, pollVars, got>>

StopWatching ==
    /\ pc = "write" /\ WriteWanted /\ i > 0
    /\ ~has_pending_messages(poll_fds[i])
    /\ pollout' = pollout \ {poll_fds[i]}
    /\ NextClient(i + 1)
    /\ UNCHANGED <<conn, gameVars, poll_fds, revents, client_buffers, got>>

(* send() took the whole text, or a part of it: the rest goes back to the  *)
(* front of the queue.                                                     *)
Write(whole) ==
    /\ pc = "write" /\ WriteWanted /\ i > 0
    /\ LET fd == poll_fds[i]
           a  == players[fd].addr
           q  == players[fd].messages IN
        /\ q # <<>> /\ conn[a].fin # "rst"
        /\ players' = [players EXCEPT ![fd].messages =
               IF whole THEN Tail(q)
               ELSE append_message_front(Tail(q), [Head(q) EXCEPT !.rest = TRUE])]
        /\ got' = IF whole THEN [got EXCEPT ![a] = Append(@, Head(q).type)] ELSE got
    /\ NextClient(i + 1)
    /\ UNCHANGED <<conn, total_correct_puts, stopping, coeff_file, events, pollVars>>

(* send() fails: the client has reset the connection, or poll() did not    *)
(* report this socket as writable and its buffer is full.                  *)
WriteFails ==
    /\ pc = "write" /\ WriteWanted /\ i > 0
    /\ LET fd == poll_fds[i] IN
        /\ has_pending_messages(fd)
        /\ conn[players[fd].addr].fin = "rst" \/ "OUT" \notin revents[fd]
        /\ disconnect_client(fd, i)
    /\ NextClient(i)
    /\ UNCHANGED <<stopping, coeff_file, events>>

WriteKilled ==
    /\ pc = "write" /\ WriteWanted /\ i > 0
    /\ BrokenPipe(poll_fds[i])
    /\ pc' = "exited"
    /\ UNCHANGED <<conn, gameVars, pollVars, i, slot, got>>

(* handle_write_to_client on the listening socket: players.at() throws and *)
(* nothing catches it.                                                     *)
WriteToListener ==
    /\ pc = "write" /\ WriteWanted /\ i = 0
    /\ pc' = "crashed"
    /\ UNCHANGED <<conn, gameVars, pollVars, i, slot, got>>

(* The process has ended. *)
Halted ==
    /\ pc \in {"exited", "crashed"}
    /\ UNCHANGED vars

-----------------------------------------------------------------------------
Clients ==
    \E a \in Addr :
        \/ Connect(a)
        \/ \E line \in ClientLine : SendLine(a, line)
        \/ \E how \in {"fin", "rst"} : Hangup(a, how)

ReadLine ==
    \E fd \in FD :
        \/ \E id \in PlayerId : ReadHello(fd, id) \/ ReadHelloNoCoeff(fd, id)
        \/ \E p \in Points, v \in Values : ReadRejectedPut(fd, p, v) \/ ReadPut(fd, p, v)
        \/ \E line \in ClientLine : ReadIgnored(fd, line) \/ ReadBeforeHello(fd, line)

ServerStep ==
    \/ Poll \/ ResetServer \/ ResetKilled
    \/ SkipEvent \/ AnswerEvent \/ HelloTimeout \/ EndTimers
    \/ (\E a \in Addr : Accept(a)) \/ AcceptFails
    \/ EndClients \/ DropClient \/ Receive \/ NothingToRead \/ NothingReported
    \/ ReadLine \/ EndRead
    \/ NothingToWrite \/ StopWatching \/ (\E whole \in BOOLEAN : Write(whole))
    \/ WriteFails \/ WriteKilled \/ WriteToListener

Server == ServerStep /\ UNCHANGED sent

Next == Clients \/ Tick \/ Server \/ Halted

Spec == Init /\ [][Next]_vars

-----------------------------------------------------------------------------
(* Fairness.  The process is scheduled: its loop goes on while it can.     *)
(* Time passes whatever the server does; Tick is only enabled in poll(),   *)
(* which the server comes back to over and over, hence strong fairness.    *)
FairSpec == Spec /\ WF_vars(Server) /\ SF_vars(Tick)

-----------------------------------------------------------------------------
(* Properties *)

TypeOK ==
    /\ conn \in [Addr -> Connection]
    /\ DOMAIN players \subseteq FD
    /\ \A fd \in DOMAIN players : players[fd] \in PlayerInfo
    /\ sent \in Nat
    /\ total_correct_puts \in Int
    /\ stopping \in BOOLEAN
    /\ coeff_file \in 0..CoeffLines
    /\ events \in Seq(Event)
    /\ poll_fds \in Seq(FD)
    /\ pollout \subseteq FD
    /\ revents \in [FD -> SUBSET {"IN", "OUT", "HUP"}]
    /\ client_buffers \in [FD -> Seq(ClientLine)]
    /\ pc \in {"poll", "timers", "accept", "clients", "read", "write", "exited", "crashed"}
    /\ i \in Nat /\ slot \in Nat \ {0}
    /\ got \in [Addr -> Seq(AnswerType)]

(* One element for each correct PUT of a player that is in the game.       *)
CountedPuts == UNION {{fd} \X (1..players[fd].correct_puts) : fd \in DOMAIN players}

(* total_correct_puts is decremented on every disconnect and cleared on a  *)
(* reset: it stays the sum of what the players in the game contributed,    *)
(* and the game is over exactly when that has reached M.  It is not all    *)
(* that was processed in the game; for that see EndsAfterMPuts of          *)
(* MCApproxRounds.                                                         *)
PutAccounting ==
    /\ total_correct_puts = Cardinality(CountedPuts)
    /\ stopping <=> total_correct_puts >= M

(* Every poll_fds entry behind the listener has its player and the other   *)
(* way round, which is what the assert(is_client_connected(client_fd)) at  *)
(* the head of nearly every ServerLogic method takes for granted.          *)
PollMirrorsPlayers ==
    /\ Range(poll_fds) = DOMAIN players
    /\ \A j, k \in DOMAIN poll_fds : j # k => poll_fds[j] # poll_fds[k]
    /\ pollout \subseteq DOMAIN players

AnswerPending(fd) ==
    \E k \in DOMAIN events :
        /\ events[k].kind # "HELLO" /\ events[k].fd = fd
        /\ events[k].addr = players[fd].addr /\ events[k].id = players[fd].id
HelloPending(fd) ==
    \E k \in DOMAIN events :
        events[k].kind = "HELLO" /\ events[k].fd = fd /\ events[k].addr = players[fd].addr

(* No client is forgotten: while the game runs, a player that may not PUT  *)
(* has an answer scheduled that will let it, and a client that has not     *)
(* said HELLO has a timer that will drop it.                               *)
NeverWedged ==
    ~stopping =>
        \A fd \in DOMAIN players :
            /\ players[fd].is_known /\ ~players[fd].can_put => AnswerPending(fd)
            /\ ~players[fd].is_known => HelloPending(fd)

(* A descriptor is reused as soon as its client is gone, but no answer to  *)
(* one client is ever queued for the client that got its descriptor.       *)
NoCrossTalk ==
    \A fd \in DOMAIN players : \A k \in DOMAIN players[fd].messages :
        players[fd].messages[k].owner = players[fd].addr

(* A partly written message goes back in front of everything else, or the  *)
(* client would see two messages mixed up.                                 *)
RestOnlyAtHead ==
    \A fd \in DOMAIN players : \A k \in DOMAIN players[fd].messages :
        players[fd].messages[k].rest => k = 1

Told(fd) == got[players[fd].addr]
              \o [k \in DOMAIN players[fd].messages |-> players[fd].messages[k].type]
TimesTold(fd, type) == Cardinality({k \in DOMAIN Told(fd) : Told(fd)[k] = type})
TimesPending(fd, kind) ==
    Cardinality({k \in DOMAIN events : /\ events[k].kind = kind /\ events[k].fd = fd
                                       /\ events[k].addr = players[fd].addr})

(* The coefficients are the first thing a client is told, told once: the   *)
(* client treats a STATE, PENALTY or BAD_PUT before COEFF as fatal.        *)
CoeffFirst ==
    \A fd \in DOMAIN players :
        Told(fd) # <<>> => /\ Told(fd)[1] = "COEFF"
                           /\ TimesTold(fd, "COEFF") = 1

(* Every PUT is answered once and charged for what it is told: the penalty *)
(* is the one of the PENALTY and BAD_PUT answers sent, queued or scheduled *)
(* and every correct PUT has its STATE sent, queued or scheduled.          *)
AnswerLedger ==
    \A fd \in DOMAIN players :
        /\ players[fd].penalty =
              early_put_penalty * TimesTold(fd, "PENALTY")
                + bad_put_penalty * (TimesTold(fd, "BAD_PUT") + TimesPending(fd, "BAD_PUT"))
        /\ players[fd].correct_puts = TimesTold(fd, "STATE") + TimesPending(fd, "STATE")

(* Where the STATEs of a player are, in its queue and among the events.     *)
QueuedStates(fd) == {k \in DOMAIN players[fd].messages : players[fd].messages[k].type = "STATE"}
ScheduledStates(fd) ==
    {k \in DOMAIN events : /\ events[k].kind = "STATE" /\ events[k].fd = fd
                           /\ events[k].addr = players[fd].addr}
IsLast(k, S) == k \in S /\ \A j \in S : j <= k

(* However the answers are delayed, the last STATE a player will read is   *)
(* its approximation as it will be scored: the last one scheduled or, with *)
(* none scheduled, the last one in its queue.                              *)
NewestStateIsCurrent ==
    \A fd \in DOMAIN players :
        /\ \A k \in DOMAIN events :
              IsLast(k, ScheduledStates(fd)) => events[k].approx = players[fd].approximations
        /\ ScheduledStates(fd) = {} =>
              \A k \in DOMAIN players[fd].messages :
                  IsLast(k, QueuedStates(fd))
                    => players[fd].messages[k].approx = players[fd].approximations

(* When the game is over each player has one SCORING queued, behind        *)
(* everything else: whoever reads to the end of its connection sees it.    *)
ScoringLast ==
    \A fd \in DOMAIN players :
        LET q == players[fd].messages
            scorings == {k \in DOMAIN q : q[k].type = "SCORING"}
        IN  scorings = IF stopping /\ players[fd].is_known THEN {Len(q)} ELSE {}

-----------------------------------------------------------------------------
(* The promise to each client, ApproxSession, and where it is kept in the  *)
(* state of the server.  A connection that is over, and every connection   *)
(* of a process that has ended, is a closed session.                       *)

Seated(a) == {fd \in DOMAIN players : players[fd].addr = a}
SessionOpen(a) == conn[a].st # "closed" /\ pc \notin {"exited", "crashed"}

Owed(fd) == [kind \in {"STATE", "BAD_PUT"} |-> TimesPending(fd, kind)]

SessionSeat(a) ==
    [open           |-> SessionOpen(a),
     known          |-> SessionOpen(a) /\ \E fd \in Seated(a) : players[fd].is_known,
     can_put        |-> SessionOpen(a) /\ \E fd \in Seated(a) : players[fd].can_put,
     over           |-> SessionOpen(a) /\ stopping /\ Seated(a) # {},
     owed           |-> IF SessionOpen(a) /\ Seated(a) # {}
                        THEN Owed(CHOOSE fd \in Seated(a) : TRUE)
                        ELSE [kind \in {"STATE", "BAD_PUT"} |-> 0],
     approximations |-> IF SessionOpen(a) /\ Seated(a) # {}
                        THEN players[CHOOSE fd \in Seated(a) : TRUE].approximations
                        ELSE Zeros]
SessionRequests(a) ==
    IF SessionOpen(a) /\ Seated(a) # {}
    THEN client_buffers[CHOOSE fd \in Seated(a) : TRUE] \o conn[a].inq ELSE <<>>
SessionAnswers(a) ==
    IF SessionOpen(a) /\ Seated(a) # {} THEN Told(CHOOSE fd \in Seated(a) : TRUE) ELSE <<>>

Session(a) == INSTANCE ApproxSession WITH
    requests <- SessionRequests(a), answers <- SessionAnswers(a), seat <- SessionSeat(a)

(* The poll loop, its timers and its descriptors keep the promise of       *)
(* ApproxSession to every client, whatever the other clients do: lines are *)
(* handled in the order sent, each answered as the rules say, answers are  *)
(* neither lost, swapped nor sent to the wrong client, and a connection    *)
(* that ends leaves nothing behind for the next one.                       *)
ServesSessions ==
    /\ \A a \in Addr : Session(a)!Init
    /\ [][\A a \in Addr : UNCHANGED Session(a)!vars \/ Session(a)!Next]_vars

-----------------------------------------------------------------------------
(* A client that connects and stays silent does not stay for ever.         *)
SilentClientLeaves ==
    \A a \in Addr :
        conn[a].st = "open" ~>
            \/ conn[a].st = "closed" \/ pc \in {"exited", "crashed"}
            \/ \E fd \in DOMAIN players : players[fd].addr = a /\ players[fd].is_known

(* A player that has to wait for an answer gets it, is gone or the game is *)
(* over: nobody is left waiting.                                           *)
PutAnswered ==
    \A a \in Addr :
        (\E fd \in DOMAIN players :
            players[fd].addr = a /\ players[fd].is_known /\ ~players[fd].can_put)
        ~> \/ conn[a].st = "closed" \/ pc \in {"exited", "crashed"} \/ stopping
           \/ \E fd \in DOMAIN players : players[fd].addr = a /\ players[fd].can_put

(* A finished game gives way to a new one, with nobody left in it, unless  *)
(* writing the last messages ends the process.                             *)
GameRestarts ==
    stopping ~> \/ ~stopping /\ players = <<>> /\ total_correct_puts = 0
                \/ pc = "exited"

(* The assert of getClientPlayerID (server_logic.cpp), the first call of   *)
(* handle_write_to_client: the descriptor at index i is a client's.        *)
WriteTargetConnected ==
    pc = "write" /\ WriteWanted => i > 0 /\ is_client_connected(poll_fds[i])

=============================================================================
