---------------------------- MODULE ApproxClient ----------------------------
(***************************************************************************)
(* The client of the-great-approximator: the threads of ClientLogic, the   *)
(* queues of ts_queue.h between them and the choice of the automatic       *)
(* strategy, against the server of ApproxSession, which ApproxServer       *)
(* implements.                                                             *)
(*                                                                         *)
(* A step of a thread is what it does between two operations that another  *)
(* thread can see: loading or storing game_over, a queue operation, a      *)
(* section under a mutex, a call on the socket.  A wait that times out is  *)
(* no step.  A thread looks at game_over with the end of its last turn;    *)
(* that the flag, which is never cleared, is set before it really looks is *)
(* met by leaving the loop from the wait.  A log line is only told from    *)
(* another by whether the game was over when it was queued.                *)
(***************************************************************************)
EXTENDS ApproxRules, FiniteSets

CONSTANTS
    Coeffs,             \* polynomials the server may have for this client
    IntBits,            \* width of an int, 32 in the build
    MaxPuts             \* bound: lines of input, or PUTs of the automatic strategy

ASSUME ClientAssumption ==
    /\ PlayerId # {}
    /\ Coeffs \subseteq Seq(Int)
    /\ IntBits \in Nat \ {0}
    /\ MaxPuts \in Nat

Thread == {"main", "printer", "strategy", "receiver", "sender", "processor"}

VARIABLES
    is_auto_strategy,       \* -a was given; never changes
    coeffs,                 \* the polynomial of this client; never changes
    pc,                     \* pc[t]: where thread t is
    game_over,              \* ClientLogic::game_over
    logs,                   \* ClientLogic::logs
    incoming_messages,      \* ClientLogic::incoming_messages
    outgoing_messages,      \* ClientLogic::outgoing_messages
    K_set,                  \* ClientLogic::K_set; K itself is the size of a STATE
    current_approximation,  \* ClientLogic::current_approximation, a function from 0
    puts_without_answer,    \* ClientLogic::puts_without_answer
    put,                    \* the PUT the strategy holds, as <<line>>, or <<>>
    sending,                \* the message network_sender holds, as <<m>>, or <<>>
    processing,             \* the message message_processor holds, or <<>>
    is_first_message,       \* of message_processor
    scoring_received,       \* of message_processor
    puts,                   \* for the bound MaxPuts
    outcome,                \* "running", or how the process ended
    to_server, to_client,   \* the two directions of the connection
    server                  \* what the server knows of this client

logVars == <<logs>>
inVars  == <<incoming_messages, processing, is_first_message, scoring_received>>
outVars == <<outgoing_messages, sending>>
autoVars == <<K_set, current_approximation, puts_without_answer>>
putVars == <<put, puts>>
netVars == <<to_server, to_client, server>>
vars == <<is_auto_strategy, coeffs, pc, game_over, logVars, inVars, outVars, autoVars,
          putVars, outcome, netVars>>

Session == INSTANCE ApproxSession WITH
    requests <- to_server, answers <- to_client, seat <- server

-----------------------------------------------------------------------------
(* poly_at takes the powers as ints, which wrap around: wrapping the power *)
(* is the same as wrapping after every multiplication of the loop.         *)
HalfRange == Power(2, IntBits - 1)
ToInt(n) == ((n + HalfRange) % (2 * HalfRange)) - HalfRange
poly_at(x) == SumFunction([j \in DOMAIN coeffs |-> coeffs[j] * ToInt(Power(x, j - 1))])

(* real_values is filled wherever current_approximation is resized. *)
real_values == [x \in DOMAIN current_approximation |-> poly_at(x)]

(* std::clamp; the mutant has its bounds the wrong way round. *)
Clamped_Swapped(d) ==
    IF d < min_put_value THEN max_put_value
    ELSE IF d > max_put_value THEN min_put_value ELSE d
Clamped(d) ==
    IF d < min_put_value THEN min_put_value
    ELSE IF d > max_put_value THEN max_put_value ELSE d

(* get_best_put: the first point of the largest squared difference, and as *)
(* much of that difference as one PUT may carry.                           *)
best_put ==
    LET diff(x) == real_values[x] - current_approximation[x]
        square(x) == diff(x) * diff(x)
        max_idx == CHOOSE x \in DOMAIN current_approximation :
                      \A y \in DOMAIN current_approximation :
                          square(y) < square(x) \/ (square(y) = square(x) /\ x <= y)
    IN  <<"PUT", max_idx, Clamped(diff(max_idx))>>

-----------------------------------------------------------------------------
(* The constructor: one answer is awaited, the COEFF. *)
InitialPuts == 1

(* register_connection has logged the connection and                       *)
(* start_threads_and_send_hello has started the threads and not yet queued *)
(* HELLO.                                                                  *)
Init ==
    /\ is_auto_strategy \in BOOLEAN /\ coeffs \in Coeffs
    /\ pc = [t \in Thread |-> IF t = "main" THEN "hello" ELSE "wait"]
    /\ game_over = FALSE
    /\ logs = <<"early">>
    /\ incoming_messages = <<>> /\ outgoing_messages = <<>>
    /\ K_set = FALSE
    /\ current_approximation = [x \in {} |-> 0]
    /\ puts_without_answer = InitialPuts
    /\ put = <<>> /\ sending = <<>> /\ processing = <<>>
    /\ is_first_message = TRUE /\ scoring_received = FALSE
    /\ puts = 0
    /\ outcome = "running"
    /\ Session!Init

Goto(t, from, to) ==
    /\ outcome = "running" /\ pc[t] = from
    /\ pc' = [pc EXCEPT ![t] = to]
    /\ UNCHANGED <<is_auto_strategy, coeffs>>

(* fatal, syserr and SIGPIPE end the whole process. *)
Ends(t, from, how) ==
    /\ outcome = "running" /\ pc[t] = from
    /\ outcome' = how
    /\ UNCHANGED <<is_auto_strategy, coeffs, pc, game_over, logVars, inVars, outVars,
                   autoVars, putVars, netVars>>

(* Thread t goes on and leaves everything else alone. *)
Step(t, from, to) ==
    /\ Goto(t, from, to)
    /\ UNCHANGED <<game_over, logVars, inVars, outVars, autoVars, putVars, outcome, netVars>>

(* while (!game_over.load()): the next turn, or what is behind the loop.   *)
BehindLoop(t) == CASE t = "printer" -> "last"
                   [] t \in {"receiver", "processor"} -> "end"
                   [] OTHER -> "done"
NextTurn(t, from) == Goto(t, from, IF game_over THEN BehindLoop(t) ELSE "wait")
LeaveLoop(t) == game_over /\ Step(t, "wait", BehindLoop(t))

(* log_stdout and log_stderr *)
Log == logs' = Append(logs, IF game_over THEN "late" ELSE "early")

-----------------------------------------------------------------------------
(* main: send_hello_message and join_threads. *)
SendHello ==
    /\ Goto("main", "hello", "join")
    /\ outgoing_messages' = Append(outgoing_messages, <<"HELLO", CHOOSE id \in PlayerId : TRUE>>)
    /\ UNCHANGED <<game_over, logVars, inVars, sending, autoVars, putVars, outcome, netVars>>

JoinThreads ==
    /\ \A t \in Thread \ {"main"} : pc[t] = "done"
    /\ Goto("main", "join", "done")
    /\ outcome' = "finished"
    /\ UNCHANGED <<game_over, logVars, inVars, outVars, autoVars, putVars, netVars>>

-----------------------------------------------------------------------------
(* log_printer: a loop, one more wait, and what is queued by then.  The    *)
(* mutant stops after the wait.                                            *)
AfterLastWait_Done == "done"
AfterLastWait == "drain"

PrintLog(from) ==
    /\ logs # <<>>
    /\ logs' = Tail(logs)
    /\ CASE from = "wait"  -> NextTurn("printer", "wait")
         [] from = "last"  -> Goto("printer", "last", AfterLastWait)
         [] from = "drain" -> Goto("printer", "drain", "drain")
    /\ UNCHANGED <<game_over, inVars, outVars, autoVars, putVars, outcome, netVars>>

Printer ==
    \/ LeaveLoop("printer")
    \/ PrintLog("wait") \/ PrintLog("last") \/ PrintLog("drain")
    \/ logs = <<>> /\ Step("printer", "last", AfterLastWait)
    \/ logs = <<>> /\ Step("printer", "drain", "done")

-----------------------------------------------------------------------------
(* auto_strategy: wait_for_puts, increment_puts_without_answer,            *)
(* get_best_put, send_put_message.  Mutant: off by one, after the COEFF.   *)
AnswersAreIn_OffByOne == ~is_first_message /\ puts_without_answer <= 1
AnswersAreIn == puts_without_answer = 0

WaitForPuts ==
    /\ AnswersAreIn /\ puts < MaxPuts
    /\ Goto("strategy", "wait", "count")
    /\ puts' = puts + 1
    /\ UNCHANGED <<game_over, logVars, inVars, outVars, autoVars, put, outcome, netVars>>

IncrementPuts ==
    /\ Goto("strategy", "count", "choose")
    /\ puts_without_answer' = puts_without_answer + 1
    /\ UNCHANGED <<game_over, logVars, inVars, outVars, K_set, current_approximation,
                   putVars, outcome, netVars>>

(* Mutant: the approximation is left to the STATE, which nobody copies. *)
WithPut_Forgotten(approximation, line) == approximation
WithPut(approximation, line) == Put(approximation, line[2], line[3])

GetBestPut ==
    /\ Goto("strategy", "choose", "log")
    /\ put' = <<best_put>>
    /\ current_approximation' = WithPut(current_approximation, best_put)
    /\ UNCHANGED <<game_over, logVars, inVars, outVars, K_set, puts_without_answer, puts,
                   outcome, netVars>>

LogPut ==
    /\ Goto("strategy", "log", "put")
    /\ Log
    /\ UNCHANGED <<game_over, inVars, outVars, autoVars, putVars, outcome, netVars>>

(* manual_strategy: a line of standard input, which is a PUT or no valid   *)
(* line.  Several may come in one read: the loop over them does not look   *)
(* at game_over.                                                           *)
InputTurn(from) == NextTurn("strategy", from) \/ Goto("strategy", from, "wait")
ReadInput ==
    /\ puts < MaxPuts
    /\ puts' = puts + 1
    /\ Log
    /\ \/ /\ Goto("strategy", "wait", "put")
          /\ \E p \in Points, v \in Values : put' = <<<<"PUT", p, v>>>>
       \/ InputTurn("wait") /\ UNCHANGED put
    /\ UNCHANGED <<game_over, inVars, outVars, autoVars, outcome, netVars>>

(* The rest of send_put_message. *)
PutSent ==
    /\ IF is_auto_strategy THEN NextTurn("strategy", "put") ELSE InputTurn("put")
    /\ outgoing_messages' = outgoing_messages \o put
    /\ put' = <<>>
    /\ UNCHANGED <<game_over, logVars, inVars, sending, autoVars, puts, outcome, netVars>>

Strategy ==
    \/ LeaveLoop("strategy")
    \/ is_auto_strategy /\ (WaitForPuts \/ IncrementPuts \/ GetBestPut \/ LogPut)
    \/ ~is_auto_strategy /\ ReadInput
    \/ PutSent

-----------------------------------------------------------------------------
(* network_receiver; what it receives is always well formed. *)
Recv ==
    /\ NextTurn("receiver", "wait")
    /\ \E n \in 1..Len(to_client) :
        /\ Session!Receive(n)
        /\ incoming_messages' = incoming_messages \o SubSeq(to_client, 1, n)
    /\ UNCHANGED <<game_over, logVars, processing, is_first_message, scoring_received,
                   outVars, autoVars, putVars, outcome>>

(* recv() returns 0; the mutant takes it for a timeout. *)
RecvEndOfFile_Ignored == to_client = <<>> /\ ~server.open /\ UNCHANGED vars
RecvEndOfFile ==
    /\ to_client = <<>> /\ ~server.open
    /\ Goto("receiver", "wait", "end")
    /\ game_over' = TRUE
    /\ UNCHANGED <<logVars, inVars, outVars, autoVars, putVars, outcome, netVars>>

(* Part of a message that was cut off, or is still coming, is logged. *)
LogPartialMessage ==
    /\ to_client # <<>> \/ ~server.open
    /\ Goto("receiver", "end", "done")
    /\ Log
    /\ UNCHANGED <<game_over, inVars, outVars, autoVars, putVars, outcome, netVars>>

Receiver ==
    \/ LeaveLoop("receiver") \/ Step("receiver", "end", "done") \/ LogPartialMessage
    \/ Recv \/ RecvEndOfFile
    \/ ~server.open /\ to_server # <<>> /\ Ends("receiver", "wait", "syserr")  \* reset

-----------------------------------------------------------------------------
(* network_sender; the socket has a timeout for recv() only, so write()    *)
(* waits for the server and EAGAIN does not happen.                        *)
PopOutgoing ==
    /\ outgoing_messages # <<>>
    /\ Goto("sender", "wait", "write")
    /\ sending' = <<Head(outgoing_messages)>>
    /\ outgoing_messages' = Tail(outgoing_messages)
    /\ UNCHANGED <<game_over, logVars, inVars, autoVars, putVars, outcome, netVars>>

WriteSocket ==
    /\ NextTurn("sender", "write")
    /\ Session!SendLine(sending[1])
    /\ sending' = <<>>
    /\ UNCHANGED <<game_over, logVars, inVars, outgoing_messages, autoVars, putVars, outcome>>

Sender ==
    \/ LeaveLoop("sender")
    \/ PopOutgoing \/ WriteSocket
    \/ ~server.open /\ to_server # <<>> /\ Ends("sender", "write", "syserr")

-----------------------------------------------------------------------------
(* message_processor *)
PopIncoming ==
    /\ incoming_messages # <<>>
    /\ Goto("processor", "wait", "log")
    /\ processing' = <<Head(incoming_messages)>>
    /\ incoming_messages' = Tail(incoming_messages)
    /\ UNCHANGED <<game_over, logVars, is_first_message, scoring_received, outVars, autoVars,
                   putVars, outcome, netVars>>

LogMessage ==
    /\ Goto("processor", "log", "process")
    /\ Log
    /\ UNCHANGED <<game_over, inVars, outVars, autoVars, putVars, outcome, netVars>>

(* Does message m count as the answer to a PUT, or, first, as the COEFF?   *)
(* Mutants: every message does; only the first message does.               *)
Decrements_Any(m) == is_first_message \/ is_auto_strategy
Decrements_First(m) == is_first_message
Decrements(m) == is_first_message \/ (is_auto_strategy /\ m \in {"STATE", "BAD_PUT"})

(* What is known of the points: 0 and 1 with the COEFF, all with a STATE.  *)
(* The mutant has one point too many.                                      *)
Resized_OneMore(top) ==
    [x \in 0..(top + 1) |-> IF x \in DOMAIN current_approximation
                            THEN current_approximation[x] ELSE 0]
Resized(top) ==
    [x \in 0..top |-> IF x \in DOMAIN current_approximation
                      THEN current_approximation[x] ELSE 0]

(* processCoeffMessage, processStateMessage and the others.  The server    *)
(* sends COEFF first and only first, so no message is a bad one, and       *)
(* decrement_puts_without_answer never finds 0 (PutsCounted).              *)
Process ==
    LET m == processing[1]
        first_state == is_auto_strategy /\ m = "STATE" /\ ~K_set IN
    /\ IF processing = <<"SCORING">> THEN Goto("processor", "process", "end")
                                     ELSE NextTurn("processor", "process")
    /\ puts_without_answer' = IF Decrements(m) /\ puts_without_answer > 0
                              THEN puts_without_answer - 1 ELSE puts_without_answer
    /\ K_set' = (K_set \/ first_state)
    /\ current_approximation' = IF is_first_message THEN Resized(1)
                                ELSE IF first_state THEN Resized(K)
                                ELSE current_approximation
    /\ is_first_message' = FALSE
    /\ scoring_received' = (scoring_received \/ m = "SCORING")
    /\ game_over' = (game_over \/ m = "SCORING")
    /\ processing' = <<>>
    /\ UNCHANGED <<logVars, incoming_messages, outVars, putVars, outcome, netVars>>

Processor ==
    \/ LeaveLoop("processor")
    \/ PopIncoming \/ LogMessage \/ Process
    \/ scoring_received /\ Step("processor", "end", "done")
    \/ ~scoring_received /\ Ends("processor", "end", "disconnect")

-----------------------------------------------------------------------------
(* The server, as ApproxSession promises it. *)
Elsewhere ==
    /\ outcome = "running"
    /\ UNCHANGED <<is_auto_strategy, coeffs, pc, game_over, logVars, inVars, outVars, autoVars,
                   putVars, outcome>>

ServerTakes == Elsewhere /\ Session!TakeLine
ServerAnswers == Elsewhere /\ (\E kind \in {"STATE", "BAD_PUT"} : Session!Answer(kind))
ServerEnds == Elsewhere /\ (Session!GameOver \/ Session!Close)

Ended == outcome # "running" /\ UNCHANGED vars

Next ==
    \/ SendHello \/ JoinThreads \/ Printer \/ Strategy \/ Receiver \/ Sender \/ Processor
    \/ ServerTakes \/ ServerAnswers \/ ServerEnds \/ Ended

Spec == Init /\ [][Next]_vars

(* The threads are scheduled, and a wait that can end does.  The server    *)
(* handles what it reads and gives the answers it owes, while the          *)
(* connection lasts (PutAnswered of ApproxServer).                         *)
FairSpec ==
    /\ Spec
    /\ WF_vars(SendHello) /\ WF_vars(JoinThreads) /\ WF_vars(Printer) /\ WF_vars(Strategy)
    /\ WF_vars(Receiver) /\ WF_vars(Sender) /\ WF_vars(Processor)
    /\ WF_vars(ServerTakes) /\ WF_vars(ServerAnswers)

-----------------------------------------------------------------------------
(* Properties *)

(* What this client may send: a HELLO, and PUTs at any point, which the    *)
(* server may refuse.                                                      *)
Line == ({"HELLO"} \X PlayerId) \cup ({"PUT"} \X Int \X Int)

(* Where a thread may be. *)
Place == {"hello", "join", "wait", "count", "choose", "log", "put", "last", "drain", "write",
          "process", "end", "done"}

(* The types.  What is known of the points is nothing, 0 and 1, or all of  *)
(* them; message_processor and the others hold one message at most.        *)
TypeOK ==
    /\ is_auto_strategy \in BOOLEAN /\ coeffs \in Coeffs
    /\ pc \in [Thread -> Place]
    /\ game_over \in BOOLEAN
    /\ logs \in Seq({"early", "late"})
    /\ incoming_messages \in Seq(AnswerType) /\ to_client \in Seq(AnswerType)
    /\ outgoing_messages \in Seq(Line) /\ to_server \in Seq(Line)
    /\ K_set \in BOOLEAN
    /\ \E top \in {-1, 1, K} : current_approximation \in [0..top -> Int]
    /\ puts_without_answer \in Nat /\ puts \in Nat
    /\ processing \in Seq(AnswerType) /\ Len(processing) <= 1
    /\ put \in Seq(Line) /\ Len(put) <= 1
    /\ sending \in Seq(Line) /\ Len(sending) <= 1
    /\ is_first_message \in BOOLEAN /\ scoring_received \in BOOLEAN
    /\ outcome \in {"running", "finished", "disconnect", "syserr"}
    /\ server \in Session!Seat

Count(s, S) == Cardinality({k \in DOMAIN s : s[k] \in S})

(* Lines on their way to the server, wherever they are: on the wire, in    *)
(* the hands of the sender, in the queue, in the strategy.  And what is on *)
(* its way back.                                                           *)
Outbound == to_server \o sending \o outgoing_messages \o put
Inbound == processing \o incoming_messages \o to_client
UnderWay == {k \in DOMAIN Outbound : Outbound[k][1] = "PUT"}

(* The auto client never has two PUTs under way and never uses a point it  *)
(* does not know of: whatever the interleaving of its threads, the server  *)
(* finds nothing to penalise, nor a PUT in front of the HELLO.             *)
NeverPenalized ==
    is_auto_strategy =>
        /\ \A k \in DOMAIN to_client : to_client[k] \notin {"PENALTY", "BAD_PUT"}
        /\ server.owed["BAD_PUT"] = 0
        /\ server.open /\ ~server.known /\ to_server # <<>> => to_server[1][1] = "HELLO"

(* puts_without_answer counts what is on its way in either direction; some *)
(* of it is lost when the connection ends.                                 *)
PutsCounted ==
    is_auto_strategy =>
        LET first == IF is_first_message THEN 1 ELSE 0
            counted == IF pc["strategy"] = "choose" THEN 1 ELSE 0
            expected == first + counted + Cardinality(UnderWay) + server.owed["STATE"]
                          + server.owed["BAD_PUT"] + Count(Inbound, {"STATE", "BAD_PUT"})
        IN  IF server.open THEN puts_without_answer = expected
            ELSE puts_without_answer >= expected

(* The auto client never reads a STATE back: it keeps its own copy of its  *)
(* approximation.  The copy is what the server has and the PUTs under way. *)
CopyMatchesServer ==
    is_auto_strategy /\ server.open =>
        \A x \in DOMAIN current_approximation :
            current_approximation[x] =
                server.approximations[x]
                  + SumFunction([k \in UnderWay |->
                                   IF Outbound[k][2] = x THEN Outbound[k][3] ELSE 0])

(* Every PUT the server takes from the auto client leaves the score at     *)
(* least as good as any other PUT would have; before the first STATE, than *)
(* any other at the points 0 and 1.                                        *)
BestPutTaken ==
    [][is_auto_strategy /\ server.open /\ server'.open
         /\ server'.approximations # server.approximations
       => \A p \in 0..(IF server.approximations = Zeros THEN 1 ELSE K),
             v \in min_put_value..max_put_value :
               SquaredError(coeffs, server'.approximations)
                 <= SquaredError(coeffs, Put(server.approximations, p, v))]_vars

(* No power that poly_at computes is too large for an int.  Without this   *)
(* the client may approximate another polynomial than the server scores.   *)
PowersFit == \A c \in Coeffs, x \in 0..K : \A j \in DOMAIN c : Power(x, j - 1) < HalfRange

(* What was logged before the game was over, the scoring at the latest, is *)
(* printed before the process finishes.                                    *)
LogsPrinted == outcome = "finished" => \A k \in DOMAIN logs : logs[k] = "late"

(* The auto client is never left waiting: the answer it waits for comes    *)
(* and is counted, or the game is over for it.                             *)
PlaysOn ==
    is_auto_strategy /\ puts_without_answer > 0
      ~> puts_without_answer = 0 \/ server.over \/ ~server.open \/ outcome # "running"

(* The connection is the end of the process: once the server has closed it *)
(* no thread keeps the others from being joined.                           *)
ClientEnds == ~server.open ~> outcome # "running"

(* README.md: at the end of a round the final scoreboard goes to all       *)
(* players.  A scoreboard that was received is not an unexpected           *)
(* disconnect.                                                             *)
ScoringNotDropped ==
    outcome = "disconnect" =>
        \A k \in DOMAIN incoming_messages : incoming_messages[k] # "SCORING"

=============================================================================
