---------------------------- MODULE SumExchange ----------------------------
(***************************************************************************)
(* socket-programming/client.cpp with the server of SumServer: each client *)
(* sends its name and a number and prints the sum of what it gets.  The    *)
(* steps of the server are those of SumServer; what they do to the         *)
(* connections of the clients is added.                                    *)
(***************************************************************************)
EXTENDS SumServer

(* What a user gives: the number, and what the server reads as the number. *)
(* They differ when the name has a line break in it, as the server reads   *)
(* two lines; the rest of the message is then not read.                    *)
CONSTANT Inputs   \* per client, what its user may give

Input == [number : {"inRange", "outOfRange"}, rest : BOOLEAN,
          secondLine : {"inRange", "outOfRange", "noNumber"}]

ASSUME InputsAssumption ==
    /\ Inputs \in [Clients -> SUBSET Input]
    /\ \A c \in Clients : \A i \in Inputs[c] : i.rest \/ i.secondLine = i.number

VARIABLES
    at,     \* where main() of each client is, or how it has ended
    input,  \* its arguments
    wire    \* what it will find when it reads: an answer, the end, an error

clients == <<at, input, wire>>
exchangeVars == <<vars, clients>>

Steps == {"start", "sending", "waiting"}
Ends  == { "sum",     \* it has printed the sum, from the server's answer
           "zero",    \* it has printed a sum, with 0 for the server's number
           "error",   \* it has reported an error
           "mute",    \* it was killed before it sent anything
           "killed" } \* it was killed after that
Wires == {"nothing", "answer", "eof", "reset"}

ExchangeInit ==
    /\ Init
    /\ at = [c \in Clients |-> "start"]
    /\ input \in [Clients -> Input] /\ \A c \in Clients : input[c] \in Inputs[c]
    /\ wire = [c \in Clients |-> "nothing"]

Go(c, place) == at' = [at EXCEPT ![c] = place]

-----------------------------------------------------------------------------
(* The client. *)

ClientConnect(c) ==
    /\ at[c] = "start" /\ Connect(c)
    /\ Go(c, "sending")
    /\ UNCHANGED <<input, wire>>

Refused(c) ==
    /\ at[c] = "start" /\ phase \in {"sleeping", "awake", "exited"}
    /\ Go(c, "error")
    /\ UNCHANGED <<vars, input, wire>>

(* send_all(): the message is one segment.  What is sent to a socket that  *)
(* is closed brings a reset, now or when the end has been read.            *)
Send(c) ==
    /\ at[c] = "sending"
    /\ IF wire[c] \in {"eof", "reset"}
         THEN \/ Go(c, "error") /\ UNCHANGED wire
              \/ Go(c, "waiting") /\ UNCHANGED wire
              \/ Go(c, "waiting") /\ wire' = [wire EXCEPT ![c] = "reset"]
         ELSE Go(c, "waiting") /\ UNCHANGED wire
    /\ UNCHANGED <<vars, input>>

(* mutant: recv() that returns 0 is tried again *)
EndIsNoEnd(w) == CASE w = "answer" -> "sum" [] w = "reset" -> "error" [] OTHER -> "waiting"

(* mutant: an empty text is taken for an answer *)
EmptyIsAnswer(w) == IF w = "reset" THEN "error" ELSE "sum"

(* recv_until_two_newlines() returns an empty text at the end of the       *)
(* stream, which has no second line.                                       *)
Result(w) == CASE w = "answer" -> "sum" [] w = "reset" -> "error" [] OTHER -> "zero"

Receive(c) ==
    /\ at[c] = "waiting" /\ wire[c] # "nothing"
    /\ Go(c, Result(wire[c]))
    /\ UNCHANGED <<vars, input, wire>>

Kill(c) ==
    /\ at[c] \in {"sending", "waiting"}
    /\ Go(c, IF at[c] = "sending" THEN "mute" ELSE "killed")
    /\ UNCHANGED <<vars, input, wire>>

Client(c) == Refused(c) \/ Send(c) \/ Receive(c)

-----------------------------------------------------------------------------
(* The server, as its clients see it. *)

(* close() of a connection with something unread resets it. *)
ClosedBy(c, unread) == wire' = [wire EXCEPT ![c] = IF unread THEN "reset" ELSE "eof"]

(* fork() that fails, and close(listen_fd), close connections. *)
ParentStep ==
    /\ Parent \/ AcceptFail \/ Handlers
    /\ wire' = [c \in Clients |->
                  CASE child'[c] # "dropped" \/ child[c] = "dropped" -> wire[c]
                    [] phase = "closing" \/ at[c] # "sending"        -> "reset"
                    [] OTHER                                         -> "eof"]
    /\ UNCHANGED <<at, input>>

(* The child reads the client's two lines; or the end of the stream, when  *)
(* the client was killed before it sent them.                              *)
ChildRead(c) ==
    /\ Read(c)
    /\ \/ at[c] \notin {"sending", "mute"} /\ request'[c] = input[c].secondLine
       \/ at[c] = "mute" /\ request'[c] = "noNewline"
    /\ UNCHANGED clients

ChildReply(c) ==
    /\ Reply(c)
    /\ wire' = [wire EXCEPT ![c] = "answer"]
    /\ UNCHANGED <<at, input>>

(* The child closes, and a reset may overtake the answer. *)
ChildLeaves(c) ==
    /\ Leave(c)
    /\ UNCHANGED wire \/ (input[c].rest /\ ClosedBy(c, TRUE))
    /\ UNCHANGED <<at, input>>

(* recv() or send() fails on a connection that is broken, or the server's  *)
(* own name is too long for an answer.                                     *)
ChildFails(c) ==
    /\ ChildFail(c)
    /\ ClosedBy(c, TRUE) \/ (child[c] = "replying" /\ ClosedBy(c, input[c].rest))
    /\ UNCHANGED <<at, input>>

ChildStep(c) ==
    \/ ChildRead(c) \/ ChildReply(c) \/ ChildLeaves(c)
    \/ SignalParent(c) /\ UNCHANGED clients

ExchangeNext ==
    \/ ParentStep
    \/ \E c \in Clients : \/ ClientConnect(c) \/ Client(c) \/ Kill(c)
                          \/ ChildStep(c) \/ ChildFails(c)

Exchange == ExchangeInit /\ [][ExchangeNext]_exchangeVars

(* As in SumServer; and a client that has connected goes on.               *)
FairExchange ==
    /\ Exchange /\ Fairness
    /\ \A c \in Clients : WF_exchangeVars(Client(c)) /\ WF_exchangeVars(ChildRead(c))

-----------------------------------------------------------------------------
(* Types; only an answer that was sent is printed as one (client.cpp:122).*)
ExchangeTypeOK ==
    /\ at \in [Clients -> Steps \cup Ends]
    /\ \A c \in Clients : input[c] \in Inputs[c]
    /\ wire \in [Clients -> Wires]
    /\ \A c \in Clients : at[c] = "sum" => request[c] # "none"

(* The server shuts down only for a user who gave a number out of range,   *)
(* or a name of several lines, whatever happens to other clients           *)
(* (server.cpp:191, client.cpp:71), or for an accept() that failed.        *)
ShutdownIsAskedFor ==
    phase \in {"closing", "sleeping", "awake", "exited"} =>
       acceptFailed \/ \E c \in Clients : input[c].number = "outOfRange" \/ input[c].rest

(* server.cpp:17, "Если число клиента вне диапазона [1,100], сервер        *)
(* инициирует корректное завершение работы", and test_shutdown.py:10-17: a *)
(* client that gave such a number and has had its answer brings the server *)
(* down, unless the signal falls between the check of the flag and         *)
(* accept(), where the server then sleeps until the next connection.       *)
OutOfRangeShutsDown ==
    (\E c \in Clients : at[c] = "sum" /\ input[c].number = "outOfRange" /\ ~input[c].rest)
        ~> (phase = "exited" \/ missed)

(* Every client that has connected comes to an end: it is answered, closed *)
(* or reset, whatever becomes of the server (client.cpp:105-137).  One     *)
(* that the kernel has queued waits for an accept(), which comes unless    *)
(* the server sleeps through its own shutdown.                             *)
ClientsEnd ==
    \A c \in Clients : (at[c] = "waiting") ~> (at[c] \in Ends)

============================================================================
