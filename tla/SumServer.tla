----------------------------- MODULE SumServer -----------------------------
(***************************************************************************)
(* socket-programming/server.cpp: a parent that accepts connections and    *)
(* forks a child for each; a child that reads a number outside [1,100]     *)
(* signals its parent, which then shuts down.  The interleavings that      *)
(* matter are those of the parent's system calls with the two signal       *)
(* handlers, so that each of them is a step.                               *)
(***************************************************************************)
EXTENDS FiniteSets, Naturals, Sequences

CONSTANT Clients                     \* each connects at most once

VARIABLES
    phase,        \* where main() of the parent is
    requested,    \* g_shutdown_requested
    usr1, chld,   \* SIGUSR1, SIGCHLD pending for the parent
    backlog,      \* connections the kernel has completed for listen_fd
    child,        \* per client, the child process that serves it
    request,      \* per client, what its child has read
    late,         \* history: connections accepted after the request
    missed,       \* history: the request came between check and accept()
    acceptFailed  \* history: accept() failed with an error but EINTR

vars == <<phase, requested, usr1, chld, backlog, child, request,
          late, missed, acceptFailed>>
history == <<late, missed, acceptFailed>>

Phases == { "check",       \* while (!g_shutdown_requested)
            "accept",      \* about to call accept()
            "blocked",     \* asleep in accept()
            "interrupted", \* accept() has returned EINTR
            "closing",     \* out of the loop
            "sleeping",    \* in sleep(1)
            "awake",       \* sleep(1) has returned
            "exited" }

ChildStates == { "away",       \* the client has not connected
                 "queued",     \* in the backlog
                 "dropped",    \* closed by the server without a child
                 "reading", "replying", "signalling", "leaving",
                 "zombie", "reaped" }

(* What recv_until_two_newlines may return: a number, in range or not; a   *)
(* first line only, so that atoi sees an empty string; not even that.      *)
Requests == {"none", "inRange", "outOfRange", "noNumber", "noNewline"}

(* second_line && (client_number < 1 || client_number > 100) *)
AnyNumber(r) == r \in {"inRange", "outOfRange", "noNumber"}   \* mutant

AsksShutdown(r) == r \in {"outOfRange", "noNumber"}

Set(c, state) == child' = [child EXCEPT ![c] = state]

-----------------------------------------------------------------------------
(* The clients and the kernel's queue. *)

Connect(c) ==
    /\ child[c] = "away"
    /\ phase \notin {"sleeping", "awake", "exited"}
    /\ Set(c, "queued")
    /\ backlog' = Append(backlog, c)
    /\ UNCHANGED <<phase, requested, usr1, chld, request, history>>

-----------------------------------------------------------------------------
(* The parent. *)

(* mutant: the flag is only looked at after EINTR *)
LeavesLoopNever == FALSE

LeavesLoop == requested

CheckFlag ==
    /\ phase = "check"
    /\ phase' = IF LeavesLoop THEN "closing" ELSE "accept"
    /\ UNCHANGED <<requested, usr1, chld, backlog, child, request, history>>

Block ==
    /\ phase = "accept" /\ backlog = <<>>
    /\ phase' = "blocked"
    /\ UNCHANGED <<requested, usr1, chld, backlog, child, request, history>>

(* accept() and fork(); when fork() fails the connection is closed.        *)
Accept ==
    /\ phase \in {"accept", "blocked"}
    /\ backlog # <<>>
    /\ backlog' = Tail(backlog)
    /\ Set(Head(backlog), "reading") \/ Set(Head(backlog), "dropped")
    /\ late' = late + (IF requested THEN 1 ELSE 0)
    /\ phase' = "check"
    /\ UNCHANGED <<requested, usr1, chld, request, missed, acceptFailed>>

(* Any other error of accept() ends the loop as a request does. *)
AcceptFail ==
    /\ phase \in {"accept", "blocked"}
    /\ phase' = "closing"
    /\ acceptFailed' = TRUE
    /\ UNCHANGED <<requested, usr1, chld, backlog, child, request, late, missed>>

AfterInterrupt ==
    /\ phase = "interrupted"
    /\ phase' = IF requested THEN "closing" ELSE "check"
    /\ UNCHANGED <<requested, usr1, chld, backlog, child, request, history>>

(* close(listen_fd) resets what the backlog still holds. *)
Close ==
    /\ phase = "closing"
    /\ phase' = "sleeping"
    /\ backlog' = <<>>
    /\ child' = [c \in Clients |-> IF child[c] = "queued" THEN "dropped" ELSE child[c]]
    /\ UNCHANGED <<requested, usr1, chld, request, history>>

(* The second of sleep(1) is over. *)
SleepEnds ==
    /\ phase = "sleeping"
    /\ phase' = "awake"
    /\ UNCHANGED <<requested, usr1, chld, backlog, child, request, history>>

(* while (waitpid(-1, NULL, WNOHANG) > 0) {} : all that have ended. *)
ReapAll == child' = [c \in Clients |-> IF child[c] = "zombie" THEN "reaped" ELSE child[c]]

Exit ==
    /\ phase = "awake"
    /\ phase' = "exited"
    /\ ReapAll
    /\ UNCHANGED <<requested, usr1, chld, backlog, request, history>>

-----------------------------------------------------------------------------
(* Signals.  A handler runs between any two steps of the parent.  SIGUSR1  *)
(* is installed without SA_RESTART and ends accept() with EINTR; SIGCHLD   *)
(* restarts accept(); sleep() is ended by either.                          *)

InterruptedByUsr1(p) ==
    CASE p = "blocked"  -> "interrupted"
      [] p = "sleeping" -> "awake"
      [] OTHER          -> p

(* mutant: SIGUSR1 installed with SA_RESTART as SIGCHLD is *)
RestartedByUsr1(p) == IF p = "sleeping" THEN "awake" ELSE p

AfterUsr1(p) == InterruptedByUsr1(p)

HandleUsr1 ==
    /\ usr1 /\ phase # "exited"
    /\ usr1' = FALSE
    /\ requested' = TRUE
    /\ phase' = AfterUsr1(phase)
    /\ missed' = (missed \/ phase = "accept")
    /\ UNCHANGED <<chld, backlog, child, request, late, acceptFailed>>

(* mutant: the handler reaps one child per signal *)
ReapOne ==
    \/ /\ \A c \in Clients : child[c] # "zombie"
       /\ UNCHANGED child
    \/ \E c \in Clients : child[c] = "zombie" /\ Set(c, "reaped")

ReapInHandler == ReapAll

HandleChld ==
    /\ chld /\ phase # "exited"
    /\ chld' = FALSE
    /\ ReapInHandler
    /\ phase' = IF phase = "sleeping" THEN "awake" ELSE phase
    /\ UNCHANGED <<requested, usr1, backlog, request, late, missed, acceptFailed>>

-----------------------------------------------------------------------------
(* The children. *)

(* A child ends, with whatever status; signals of one kind do not queue.   *)
Die(c) ==
    /\ Set(c, "zombie")
    /\ chld' = TRUE

(* The message of the client arrives, as far as the client sends it. *)
Read(c) ==
    /\ child[c] = "reading"
    /\ \E r \in Requests \ {"none"} : request' = [request EXCEPT ![c] = r]
    /\ Set(c, "replying")
    /\ UNCHANGED <<phase, requested, usr1, chld, backlog, history>>

Reply(c) ==
    /\ child[c] = "replying"
    /\ Set(c, IF AsksShutdown(request[c]) THEN "signalling" ELSE "leaving")
    /\ UNCHANGED <<phase, requested, usr1, chld, backlog, request, history>>

(* recv() or send() fails: _exit(1), or death by SIGPIPE, before anything  *)
(* else is done.                                                           *)
ChildFail(c) ==
    /\ child[c] \in {"reading", "replying"}
    /\ Die(c)
    /\ UNCHANGED <<phase, requested, usr1, backlog, request, history>>

(* kill(getppid(), SIGUSR1); getppid() is no longer the server once that   *)
(* has exited.                                                             *)
SignalParent(c) ==
    /\ child[c] = "signalling"
    /\ Set(c, "leaving")
    /\ usr1' = (usr1 \/ phase # "exited")
    /\ UNCHANGED <<phase, requested, chld, backlog, request, history>>

Leave(c) ==
    /\ child[c] = "leaving"
    /\ Die(c)
    /\ UNCHANGED <<phase, requested, usr1, backlog, request, history>>

-----------------------------------------------------------------------------
Init ==
    /\ phase = "check"
    /\ requested = FALSE /\ usr1 = FALSE /\ chld = FALSE
    /\ backlog = <<>>
    /\ child = [c \in Clients |-> "away"]
    /\ request = [c \in Clients |-> "none"]
    /\ late = 0 /\ missed = FALSE /\ acceptFailed = FALSE

Parent == CheckFlag \/ Block \/ Accept \/ AfterInterrupt \/ Close \/ SleepEnds \/ Exit

Handlers == HandleUsr1 \/ HandleChld

Child(c) == Reply(c) \/ SignalParent(c) \/ Leave(c)

Next ==
    \/ Parent
    \/ AcceptFail
    \/ Handlers
    \/ \E c \in Clients : Connect(c) \/ Read(c) \/ ChildFail(c) \/ Child(c)

Spec == Init /\ [][Next]_vars

(* Running processes are scheduled and signals are delivered; clients need *)
(* not connect or send.                                                    *)
Fairness ==
    /\ WF_vars(Parent)
    /\ WF_vars(HandleUsr1)
    /\ WF_vars(HandleChld)
    /\ \A c \in Clients : WF_vars(Child(c))

FairSpec == Spec /\ Fairness

-----------------------------------------------------------------------------
(* Every variable keeps its type. *)
TypeOK ==
    /\ phase \in Phases
    /\ requested \in BOOLEAN /\ usr1 \in BOOLEAN /\ chld \in BOOLEAN
    /\ backlog \in Seq(Clients)
    /\ child \in [Clients -> ChildStates]
    /\ request \in [Clients -> Requests]
    /\ late \in Nat /\ missed \in BOOLEAN /\ acceptFailed \in BOOLEAN

(* test_shutdown.py:17: after the request "connection racing may still     *)
(* allow one more accept", and never a second one.                         *)
AtMostOneMoreAccept == late <= 1

(* The server leaves its loop only because a client has sent a number out  *)
(* of range and been answered, or because accept() itself has failed       *)
(* (server.cpp:17 and 131-138).                                            *)
ShutdownHasReason ==
    phase \in {"closing", "sleeping", "awake", "exited"} =>
       \/ acceptFailed
       \/ \E c \in Clients : /\ request[c] \in {"outOfRange", "noNumber"}
                             /\ child[c] \in {"leaving", "zombie", "reaped"}

(* "чтобы избежать зомби" (server.cpp:26): a child that has ended is       *)
(* reaped, however its SIGCHLD merges with others, or the server exits.    *)
NoZombieStays ==
    \A c \in Clients : (child[c] = "zombie") ~> (child[c] = "reaped" \/ phase = "exited")

-----------------------------------------------------------------------------
(* The inductive invariant behind AtMostOneMoreAccept and                  *)
(* ShutdownHasReason.                                                      *)

(* After the one late accept the parent is on its way out. *)
LateInv == late \in {0, 1} /\ (late = 1 => requested /\ phase \notin {"accept", "blocked"})

(* The backlog holds queued clients, each once. *)
BacklogInv ==
    /\ \A i \in 1..Len(backlog) : child[backlog[i]] = "queued"
    /\ \A i, j \in 1..Len(backlog) : backlog[i] = backlog[j] => i = j

HasAsked(c) ==
    /\ AsksShutdown(request[c])
    /\ child[c] \in {"leaving", "zombie", "reaped"}

(* A signal that is pending or handled has a child behind it. *)
ReasonInv ==
    /\ requested \/ usr1 => \E c \in Clients : HasAsked(c)
    /\ phase \in {"interrupted", "closing", "sleeping", "awake", "exited"} =>
          acceptFailed \/ \E c \in Clients : HasAsked(c)
    /\ \A c \in Clients : child[c] = "signalling" => AsksShutdown(request[c])

IInv == TypeOK /\ LateInv /\ BacklogInv /\ ReasonInv

=============================================================================
