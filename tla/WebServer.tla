----------------------------- MODULE WebServer -----------------------------
(***************************************************************************)
(* web-server/src/server.cpp: a loop that accepts connections and a        *)
(* detached thread for each, which reads once, looks for a file and        *)
(* answers once.  The threads share the descriptors of the process, and    *)
(* its life: SIGPIPE in one of them ends all.                              *)
(***************************************************************************)
EXTENDS FiniteSets, Naturals, Sequences

CONSTANTS
    Clients,   \* each connects at most once
    Requests,  \* what each may send, see Request
    Content,   \* the files, by path: a page, "empty" or "none"
    Climbing,  \* the paths that contain ".."
    MaxFds     \* descriptors left for connections and files

Paths == DOMAIN Content
Pages == {Content[p] : p \in Paths} \ {"empty", "none"}

(* The request line a client means, and what one read() is to find of it   *)
(* when it does not get the whole request: more is sent "later", in a      *)
(* second segment, or the request is too "long" for the buffer.            *)
Line    == [method : {"GET", "POST", "GE"}, path : Paths]
Request == [asked : Line, first : Line, cut : {"no", "later", "long"}]

ASSUME RequestsAssumption ==
    /\ Requests \in [Clients -> SUBSET Request]
    /\ \A c \in Clients : \A r \in Requests[c] : r.cut # "no" \/ r.first = r.asked
ASSUME ContentAssumption == Climbing \subseteq Paths /\ {"/", "/index.html"} \subseteq Paths
ASSUME MaxFdsAssumption  == MaxFds \in Nat \ {0}

VARIABLES
    publicDir,  \* argv[2]
    process,    \* "serving"; "killed" by SIGPIPE; "failed", status 1
    backlog,    \* connections the kernel has completed
    thread,     \* per client, the locals of its handleClient(); starved: a
                \* history, no descriptor was left for the file
    client      \* per client, what it sends (request; how much was sent; unread:
                \* bytes wait in the server's socket), and how it sees the connection

server == <<publicDir, process, backlog>>
vars   == <<server, thread, client>>

NoLine    == [method |-> "", path |-> ""]
NoRequest == [asked |-> NoLine, first |-> NoLine, cut |-> "no"]
Answer    == [status : {0, 200, 404, 405}, body : Pages \cup {"none", "File Not Found"}]
NoAnswer  == [status |-> 0, body |-> "none"]
NotFound  == [status |-> 404, body |-> "File Not Found"]
Found(p)  == [status |-> 200, body |-> p]

Places == { "none",     \* no thread: not connected, or not accepted yet
            "reading",  \* in read()
            "finding",  \* the request is parsed
            "loading",  \* the file is open
            "writing", "closing", "done" }

(* "left": the client has closed the connection. *)
Views == {"away", "waiting", "answer", "end", "reset", "left"}

Init ==
    /\ publicDir \in {"./public", "../public"} /\ process = "serving" /\ backlog = <<>>
    /\ thread = [c \in Clients |->
                   [at |-> "none", line |-> NoLine, answer |-> NoAnswer, starved |-> FALSE]]
    /\ client = [c \in Clients |->
                   [request |-> NoRequest, sent |-> "nothing", unread |-> FALSE, view |-> "away"]]

-----------------------------------------------------------------------------
(* The clients. *)

Connect(c) ==
    /\ process = "serving" /\ client[c].view = "away"
    /\ client' = [client EXCEPT ![c].view = "waiting"]
    /\ backlog' = Append(backlog, c)
    /\ UNCHANGED <<publicDir, process, thread>>

Send(c) ==
    /\ client[c].view = "waiting" /\ client[c].sent = "nothing"
    /\ \E r \in Requests[c] :
          client' = [client EXCEPT ![c].request = r, ![c].unread = TRUE,
                                   ![c].sent = IF r.cut = "later" THEN "part" ELSE "whole"]
    /\ UNCHANGED <<server, thread>>

(* What reaches a socket the server has closed is answered by a reset,     *)
(* which may overtake the client's reading of the answer.                  *)
SendRest(c) ==
    /\ client[c].view \in {"waiting", "answer"} /\ client[c].sent = "part"
    /\ LET closed == thread[c].at = "done"
       IN  \E view \in {client[c].view} \cup (IF closed THEN {"reset"} ELSE {}) :
              client' = [client EXCEPT ![c].sent = "whole", ![c].view = view,
                                       ![c].unread = @ \/ ~closed]
    /\ UNCHANGED <<server, thread>>

Leave(c) ==
    /\ client[c].view = "waiting"
    /\ client' = [client EXCEPT ![c].view = "left"]
    /\ UNCHANGED <<server, thread>>

-----------------------------------------------------------------------------
(* The process: start(), and what ends it. *)

(* Descriptors in use: a socket per thread, and the file it reads. *)
Sockets == {c \in Clients : thread[c].at \notin {"none", "done"}}
Files   == {c \in Clients : thread[c].at = "loading"}
HasFreeFd == Cardinality(Sockets) + Cardinality(Files) < MaxFds

MayAccept == process = "serving" /\ backlog # <<>> /\ HasFreeFd

(* Without a descriptor accept() fails and is called again at once. *)
Accept ==
    /\ MayAccept
    /\ backlog' = Tail(backlog)
    /\ thread' = [thread EXCEPT ![Head(backlog)].at = "reading"]
    /\ UNCHANGED <<publicDir, process, client>>

Die(how) ==
    /\ process' = how
    /\ client' = [c \in Clients |-> IF client[c].view = "waiting"
                                      THEN [client[c] EXCEPT !.view = "reset"] ELSE client[c]]
    /\ UNCHANGED <<publicDir, backlog, thread>>

(* std::thread throws out of start(), and main() returns 1. *)
ThreadFail == MayAccept /\ Die("failed")

-----------------------------------------------------------------------------
(* A thread: handleClient() with parseRequest(), handleRequest() and       *)
(* readFile().                                                             *)

At(c, place) == process = "serving" /\ thread[c].at = place

(* mutant: one buffer for all threads *)
SharedBuffer(c) == CHOOSE d \in Clients : TRUE

BufferOf(c) == c

(* One read(): what has come so far, and 4095 bytes of it at most. *)
Read(c) ==
    /\ At(c, "reading") /\ client[c].unread
    /\ LET r == client[c].request
           line == IF client[c].sent = "part" \/ r.cut = "long" THEN r.first ELSE r.asked
       IN  /\ thread' = [thread EXCEPT ![BufferOf(c)].line = line, ![c].at = "finding"]
           /\ client' = [client EXCEPT ![c].unread = r.cut = "long"]
    /\ UNCHANGED server

(* mutant: a socket that does not block, or a receive timeout *)
ReadNonBlocking(c) ==
    /\ At(c, "reading") /\ ~client[c].unread
    /\ thread' = [thread EXCEPT ![c].at = "closing"]
    /\ UNCHANGED <<server, client>>

(* bytesRead <= 0: the client has closed the connection, or reset it with  *)
(* all that it had sent.                                                   *)
ReadNothing(c) ==
    /\ At(c, "reading") /\ client[c].view = "left"
    /\ thread' = [thread EXCEPT ![c].at = "closing"]
    /\ UNCHANGED <<server, client>>

FileOf(path) == IF path = "/" THEN "/index.html" ELSE path

(* mutant: only the directory is looked at *)
HasDotsBefore(path) == publicDir = "../public"

(* publicDir counts as well: find("..") is asked of the whole path. *)
HasDots(path) == publicDir = "../public" \/ path \in Climbing

(* A method other than GET sets the status 405, which is overwritten on    *)
(* every path.                                                             *)
StatusOf(line) == IF line.method = "GET" THEN 0 ELSE 405

Find(c) ==
    /\ At(c, "finding")
    /\ LET line   == thread[BufferOf(c)].line
           exists == ~HasDots(line.path) /\ Content[FileOf(line.path)] # "none"
       IN  thread' = IF exists /\ HasFreeFd
                       THEN [thread EXCEPT ![c].at = "loading",
                                           ![c].answer.status = StatusOf(line)]
                       ELSE [thread EXCEPT ![c].at = "writing", ![c].answer = NotFound,
                                           ![c].starved = exists]
    /\ UNCHANGED <<server, client>>

AnswerWith(content) == IF content = "empty" THEN NotFound ELSE Found(content)

Load(c) ==
    /\ At(c, "loading")
    /\ LET path == thread[BufferOf(c)].line.path
       IN  thread' = [thread EXCEPT ![c].at = "writing",
                                    ![c].answer = AnswerWith(Content[FileOf(path)])]
    /\ UNCHANGED <<server, client>>

(* The result of write() is not looked at.  It does not return before the  *)
(* client has taken what no buffer holds: pages are taken to be smaller.   *)
Write(c) ==
    /\ At(c, "writing")
    /\ thread' = [thread EXCEPT ![c].at = "closing"]
    /\ client' = [client EXCEPT ![c].view = IF @ = "waiting" THEN "answer" ELSE @]
    /\ UNCHANGED server

(* SIGPIPE, left at its default: the client has closed, then reset. *)
BrokenPipe(c) == At(c, "writing") /\ client[c].view = "left" /\ Die("killed")

(* mutant: the socket stays open *)
CloseForgotten(c) == FALSE

(* close() with bytes unread resets the connection, and the answer may be  *)
(* lost with it.                                                           *)
Close(c) ==
    /\ At(c, "closing")
    /\ thread' = [thread EXCEPT ![c].at = "done"]
    /\ \E v \in CASE client[c].view = "waiting" -> {"end", "reset"}
                  [] client[c].view = "answer" /\ client[c].unread -> {"answer", "reset"}
                  [] OTHER -> {client[c].view} :
          client' = [client EXCEPT ![c].view = v]
    /\ UNCHANGED server

ThreadStep(c) == \/ Read(c) \/ ReadNothing(c) \/ Find(c) \/ Load(c)
                 \/ Write(c) \/ BrokenPipe(c) \/ Close(c)

Next ==
    \/ Accept \/ ThreadFail
    \/ \E c \in Clients : \/ Connect(c) \/ Send(c) \/ SendRest(c) \/ Leave(c)
                          \/ ThreadStep(c)

Spec == Init /\ [][Next]_vars

(* Threads are scheduled; of clients nothing is assumed. *)
FairSpec == Spec /\ WF_vars(Accept) /\ \A c \in Clients : WF_vars(ThreadStep(c))

-----------------------------------------------------------------------------
(* Types; descriptors are never used twice.                                *)
TypeOK ==
    /\ publicDir \in {"./public", "../public"} /\ process \in {"serving", "killed", "failed"}
    /\ backlog \in Seq(Clients) /\ Cardinality(Sockets) + Cardinality(Files) <= MaxFds
    /\ thread \in [Clients -> [at : Places, line : Line \cup {NoLine},
                               answer : Answer,
                               starved : BOOLEAN]]
    /\ client \in [Clients -> [request : Request \cup {NoRequest},
                               sent : {"nothing", "part", "whole"}, unread : BOOLEAN,
                               view : Views]]

(* The file is there, as far as its path tells; it can be read, and GET    *)
(* asks for it.                                                            *)
IsThere(path) == path \notin Climbing /\ Content[FileOf(path)] # "none"
IsDue(c, line) ==
    /\ IsThere(line.path) /\ Content[FileOf(line.path)] \in Pages /\ line.method = "GET"
    /\ publicDir = "./public" /\ ~thread[c].starved

Fits(c, line) ==
    LET answer == thread[c].answer
        page   == Content[FileOf(line.path)]
    IN  /\ answer.body \in {page, NotFound.body}
        /\ answer.status = 200 => answer.body = page
        /\ ~IsThere(line.path) => answer = NotFound
        /\ IsDue(c, line)      => answer = Found(page)

(* The answers of TASK.md:36-46, with other threads at work: the client    *)
(* gets no one else's page, 200 only with the content of the file it has   *)
(* asked for, 404 for what is not there or has dots in its path, and 200   *)
(* when it GETs a page that can be opened.  Only a request that is not     *)
(* read as a whole may be taken for a shorter one (server.cpp:88, 115-148).*)
(* For another method, an empty file, a directory named with dots or a     *)
(* file that no descriptor is left for, it leaves the status open.         *)
AnswerFits ==
    \A c \in Clients : client[c].view = "answer" =>
        \/ Fits(c, client[c].request.asked)
        \/ client[c].request.cut # "no" /\ Fits(c, client[c].request.first)

(* A connection that ends without its answer had a request of which a part *)
(* was unread at the close(), or the process has ended; and it is killed   *)
(* only by clients that leave (server.cpp:74, 88, 102-105).                *)
LostHasReason ==
    /\ \A c \in Clients : client[c].view \in {"end", "reset"} =>
          client[c].request.cut # "no" \/ process # "serving"
    /\ process = "killed" => \E c \in Clients : client[c].view = "left"

Silent(c) == thread[c].at = "reading" /\ client[c].sent = "nothing"

(* No descriptor is leaked and no thread is stuck: a client that has sent  *)
(* a request sees the end of it, unless clients that send nothing hold all *)
(* descriptors, as a thread waits for its client without a limit           *)
(* (server.cpp:64-74, 88, 105).                                            *)
Answered ==
    \A c \in Clients :
        (client[c].view = "waiting" /\ client[c].sent # "nothing")
            ~> (client[c].view # "waiting" \/ Cardinality({d \in Clients : Silent(d)}) >= MaxFds)

-----------------------------------------------------------------------------
(* The inductive invariant behind AnswerFits and LostHasReason.            *)

(* A connection waits once, and before it has a thread. *)
BacklogInv ==
    /\ \A i \in 1..Len(backlog) : /\ thread[backlog[i]].at = "none"
                                 /\ client[backlog[i]].view # "away"
    /\ \A i, j \in 1..Len(backlog) : backlog[i] = backlog[j] => i = j

(* What a client has sent is a request of its own. *)
SentInv(c) ==
    /\ client[c].sent # "nothing" => client[c].request \in Requests[c]
    /\ client[c].sent = "part" => client[c].request.cut # "no"
    /\ client[c].unread => client[c].sent # "nothing"
    /\ client[c].view = "away" => thread[c].at = "none" /\ client[c].sent = "nothing"

(* The thread has read what its client sent, or the first part of it.      *)
HasRead(c) ==
    /\ client[c].sent # "nothing"
    /\ \/ thread[c].line = client[c].request.asked
       \/ client[c].request.cut # "no" /\ thread[c].line = client[c].request.first

ThreadInv(c) ==
    /\ thread[c].at \in {"finding", "loading", "writing"} => HasRead(c)
    /\ thread[c].at = "loading" => /\ ~HasDots(thread[c].line.path)
                                  /\ Content[FileOf(thread[c].line.path)] # "none"
    /\ thread[c].at = "writing" => Fits(c, thread[c].line)
    /\ thread[c].at \in {"closing", "done"} => client[c].view \notin {"waiting", "away"}
    /\ client[c].unread /\ thread[c].at \notin {"none", "reading"} =>
          client[c].request.cut # "no" \/ client[c].view \notin {"waiting", "answer"}

ViewInv(c) ==
    client[c].view = "answer" =>
        /\ thread[c].at \in {"closing", "done"}
        /\ HasRead(c) /\ Fits(c, thread[c].line)

(* A connection is in the backlog or with the one thread that has read     *)
(* what its client sent, and the client sees no answer but that thread's   *)
(* (server.cpp:61-105).                                                    *)
IInv == /\ TypeOK /\ IsFiniteSet(Sockets) /\ BacklogInv
        /\ \A c \in Clients : SentInv(c) /\ ThreadInv(c) /\ ViewInv(c)
        /\ LostHasReason

============================================================================
