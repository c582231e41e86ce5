-------------------------- MODULE WebServerProofs --------------------------
(***************************************************************************)
(* Proofs about WebServer, for any number of clients, files and            *)
(* descriptors.                                                            *)
(***************************************************************************)
EXTENDS WebServer, FiniteSetTheorems, TLAPS

Local(c) == SentInv(c) /\ ThreadInv(c) /\ ViewInv(c)

ThreadType == [at : Places, line : Line \cup {NoLine},
               answer : Answer,
               starved : BOOLEAN]
ClientType == [request : Request \cup {NoRequest}, sent : {"nothing", "part", "whole"},
               unread : BOOLEAN, view : Views]

Types ==
    /\ publicDir \in {"./public", "../public"} /\ process \in {"serving", "killed", "failed"}
    /\ backlog \in Seq(Clients)
    /\ thread \in [Clients -> ThreadType] /\ client \in [Clients -> ClientType]

FdInv == IsFiniteSet(Sockets) /\ Cardinality(Sockets) + Cardinality(Files) <= MaxFds

Lost(c) == client[c].view \in {"end", "reset"} => client[c].request.cut # "no" \/ process # "serving"

Killed == process = "killed" => \E c \in Clients : client[c].view = "left"

Inv == Types /\ BacklogInv /\ (\A c \in Clients : Local(c) /\ Lost(c)) /\ Killed

LEMMA AnswerTypes ==
    /\ NoAnswer \in Answer /\ NotFound \in Answer
    /\ \A page \in Pages : Found(page) \in Answer
    /\ \A a \in Answer, line \in Line : [a EXCEPT !.status = StatusOf(line)] \in Answer
<1>1. NoAnswer \in Answer /\ NotFound \in Answer
  BY DEF NoAnswer, NotFound, Answer
<1>2. ASSUME NEW page \in Pages PROVE Found(page) \in Answer
  <2> HIDE DEF Pages
  <2> QED BY DEF Found, Answer
<1>3. ASSUME NEW a \in Answer, NEW line \in Line
      PROVE  [a EXCEPT !.status = StatusOf(line)] \in Answer
  <2>1. PICK status \in {0, 200, 404, 405} : status = StatusOf(line)
    BY DEF StatusOf
  <2>2. ASSUME NEW S, NEW B, NEW r \in [status : S, body : B], NEW s \in S
        PROVE  [r EXCEPT !.status = s] \in [status : S, body : B]
    OBVIOUS
  <2> DEFINE St == {0, 200, 404, 405}
             Bo == Pages \cup {"none", "File Not Found"}
  <2>3. Answer = [status : St, body : Bo] /\ status \in St
    BY ZenonT(30) DEF Answer
  <2> HIDE DEF St, Bo
  <2>4. [a EXCEPT !.status = status] \in Answer
    BY <2>2, <2>3
  <2> QED BY <2>1, <2>4
<1> QED BY <1>1, <1>2, <1>3

(* The parts of the inductive invariant. *)
LEMMA Parts == IInv <=> Inv /\ FdInv
  BY DEF IInv, Inv, FdInv, TypeOK, Types, ThreadType, ClientType, Local, Lost, Killed,
         LostHasReason

(* What one client does, and its thread, is nothing to the others. *)
LEMMA Frame ==
    ASSUME NEW c \in Clients, thread'[c] = thread[c], client'[c] = client[c],
           UNCHANGED publicDir
    PROVE  Local(c) => Local(c)'
  BY DEF Local, SentInv, ThreadInv, ViewInv, HasRead, Fits, IsThere, IsDue, HasDots

(* A step of a client or of its thread alone, in the parts of Inv.         *)
StepOf(c) ==
    /\ thread' \in [Clients -> ThreadType] /\ client' \in [Clients -> ClientType]
    /\ UNCHANGED <<publicDir, process>>
    /\ \A d \in Clients \ {c} : thread'[d] = thread[d] /\ client'[d] = client[d]

LEMMA OneMoves ==
    ASSUME NEW c \in Clients, Inv, StepOf(c), UNCHANGED backlog,
           Local(c)', Lost(c)',
           client[c].view # "away" => client'[c].view # "away",
           client[c].view = "left" => client'[c].view = "left",
           thread[c].at = "none" => thread'[c].at = "none"
    PROVE  Inv'
<1>1. Types'
  BY DEF Inv, Types, StepOf
<1>2. \A d \in Clients : Local(d)' /\ Lost(d)'
  <2> TAKE d \in Clients
  <2>1. CASE d = c
    BY <2>1
  <2>2. CASE d # c
    <3>1. thread'[d] = thread[d] /\ client'[d] = client[d]
      BY <2>2 DEF StepOf
    <3>2. Local(d)'
      BY <3>1, Frame DEF Inv, StepOf
    <3> QED BY <3>1, <3>2 DEF Inv, StepOf, Lost
  <2> QED BY <2>1, <2>2
<1>3. Killed'
  <2>1. \A d \in Clients : client[d].view = "left" => client'[d].view = "left"
    BY DEF StepOf
  <2> QED BY <2>1 DEF Inv, StepOf, Killed
<1>4. BacklogInv'
  <2>1. \A i \in 1..Len(backlog) : backlog[i] \in Clients
    BY DEF Inv, Types
  <2>2. \A d \in Clients : /\ thread[d].at = "none" => thread'[d].at = "none"
                           /\ client[d].view # "away" => client'[d].view # "away"
    BY DEF StepOf
  <2> QED BY <2>1, <2>2 DEF Inv, BacklogInv
<1> QED BY <1>1, <1>2, <1>3, <1>4 DEF Inv

(* The requests of a client are lines of the files' paths.                 *)
LEMMA RequestType ==
    ASSUME NEW c \in Clients, SentInv(c), client[c].sent # "nothing"
    PROVE  /\ client[c].request \in Request
           /\ client[c].request.asked \in Line /\ client[c].request.first \in Line
           /\ client[c].request.cut = "no" => client[c].request.first = client[c].request.asked
  BY RequestsAssumption DEF SentInv, Request

LEMMA FilePath == ASSUME NEW p \in Paths PROVE FileOf(p) \in Paths
  BY ContentAssumption DEF FileOf

-----------------------------------------------------------------------------
(* The clients. *)

LEMMA ConnectStep == ASSUME NEW c \in Clients, Inv, Connect(c) PROVE Inv'
<1> USE DEF Inv
<1>1. /\ client' = [client EXCEPT ![c].view = "waiting"] /\ client[c].view = "away"
      /\ UNCHANGED <<publicDir, process, thread>>
      /\ backlog' = Append(backlog, c)
  BY DEF Connect
<1>2. Types'
  <2>1. client[c] \in ClientType
    BY DEF Types
  <2>2. [client[c] EXCEPT !.view = "waiting"] \in ClientType
    BY <2>1 DEF ClientType, Views
  <2>3. client' \in [Clients -> ClientType]
    BY <1>1, <2>2 DEF Types
  <2>4. backlog' \in Seq(Clients)
    BY <1>1 DEF Types
  <2> QED BY <1>1, <2>3, <2>4 DEF Types
<1>3. client[c] \in ClientType /\ client'[c] = [client[c] EXCEPT !.view = "waiting"]
  BY <1>1 DEF Types
<1>4. \A d \in Clients \ {c} : client'[d] = client[d]
  BY <1>1 DEF Types
<1>5. Local(c)' /\ Lost(c)'
  <2>1. Local(c) /\ thread[c].at = "none" /\ client[c].sent = "nothing"
    BY <1>1 DEF Local, SentInv
  <2> QED BY <1>1, <1>3, <2>1 DEF Local, SentInv, ThreadInv, ViewInv, Lost, ClientType
<1>6. \A d \in Clients : Local(d)' /\ Lost(d)'
  <2> SUFFICES ASSUME NEW d \in Clients, d # c PROVE Local(d)' /\ Lost(d)'
    BY <1>5
  <2>1. client'[d] = client[d] /\ thread'[d] = thread[d]
    BY <1>1, <1>4
  <2>2. Local(d)'
    BY <1>1, <2>1, Frame
  <2> QED BY <1>1, <2>1, <2>2 DEF Lost
<1>7. Killed'
  BY <1>1, <1>4 DEF Killed
<1>8. BacklogInv'
  <2>1. /\ backlog \in Seq(Clients) /\ Len(backlog') = Len(backlog) + 1
        /\ \A i \in 1..Len(backlog) : backlog'[i] = backlog[i] /\ backlog[i] \in Clients
        /\ backlog'[Len(backlog) + 1] = c
    BY <1>1 DEF Types
  <2>2. \A i \in 1..Len(backlog) : backlog[i] # c
    BY <1>1 DEF BacklogInv
  <2>3. thread[c].at = "none"
    BY <1>1 DEF Local, SentInv
  <2>4. client'[c].view # "away"
    BY <1>3 DEF ClientType
  <2>5. \A i \in 1..Len(backlog') : /\ thread'[backlog'[i]].at = "none"
                                    /\ client'[backlog'[i]].view # "away"
    BY <1>1, <1>4, <2>1, <2>2, <2>3, <2>4 DEF BacklogInv
  <2>6. \A i, j \in 1..Len(backlog') : backlog'[i] = backlog'[j] => i = j
    BY <2>1, <2>2 DEF BacklogInv
  <2> QED BY <2>5, <2>6 DEF BacklogInv
<1> QED BY <1>2, <1>6, <1>7, <1>8

LEMMA SendStep == ASSUME NEW c \in Clients, Inv, Send(c) PROVE Inv'
<1>1. PICK r \in Requests[c] :
        client' = [client EXCEPT ![c].request = r, ![c].unread = TRUE,
                                 ![c].sent = IF r.cut = "later" THEN "part" ELSE "whole"]
  BY DEF Send
<1>2. UNCHANGED <<server, thread>> /\ client[c].view = "waiting" /\ client[c].sent = "nothing"
  BY DEF Send
<1>3. r \in Request
  BY RequestsAssumption
<1>4. client[c] \in ClientType
  BY DEF Inv, Types
<1>5. client'[c] = [client[c] EXCEPT !.request = r, !.unread = TRUE,
                                     !.sent = IF r.cut = "later" THEN "part" ELSE "whole"]
  BY <1>1 DEF Inv, Types
<1>6. client'[c] \in ClientType
  BY <1>3, <1>4, <1>5 DEF ClientType
<1>7. StepOf(c) /\ UNCHANGED backlog
  BY <1>1, <1>2, <1>6 DEF StepOf, Inv, Types, server
<1>8. Local(c)' /\ Lost(c)'
  <2>1. thread[c].at \in {"none", "reading"}
    BY <1>2, <1>4 DEF Inv, Local, ThreadInv, HasRead, Types, ThreadType, Places
  <2>2. SentInv(c)'
    BY <1>2, <1>4, <1>5 DEF SentInv, ClientType
  <2>3. ThreadInv(c)' /\ ViewInv(c)' /\ Lost(c)'
    BY <1>2, <1>4, <1>5, <2>1 DEF ThreadInv, ViewInv, Lost, ClientType
  <2> QED BY <2>2, <2>3 DEF Local
<1> QED BY <1>2, <1>4, <1>5, <1>7, <1>8, OneMoves DEF ClientType

LEMMA SendRestStep == ASSUME NEW c \in Clients, Inv, SendRest(c) PROVE Inv'
<1>1. PICK view \in {client[c].view, "reset"}, more \in BOOLEAN :
        /\ client' = [client EXCEPT ![c].sent = "whole", ![c].view = view, ![c].unread = more]
        /\ more => client[c].unread \/ thread[c].at # "done"
        /\ view = "reset" => thread[c].at = "done" \/ client[c].view = "reset"
  <2>1. client[c].unread \in BOOLEAN
    BY DEF Inv, Types, ClientType
  <2> QED BY <2>1, Zenon DEF SendRest
<1>2. /\ UNCHANGED <<server, thread>>
      /\ client[c].view \in {"waiting", "answer"} /\ client[c].sent = "part"
  BY DEF SendRest
<1>3. client[c] \in ClientType /\ client[c].request.cut # "no"
  BY <1>2 DEF Inv, Types, Local, SentInv
<1>4. client'[c] = [client[c] EXCEPT !.sent = "whole", !.view = view, !.unread = more]
  BY <1>1 DEF Inv, Types
<1>5. client'[c] \in ClientType
  BY <1>3, <1>4 DEF ClientType, Views
<1>6. StepOf(c) /\ UNCHANGED backlog
  BY <1>1, <1>2, <1>5 DEF StepOf, Inv, Types, server
<1>7. Local(c)' /\ Lost(c)'
  <2>1. /\ client'[c].request = client[c].request /\ client'[c].sent = "whole"
        /\ client'[c].view = view
    BY <1>3, <1>4 DEF ClientType
  <2>2. SentInv(c)' /\ Lost(c)'
    BY <1>2, <1>3, <2>1 DEF Inv, Local, SentInv, Lost
  <2>3. ThreadInv(c)' /\ ViewInv(c)'
    BY <1>1, <1>2, <1>3, <2>1 DEF Inv, Local, ThreadInv, ViewInv, HasRead, Fits, IsThere, IsDue, HasDots, server
  <2> QED BY <2>2, <2>3 DEF Local
<1>8. client'[c].view = view
  BY <1>3, <1>4 DEF ClientType
<1>9. client'[c].view \notin {"away", "left"} /\ client[c].view # "left"
  BY <1>2, <1>8
<1> QED BY <1>2, <1>6, <1>7, <1>9, OneMoves DEF server

LEMMA LeaveStep == ASSUME NEW c \in Clients, Inv, Leave(c) PROVE Inv'
<1>1. /\ client' = [client EXCEPT ![c].view = "left"] /\ client[c].view = "waiting"
      /\ UNCHANGED <<server, thread>>
  BY DEF Leave
<1>2. client[c] \in ClientType /\ client'[c] = [client[c] EXCEPT !.view = "left"]
  BY <1>1 DEF Inv, Types
<1>3. client'[c] \in ClientType
  BY <1>2 DEF ClientType, Views
<1>4. StepOf(c) /\ UNCHANGED backlog
  BY <1>1, <1>3 DEF StepOf, Inv, Types, server
<1>5. Local(c)' /\ Lost(c)'
  <2>1. /\ client'[c].request = client[c].request /\ client'[c].sent = client[c].sent
        /\ client'[c].unread = client[c].unread /\ client'[c].view = "left"
    BY <1>2 DEF ClientType
  <2> QED BY <1>1, <2>1 DEF Inv, Local, SentInv, ThreadInv, ViewInv, HasRead, Fits, IsThere, IsDue, HasDots,
                            Lost, server
<1> QED BY <1>1, <1>2, <1>4, <1>5, OneMoves DEF ClientType

-----------------------------------------------------------------------------
(* The process. *)

LEMMA AcceptStep == ASSUME Inv, Accept PROVE Inv'
<1> USE DEF Inv
<1>0. PICK h \in Clients : h = backlog[1] /\ backlog # <<>>
  BY DEF Accept, MayAccept, Types
<1>1. /\ backlog # <<>> /\ backlog' = Tail(backlog)
      /\ thread' = [thread EXCEPT ![h].at = "reading"]
      /\ UNCHANGED <<publicDir, process, client>>
  BY <1>0 DEF Accept, Types
<1>2. /\ Len(backlog) \in Nat \ {0}
      /\ backlog' \in Seq(Clients) /\ Len(backlog') = Len(backlog) - 1
      /\ \A i \in 1..Len(backlog') : backlog'[i] = backlog[i + 1]
  BY <1>0, <1>1 DEF Types
<1>3. thread[h].at = "none" /\ client[h].view # "away"
  BY <1>0, <1>2 DEF BacklogInv
<1>4. thread[h] \in ThreadType /\ thread'[h] = [thread[h] EXCEPT !.at = "reading"]
  BY <1>1, <1>2 DEF Types
<1>5. thread'[h] \in ThreadType
  BY <1>4 DEF ThreadType, Places
<1>6. thread' \in [Clients -> ThreadType] /\ \A d \in Clients \ {h} : thread'[d] = thread[d]
  BY <1>1, <1>5 DEF Types
<1>7. Local(h)'
  <2>1. /\ thread'[h].at = "reading" /\ thread'[h].line = thread[h].line
        /\ thread'[h].answer = thread[h].answer /\ thread'[h].starved = thread[h].starved
    BY <1>4 DEF ThreadType
  <2>2. Local(h)
    BY <1>2
  <2> QED BY <1>1, <1>3, <2>1, <2>2 DEF Local, SentInv, ThreadInv, ViewInv
<1>8. \A d \in Clients : Local(d)' /\ Lost(d)'
  <2> TAKE d \in Clients
  <2>1. d # h => Local(d)'
    BY <1>1, <1>6, Frame
  <2> QED BY <1>1, <1>7, <2>1 DEF Lost
<1>9. BacklogInv'
  <2>1. \A i \in 1..Len(backlog') : backlog'[i] \in Clients /\ backlog'[i] # h
    BY <1>0, <1>2 DEF BacklogInv, Types
  <2>2. \A i \in 1..Len(backlog') : /\ thread'[backlog'[i]].at = "none"
                                    /\ client'[backlog'[i]].view # "away"
    BY <1>1, <1>2, <1>6, <2>1 DEF BacklogInv
  <2>3. \A i, j \in 1..Len(backlog') : backlog'[i] = backlog'[j] => i = j
    BY <1>2 DEF BacklogInv
  <2> QED BY <2>2, <2>3 DEF BacklogInv
<1> QED BY <1>1, <1>2, <1>6, <1>8, <1>9 DEF Types, Killed

LEMMA DieStep ==
    ASSUME Inv, NEW how \in {"killed", "failed"}, Die(how),
           how = "killed" => \E c \in Clients : client[c].view = "left"
    PROVE  Inv'
<1> USE DEF Inv
<1>1. /\ process' = how /\ UNCHANGED <<publicDir, backlog, thread>>
      /\ client' = [c \in Clients |-> IF client[c].view = "waiting"
                      THEN [client[c] EXCEPT !.view = "reset"] ELSE client[c]]
  BY DEF Die
<1>2. \A c \in Clients :
         /\ client[c] \in ClientType /\ client'[c] \in ClientType
         /\ client[c].view = "waiting" => client'[c] = [client[c] EXCEPT !.view = "reset"]
         /\ client[c].view # "waiting" => client'[c] = client[c]
  <2> TAKE c \in Clients
  <2>1. client[c] \in ClientType
    BY DEF Types
  <2>2. [client[c] EXCEPT !.view = "reset"] \in ClientType
    BY <2>1 DEF ClientType, Views
  <2> QED BY <1>1, <2>1, <2>2
<1>3. Types'
  BY <1>1, <1>2 DEF Types
<1>4. \A c \in Clients : Local(c)'
  <2> TAKE c \in Clients
  <2>1. CASE client[c].view # "waiting"
    BY <1>1, <1>2, <2>1, Frame
  <2>2. CASE client[c].view = "waiting"
    <3>1. /\ client'[c].request = client[c].request /\ client'[c].sent = client[c].sent
          /\ client'[c].unread = client[c].unread /\ client'[c].view = "reset"
      BY <1>2, <2>2, ZenonT(30) DEF ClientType
    <3>2. Local(c)
      OBVIOUS
    <3> QED BY <1>1, <2>2, <3>1, <3>2
            DEF Local, SentInv, ThreadInv, ViewInv, HasRead, Fits, IsThere, IsDue, HasDots
  <2> QED BY <2>1, <2>2
<1>5. Killed' /\ \A c \in Clients : Lost(c)'
  BY <1>1, <1>2 DEF Killed, Lost
<1>6. BacklogInv'
  <2>1. \A c \in Clients : client[c].view # "away" => client'[c].view # "away"
    BY <1>2 DEF ClientType
  <2>2. \A i \in 1..Len(backlog) : backlog[i] \in Clients
    BY DEF Types
  <2> QED BY <1>1, <2>1, <2>2 DEF BacklogInv
<1> QED BY <1>3, <1>4, <1>5, <1>6

-----------------------------------------------------------------------------
(* A thread. *)

(* A step that leaves the connection as it is.                             *)
LEMMA ThreadMoves ==
    ASSUME NEW c \in Clients, Inv, UNCHANGED <<server, client>>,
           NEW t \in ThreadType, thread' = [thread EXCEPT ![c] = t],
           thread[c].at # "none",
           t.at \in {"finding", "loading", "writing", "closing"},
           ThreadInv(c)', ViewInv(c)'
    PROVE  Inv'
<1>1. StepOf(c) /\ thread'[c] = t
  BY DEF StepOf, Inv, Types, server
<1>2. SentInv(c)' /\ Lost(c)'
  <2>1. client[c].view # "away"
    BY DEF Inv, Local, SentInv
  <2> QED BY <1>1, <2>1 DEF Inv, Local, SentInv, Lost, server
<1> QED BY <1>1, <1>2, OneMoves DEF Local, server

LEMMA ReadStep == ASSUME NEW c \in Clients, Inv, Read(c) PROVE Inv'
<1> DEFINE r == client[c].request
           line == IF client[c].sent = "part" \/ r.cut = "long" THEN r.first ELSE r.asked
           rest == r.cut = "long"
           t == [thread[c] EXCEPT !.line = line, !.at = "finding"]
<1>1. /\ thread[c].at = "reading" /\ client[c].unread
      /\ thread' = [thread EXCEPT ![c].line = line, ![c].at = "finding"]
      /\ client' = [client EXCEPT ![c].unread = rest] /\ UNCHANGED server
  BY DEF Read, At, BufferOf
<1>2. thread[c] \in ThreadType /\ client[c] \in ClientType /\ Local(c) /\ Lost(c)
  BY DEF Inv, Types
<1>3. client[c].sent # "nothing" /\ (client[c].sent = "part" => r.cut # "no")
  BY <1>1, <1>2 DEF Local, SentInv
<1>4. line \in Line
  BY <1>2, <1>3, RequestType DEF Local
<1>5. t \in ThreadType
  BY <1>2, <1>4 DEF ThreadType, Places
<1>6. thread'[c] = t /\ client'[c] = [client[c] EXCEPT !.unread = rest]
  BY <1>1 DEF Inv, Types
<1>7. client'[c] \in ClientType
  BY <1>2, <1>6 DEF ClientType
<1>8. StepOf(c) /\ UNCHANGED backlog
  BY <1>1, <1>5, <1>6, <1>7 DEF StepOf, Inv, Types, server
<1>9. /\ client'[c].request = r /\ client'[c].sent = client[c].sent
      /\ client'[c].view = client[c].view /\ client'[c].unread = rest
      /\ thread'[c].line = line /\ thread'[c].at = "finding"
  BY <1>2, <1>6 DEF ClientType, ThreadType
<1>10. Local(c)' /\ Lost(c)'
  <2>1. HasRead(c)'
    BY <1>3, <1>9 DEF HasRead
  <2>2. client[c].view \notin {"answer", "away"}
    BY <1>1, <1>2 DEF Local, SentInv, ViewInv
  <2> QED BY <1>1, <1>2, <1>3, <1>9, <2>1, <2>2
          DEF Local, SentInv, ThreadInv, ViewInv, Lost, server
<1> QED BY <1>1, <1>8, <1>9, <1>10, OneMoves

LEMMA ReadNothingStep == ASSUME NEW c \in Clients, Inv, ReadNothing(c) PROVE Inv'
<1> DEFINE t == [thread[c] EXCEPT !.at = "closing"]
<1>1. /\ thread[c].at = "reading" /\ client[c].view = "left"
      /\ thread' = [thread EXCEPT ![c] = t] /\ UNCHANGED <<server, client>>
  BY DEF ReadNothing, At
<1>2. thread[c] \in ThreadType /\ Local(c)
  BY DEF Inv, Types
<1>3. t \in ThreadType /\ t.at = "closing"
  BY <1>2 DEF ThreadType, Places
<1>4. thread'[c] = t
  BY <1>1 DEF Inv, Types
<1>5. ThreadInv(c)' /\ ViewInv(c)'
  BY <1>1, <1>3, <1>4 DEF ThreadInv, ViewInv
<1> HIDE DEF t
<1> QED BY <1>1, <1>3, <1>5, ThreadMoves

LEMMA FindStep == ASSUME NEW c \in Clients, Inv, Find(c) PROVE Inv'
<1> DEFINE path   == thread[c].line.path
           exists == ~HasDots(path) /\ Content[FileOf(path)] # "none"
<1>1. thread[c] \in ThreadType /\ Local(c) /\ thread[c].at = "finding"
  BY DEF Inv, Types, Find, At
<1>2. HasRead(c) /\ thread[c].line \in Line /\ path \in Paths
  <2>1. HasRead(c) /\ client[c].sent # "nothing"
    BY <1>1 DEF Local, ThreadInv, HasRead
  <2> QED BY <1>1, <2>1, RequestType DEF Local, HasRead, Line
<1>3. UNCHANGED <<server, client>>
  BY DEF Find
<1>4. CASE exists /\ HasFreeFd
  <2> DEFINE t == [thread[c] EXCEPT !.at = "loading", !.answer.status = StatusOf(thread[c].line)]
  <2>1. thread' = [thread EXCEPT ![c] = t] /\ thread'[c] = t
    BY <1>4 DEF Find, BufferOf, Inv, Types
  <2>2. t \in ThreadType /\ t.at = "loading" /\ t.line = thread[c].line
    <3>1. [thread[c].answer EXCEPT !.status = StatusOf(thread[c].line)] \in Answer
      BY <1>1, <1>2, AnswerTypes DEF ThreadType
    <3> QED BY <1>1, <3>1 DEF ThreadType, Places
  <2>3. ThreadInv(c)' /\ ViewInv(c)'
    BY <1>1, <1>2, <1>3, <1>4, <2>1, <2>2
       DEF Local, ThreadInv, ViewInv, HasRead, HasDots, server
  <2> HIDE DEF t
  <2> QED BY <1>1, <1>3, <2>1, <2>2, <2>3, ThreadMoves
<1>5. CASE ~(exists /\ HasFreeFd)
  <2> DEFINE t == [thread[c] EXCEPT !.at = "writing", !.answer = NotFound, !.starved = exists]
  <2>1. thread' = [thread EXCEPT ![c] = t] /\ thread'[c] = t
    BY <1>5 DEF Find, BufferOf, Inv, Types
  <2>2. /\ t \in ThreadType /\ t.at = "writing" /\ t.line = thread[c].line
        /\ t.answer = NotFound /\ t.starved = exists
    BY <1>1, AnswerTypes DEF ThreadType, Places
  <2>3. exists' = exists /\ Fits(c, thread[c].line)'
    <3>1. exists' = exists
      BY <1>3, <2>1, <2>2 DEF HasDots, server
    <3>2. IsThere(path) /\ ~exists => publicDir # "./public"
      BY DEF IsThere, HasDots
    <3>3. thread'[c].line = thread[c].line /\ thread'[c].answer = NotFound
          /\ thread'[c].starved = exists
      BY <2>1, <2>2
    <3>4. ~IsDue(c, thread[c].line)'
      BY <1>3, <3>2, <3>3 DEF IsDue, IsThere, server
    <3>5. NotFound.status # 200
      BY DEF NotFound
    <3> QED BY <3>1, <3>3, <3>4, <3>5 DEF Fits
  <2>4. ThreadInv(c)' /\ ViewInv(c)'
    BY <1>1, <1>2, <1>3, <2>1, <2>2, <2>3
       DEF Local, ThreadInv, ViewInv, HasRead, HasDots, server
  <2> HIDE DEF t
  <2> QED BY <1>1, <1>3, <2>1, <2>2, <2>4, ThreadMoves
<1> QED BY <1>4, <1>5

LEMMA LoadStep == ASSUME NEW c \in Clients, Inv, Load(c) PROVE Inv'
<1> DEFINE line == thread[c].line
           content == Content[FileOf(line.path)]
           t == [thread[c] EXCEPT !.at = "writing", !.answer = AnswerWith(content)]
<1>1. thread[c] \in ThreadType /\ Local(c) /\ thread[c].at = "loading"
  BY DEF Inv, Types, Load, At
<1>2. HasRead(c) /\ line.path \in Paths /\ FileOf(line.path) \in Paths
  <2>1. HasRead(c) /\ client[c].sent # "nothing"
    BY <1>1 DEF Local, ThreadInv, HasRead
  <2>2. line \in Line
    BY <1>1, <2>1, RequestType DEF Local, HasRead
  <2> QED BY <2>1, <2>2, FilePath DEF Line
<1>3. /\ UNCHANGED <<server, client>>
      /\ thread' = [thread EXCEPT ![c] = t] /\ thread'[c] = t
  BY DEF Load, BufferOf, Inv, Types
<1>4. ~HasDots(line.path) /\ content # "none"
  BY <1>1 DEF Local, ThreadInv
<1>5. /\ content = "empty" => AnswerWith(content) = NotFound /\ content \notin Pages
      /\ content # "empty" => AnswerWith(content) = Found(content) /\ content \in Pages
  BY <1>2, <1>4 DEF AnswerWith, Pages
<1>6. /\ t \in ThreadType /\ t.at = "writing" /\ t.line = line
      /\ t.answer = AnswerWith(content)
  <2>1. AnswerWith(content) \in Answer
    BY <1>5, AnswerTypes
  <2> HIDE DEF content
  <2> QED BY <1>1, <2>1 DEF ThreadType, Places
<1>7. Fits(c, thread[c].line)'
  <2>1. thread'[c].line = line /\ thread'[c].answer = AnswerWith(content)
    BY <1>3, <1>6
  <2>2. IsThere(line.path)
    BY <1>4 DEF IsThere, HasDots
  <2>3. NotFound.status # 200
    BY DEF NotFound
  <2>4. Found(content).body = content
    BY DEF Found
  <2> QED BY <1>5, <2>1, <2>2, <2>3, <2>4 DEF Fits, IsDue, IsThere
<1>8. ThreadInv(c)' /\ ViewInv(c)'
  BY <1>1, <1>2, <1>3, <1>6, <1>7 DEF Local, ThreadInv, ViewInv, HasRead, server
<1> HIDE DEF t
<1> QED BY <1>1, <1>3, <1>6, <1>8, ThreadMoves

LEMMA WriteStep == ASSUME NEW c \in Clients, Inv, Write(c) PROVE Inv'
<1> DEFINE view == IF client[c].view = "waiting" THEN "answer" ELSE client[c].view
<1>1. /\ thread[c].at = "writing" /\ thread' = [thread EXCEPT ![c].at = "closing"]
      /\ client' = [client EXCEPT ![c].view = view] /\ UNCHANGED server
  BY DEF Write, At
<1>2. thread[c] \in ThreadType /\ client[c] \in ClientType /\ Local(c) /\ Lost(c)
  BY DEF Inv, Types
<1>3. /\ thread'[c] = [thread[c] EXCEPT !.at = "closing"]
      /\ client'[c] = [client[c] EXCEPT !.view = view]
  BY <1>1 DEF Inv, Types
<1>4. /\ thread'[c] \in ThreadType /\ client'[c] \in ClientType
      /\ client'[c].request = client[c].request /\ client'[c].sent = client[c].sent
      /\ client'[c].view = view /\ client'[c].unread = client[c].unread
      /\ thread'[c].line = thread[c].line /\ thread'[c].at = "closing"
      /\ thread'[c].answer = thread[c].answer /\ thread'[c].starved = thread[c].starved
  BY <1>2, <1>3 DEF ClientType, ThreadType, Places, Views
<1>5. StepOf(c) /\ UNCHANGED backlog
  BY <1>1, <1>4 DEF StepOf, Inv, Types, server
<1>6. HasRead(c)' /\ Fits(c, thread[c].line)'
  BY <1>1, <1>2, <1>4 DEF Local, ThreadInv, HasRead, Fits, IsThere, IsDue, HasDots, server
<1>7. client[c].view # "away"
  BY <1>1, <1>2 DEF Local, SentInv
<1>8. Local(c)' /\ Lost(c)'
  BY <1>1, <1>2, <1>4, <1>6, <1>7 DEF Local, SentInv, ThreadInv, ViewInv, Lost, server
<1> QED BY <1>1, <1>4, <1>5, <1>7, <1>8, OneMoves

LEMMA CloseStep == ASSUME NEW c \in Clients, Inv, Close(c) PROVE Inv'
<1>1. /\ thread[c].at = "closing" /\ thread' = [thread EXCEPT ![c].at = "done"]
      /\ UNCHANGED server
  BY DEF Close, At
<1>2. thread[c] \in ThreadType /\ client[c] \in ClientType /\ Local(c) /\ Lost(c)
  BY DEF Inv, Types
<1>3. client[c].view \notin {"waiting", "away"}
  BY <1>1, <1>2 DEF Local, ThreadInv
<1>4. PICK v \in {client[c].view, "reset"} :
        /\ client' = [client EXCEPT ![c].view = v]
        /\ v # client[c].view => client[c].view = "answer" /\ client[c].unread
  BY <1>3 DEF Close
<1>5. /\ thread'[c] = [thread[c] EXCEPT !.at = "done"]
      /\ client'[c] = [client[c] EXCEPT !.view = v]
  BY <1>1, <1>4 DEF Inv, Types
<1>6. /\ thread'[c] \in ThreadType /\ client'[c] \in ClientType
      /\ client'[c].request = client[c].request /\ client'[c].sent = client[c].sent
      /\ client'[c].view = v /\ client'[c].unread = client[c].unread
      /\ thread'[c].line = thread[c].line /\ thread'[c].at = "done"
      /\ thread'[c].answer = thread[c].answer /\ thread'[c].starved = thread[c].starved
  BY <1>2, <1>4, <1>5 DEF ClientType, ThreadType, Places, Views
<1>7. StepOf(c) /\ UNCHANGED backlog
  BY <1>1, <1>4, <1>6 DEF StepOf, Inv, Types, server
<1>8. v # client[c].view => client[c].request.cut # "no"
  BY <1>1, <1>2, <1>4 DEF Local, ThreadInv
<1>9. SentInv(c)' /\ ThreadInv(c)' /\ Lost(c)'
  BY <1>1, <1>2, <1>3, <1>4, <1>6, <1>8 DEF Local, SentInv, ThreadInv, Lost, server
<1>10. ViewInv(c)'
  BY <1>1, <1>2, <1>4, <1>6 DEF Local, ViewInv, HasRead, Fits, IsThere, IsDue, HasDots, server
<1> QED BY <1>1, <1>3, <1>4, <1>6, <1>7, <1>9, <1>10, OneMoves DEF Local

-----------------------------------------------------------------------------
(* Descriptors. *)

LEMMA FdFinite ==
    ASSUME FdInv
    PROVE  /\ IsFiniteSet(Sockets) /\ IsFiniteSet(Files) /\ Files \subseteq Sockets
           /\ Cardinality(Sockets) \in Nat /\ Cardinality(Files) \in Nat
<1>1. Files \subseteq Sockets
  BY DEF Files, Sockets
<1>2. IsFiniteSet(Files)
  BY <1>1, FS_Subset DEF FdInv
<1> QED BY <1>1, <1>2, FS_CardinalityType DEF FdInv

LEMMA FdShrinks ==
    ASSUME FdInv, Sockets' \subseteq Sockets, Files' \subseteq Files
    PROVE  FdInv'
<1>1. IsFiniteSet(Sockets') /\ Cardinality(Sockets') <= Cardinality(Sockets)
  BY FdFinite, FS_Subset
<1>2. IsFiniteSet(Files') /\ Cardinality(Files') <= Cardinality(Files)
  BY FdFinite, FS_Subset
<1>3. Cardinality(Sockets') \in Nat /\ Cardinality(Files') \in Nat
  BY <1>1, <1>2, FS_CardinalityType
<1> QED BY <1>1, <1>2, <1>3, FdFinite, MaxFdsAssumption DEF FdInv

(* A descriptor is only taken when one is free. *)
LEMMA FdGrows ==
    ASSUME FdInv, HasFreeFd, NEW c,
           \/ Sockets' = Sockets \cup {c} /\ Files' = Files
           \/ Sockets' = Sockets /\ Files' = Files \cup {c}
    PROVE  FdInv'
<1>1. /\ IsFiniteSet(Sockets \cup {c}) /\ Cardinality(Sockets \cup {c}) <= Cardinality(Sockets) + 1
      /\ IsFiniteSet(Files \cup {c}) /\ Cardinality(Files \cup {c}) <= Cardinality(Files) + 1
  <2>1. ASSUME NEW S, IsFiniteSet(S)
        PROVE  IsFiniteSet(S \cup {c}) /\ Cardinality(S \cup {c}) <= Cardinality(S) + 1
    <3>1. Cardinality(S) \in Nat
      BY <2>1, FS_CardinalityType
    <3>2. /\ IsFiniteSet(S \cup {c})
          /\ Cardinality(S \cup {c}) = IF c \in S THEN Cardinality(S) ELSE Cardinality(S) + 1
      BY <2>1, FS_AddElement
    <3> QED BY <3>1, <3>2
  <2> QED BY <2>1, FdFinite
<1>2. Cardinality(Sockets \cup {c}) \in Nat /\ Cardinality(Files \cup {c}) \in Nat
  BY <1>1, FS_CardinalityType
<1>3. CASE Sockets' = Sockets \cup {c} /\ Files' = Files
  BY <1>1, <1>2, <1>3, FdFinite, MaxFdsAssumption DEF FdInv, HasFreeFd
<1>4. CASE Sockets' = Sockets /\ Files' = Files \cup {c}
  BY <1>1, <1>2, <1>4, FdFinite, MaxFdsAssumption DEF FdInv, HasFreeFd
<1> QED BY <1>3, <1>4

LEMMA FdStep == ASSUME Inv, FdInv, Next PROVE FdInv'
<1>1. CASE Accept
  <2>1. PICK h \in Clients : h = backlog[1] /\ h = Head(backlog) /\ backlog # <<>>
    BY <1>1 DEF Inv, Types, Accept, MayAccept
  <2>2. \A d \in Clients : /\ d = h => thread'[d].at = "reading" /\ thread[d].at = "none"
                           /\ d # h => thread'[d] = thread[d]
    BY <1>1, <2>1 DEF Inv, Types, Accept, ThreadType, BacklogInv
  <2>3. Sockets' = Sockets \cup {h} /\ Files' = Files
    BY <2>2 DEF Sockets, Files
  <2> QED BY <1>1, <2>3, FdGrows DEF Accept, MayAccept
<1>2. CASE UNCHANGED thread
  BY <1>2, FdShrinks DEF Sockets, Files
<1>3. ASSUME NEW c \in Clients, ThreadStep(c)
      PROVE  FdInv'
  <2>1. thread[c] \in ThreadType /\ \A d \in Clients \ {c} : thread'[d] = thread[d]
    BY <1>3 DEF Inv, Types, ThreadStep, Read, ReadNothing, Find, Load, Write, BrokenPipe, Close,
                Die, BufferOf
  <2>2. CASE HasFreeFd /\ thread[c].at = "finding" /\ thread'[c].at = "loading"
    <3>1. Sockets' = Sockets /\ Files' = Files \cup {c}
      BY <2>1, <2>2 DEF Sockets, Files
    <3> QED BY <2>2, <3>1, FdGrows
  <2>3. CASE /\ thread'[c].at \in {"none", "done"} \/ thread[c].at \notin {"none", "done"}
             /\ thread'[c].at # "loading"
    <3>1. Sockets' \subseteq Sockets /\ Files' \subseteq Files
      BY <2>1, <2>3 DEF Sockets, Files
    <3> QED BY <3>1, FdShrinks
  <2>4. CASE Read(c)
    BY <2>1, <2>3, <2>4 DEF Inv, Types, Read, At, BufferOf, ThreadType
  <2>5. CASE ReadNothing(c)
    BY <2>1, <2>3, <2>5 DEF Inv, Types, ReadNothing, At, ThreadType
  <2>6. CASE Find(c)
    BY <2>1, <2>2, <2>3, <2>6 DEF Inv, Types, Find, At, ThreadType
  <2>7. CASE Load(c)
    BY <2>1, <2>3, <2>7 DEF Inv, Types, Load, At, ThreadType
  <2>8. CASE Write(c)
    BY <2>1, <2>3, <2>8 DEF Inv, Types, Write, At, ThreadType
  <2>9. CASE BrokenPipe(c)
    BY <1>2, <2>9 DEF BrokenPipe, Die
  <2>10. CASE Close(c)
    BY <2>1, <2>3, <2>10 DEF Inv, Types, Close, At, ThreadType
  <2> QED BY <1>3, <2>4, <2>5, <2>6, <2>7, <2>8, <2>9, <2>10 DEF ThreadStep
<1>4. ASSUME NEW c \in Clients, Connect(c) \/ Send(c) \/ SendRest(c) \/ Leave(c)
      PROVE  FdInv'
  BY <1>2, <1>4 DEF Connect, Send, SendRest, Leave
<1>5. CASE ThreadFail
  BY <1>2, <1>5 DEF ThreadFail, Die
<1> QED BY <1>1, <1>3, <1>4, <1>5 DEF Next

-----------------------------------------------------------------------------

LEMMA InitCorrect == Init => IInv
<1> SUFFICES ASSUME Init PROVE IInv
  OBVIOUS
<1>1. Sockets = {} /\ Files = {}
  BY DEF Init, Sockets, Files
<1>2. FdInv
  BY <1>1, FS_EmptySet, MaxFdsAssumption DEF FdInv
<1>3. Types
  <2>1. NoAnswer \in Answer
    BY AnswerTypes
  <2>2. thread \in [Clients -> ThreadType]
    BY <2>1 DEF Init, ThreadType, Places
  <2>3. client \in [Clients -> ClientType]
    <3>1. NoRequest \in Request \cup {NoRequest} /\ "away" \in Views
      BY DEF Views
    <3>2. [request |-> NoRequest, sent |-> "nothing", unread |-> FALSE, view |-> "away"] \in ClientType
      BY <3>1 DEF ClientType
    <3> QED BY <3>2 DEF Init
  <2>4. /\ publicDir \in {"./public", "../public"} /\ process \in {"serving", "killed", "failed"}
        /\ backlog \in Seq(Clients)
    BY DEF Init
  <2> QED BY <2>2, <2>3, <2>4 DEF Types
<1>4. BacklogInv /\ Killed
  BY DEF Init, BacklogInv, Killed
<1>5. \A c \in Clients : Local(c) /\ Lost(c)
  BY DEF Init, Local, Lost, SentInv, ThreadInv, ViewInv
<1> QED BY <1>2, <1>3, <1>4, <1>5, Parts DEF Inv

LEMMA PartStep == ASSUME Inv, [Next]_vars PROVE Inv'
<1>1. CASE Accept
  BY <1>1, AcceptStep
<1>2. CASE ThreadFail
  BY <1>2, DieStep DEF ThreadFail
<1>3. ASSUME NEW c \in Clients, Connect(c) \/ Send(c) \/ SendRest(c) \/ Leave(c)
      PROVE  Inv'
  BY <1>3, ConnectStep, SendStep, SendRestStep, LeaveStep
<1>4. ASSUME NEW c \in Clients, ThreadStep(c)
      PROVE  Inv'
  <2>1. CASE BrokenPipe(c)
    BY <2>1, DieStep DEF BrokenPipe
  <2> QED BY <1>4, <2>1, ReadStep, ReadNothingStep, FindStep, LoadStep, WriteStep, CloseStep
          DEF ThreadStep
<1>5. CASE UNCHANGED vars
  <2>1. UNCHANGED <<publicDir, process, backlog, thread, client>>
    BY <1>5 DEF vars, server
  <2>2. \A c \in Clients : Local(c)' /\ Lost(c)'
    BY <2>1, Frame DEF Inv, Lost
  <2> QED BY <2>1, <2>2 DEF Inv, Types, BacklogInv, Killed
<1> QED BY <1>1, <1>2, <1>3, <1>4, <1>5 DEF Next

LEMMA InvStep == IInv /\ [Next]_vars => IInv'
<1> SUFFICES ASSUME IInv, [Next]_vars PROVE IInv'
  OBVIOUS
<1>1. Inv /\ FdInv
  BY Parts
<1>2. Inv'
  BY <1>1, PartStep
<1>3. FdInv'
  <2>1. CASE UNCHANGED vars
    BY <1>1, <2>1, FdShrinks DEF vars, Sockets, Files
  <2> QED BY <1>1, <2>1, FdStep
<1> QED BY <1>2, <1>3 DEF IInv, Inv, FdInv, TypeOK, Types, ThreadType, ClientType, Local, Lost,
                          Killed, LostHasReason

(* The inductive invariant holds in every state, for any number of         *)
(* clients, requests and descriptors: types, descriptors that are never    *)
(* used twice, and what each thread knows of its client (server.cpp:61-158).*)
THEOREM Inductive == Spec => []IInv
  BY InitCorrect, InvStep, PTL DEF Spec

(* Every answer is the one for what its client has asked                   *)
(* (server.cpp:88, 115-148).                                               *)
THEOREM AnswersFit == Spec => []AnswerFits
<1>1. IInv => AnswerFits
  BY DEF IInv, ViewInv, HasRead, AnswerFits
<1> QED BY <1>1, Inductive, PTL

(* A connection that ends without its answer has a reason                  *)
(* (server.cpp:74, 88, 102-105).                                           *)
THEOREM LossesHaveReason == Spec => []LostHasReason
<1>1. IInv => LostHasReason
  BY DEF IInv
<1> QED BY <1>1, Inductive, PTL

=============================================================================
