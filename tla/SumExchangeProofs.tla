------------------------- MODULE SumExchangeProofs -------------------------
(***************************************************************************)
(* Proofs about SumServer for any set of clients, and about SumExchange:   *)
(* the server in it is the one of SumServer, so that what is proved of     *)
(* that server holds with real clients.                                    *)
(***************************************************************************)
EXTENDS SumExchange, TLAPS

(* The server. *)

LEMMA TypeStep == TypeOK /\ [Next]_vars => TypeOK'
<1> SUFFICES ASSUME TypeOK, [Next]_vars
             PROVE  TypeOK'
  OBVIOUS
<1> USE DEF TypeOK, Phases, ChildStates, Requests, history, Set
<1>1. CASE Parent
  <2>1. CASE CheckFlag \/ Block \/ AfterInterrupt \/ SleepEnds
    BY <2>1 DEF CheckFlag, Block, AfterInterrupt, SleepEnds
  <2>2. CASE Accept
    <3>1. Head(backlog) \in Clients /\ Tail(backlog) \in Seq(Clients)
      BY <2>2 DEF Accept
    <3>2. child' \in [Clients -> ChildStates]
      BY <2>2, <3>1 DEF Accept
    <3>3. late' \in Nat
      BY <2>2 DEF Accept
    <3> QED BY <2>2, <3>1, <3>2, <3>3 DEF Accept
  <2>3. CASE Close
    BY <2>3 DEF Close
  <2>4. CASE Exit
    BY <2>4 DEF Exit, ReapAll
  <2> QED BY <1>1, <2>1, <2>2, <2>3, <2>4 DEF Parent
<1>2. CASE AcceptFail
  BY <1>2 DEF AcceptFail
<1>3. CASE HandleUsr1
  BY <1>3 DEF HandleUsr1, AfterUsr1, InterruptedByUsr1
<1>4. CASE HandleChld
  BY <1>4 DEF HandleChld, ReapInHandler, ReapAll
<1>5. ASSUME NEW c \in Clients, Connect(c) \/ Read(c) \/ ChildFail(c) \/ Child(c)
      PROVE  TypeOK'
  <2>1. CASE Connect(c)
    BY <2>1 DEF Connect
  <2>2. CASE Read(c)
    BY <2>2 DEF Read
  <2>3. CASE ChildFail(c)
    BY <2>3 DEF ChildFail, Die
  <2>4. CASE Child(c)
    BY <2>4 DEF Child, Reply, SignalParent, Leave, Die
  <2> QED BY <1>5, <2>1, <2>2, <2>3, <2>4
<1>6. CASE UNCHANGED vars
  BY <1>6 DEF vars
<1> QED BY <1>1, <1>2, <1>3, <1>4, <1>5, <1>6 DEF Next, Handlers

(* Only Accept counts; it leaves the parent before the check of the flag,  *)
(* which keeps it from accept() once the flag is set.                      *)
LEMMA LateStep == TypeOK /\ LateInv /\ [Next]_vars => LateInv'
<1> SUFFICES ASSUME TypeOK, LateInv, [Next]_vars
             PROVE  LateInv'
  OBVIOUS
<1> USE DEF LateInv, history
<1>1. CASE Parent
  <2>1. CASE CheckFlag
    BY <2>1 DEF CheckFlag, LeavesLoop
  <2>2. CASE Block \/ Close \/ SleepEnds \/ Exit
    BY <2>2 DEF Block, Close, SleepEnds, Exit
  <2>3. CASE Accept
    <3>1. late = 0 /\ phase' = "check" /\ requested' = requested
          /\ late' = late + (IF requested THEN 1 ELSE 0)
      BY <2>3 DEF Accept
    <3>2. CASE requested
      BY <3>1, <3>2
    <3>3. CASE ~requested
      BY <3>1, <3>3
    <3> QED BY <3>2, <3>3
  <2>4. CASE AfterInterrupt
    BY <2>4 DEF AfterInterrupt
  <2> QED BY <1>1, <2>1, <2>2, <2>3, <2>4 DEF Parent
<1>2. CASE AcceptFail
  BY <1>2 DEF AcceptFail
<1>3. CASE HandleUsr1
  <2>1. late' = late /\ requested' = TRUE /\ phase' = AfterUsr1(phase)
    BY <1>3 DEF HandleUsr1
  <2>2. phase \notin {"accept", "blocked"} => phase' \notin {"accept", "blocked"}
    BY <2>1 DEF AfterUsr1, InterruptedByUsr1, TypeOK, Phases
  <2> QED BY <2>1, <2>2
<1>4. CASE HandleChld
  BY <1>4 DEF HandleChld
<1>5. ASSUME NEW c \in Clients, Connect(c) \/ Read(c) \/ ChildFail(c) \/ Child(c)
      PROVE  LateInv'
  BY <1>5 DEF Connect, Read, ChildFail, Child, Reply, SignalParent, Leave
<1>6. CASE UNCHANGED vars
  BY <1>6 DEF vars
<1> QED BY <1>1, <1>2, <1>3, <1>4, <1>5, <1>6 DEF Next, Handlers

(* Only Connect puts a client into the backlog, and only Accept and Close  *)
(* change the state of one that is in it.                                  *)
LEMMA BacklogStep == TypeOK /\ BacklogInv /\ [Next]_vars => BacklogInv'
<1> SUFFICES ASSUME TypeOK, BacklogInv, [Next]_vars
             PROVE  BacklogInv'
  OBVIOUS
<1>0. /\ child \in [Clients -> ChildStates] /\ backlog \in Seq(Clients)
      /\ \A i \in 1..Len(backlog) : backlog[i] \in Clients /\ child[backlog[i]] = "queued"
      /\ \A i, j \in 1..Len(backlog) : backlog[i] = backlog[j] => i = j
  BY DEF TypeOK, BacklogInv
<1>1. CASE UNCHANGED <<child, backlog>>
  BY <1>1, <1>0 DEF BacklogInv
<1>2. CASE Accept
  <2>1. /\ backlog # <<>> /\ backlog' = Tail(backlog)
        /\ child' = [child EXCEPT ![Head(backlog)] = child'[Head(backlog)]]
    BY <1>2, <1>0 DEF Accept, Set
  <2>2. /\ Len(backlog') = Len(backlog) - 1 /\ Len(backlog) \in Nat
        /\ \A i \in 1..Len(backlog') : backlog'[i] = backlog[i + 1]
        /\ Head(backlog) = backlog[1]
    BY <2>1, <1>0
  <2>3. ASSUME NEW i \in 1..Len(backlog')
        PROVE  /\ i + 1 \in 1..Len(backlog) /\ backlog'[i] = backlog[i + 1]
               /\ child'[backlog'[i]] = "queued"
    <3>1. i + 1 \in 1..Len(backlog) /\ 1 \in 1..Len(backlog) /\ i + 1 # 1
      BY <2>2
    <3>2. backlog[i + 1] # Head(backlog)
      BY <3>1, <2>2, <1>0
    <3> QED BY <3>1, <3>2, <2>1, <2>2, <1>0
  <2>4. ASSUME NEW i \in 1..Len(backlog'), NEW j \in 1..Len(backlog'), backlog'[i] = backlog'[j]
        PROVE  i = j
    <3>1. i + 1 = j + 1
      BY <2>3, <2>4, <1>0
    <3> QED BY <3>1, <2>2
  <2> QED BY <2>3, <2>4 DEF BacklogInv
<1>3. CASE Close
  BY <1>3 DEF Close, BacklogInv
<1>4. CASE Exit \/ HandleChld
  <2>1. backlog' = backlog /\ ReapAll
    BY <1>4 DEF Exit, HandleChld, ReapInHandler
  <2> QED BY <2>1, <1>0 DEF ReapAll, BacklogInv
<1>5. ASSUME NEW c \in Clients, Connect(c)
      PROVE  BacklogInv'
  <2>1. /\ child[c] = "away" /\ child' = [child EXCEPT ![c] = "queued"]
        /\ backlog' = Append(backlog, c)
    BY <1>5 DEF Connect, Set
  <2>2. /\ Len(backlog') = Len(backlog) + 1 /\ Len(backlog) \in Nat
        /\ backlog'[Len(backlog) + 1] = c
        /\ \A i \in 1..Len(backlog) : backlog'[i] = backlog[i] /\ backlog[i] # c
    BY <2>1, <1>0
  <2>3. \A i \in 1..Len(backlog') : i \in 1..Len(backlog) \/ i = Len(backlog) + 1
    BY <2>2
  <2>4. \A i \in 1..Len(backlog') : child'[backlog'[i]] = "queued"
    BY <2>1, <2>2, <2>3, <1>0
  <2>5. \A i, j \in 1..Len(backlog') : backlog'[i] = backlog'[j] => i = j
    BY <2>2, <2>3, <1>0
  <2> QED BY <2>4, <2>5 DEF BacklogInv
<1>6. ASSUME NEW c \in Clients, Read(c) \/ ChildFail(c) \/ Child(c)
      PROVE  BacklogInv'
  <2>1. backlog' = backlog /\ child[c] # "queued" /\ child' = [child EXCEPT ![c] = child'[c]]
    BY <1>6, <1>0 DEF Read, ChildFail, Child, Reply, SignalParent, Leave, Die, Set
  <2> QED BY <2>1, <1>0 DEF BacklogInv
<1> QED BY <1>1, <1>2, <1>3, <1>4, <1>5, <1>6
        DEF Next, Parent, Handlers, AcceptFail, CheckFlag, Block, AfterInterrupt,
            SleepEnds, HandleUsr1, vars

(* A client that has asked for the shutdown stays one that has. *)
LEMMA AskedStays ==
    ASSUME TypeOK, BacklogInv, [Next]_vars, NEW c \in Clients, HasAsked(c)
    PROVE  HasAsked(c)'
<1>0. /\ AsksShutdown(request[c]) /\ child[c] \in {"leaving", "zombie", "reaped"}
      /\ child \in [Clients -> ChildStates] /\ request \in [Clients -> Requests]
      /\ backlog \in Seq(Clients)
  BY DEF HasAsked, TypeOK
<1> SUFFICES request'[c] = request[c] /\ child'[c] \in {"leaving", "zombie", "reaped"}
  BY <1>0 DEF HasAsked
<1>1. CASE UNCHANGED <<child, request>>
  BY <1>1, <1>0
<1>2. CASE Accept
  <2>1. request' = request /\ child' = [child EXCEPT ![Head(backlog)] = child'[Head(backlog)]]
    BY <1>2, <1>0 DEF Accept, Set
  <2>2. ASSUME c = Head(backlog)
        PROVE  FALSE
    <3>1. 1 \in 1..Len(backlog) /\ Head(backlog) = backlog[1]
      BY <1>2, <1>0 DEF Accept
    <3> QED BY <2>2, <3>1, <1>0 DEF BacklogInv
  <2> QED BY <2>1, <2>2, <1>0
<1>3. CASE Close \/ Exit \/ HandleChld
  BY <1>3, <1>0 DEF Close, Exit, HandleChld, ReapInHandler, ReapAll
<1>4. ASSUME NEW d \in Clients, Connect(d) \/ Read(d) \/ ChildFail(d) \/ Child(d)
      PROVE  request'[c] = request[c] /\ child'[c] \in {"leaving", "zombie", "reaped"}
  BY <1>4, <1>0 DEF Connect, Read, ChildFail, Child, Reply, SignalParent, Leave, Die, Set
<1> QED BY <1>1, <1>2, <1>3, <1>4
        DEF Next, Parent, Handlers, AcceptFail, CheckFlag, Block, AfterInterrupt,
            SleepEnds, HandleUsr1, vars

LEMMA ReasonStep == TypeOK /\ BacklogInv /\ ReasonInv /\ [Next]_vars => ReasonInv'
<1> SUFFICES ASSUME TypeOK, BacklogInv, ReasonInv, [Next]_vars
             PROVE  ReasonInv'
  OBVIOUS
<1> DEFINE Asked == \E c \in Clients : HasAsked(c)
           Out(p) == p \in {"interrupted", "closing", "sleeping", "awake", "exited"}
<1>0. /\ child \in [Clients -> ChildStates] /\ request \in [Clients -> Requests]
      /\ backlog \in Seq(Clients) /\ phase \in Phases
      /\ requested \in BOOLEAN /\ usr1 \in BOOLEAN /\ acceptFailed \in BOOLEAN
      /\ requested \/ usr1 => Asked
      /\ Out(phase) => acceptFailed \/ Asked
      /\ \A c \in Clients : child[c] = "signalling" => AsksShutdown(request[c])
  BY DEF TypeOK, ReasonInv
<1>1. Asked => Asked'
  BY AskedStays
<1>2. ASSUME requested' \/ usr1' => requested \/ usr1 \/ Asked',
             Out(phase') => Out(phase) \/ requested \/ usr1 \/ acceptFailed',
             acceptFailed => acceptFailed',
             \A c \in Clients : child'[c] = "signalling" => AsksShutdown(request'[c])
      PROVE  ReasonInv'
  <2>1. requested' \/ usr1' => Asked'
    BY <1>0, <1>1, <1>2
  <2>2. Out(phase') => acceptFailed' \/ Asked'
    BY <1>0, <1>1, <1>2
  <2> QED BY <2>1, <2>2, <1>2 DEF ReasonInv
<1>3. CASE CheckFlag \/ Block \/ AfterInterrupt \/ SleepEnds \/ AcceptFail \/ HandleUsr1
  <2>0. UNCHANGED <<child, request>>
    BY <1>3 DEF CheckFlag, Block, AfterInterrupt, SleepEnds, AcceptFail, HandleUsr1
  <2>1. \A c \in Clients : child'[c] = "signalling" => AsksShutdown(request'[c])
    BY <2>0, <1>0
  <2>2. /\ requested' \/ usr1' => requested \/ usr1
        /\ Out(phase') => Out(phase) \/ requested \/ usr1 \/ acceptFailed'
        /\ acceptFailed => acceptFailed'
    BY <1>3, <1>0 DEF CheckFlag, LeavesLoop, Block, AfterInterrupt, SleepEnds, AcceptFail,
                      HandleUsr1, AfterUsr1, InterruptedByUsr1, history
  <2> QED BY <2>1, <2>2, <1>2
<1>4. CASE Accept
  <2>1. /\ Head(backlog) \in Clients /\ request' = request
        /\ child' = [child EXCEPT ![Head(backlog)] = child'[Head(backlog)]]
        /\ child'[Head(backlog)] \in {"reading", "dropped"}
    BY <1>4, <1>0 DEF Accept, Set
  <2>2. \A c \in Clients : child'[c] = "signalling" => AsksShutdown(request'[c])
    BY <2>1, <1>0
  <2>3. requested' = requested /\ usr1' = usr1 /\ phase' = "check" /\ acceptFailed' = acceptFailed
    BY <1>4 DEF Accept
  <2> QED BY <2>2, <2>3, <1>2
<1>5. CASE Close \/ Exit \/ HandleChld
  <2>1. request' = request /\ \A c \in Clients : child'[c] = "signalling" => child[c] = "signalling"
    BY <1>5, <1>0 DEF Close, Exit, HandleChld, ReapInHandler, ReapAll
  <2>2. requested' = requested /\ usr1' = usr1 /\ acceptFailed' = acceptFailed
    BY <1>5 DEF Close, Exit, HandleChld, history
  <2>3. Out(phase') => Out(phase)
    BY <1>5, <1>0 DEF Close, Exit, HandleChld
  <2> QED BY <2>1, <2>2, <2>3, <1>0, <1>2
<1>6. ASSUME NEW c \in Clients, Connect(c) \/ Read(c) \/ ChildFail(c) \/ Reply(c) \/ Leave(c)
      PROVE  ReasonInv'
  <2>1. /\ child' = [child EXCEPT ![c] = child'[c]]
        /\ request' = [request EXCEPT ![c] = request'[c]]
        /\ child'[c] = "signalling" => AsksShutdown(request'[c])
    BY <1>6, <1>0 DEF Connect, Read, ChildFail, Reply, Leave, Die, Set
  <2>2. \A d \in Clients : child'[d] = "signalling" => AsksShutdown(request'[d])
    BY <2>1, <1>0
  <2>3. requested' = requested /\ usr1' = usr1 /\ phase' = phase /\ acceptFailed' = acceptFailed
    BY <1>6 DEF Connect, Read, ChildFail, Reply, Leave, history
  <2> QED BY <2>2, <2>3, <1>2
<1>7. ASSUME NEW c \in Clients, SignalParent(c)
      PROVE  ReasonInv'
  <2>1. /\ child' = [child EXCEPT ![c] = "leaving"] /\ request' = request
        /\ AsksShutdown(request[c])
    BY <1>7, <1>0 DEF SignalParent, Set
  <2>2. HasAsked(c)'
    BY <2>1, <1>0 DEF HasAsked
  <2>3. \A d \in Clients : child'[d] = "signalling" => AsksShutdown(request'[d])
    BY <2>1, <1>0
  <2>4. requested' = requested /\ phase' = phase /\ acceptFailed' = acceptFailed
    BY <1>7 DEF SignalParent, history
  <2> QED BY <2>2, <2>3, <2>4, <1>2
<1>8. CASE UNCHANGED vars
  <2>1. \A c \in Clients : child'[c] = "signalling" => AsksShutdown(request'[c])
    BY <1>8, <1>0 DEF vars
  <2> QED BY <2>1, <1>8, <1>2 DEF vars, history
<1> QED BY <1>3, <1>4, <1>5, <1>6, <1>7, <1>8 DEF Next, Parent, Handlers, Child

LEMMA InvInit == Init => IInv
<1> SUFFICES ASSUME Init
             PROVE  IInv
  OBVIOUS
<1>1. TypeOK
  <2>1. backlog \in Seq(Clients)
    BY DEF Init
  <2> QED BY <2>1 DEF Init, TypeOK, Phases, ChildStates, Requests
<1>2. BacklogInv
  <2>1. Len(backlog) = 0
    BY DEF Init
  <2>2. 1..Len(backlog) = {}
    BY <2>1
  <2> QED BY <2>2 DEF BacklogInv
<1>3. LateInv /\ ReasonInv
  BY DEF Init, LateInv, ReasonInv
<1> QED BY <1>1, <1>2, <1>3 DEF IInv

(* The inductive invariant holds for any number of clients. *)
THEOREM Inductive == Spec => []IInv
<1>1. IInv /\ [Next]_vars => IInv'
  BY TypeStep, LateStep, BacklogStep, ReasonStep DEF IInv
<1> QED BY <1>1, InvInit, PTL DEF Spec

(* However many clients race with the signal, at most one of them is still *)
(* accepted (server.cpp:127, test_shutdown.py:17).                         *)
THEOREM OneMoreAccept == Spec => []AtMostOneMoreAccept
<1>1. IInv => AtMostOneMoreAccept
  BY DEF IInv, LateInv, AtMostOneMoreAccept
<1> QED BY <1>1, Inductive, PTL

(* The server never leaves its loop without a reason (server.cpp:17).      *)
THEOREM ReasonedShutdown == Spec => []ShutdownHasReason
<1>1. IInv => ShutdownHasReason
  BY DEF IInv, ReasonInv, ShutdownHasReason, HasAsked, AsksShutdown
<1> QED BY <1>1, Inductive, PTL

-----------------------------------------------------------------------------
(* The exchange. *)

(* Every step of the exchange is a step of the server or none. *)
LEMMA ServerSteps == [ExchangeNext]_exchangeVars => [Next]_vars
<1> SUFFICES ASSUME [ExchangeNext]_exchangeVars
             PROVE  [Next]_vars
  OBVIOUS
<1>1. CASE ParentStep
  BY <1>1 DEF ParentStep, Next
<1>2. ASSUME NEW c \in Clients,
             ClientConnect(c) \/ Client(c) \/ Kill(c) \/ ChildStep(c) \/ ChildFails(c)
      PROVE  [Next]_vars
  <2>1. CASE ClientConnect(c)
    BY <2>1 DEF ClientConnect, Next
  <2>2. CASE Client(c) \/ Kill(c)
    BY <2>2 DEF Client, Refused, Send, Receive, Kill
  <2>3. CASE ChildRead(c)
    BY <2>3 DEF ChildRead, Next
  <2>4. CASE ChildReply(c) \/ ChildLeaves(c) \/ (SignalParent(c) /\ UNCHANGED clients)
    BY <2>4 DEF ChildReply, ChildLeaves, Next, Child
  <2>5. CASE ChildFails(c)
    BY <2>5 DEF ChildFails, Next
  <2> QED BY <1>2, <2>1, <2>2, <2>3, <2>4, <2>5 DEF ChildStep
<1>3. CASE UNCHANGED exchangeVars
  BY <1>3 DEF exchangeVars
<1> QED BY <1>1, <1>2, <1>3 DEF ExchangeNext

(* The exchange implements the server of SumServer. *)
THEOREM ImplementsSumServer == Exchange => Spec
<1>1. ExchangeInit => Init
  BY DEF ExchangeInit
<1> QED BY <1>1, ServerSteps, PTL DEF Exchange, Spec

-----------------------------------------------------------------------------
(* What a child has read is what the user of its client gave. *)
Gave(c) == input[c].number = "outOfRange" \/ input[c].rest

GivenInv ==
    /\ \A c \in Clients : input[c] \in Inputs[c]
    /\ \A c \in Clients : AsksShutdown(request[c]) => Gave(c)

LEMMA GivenInit == ExchangeInit => GivenInv
  BY DEF ExchangeInit, Init, GivenInv, AsksShutdown

LEMMA GivenStep == TypeOK /\ GivenInv /\ [ExchangeNext]_exchangeVars => GivenInv'
<1> SUFFICES ASSUME TypeOK, GivenInv, [ExchangeNext]_exchangeVars
             PROVE  GivenInv'
  OBVIOUS
<1>1. UNCHANGED input
  BY DEF ExchangeNext, exchangeVars, clients, ParentStep, ClientConnect, Client, Refused, Send,
         Receive, Kill, ChildStep, ChildRead, ChildReply, ChildLeaves, ChildFails
<1>2. CASE UNCHANGED request
  BY <1>1, <1>2 DEF GivenInv, Gave
<1>3. ASSUME NEW c \in Clients, ChildRead(c)
      PROVE  GivenInv'
  <2>1. \A d \in Clients : d # c => request'[d] = request[d]
    BY <1>3 DEF ChildRead, Read, TypeOK
  <2>2. AsksShutdown(request'[c]) => request'[c] = input[c].secondLine
    BY <1>3 DEF ChildRead, AsksShutdown
  <2>3. input[c].rest \/ input[c].secondLine = input[c].number
    BY InputsAssumption DEF GivenInv
  <2>4. input[c].number \in {"inRange", "outOfRange"}
    BY InputsAssumption DEF GivenInv, Input
  <2>5. AsksShutdown(request'[c]) => Gave(c)
    BY <2>2, <2>3, <2>4 DEF Gave, AsksShutdown
  <2> QED BY <1>1, <2>1, <2>5 DEF GivenInv, Gave
<1>4. UNCHANGED request \/ \E c \in Clients : ChildRead(c)
  <2>1. CASE ParentStep
    BY <2>1 DEF ParentStep, Parent, Handlers, CheckFlag, Block, Accept, AcceptFail,
                AfterInterrupt, Close, SleepEnds, Exit, HandleUsr1, HandleChld
  <2>2. ASSUME NEW c \in Clients,
               ClientConnect(c) \/ Client(c) \/ Kill(c) \/ ChildStep(c) \/ ChildFails(c)
        PROVE  UNCHANGED request \/ ChildRead(c)
    BY <2>2 DEF vars, ClientConnect, Connect, Client, Refused, Send, Receive, Kill, ChildStep,
                ChildReply, Reply, ChildLeaves, Leave, SignalParent, ChildFails, ChildFail
  <2>3. CASE UNCHANGED exchangeVars
    BY <2>3 DEF exchangeVars, vars
  <2> QED BY <2>1, <2>2, <2>3 DEF ExchangeNext
<1> QED BY <1>2, <1>3, <1>4

(* The server ends only for a user who gave a number out of range or a     *)
(* name of several lines, or because accept() failed, however many clients *)
(* there are (server.cpp:191, client.cpp:71).                              *)
THEOREM ShutdownAskedFor == Exchange => []ShutdownIsAskedFor
<1>1. GivenInv /\ ShutdownHasReason => ShutdownIsAskedFor
  BY DEF GivenInv, Gave, ShutdownHasReason, ShutdownIsAskedFor, AsksShutdown
<1>2. IInv => TypeOK
  BY DEF IInv
<1>3. Exchange => []IInv /\ []ShutdownHasReason
  BY ImplementsSumServer, Inductive, ReasonedShutdown
<1> QED BY <1>1, <1>2, <1>3, GivenInit, GivenStep, PTL DEF Exchange

-----------------------------------------------------------------------------
(* Only what was read is answered, and only an answer is printed as one. *)
AnsweredInv ==
    /\ \A c \in Clients : child[c] \in {"replying", "signalling", "leaving"} => request[c] # "none"
    /\ \A c \in Clients : wire[c] = "answer" => request[c] # "none"

LEMMA AnsweredInit == ExchangeInit => ExchangeTypeOK /\ AnsweredInv
  BY DEF ExchangeInit, Init, ExchangeTypeOK, AnsweredInv, Steps, Wires

(* What a client does changes nothing but its own place. *)
LEMMA ClientTypes ==
    ASSUME ExchangeTypeOK, AnsweredInv, NEW c \in Clients,
           Refused(c) \/ Send(c) \/ Receive(c) \/ Kill(c)
    PROVE  ExchangeTypeOK' /\ AnsweredInv'
<1>1. UNCHANGED <<child, request, input>>
  BY DEF Refused, Send, Receive, Kill, vars
<1>2. PICK place \in Steps \cup Ends :
         /\ at' = [at EXCEPT ![c] = place]
         /\ place = "sum" => wire[c] = "answer"
  BY DEF Refused, Send, Receive, Kill, Go, Result, Steps, Ends, ExchangeTypeOK, Wires
<1>3. wire' = wire \/ wire' = [wire EXCEPT ![c] = "reset"]
  BY DEF Refused, Send, Receive, Kill
<1>4. /\ wire' \in [Clients -> Wires]
      /\ \A d \in Clients : wire'[d] = "answer" => wire[d] = "answer"
  BY <1>3 DEF ExchangeTypeOK, Wires
<1>5. /\ at' \in [Clients -> Steps \cup Ends]
      /\ \A d \in Clients : at'[d] = "sum" => at[d] = "sum" \/ wire[d] = "answer"
  BY <1>2 DEF ExchangeTypeOK
<1> QED BY <1>1, <1>4, <1>5 DEF ExchangeTypeOK, AnsweredInv

(* What the server does to connections and children. *)
LEMMA ServerTypes ==
    ASSUME TypeOK, ExchangeTypeOK, AnsweredInv, UNCHANGED <<input, request>>,
           wire' \in [Clients -> Wires],
           \A c \in Clients : at'[c] = "sum" => at[c] = "sum",
           at' \in [Clients -> Steps \cup Ends],
           \A c \in Clients : wire'[c] = "answer" => wire[c] = "answer" \/ request[c] # "none",
           \A c \in Clients : child'[c] \in {"replying", "signalling", "leaving"} =>
                                 child[c] \in {"replying", "signalling", "leaving"}
    PROVE  ExchangeTypeOK' /\ AnsweredInv'
  BY DEF ExchangeTypeOK, AnsweredInv

LEMMA AnsweredStep ==
    TypeOK /\ ExchangeTypeOK /\ AnsweredInv /\ [ExchangeNext]_exchangeVars
      => ExchangeTypeOK' /\ AnsweredInv'
<1> SUFFICES ASSUME TypeOK, ExchangeTypeOK, AnsweredInv, [ExchangeNext]_exchangeVars
             PROVE  ExchangeTypeOK' /\ AnsweredInv'
  OBVIOUS
<1> DEFINE Served == {"replying", "signalling", "leaving"}
<1>1. CASE ParentStep
  <2>1. UNCHANGED <<at, input, request>>
    BY <1>1 DEF ParentStep, Parent, Handlers, CheckFlag, Block, Accept, AcceptFail,
                AfterInterrupt, Close, SleepEnds, Exit, HandleUsr1, HandleChld
  <2>2. /\ wire' \in [Clients -> Wires]
        /\ \A c \in Clients : wire'[c] = "answer" => wire[c] = "answer"
    BY <1>1 DEF ParentStep, ExchangeTypeOK, Wires
  <2>3. \A c \in Clients : child'[c] \in Served => child[c] \in Served
    <3>1. CASE UNCHANGED child
      BY <3>1
    <3>2. CASE Accept
      <4>1. PICK state \in {"reading", "dropped"} :
               child' = [child EXCEPT ![Head(backlog)] = state]
        BY <3>2 DEF Accept, Set
      <4> QED BY <4>1 DEF TypeOK
    <3>3. CASE Close
      BY <3>3 DEF Close
    <3>4. CASE Exit \/ HandleChld
      BY <3>4 DEF Exit, HandleChld, ReapInHandler, ReapAll
    <3> QED BY <1>1, <3>1, <3>2, <3>3, <3>4
            DEF ParentStep, Parent, Handlers, CheckFlag, Block, AcceptFail, AfterInterrupt,
                SleepEnds, HandleUsr1
  <2>4. at' \in [Clients -> Steps \cup Ends]
    BY <2>1 DEF ExchangeTypeOK
  <2> HIDE DEF Served
  <2> QED BY <2>1, <2>2, <2>3, <2>4, ServerTypes DEF Served
<1>2. ASSUME NEW c \in Clients, ClientConnect(c)
      PROVE  ExchangeTypeOK' /\ AnsweredInv'
  <2>1. UNCHANGED <<input, request, wire>> /\ at' = [at EXCEPT ![c] = "sending"]
        /\ child' = [child EXCEPT ![c] = "queued"]
    BY <1>2 DEF ClientConnect, Connect, Go, Set
  <2>2. at' \in [Clients -> Steps \cup Ends] /\ \A d \in Clients : at'[d] = "sum" => at[d] = "sum"
    BY <2>1 DEF ExchangeTypeOK, Steps
  <2>3. \A d \in Clients : child'[d] \in Served => child[d] \in Served
    BY <2>1 DEF TypeOK
  <2>4. wire' \in [Clients -> Wires]
    BY <2>1 DEF ExchangeTypeOK
  <2> QED BY <2>1, <2>2, <2>3, <2>4, ServerTypes
<1>3. ASSUME NEW c \in Clients, Client(c) \/ Kill(c)
      PROVE  ExchangeTypeOK' /\ AnsweredInv'
  BY <1>3, ClientTypes DEF Client
<1>4. ASSUME NEW c \in Clients, ChildRead(c)
      PROVE  ExchangeTypeOK' /\ AnsweredInv'
  <2>1. PICK r \in Requests \ {"none"} : request' = [request EXCEPT ![c] = r]
    BY <1>4 DEF ChildRead, Read
  <2>2. child' = [child EXCEPT ![c] = "replying"] /\ UNCHANGED <<at, input, wire>>
    BY <1>4 DEF ChildRead, Read, Set, clients
  <2>3. \A d \in Clients : request[d] # "none" \/ d = c => request'[d] # "none"
    BY <2>1 DEF TypeOK
  <2>4. \A d \in Clients : child'[d] \in Served => child[d] \in Served \/ d = c
    BY <2>2 DEF TypeOK
  <2> QED BY <2>2, <2>3, <2>4 DEF ExchangeTypeOK, AnsweredInv
<1>5. ASSUME NEW c \in Clients, ChildReply(c) \/ ChildLeaves(c) \/ ChildFails(c)
      PROVE  ExchangeTypeOK' /\ AnsweredInv'
  <2>1. UNCHANGED <<at, input, request>>
    BY <1>5 DEF ChildReply, Reply, ChildLeaves, Leave, ChildFails, ChildFail
  <2>2. PICK state \in {"zombie", "signalling", "leaving"} :
           /\ child' = [child EXCEPT ![c] = state]
           /\ state # "zombie" => child[c] = "replying"
    BY <1>5 DEF ChildReply, Reply, ChildLeaves, Leave, ChildFails, ChildFail, Set, Die
  <2>3. \/ wire' = wire
        \/ wire' = [wire EXCEPT ![c] = "answer"] /\ child[c] = "replying"
        \/ wire' = [wire EXCEPT ![c] = "reset"]
        \/ wire' = [wire EXCEPT ![c] = "eof"]
    BY <1>5 DEF ChildReply, Reply, ChildLeaves, ChildFails, ClosedBy
  <2>4. child[c] = "replying" => request[c] # "none"
    BY DEF AnsweredInv
  <2>5. \A d \in Clients : wire'[d] = "answer" => wire[d] = "answer" \/ request[d] # "none"
    BY <2>3, <2>4 DEF ExchangeTypeOK
  <2>6. wire' \in [Clients -> Wires]
    BY <2>3 DEF ExchangeTypeOK, Wires
  <2>7. \A d \in Clients : child'[d] \in Served => child[d] \in Served
    BY <2>2 DEF TypeOK
  <2>8. at' \in [Clients -> Steps \cup Ends]
    BY <2>1 DEF ExchangeTypeOK
  <2> QED BY <2>1, <2>5, <2>6, <2>7, <2>8, ServerTypes
<1>6. ASSUME NEW c \in Clients, SignalParent(c), UNCHANGED clients
      PROVE  ExchangeTypeOK' /\ AnsweredInv'
  <2>1. child' = [child EXCEPT ![c] = "leaving"] /\ child[c] = "signalling"
        /\ UNCHANGED <<at, input, wire, request>>
    BY <1>6 DEF SignalParent, Set, clients
  <2>2. \A d \in Clients : child'[d] \in Served => child[d] \in Served
    BY <2>1 DEF TypeOK
  <2>3. wire' \in [Clients -> Wires] /\ at' \in [Clients -> Steps \cup Ends]
    BY <2>1 DEF ExchangeTypeOK
  <2> QED BY <2>1, <2>2, <2>3, ServerTypes
<1>7. CASE UNCHANGED exchangeVars
  BY <1>7 DEF exchangeVars, vars, clients, ExchangeTypeOK, AnsweredInv
<1> QED BY <1>1, <1>2, <1>3, <1>4, <1>5, <1>6, <1>7 DEF ExchangeNext, ChildStep

(* Every variable of the exchange keeps its type, and a client prints a    *)
(* sum with the server's number only if the server has read what it sent   *)
(* (client.cpp:122), however connections break (client.cpp:105-137).       *)
THEOREM OnlyAnswersPrinted == Exchange => []ExchangeTypeOK
<1>1. IInv => TypeOK
  BY DEF IInv
<1>2. Exchange => []IInv
  BY ImplementsSumServer, Inductive
<1> QED BY <1>1, <1>2, AnsweredInit, AnsweredStep, PTL DEF Exchange

============================================================================
