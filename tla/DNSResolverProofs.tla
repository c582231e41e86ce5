------------------------- MODULE DNSResolverProofs -------------------------
(***************************************************************************)
(* Proofs about DNSResolver, for all limits of the code, all names and     *)
(* whatever they refer to, also to each other.                             *)
(***************************************************************************)
EXTENDS DNSResolver, SequenceTheorems, TLAPS

(* What a frame must satisfy wherever it is in the stack. *)
Counted(frame) ==
    /\ frame \in FrameType
    /\ frame.server_tries <= MAX_SERVER_TRIES /\ frame.server_tries = frame.total_failures

(* frame is the same call as old, further on. *)
SameCall(frame, old) == frame.why = old.why /\ frame.type = old.type

LEMMA PathTypes ==
    ASSUME NEW results \in Results, NEW i \in 1..Len(results)
    PROVE  results[i].path \in Seq(Reasons)
<1> DEFINE R == [type : RecordTypes, path : Seq(Reasons)]
<1>1. results \in Seq(R)
  BY DEF Results
<1> HIDE DEF R
<1>2. results[i] \in R
  BY <1>1, ElementOfSeq
<1> QED BY <1>2 DEF R

LEMMA Tops ==
    ASSUME TypeOK
    PROVE  /\ Len(stack) \in Nat \ {0} /\ top \in FrameType /\ top = stack[Len(stack)]
           /\ \A i \in 1..Len(stack) : stack[i] \in FrameType
  BY LimitsAssumption DEF TypeOK, top

(* The innermost call goes on. *)
LEMMA TopSet ==
    ASSUME TypeOK, WellFormed(stack),
           NEW frame, Counted(frame), SameCall(frame, top), SetTop(frame)
    PROVE  /\ stack' \in Seq(FrameType) /\ Len(stack') = Len(stack) /\ WellFormed(stack')
           /\ stack'[Len(stack)] = frame
           /\ \A i \in 1..Len(stack) : stack'[i].why = stack[i].why /\ stack'[i].type = stack[i].type
<1> DEFINE n == Len(stack)
<1>1. n \in Nat \ {0} /\ stack \in Seq(FrameType)
  BY Tops DEF TypeOK
<1>2. /\ stack' = [stack EXCEPT ![n] = frame]
      /\ stack' \in Seq(FrameType) /\ Len(stack') = n /\ stack'[n] = frame
      /\ \A i \in 1..n : i # n => stack'[i] = stack[i]
  BY <1>1 DEF SetTop, Counted
<1>3. \A i \in 1..n : stack'[i].why = stack[i].why /\ stack'[i].type = stack[i].type
  BY <1>2 DEF SameCall, top
<1>4. \A i \in 1..n : i > 1 => i - 1 \in 1..n
  BY <1>1
<1>5. ASSUME NEW i \in 1..n
      PROVE  /\ stack'[i].why = "resolve" <=> i = 1
             /\ stack'[i].why = "cname" =>
                   stack'[i].type = stack'[i - 1].type /\ stack'[i].type # "CNAME"
  BY <1>1, <1>3, <1>4 DEF WellFormed
<1>6. ASSUME NEW i \in 1..n
      PROVE  /\ stack'[i].server_tries <= MAX_SERVER_TRIES
             /\ stack'[i].server_tries = stack'[i].total_failures
             /\ i < n => NoTries(stack'[i])
  <2>1. CASE i = n
    <3>1. stack'[i] = frame
      BY <1>2, <2>1
    <3>2. ~(i < n)
      BY <1>1, <2>1
    <3> QED BY <3>1, <3>2 DEF Counted
  <2>2. CASE i # n
    BY <1>1, <1>2, <2>2 DEF WellFormed, NoTries
  <2> QED BY <2>1, <2>2
<1>7. WellFormed(stack')
  BY <1>2, <1>5, <1>6 DEF WellFormed
<1> QED BY <1>2, <1>3, <1>7

(* A call: the caller waits without tries, the callee has none yet. *)
LEMMA Pushed ==
    ASSUME TypeOK, WellFormed(stack),
           NEW frame, frame \in FrameType, NoTries(frame), SameCall(frame, top),
           NEW callee, callee \in FrameType, NoTries(callee),
           callee.why \in {"cname", "ns1", "ns2"},
           callee.why = "cname" => callee.type = frame.type /\ callee.type # "CNAME",
           Call(frame, callee)
    PROVE  /\ stack' \in Seq(FrameType) /\ Len(stack') \in 1..MaxDepth
           /\ WellFormed(stack') /\ pc' = "loop" /\ ret' = ret
<1> DEFINE n == Len(stack)
           s == [stack EXCEPT ![n] = frame]
<1>1. n \in Nat \ {0} /\ n < MaxDepth /\ stack \in Seq(FrameType) /\ MaxDepth \in Nat
  BY Tops, LimitsAssumption DEF TypeOK, Call
<1>2. /\ s \in Seq(FrameType) /\ Len(s) = n /\ s[n] = frame
      /\ \A i \in 1..n : i # n => s[i] = stack[i]
  BY <1>1
<1>3. stack' = Append(s, callee) /\ pc' = "loop" /\ ret' = ret
  BY DEF Call
<1> HIDE DEF s
<1>4. /\ stack' \in Seq(FrameType) /\ Len(stack') = n + 1 /\ stack'[n + 1] = callee
      /\ \A i \in 1..n : stack'[i] = s[i]
  BY <1>1, <1>2, <1>3
<1>5. \A i \in 1..n : s[i].why = stack[i].why /\ s[i].type = stack[i].type
  BY <1>2 DEF SameCall, top
<1>6. \A i \in 1..n : i > 1 => i - 1 \in 1..n
  BY <1>1
<1>7. ASSUME NEW i \in 1..n
      PROVE  /\ s[i].why = "resolve" <=> i = 1
             /\ s[i].why = "cname" => s[i].type = s[i - 1].type /\ s[i].type # "CNAME"
             /\ NoTries(s[i])
  <2>1. NoTries(s[i])
    <3>1. CASE i = n
      BY <1>2, <3>1
    <3>2. CASE i # n
      BY <1>1, <1>2, <3>2 DEF WellFormed
    <3> QED BY <3>1, <3>2
  <2> QED BY <1>1, <1>5, <1>6, <2>1 DEF WellFormed
<1>8. ASSUME NEW i \in 1..(n + 1)
      PROVE  /\ stack'[i].why = "resolve" <=> i = 1
             /\ stack'[i].why = "cname" =>
                   stack'[i].type = stack'[i - 1].type /\ stack'[i].type # "CNAME"
             /\ NoTries(stack'[i])
  <2>1. CASE i \in 1..n
    BY <1>1, <1>4, <1>6, <1>7, <2>1
  <2>2. CASE i = n + 1
    <3>1. stack'[i] = callee /\ stack'[i - 1] = frame /\ i # 1
      BY <1>1, <1>2, <1>4, <2>2
    <3> QED BY <3>1
  <2> QED BY <1>1, <2>1, <2>2
<1>9. WellFormed(stack')
  BY <1>4, <1>8, LimitsAssumption DEF WellFormed, NoTries
<1> QED BY <1>1, <1>3, <1>4, <1>9

(* The innermost call has ended, and its caller goes on. *)
LEMMA Popped ==
    ASSUME TypeOK, WellFormed(stack), Len(stack) > 1,
           NEW frame, frame \in FrameType, NoTries(frame), SameCall(frame, caller), Back(frame)
    PROVE  /\ stack' \in Seq(FrameType) /\ Len(stack') = Len(stack) - 1 /\ WellFormed(stack')
           /\ stack'[Len(stack')] = frame
           /\ \A i \in 1..Len(stack') : stack'[i].why = stack[i].why /\ stack'[i].type = stack[i].type
<1> DEFINE n == Len(stack)
           s == SubSeq(stack, 1, n - 2)
<1>1. n \in Nat /\ n > 1 /\ stack \in Seq(FrameType)
  BY Tops DEF TypeOK
<1>2. /\ s \in Seq(FrameType) /\ Len(s) = n - 2
      /\ \A i \in 1..(n - 2) : s[i] = stack[i]
  <2>1. n - 2 \in Nat /\ \A i \in 1..(n - 2) : stack[i] \in FrameType /\ 1 + i - 1 = i
    BY <1>1
  <2> HIDE DEF n
  <2>2. /\ s \in Seq(FrameType) /\ Len(s) = IF 1 <= n - 2 THEN n - 2 - 1 + 1 ELSE 0
        /\ \A i \in 1..(n - 2 - 1 + 1) : s[i] = stack[1 + i - 1]
    BY <2>1, SubSeqProperties
  <2> QED BY <2>1, <2>2
<1>3. /\ stack' \in Seq(FrameType) /\ Len(stack') = n - 1 /\ stack'[n - 1] = frame
      /\ \A i \in 1..(n - 2) : stack'[i] = stack[i]
  BY <1>1, <1>2 DEF Back
<1>4. \A i \in 1..(n - 1) : stack'[i].why = stack[i].why /\ stack'[i].type = stack[i].type
  <2> TAKE i \in 1..(n - 1)
  <2>1. i \in 1..(n - 2) \/ i = n - 1
    BY <1>1
  <2> QED BY <1>3, <2>1 DEF SameCall, caller
<1>5. ASSUME NEW i \in 1..(n - 1)
      PROVE  /\ stack'[i].why = "resolve" <=> i = 1
             /\ stack'[i].why = "cname" =>
                   stack'[i].type = stack'[i - 1].type /\ stack'[i].type # "CNAME"
             /\ NoTries(stack'[i])
  <2>1. i \in 1..n /\ i < n /\ (i > 1 => i - 1 \in 1..(n - 1))
    BY <1>1
  <2>2. i \in 1..(n - 2) \/ i = n - 1
    BY <1>1
  <2>3. NoTries(stack'[i])
    BY <1>3, <2>1, <2>2 DEF WellFormed
  <2> QED BY <1>1, <1>4, <2>1, <2>3 DEF WellFormed
<1>6. WellFormed(stack')
  BY <1>3, <1>5, LimitsAssumption, SMTT(30) DEF WellFormed, NoTries
<1> QED BY <1>1, <1>3, <1>4, <1>6

-----------------------------------------------------------------------------
(* The outcomes of a step, each in the parts of the invariant. *)

Steady == TypeOK /\ WellFormed(stack)

(* Nothing is returned yet. *)
Going == pc \notin {"return", "done"}

(* The program gives up in the innermost call. *)
LEMMA FailureReturns ==
    ASSUME Steady, Return(Failure), queries' \in Nat
    PROVE  CallInv'
<1>1. pc' = "return" /\ ret' = Failure /\ stack' = stack
  BY DEF Return
<1>2. TypeOK' /\ WellFormed(stack')
  <2>1. Failure \in [ok : BOOLEAN, results : Results]
    BY DEF Failure, Results
  <2> QED BY <1>1, <2>1 DEF Steady, TypeOK, Asking
<1>3. ret'.ok = FALSE /\ ret'.results = <<>> /\ Len(ret'.results) = 0
  BY <1>1 DEF Failure
<1>4. ResultInv' /\ PlaceInv'
  BY <1>1, <1>3 DEF ResultInv, PlaceInv, Asking
<1> QED BY <1>1, <1>2, <1>4 DEF CallInv

(* The innermost call goes round its loop, or asks a server. *)
LEMMA Continues ==
    ASSUME Steady, NEW frame, Counted(frame), SameCall(frame, top), SetTop(frame),
           ret' = ret, queries' \in Nat,
           \/ pc' = "loop"
           \/ pc' = "udp" /\ frame.current_servers > 0 /\ frame.server_tries < MAX_SERVER_TRIES
    PROVE  CallInv'
<1>1. /\ stack' \in Seq(FrameType) /\ Len(stack') = Len(stack) /\ WellFormed(stack')
      /\ stack'[Len(stack)] = frame
  BY TopSet DEF Steady
<1>2. TypeOK'
  BY <1>1 DEF Steady, TypeOK, Asking
<1>3. top' = frame
  BY <1>1 DEF top
<1>4. PlaceInv'
  BY <1>3 DEF PlaceInv, Asking
<1> QED BY <1>1, <1>2, <1>4 DEF CallInv

(* Another call begins. *)
LEMMA Calls ==
    ASSUME Steady, queries' \in Nat,
           NEW frame, frame \in FrameType, NoTries(frame), SameCall(frame, top),
           NEW callee, callee \in FrameType, NoTries(callee),
           callee.why \in {"cname", "ns1", "ns2"},
           callee.why = "cname" => callee.type = frame.type /\ callee.type # "CNAME",
           Call(frame, callee)
    PROVE  CallInv'
<1>1. /\ stack' \in Seq(FrameType) /\ Len(stack') \in 1..MaxDepth
      /\ WellFormed(stack') /\ pc' = "loop" /\ ret' = ret
  BY Pushed DEF Steady
<1> QED BY <1>1 DEF Steady, CallInv, TypeOK, PlaceInv, Asking

(* A new call is for a name that is known. *)
LEMMA NewFrame ==
    ASSUME NEW d \in Names, NEW t \in RecordTypes, NEW w \in Reasons
    PROVE  /\ Frame(d, t, w) \in FrameType /\ NoTries(Frame(d, t, w))
           /\ Frame(d, t, w).why = w /\ Frame(d, t, w).type = t
<1>1. 0 \in 0..MAX_ITERATIONS /\ Roots \in Nat
  BY LimitsAssumption
<1>2. <<>> \in Seq(Names)
  OBVIOUS
<1> QED BY <1>1, <1>2 DEF Frame, FrameType, NoTries

(* The replies' servers, from a frame that has no tries. *)
LEMMA Descends ==
    ASSUME Steady, queries' \in Nat,
           NEW frame, frame \in FrameType, NoTries(frame), SameCall(frame, top), Descend(frame)
    PROVE  CallInv'
<1> DEFINE next == [frame EXCEPT !.current_servers = frame.glue, !.glue = 0]
           again == [next EXCEPT !.server_tries = 0, !.ns = <<>>]
<1>1. /\ next \in FrameType /\ NoTries(next) /\ SameCall(next, top)
      /\ next.ns = frame.ns /\ next.type = frame.type
  BY DEF FrameType, NoTries, SameCall
<1>2. again \in FrameType /\ NoTries(again) /\ SameCall(again, top)
  <2> HIDE DEF next
  <2>1. <<>> \in Seq(Names)
    OBVIOUS
  <2>2. again \in FrameType
    BY <1>1, <2>1 DEF FrameType
  <2> QED BY <1>1, <2>2 DEF FrameType, NoTries, SameCall
<1>3. Counted(again)
  BY <1>2, LimitsAssumption DEF Counted, NoTries
<1> HIDE DEF again
<1>4. CASE Again(again)
  BY <1>2, <1>3, <1>4, Continues DEF Again
<1>5. CASE frame.ns # <<>> /\ Call(next, Frame(next.ns[1], "A", "ns1"))
  <2>1. next.ns[1] \in Names
    BY <1>1, <1>5 DEF FrameType
  <2> HIDE DEF next
  <2> DEFINE callee == Frame(next.ns[1], "A", "ns1")
  <2>2. callee \in FrameType /\ NoTries(callee) /\ callee.why = "ns1"
    BY <2>1, NewFrame DEF RecordTypes, Reasons
  <2> HIDE DEF callee
  <2>3. Call(next, callee)
    BY <1>5 DEF callee
  <2> QED BY <1>1, <2>2, <2>3, Calls
<1>6. CASE Return(Failure)
  BY <1>6, FailureReturns
<1> QED BY <1>4, <1>5, <1>6 DEF Descend, again

-----------------------------------------------------------------------------
(* One lemma per action. *)

LEMMA RoundSteps ==
    ASSUME CallInv, MaximumReached \/ GiveUp \/ Throw \/ Ask
    PROVE  CallInv'
<1>1. Steady /\ queries' \in Nat
  BY DEF CallInv, Steady, TypeOK, MaximumReached, GiveUp, Throw, Ask, Round
<1>2. CASE MaximumReached \/ GiveUp
  BY <1>1, <1>2, FailureReturns DEF MaximumReached, GiveUp
<1>3. CASE Throw
  BY <1>1, <1>3 DEF Throw, Steady, CallInv, TypeOK, PlaceInv, Asking
<1>4. CASE Ask
  <2> DEFINE frame == NextIteration(top)
  <2>1. top \in FrameType /\ MayIterate(top) /\ MayAsk(top) /\ Len(stack) \in 1..Len(stack)
    BY <1>1, <1>4, Tops DEF Ask, Round, Steady
  <2>2. /\ frame \in FrameType /\ SameCall(frame, top)
        /\ frame.server_tries = top.server_tries /\ frame.total_failures = top.total_failures
        /\ frame.current_servers = top.current_servers
    <3>1. top.iterations + 1 \in 0..MAX_ITERATIONS
      BY <2>1, LimitsAssumption, SMTT(30) DEF FrameType, MayIterate
    <3>2. frame = [top EXCEPT !.iterations = top.iterations + 1]
      BY DEF NextIteration
    <3>3. frame \in FrameType
      BY <2>1, <3>1, <3>2 DEF FrameType
    <3> QED BY <2>1, <3>2, <3>3 DEF FrameType, SameCall
  <2>3. Counted(frame)
    BY <1>1, <2>1, <2>2 DEF Steady, WellFormed, Counted, top
  <2>4. frame.current_servers > 0 /\ frame.server_tries < MAX_SERVER_TRIES
    BY <2>1, <2>2 DEF MayAsk
  <2> HIDE DEF frame
  <2>5. SetTop(frame) /\ pc' = "udp" /\ ret' = ret
    BY <1>4 DEF Ask, frame
  <2> QED BY <1>1, <2>2, <2>3, <2>4, <2>5, Continues
<1> QED BY <1>2, <1>3, <1>4

LEMMA FailStep ==
    ASSUME CallInv, pc \in Asking, Fail, queries' \in Nat
    PROVE  CallInv'
<1>1. Steady /\ top \in FrameType
  BY Tops DEF CallInv, Steady
<1>2. CASE Return(Failure)
  BY <1>1, <1>2, FailureReturns
<1>3. CASE top.current_servers > 1 /\ ~Return(Failure)
  <2> DEFINE frame == [top EXCEPT !.server_tries = @ + 1, !.total_failures = @ + 1,
                                  !.current_servers = @ - 1]
  <2>1. /\ frame.why = top.why /\ frame.type = top.type
        /\ frame.server_tries = top.server_tries + 1
        /\ frame.total_failures = top.total_failures + 1
    BY <1>1 DEF FrameType
  <2>2. frame \in FrameType
    <3>1. /\ top.server_tries + 1 \in Nat /\ top.total_failures + 1 \in Nat
          /\ top.current_servers - 1 \in Nat
      BY <1>1, <1>3 DEF FrameType
    <3> QED BY <1>1, <3>1 DEF FrameType
  <2>3. top.server_tries < MAX_SERVER_TRIES
    BY DEF CallInv, PlaceInv
  <2>4. top.server_tries = top.total_failures
    BY <1>1, Tops DEF Steady, WellFormed
  <2>5. MAX_SERVER_TRIES \in Nat /\ top.server_tries \in Nat
    BY <1>1, LimitsAssumption DEF FrameType
  <2>6. Counted(frame) /\ SameCall(frame, top)
    BY <2>1, <2>2, <2>3, <2>4, <2>5 DEF Counted, SameCall
  <2> HIDE DEF frame
  <2>7. Again(frame)
    BY <1>3 DEF Fail, frame
  <2> QED BY <1>1, <2>6, <2>7, Continues DEF Again
<1> QED BY <1>2, <1>3 DEF Fail

(* A place in the exchange with a server that does not change the stack. *)
LEMMA StaysAsking ==
    ASSUME CallInv, pc \in Asking, pc' \in Asking, UNCHANGED <<stack, ret>>, queries' \in Nat
    PROVE  CallInv'
<1>1. Steady
  BY DEF CallInv, Steady
<1> QED BY <1>1 DEF CallInv, TypeOK, PlaceInv, Asking, top

LEMMA QuerySteps == ASSUME CallInv, QueryUDP \/ QueryTCP PROVE CallInv'
<1>1. queries' \in Nat /\ pc \in Asking
  BY DEF CallInv, TypeOK, QueryUDP, QueryTCP, NextTCP, Asking
<1>2. Fail \/ (pc' \in Asking /\ UNCHANGED <<stack, ret>>)
  BY DEF QueryUDP, QueryTCP, NextTCP, Asking
<1> QED BY <1>1, <1>2, FailStep, StaysAsking

LEMMA ParseErrorStep == ASSUME CallInv, ParseError PROVE CallInv'
<1> DEFINE frame == [top EXCEPT !.server_tries = 0, !.total_failures = 0, !.current_servers = @ - 1]
<1>1. Steady /\ top \in FrameType /\ top.current_servers > 0 /\ queries' \in Nat
  BY Tops DEF CallInv, Steady, TypeOK, PlaceInv, Asking, ParseError
<1>2. frame \in FrameType /\ NoTries(frame) /\ SameCall(frame, top)
  <2>1. top.current_servers - 1 \in Nat
    BY <1>1 DEF FrameType
  <2>2. frame \in FrameType
    BY <1>1, <2>1 DEF FrameType
  <2> QED BY <1>1, <2>2 DEF FrameType, NoTries, SameCall
<1>3. Counted(frame)
  BY <1>2, LimitsAssumption DEF Counted, NoTries
<1> HIDE DEF frame
<1>4. Again(frame)
  BY DEF ParseError, frame
<1> QED BY <1>1, <1>2, <1>3, <1>4, Continues DEF Again

(* What is found is typed, and found on the way that the stack is. *)
LEMMA FoundType ==
    ASSUME TypeOK, NEW n \in Nat
    PROVE  /\ Found(n) \in Results /\ Len(Found(n)) = n
           /\ \A i \in 1..n : /\ Found(n)[i].type = top.type
                              /\ Len(Found(n)[i].path) = Len(stack)
                              /\ \A j \in 1..Len(stack) : Found(n)[i].path[j] = stack[j].why
<1>1. \A i \in 1..Len(stack) : stack[i].why \in Reasons
  BY Tops DEF FrameType
<1>2. DOMAIN stack = 1..Len(stack) /\ Len(stack) \in Nat
  BY DEF TypeOK
<1>3. /\ Path \in Seq(Reasons) /\ Len(Path) = Len(stack)
      /\ \A j \in 1..Len(stack) : Path[j] = stack[j].why
  BY <1>1, <1>2 DEF Path
<1>4. top.type \in RecordTypes
  BY Tops DEF FrameType
<1>5. [type |-> top.type, path |-> Path] \in [type : RecordTypes, path : Seq(Reasons)]
  BY <1>3, <1>4
<1> HIDE DEF Path
<1>6. Found(n) \in Results /\ Len(Found(n)) = n
  BY <1>5 DEF Found, Results
<1> QED BY <1>3, <1>6 DEF Found

LEMMA ParseStep == ASSUME CallInv, Parse PROVE CallInv'
<1>1. Steady /\ queries' \in Nat /\ top \in FrameType
  BY Tops DEF CallInv, Steady, TypeOK, Parse
<1>2. PICK answers \in AnswerTypes(top.type) :
        \/ /\ IsFinal(top.type, answers)
           /\ \E n \in 1..MaxRecords : Return(Success(Found(n)))
        \/ /\ ~IsFinal(top.type, answers)
           /\ \E ns \in ServerNames(Refers[top.domain]), glue \in 0..MaxRecords :
                 LET frame == [top EXCEPT !.server_tries = 0, !.total_failures = 0,
                                          !.ns = ns, !.glue = glue]
                 IN  IF IsAlias(top.type, answers) /\ top.iterations < MAX_ITERATIONS - 5
                     THEN \E target \in Refers[top.domain] :
                             Call(frame, Frame(target, top.type, "cname"))
                     ELSE Descend(frame)
  BY DEF Parse
<1>3. CASE /\ IsFinal(top.type, answers)
           /\ \E n \in 1..MaxRecords : Return(Success(Found(n)))
  <2>1. PICK n \in 1..MaxRecords : Return(Success(Found(n)))
    BY <1>3
  <2>2. n \in Nat /\ n > 0
    BY LimitsAssumption
  <2>3. pc' = "return" /\ stack' = stack /\ ret'.ok = TRUE /\ ret'.results = Found(n)
        /\ ret' = [ok |-> TRUE, results |-> Found(n)]
    BY <2>1 DEF Return, Success
  <2>4. /\ Found(n) \in Results /\ Len(Found(n)) = n
        /\ \A i \in 1..n : /\ Found(n)[i].type = top.type
                           /\ Len(Found(n)[i].path) = Len(stack)
                           /\ \A j \in 1..Len(stack) : Found(n)[i].path[j] = stack[j].why
    BY <1>1, <2>2, FoundType DEF Steady
  <2>5. TypeOK' /\ WellFormed(stack')
    BY <1>1, <2>3, <2>4 DEF Steady, TypeOK, Asking
  <2>6. Found(n) # <<>>
    BY <2>2, <2>4
  <2>7. top.type # "CNAME" /\ top' = top
    BY <1>3, <2>3 DEF IsFinal, top
  <2>8. ResultInv'
    BY <2>3, <2>4, <2>6, <2>7 DEF ResultInv
  <2> QED BY <2>3, <2>5, <2>8 DEF CallInv, PlaceInv, Asking
<1>4. CASE ~IsFinal(top.type, answers)
  <2>1. PICK ns \in ServerNames(Refers[top.domain]), glue \in 0..MaxRecords :
          LET frame == [top EXCEPT !.server_tries = 0, !.total_failures = 0,
                                   !.ns = ns, !.glue = glue]
          IN  IF IsAlias(top.type, answers) /\ top.iterations < MAX_ITERATIONS - 5
              THEN \E target \in Refers[top.domain] :
                      Call(frame, Frame(target, top.type, "cname"))
              ELSE Descend(frame)
    BY <1>2, <1>4
  <2> DEFINE frame == [top EXCEPT !.server_tries = 0, !.total_failures = 0,
                                  !.ns = ns, !.glue = glue]
  <2>2. Refers[top.domain] \subseteq Names
    BY <1>1, RefersAssumption DEF FrameType
  <2>3. ns \in Seq(Names)
    <3>1. CASE ns = <<>>
      BY <3>1
    <3>2. CASE ns \in [{1} -> Refers[top.domain]]
      <4>1. ns \in [1..1 -> Names] /\ 1 \in Nat
        BY <2>2, <3>2
      <4>2. [1..1 -> Names] \in {[1..n -> Names] : n \in Nat}
        BY <4>1, Zenon
      <4>3. ns \in UNION {[1..n -> Names] : n \in Nat}
        BY <4>1, <4>2, Zenon
      <4> QED BY <4>3, SeqDef, Zenon
    <3>3. CASE ns \in [1..2 -> Refers[top.domain]]
      <4>1. ns \in [1..2 -> Names] /\ 2 \in Nat
        BY <2>2, <3>3
      <4>2. [1..2 -> Names] \in {[1..n -> Names] : n \in Nat}
        BY <4>1, Zenon
      <4>3. ns \in UNION {[1..n -> Names] : n \in Nat}
        BY <4>1, <4>2, Zenon
      <4> QED BY <4>3, SeqDef, Zenon
    <3> QED BY <3>1, <3>2, <3>3 DEF ServerNames
  <2>4. glue \in Nat
    BY LimitsAssumption
  <2>5. frame \in FrameType /\ NoTries(frame) /\ SameCall(frame, top) /\ frame.type = top.type
    BY <1>1, <2>3, <2>4 DEF FrameType, NoTries, SameCall
  <2> HIDE DEF frame
  <2>6. CASE IsAlias(top.type, answers) /\ top.iterations < MAX_ITERATIONS - 5
    <3>1. PICK target \in Refers[top.domain] : Call(frame, Frame(target, top.type, "cname"))
      BY <2>1, <2>6 DEF frame
    <3> DEFINE callee == Frame(target, top.type, "cname")
    <3>2. target \in Names /\ top.type \in RecordTypes /\ top.type # "CNAME"
      BY <1>1, <2>2, <2>6 DEF FrameType, IsAlias
    <3>3. callee \in FrameType /\ NoTries(callee) /\ callee.why = "cname" /\ callee.type = top.type
      BY <3>2, NewFrame DEF Reasons
    <3> HIDE DEF callee
    <3>4. Call(frame, callee)
      BY <3>1 DEF callee
    <3> QED BY <1>1, <2>5, <3>2, <3>3, <3>4, Calls
  <2>7. CASE ~(IsAlias(top.type, answers) /\ top.iterations < MAX_ITERATIONS - 5)
    <3>1. Descend(frame)
      BY <2>1, <2>7 DEF frame
    <3> QED BY <1>1, <2>5, <3>1, Descends
  <2> QED BY <2>6, <2>7
<1> QED BY <1>2, <1>3, <1>4

-----------------------------------------------------------------------------
(* A call ends. *)

(* What holds of its caller. *)
LEMMA Callers ==
    ASSUME CallInv, pc = "return", Len(stack) > 1
    PROVE  /\ Steady /\ caller \in FrameType /\ NoTries(caller) /\ ResultInv
           /\ top \in FrameType /\ top.why # "resolve"
<1>1. Steady /\ ResultInv
  BY DEF CallInv, Steady
<1>2. Len(stack) - 1 \in 1..Len(stack) /\ Len(stack) \in 1..Len(stack) /\ Len(stack) # 1
  BY <1>1, Tops DEF Steady
<1>3. caller \in FrameType /\ NoTries(caller)
  BY <1>1, <1>2, Tops DEF Steady, WellFormed, caller
<1>4. top \in FrameType /\ top.why # "resolve"
  BY <1>1, <1>2, Tops DEF Steady, WellFormed
<1> QED BY <1>1, <1>3, <1>4

LEMMA AnswerReturnsStep == ASSUME CallInv, AnswerReturns PROVE CallInv'
<1> DEFINE n == Len(stack)
<1>1. /\ pc = "return" /\ n > 1 /\ ret.ok /\ top.why = "cname"
      /\ pc' = "return" /\ UNCHANGED <<ret, queries>> /\ Back(caller)
  BY DEF AnswerReturns, Returning, IsAnswer
<1>2. Steady /\ caller \in FrameType /\ NoTries(caller) /\ ResultInv /\ top \in FrameType
  BY <1>1, Callers
<1>3. /\ stack' \in Seq(FrameType) /\ Len(stack') = n - 1 /\ WellFormed(stack')
      /\ stack'[n - 1] = caller
      /\ \A i \in 1..(n - 1) : stack'[i].why = stack[i].why
  BY <1>1, <1>2, Popped DEF Steady, SameCall
<1>4. n \in Nat /\ n \in 1..n /\ n - 1 \in 1..n /\ n \in 1..MaxDepth /\ MaxDepth \in Nat
  BY <1>1, <1>2, LimitsAssumption DEF Steady, TypeOK
<1>5. caller.type = top.type /\ top.type # "CNAME"
  BY <1>1, <1>2, <1>4 DEF Steady, WellFormed, caller, top
<1>6. top' = caller
  BY <1>3 DEF top
<1>7. TypeOK'
  BY <1>1, <1>2, <1>3, <1>4 DEF Steady, TypeOK, Asking
<1>8. ASSUME NEW i \in 1..Len(ret.results)
      PROVE  /\ ret.results[i].type = caller.type
             /\ \A j \in 1..Len(ret.results[i].path) :
                   ret.results[i].path[j] = IF j <= n - 1 THEN stack'[j].why ELSE "cname"
  <2>1. ret.results[i].type = caller.type
    BY <1>2, <1>5 DEF ResultInv
  <2>2. ret.results[i].path \in Seq(Reasons)
    <3>1. ret.results \in Results
      BY <1>2 DEF Steady, TypeOK
    <3> QED BY <3>1, PathTypes
  <2>3. ASSUME NEW j \in 1..Len(ret.results[i].path)
        PROVE  ret.results[i].path[j] = IF j <= n - 1 THEN stack'[j].why ELSE "cname"
    <3>1. ret.results[i].path[j] = IF j <= n THEN stack[j].why ELSE "cname"
      BY <1>2 DEF ResultInv
    <3>2. j \in Nat /\ j >= 1
      BY <2>2
    <3>3. CASE j <= n - 1
      BY <1>3, <1>4, <3>1, <3>2, <3>3
    <3>4. CASE j = n
      BY <1>1, <1>4, <3>1, <3>4 DEF top
    <3>5. CASE j > n
      BY <1>4, <3>1, <3>2, <3>5
    <3> QED BY <1>4, <3>2, <3>3, <3>4, <3>5
  <2> QED BY <2>1, <2>3
<1>9. ResultInv'
  BY <1>1, <1>2, <1>3, <1>5, <1>6, <1>8 DEF ResultInv
<1> QED BY <1>1, <1>3, <1>7, <1>9 DEF CallInv, PlaceInv, Asking

(* The caller goes on, with or without the servers that were found. *)
LEMMA GoesBack ==
    ASSUME CallInv, pc = "return", Len(stack) > 1,
           NEW frame, frame \in FrameType, NoTries(frame), SameCall(frame, caller), Back(frame),
           UNCHANGED <<ret, queries>>,
           pc' \in {"loop", "descend"} \/ (pc' = "return" /\ ret.ok = FALSE)
    PROVE  CallInv'
<1>1. Steady /\ ResultInv
  BY Callers
<1>2. /\ stack' \in Seq(FrameType) /\ Len(stack') = Len(stack) - 1 /\ WellFormed(stack')
      /\ stack'[Len(stack')] = frame
  BY <1>1, Popped DEF Steady
<1>3. TypeOK'
  BY <1>1, <1>2, LimitsAssumption DEF Steady, TypeOK, Asking
<1>4. top' = frame
  BY <1>2 DEF top
<1>5. PlaceInv'
  BY <1>4 DEF PlaceInv, Asking
<1>6. pc' = "return" => ResultInv'
  <2> SUFFICES ASSUME pc' = "return" PROVE ResultInv'
    OBVIOUS
  <2>1. ret' = ret /\ ret.ok = FALSE
    OBVIOUS
  <2>2. ret.results = <<>>
    BY <1>1, <2>1 DEF ResultInv
  <2>3. Len(ret.results) = 0
    BY <2>2
  <2> QED BY <2>1, <2>2, <2>3 DEF ResultInv
<1> QED BY <1>2, <1>3, <1>5, <1>6 DEF CallInv

LEMMA ServersReturnStep == ASSUME CallInv, ServersReturn PROVE CallInv'
<1> DEFINE frame == [caller EXCEPT !.current_servers = Len(ret.results), !.server_tries = 0,
                                   !.ns = <<>>]
<1>1. /\ pc = "return" /\ Len(stack) > 1 /\ pc' = "loop" /\ Back(frame)
      /\ UNCHANGED <<ret, queries>>
  BY DEF ServersReturn, Returning
<1>2. caller \in FrameType /\ NoTries(caller) /\ Steady
  BY <1>1, Callers
<1>3. Len(ret.results) \in Nat /\ <<>> \in Seq(Names)
  BY <1>2 DEF Steady, TypeOK, Results
<1>4. frame \in FrameType
  BY <1>2, <1>3 DEF FrameType
<1>5. NoTries(frame) /\ SameCall(frame, caller)
  BY <1>2 DEF NoTries, SameCall, FrameType
<1> HIDE DEF frame
<1> QED BY <1>1, <1>4, <1>5, GoesBack

LEMMA SecondServerStep == ASSUME CallInv, SecondServer PROVE CallInv'
<1> DEFINE frame == Frame(caller.ns[2], "A", "ns2")
           n == Len(stack)
<1>1. /\ pc = "return" /\ n > 1 /\ pc' = "loop" /\ UNCHANGED <<ret, queries>>
      /\ Len(caller.ns) > 1 /\ stack' = [stack EXCEPT ![n] = frame]
  BY DEF SecondServer, Returning
<1>2. caller \in FrameType /\ Steady /\ top \in FrameType
  BY <1>1, Callers
<1>3. caller.ns[2] \in Names
  BY <1>1, <1>2, SMTT(30) DEF FrameType
<1>4. frame \in FrameType /\ NoTries(frame) /\ frame.why = "ns2"
  BY <1>3, NewFrame DEF RecordTypes, Reasons
<1> HIDE DEF frame
<1>5. n \in Nat /\ n \in 1..n /\ stack \in Seq(FrameType)
  BY <1>2, Tops DEF Steady, TypeOK
<1>6. /\ stack' \in Seq(FrameType) /\ Len(stack') = n /\ stack'[n] = frame
      /\ \A i \in 1..n : i # n => stack'[i] = stack[i]
  BY <1>1, <1>4, <1>5
<1>7. WellFormed(stack')
  <2>1. ASSUME NEW i \in 1..n, i # n
        PROVE  /\ stack'[i].why = "resolve" <=> i = 1
               /\ stack'[i].why = "cname" =>
                     stack'[i].type = stack'[i - 1].type /\ stack'[i].type # "CNAME"
               /\ NoTries(stack'[i])
    <3>1. i < n /\ (i > 1 => i - 1 \in 1..n /\ i - 1 # n)
      BY <1>5, <2>1
    <3>2. NoTries(stack'[i])
      BY <1>2, <1>6, <2>1, <3>1 DEF Steady, WellFormed
    <3>3. stack'[i] = stack[i] /\ (i > 1 => stack'[i - 1] = stack[i - 1])
      BY <1>5, <1>6, <2>1, <3>1
    <3>4. /\ stack[i].why = "resolve" <=> i = 1
          /\ stack[i].why = "cname" =>
                stack[i].type = stack[i - 1].type /\ stack[i].type # "CNAME"
      BY <1>2 DEF Steady, WellFormed
    <3>5. stack[i].why = "cname" => i > 1
      BY <1>5, <3>4
    <3> QED BY <3>2, <3>3, <3>4, <3>5
  <2>2. stack'[n].why = "ns2" /\ n # 1 /\ NoTries(stack'[n])
    <3>1. stack'[n] = frame
      BY <1>6
    <3>2. n # 1
      BY <1>1, <1>5
    <3> QED BY <1>4, <3>1, <3>2 DEF NoTries
  <2>3. ASSUME NEW i \in 1..n
        PROVE  /\ stack'[i].why = "resolve" <=> i = 1
               /\ stack'[i].why = "cname" =>
                     stack'[i].type = stack'[i - 1].type /\ stack'[i].type # "CNAME"
               /\ NoTries(stack'[i])
    <3>1. CASE i = n
      BY <2>2, <3>1
    <3>2. CASE i # n
      BY <2>1, <3>2
    <3> QED BY <3>1, <3>2
  <2> QED BY <1>6, <2>3, LimitsAssumption DEF WellFormed, NoTries
<1>8. TypeOK'
  BY <1>1, <1>2, <1>6 DEF Steady, TypeOK, Asking
<1> QED BY <1>1, <1>7, <1>8 DEF CallInv, PlaceInv, Asking

LEMMA FailedCallSteps == ASSUME CallInv, ServersFail \/ AliasFails PROVE CallInv'
<1>1. /\ pc = "return" /\ Len(stack) > 1 /\ ret.ok = FALSE /\ Back(caller)
      /\ UNCHANGED <<ret, queries>> /\ pc' \in {"return", "descend"}
  BY DEF ServersFail, AliasFails, Returning
<1>2. caller \in FrameType /\ NoTries(caller) /\ SameCall(caller, caller)
  BY <1>1, Callers DEF SameCall
<1> QED BY <1>1, <1>2, GoesBack

LEMMA AfterAliasStep == ASSUME CallInv, AfterAlias PROVE CallInv'
<1>1. Steady /\ queries' \in Nat /\ top \in FrameType /\ NoTries(top) /\ SameCall(top, top)
  BY Tops DEF CallInv, Steady, TypeOK, PlaceInv, AfterAlias, SameCall
<1>2. Descend(top)
  BY DEF AfterAlias
<1> QED BY <1>1, <1>2, Descends

LEMMA ResolveReturnsStep == ASSUME CallInv, ResolveReturns PROVE CallInv'
<1>1. top' = top /\ ResultInv
  BY DEF CallInv, ResolveReturns, top
<1>2. ResultInv'
  BY <1>1 DEF ResultInv, ResolveReturns
<1> QED BY <1>2 DEF CallInv, ResolveReturns, TypeOK, PlaceInv, Asking

-----------------------------------------------------------------------------

LEMMA CallInit == Init => CallInv
<1> SUFFICES ASSUME Init PROVE CallInv
  OBVIOUS
<1>1. PICK type \in Types : stack = <<Frame(Question, type, "resolve")>>
  BY DEF Init
<1> DEFINE frame == Frame(Question, type, "resolve")
<1>2. frame \in FrameType /\ NoTries(frame) /\ frame.why = "resolve"
  BY NewFrame, NamesAssumption, TypesAssumption DEF RecordTypes, Reasons
<1> HIDE DEF frame
<1>3. stack = <<frame>>
  BY <1>1 DEF frame
<1>4. stack \in Seq(FrameType) /\ Len(stack) = 1 /\ stack[1] = frame
  BY <1>2, <1>3
<1>5. TypeOK
  <2>1. Failure \in [ok : BOOLEAN, results : Results]
    BY DEF Failure, Results
  <2> QED BY <1>4, <2>1, LimitsAssumption DEF Init, TypeOK, Asking
<1>6. WellFormed(stack)
  BY <1>2, <1>4, LimitsAssumption DEF WellFormed, NoTries
<1> QED BY <1>5, <1>6 DEF Init, CallInv, PlaceInv, Asking

LEMMA CallStep == CallInv /\ [Next]_vars => CallInv'
<1> SUFFICES ASSUME CallInv, [Next]_vars PROVE CallInv'
  OBVIOUS
<1>1. CASE UNCHANGED vars
  BY <1>1 DEF vars, CallInv, TypeOK, PlaceInv, ResultInv, top
<1>2. CASE Next
  BY <1>2, RoundSteps, QuerySteps, ParseErrorStep, ParseStep, AnswerReturnsStep,
     ServersReturnStep, SecondServerStep, FailedCallSteps, AfterAliasStep, ResolveReturnsStep
     DEF Next
<1> QED BY <1>1, <1>2

-----------------------------------------------------------------------------
(* How a step changes the stack: the p-th call goes on, those before it    *)
(* stay, and there is at most one after it.                                *)

GoesOn(p) ==
    /\ p \in 1..Len(stack) /\ Len(stack') \in {p, p + 1}
    /\ \A j \in 1..(p - 1) : stack'[j] = stack[j]
    /\ stack'[p].why = stack[p].why /\ stack'[p].domain = stack[p].domain
    /\ \/ /\ stack'[p].iterations = stack[p].iterations
          /\ Rank[Place(stack', pc', p)] < Rank[Place(stack, pc, p)]
       \/ /\ stack'[p].iterations = stack[p].iterations + 1
          /\ Place(stack, pc, p) = "loop" /\ Place(stack', pc', p) = "udp"
    /\ RefersOn(stack'[p])
    /\ Len(stack') = p + 1 =>
          /\ stack'[p + 1].domain \in Refers[stack[p].domain]
          /\ stack'[p + 1].ns = <<>>

(* Still the same call, in the same round.                                 *)
SameRound(frame, old) ==
    /\ frame.why = old.why /\ frame.domain = old.domain /\ frame.iterations = old.iterations

LEMMA Places == ASSUME CallInv PROVE pc \in DOMAIN Rank
BY DEF CallInv, TypeOK, Asking, Rank

(* The innermost call goes on alone.                                       *)
LEMMA TopGoesOn ==
    ASSUME CallInv, Referred(stack),
           NEW frame, frame \in FrameType, SetTop(frame), RefersOn(frame),
           frame.why = top.why, frame.domain = top.domain,
           \/ frame.iterations = top.iterations /\ Rank[pc'] < Rank[pc]
           \/ frame.iterations = top.iterations + 1 /\ pc = "loop" /\ pc' = "udp"
    PROVE  GoesOn(Len(stack))
<1> DEFINE n == Len(stack)
<1>1. n \in Nat \ {0} /\ stack \in Seq(FrameType) /\ top = stack[n]
  BY Tops DEF CallInv, TypeOK
<1>2. /\ Len(stack') = n /\ stack'[n] = frame
      /\ \A j \in 1..n : j # n => stack'[j] = stack[j]
  BY <1>1 DEF SetTop
<1>3. \A j \in 1..(n - 1) : stack'[j] = stack[j]
  BY <1>1, <1>2
<1>4. Place(stack, pc, n) = pc /\ Place(stack', pc', n) = pc'
  BY <1>2 DEF Place
<1>5. n \in 1..n /\ n # n + 1
  BY <1>1
<1> QED BY <1>1, <1>2, <1>3, <1>4, <1>5 DEF GoesOn

(* It comes to another place, and nothing else changes.                    *)
LEMMA PlaceGoesOn ==
    ASSUME CallInv, Referred(stack), stack' = stack, Rank[pc'] < Rank[pc]
    PROVE  GoesOn(Len(stack))
<1> DEFINE n == Len(stack)
<1>1. n \in Nat \ {0} /\ stack \in Seq(FrameType) /\ top = stack[n] /\ top \in FrameType
  BY Tops DEF CallInv, TypeOK
<1>2. RefersOn(top) /\ n \in 1..n /\ n # n + 1
  <2>1. n \in 1..n /\ n # n + 1
    BY <1>1
  <2>2. \A i \in 1..n : RefersOn(stack[i])
    BY DEF Referred
  <2> QED BY <1>1, <2>1, <2>2
<1>3. Place(stack, pc, n) = pc /\ Place(stack', pc', n) = pc'
  BY DEF Place
<1> QED BY <1>1, <1>2, <1>3 DEF GoesOn

(* It calls another one, and waits.                                        *)
LEMMA CallerGoesOn ==
    ASSUME CallInv, Referred(stack),
           NEW frame, frame \in FrameType, SameRound(frame, top), RefersOn(frame),
           NEW callee, callee \in FrameType, callee.ns = <<>>,
           callee.domain \in Refers[top.domain], Rank[callee.why] < Rank[pc],
           Call(frame, callee)
    PROVE  GoesOn(Len(stack))
<1> DEFINE n == Len(stack)
           s == [stack EXCEPT ![n] = frame]
<1>1. n \in Nat \ {0} /\ stack \in Seq(FrameType) /\ top = stack[n]
  BY Tops DEF CallInv, TypeOK
<1>2. /\ s \in Seq(FrameType) /\ Len(s) = n /\ s[n] = frame
      /\ \A j \in 1..n : j # n => s[j] = stack[j]
  BY <1>1
<1>3. stack' = Append(s, callee)
  BY DEF Call
<1> HIDE DEF s
<1>4. /\ Len(stack') = n + 1 /\ stack'[n + 1] = callee /\ stack'[n] = frame
      /\ \A j \in 1..(n - 1) : stack'[j] = stack[j]
  BY <1>1, <1>2, <1>3
<1>5. Place(stack, pc, n) = pc /\ Place(stack', pc', n) = callee.why
  <2>1. n # n + 1
    BY <1>1
  <2> QED BY <1>4, <2>1 DEF Place
<1>6. n \in 1..n
  BY <1>1
<1> QED BY <1>1, <1>4, <1>5, <1>6 DEF GoesOn, SameRound

(* It has ended, and its caller goes on.                                   *)
LEMMA CallerReturns ==
    ASSUME CallInv, Referred(stack), Len(stack) > 1,
           NEW frame, frame \in FrameType, SameRound(frame, caller), RefersOn(frame),
           Back(frame), Rank[pc'] < Rank[top.why]
    PROVE  GoesOn(Len(stack) - 1)
<1> DEFINE n == Len(stack)
           s == SubSeq(stack, 1, n - 2)
<1>1. n \in Nat /\ n > 1 /\ stack \in Seq(FrameType) /\ top = stack[n] /\ caller = stack[n - 1]
  BY Tops DEF CallInv, TypeOK, caller
<1>2. /\ s \in Seq(FrameType) /\ Len(s) = n - 2
      /\ \A i \in 1..(n - 2) : s[i] = stack[i]
  <2>1. n - 2 \in Nat /\ \A i \in 1..(n - 2) : stack[i] \in FrameType /\ 1 + i - 1 = i
    BY <1>1
  <2> HIDE DEF n
  <2>2. /\ s \in Seq(FrameType) /\ Len(s) = IF 1 <= n - 2 THEN n - 2 - 1 + 1 ELSE 0
        /\ \A i \in 1..(n - 2 - 1 + 1) : s[i] = stack[1 + i - 1]
    BY <2>1, SubSeqProperties
  <2> QED BY <2>1, <2>2
<1>3. /\ Len(stack') = n - 1 /\ stack'[n - 1] = frame
      /\ \A i \in 1..(n - 2) : stack'[i] = stack[i]
  BY <1>1, <1>2 DEF Back
<1>4. Place(stack, pc, n - 1) = top.why /\ Place(stack', pc', n - 1) = pc'
  <2>1. n - 1 # n /\ (n - 1) + 1 = n
    BY <1>1
  <2> QED BY <1>1, <1>3, <2>1 DEF Place
<1>5. PICK p \in 1..n : p = n - 1 /\ p - 1 = n - 2 /\ p # p + 1
  BY <1>1
<1>6. GoesOn(p)
  BY <1>1, <1>3, <1>4, <1>5 DEF GoesOn, SameRound
<1> QED BY <1>5, <1>6

(* The names of the reply stay with it when the servers are chosen.        *)
LEMMA DescendGoesOn ==
    ASSUME CallInv, Referred(stack), pc \in {"parse", "descend"},
           NEW frame, frame \in FrameType, SameRound(frame, top), RefersOn(frame),
           Descend(frame)
    PROVE  GoesOn(Len(stack))
<1> DEFINE next == [frame EXCEPT !.current_servers = frame.glue, !.glue = 0]
           again == [next EXCEPT !.server_tries = 0, !.ns = <<>>]
<1>1. next \in FrameType /\ SameRound(next, top) /\ next.ns = frame.ns /\ next.domain = frame.domain
  BY DEF FrameType, SameRound
<1>2. RefersOn(next)
  BY <1>1 DEF RefersOn
<1>3. again \in FrameType /\ SameRound(again, top) /\ again.ns = <<>>
  <2> HIDE DEF next
  <2>1. <<>> \in Seq(Names)
    OBVIOUS
  <2> QED BY <1>1, <2>1 DEF FrameType, SameRound
<1>4. RefersOn(again)
  BY <1>3 DEF RefersOn
<1> HIDE DEF again
<1>5. CASE Again(again)
  <2>1. SetTop(again) /\ Rank[pc'] < Rank[pc]
    BY <1>5 DEF Again, Rank
  <2> QED BY <1>3, <1>4, <2>1, TopGoesOn DEF SameRound
<1>6. CASE frame.ns # <<>> /\ Call(next, Frame(next.ns[1], "A", "ns1"))
  <2>1. next.ns[1] \in Refers[top.domain] /\ next.ns[1] \in Names
    <3>1. 1 \in 1..Len(next.ns)
      BY <1>1, <1>6 DEF FrameType
    <3>2. next.ns[1] \in Names
      BY <1>1, <3>1 DEF FrameType
    <3> QED BY <1>1, <1>2, <3>1, <3>2 DEF RefersOn, SameRound
  <2> HIDE DEF next
  <2> DEFINE callee == Frame(next.ns[1], "A", "ns1")
  <2>2. /\ callee \in FrameType /\ callee.why = "ns1" /\ callee.ns = <<>>
        /\ callee.domain = next.ns[1]
    BY <2>1, NewFrame, ZenonT(30) DEF RecordTypes, Reasons, Frame
  <2> HIDE DEF callee
  <2>3. Call(next, callee)
    BY <1>6 DEF callee
  <2>4. Rank[callee.why] < Rank[pc]
    BY <2>2 DEF Rank
  <2> QED BY <1>1, <1>2, <2>1, <2>2, <2>3, <2>4, CallerGoesOn
<1>7. CASE Return(Failure)
  <2>1. stack' = stack /\ Rank[pc'] < Rank[pc]
    BY <1>7 DEF Return, Rank
  <2> QED BY <2>1, PlaceGoesOn
<1> QED BY <1>5, <1>6, <1>7 DEF Descend, again

-----------------------------------------------------------------------------
(* One lemma for each kind of step. *)

LEMMA RoundGoesOn ==
    ASSUME CallInv, Referred(stack), MaximumReached \/ GiveUp \/ Throw \/ Ask
    PROVE  GoesOn(Len(stack))
<1>1. CASE MaximumReached \/ GiveUp \/ Throw
  <2>1. stack' = stack /\ pc = "loop" /\ pc' \in {"return", "aborted"}
    BY <1>1 DEF MaximumReached, GiveUp, Throw, Round, Return
  <2>2. Rank[pc'] < Rank[pc]
    BY <2>1 DEF Rank
  <2> QED BY <2>1, <2>2, PlaceGoesOn
<1>2. CASE Ask
  <2> DEFINE frame == NextIteration(top)
  <2>1. /\ top \in FrameType /\ top.iterations < MAX_ITERATIONS /\ top = stack[Len(stack)]
        /\ Len(stack) \in 1..Len(stack)
    BY <1>2, Tops DEF CallInv, Ask, Round, MayIterate
  <2>2. /\ frame \in FrameType /\ frame.iterations = top.iterations + 1
        /\ frame.why = top.why /\ frame.domain = top.domain /\ frame.ns = top.ns
    <3>1. top.iterations + 1 \in 0..MAX_ITERATIONS
      BY <2>1, LimitsAssumption, SMTT(30) DEF FrameType
    <3> QED BY <2>1, <3>1 DEF FrameType, NextIteration
  <2>3. RefersOn(top)
    BY <2>1 DEF Referred
  <2> HIDE DEF frame
  <2>4. RefersOn(frame)
    BY <2>2, <2>3 DEF RefersOn
  <2>5. SetTop(frame) /\ pc = "loop" /\ pc' = "udp"
    BY <1>2 DEF Ask, Round, frame
  <2> QED BY <2>2, <2>4, <2>5, TopGoesOn
<1> QED BY <1>1, <1>2

(* A frame with other counters and servers.                                *)
LEMMA OtherCounters ==
    ASSUME CallInv, Referred(stack), pc \in Asking, pc' = "loop",
           NEW a \in Nat, NEW b \in Nat, NEW c \in Nat,
           SetTop([top EXCEPT !.server_tries = a, !.total_failures = b, !.current_servers = c])
    PROVE  GoesOn(Len(stack))
<1> DEFINE frame == [top EXCEPT !.server_tries = a, !.total_failures = b, !.current_servers = c]
<1>1. top \in FrameType /\ top = stack[Len(stack)] /\ Len(stack) \in 1..Len(stack)
  BY Tops DEF CallInv
<1>2. /\ frame \in FrameType /\ SameRound(frame, top) /\ frame.ns = top.ns
  BY <1>1 DEF FrameType, SameRound
<1>3. RefersOn(top)
  BY <1>1 DEF Referred
<1> HIDE DEF frame
<1>4. RefersOn(frame)
  BY <1>2, <1>3 DEF RefersOn, SameRound
<1>5. SetTop(frame)
  BY DEF frame
<1>6. Rank[pc'] < Rank[pc]
  BY DEF Rank, Asking
<1> QED BY <1>2, <1>4, <1>5, <1>6, TopGoesOn DEF SameRound

LEMMA AskingGoesOn ==
    ASSUME CallInv, Referred(stack), QueryUDP \/ QueryTCP \/ ParseError
    PROVE  GoesOn(Len(stack))
<1>1. top \in FrameType /\ pc \in Asking
  BY Tops DEF CallInv, QueryUDP, QueryTCP, NextTCP, ParseError, Asking
<1>2. CASE Fail
  <2>1. CASE Return(Failure)
    <3>1. stack' = stack /\ Rank[pc'] < Rank[pc]
      BY <1>1, <2>1 DEF Return, Rank, Asking
    <3> QED BY <3>1, PlaceGoesOn
  <2>2. CASE /\ top.current_servers > 1
             /\ Again([top EXCEPT !.server_tries = @ + 1, !.total_failures = @ + 1,
                                  !.current_servers = @ - 1])
    <3>1. /\ top.server_tries + 1 \in Nat /\ top.total_failures + 1 \in Nat
          /\ top.current_servers - 1 \in Nat
      BY <1>1, <2>2 DEF FrameType
    <3> QED BY <1>1, <2>2, <3>1, OtherCounters DEF Again
  <2> QED BY <1>2, <2>1, <2>2 DEF Fail
<1>3. CASE ParseError
  <2>1. top.current_servers - 1 \in Nat
    BY <1>1, <1>3 DEF FrameType, CallInv, PlaceInv, ParseError, Asking
  <2> QED BY <1>1, <1>3, <2>1, OtherCounters DEF ParseError, Again
<1>4. CASE (QueryUDP \/ QueryTCP) /\ ~Fail
  <2>1. stack' = stack /\ Rank[pc'] < Rank[pc]
    BY <1>4 DEF QueryUDP, QueryTCP, NextTCP, Rank
  <2> QED BY <2>1, PlaceGoesOn
<1> QED BY <1>2, <1>3, <1>4

LEMMA ServerNamesType ==
    ASSUME NEW names \in SUBSET Names, NEW ns \in ServerNames(names)
    PROVE  ns \in Seq(Names) /\ \A k \in 1..Len(ns) : ns[k] \in names
<1>1. ns \in Seq(names)
  <2>1. CASE ns = <<>>
    BY <2>1
  <2>2. ASSUME NEW n \in {1, 2}, ns \in [1..n -> names]
        PROVE  ns \in Seq(names)
    <3>1. n \in Nat
      OBVIOUS
    <3>2. [1..n -> names] \in {[1..m -> names] : m \in Nat}
      BY <3>1, Zenon
    <3>3. ns \in UNION {[1..m -> names] : m \in Nat}
      BY <2>2, <3>2, Zenon
    <3> QED BY <3>3, SeqDef, Zenon
  <2>3. ns \in [{1} -> names] => ns \in [1..1 -> names]
    <3>1. 1..1 = {1}
      OBVIOUS
    <3> QED BY <3>1
  <2> QED BY <2>1, <2>2, <2>3 DEF ServerNames
<1>2. \A k \in 1..Len(ns) : ns[k] \in names
  BY <1>1
<1>3. Len(ns) \in Nat /\ DOMAIN ns = 1..Len(ns) /\ ns = [k \in 1..Len(ns) |-> ns[k]]
  BY <1>1
<1>4. ns \in Seq(Names)
  BY <1>2, <1>3, SeqDef
<1> QED BY <1>2, <1>4

LEMMA ParseGoesOn ==
    ASSUME CallInv, Referred(stack), Parse
    PROVE  GoesOn(Len(stack))
<1>1. top \in FrameType /\ pc = "parse" /\ Refers[top.domain] \in SUBSET Names
  BY Tops, RefersAssumption DEF CallInv, Parse, FrameType
<1>2. PICK answers \in AnswerTypes(top.type) :
        \/ \E n \in 1..MaxRecords : Return(Success(Found(n)))
        \/ \E ns \in ServerNames(Refers[top.domain]), glue \in 0..MaxRecords :
              LET frame == [top EXCEPT !.server_tries = 0, !.total_failures = 0,
                                       !.ns = ns, !.glue = glue]
              IN  IF IsAlias(top.type, answers) /\ top.iterations < MAX_ITERATIONS - 5
                  THEN \E target \in Refers[top.domain] :
                          Call(frame, Frame(target, top.type, "cname"))
                  ELSE Descend(frame)
  BY DEF Parse
<1>3. CASE \E n \in 1..MaxRecords : Return(Success(Found(n)))
  <2>1. stack' = stack /\ Rank[pc'] < Rank[pc]
    BY <1>1, <1>3 DEF Return, Rank
  <2> QED BY <2>1, PlaceGoesOn
<1>4. ASSUME NEW ns \in ServerNames(Refers[top.domain]), NEW glue \in 0..MaxRecords,
             LET frame == [top EXCEPT !.server_tries = 0, !.total_failures = 0,
                                      !.ns = ns, !.glue = glue]
             IN  IF IsAlias(top.type, answers) /\ top.iterations < MAX_ITERATIONS - 5
                 THEN \E target \in Refers[top.domain] :
                         Call(frame, Frame(target, top.type, "cname"))
                 ELSE Descend(frame)
      PROVE  GoesOn(Len(stack))
  <2> DEFINE frame == [top EXCEPT !.server_tries = 0, !.total_failures = 0,
                                  !.ns = ns, !.glue = glue]
  <2>1. ns \in Seq(Names) /\ \A k \in 1..Len(ns) : ns[k] \in Refers[top.domain]
    BY <1>1, ServerNamesType
  <2>2. frame \in FrameType /\ SameRound(frame, top) /\ frame.ns = ns
    <3>1. glue \in Nat
      BY LimitsAssumption
    <3> QED BY <1>1, <2>1, <3>1 DEF FrameType, SameRound
  <2> HIDE DEF frame
  <2>3. RefersOn(frame)
    BY <2>1, <2>2 DEF RefersOn, SameRound
  <2>4. CASE Descend(frame)
    BY <1>1, <2>2, <2>3, <2>4, DescendGoesOn
  <2>5. ASSUME NEW target \in Refers[top.domain], Call(frame, Frame(target, top.type, "cname"))
        PROVE  GoesOn(Len(stack))
    <3> DEFINE callee == Frame(target, top.type, "cname")
    <3>1. /\ callee \in FrameType /\ callee.why = "cname" /\ callee.ns = <<>>
          /\ callee.domain = target
      BY <1>1, NewFrame DEF Reasons, FrameType, Frame
    <3> HIDE DEF callee
    <3>2. Call(frame, callee)
      BY <2>5 DEF callee
    <3>3. Rank[callee.why] < Rank[pc]
      BY <1>1, <3>1 DEF Rank
    <3> QED BY <2>2, <2>3, <3>1, <3>2, <3>3, CallerGoesOn
  <2> QED BY <1>4, <2>4, <2>5 DEF frame
<1> QED BY <1>2, <1>3, <1>4

(* The frame the innermost call goes back to.                              *)
LEMMA CallerRefers ==
    ASSUME CallInv, Referred(stack), pc = "return", Len(stack) > 1
    PROVE  /\ caller \in FrameType /\ RefersOn(caller) /\ SameRound(caller, caller)
           /\ top.why \in {"cname", "ns1", "ns2"}
<1>1. Len(stack) - 1 \in 1..Len(stack)
  BY Tops DEF CallInv
<1>2. caller \in FrameType /\ top \in FrameType /\ top.why # "resolve"
  BY Callers
<1>3. RefersOn(caller)
  BY <1>1 DEF Referred, caller
<1> QED BY <1>2, <1>3 DEF SameRound, FrameType, Reasons

LEMMA ReturnGoesOn ==
    ASSUME CallInv, Referred(stack), AnswerReturns \/ ServersReturn \/ ServersFail \/ AliasFails
    PROVE  GoesOn(Len(stack) - 1)
<1>1. pc = "return" /\ Len(stack) > 1
  BY DEF AnswerReturns, ServersReturn, ServersFail, AliasFails, Returning
<1>2. /\ caller \in FrameType /\ RefersOn(caller) /\ SameRound(caller, caller)
      /\ top.why \in {"cname", "ns1", "ns2"}
  BY <1>1, CallerRefers
<1>3. CASE AnswerReturns \/ ServersFail \/ AliasFails
  <2>1. /\ Back(caller) /\ pc' \in {"return", "descend"}
        /\ pc' = "descend" => top.why = "cname"
    BY <1>3 DEF AnswerReturns, ServersFail, AliasFails
  <2>2. Rank[pc'] < Rank[top.why]
    BY <1>2, <2>1 DEF Rank
  <2> QED BY <1>1, <1>2, <2>1, <2>2, CallerReturns
<1>4. CASE ServersReturn
  <2> DEFINE frame == [caller EXCEPT !.current_servers = Len(ret.results), !.server_tries = 0,
                                     !.ns = <<>>]
  <2>1. Len(ret.results) \in Nat /\ <<>> \in Seq(Names)
    BY DEF CallInv, TypeOK, Results
  <2>2. frame \in FrameType /\ SameRound(frame, caller) /\ frame.ns = <<>>
    BY <1>2, <2>1 DEF FrameType, SameRound
  <2> HIDE DEF frame
  <2>3. RefersOn(frame)
    BY <2>2 DEF RefersOn
  <2>4. Back(frame) /\ pc' = "loop"
    BY <1>4 DEF ServersReturn, frame
  <2>5. Rank[pc'] < Rank[top.why]
    BY <1>2, <2>4 DEF Rank
  <2> QED BY <1>1, <2>2, <2>3, <2>4, <2>5, CallerReturns
<1> QED BY <1>3, <1>4

LEMMA SecondGoesOn ==
    ASSUME CallInv, Referred(stack), SecondServer
    PROVE  GoesOn(Len(stack) - 1)
<1> DEFINE frame == Frame(caller.ns[2], "A", "ns2")
           n == Len(stack)
<1>1. /\ pc = "return" /\ n > 1 /\ pc' = "loop" /\ top.why = "ns1"
      /\ Len(caller.ns) > 1 /\ stack' = [stack EXCEPT ![n] = frame]
  BY DEF SecondServer, Returning
<1>2. caller \in FrameType /\ RefersOn(caller)
  BY <1>1, CallerRefers
<1>3. caller.ns[2] \in Refers[caller.domain] /\ caller.ns[2] \in Names
  <2>1. 2 \in 1..Len(caller.ns)
    BY <1>1, <1>2 DEF FrameType
  <2> QED BY <1>2, <2>1 DEF RefersOn, FrameType
<1>4. /\ frame \in FrameType /\ frame.why = "ns2" /\ frame.ns = <<>>
      /\ frame.domain = caller.ns[2]
  BY <1>3, NewFrame, ZenonT(30) DEF RecordTypes, Reasons, Frame
<1> HIDE DEF frame
<1>5. n \in Nat /\ n \in 1..n /\ stack \in Seq(FrameType) /\ top = stack[n]
  BY Tops DEF CallInv, TypeOK
<1>6. /\ Len(stack') = n /\ stack'[n] = frame
      /\ \A i \in 1..n : i # n => stack'[i] = stack[i]
  BY <1>1, <1>4, <1>5
<1>7. PICK p \in 1..n : p = n - 1
  <2>1. n \in Nat /\ n > 1
    BY <1>1, <1>5
  <2>2. n - 1 \in 1..n
    BY <2>1
  <2> QED BY <2>2
<1>8. /\ p + 1 = n /\ p # n /\ \A j \in 1..(p - 1) : j \in 1..n /\ j # n
      /\ caller = stack[p]
  BY <1>5, <1>7 DEF caller
<1>9. Rank[Place(stack', pc', p)] < Rank[Place(stack, pc, p)]
  <2>1. Place(stack', pc', p) = "ns2" /\ Place(stack, pc, p) = "ns1"
    BY <1>1, <1>4, <1>5, <1>6, <1>8 DEF Place
  <2> QED BY <2>1 DEF Rank
<1>10. GoesOn(p)
  BY <1>2, <1>3, <1>4, <1>6, <1>7, <1>8, <1>9 DEF GoesOn
<1> QED BY <1>7, <1>10

LEMMA StepGoesOn ==
    ASSUME CallInv, Referred(stack), Next
    PROVE  \E p \in 1..Len(stack) : GoesOn(p)
<1>1. Len(stack) \in 1..Len(stack)
  BY Tops DEF CallInv
<1>2. CASE MaximumReached \/ GiveUp \/ Throw \/ Ask
  BY <1>1, <1>2, RoundGoesOn
<1>3. CASE QueryUDP \/ QueryTCP \/ ParseError
  BY <1>1, <1>3, AskingGoesOn
<1>4. CASE Parse
  BY <1>1, <1>4, ParseGoesOn
<1>5. CASE AnswerReturns \/ ServersReturn \/ ServersFail \/ AliasFails
  <2>1. GoesOn(Len(stack) - 1)
    BY <1>5, ReturnGoesOn
  <2> QED BY <2>1 DEF GoesOn
<1>6. CASE SecondServer
  <2>1. GoesOn(Len(stack) - 1)
    BY <1>6, SecondGoesOn
  <2> QED BY <2>1 DEF GoesOn
<1>7. CASE AfterAlias
  <2>1. top \in FrameType /\ top = stack[Len(stack)] /\ SameRound(top, top)
    BY Tops DEF CallInv, SameRound
  <2>2. RefersOn(top) /\ pc = "descend" /\ Descend(top)
    BY <1>1, <1>7, <2>1 DEF Referred, AfterAlias
  <2> QED BY <1>1, <2>1, <2>2, DescendGoesOn
<1>8. CASE ResolveReturns
  <2>1. stack' = stack /\ Rank[pc'] < Rank[pc]
    BY <1>8 DEF ResolveReturns, Rank
  <2> QED BY <1>1, <2>1, PlaceGoesOn
<1> QED BY <1>2, <1>3, <1>4, <1>5, <1>6, <1>7, <1>8 DEF Next

-----------------------------------------------------------------------------
(* What follows from this: names are referred to, and less is left to do. *)

LEMMA ReferredKept ==
    ASSUME CallInv, Referred(stack), NEW p, GoesOn(p)
    PROVE  Referred(stack')
<1>1. /\ p \in 1..Len(stack) /\ Len(stack') \in {p, p + 1} /\ Len(stack) \in Nat
      /\ \A j \in 1..(p - 1) : stack'[j] = stack[j]
      /\ stack'[p].domain = stack[p].domain /\ RefersOn(stack'[p])
  BY Tops DEF CallInv, GoesOn
<1>2. stack'[1].domain = Question
  <2>1. 1 \in 1..(p - 1) \/ p = 1
    BY <1>1
  <2> QED BY <1>1, <2>1 DEF Referred
<1>3. ASSUME NEW i \in 1..Len(stack')
      PROVE  /\ RefersOn(stack'[i])
             /\ i > 1 => stack'[i].domain \in Refers[stack'[i - 1].domain]
  <2>1. CASE i \in 1..(p - 1)
    <3>1. i \in 1..Len(stack) /\ (i > 1 => i - 1 \in 1..(p - 1))
      BY <1>1, <2>1
    <3> QED BY <1>1, <2>1, <3>1 DEF Referred
  <2>2. CASE i = p
    <3>1. i > 1 => i - 1 \in 1..(p - 1)
      BY <1>1, <2>2
    <3> QED BY <1>1, <2>2, <3>1 DEF Referred
  <2>3. CASE i = p + 1
    <3>1. Len(stack') = p + 1 /\ i - 1 = p
      BY <1>1, <2>3
    <3>2. stack'[i].domain \in Refers[stack[p].domain] /\ stack'[i].ns = <<>>
      BY <2>3, <3>1 DEF GoesOn
    <3> QED BY <1>1, <3>1, <3>2 DEF RefersOn
  <2>4. i \in 1..(p - 1) \/ i = p \/ i = p + 1
    BY <1>1
  <2> QED BY <2>1, <2>2, <2>3, <2>4
<1> QED BY <1>2, <1>3 DEF Referred

LEMMA PlaceType ==
    ASSUME NEW calls \in Seq(FrameType), WellFormed(calls), NEW at \in DOMAIN Rank,
           NEW i \in 1..Len(calls)
    PROVE  Rank[Place(calls, at, i)] \in 0..12
<1>1. CASE i = Len(calls)
  BY <1>1 DEF Place, Rank
<1>2. CASE i # Len(calls)
  <2>1. i + 1 \in 1..Len(calls) /\ i + 1 # 1
    BY <1>2
  <2>2. calls[i + 1] \in FrameType /\ calls[i + 1].why # "resolve"
    BY <2>1 DEF WellFormed
  <2>3. calls[i + 1].why \in {"cname", "ns1", "ns2"}
    BY <2>2 DEF FrameType, Reasons
  <2> QED BY <1>2, <2>3 DEF Place, Rank
<1> QED BY <1>1, <1>2

LEMMA EffortType ==
    ASSUME CallInv, NEW i \in 1..Len(stack)
    PROVE  Effort(stack, pc, i) \in Nat
<1>1. PICK r \in Nat : r = Rank[Place(stack, pc, i)]
  BY Places, PlaceType DEF CallInv, TypeOK
<1>2. stack[i].iterations \in 0..MAX_ITERATIONS /\ MAX_ITERATIONS \in Nat
  BY Tops, LimitsAssumption DEF CallInv, FrameType
<1>3. PICK m \in Nat : m = MAX_ITERATIONS - stack[i].iterations
  BY <1>2
<1>4. 13 * m + r \in Nat
  BY <1>1, <1>3
<1> QED BY <1>1, <1>3, <1>4 DEF Effort

LEMMA LeftType == CallInv => LeftIsNatural
<1> SUFFICES ASSUME CallInv PROVE LeftIsNatural
  OBVIOUS
<1>1. ASSUME NEW i \in 1..MaxDepth
      PROVE  (IF i <= Len(stack) THEN Effort(stack, pc, i) ELSE 0) \in Nat
  <2>1. CASE i <= Len(stack)
    <3>1. i \in 1..Len(stack)
      BY <2>1, Tops, LimitsAssumption DEF CallInv
    <3> QED BY <2>1, <3>1, EffortType
  <2> QED BY <2>1
<1> QED BY <1>1 DEF LeftIsNatural, Left

(* The p-th call has less to do, and those before it as much as before.    *)
LEMMA EffortFalls ==
    ASSUME CallInv, CallInv', NEW p \in 1..Len(stack), GoesOn(p)
    PROVE  Effort(stack', pc', p) < Effort(stack, pc, p)
<1>1. p \in 1..Len(stack')
  BY Tops DEF CallInv, GoesOn
<1>2. /\ stack[p].iterations \in 0..MAX_ITERATIONS /\ MAX_ITERATIONS \in Nat
      /\ stack'[p].iterations \in 0..MAX_ITERATIONS
  <2>1. stack[p] \in FrameType
    BY Tops DEF CallInv
  <2>2. stack'[p] \in FrameType
    BY <1>1 DEF CallInv, TypeOK
  <2> QED BY <2>1, <2>2, LimitsAssumption DEF FrameType
<1>3. Rank[Place(stack, pc, p)] \in 0..12
  BY Places, PlaceType DEF CallInv, TypeOK
<1>4. Rank[Place(stack', pc', p)] \in 0..12
  <2>1. pc' \in DOMAIN Rank
    BY DEF CallInv, TypeOK, Asking, Rank
  <2> QED BY <1>1, <2>1, PlaceType DEF CallInv, TypeOK
<1>5. PICK r \in 0..12, s \in 0..12, k \in 0..MAX_ITERATIONS, l \in 0..MAX_ITERATIONS :
        /\ r = Rank[Place(stack, pc, p)] /\ s = Rank[Place(stack', pc', p)]
        /\ k = stack[p].iterations /\ l = stack'[p].iterations
  BY <1>2, <1>3, <1>4
<1>6. /\ Effort(stack, pc, p) = 13 * (MAX_ITERATIONS - k) + r
      /\ Effort(stack', pc', p) = 13 * (MAX_ITERATIONS - l) + s
  BY <1>5 DEF Effort
<1>7. (l = k /\ s < r) \/ (l = k + 1 /\ r = 3 /\ s = 12)
  BY <1>5 DEF GoesOn, Rank
<1>8. 13 * (MAX_ITERATIONS - l) + s < 13 * (MAX_ITERATIONS - k) + r
  BY <1>2, <1>7
<1> QED BY <1>6, <1>8

LEMMA GoesOnLess ==
    ASSUME CallInv, CallInv', NEW p \in 1..Len(stack), GoesOn(p)
    PROVE  Less(Left', Left)
<1> DEFINE m == Len(stack')
           n == Len(stack)
<1>1. /\ n \in Nat /\ m \in Nat /\ n <= MaxDepth /\ MaxDepth \in Nat /\ p <= m /\ p <= n
      /\ p \in 1..MaxDepth
  BY Tops, LimitsAssumption, SMTT(30) DEF CallInv, TypeOK, GoesOn
<1>2. Left'[p] = Effort(stack', pc', p) /\ Left[p] = Effort(stack, pc, p)
  BY <1>1 DEF Left
<1>3. ASSUME NEW j \in 1..(p - 1) PROVE Left'[j] = Left[j]
  <2>1. j \in 1..MaxDepth /\ j <= n /\ j <= m /\ j # n /\ j # m /\ j + 1 \in 1..p
    BY <1>1
  <2>2. stack'[j] = stack[j]
    BY DEF GoesOn
  <2>3. stack'[j + 1].why = stack[j + 1].why
    <3>1. j + 1 \in 1..(p - 1) \/ j + 1 = p
      BY <1>1
    <3> QED BY <3>1 DEF GoesOn
  <2>4. Effort(stack', pc', j) = Effort(stack, pc, j)
    BY <2>1, <2>2, <2>3 DEF Effort, Place
  <2> QED BY <2>1, <2>4 DEF Left
<1> QED BY <1>1, <1>2, <1>3, EffortFalls DEF Less

(* A call for a name that is referred to ranks below its caller.           *)
LEMMA NestingKept ==
    ASSUME CallInv, Referred(stack), NEW rank, FallsAlong(rank), NestsWithin(rank),
           NEW p, GoesOn(p), CallInv'
    PROVE  \A i \in 1..Len(stack') : rank[stack'[i].domain] + i <= rank[Question] + 1
<1>1. /\ p \in 1..Len(stack) /\ Len(stack') \in {p, p + 1} /\ Len(stack) \in Nat /\ p \in Nat
      /\ \A j \in 1..(p - 1) : stack'[j] = stack[j]
      /\ stack'[p].domain = stack[p].domain
  BY Tops DEF CallInv, GoesOn
<1>2. rank[Question] \in Nat
  BY NamesAssumption DEF FallsAlong
<1>3. ASSUME NEW i \in 1..p PROVE rank[stack'[i].domain] + i <= rank[Question] + 1
  <2>1. i \in 1..Len(stack) /\ (i \in 1..(p - 1) \/ i = p)
    BY <1>1
  <2>2. stack'[i].domain = stack[i].domain
    BY <1>1, <2>1
  <2> QED BY <2>1, <2>2 DEF NestsWithin
<1>4. ASSUME Len(stack') = p + 1
      PROVE  rank[stack'[p + 1].domain] + (p + 1) <= rank[Question] + 1
  <2>1. stack[p].domain \in Names /\ stack'[p + 1].domain \in Refers[stack[p].domain]
    BY <1>1, <1>4, Tops DEF CallInv, GoesOn, FrameType
  <2>2. PICK name \in Names, n \in Names :
          name = stack[p].domain /\ n = stack'[p + 1].domain /\ rank[n] < rank[name]
    BY <2>1 DEF FallsAlong
  <2>3. PICK a \in Nat, b \in Nat : a = rank[n] /\ b = rank[name]
    BY DEF FallsAlong
  <2>4. b + p <= rank[Question] + 1
    BY <1>1, <2>2, <2>3 DEF NestsWithin
  <2>5. a + (p + 1) <= rank[Question] + 1
    <3>1. a < b
      BY <2>2, <2>3
    <3> QED BY <1>1, <1>2, <2>4, <3>1
  <2>6. rank[stack'[p + 1].domain] = a
    BY <2>2, <2>3
  <2> QED BY <2>5, <2>6
<1>5. ASSUME NEW i \in 1..Len(stack') PROVE i \in 1..p \/ (i = p + 1 /\ Len(stack') = p + 1)
  BY <1>1
<1> QED BY <1>3, <1>4, <1>5

LEMMA InitIInv == Init => IInv
<1> SUFFICES ASSUME Init PROVE Referred(stack)
  BY CallInit DEF IInv
<1>1. PICK type \in Types : stack = <<Frame(Question, type, "resolve")>>
  BY DEF Init
<1> DEFINE frame == Frame(Question, type, "resolve")
<1>2. frame.domain = Question /\ frame.ns = <<>>
  BY DEF Frame
<1> HIDE DEF frame
<1>3. Len(stack) = 1 /\ stack[1] = frame
  BY <1>1 DEF frame
<1>4. RefersOn(frame)
  BY <1>2 DEF RefersOn
<1> QED BY <1>2, <1>3, <1>4 DEF Referred

LEMMA InvStep == IInv /\ [Next]_vars => IInv'
<1> SUFFICES ASSUME IInv, [Next]_vars PROVE IInv'
  OBVIOUS
<1>1. CallInv'
  BY CallStep DEF IInv
<1>2. CASE Next
  BY <1>1, <1>2, StepGoesOn, ReferredKept DEF IInv
<1>3. CASE UNCHANGED vars
  BY <1>1, <1>3 DEF IInv, vars
<1> QED BY <1>2, <1>3

-----------------------------------------------------------------------------
(* The theorems. *)

(* The inductive invariant holds in every state, whatever names refer to   *)
(* and however deep the calls are nested (dns_resolver.cpp:600-785).       *)
THEOREM Inductive == Spec => []IInv
  BY InitIInv, InvStep, PTL DEF Spec

(* No call has more failures in a row than MAX_SERVER_TRIES, and its two   *)
(* counters are equal (dns_resolver.cpp:605).                              *)
THEOREM TriesCorrect == Spec => []TriesBounded
<1>1. IInv => TriesBounded
  <2> SUFFICES ASSUME IInv PROVE TriesBounded
    OBVIOUS
  <2>1. DOMAIN stack = 1..Len(stack) /\ WellFormed(stack)
    BY DEF IInv, CallInv, TypeOK
  <2> QED BY <2>1 DEF WellFormed, TriesBounded
<1> QED BY <1>1, Inductive, PTL

(* What comes out has the type that was asked for and was found through    *)
(* aliases alone (dns_resolver.cpp:730, 761).                              *)
THEOREM ResultsCorrect == Spec => []ResultsOfQuestion
<1>1. IInv => ResultsOfQuestion
  <2> SUFFICES ASSUME IInv, pc = "done" PROVE ResultsOfQuestion
    BY DEF ResultsOfQuestion
  <2>1. /\ ResultInv /\ Len(stack) = 1 /\ top = stack[1] /\ stack[1].why = "resolve"
        /\ ret.results \in Results
    <3>1. TypeOK /\ WellFormed(stack) /\ ResultInv /\ Len(stack) = 1
      BY DEF IInv, CallInv
    <3> QED BY <3>1 DEF TypeOK, WellFormed, top
  <2>2. DOMAIN ret.results = 1..Len(ret.results)
    BY <2>1 DEF Results
  <2>3. ASSUME NEW i \in 1..Len(ret.results)
        PROVE  /\ ret.results[i].type = stack[1].type
               /\ \A j \in DOMAIN ret.results[i].path :
                     ret.results[i].path[j] \in {"resolve", "cname"}
    <3>1. ret.results[i].path \in Seq(Reasons)
      BY <2>1, PathTypes
    <3>2. DOMAIN ret.results[i].path = 1..Len(ret.results[i].path)
      BY <3>1
    <3>3. ASSUME NEW j \in 1..Len(ret.results[i].path)
          PROVE  ret.results[i].path[j] \in {"resolve", "cname"}
      <4>1. ret.results[i].path[j] = IF j <= 1 THEN stack[j].why ELSE "cname"
        BY <2>1 DEF ResultInv
      <4>2. j <= 1 => j = 1
        BY <3>1
      <4> QED BY <2>1, <4>1, <4>2
    <3> QED BY <2>1, <3>2, <3>3 DEF ResultInv
  <2> QED BY <2>1, <2>2, <2>3 DEF ResultsOfQuestion, ResultInv
<1> QED BY <1>1, Inductive, PTL

(* Whatever names refer to, each step leaves less to do: every call has    *)
(* its limit of rounds, so that a resolution that does not end nests its   *)
(* calls deeper than any MaxDepth (dns_resolver.cpp:609-792).              *)
THEOREM ResolutionAdvances == Spec => []LeftIsNatural /\ LeavesLess
<1>1. IInv => LeftIsNatural
  BY LeftType DEF IInv
<1>2. IInv /\ IInv' /\ [Next]_vars => [Less(Left', Left)]_vars
  BY StepGoesOn, GoesOnLess DEF IInv
<1> QED BY <1>1, <1>2, Inductive, PTL DEF Spec, LeavesLess

(* It does not nest deeper than the chains of names are long, if none of   *)
(* them comes back to itself (dns_resolver.cpp:729-777).                   *)
THEOREM NestingBounded ==
    ASSUME NEW rank, FallsAlong(rank)
    PROVE  Spec => [](Len(stack) <= rank[Question] + 1)
<1>1. Init => NestsWithin(rank)
  <2> SUFFICES ASSUME Init PROVE NestsWithin(rank)
    OBVIOUS
  <2>1. Len(stack) = 1 /\ stack[1].domain = Question
    BY DEF Init, Frame
  <2>2. rank[Question] \in Nat
    BY NamesAssumption DEF FallsAlong
  <2> QED BY <2>1, <2>2 DEF NestsWithin
<1>2. IInv /\ IInv' /\ NestsWithin(rank) /\ [Next]_vars => NestsWithin(rank)'
  <2> SUFFICES ASSUME IInv, IInv', NestsWithin(rank), [Next]_vars PROVE NestsWithin(rank)'
    OBVIOUS
  <2>1. CASE Next
    <3>1. PICK p \in 1..Len(stack) : GoesOn(p)
      BY <2>1, StepGoesOn DEF IInv
    <3>2. \A i \in 1..Len(stack') : rank[stack'[i].domain] + i <= rank[Question] + 1
      BY <3>1, NestingKept DEF IInv
    <3> QED BY <3>2 DEF NestsWithin
  <2>2. CASE UNCHANGED vars
    BY <2>2 DEF NestsWithin, vars
  <2> QED BY <2>1, <2>2
<1>3. IInv /\ NestsWithin(rank) => Len(stack) <= rank[Question] + 1
  <2> SUFFICES ASSUME IInv, NestsWithin(rank) PROVE Len(stack) <= rank[Question] + 1
    OBVIOUS
  <2>1. /\ Len(stack) \in 1..Len(stack) /\ Len(stack) \in Nat
        /\ stack[Len(stack)].domain \in Names
    BY Tops DEF IInv, CallInv, FrameType
  <2>2. PICK a \in Nat, b \in Nat : a = rank[stack[Len(stack)].domain] /\ b = rank[Question]
    BY <2>1, NamesAssumption DEF FallsAlong
  <2>3. a + Len(stack) <= b + 1
    BY <2>1, <2>2 DEF NestsWithin
  <2> QED BY <2>1, <2>2, <2>3
<1> QED BY <1>1, <1>2, <1>3, Inductive, PTL DEF Spec

=============================================================================
