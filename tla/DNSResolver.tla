---------------------------- MODULE DNSResolver ----------------------------
(***************************************************************************)
(* dns-resolver/dns_resolver.cpp: iterativeResolve() asks one server after *)
(* another, over UDP and, when the answer is truncated, over TCP.  It      *)
(* calls itself for the target of a CNAME and for the names of the next    *)
(* servers when no address came with them: `stack` holds the frames of     *)
(* these calls, with their counters, each call with counters of its own.   *)
(*                                                                         *)
(* Servers are only counted; a reply is what iterativeResolve tells apart  *)
(* in it: the types of its answers, the names and the addresses of the     *)
(* servers it refers to.                                                   *)
(***************************************************************************)
EXTENDS Naturals, Sequences

CONSTANTS
    Names,            \* domain names
    LongNames,        \* those with a label of more than 63 characters
    Question,         \* the domain the program is asked for
    Types,            \* record types it is asked for
    Refers,           \* Names -> the names a reply may refer to
    MAX_ITERATIONS,
    MAX_SERVER_TRIES,
    MAX_TOTAL_FAILURES,
    Roots,            \* number of root servers
    MaxRecords,       \* bound: addresses in one section of a reply
    MaxDepth,         \* bound: nested calls
    MayFail           \* BOOLEAN: queries may fail or be truncated

ASSUME NamesAssumption == LongNames \subseteq Names /\ Question \in Names
ASSUME RefersAssumption == Refers \in [Names -> SUBSET Names]
ASSUME TypesAssumption == Types \subseteq {"A", "AAAA", "NS", "CNAME"}
ASSUME LimitsAssumption ==
    /\ {MAX_ITERATIONS, MAX_SERVER_TRIES, MAX_TOTAL_FAILURES} \subseteq Nat
    /\ {Roots, MaxRecords, MaxDepth} \subseteq Nat \ {0}

VARIABLES
    pc,       \* where the program is in the innermost call
    stack,    \* the calls of iterativeResolve, the innermost last
    ret,      \* what the last call that ended has returned
    queries   \* history: how many times round the loop in all calls

vars == <<pc, stack, ret, queries>>

(* A call.  `why` is for what: the question itself, the target of a CNAME, *)
(* the first or the second name server.  ns and glue are what the current  *)
(* reply refers to: names, and how many addresses came with them.          *)
Frame(domain, type, why) ==
    [domain |-> domain, type |-> type, why |-> why,
     iterations |-> 0, server_tries |-> 0, total_failures |-> 0,
     current_servers |-> Roots, ns |-> <<>>, glue |-> 0]

top == stack[Len(stack)]
SetTop(frame) == stack' = [stack EXCEPT ![Len(stack)] = frame]

(* Addresses that were found, with what they were found for. *)
Path == [i \in DOMAIN stack |-> stack[i].why]
Found(n) == [i \in 1..n |-> [type |-> top.type, path |-> Path]]

Failure == [ok |-> FALSE, results |-> <<>>]
Success(results) == [ok |-> TRUE, results |-> results]

Return(value) ==
    /\ pc' = "return"
    /\ ret' = value
    /\ UNCHANGED stack

Again(frame) ==
    /\ pc' = "loop"
    /\ SetTop(frame)
    /\ UNCHANGED ret

Call(caller, callee) ==
    /\ Len(stack) < MaxDepth
    /\ pc' = "loop"
    /\ stack' = Append([stack EXCEPT ![Len(stack)] = caller], callee)
    /\ UNCHANGED ret

-----------------------------------------------------------------------------
MayIterate(frame) == frame.iterations < MAX_ITERATIONS

NextIteration(frame) == [frame EXCEPT !.iterations = @ + 1]

(* mutant: the limit of tries for one level of servers is forgotten *)
EndlessTries(frame) == frame.current_servers > 0 /\ frame.total_failures < MAX_TOTAL_FAILURES

(* mutant: a list of servers is taken to have one *)
AnyServers(frame) ==
    frame.server_tries < MAX_SERVER_TRIES /\ frame.total_failures < MAX_TOTAL_FAILURES

MayAsk(frame) ==
    /\ frame.current_servers > 0
    /\ frame.server_tries < MAX_SERVER_TRIES
    /\ frame.total_failures < MAX_TOTAL_FAILURES

(* The head of the loop: the limit is reached. *)
MaximumReached ==
    /\ pc = "loop"
    /\ ~MayIterate(top)
    /\ Return(Failure)
    /\ UNCHANGED queries

(* Another round of the loop.  The history is exact up to the limit.       *)
Round ==
    /\ pc = "loop"
    /\ MayIterate(top)
    /\ queries' = IF queries <= MAX_ITERATIONS THEN queries + 1 ELSE queries

GiveUp ==
    /\ Round
    /\ ~MayAsk(top)
    /\ Return(Failure)

(* createDNSQuery throws on a label that is too long; nobody catches.      *)
Throw ==
    /\ Round
    /\ MayAsk(top)
    /\ top.domain \in LongNames
    /\ pc' = "aborted"
    /\ UNCHANGED <<stack, ret>>

Ask ==
    /\ Round
    /\ MayAsk(top)
    /\ top.domain \notin LongNames
    /\ pc' = "udp"
    /\ SetTop(NextIteration(top))
    /\ UNCHANGED ret

(* The query has failed: go to the next server, if there is one. *)
Fail ==
    \/ /\ top.current_servers <= 1
       /\ Return(Failure)
    \/ /\ top.current_servers > 1
       /\ Again([top EXCEPT !.server_tries = @ + 1, !.total_failures = @ + 1,
                             !.current_servers = @ - 1])

(* queryUDP: no answer in time, an answer with another id or too short; or *)
(* a truncated one; or a whole one.                                        *)
QueryUDP ==
    /\ pc = "udp"
    /\ \/ MayFail /\ Fail
       \/ /\ MayFail /\ pc' = "connect"
          /\ UNCHANGED <<stack, ret>>
       \/ /\ pc' = "parse"
          /\ UNCHANGED <<stack, ret>>
    /\ UNCHANGED queries

(* mutant: a length is read again and again, as if more were to come *)
ManyLengths == [connect |-> "length", length |-> "body", body |-> "length"]

(* queryTCP: connect and send, receive the length, receive as many bytes.  *)
(* Each may fail; each recv() is called once and fails when it returns     *)
(* less than it was asked for.                                             *)
NextTCP == [connect |-> "length", length |-> "body", body |-> "parse"]

QueryTCP ==
    /\ pc \in DOMAIN NextTCP
    /\ \/ Fail
       \/ /\ pc' = NextTCP[pc]
          /\ UNCHANGED <<stack, ret>>
    /\ UNCHANGED queries

-----------------------------------------------------------------------------
(* What a reply holds: the types of its answers, the name a CNAME answer   *)
(* points to, names of servers, and how many addresses there are.          *)
AnswerTypes(type) == {{}, {type}, {"CNAME"}, {"CNAME", type}}
ServerNames(names) == {<<>>} \cup [{1} -> names] \cup [1..2 -> names]

(* Go down to the servers the reply refers to; ask for the address of the  *)
(* first one if no address came with it.                                   *)
Descend(frame) ==
    LET next == [frame EXCEPT !.current_servers = frame.glue, !.glue = 0]
        unresolved == frame.glue = 0 /\ frame.ns # <<>> /\ frame.iterations < MAX_ITERATIONS - 3
    IN  \/ /\ frame.glue > 0
           /\ Again([next EXCEPT !.server_tries = 0, !.ns = <<>>])
        \/ /\ unresolved
           /\ Call(next, Frame(next.ns[1], "A", "ns1"))
        \/ /\ frame.glue = 0 /\ ~unresolved
           /\ Return(Failure)

(* A query for CNAME records takes none of them for an answer: no branch   *)
(* of the loop over the answers is for them.                               *)
IsFinal(type, answers) == type \in answers \ {"CNAME"}
IsAlias(type, answers) == type # "CNAME" /\ "CNAME" \in answers

(* parseDNSResponse fails on an error code: the server is dropped. *)
ParseError ==
    /\ pc = "parse"
    /\ Again([top EXCEPT !.server_tries = 0, !.total_failures = 0, !.current_servers = @ - 1])
    /\ UNCHANGED queries

(* parseDNSResponse and what follows it.                                   *)
Parse ==
    /\ pc = "parse"
    /\ \E answers \in AnswerTypes(top.type) :
          /\ \/ /\ IsFinal(top.type, answers)
                /\ \E n \in 1..MaxRecords : Return(Success(Found(n)))
             \/ /\ ~IsFinal(top.type, answers)
                /\ \E ns \in ServerNames(Refers[top.domain]), glue \in 0..MaxRecords :
                      LET frame == [top EXCEPT !.server_tries = 0, !.total_failures = 0,
                                               !.ns = ns, !.glue = glue]
                      IN  IF IsAlias(top.type, answers) /\ top.iterations < MAX_ITERATIONS - 5
                          THEN \E target \in Refers[top.domain] :
                                  Call(frame, Frame(target, top.type, "cname"))
                          ELSE Descend(frame)
    /\ UNCHANGED queries

(* mutant: addresses of a name server are taken for the answer *)
AnyCall(why) == TRUE

IsAnswer(why) == why = "cname"

(* A call ends.  `caller` is the frame it goes back to. *)
caller == stack[Len(stack) - 1]
Back(frame) == stack' = Append(SubSeq(stack, 1, Len(stack) - 2), frame)

Returning(ok) ==
    /\ pc = "return"
    /\ Len(stack) > 1
    /\ ret.ok = ok
    /\ UNCHANGED <<ret, queries>>

(* The results of the target of a CNAME are the results. *)
AnswerReturns ==
    /\ Returning(TRUE)
    /\ IsAnswer(top.why)
    /\ pc' = "return"
    /\ Back(caller)

(* Those of the name of a server are the servers to ask next. *)
ServersReturn ==
    /\ Returning(TRUE)
    /\ ~IsAnswer(top.why)
    /\ pc' = "loop"
    /\ Back([caller EXCEPT !.current_servers = Len(ret.results), !.server_tries = 0, !.ns = <<>>])

SecondServer ==
    /\ Returning(FALSE)
    /\ top.why = "ns1"
    /\ Len(caller.ns) > 1
    /\ pc' = "loop"
    /\ stack' = [stack EXCEPT ![Len(stack)] = Frame(caller.ns[2], "A", "ns2")]

ServersFail ==
    /\ Returning(FALSE)
    /\ top.why = "ns2" \/ (top.why = "ns1" /\ Len(caller.ns) = 1)
    /\ pc' = "return"
    /\ Back(caller)

AliasFails ==
    /\ Returning(FALSE)
    /\ top.why = "cname"
    /\ pc' = "descend"
    /\ Back(caller)

(* The target of the CNAME was not found: on with the reply's servers. *)
AfterAlias ==
    /\ pc = "descend"
    /\ Descend(top)
    /\ UNCHANGED queries

(* resolve() returns to main(). *)
ResolveReturns ==
    /\ pc = "return"
    /\ Len(stack) = 1
    /\ pc' = "done"
    /\ UNCHANGED <<stack, ret, queries>>

Init ==
    /\ pc = "loop"
    /\ \E type \in Types : stack = <<Frame(Question, type, "resolve")>>
    /\ ret = Failure
    /\ queries = 0

Next ==
    \/ MaximumReached \/ GiveUp \/ Throw \/ Ask
    \/ QueryUDP \/ QueryTCP
    \/ ParseError \/ Parse
    \/ AnswerReturns \/ ServersReturn \/ SecondServer \/ ServersFail \/ AliasFails \/ AfterAlias
    \/ ResolveReturns

Spec == Init /\ [][Next]_vars

(* Every system call of the program returns: recv() after select() with a  *)
(* limit of 3 or 5 seconds, connect() by the limit of the kernel.          *)
FairSpec == Spec /\ WF_vars(Next)

-----------------------------------------------------------------------------
Ended == pc \in {"done", "aborted"}

(* Types. *)
RecordTypes == {"A", "AAAA", "NS", "CNAME"}
Reasons     == {"resolve", "cname", "ns1", "ns2"}
Asking      == {"udp", "connect", "length", "body", "parse"}
FrameType   == [domain : Names, type : RecordTypes, why : Reasons,
                iterations : 0..MAX_ITERATIONS, server_tries : Nat, total_failures : Nat,
                current_servers : Nat, ns : Seq(Names), glue : Nat]
Results     == Seq([type : RecordTypes, path : Seq(Reasons)])

(* The counters and lists of every nested call have their types.           *)
TypeOK ==
    /\ pc \in Asking \cup {"loop", "descend", "return", "done", "aborted"}
    /\ stack \in Seq(FrameType) /\ Len(stack) \in 1..MaxDepth
    /\ ret \in [ok : BOOLEAN, results : Results]
    /\ queries \in Nat

(* dns_resolver.cpp:730,761: the addresses of name servers, which are      *)
(* found on the way, never come out as the answer, what comes out has the  *)
(* type that was asked for, and a success has results.                     *)
ResultsOfQuestion ==
    pc = "done" =>
        /\ \A i \in DOMAIN ret.results :
              /\ ret.results[i].type = stack[1].type
              /\ \A j \in DOMAIN ret.results[i].path :
                    ret.results[i].path[j] \in {"resolve", "cname"}
        /\ ret.ok <=> ret.results # <<>>

(* dns_resolver.cpp:605: no more than MAX_SERVER_TRIES queries in a row    *)
(* fail in one call.  total_failures is reset with server_tries, so that   *)
(* it never reaches its own, larger limit.                                 *)
TriesBounded ==
    \A i \in DOMAIN stack :
        /\ stack[i].server_tries <= MAX_SERVER_TRIES
        /\ stack[i].server_tries = stack[i].total_failures

(* README.md:75: the limit of iterations ends every resolution in which no *)
(* chain of names comes back to itself.                                    *)
Terminates == <>Ended

-----------------------------------------------------------------------------
(* What the documentation says and the code does not keep. *)

(* README.md:75: "Максимум 20 итераций для предотвращения бесконечных      *)
(* циклов".                                                                *)
IterationsLimited == queries <= MAX_ITERATIONS

-----------------------------------------------------------------------------
(* The inductive invariant behind TriesBounded and ResultsOfQuestion.      *)

NoTries(frame) == frame.server_tries = 0 /\ frame.total_failures = 0

(* The target of an alias is asked for as the alias was, and never for     *)
(* CNAME; a call that waits for another one starts to count anew.          *)
WellFormed(calls) ==
    \A i \in 1..Len(calls) :
        /\ calls[i].why = "resolve" <=> i = 1
        /\ calls[i].why = "cname" =>
              calls[i].type = calls[i - 1].type /\ calls[i].type # "CNAME"
        /\ calls[i].server_tries <= MAX_SERVER_TRIES
        /\ calls[i].server_tries = calls[i].total_failures
        /\ i < Len(calls) => NoTries(calls[i])

(* The first server is never taken from an empty list (line 647).          *)
PlaceInv ==
    /\ pc \in Asking => top.current_servers > 0 /\ top.server_tries < MAX_SERVER_TRIES
    /\ pc = "descend" => NoTries(top)

(* What is returned was found on the way from here through aliases alone. *)
ResultInv ==
    /\ ret.ok <=> ret.results # <<>>
    /\ \A i \in 1..Len(ret.results) :
          /\ ret.results[i].type = top.type
          /\ \A j \in 1..Len(ret.results[i].path) :
                ret.results[i].path[j] = IF j <= Len(stack) THEN stack[j].why ELSE "cname"

(* Every nested call is well formed where the code asks a server, follows  *)
(* an alias or returns (dns_resolver.cpp:605-644, 729-777): in particular  *)
(* no list of servers that has become empty is asked.                      *)
CallInv ==
    /\ TypeOK /\ WellFormed(stack) /\ PlaceInv
    /\ pc \in {"return", "done"} => ResultInv
    /\ pc = "done" => Len(stack) = 1

(* The first call is for the question, and every other one for a name that *)
(* a reply to its caller refers to.                                        *)
RefersOn(frame) == \A k \in 1..Len(frame.ns) : frame.ns[k] \in Refers[frame.domain]

Referred(calls) ==
    /\ calls[1].domain = Question
    /\ \A i \in 1..Len(calls) :
          /\ RefersOn(calls[i])
          /\ i > 1 => calls[i].domain \in Refers[calls[i - 1].domain]

(* What the calls are, and what they are for.                              *)
IInv == CallInv /\ Referred(stack)

-----------------------------------------------------------------------------
(* Why a resolution ends, as far as it does. *)

(* The places of a call in a round of its loop, in the order in which it   *)
(* comes to them; one that waits for another is where it has called it.    *)
Rank == [udp |-> 12, connect |-> 11, length |-> 10, body |-> 9, parse |-> 8, cname |-> 7,
         descend |-> 6, ns1 |-> 5, ns2 |-> 4, loop |-> 3, return |-> 2, done |-> 1, aborted |-> 0]

Place(calls, at, i) == IF i = Len(calls) THEN at ELSE calls[i + 1].why

(* What a call has left to do, in rounds and places; that of all calls.    *)
Effort(calls, at, i) ==
    13 * (MAX_ITERATIONS - calls[i].iterations) + Rank[Place(calls, at, i)]

Left == [i \in 1..MaxDepth |-> IF i <= Len(stack) THEN Effort(stack, pc, i) ELSE 0]

(* The lexicographic order, which is well-founded for functions of natural *)
(* numbers on 1..MaxDepth.                                                 *)
Less(a, b) == \E k \in 1..MaxDepth : a[k] < b[k] /\ \A j \in 1..(k - 1) : a[j] = b[j]

LeftIsNatural == Left \in [1..MaxDepth -> Nat]

(* Every step leaves less to do, whatever names refer to: what goes on for *)
(* ever nests its calls without limit (dns_resolver.cpp:609-792).          *)
LeavesLess == [][Less(Left', Left)]_vars

(* A rank of names that falls from each name to those it refers to, as     *)
(* there is one if no chain of names comes back to itself; then calls nest *)
(* no deeper than the chains are long (dns_resolver.cpp:729-777).          *)
FallsAlong(rank) ==
    /\ rank \in [Names -> Nat]
    /\ \A name \in Names : Refers[name] \subseteq {n \in Names : rank[n] < rank[name]}

NestsWithin(rank) ==
    \A i \in 1..Len(stack) : rank[stack[i].domain] + i <= rank[Question] + 1

=============================================================================
