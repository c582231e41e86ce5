# TLA+ specifications of computer_networks

The repository holds seven small network programs that share no code and talk
only to their own counterparts. All seven are specified here, each by a
group of modules of its own; no module composes two of the seven, because
they do not meet, but the two sides of a program (sender and receiver, client
and server) are composed wherever the repository holds both. `PROJECT.json` lists for every definition the source
lines it stands for, for every run its properties, and for every property a
mutation of the code's model that breaks it.

1. [Inventory](#1-inventory)
2. [Modules and how they correspond to the code](#2-modules-and-how-they-correspond-to-the-code)
3. [Runs, bounds and fairness](#3-runs-bounds-and-fairness)
4. [Proofs](#4-proofs)
5. [Where the code and its documentation part](#5-where-the-code-and-its-documentation-part)
6. [What is not modelled](#6-what-is-not-modelled)
7. [Plan](#7-plan)

Run a check with `tlc -config MCRDTP_safety.cfg MCRDTP`, a proof with
`tlapm RDTPProofs.tla`.

## 1. Inventory

| program | processes and their state | operations | interaction |
|---|---|---|---|
| `RDTP/` file transfer over UDP (Go-Back-N) | sender: the window (`deque<InFlight>`), `next_seq`, `eof`; receiver: `expected`, `last_in_order_ack`, `peer`, the output file | fill the window, handle an ACK, time out, FIN; accept a chunk, answer again, accept FIN, flush | datagrams DATA, ACK, FIN; UDP loses, repeats and reorders them |
| `socket-programming/` sum server | parent: `g_shutdown_requested`, the listening socket; a forked child per connection | accept and fork, read and answer a request, signal the parent, shut down, reap | TCP connections; SIGUSR1 from child to parent, SIGCHLD, `waitpid` |
| `web-proxy/` caching HTTP proxy | the `cache/` directory (a body and a `.meta` file per object), `stats_`, a detached thread per client | look up, read, fetch, save, serve, count, stop | threads share the directory under `cacheMutex_` and the statistics; TCP to origin servers |
| `dns-resolver/` iterative resolver | per nested call of `iterativeResolve`: servers, `iterations`, `server_tries`, `total_failures` | ask over UDP, ask over TCP when truncated, follow CNAME, referral, name server without address | UDP and TCP queries to servers that fail or answer anything |
| `udtp-pinger/` UDP ping | client: `seq`, `received`, `lost`, `rtts_ms`; server: `clients` with `last_seen` and `dead_reported` | ping, receive or time out, sleep; receive, drop, delay, echo, look for dead clients | datagrams; the clock |
| `SMTP/` mail client | the socket and the place in the dialogue | connect, EHLO, MAIL, RCPT, DATA, body, QUIT | one TCP connection |
| `web-server/` static HTTP server | `isRunning`, the listening socket, a thread per client | accept, read, parse, answer | threads share only the log |

What is hard in each, and what makes it correct:

* **RDTP.** The network may do anything to a datagram, a sender may fail and be
  started again while datagrams of its last run are in flight, and both sides
  decide alone when to stop. Correct means: the output is a prefix of the file;
  a chunk leaves the window only when it is written; success is reported only
  for the whole file; a receiver that datagrams can reach ends.
* **Sum server.** Signals arrive between any two steps of `main()`, merge, and
  interrupt blocking calls; children and shutdown overlap. Correct means: a
  number out of range ends the server, nothing else does, hardly anything is
  accepted afterwards, and no zombie stays.
* **Web proxy.** Two threads use one cache file, `cacheMutex_` covers single
  functions and not what happens between them, and `exit()` in a signal handler
  stops all threads anywhere; files are written without a look at the outcome, and
  `.meta` files lie among the bodies. Correct means: what is served for a key was fetched
  for that key with status 200; a file never mixes responses; hits are
  counted right; no thread is stuck.
* **DNS resolver.** The retry counters live in every nested call and are reset
  in several places; a reply may refer to names that need resolution
  themselves. Correct means: a resolution ends, with addresses that belong to
  the question.
* **Pinger.** Echoes come late, in any order, or not at all; the server sleeps
  while it delays one. Correct means: a sample belongs to its ping; a client
  ends in time; a client is reported when it is silent, and then soon.
* **SMTP.** Replies that refuse, break off or never come. Correct means: the
  commands go out in the protocol's order and success means that the server
  has accepted the message once.
* **Web server.** Mostly a function from request to response; every request that fits the
  buffer gets one answer, and no client gets what another one asked for.

The hazards, line by line, are in `PROJECT.json`.

## 2. Modules and how they correspond to the code

### RDTP: `RDTPNetwork`, `RDTPSender`, `RDTPReceiver`, `RDTP`, `ReliableTransfer`

`RDTPNetwork` has the datagrams and the set `net` of those in flight. Receiving
may leave a copy behind (repetition), any datagram may be received next
(reordering), `Lose` drops one; a datagram that `parse_packet` rejects for its
CRC has the effect of a lost one, since both programs then go on. An ACK
carries the address it is sent to, DATA and FIN the address they come from.

`RDTPSender` keeps the window as its two ends: `base..nextSeq-1` are the chunks
in `window`. These two count chunks; `Wire(k)` is the `uint32_t` the program
compares, modulo `SeqMod`. `fill_window` belongs to the actions that call it
(`SenderStart`, `RecvAck`), with the end of the file seen only by the read after
the last chunk. `Retransmit` (time-out) sends the whole window again and may
happen at any time, so that no assumption about timer lengths is made. `SenderFail`
is every exit with status 1 and the death of the process; `SenderStart` from
there is a new run, on any of the source ports `Addrs`.

`RDTPReceiver` follows `main()` of `rdt_receiver.cpp`: lock on to the first peer,
append the expected chunk, repeat the last acknowledgement for anything else,
answer a FIN in order once and leave the loop. It never answers before the first
chunk (`last_in_order_ack == -1`).

`RDTP` composes them. `ReliableTransfer` is the abstract specification, with
`delivered`, `closed` and `reported` in place of windows and packets;
`ImplementsReliableTransfer` maps the one to the other (`delivered <- out`).

### Sum server: `SumServer`

`phase` is the place of the parent in `main()`: before the check of
`g_shutdown_requested`, before `accept()`, asleep in it, after EINTR, closing,
in `sleep(1)`, at the exit. Every client has a child process with a place of its own.
SIGUSR1 and SIGCHLD are pending bits (signals merge); `HandleUsr1` and
`HandleChld` run between any two steps of the parent and wake `accept()`
(SIGUSR1 is installed without SA_RESTART, SIGCHLD with it) or `sleep()`.
`request` abstracts a message to what the code tells apart: in range, out of
range, not a number, incomplete.

### Sum client and the whole exchange: `SumExchange`

`SumExchange` extends `SumServer` and puts `main()` of `client.cpp` in the place
of clients that do whatever they like. Every action of it is an action of the
server with what it does to a client's connection (`ParentStep`, `ChildStep`,
`ChildFails`), or a step of a client that leaves the server alone (`Send`,
`Receive`, `Kill`). `wire[c]` is what the client finds when it reads: an answer,
the end of the stream, a reset. `at[c]` says how a client has ended: `sum` after
an answer, `zero` when `recv_until_two_newlines` returned an empty text and a sum
with 0 was printed, `error`, or killed before (`mute`) or after it sent. An
input is a number and what the server reads as the number, which is another
line when the name has a line break in it.

### Web proxy: `ProxyCache`

`pc[c]` is the place of client `c`'s thread in `handleClient`, with one action
per step at which another thread may come in between: `isCached`,
`getCacheEntry`, each block read, the fetch, and the parts of `saveToCache`
(open, write, open `.meta`, write it), which hold the mutex from `SaveOpen` to
the end. A file is a sequence of pieces, which are blocks of a body or, as piece 0,
the lines of a `.meta` file; a piece says which thread fetched or wrote it, so
that mixtures, truncations and the key and status of what is served can be
told. All files have names in one directory (`Names`): `FileOf` gives a key its file
and `MetaOf` a file its `.meta` file, which may be the cache file of another key, as
`/a.meta` is of `/a`; its first line is then no number, and `stoi()` throws
(`GetCacheEntry`). Opens fail, and so may writes, after which a stream writes
nothing more and nobody asks (`bad`). `resolved` is the one result object of
`gethostbyname()`, which the threads share; `peer[c]` is the host that `c` has connected to because
of it. `Stop` is the signal handler's `exit()`, `BrokenPipe` the SIGPIPE of
`send()` to a client that has gone: both end the process where it stands and
leave the directory behind for the next one.

### DNS resolver: `DNSResolver`

`stack` holds a frame per nested call of `iterativeResolve`, with its own
counters as in the code; servers are counted and not named. A reply is what the
code tells apart in it: error code, types of answers, names of servers, number
of addresses. `Refers` says which names a reply about a name may mention, which
is how an instance chooses between name spaces with and without cycles. A name
in `LongNames` has a label that `createDNSQuery` throws on. `MayFail` allows
lost and truncated answers.

### DNS packets: `DNSReply`, `DNSPacket`

`createDNSQuery`, `parseDNSResponse`, `parseResourceRecord` and `parseDNSName` on
packets of cells: a byte of a name or of data is a cell, and a field of a header
or record is one cell, whatever its width. A step is one item of a loop of
the code: a label, a pointer, a record. `name` holds the locals of
`parseDNSName`, with the offset to go on from after the first pointer
(`resume`) and the count of pointers followed. A reply comes with what its
server meant by it, is parsed as it is, cut off at any place, or with any one
cell changed to any value; `DNSReply` says what it is for a packet to be written
for a meaning (`WellWritten`, after RFC 1035; servers are not in the repository):
where each item of each section starts (`places`), and of each name in it, or what is left of
one after some labels (`names`), that it is the zero, a label and a shorter name,
or a pointer to a name that ends before it. `CreateQuery` makes the packet for a domain, which
is then parsed in the same way. A cell outside of a packet cannot be read: the
model has no value for it, so that every run shows that none is.

### SMTP: `MailSubmission`, `SMTPDialogue`

`SMTPDialogue` is one run of the client against a server that agrees, refuses,
times out or breaks the connection at any place. The two exchange lines, because
`receiveResponse` decides by a line whether the reply goes on
(`Complete`). `cmd` is the step of `sendEmail()`, `Judge` what follows a reply or
its failure: every failure leads to `disconnect()`, which writes QUIT wherever
the dialogue is. The server slips at most `MaxSlips` times: it then writes lines of any
kinds in any order. A line of the body is of one of the `LineKinds`: text that is no command,
text that reads as MAIL, RCPT, DATA or QUIT, a line that begins with a dot, or a single dot.
After a single dot the server takes the rest of the body for commands (`Reads`) and may
start another message. `MailSubmission` is the abstract specification, with the message, the mailbox
and the verdict only. It promises no more than the code can keep, as nothing is done about dots:
success is reported only when a message was taken; a body without a single dot is taken at most once;
one in which no line begins with a dot is taken as it was given. `ImplementsMailSubmission` maps the dialogue to it.

### Web server: `WebServer`

`thread[c]` is the place of client `c`'s thread in `handleClient` with its
locals, `client[c]` what the client has sent and how it sees its connection. `Accept`
is the loop of `start()`, which fails and goes on when no descriptor is left; a file that is
open takes one as well. A request is a method and a path, and what is to be read of it
in the first segment when it comes in two (`cut` is `"later"`), or in the first 4095 bytes when there
are more (`"long"`; the rest stays unread, and `close()` resets the connection). `StatusOf`
sets 405 for a method other than GET, and what follows overwrites it, as in the code. `publicDir` counts, because `".."` is looked
for in the whole path. A client may leave, which makes `write()` raise SIGPIPE
and ends the process, and may send the rest of its request after the `close()`, which resets
the connection.

### UDP pinger: `PingNetwork`, `PingClient`, `PingServer`, `UDPPinger`

`PingNetwork` has the clock, whose ticks are as short as the constant `Second` says (there
are that many to a second), datagrams in flight and those that wait in sockets. `PingClient` and `PingServer` are the two loops:
every `recvfrom` ends with a datagram or at its deadline (`until`, `wake`), the
server's `sleep_for` is a phase in which it does not read its socket, and the
check for dead clients, which cuts off silence to whole seconds, is part of every round, as in the code. `UDPPinger`
composes any number of clients with one server. The clock advances only when no
program can go on (they are fast against a tick); the network is slow
as it likes. `Stray` is a datagram of another program, which the unconnected
client socket accepts.

## 3. Runs, bounds and fairness

| run | instance | shows |
|---|---|---|
| `rdtp_safety` | 3 chunks, window 2, 2 ports, `SeqMod` 8 | `PrefixDelivered`, `WindowHoldsUnacked`, `DoneMeansDelivered`, the inductive invariant `IInv`, `AcksNeverGoBack` and the refinement `ImplementsReliableTransfer`, under all loss, repetition, reordering and new runs of the sender; `ReceiverCompletes`: the receiver gets the file and ends, if datagrams of the port it has locked on to get through now and then |
| `rdtp_fin` | 1 chunk, window 1 | counterexample: the sender may wait for ever for a FIN's ACK (section 5) |
| `sum_safety` | 3 clients | `IInv`, `AtMostOneMoreAccept`; `NoZombieStays` under fairness |
| `sum_exchange` | 2 clients, one of them with a number out of range or a name of two lines | `ShutdownIsAskedFor`; `OutOfRangeShutsDown` and `ClientsEnd` under fairness |
| `proxy_safety` | 2 clients; 3 keys, of which one has the name of another's `.meta` file and one is on a host of its own; GET and POST, 2 blocks, 1 stop, broken connections, failing opens and writes | `IInv`, `FilesAreFetched`, `OnlySuccessCached`, `ServedOwnKey`, and `Answered` under fairness |
| `proxy_torn` | 3 clients, 1 key | counterexample: a hit that is not one response (section 5) |
| `dns_safety` | 4 names without a cycle, one of them too long; questions for AAAA and CNAME; 4 root servers, limits 7, 2 and 5 | `IInv`, `ResultsOfQuestion`, `TriesBounded`, and `Terminates` under fairness |
| `dns_loop` | 2 names that refer to each other, limit 7 | counterexample: more iterations than the limit (section 5) |
| `dns_packets` | all names of up to 4 characters; 4 replies (plain, alias, referral, long labels), cut at every place and with every cell changed to every value | `IInv`, `ParsesWhatIsMeant`, `QueryAsksDomain`, and `ParsingEnds` under fairness |
| `ping_safety` | 2 clients, 2 pings, 2 ticks to a second, no delay or one of a second, 3 seconds of time, 1 stray | `IInv`, `RttOfItsPing`, `ReportedInTime`, `DeadIsSilent` |
| `smtp_safety` | a body with a dotted line, one with a line that reads as QUIT, and one with a single dot, a line that reads as DATA and text; replies of up to 2 lines, 2 slips | `IInv`, `InStep`, `QuitEndsSession`, the refinement `ImplementsMailSubmission`, and `Ends` under fairness |
| `web_safety` | 3 clients, 2 descriptors, requests in one segment, in two, and longer than the buffer, 7 paths | `IInv`, `AnswerFits`, `LostHasReason`, and `Answered` under fairness |

Each passing run also checks its module's types (`TypeOK` or `ExchangeTypeOK`; where
a run checks `IInv`, as a conjunct of it).

**Why the bounds are enough.** Three chunks and a window of two are the
smallest case in which the window moves, is full, and reaches the end of the
file in different steps; two ports let a second run of the sender be locked
out, and also reuse the first one's port. `SeqMod` 8 is larger than any
file of the instance, as 2^32 is for real files (`NoWrap`). No counter of RDTP
needs a bound: repeated datagrams are one element of `net`. Three clients of
the sum server are one whose child signals, one that is accepted too late and
one more that must not be; of the exchange two are enough, the one that asks for
the shutdown and one that is served, queued or refused meanwhile, since its
other properties are about one client each. Two proxy threads suffice for a race on a file (a third
is there in `proxy_torn`, so that one thread can read what two others write), two
blocks for a half-written body, one stop for a restart. The three keys `h/a`, `h/a.meta` and `g/b`
are one file that is read both as a body and as metadata, and two hosts to be mixed up. In the resolver `MAX_ITERATIONS` 7 keeps
both margins of the code (`- 3`, `- 5`) inside its range; `MAX_SERVER_TRIES` 2
and four root servers make the limit of tries bite before the servers run out.
The smaller `MAX_TOTAL_FAILURES` keeps the code's order (it is larger than the limit of tries).
`MaxDepth` bounds the nested calls: in `dns_safety` the names have chains of three, so
that nothing is cut off; in `dns_loop` it is larger than the limit that is exceeded.
DNS packets have bytes of 32 values, of which two are pointers, labels of up to 2
and names of up to 3 characters, so that each limit of `createDNSQuery` is
passed by some domain; the labels of the fourth reply are longer, so that a cut may leave
enough of one to be taken for a record, of a length that fits and of one that does not; three pointers are followed, one more than a chain of the
replies has, and changed cells make longer chains and cycles.
In the pinger, two ticks to a second are the fewest with something to cut off, and a
`HeartbeatTimeout` of 1 makes both ends of it visible within `MaxTime` 6; the theorems
hold for any number of ticks to a second. One stray reaches the malformed branch.
A lone dot, a line that reads as DATA and text are the shortest body with a second message in it, which
ends with the dot that the client appends.
Two lines are the shortest reply that goes on, two slips one reply that leaves something
behind and one that is read in its place. Two descriptors are one for a socket and one for
a file or a second socket; three clients make one of them wait.

**Deadlock** is not checked, as every program here ends (`done`, `exited`), or
reaches the bound of the clock; that none of them is stuck before is what the
liveness properties say.

**Fairness.** *RDTP*: weak fairness for what a program does alone (start,
repeat the window or the FIN, flush); strong fairness for the reception of the
datagrams that make progress, which says that a network does not lose every one
of infinitely many copies. Nothing is assumed of failures. *Sum server*: running
processes are scheduled, pending signals are delivered; clients need neither
connect nor send. *Proxy*: threads are scheduled and origin servers answer or
break off; a client may also close without a request. *Resolver*: every system
call returns, since each `recv` is preceded by a `select` with a limit. *Packets*:
the parser runs. *Exchange*: as for the server, and a client that has connected
goes on, so that its message reaches the child. *SMTP*: the client
runs; the server goes on reading and closes a connection on which nothing more comes,
but it need not answer. *Web server*: the accept loop and the threads are scheduled;
nothing is assumed of clients.

Fairness that the code does not justify is absent: in `sum_safety` clients may
hang, and a child that waits for them does not stop the property from holding.
The liveness properties name what stands in their way where the code has no
remedy: `Answered` of the web server the silent clients that hold all descriptors,
`OutOfRangeShutsDown` the signal that comes between check and `accept()`,
`ReceiverCompletes` the sender that has gone to another port.

## 4. Proofs

`RDTPProofs`, `SumExchangeProofs` (the sum server too), `ProxyCacheProofs`, `DNSResolverProofs`,
`DNSPacketProofs`, `SMTPDialogueProofs`, `WebServerProofs` and `UDPPingerProofs` prove, for all values of the constants:

| theorem | states | assumes |
|---|---|---|
| `RDTPProofs!TypeCorrect` | `Spec => []TypeOK`, wrap-around included | – |
| `RDTPProofs!Inductive` | `Spec => []IInv` | `NoWrap` |
| `PrefixCorrect`, `WindowCorrect`, `DoneCorrect` | the safety invariants of `rdtp_safety` | `NoWrap` |
| `LockoutCorrect` | `PeerLockout`: only the run of the sender the receiver has locked on to makes progress (it is a consequence of `IInv`, which the run checks) | `NoWrap` |
| `AcksCorrect` | the action property `AcksNeverGoBack` | `NoWrap` |
| `Refinement` | `Spec => ImplementsReliableTransfer` | `NoWrap` |
| `SumExchangeProofs!Inductive` | `Spec => []IInv` | – |
| `OneMoreAccept` | `AtMostOneMoreAccept` | – |
| `ReasonedShutdown` | `ShutdownHasReason`: the loop is left only on a request or a failed `accept()` (a consequence of `IInv` as well) | – |
| `ImplementsSumServer` | `Exchange => Spec`: with real clients the server is still the one of `SumServer` | – |
| `ShutdownAskedFor` | `ShutdownIsAskedFor` for any number of clients and inputs | – |
| `OnlyAnswersPrinted` | `ExchangeTypeOK`: however connections break, a client prints the server's number only if the server has read what the client sent | – |
| `ProxyCacheProofs!Inductive` | `Spec => []IInv`, for any number of clients, keys and hosts, whatever files they share, with failing opens and writes, stops and broken connections | at least one client and one key; a file is not its own `.meta` file |
| `FilesCorrect`, `SuccessCorrect`, `KeysCorrect` | `FilesAreFetched`, `OnlySuccessCached`, `ServedOwnKey` | the same |
| `HitsCorrect` | `HitsAgree`, a part of `IInv`: however threads interleave, what is counted as hits are the requests answered from the cache | the same |
| `DNSResolverProofs!Inductive` | `Spec => []IInv`, for all limits, all names and whatever they refer to | – |
| `TriesCorrect`, `ResultsCorrect` | `TriesBounded`, `ResultsOfQuestion` | – |
| `ResolutionAdvances` | whatever names refer to, `Left` is natural (`LeftIsNatural`) and each step leaves less of it (`LeavesLess`): what does not end nests its calls deeper and deeper | – |
| `NestingBounded` | calls nest no deeper than chains of names are long | no chain comes back to itself: a rank falls along it (`FallsAlong`) |
| `DNSPacketProofs!Inductive` | `Spec => []IInv`, for all packets and all domains | – |
| `TypeCorrect` | `TypeOK`: no offset outside of the packet, at most `MAX_JUMPS` pointers in a name, whatever arrives | – |
| `QueryIsRead` | `QueryAsksDomain`: a query is parsed to its end and names its domain, for any number of labels | – |
| `RepliesAreRead` | `ParsesWhatIsMeant`: a reply of any number of records, its names compressed in any way of fewer than `MAX_JUMPS` pointers, is parsed as what was meant, and of a cut one every section, the additional one too, as a beginning of what was meant if those before it are complete | replies are `WellWritten` |
| `ParsingAdvances` | no packet is parsed for ever: `Left`, what there is left to do, is natural (`LeftIsNatural`), and each step leaves less (`LeavesLess`) | – |
| `SMTPDialogueProofs!Inductive` | `Spec => []IInv`, for all messages (dots and lines that read as commands included), lengths of replies and numbers of slips | – |
| `StaysInStep`, `QuitIsHeard` | `InStep`, `QuitEndsSession` | – |
| `SMTPDialogueProofs!Refinement` | `Spec => ImplementsMailSubmission`, for the same messages | – |
| `WebServerProofs!Inductive` | `Spec => []IInv`, for any number of clients, files and descriptors | – |
| `AnswersFit`, `LossesHaveReason` | `AnswerFits`, `LostHasReason` | – |
| `UDPPingerProofs!Inductive` | `Spec => []IInv`, for any number of clients and pings, all timeouts, intervals and delays, and a clock of any ticks | at least one ping, `Timeout > 0` |
| `RttCorrect`, `DeadCorrect`, `ReportedCorrect` | `RttOfItsPing`, `DeadIsSilent`, `ReportedInTime` | the same |

`NoWrap` (`FileLen < SeqMod`) says that a file has fewer chunks than there are
sequence numbers, 2^32 in the code: with the default chunk of 1000 bytes that is a file of
about 4 TB. Beyond it the code's `seq <= ackno` is wrong after the wrap-around, so that the assumption
is needed. The other assumptions are those of the constants' declarations
(`Window > 0`, `SeqMod > 0`, `FileLen` a natural number).

**The argument for RDTP.** None of the properties is inductive alone:
`WindowHoldsUnacked` speaks of the two ends of the wire, and only what is in between
connects them. `IInv` therefore says of every datagram in flight that what it
says is true: DATA carries the chunk of its number, an ACK is for something the
receiver of that peer has written (or for the FIN), a FIN is only sent when all
of the file is written. Since `net` is a set from which datagrams may be read
again at any time, this must hold for all of them for ever, and it does because
`expected` never decreases and a locked peer never changes. `SenderInv` ties the
window to `fill_window`; `ReceiverInv` ties `expected`, `lastAck` and the output to each
other; `WindowInv` says that only the run the receiver talks to has dropped anything.
`InvStep` has one case per action. The refinement follows from
`IInv` with `TransferStep`, which maps each step to one of the abstract
specification or to a stutter, as it does for most steps of the network and the window.

**The argument for the sum server.** `AtMostOneMoreAccept` needs that the late accept
leaves the parent on a path that passes the check (`LateInv`); `ShutdownHasReason` needs
that a pending or handled SIGUSR1 has a child behind it that has asked for it and will
not be anything but leaving, dead or reaped (`ReasonInv`), and for that a child's place must be
its own, which needs that the backlog holds each client once (`BacklogInv`).

**The argument for the exchange.** Every step of it is a step of `SumServer` or leaves the server
as it is (`ServerSteps`), so that the server's theorems hold; what a child has read is what
its client's user gave (`GivenInv`), which turns the server's reason to shut down into a
user's.

**The argument for the proxy.** Two threads of one file may be anywhere between their look-up and
their save. What keeps a file in one piece is that only the holder of the mutex writes it, and writes
what it has itself fetched, in order (`SaverInv`). `FileInv` says of every file that it is the beginning
of one response or one thread's metadata, whatever keys share it, whenever a write fails or the process
stops. `WholeInv` is for the cache files that are no key's `.meta` file: all that somebody
received for them is there, or is being written, or could not be written. `Belongs` ties a piece to
the file it is in, and `ThreadInv` carries this to the threads that read the file block by block: every block is
one that was fetched for that file's name with status 200, though not all from the same response
(`proxy_torn`). Of files that are both, only the status is known. `ResolverInv` says
that what is in the result of `gethostbyname()` was asked for by some thread, which is all that
`LookedUp` needs. `HitsAgree` needs no bound on the clients, as the threads that are answered
from the cache become more one by one, so that they stay finitely many. Nothing is said of counters after a stop,
which loses them.

**The argument for the resolver.** What comes out is correct because of what every frame of
the stack is: only the first call is for the question, the call for an alias asks for the type
its caller asks for, and a call that waits for another has no failures counted (`WellFormed`).
A result keeps the path on which it was found; `ResultInv` says that this path is the stack of
the call that returns it, followed by aliases alone, which a step that pops a frame keeps only
because the addresses of name servers go to `current_servers` and never up (`IsAnswer`).
`GoesBack`, `Calls` and `Descends` are the lemmas for what several actions have in common.

Why a resolution ends, and when, is in two theorems. A call goes through the places of a round in one
order (`Rank`), and its rounds are counted, so that its `Effort` falls with every step of its own; a call
it makes is below it, and when that one has returned the caller is at a later place than before.
`Left` is therefore less after each step in the lexicographic order from the first call to the last
one, with or without cycles of names. `GoesOn(p)` is what the lemmas prove of every action: the
`p`-th call moves on, those before it stay, and there is at most one after it. Since the order is well-founded
only for a bounded number of calls, this says no more of a cycle than that it must nest without end,
as it does in `dns_loop`. `NestingBounded` is the other half: a call is for a name that a reply to its caller
refers to (`Referred`, a part of `IInv`), so that where names have a rank the stack is no
longer than the rank of the question, whatever `MaxDepth` is. `MaxDepth = 3` cuts nothing
off in `dns_safety` for this reason. That the program always takes its next step is what `Terminates`
adds to both.

**The argument for the mail client.** The server may write anything, so that the client
may be ahead of it by any number of replies, and what is read as the answer to one command may
belong to another. The refinement needs that no 250 that is read after the 354
comes from before the message was taken (`ReplyInv`). It holds because until the server takes DATA
nothing has asked for a 354, and from then on the client writes no other command of the envelope
(`DataInv`, `WireInv`), so that the next 250 there can be is the one for the message. A line of the body that
reads as a command is one only if a single dot has ended the text before it; with `OneMessage`, that is
without such a dot, the server collects as long as anything of the text is under way. That what the server
takes then is the message is `Taking(n)`: the lines it has collected are the first `n`
of the stream and those under way are the rest of it, with at most QUIT behind them. `Shrinks` and
`Grows` are what the steps of the two sides do to the unread lines; `JudgeStep` is the lemma for every way a
reply or a failure is judged.

What is read belongs to the command it is read for (`InStep`) as long as the server writes as the protocol
says (`Paced`), for another reason: the two take turns. Something is on its way to the server only while the
client waits and nothing is on its way to it (`AskInv`), so that what is unread is one
reply to `cmd`, as far as it has come, with perhaps a last line of a server that has given up
(`AnswerInv`, `LastWordInv`). Most of `StepInv` does not ask whether a dot in the body
has ended the message early; only `Paced` does, and `CollectInv` holds without it. A DATA in the body may
make the server collect anew, but what is on its way of the text ends with a dot (`DotInv`), which ends
this message too (`Ending`). Since a server that collects has therefore no QUIT of the client among its
lines (`CollectInv`), a client that ends has been heard out (`QuitIsHeard`).

**The argument for DNS packets.** `PlaceInv` adds to the types where an offset may come from: a name that
has followed no pointer is inside the packet, and one that has goes on behind the first
pointer, which was read whole. That a query is read as its domain needs what
`createDNSQuery` writes for any number of labels. `Layout` says where each label is: the `k`-th
begins at `P[k - 1]`, with its length, and ends before `P[k]`, and the zero is at the end. `ReadSoFar` says that
`parseDNSName` is at one of these places and has the labels before it; no byte of
lengths can be a pointer, since `MaxLabel < Ptr`, nor end the name early, since no label is empty.
`NextByte` is the lemma for what may be at `P[k]`.

The two recursive definitions, `Labels` and `FlattenSeq` of the community modules, are functions defined
by `CHOOSE`, so that it must be shown that there is such a function before anything can be said of
it. The library's theorems on induction take a predicate, which is out of the provers' reach;
with a set in its place (`NatSetInduction`, from the well-foundedness of `<` on the natural
numbers) they are not needed, and `Recursion` shows that a first value and a step define a function.
`Concatenation`, `StaysAtFront`, `NameLayout` and `LabelsType` rest on these two.

That a reply is read as what was meant is the invariant `ReplyInv`: the parser is in step with
the reply, or has met a cut. In step (`InStep`), what has been taken is what was meant up to the
item that is read (`TakenSoFar`), and the item is read at the place where it was written
(`ReadsItem`). Inside of a name, `ReadingOf(m)` says that what `parseDNSName` has not read
of the name `m` is a name `n` of the reply at `name.pos`: a label makes `n` shorter, a pointer goes
to another one of the same labels, and its chain is one shorter, which is why
the limit of pointers is not reached; the offset to go on from is the end of `m` before
the first pointer and after it (`ReadingTakeLabel`, `ReadingJump`). `ReadingEnds` is
the lemma for what a name ends with: it is complete, or cut at `name.pos`. After a cut
(`OutOfStep`) only this remains: there is nothing left to read, or the section that
is filled comes after one that is not complete, of which nothing is claimed. No induction
over the packet is needed, as `WellWritten` speaks of one item and one byte of a name at a time.

The proof showed what the run had not: as first stated, the property was false for a
cut in a label whose rest is read as a record (`RestIsRead`, section 5), which no reply of the
instance had labels for. The property now excludes exactly that, and the reply with
long labels was added: without either clause of `RestIsRead` the run fails.

Why parsing ends is the tuple `Left`: the loops of sections still to come, the items of this one, what is
left of its item, the pointers and the cells of a name. A step makes one of them less and
leaves those before it (`Less`): a label is longer than nothing, so that there are fewer cells, a pointer may
lead anywhere but may be followed `MAX_JUMPS` times only, and whatever a record states, its
loop has counted it. That the numbers are natural needs `LoopInv`, a part of `IInv`: a loop never
goes beyond the count of the header. This is the part of `ParsingEnds` that does not depend
on fairness; that the parser takes a step as long as it is not done is what the run shows.

**The argument for the web server.** Most of it is that clients do not disturb each other
(`Frame`): a client is in the backlog once and before it has a thread (`BacklogInv`), a thread's
`line` is what its own client has sent in its first segment or whole (`SentInv`, `ThreadInv`),
and what a client sees is its thread's answer (`ViewInv`), which fits what was read (`Fits`). That leaves
the status open where the code departs from its assignment (section 5): it forbids another's page, a 200 without
the content of the file, and anything but 404 for a file that is not there or a path
with dots, and it asks for 200 where a page is due. The bound on descriptors
rests on the finiteness of the open sockets.

**The argument for the pinger.** A datagram is good as long as it carries the time at which
its own ping was sent (`Genuine`), which the log tells: `SentAt` is the end of the round
before and the sleep after it. `Kept` says that no step changes when a ping was sent, so
that every datagram stays good (`PayloadsStay`). That no ping has two samples needs that
it is in one place at a time, in flight, in a socket, with the sleeping server or in the log
(`OnceInv`); `OnceStays` is the lemma for the steps that bring none anywhere new, and the steps
that move one prove that it leaves where it was. A fresh ping is nowhere yet (`NotYetSent`). The
server is never late because its waits end (`now <= wake`), and `Watched` bounds what may have
passed since a client was heard of by then: at a check, what is cut off to `N` seconds may be almost `N + 1`, and
the next check is a second and a delay away, hence `ReportWithin`, `N + 2` seconds. `HeardInv` ties `last_seen` to what has arrived.
The bounds on the clock and on strays only limit what is checked: both are any
natural number here.

**Only model-checked.** All liveness (`ReceiverCompletes`, `NoZombieStays`,
`OutOfRangeShutsDown`, `ClientsEnd`, `Answered`, `Terminates`, `ParsingEnds`, `Ends`): it
rests on fairness, which is out of the prover's reach (`ParsingAdvances` and `ResolutionAdvances` prove
what is safety in `ParsingEnds` and `Terminates`). Every invariant and every action property
of the passing runs is proved. The counterexamples need no proof.

## 5. Where the code and its documentation part

Each of these is a run that finds a behaviour; the trace is the argument.

* `rdtp_fin`: the receiver answers one FIN and exits. If that ACK is lost, nobody
  answers the repeated FINs, and the sender, which has no limit on them, never ends.
* `proxy_torn`: a body is read outside of `cacheMutex_`, while another thread
  truncates and writes it.
* `dns_loop`: the limit of iterations is per nested call, and each nested call starts
  again from 0, so that names which refer to each other are followed without limit.

Known, and without a run of their own:

* *RDTP.* The last ACK is sent before the output is flushed (`rdt_receiver.cpp:107`, `:118`): a sender
  reports success although the last bytes may still be lost with the receiver. A read of the
  input that fails is taken for its end (`rdt_sender.cpp:100-104`), so that success is reported for a part of
  the file; in the model the file is what could be read.
* *Sum server.* SIGUSR1 handled between `while (!g_shutdown_requested)` and `accept()` sets
  the flag too late: the server sleeps until another client connects. `OutOfRangeShutsDown`
  shows that this gap is the only one. `sleep(1)` is cut short by the very signals it waits
  out, and any error of `accept()` ends the server. A client whose connection ends
  without an answer prints a sum with 0 (`zero`). A name with a line break has its second
  line read as the number. `client.cpp:57` holds a stray character and does not compile.
* *Proxy.* A stop during `saveToCache` leaves a part of a body; without a `.meta` file it
  counts as status 200 in the next run. So does a failed write: neither the body (lines 419-420) nor the metadata
  (426-428) is checked, and the part is served (`bad` in `FilesAreFetched`). A `.meta` file is a cache
  file like any other (383, 423): a GET of `/a.meta` is answered with the status and time of `/a`, and
  saving `/a.meta` replaces them, after which `stoi()` throws for each GET of `/a`; `ServedOwnKey` is about keys
  whose file is no `.meta` file. `gethostbyname` (437-456) has a result that threads share where the C
  library has no buffer per thread: a thread may connect to another request's host, and what it
  gets is cached for its own (`LookedUp` in `ServedOwnKey`). A request that goes to its origin is counted twice
  in `totalRequests` and as a miss (lines 177 and 202), one that is a hit also as a miss (177 and 191), while
  README.md:210 speaks of the number of requests; only the hits are right (`HitsAgree`).
  What a POST got is saved under the key of a GET; `recv() < 0` is taken for the end of a response;
  different keys collapse into one file name.
* *DNS.* A question of type CNAME has no results, as no branch takes such records
  (`IsFinal`), although README.md:13 and :40 and the message at `dns_resolver.cpp:881` offer it; no
  property of the runs asks for that or relies on it. An answer over TCP in more than one segment fails, since each `recv` is
  called once. A label of more than 63 characters raises an exception that nobody catches
  (`Throw`); an empty one, as in `a..b`, ends the name in the query. An answer with another
  id ends the wait for the right one. After 10 pointers the rest of a name is not
  read. The section after a record that is cut off is read from the middle of that record,
  so that it may hold records nobody sent. So may the section of the cut itself, if the cut is in
  a label: `parseDNSName` then leaves the offset at the label, and its letters are taken for
  the type and length of a record, if they state a length that fits (`RestIsRead`). Letters,
  digits and hyphens as a length are more than 11,000 bytes, so that no host name does.
* *Pinger.* An echo that comes after its timeout is taken in the next round: one ping is
  counted as lost and as received, while the echo of the later one is left over.
  `RttOfItsPing` shows that its round-trip time is right all the same. The server
  sleeps for `delay_ms` in its only thread, and `last_seen` is when it has read a datagram, not
  when the datagram came: a client may be reported while its ping waits in the socket, which
  is what `DeadIsSilent` allows for and the pinger's README.md:34 does not. Nor is a client
  reported after the `N` seconds of README.md:34, but only at a check that finds `N + 1`, up to `N + 2`
  seconds and a delay later (`ReportedInTime`).
* *SMTP.* A line without a code ends a reply that has begun, and the rest of it is taken for
  the reply to the next command; a body line that is a single dot ends the message, and what
  follows is taken for commands, so that the same body may hold a second message (`smtp_client.cpp:195`);
  dots are not doubled, so that a line loses its first one. README and tests speak of HELO and of other words
  of success than the code has (`smtp_client.cpp:153`, `:211`).
* *Web server.* TASK.md:36-46 (3.4) asks for 200 for a file that is found and 404 for one that is absent. The code
  serves any method, as the status 405 of line 119 is overwritten by 200 or 404; an existing empty file
  is 404, and so is a file for which no descriptor is left, and every file when the directory is
  `../public`, as `".."` is looked for in the whole path. `AnswerFits` leaves the status open in
  these cases. What comes after 4095 bytes of a request is not read, so that `close()`
  resets the connection. A client that leaves may end the server by SIGPIPE.

## 6. What is not modelled

* The byte layout and CRC of RDTP packets, the parsers of the proxy's HTTP requests and responses, addresses and
  socket set-up: functions on bytes with no state. Where control depends on their outcome,
  that outcome is a choice of the model.
* `DNSPacket` and `DNSResolver` are not composed: the resolver's replies are what the
  parser hands on, and any reply is possible there. Widths of DNS fields other than the bytes of names are
  one cell.
* The restart of the RDTP *receiver*, which truncates its output file: a sender's
  window of an earlier run then refers to a lost output. Files of more chunks than there are
  sequence numbers: the proofs assume `NoWrap`.
* A stray DNS answer with another id: it is one of the failures of a query (`MayFail`); that the right
  answer comes afterwards is not seen.
* Datagrams of other programs that look like an echo: the client takes a well-formed
  `Ping n t` from anyone (`udp_pinger_client.cpp:260-275`); `Stray` is malformed. Duplication of datagrams in the pinger; a clock that is set back; `EINTR` there, which
  no handler of the program can cause.
* A `write()` of the mail client or the web server that writes a part, or that blocks since the client does
  not read: `Write` completes, which for a file larger than a socket's buffer (`server.cpp:102`)
  `Answered` assumes of the client.
* A `hostent` of the proxy that is read while another thread writes it: a mixture of two addresses is
  modelled as one or the other.
* How long one second is against a child's work in the sum server's shutdown.
* The tests, scripts, recorded output and cached objects have no state of the programs.

## 7. Plan

In order of importance; what is done is marked.

1. RDTP: sender, receiver, network, abstract transfer; runs; proofs. *(done)*
2. Sum server with its signals; runs; proofs. *(done)*
3. Proxy cache with its threads and stops; runs. *(done)*
4. Resolver: nested calls and counters; runs. *(done)*
5. Pinger: both loops and the clock; runs. *(done)*
6. `SMTPDialogue` with the abstract `MailSubmission`; run. *(done)*
7. `WebServer`; run. *(done)*
8. `DNSPacket`: names and records; run. *(done)*
9. `SumExchange`: the sum server with its real clients; run; proofs. *(done)*
10. Proofs: `DNSResolver`, `DNSPacket`, `WebServer`, `ProxyCache`, `UDPPinger`, and `SMTPDialogue` with its
   refinement. *(done)*
11. The abstract specification of a cache (a key maps to nothing or to one response) for the
   proxy with its reads under the mutex.
12. RDTP receiver that is started again, with what of the safety properties survives;
   packet format: `build_packet` and `parse_packet` as operators on small
   words, inverse to each other and rejecting every single changed field.
13. The hits of the proxy in its inductive invariant; measures for the DNS parser and the
   resolver. *(done)*
14. `DNSReply`: what servers write, for any number of records and labels, and the proof of
   `ParsesWhatIsMeant`. *(done)*
