----------------------------- MODULE ProxyCache -----------------------------
(***************************************************************************)
(* web-proxy/: one detached thread per client runs handleClient() against  *)
(* the shared cache directory and the shared statistics.  cacheMutex_ is   *)
(* held inside isCached, getCacheEntry and saveToCache, not between them   *)
(* and not while a body is read.                                           *)
(*                                                                         *)
(* Files are sequences of pieces.  A piece is a block of a response, what  *)
(* one read() or write() moves, or the lines of a .meta file, as piece 0.  *)
(* It says which thread fetched or wrote it, so that it also says for      *)
(* which key and with which method.  A .meta file is a file of the cache   *)
(* directory like any other: it may be the cache file of another key.      *)
(***************************************************************************)
EXTENDS FiniteSets, Naturals, Sequences

CONSTANTS
    Clients,   \* each is one connection, one request and one thread
    Keys,      \* cache keys: host ":" port path
    FileOf,    \* Keys -> file names: what sanitizeFilename makes of a key
    MetaOf,    \* file names of keys -> file names: name ".meta"
    HostOf,    \* Keys -> hosts
    Methods,   \* of {"GET", "POST"}, those the clients use
    Parts,     \* blocks of a whole response
    MayBreak,  \* BOOLEAN: origin connections may break in mid-response
    MayFail,   \* BOOLEAN: opening a cache file may fail, and writing to it
    MaxStops   \* bound: how often the process ends and is started again

Files == {FileOf[k] : k \in Keys}
Metas == {MetaOf[f] : f \in Files}
Names == Files \cup Metas
Hosts == {HostOf[k] : k \in Keys}

ASSUME ClientsAssumption == Clients # {} /\ "nobody" \notin Clients
ASSUME KeysAssumption == Keys # {}
ASSUME PartsAssumption == Parts \in Nat \ {0}
ASSUME FileOfAssumption == DOMAIN FileOf = Keys
ASSUME MetaOfAssumption == DOMAIN MetaOf = Files /\ \A f \in Files : MetaOf[f] # f
ASSUME HostOfAssumption == DOMAIN HostOf = Keys /\ "none" \notin Hosts
ASSUME MethodsAssumption == Methods \subseteq {"GET", "POST"}

VARIABLES
    pc,        \* per client, where its handleClient() is
    request,   \* per client, [method, key]
    response,  \* per client, the string `response`, as pieces
    fetched,   \* per client, the status of the response it fetched
    peer,      \* per client, the host it was fetched from
    source,    \* per client, where its response comes from
    resolved,  \* the host that is in gethostbyname()'s static result
    files,     \* the names of the files that exist in the cache directory
    content,   \* per name, what is in the file
    bad,       \* clients whose std::ofstream has failed in a write
    lock,      \* holder of cacheMutex_
    stats,     \* stats_
    stops      \* how often the process has ended

vars == <<pc, request, response, fetched, peer, source, resolved, files, content, bad, lock,
          stats, stops>>
fetchVars == <<fetched, peer, resolved>>
cacheVars == <<files, content, bad, lock>>

Nobody == "nobody"

Piece == [from : Clients, part : 0..Parts]

(* The first n blocks of the response that c has fetched. *)
Blocks(c, n) == [i \in 1..n |-> [from |-> c, part |-> i]]

(* The status and the time that c has written to a .meta file. *)
Meta(c) == [from |-> c, part |-> 0]

NoStats == [total |-> 0, hits |-> 0, misses |-> 0, errors |-> 0]

(* mutant: hits and misses are swapped *)
SwappedCounts(s, hit, error) ==
    [total  |-> s.total + 1,
     hits   |-> s.hits + (IF hit THEN 0 ELSE 1),
     misses |-> s.misses + (IF hit THEN 1 ELSE 0),
     errors |-> s.errors + (IF error THEN 1 ELSE 0)]

(* updateStats(cacheHit, error), which holds statsMutex_ *)
Counted(s, hit, error) ==
    [total  |-> s.total + 1,
     hits   |-> s.hits + (IF hit THEN 1 ELSE 0),
     misses |-> s.misses + (IF hit THEN 0 ELSE 1),
     errors |-> s.errors + (IF error THEN 1 ELSE 0)]

Go(c, place) == pc' = [pc EXCEPT ![c] = place]

(* mutant: a cache key without the host *)
FileOfPath(c) == FileOf[CHOOSE k \in Keys : TRUE]

(* getCacheFilePath(generateCacheKey(request)) *)
FileFor(c) == FileOf[request[c].key]
MetaFor(c) == MetaOf[FileFor(c)]

-----------------------------------------------------------------------------
(* handleClient, step by step. *)

(* The client goes without a request. *)
NoRequest(c) ==
    /\ pc[c] = "accepted"
    /\ Go(c, "done")
    /\ UNCHANGED <<request, response, source, fetchVars, cacheVars, stats, stops>>

(* The request arrives.  One that has no method or host, or asks for a     *)
(* tunnel, is answered at once; one whose Content-Length is no number      *)
(* throws and counts as an error; the others are counted for the first     *)
(* time, as misses.                                                        *)
Refuse(c) ==
    /\ pc[c] = "accepted"
    /\ Go(c, "send")
    /\ source' = [source EXCEPT ![c] = "error"]
    /\ stats' \in {stats, Counted(stats, FALSE, TRUE)}
    /\ UNCHANGED <<request, response, fetchVars, cacheVars, stops>>

Parse(c) ==
    /\ pc[c] = "accepted"
    /\ \E m \in Methods, k \in Keys :
          /\ request' = [request EXCEPT ![c] = [method |-> m, key |-> k]]
          /\ Go(c, IF m = "GET" THEN "isCached" ELSE "miss")
    /\ stats' = Counted(stats, FALSE, FALSE)
    /\ UNCHANGED <<response, source, fetchVars, cacheVars, stops>>

(* A file that cannot be opened is not cached either. *)
IsCached(c) ==
    /\ pc[c] = "isCached"
    /\ lock = Nobody
    /\ \/ FileFor(c) \in files /\ Go(c, "getCacheEntry")
       \/ (FileFor(c) \notin files \/ MayFail) /\ Go(c, "miss")
    /\ UNCHANGED <<request, response, source, fetchVars, cacheVars, stats, stops>>

(* What getCacheEntry has for a status.  The .meta file may be the cache   *)
(* file of another key: then its first line is no number.                  *)
EntryStatus(c) ==
    IF MetaFor(c) \notin files THEN "200"
    ELSE IF content[MetaFor(c)] = <<>> THEN "0"
    ELSE IF content[MetaFor(c)][1] \in {Meta(d) : d \in Clients} THEN "200" ELSE "no number"

(* A .meta file that cannot be opened counts as status 200.  stoi() throws *)
(* for what is no number.  Then the cache file is opened, or not.          *)
GetCacheEntry(c) ==
    /\ pc[c] = "getCacheEntry"
    /\ lock = Nobody
    /\ \E status \in {EntryStatus(c)} \cup (IF MayFail THEN {"200"} ELSE {}) :
          \/ /\ status = "200"
             /\ Go(c, "read")
             /\ UNCHANGED <<source, stats>>
          \/ /\ status = "0" \/ (status = "200" /\ MayFail)
             /\ Go(c, "miss")
             /\ UNCHANGED <<source, stats>>
          \/ /\ status = "no number"
             /\ Go(c, "send")
             /\ source' = [source EXCEPT ![c] = "error"]
             /\ stats' = Counted(stats, FALSE, TRUE)
    /\ UNCHANGED <<request, response, fetchVars, cacheVars, stops>>

(* buffer << file.rdbuf(), without the mutex: the next piece, or the end   *)
(* of the file as it is now.                                               *)
ReadBlock(c) ==
    /\ pc[c] = "read"
    /\ LET file == content[FileFor(c)]
           next == Len(response[c]) + 1
       IN  IF next <= Len(file)
           THEN /\ response' = [response EXCEPT ![c] = Append(@, file[next])]
                /\ UNCHANGED <<pc, source, stats>>
           ELSE /\ Go(c, "send")
                /\ source' = [source EXCEPT ![c] = "cache"]
                /\ stats' = Counted(stats, TRUE, FALSE)
                /\ UNCHANGED response
    /\ UNCHANGED <<request, fetchVars, cacheVars, stops>>

(* Counted again.  gethostbyname() leaves its result in one object for all *)
(* threads, or has none, which gives an error page.                        *)
Miss(c) ==
    /\ pc[c] = "miss"
    /\ stats' = Counted(stats, FALSE, FALSE)
    /\ \/ /\ resolved' = HostOf[request[c].key]
          /\ Go(c, "fetch")
          /\ UNCHANGED source
       \/ /\ Go(c, "send")
          /\ source' = [source EXCEPT ![c] = "error"]
          /\ UNCHANGED resolved
    /\ UNCHANGED <<request, response, fetched, peer, cacheVars, stops>>

(* mutant: every answer is cached *)
CacheAnything(status) == TRUE

ShouldCache(status) == status = "200"

(* The thread connects to the host in the result of gethostbyname(), which *)
(* another thread may have replaced, unless the C library has one for each *)
(* thread.  readFullResponse takes the end of the stream and an error of   *)
(* recv() for the end of the response.  Nothing at all becomes an error    *)
(* page, and so does a server that cannot be reached.                      *)
Fetch(c) ==
    /\ pc[c] = "fetch"
    /\ \/ /\ \E status \in {"200", "404"}, n \in (IF MayBreak THEN 1..Parts ELSE {Parts}) :
                /\ response' = [response EXCEPT ![c] = Blocks(c, n)]
                /\ fetched' = [fetched EXCEPT ![c] = status]
                /\ Go(c, IF ShouldCache(status) THEN "lock" ELSE "send")
          /\ \E h \in {resolved, HostOf[request[c].key]} : peer' = [peer EXCEPT ![c] = h]
          /\ source' = [source EXCEPT ![c] = "origin"]
       \/ /\ source' = [source EXCEPT ![c] = "error"]
          /\ Go(c, "send")
          /\ UNCHANGED <<response, fetched, peer>>
    /\ UNCHANGED <<request, resolved, cacheVars, stats, stops>>

(* mutant: saveToCache without the lock_guard *)
FreeForAll(c) == TRUE

MayLock(c) == lock = Nobody

(* saveToCache: take the mutex and truncate the file; unless it cannot be  *)
(* opened.                                                                 *)
SaveOpen(c) ==
    /\ pc[c] = "lock"
    /\ MayLock(c)
    /\ \/ /\ lock' = c
          /\ files' = files \cup {FileFor(c)}
          /\ content' = [content EXCEPT ![FileFor(c)] = <<>>]
          /\ Go(c, "write")
       \/ /\ MayFail
          /\ Go(c, "send")
          /\ UNCHANGED <<lock, files, content>>
    /\ UNCHANGED <<request, response, source, fetchVars, bad, stats, stops>>

Written(c) == Len(content[FileFor(c)]) >= Len(response[c])

(* The next block; or file.write() fails, and so does all that follows     *)
(* it, which nobody asks.                                                  *)
SaveBlock(c) ==
    /\ pc[c] = "write"
    /\ ~Written(c) /\ c \notin bad
    /\ \/ /\ content' = [content EXCEPT ![FileFor(c)] = Append(@, response[c][Len(@) + 1])]
          /\ UNCHANGED bad
       \/ /\ MayFail
          /\ bad' = bad \cup {c}
          /\ UNCHANGED content
    /\ UNCHANGED <<pc, request, response, source, fetchVars, files, lock, stats, stops>>

(* mutant: saveToCache returns with the mutex locked *)
KeptBy(c) == c

(* The holder of the mutex once c's lock_guard is destroyed. *)
ReleasedBy(c) == Nobody

(* The file is written, as far as it went, and closed.  Open the .meta     *)
(* file, which truncates it; if that fails, saveToCache returns and leaves *)
(* the .meta file alone.                                                   *)
SaveOpenMeta(c) ==
    /\ pc[c] = "write"
    /\ Written(c) \/ c \in bad
    /\ \/ /\ files' = files \cup {MetaFor(c)}
          /\ content' = [content EXCEPT ![MetaFor(c)] = <<>>]
          /\ Go(c, "writeMeta")
          /\ UNCHANGED lock
       \/ /\ MayFail
          /\ lock' = ReleasedBy(c)
          /\ Go(c, "send")
          /\ UNCHANGED <<files, content>>
    /\ UNCHANGED <<request, response, source, fetchVars, bad, stats, stops>>

(* The status and the time are written, or not. *)
SaveMeta(c) ==
    /\ pc[c] = "writeMeta"
    /\ \/ content' = [content EXCEPT ![MetaFor(c)] = <<Meta(c)>>]
       \/ MayFail /\ UNCHANGED content
    /\ lock' = ReleasedBy(c)
    /\ Go(c, "send")
    /\ UNCHANGED <<request, response, source, fetchVars, files, bad, stats, stops>>

(* An error page is sent in the place of an empty response. *)
SendResponse(c) ==
    /\ pc[c] = "send"
    /\ Go(c, "done")
    /\ UNCHANGED <<request, response, source, fetchVars, cacheVars, stats, stops>>

-----------------------------------------------------------------------------
Accept(c) ==
    /\ pc[c] = "away"
    /\ Go(c, "accepted")
    /\ UNCHANGED <<request, response, source, fetchVars, cacheVars, stats, stops>>

(* The process ends whatever its detached threads do.  The cache directory *)
(* stays; a new process has new statistics and a new mutex.                *)
EndProcess ==
    /\ stops < MaxStops
    /\ stops' = stops + 1
    /\ pc' = [c \in Clients |-> IF pc[c] \in {"away", "done"} THEN pc[c] ELSE "dead"]
    /\ lock' = Nobody
    /\ resolved' = "none"
    /\ stats' = NoStats
    /\ UNCHANGED <<request, response, fetched, peer, source, files, content, bad>>

(* signalHandler calls stop() and exit(). *)
Stop == EndProcess

(* send() without MSG_NOSIGNAL, to a client that has closed its socket:    *)
(* SIGPIPE ends the process.                                               *)
BrokenPipe(c) ==
    /\ pc[c] = "send"
    /\ EndProcess

Init ==
    /\ pc = [c \in Clients |-> "away"]
    /\ request = [c \in Clients |-> [method |-> "none", key |-> CHOOSE k \in Keys : TRUE]]
    /\ response = [c \in Clients |-> <<>>]
    /\ fetched = [c \in Clients |-> "none"] /\ peer = [c \in Clients |-> "none"]
    /\ source = [c \in Clients |-> "none"]
    /\ resolved = "none"
    /\ files = {} /\ content = [f \in Names |-> <<>>] /\ bad = {}
    /\ lock = Nobody
    /\ stats = NoStats
    /\ stops = 0

HandleClient(c) ==
    \/ NoRequest(c) \/ Refuse(c) \/ Parse(c)
    \/ IsCached(c) \/ GetCacheEntry(c) \/ ReadBlock(c) \/ Miss(c) \/ Fetch(c)
    \/ SaveOpen(c) \/ SaveBlock(c) \/ SaveOpenMeta(c) \/ SaveMeta(c)
    \/ SendResponse(c)

Next == Stop \/ \E c \in Clients : Accept(c) \/ HandleClient(c) \/ BrokenPipe(c)

Spec == Init /\ [][Next]_vars

(* Every thread is scheduled; an origin server answers or breaks off.      *)
FairSpec == Spec /\ \A c \in Clients : WF_vars(HandleClient(c))

-----------------------------------------------------------------------------
Places == {"away", "accepted", "isCached", "getCacheEntry", "read", "miss",
           "fetch", "lock", "write", "writeMeta", "send", "done", "dead"}

(* A part of one response, from its beginning; or the lines of one .meta   *)
(* file, or none of them.                                                  *)
OneResponse(s) == \E c \in Clients : s = Blocks(c, Len(s))
OneMeta(s)     == s = <<>> \/ \E c \in Clients : s = <<Meta(c)>>

Statuses == {"none", "200", "404"}
Sources  == {"none", "error", "origin", "cache"}

(* Every variable keeps its type. *)
TypeOK ==
    /\ pc \in [Clients -> Places]
    /\ request \in [Clients -> [method : Methods \cup {"none"}, key : Keys]]
    /\ response \in [Clients -> Seq(Piece)]
    /\ fetched \in [Clients -> Statuses] /\ source \in [Clients -> Sources]
    /\ peer \in [Clients -> Hosts \cup {"none"}] /\ resolved \in Hosts \cup {"none"}
    /\ files \subseteq Names /\ content \in [Names -> Seq(Piece)]
    /\ bad \subseteq Clients /\ lock \in Clients \cup {Nobody}
    /\ stats \in [total : Nat, hits : Nat, misses : Nat, errors : Nat]
    /\ stops \in Nat

(* README.md:36, 50-52, "Кэшу (cacheMutex_)": whatever threads replace it  *)
(* at the same time, whichever writes fail, whenever the proxy is stopped  *)
(* and whatever keys share it, a file of the cache never holds parts of    *)
(* two responses: it is the beginning of one, or one thread's metadata.    *)
(* A cache file that is no key's .meta file holds all that some thread has *)
(* received for it, while nobody writes there, unless a write failed or    *)
(* the process has ended.                                                  *)
FilesAreFetched ==
    /\ \A f \in Names : OneResponse(content[f]) \/ OneMeta(content[f])
    /\ lock = Nobody /\ stops = 0 =>
          \A f \in files \ Metas : \E c \in Clients :
              FileOf[request[c].key] = f /\ (content[f] = response[c] \/ c \in bad)

(* README.md:39, "не кэширует ошибки 404": what is in a cache file, and so *)
(* what is served from one, was status 200 when it was fetched.            *)
OnlySuccessCached ==
    /\ \A f \in Names : \A i \in DOMAIN content[f] : fetched[content[f][i].from] = "200"
    /\ \A c \in Clients : source[c] = "cache" =>
          \A i \in DOMAIN response[c] : fetched[response[c][i].from] = "200"

(* A key whose file is no other key's file, nor any key's .meta file. *)
Own(k) == FileOf[k] \notin Metas /\ \A l \in Keys : FileOf[l] = FileOf[k] => l = k

(* The host of k, or one that another thread has looked up. *)
LookedUp(h, k, d) ==
    \/ h = HostOf[k]
    \/ \E e \in Clients \ {d} : request[e].method # "none" /\ HostOf[request[e].key] = h

(* What is served under a key with a file of its own (proxy_server.cpp:    *)
(* 340-363, 383, 423) is blocks that were fetched for that key, never the  *)
(* metadata or the blocks of another one, even when its .meta file is the  *)
(* file of another key; and they come from its own host, unless another    *)
(* thread has looked up the one they come from (437-456).                  *)
ServedOwnKey ==
    \A c \in Clients : source[c] = "cache" /\ Own(request[c].key) =>
       \A i \in DOMAIN response[c] :
          LET d == response[c][i].from
          IN  /\ response[c][i].part # 0
              /\ request[d].key = request[c].key
              /\ LookedUp(peer[d], request[c].key, d)

(* Whatever the threads do to each other, every request is answered: the   *)
(* mutex is never kept (proxy_server.cpp:365-431).                         *)
Answered ==
    \A c \in Clients : (pc[c] = "accepted") ~> (pc[c] \in {"done", "dead"})

-----------------------------------------------------------------------------
(* What the documentation says and the code does not keep. *)

Hits == {c \in Clients : pc[c] = "done" /\ source[c] = "cache"}

(* README.md:50-52: access to the cache is synchronised.  A hit is one     *)
(* whole response, as it was fetched.                                      *)
HitIsOneResponse ==
    \A c \in Hits : \E d \in Clients : response[c] = Blocks(d, Parts)

-----------------------------------------------------------------------------
(* The inductive invariant behind FilesAreFetched, OnlySuccessCached and   *)
(* ServedOwnKey.                                                           *)

Early  == {"away", "accepted", "isCached", "getCacheEntry", "read", "miss", "fetch"}
Saving == {"write", "writeMeta"}

(* A piece that may be in the file f: fetched with status 200, and a block *)
(* that was fetched for f if f is not a .meta file too.                    *)
Belongs(p, f) ==
    /\ fetched[p.from] = "200"
    /\ f \notin Metas => p.part # 0 /\ FileFor(p.from) = f

(* What a thread has in its `response`, and where from. *)
ThreadInv(c) ==
    /\ pc[c] \in Early => source[c] = "none"
    /\ pc[c] \in {"away", "accepted"} => response[c] = <<>> /\ request[c].method = "none"
    /\ pc[c] \in Early \ {"away", "accepted"} => request[c].method # "none"
    /\ fetched[c] # "none" <=> source[c] = "origin"
    /\ source[c] = "origin" =>
          /\ response[c] = Blocks(c, Len(response[c]))
          /\ LookedUp(peer[c], request[c].key, c)
          /\ request[c].method # "none"
    /\ source[c] # "origin" =>
          \A i \in 1..Len(response[c]) : Belongs(response[c][i], FileFor(c))
    /\ pc[c] \in Saving \cup {"lock"} => fetched[c] = "200"

(* The result of gethostbyname() is what some thread has asked for. *)
ResolverInv ==
    /\ resolved # "none" =>
          \E e \in Clients : request[e].method # "none" /\ HostOf[request[e].key] = resolved
    /\ \A c \in Clients : pc[c] = "fetch" => resolved # "none"

(* Whoever saves has the mutex, and has written a part of what it fetched. *)
SaverInv(c) ==
    /\ pc[c] \in Saving <=> lock = c
    /\ pc[c] \in Saving => /\ content[FileFor(c)] = Blocks(c, Len(content[FileFor(c)]))
                           /\ Len(content[FileFor(c)]) <= Len(response[c])
    /\ pc[c] = "writeMeta" => c \in bad \/ Len(content[FileFor(c)]) = Len(response[c])

FileInv(f) ==
    /\ OneResponse(content[f]) \/ OneMeta(content[f])
    /\ \A i \in 1..Len(content[f]) : Belongs(content[f][i], f)

(* All of a response is in its file, or is being written there; or not all *)
(* of it could be written.                                                 *)
WholeInv(f) ==
    \E c \in Clients : /\ FileFor(c) = f /\ source[c] = "origin"
                       /\ lock = c \/ content[f] = response[c] \/ c \in bad

(* Whatever a thread reads or writes in the cache was fetched for that     *)
(* file with status 200, by one thread that alone writes it while it has   *)
(* the mutex (proxy_server.cpp:184-218, 365-431).                          *)
CacheInv ==
    /\ TypeOK
    /\ \A c \in Clients : ThreadInv(c) /\ SaverInv(c)
    /\ ResolverInv
    /\ \A f \in Names : FileInv(f)
    /\ stops = 0 => \A f \in files \ Metas : WholeInv(f)

(* web-proxy/README.md:209-211, "Количество попаданий в кэш": whatever     *)
(* threads count at the same time, cacheHits is the number of requests     *)
(* that were answered from the cache (proxy_server.cpp:184-197, 589-600).  *)
HitsAgree ==
    stops = 0 => LET fromCache == {c \in Clients : source[c] = "cache"}
                 IN  IsFiniteSet(fromCache) /\ stats.hits = Cardinality(fromCache)

(* What is in the cache, and how often it was used. *)
IInv == CacheInv /\ HitsAgree

=============================================================================
