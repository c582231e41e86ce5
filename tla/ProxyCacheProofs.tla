------------------------- MODULE ProxyCacheProofs -------------------------
(***************************************************************************)
(* Proofs about ProxyCache, for any number of clients, keys and blocks,    *)
(* any number of stops and failing writes, and file names that several     *)
(* keys share, for their cache files or their .meta files.                 *)
(***************************************************************************)
EXTENDS ProxyCache, FiniteSetTheorems, TLAPS

Threads == \A c \in Clients : ThreadInv(c)
Savers  == \A c \in Clients : SaverInv(c)
Bodies  == \A f \in Names : FileInv(f)
Whole   == stops = 0 => \A f \in files \ Metas : WholeInv(f)

LEMMA Parts6 == CacheInv <=> TypeOK /\ Threads /\ ResolverInv /\ Savers /\ Bodies /\ Whole
  BY DEF CacheInv, Threads, Savers, Bodies, Whole

(* What was fetched stays fetched, and a request stays what it is. *)
Kept == \A d \in Clients :
    /\ fetched[d] = "200" => fetched'[d] = fetched[d]
    /\ request[d].method # "none" => request'[d] = request[d]

(* Nothing changes but for the thread of c. *)
Others(c) == \A d \in Clients \ {c} :
    /\ pc'[d] = pc[d] /\ request'[d] = request[d] /\ response'[d] = response[d]
    /\ fetched'[d] = fetched[d] /\ peer'[d] = peer[d] /\ source'[d] = source[d]

LEMMA FilesOf ==
    ASSUME TypeOK, NEW c \in Clients
    PROVE  /\ FileFor(c) \in Files /\ FileFor(c) \in Names
           /\ MetaFor(c) \in Metas /\ MetaFor(c) \in Names /\ MetaFor(c) # FileFor(c)
  BY MetaOfAssumption DEF TypeOK, FileFor, MetaFor, Files, Metas, Names

LEMMA BlocksType ==
    ASSUME NEW c \in Clients, NEW n \in 0..Parts
    PROVE  /\ Blocks(c, n) \in Seq(Piece) /\ Len(Blocks(c, n)) = n
           /\ \A i \in 1..n : Blocks(c, n)[i] = [from |-> c, part |-> i]
<1> DEFINE s == Blocks(c, n)
<1>1. n \in Nat /\ \A i \in 1..n : i \in 0..Parts
  BY PartsAssumption
<1>2. s = [i \in 1..n |-> [from |-> c, part |-> i]]
  BY DEF Blocks
<1>3. \A i \in 1..n : [from |-> c, part |-> i] \in Piece
  BY <1>1 DEF Piece
<1>4. s \in Seq(Piece)
  BY <1>1, <1>2, <1>3
<1>5. Len(s) = n
  BY <1>1, <1>2
<1> QED BY <1>2, <1>4, <1>5

LEMMA MetaType ==
    ASSUME NEW c \in Clients
    PROVE  Meta(c) \in Piece /\ <<Meta(c)>> \in Seq(Piece) /\ Meta(c).from = c
<1>1. 0 \in 0..Parts
  BY PartsAssumption
<1>2. Meta(c) \in Piece /\ Meta(c).from = c
  BY <1>1 DEF Meta, Piece
<1> QED BY <1>2

(* A piece stays where it belongs. *)
LEMMA BelongsFrame ==
    ASSUME Threads, Kept, NEW p \in Piece, NEW f, Belongs(p, f)
    PROVE  Belongs(p, f)'
<1>1. p.from \in Clients /\ fetched[p.from] = "200"
  BY DEF Piece, Belongs
<1>2. source[p.from] = "origin" /\ request[p.from].method # "none"
  BY <1>1 DEF Threads, ThreadInv
<1> QED BY <1>1, <1>2 DEF Kept, Belongs, FileFor

LEMMA LookedUpFrame ==
    ASSUME Kept, NEW h, NEW k, NEW d, LookedUp(h, k, d)
    PROVE  LookedUp(h, k, d)'
  BY DEF Kept, LookedUp

(* A thread that has not moved keeps what is true of it. *)
LEMMA ThreadFrame ==
    ASSUME TypeOK, Threads, NEW d \in Clients, Kept,
           pc'[d] = pc[d], request'[d] = request[d], response'[d] = response[d],
           fetched'[d] = fetched[d], peer'[d] = peer[d], source'[d] = source[d]
    PROVE  ThreadInv(d)'
<1>1. ThreadInv(d) /\ FileFor(d)' = FileFor(d)
  BY DEF Threads, FileFor
<1>2. ASSUME NEW i \in 1..Len(response[d]), Belongs(response[d][i], FileFor(d))
      PROVE  Belongs(response[d][i], FileFor(d))'
  <2>1. response[d] \in Seq(Piece)
    BY DEF TypeOK
  <2>2. response[d][i] \in Piece
    BY <2>1
  <2>3. PICK p, f : p = response[d][i] /\ f = FileFor(d)
    OBVIOUS
  <2>4. Belongs(p, f)'
    BY <1>2, <2>2, <2>3, BelongsFrame
  <2> QED BY <1>1, <2>3, <2>4 DEF Belongs, FileFor
<1>3. source[d] = "origin" => LookedUp(peer[d], request[d].key, d)'
  BY <1>1, LookedUpFrame DEF ThreadInv
<1> QED BY <1>1, <1>2, <1>3 DEF ThreadInv, Early, Saving, Blocks, LookedUp, Belongs

LEMMA SaverFrame ==
    ASSUME NEW d \in Clients, SaverInv(d), UNCHANGED <<content, lock>>, bad \subseteq bad',
           pc'[d] = pc[d], request'[d] = request[d], response'[d] = response[d]
    PROVE  SaverInv(d)'
  BY DEF SaverInv, Saving, FileFor, Blocks

(* Files that nobody writes keep what is true of them. *)
LEMMA FileFrame ==
    ASSUME TypeOK, Threads, NEW f \in Names, FileInv(f), Kept, content'[f] = content[f]
    PROVE  FileInv(f)'
<1>1. ASSUME NEW i \in 1..Len(content[f])
      PROVE  Belongs(content[f][i], f)'
  <2>1. content[f] \in Seq(Piece)
    BY DEF TypeOK
  <2>2. content[f][i] \in Piece
    BY <2>1
  <2>3. PICK p : p = content[f][i]
    OBVIOUS
  <2>4. Belongs(p, f)'
    BY <2>2, <2>3, BelongsFrame DEF FileInv
  <2> QED BY <2>3, <2>4 DEF Belongs, FileFor
<1> QED BY <1>1 DEF FileInv, OneResponse, OneMeta, Blocks, Meta, Belongs

LEMMA WholeFrame ==
    ASSUME Whole, Threads, UNCHANGED <<files, content, lock, stops>>, bad \subseteq bad',
           \A d \in Clients : source[d] = "origin" =>
               /\ source'[d] = source[d] /\ request'[d] = request[d]
               /\ response'[d] = response[d]
    PROVE  Whole'
  BY DEF Whole, WholeInv, FileFor

LEMMA ResolverFrame ==
    ASSUME ResolverInv, Kept,
           \/ resolved' = resolved /\ \A c \in Clients : pc'[c] = "fetch" => pc[c] = "fetch"
           \/ \E c \in Clients : /\ request[c].method # "none" /\ request[c].key \in Keys
                                 /\ resolved' = HostOf[request[c].key]
    PROVE  ResolverInv'
  BY HostOfAssumption DEF ResolverInv, Kept, Hosts

-----------------------------------------------------------------------------
(* Steps of a thread that does not save. *)

(* Such a step is about that thread alone. *)
LEMMA LocalStep ==
    ASSUME CacheInv, NEW c \in Clients, Others(c), UNCHANGED <<files, content, bad, lock, stops>>,
           source[c] = "origin" =>
               /\ request'[c] = request[c] /\ response'[c] = response[c]
               /\ fetched'[c] = fetched[c] /\ source'[c] = source[c],
           request[c].method # "none" => request'[c] = request[c],
           \/ resolved' = resolved /\ (pc'[c] = "fetch" => pc[c] = "fetch")
           \/ resolved' = HostOf[request[c].key] /\ request[c].method # "none",
           pc[c] \notin Saving, pc'[c] \notin Saving,
           TypeOK', ThreadInv(c)'
    PROVE  CacheInv'
<1>1. TypeOK /\ Threads /\ ResolverInv /\ Savers /\ Bodies /\ Whole
  BY Parts6
<1>2. \A d \in Clients : source[d] = "origin" =>
         /\ request'[d] = request[d] /\ response'[d] = response[d]
         /\ fetched'[d] = fetched[d] /\ source'[d] = source[d]
  BY DEF Others
<1>3. Kept
  BY <1>1, <1>2 DEF Kept, Others, Threads, ThreadInv
<1>4. Threads'
  <2>1. \A d \in Clients \ {c} : ThreadInv(d)'
    BY <1>1, <1>3, ThreadFrame DEF Others
  <2> QED BY <2>1 DEF Threads
<1>5. Savers'
  <2>1. ASSUME NEW d \in Clients PROVE SaverInv(d)'
    <3>1. CASE d = c
      <4>1. lock' # c /\ pc'[c] # "writeMeta"
        BY <1>1 DEF Savers, SaverInv, Saving
      <4> QED BY <3>1, <4>1 DEF SaverInv
    <3>2. CASE d # c
      BY <1>1, <3>2, SaverFrame DEF Savers, Others
    <3> QED BY <3>1, <3>2
  <2> QED BY <2>1 DEF Savers
<1>6. Bodies'
  BY <1>1, <1>3, FileFrame DEF Bodies, Names
<1>7. Whole'
  BY <1>1, <1>2, WholeFrame
<1>8. ResolverInv'
  <2>1. request[c].key \in Keys
    BY <1>1 DEF TypeOK
  <2> QED BY <1>1, <1>3, <2>1, ResolverFrame DEF Others
<1> QED BY <1>4, <1>5, <1>6, <1>7, <1>8, Parts6 DEF CacheInv, Threads, Savers, Bodies, Whole

LEMMA StatsType ==
    ASSUME TypeOK, NEW hit \in BOOLEAN, NEW error \in BOOLEAN
    PROVE  Counted(stats, hit, error) \in [total : Nat, hits : Nat, misses : Nat, errors : Nat]
  BY DEF TypeOK, Counted

(* Steps that get or send nothing. *)
LEMMA PlainSteps ==
    ASSUME CacheInv, NEW c \in Clients,
           \/ NoRequest(c) \/ Refuse(c) \/ IsCached(c) \/ GetCacheEntry(c)
           \/ SendResponse(c) \/ Accept(c)
    PROVE  CacheInv'
<1>1. TypeOK /\ ThreadInv(c)
  BY DEF CacheInv
<1>2. /\ UNCHANGED <<request, response, fetched, peer, resolved, files, content, bad, lock, stops>>
      /\ \E place \in Places : pc' = [pc EXCEPT ![c] = place]
  BY DEF NoRequest, Refuse, IsCached, GetCacheEntry, SendResponse, Accept, Go,
         cacheVars, fetchVars, Places
<1>3. \/ source' = source
      \/ pc[c] \in Early /\ pc'[c] = "send" /\ source' = [source EXCEPT ![c] = "error"]
  BY <1>1 DEF NoRequest, Refuse, IsCached, GetCacheEntry, SendResponse, Accept, Go,
         Early, TypeOK
<1>4. stats' \in [total : Nat, hits : Nat, misses : Nat, errors : Nat]
  <2>1. stats' \in {stats, Counted(stats, FALSE, FALSE), Counted(stats, FALSE, TRUE)}
    BY DEF NoRequest, Refuse, IsCached, GetCacheEntry, SendResponse, Accept
  <2> QED BY <1>1, <2>1, StatsType DEF TypeOK
<1>5. TypeOK'
  <2>1. pc' \in [Clients -> Places]
    BY <1>1, <1>2 DEF TypeOK
  <2>2. source' \in [Clients -> Sources]
    BY <1>1, <1>3 DEF TypeOK, Sources
  <2> QED BY <1>1, <1>2, <1>4, <2>1, <2>2 DEF TypeOK, Names, Hosts
<1>6. /\ pc[c] \notin Saving \cup {"lock"} /\ pc'[c] \notin Saving \cup {"lock", "fetch"}
      /\ pc'[c] \in Early => pc[c] \in Early /\ source' = source
      /\ pc'[c] \in {"away", "accepted"} => pc[c] = "away"
      /\ pc'[c] \in Early \ {"away", "accepted"} => pc[c] \in Early \ {"away", "accepted"}
  BY <1>1 DEF NoRequest, Refuse, IsCached, GetCacheEntry, SendResponse, Accept, Go,
         Early, Saving, TypeOK
<1>7. ThreadInv(c)'
  <2>1. CASE source' = source
    BY <1>1, <1>2, <1>6, <2>1
       DEF ThreadInv, Belongs, LookedUp, FileFor, Blocks, Early, Saving
  <2>2. CASE /\ pc[c] \in Early /\ pc'[c] = "send"
             /\ source' = [source EXCEPT ![c] = "error"]
    <3>1. source[c] = "none" /\ source'[c] = "error" /\ fetched[c] = "none"
      BY <1>1, <2>2 DEF ThreadInv, TypeOK
    <3> QED BY <1>1, <1>2, <2>2, <3>1 DEF ThreadInv, Belongs, FileFor, Early, Saving
  <2> QED BY <1>3, <2>1, <2>2
<1>8. Others(c)
  BY <1>1, <1>2, <1>3 DEF Others, TypeOK
<1>9. source[c] = "origin" => source'[c] = source[c]
  BY <1>1, <1>3 DEF ThreadInv
<1> QED BY <1>2, <1>5, <1>6, <1>7, <1>8, <1>9, LocalStep

LEMMA ParseStep == ASSUME CacheInv, NEW c \in Clients, Parse(c) PROVE CacheInv'
<1>1. TypeOK /\ ThreadInv(c)
  BY DEF CacheInv
<1>2. PICK m \in Methods, k \in Keys :
         /\ request' = [request EXCEPT ![c] = [method |-> m, key |-> k]]
         /\ pc' = [pc EXCEPT ![c] = IF m = "GET" THEN "isCached" ELSE "miss"]
  BY DEF Parse, Go
<1>3. /\ pc[c] = "accepted" /\ pc'[c] \in {"isCached", "miss"}
      /\ UNCHANGED <<response, fetched, peer, resolved, source, files, content, bad, lock, stops>>
  BY <1>1, <1>2 DEF Parse, cacheVars, fetchVars, TypeOK
<1>4. stats' \in [total : Nat, hits : Nat, misses : Nat, errors : Nat]
  BY <1>1, StatsType DEF Parse
<1>5. TypeOK'
  BY <1>1, <1>2, <1>3, <1>4 DEF TypeOK, Places, Names, Hosts
<1>6. /\ source[c] = "none" /\ response[c] = <<>> /\ fetched[c] = "none"
      /\ request[c].method = "none" /\ request'[c].method # "none"
  BY <1>1, <1>2, <1>3, MethodsAssumption DEF ThreadInv, Early, TypeOK
<1>7. ThreadInv(c)'
  BY <1>3, <1>6 DEF ThreadInv, Early, Saving
<1>8. Others(c)
  BY <1>1, <1>2, <1>3 DEF Others, TypeOK
<1>9. pc[c] \notin Saving /\ pc'[c] \notin Saving /\ pc'[c] # "fetch"
  BY <1>3 DEF Saving
<1> QED BY <1>3, <1>5, <1>6, <1>7, <1>8, <1>9, LocalStep

LEMMA MissStep == ASSUME CacheInv, NEW c \in Clients, Miss(c) PROVE CacheInv'
<1>1. TypeOK /\ ThreadInv(c) /\ request[c].key \in Keys
  BY DEF CacheInv, TypeOK
<1>2. /\ pc[c] = "miss" /\ source[c] = "none" /\ fetched[c] = "none"
      /\ request[c].method # "none"
      /\ UNCHANGED <<request, response, fetched, peer, files, content, bad, lock, stops>>
      /\ stats' = Counted(stats, FALSE, FALSE)
  BY <1>1 DEF Miss, ThreadInv, Early, cacheVars, TypeOK
<1>3. \/ /\ pc' = [pc EXCEPT ![c] = "fetch"] /\ source' = source
         /\ resolved' = HostOf[request[c].key]
      \/ /\ pc' = [pc EXCEPT ![c] = "send"] /\ source' = [source EXCEPT ![c] = "error"]
         /\ resolved' = resolved
  BY DEF Miss, Go
<1>4. /\ pc' \in [Clients -> Places] /\ source' \in [Clients -> Sources]
      /\ Others(c) /\ resolved' \in Hosts \cup {"none"}
      /\ \/ /\ pc'[c] = "fetch" /\ source'[c] = "none"
            /\ resolved' = HostOf[request[c].key]
         \/ pc'[c] = "send" /\ source'[c] = "error" /\ resolved' = resolved
  <2>1. CASE /\ pc' = [pc EXCEPT ![c] = "fetch"] /\ source' = source
             /\ resolved' = HostOf[request[c].key]
    BY <1>1, <1>2, <2>1 DEF TypeOK, Places, Sources, Hosts, Others
  <2>2. CASE /\ pc' = [pc EXCEPT ![c] = "send"] /\ source' = [source EXCEPT ![c] = "error"]
             /\ resolved' = resolved
    BY <1>1, <1>2, <2>2 DEF TypeOK, Places, Sources, Hosts, Others
  <2> QED BY <1>3, <2>1, <2>2
<1>5. stats' \in [total : Nat, hits : Nat, misses : Nat, errors : Nat]
  BY <1>1, <1>2, StatsType
<1>6. TypeOK'
  BY <1>1, <1>2, <1>4, <1>5 DEF TypeOK, Names, Hosts
<1>7. ThreadInv(c)'
  BY <1>1, <1>2, <1>4 DEF ThreadInv, Belongs, FileFor, Early, Saving
<1>8. pc[c] \notin Saving /\ pc'[c] \notin Saving
  BY <1>2, <1>4 DEF Saving
<1> QED BY <1>2, <1>4, <1>6, <1>7, <1>8, LocalStep

(* A block of the file is what its last holder has fetched for it. *)
LEMMA ReadBlockStep == ASSUME CacheInv, NEW c \in Clients, ReadBlock(c) PROVE CacheInv'
<1> DEFINE file == content[FileFor(c)]
           next == Len(response[c]) + 1
<1>1. TypeOK /\ ThreadInv(c) /\ FileFor(c) \in Names /\ FileInv(FileFor(c))
  BY FilesOf DEF CacheInv
<1>2. /\ pc[c] = "read" /\ source[c] = "none" /\ fetched[c] = "none"
      /\ request[c].method # "none"
      /\ UNCHANGED <<request, fetched, peer, resolved, files, content, bad, lock, stops>>
  BY <1>1 DEF ReadBlock, ThreadInv, Early, cacheVars, fetchVars, TypeOK
<1>3. CASE /\ next <= Len(file) /\ UNCHANGED <<pc, source, stats>>
           /\ response' = [response EXCEPT ![c] = Append(@, file[next])]
  <2>1. file \in Seq(Piece) /\ response[c] \in Seq(Piece) /\ next \in 1..Len(file)
    BY <1>1, <1>3 DEF TypeOK
  <2>2. file[next] \in Piece /\ Belongs(file[next], FileFor(c))
    BY <1>1, <2>1 DEF FileInv
  <2>3. response'[c] = Append(response[c], file[next])
    BY <1>1, <1>3 DEF TypeOK
  <2>4. response' \in [Clients -> Seq(Piece)]
    BY <1>1, <1>3, <2>1, <2>2 DEF TypeOK
  <2>5. TypeOK'
    BY <1>1, <1>2, <1>3, <2>4 DEF TypeOK, Names, Hosts
  <2>6. ASSUME NEW i \in 1..Len(response'[c])
        PROVE  Belongs(response'[c][i], FileFor(c))
    <3>1. CASE i \in 1..Len(response[c])
      <4>1. response'[c][i] = response[c][i]
        BY <2>1, <2>2, <2>3, <3>1
      <4>2. Belongs(response[c][i], FileFor(c))
        BY <1>1, <1>2, <3>1 DEF ThreadInv
      <4> QED BY <4>1, <4>2 DEF Belongs
    <3>2. CASE i = next
      <4>1. response'[c][i] = file[next]
        BY <2>1, <2>2, <2>3, <3>2
      <4> QED BY <2>2, <4>1 DEF Belongs
    <3> QED BY <2>1, <2>2, <2>3, <3>1, <3>2
  <2>7. ThreadInv(c)'
    BY <1>1, <1>2, <1>3, <2>6 DEF ThreadInv, Belongs, FileFor, Early, Saving
  <2>8. Others(c)
    BY <1>1, <1>2, <1>3 DEF Others, TypeOK
  <2>9. pc[c] \notin Saving /\ pc'[c] \notin Saving /\ pc'[c] # "fetch"
    BY <1>2, <1>3 DEF Saving
  <2> QED BY <1>2, <2>5, <2>7, <2>8, <2>9, LocalStep
<1>4. CASE /\ UNCHANGED response /\ pc' = [pc EXCEPT ![c] = "send"]
           /\ source' = [source EXCEPT ![c] = "cache"] /\ stats' = Counted(stats, TRUE, FALSE)
  <2>1. pc'[c] = "send" /\ source'[c] = "cache"
    BY <1>1, <1>4 DEF TypeOK
  <2>2. TypeOK'
    BY <1>1, <1>2, <1>4, StatsType DEF TypeOK, Places, Sources, Names, Hosts
  <2>3. ThreadInv(c)'
    BY <1>1, <1>2, <1>4, <2>1 DEF ThreadInv, Belongs, FileFor, Early, Saving
  <2>4. Others(c)
    BY <1>1, <1>2, <1>4 DEF Others, TypeOK
  <2>5. pc[c] \notin Saving /\ pc'[c] \notin Saving /\ pc'[c] # "fetch"
    BY <1>2, <2>1 DEF Saving
  <2> QED BY <1>2, <2>2, <2>3, <2>4, <2>5, LocalStep
<1> QED BY <1>3, <1>4 DEF ReadBlock, Go

(* A host that some thread has looked up is the thread's own, or another's. *)
LEMMA HostsOf ==
    ASSUME CacheInv, NEW c \in Clients, pc[c] = "fetch",
           NEW h \in {resolved, HostOf[request[c].key]}
    PROVE  h \in Hosts /\ LookedUp(h, request[c].key, c)
<1>1. TypeOK /\ ResolverInv /\ resolved # "none" /\ request[c].key \in Keys
  BY DEF CacheInv, ResolverInv, TypeOK
<1>2. PICK e \in Clients : request[e].method # "none" /\ HostOf[request[e].key] = resolved
  BY <1>1 DEF ResolverInv
<1>3. request[e].key \in Keys
  BY <1>1 DEF TypeOK
<1> QED BY <1>1, <1>2, <1>3 DEF LookedUp, Hosts

LEMMA FetchStep == ASSUME CacheInv, NEW c \in Clients, Fetch(c) PROVE CacheInv'
<1>1. TypeOK /\ ThreadInv(c)
  BY DEF CacheInv
<1>2. /\ pc[c] = "fetch" /\ source[c] = "none" /\ fetched[c] = "none"
      /\ request[c].method # "none"
      /\ UNCHANGED <<request, resolved, files, content, bad, lock, stats, stops>>
  BY <1>1 DEF Fetch, ThreadInv, Early, cacheVars, TypeOK
<1>3. CASE /\ \E status \in {"200", "404"}, n \in (IF MayBreak THEN 1..Parts ELSE {Parts}) :
                /\ response' = [response EXCEPT ![c] = Blocks(c, n)]
                /\ fetched' = [fetched EXCEPT ![c] = status]
                /\ Go(c, IF ShouldCache(status) THEN "lock" ELSE "send")
           /\ \E h \in {resolved, HostOf[request[c].key]} : peer' = [peer EXCEPT ![c] = h]
           /\ source' = [source EXCEPT ![c] = "origin"]
  <2>1. PICK status \in {"200", "404"}, n \in (IF MayBreak THEN 1..Parts ELSE {Parts}) :
                /\ response' = [response EXCEPT ![c] = Blocks(c, n)]
                /\ fetched' = [fetched EXCEPT ![c] = status]
                /\ Go(c, IF ShouldCache(status) THEN "lock" ELSE "send")
    BY <1>3
  <2>2. n \in 0..Parts
    BY PartsAssumption
  <2>3. Blocks(c, n) \in Seq(Piece) /\ Len(Blocks(c, n)) = n
    BY <2>2, BlocksType
  <2>4. /\ response'[c] = Blocks(c, n) /\ fetched'[c] = status /\ source'[c] = "origin"
        /\ pc' = [pc EXCEPT ![c] = IF ShouldCache(status) THEN "lock" ELSE "send"]
        /\ pc'[c] = "send" \/ (pc'[c] = "lock" /\ status = "200")
    BY <1>1, <1>3, <2>1 DEF TypeOK, Go, ShouldCache
  <2>5. response' \in [Clients -> Seq(Piece)]
    BY <1>1, <2>1, <2>3 DEF TypeOK
  <2>6. PICK h \in {resolved, HostOf[request[c].key]} : peer' = [peer EXCEPT ![c] = h]
    BY <1>3
  <2>7. h \in Hosts /\ LookedUp(h, request[c].key, c)
    BY <1>2, HostsOf
  <2>8. peer' \in [Clients -> Hosts \cup {"none"}] /\ peer'[c] = h
    BY <1>1, <2>6, <2>7 DEF TypeOK
  <2>9. TypeOK'
    <3>1. pc' \in [Clients -> Places]
      BY <1>1, <2>4 DEF TypeOK, Places
    <3>2. fetched' \in [Clients -> Statuses] /\ source' \in [Clients -> Sources]
      BY <1>1, <1>3, <2>1 DEF TypeOK, Statuses, Sources
    <3> QED BY <1>1, <1>2, <2>5, <2>8, <3>1, <3>2 DEF TypeOK, Names, Hosts
  <2>10. response'[c] = Blocks(c, Len(response'[c]))
    BY <2>3, <2>4
  <2>11. LookedUp(peer[c], request[c].key, c)'
    BY <1>2, <2>7, <2>8 DEF LookedUp
  <2>12. ThreadInv(c)'
    BY <1>2, <2>4, <2>10, <2>11 DEF ThreadInv, Early, Saving, Blocks
  <2>13. Others(c)
    BY <1>1, <1>2, <1>3, <2>1, <2>4, <2>6 DEF Others, TypeOK
  <2>14. pc[c] \notin Saving /\ pc'[c] \notin Saving
    BY <1>2, <2>4 DEF Saving
  <2> QED BY <1>2, <2>9, <2>12, <2>13, <2>14, LocalStep
<1>4. CASE /\ source' = [source EXCEPT ![c] = "error"] /\ pc' = [pc EXCEPT ![c] = "send"]
           /\ UNCHANGED <<response, fetched, peer>>
  <2>1. pc'[c] = "send" /\ source'[c] = "error"
    BY <1>1, <1>4 DEF TypeOK
  <2>2. TypeOK'
    BY <1>1, <1>2, <1>4 DEF TypeOK, Places, Sources, Names, Hosts
  <2>3. ThreadInv(c)'
    BY <1>1, <1>2, <1>4, <2>1 DEF ThreadInv, Belongs, FileFor, Early, Saving
  <2>4. Others(c)
    BY <1>1, <1>2, <1>4 DEF Others, TypeOK
  <2>5. pc[c] \notin Saving /\ pc'[c] \notin Saving
    BY <1>2, <2>1 DEF Saving
  <2> QED BY <1>2, <2>2, <2>3, <2>4, <2>5, LocalStep
<1> QED BY <1>3, <1>4 DEF Fetch, Go

-----------------------------------------------------------------------------
(* Steps of saveToCache. *)

LEMMA OwnBlocks ==
    ASSUME NEW c \in Clients, NEW s, Len(s) \in Nat, s = Blocks(c, Len(s))
    PROVE  OneResponse(s) /\ \A i \in 1..Len(s) : s[i].from = c /\ s[i].part # 0
<1>1. s = [i \in 1..Len(s) |-> [from |-> c, part |-> i]]
  BY DEF Blocks
<1> QED BY <1>1 DEF OneResponse

(* A thread with what it has fetched, and the mutex or the hope of it,     *)
(* writes to its own two files and leaves with all of it written, or with  *)
(* a stream that has failed.                                               *)
LEMMA SaveStep ==
    ASSUME CacheInv, NEW c \in Clients, pc[c] \in Saving \cup {"lock"}, lock \in {c, Nobody},
           UNCHANGED <<request, response, fetched, peer, source, resolved, stops>>,
           TypeOK', Others(c), pc'[c] \in Saving \cup {"send"}, SaverInv(c)', bad \subseteq bad',
           files' \subseteq files \cup {FileFor(c), MetaFor(c)},
           \A f \in Names \ {FileFor(c), MetaFor(c)} : content'[f] = content[f],
           content'[FileFor(c)] = Blocks(c, Len(content'[FileFor(c)])),
           content'[MetaFor(c)] \in {content[MetaFor(c)], <<>>, <<Meta(c)>>},
           \/ lock' = c
           \/ lock' = Nobody /\ (content'[FileFor(c)] = response[c] \/ c \in bad')
    PROVE  CacheInv'
<1>1. TypeOK /\ Threads /\ ResolverInv /\ Savers /\ Bodies /\ Whole
  BY Parts6
<1>2. Kept
  BY DEF Kept
<1>3. /\ fetched[c] = "200" /\ source[c] = "origin"
      /\ FileFor(c) \in Names /\ MetaFor(c) \in Names /\ MetaFor(c) \in Metas
      /\ MetaFor(c) # FileFor(c)
  BY <1>1, FilesOf DEF Threads, ThreadInv
<1>4. Threads'
  <2>1. \A d \in Clients \ {c} : ThreadInv(d)'
    BY <1>1, <1>2, ThreadFrame DEF Others
  <2>2. ThreadInv(c) /\ pc'[c] \notin Early
    BY <1>1 DEF Threads, Saving, Early
  <2>3. ThreadInv(c)'
    BY <1>3, <2>2 DEF ThreadInv, Early, Saving, Blocks, LookedUp
  <2> QED BY <2>1, <2>3 DEF Threads
<1>5. Savers'
  <2>1. ASSUME NEW d \in Clients \ {c} PROVE SaverInv(d)'
    <3>1. lock # d /\ lock' # d
      BY ClientsAssumption DEF Nobody
    <3>2. pc'[d] \notin Saving
      BY <1>1, <3>1 DEF Savers, SaverInv, Others
    <3> QED BY <3>1, <3>2 DEF SaverInv, Saving
  <2> QED BY <2>1 DEF Savers
<1>6. Bodies'
  <2>1. ASSUME NEW f \in Names \ {FileFor(c), MetaFor(c)} PROVE FileInv(f)'
    BY <1>1, <1>2, FileFrame DEF Bodies
  <2>2. ASSUME NEW f \in Names, f = FileFor(c) PROVE FileInv(f)'
    <3>1. content'[f] = Blocks(c, Len(content'[f])) /\ Len(content'[f]) \in Nat
      BY <2>2 DEF TypeOK
    <3>2. /\ OneResponse(content'[f])
          /\ \A i \in 1..Len(content'[f]) : content'[f][i].from = c /\ content'[f][i].part # 0
      BY <3>1, OwnBlocks
    <3>3. fetched'[c] = "200" /\ FileFor(c)' = f
      BY <1>3, <2>2 DEF FileFor
    <3>4. \A i \in 1..Len(content'[f]) : Belongs(content[f][i], f)'
      BY <3>2, <3>3 DEF Belongs
    <3> QED BY <3>2, <3>4 DEF FileInv, OneResponse, Blocks
  <2>3. ASSUME NEW f \in Names, f = MetaFor(c) PROVE FileInv(f)'
    <3>1. CASE content'[f] = content[f]
      BY <1>1, <1>2, <3>1, FileFrame DEF Bodies
    <3>2. CASE content'[f] = <<>>
      BY <3>2 DEF FileInv, OneMeta
    <3>3. CASE content'[f] = <<Meta(c)>>
      <4>1. Len(content'[f]) = 1 /\ content'[f][1] = Meta(c) /\ Meta(c).from = c
        BY <3>3, MetaType
      <4>2. fetched'[c] = "200" /\ f \in Metas
        BY <1>3, <2>3
      <4>3. \A i \in 1..Len(content'[f]) : Belongs(content[f][i], f)'
        BY <4>1, <4>2 DEF Belongs
      <4>4. OneMeta(content[f])'
        BY <3>3 DEF OneMeta, Meta
      <4> QED BY <4>3, <4>4 DEF FileInv
    <3> QED BY <2>3, <3>1, <3>2, <3>3
  <2> QED BY <2>1, <2>2, <2>3 DEF Bodies, Names
<1>7. Whole'
  <2> SUFFICES ASSUME stops = 0, NEW f \in files' \ Metas PROVE WholeInv(f)'
    BY DEF Whole, Metas, Files
  <2>1. CASE f = FileFor(c)
    BY <1>3, <2>1 DEF WholeInv, FileFor
  <2>2. CASE f # FileFor(c)
    <3>1. f \in files \ Metas /\ f \in Names /\ f # MetaFor(c)
      BY <1>3, <2>2 DEF TypeOK, Names
    <3>2. PICK e \in Clients : /\ FileFor(e) = f /\ source[e] = "origin"
                               /\ lock = e \/ content[f] = response[e] \/ e \in bad
      BY <1>1, <3>1 DEF Whole, WholeInv
    <3>3. lock # e
      <4>1. e # c
        BY <2>2, <3>2
      <4>2. e # Nobody
        BY ClientsAssumption DEF Nobody
      <4> QED BY <4>1, <4>2
    <3>4. content'[f] = response'[e] \/ e \in bad'
      BY <2>2, <3>1, <3>2, <3>3
    <3>5. FileFor(e)' = f /\ source'[e] = "origin"
      BY <3>2 DEF FileFor
    <3> QED BY <3>4, <3>5 DEF WholeInv
  <2> QED BY <2>1, <2>2
<1>8. ResolverInv'
  <2>1. \A d \in Clients : pc'[d] = "fetch" => pc[d] = "fetch"
    BY DEF Others, Saving
  <2> QED BY <1>1, <1>2, <2>1, ResolverFrame
<1> QED BY <1>4, <1>5, <1>6, <1>7, <1>8 DEF CacheInv, Threads, Savers, Bodies, Whole

LEMMA NoBlocks == ASSUME NEW c \in Clients PROVE Blocks(c, 0) = <<>>
  BY DEF Blocks

LEMMA SaveOpenStep == ASSUME CacheInv, NEW c \in Clients, SaveOpen(c) PROVE CacheInv'
<1>1. /\ TypeOK /\ ThreadInv(c) /\ FileFor(c) \in Names /\ MetaFor(c) \in Names
      /\ MetaFor(c) # FileFor(c)
  BY FilesOf DEF CacheInv
<1>2. /\ pc[c] = "lock" /\ lock = Nobody
      /\ UNCHANGED <<request, response, fetched, peer, source, resolved, bad, stats, stops>>
  BY DEF SaveOpen, MayLock, fetchVars
<1>3. CASE /\ lock' = c /\ files' = files \cup {FileFor(c)} /\ pc' = [pc EXCEPT ![c] = "write"]
           /\ content' = [content EXCEPT ![FileFor(c)] = <<>>]
  <2>1. /\ pc'[c] = "write" /\ content'[FileFor(c)] = <<>>
        /\ \A f \in Names \ {FileFor(c)} : content'[f] = content[f]
    BY <1>1, <1>3 DEF TypeOK
  <2>2. content' \in [Names -> Seq(Piece)]
    <3>1. <<>> \in Seq(Piece)
      OBVIOUS
    <3> QED BY <1>1, <1>3, <3>1 DEF TypeOK
  <2>3. TypeOK'
    BY <1>1, <1>2, <1>3, <2>2 DEF TypeOK, Places, Names, Hosts
  <2>4. Len(content'[FileFor(c)]) = 0 /\ Len(response[c]) \in Nat
    BY <1>1, <2>1 DEF TypeOK
  <2>5. content'[FileFor(c)] = Blocks(c, Len(content'[FileFor(c)]))
    BY <2>1, <2>4, NoBlocks
  <2>6. FileFor(c)' = FileFor(c)
    BY <1>2 DEF FileFor
  <2>7. SaverInv(c)'
    BY <1>2, <1>3, <2>1, <2>4, <2>5, <2>6 DEF SaverInv, Saving, Blocks
  <2>8. Others(c)
    BY <1>1, <1>2, <1>3 DEF Others, TypeOK
  <2>9. pc[c] \in Saving \cup {"lock"} /\ pc'[c] \in Saving \cup {"send"}
    BY <1>2, <2>1 DEF Saving
  <2>10. content'[MetaFor(c)] = content[MetaFor(c)]
    BY <1>1, <2>1
  <2> QED BY <1>2, <1>3, <2>1, <2>3, <2>5, <2>7, <2>8, <2>9, <2>10, SaveStep
<1>4. CASE pc' = [pc EXCEPT ![c] = "send"] /\ UNCHANGED <<lock, files, content>>
  <2>1. pc'[c] = "send"
    BY <1>1, <1>4 DEF TypeOK
  <2>2. TypeOK'
    BY <1>1, <1>2, <1>4 DEF TypeOK, Places, Names, Hosts
  <2>3. ThreadInv(c)'
    BY <1>1, <1>2, <1>4, <2>1
       DEF ThreadInv, Belongs, LookedUp, FileFor, Blocks, Early, Saving
  <2>4. Others(c)
    BY <1>1, <1>2, <1>4 DEF Others, TypeOK
  <2>5. pc[c] \notin Saving /\ pc'[c] \notin Saving /\ pc'[c] # "fetch"
    BY <1>2, <2>1 DEF Saving
  <2> QED BY <1>2, <1>4, <2>2, <2>3, <2>4, <2>5, LocalStep
<1> QED BY <1>3, <1>4 DEF SaveOpen, Go

(* What a thread that saves has, and has written. *)
LEMMA Saver ==
    ASSUME CacheInv, NEW c \in Clients, pc[c] \in Saving
    PROVE  /\ TypeOK /\ lock = c
           /\ FileFor(c) \in Names /\ MetaFor(c) \in Names /\ MetaFor(c) # FileFor(c)
           /\ content[FileFor(c)] \in Seq(Piece) /\ response[c] \in Seq(Piece)
           /\ content[FileFor(c)] = Blocks(c, Len(content[FileFor(c)]))
           /\ response[c] = Blocks(c, Len(response[c]))
           /\ Len(content[FileFor(c)]) <= Len(response[c])
           /\ pc[c] = "writeMeta" =>
                 c \in bad \/ Len(content[FileFor(c)]) = Len(response[c])
  BY FilesOf DEF CacheInv, SaverInv, ThreadInv, TypeOK

LEMMA SaveBlockStep == ASSUME CacheInv, NEW c \in Clients, SaveBlock(c) PROVE CacheInv'
<1> DEFINE f == FileFor(c)
           n == Len(content[f])
<1>1. /\ pc[c] = "write" /\ ~(n >= Len(response[c]))
      /\ UNCHANGED <<pc, request, response, fetched, peer, source, resolved, files, lock, stats, stops>>
  BY DEF SaveBlock, Written, fetchVars
<1>2. /\ TypeOK /\ lock = c /\ f \in Names /\ MetaFor(c) \in Names /\ MetaFor(c) # f
      /\ content[f] \in Seq(Piece) /\ response[c] \in Seq(Piece)
      /\ content[f] = Blocks(c, n) /\ response[c] = Blocks(c, Len(response[c]))
  BY <1>1, Saver DEF Saving
<1>3. n \in Nat /\ Len(response[c]) \in Nat /\ n + 1 \in 1..Len(response[c])
  BY <1>1, <1>2
<1>4. FileFor(c)' = f /\ Others(c)
  BY <1>1 DEF FileFor, Others
<1>5. pc[c] \in Saving \cup {"lock"} /\ pc'[c] \in Saving \cup {"send"}
  BY <1>1 DEF Saving
<1>6. CASE content' = [content EXCEPT ![f] = Append(@, response[c][Len(@) + 1])] /\ bad' = bad
  <2>1. response[c][n + 1] = [from |-> c, part |-> n + 1] /\ response[c][n + 1] \in Piece
    <3>1. response[c][n + 1] \in Piece
      BY <1>2, <1>3
    <3>2. response[c] = [i \in 1..Len(response[c]) |-> [from |-> c, part |-> i]]
      BY <1>2 DEF Blocks
    <3> QED BY <1>3, <3>1, <3>2
  <2>2. /\ content'[f] = Append(content[f], [from |-> c, part |-> n + 1])
        /\ \A g \in Names \ {f} : content'[g] = content[g]
    BY <1>2, <1>6, <2>1 DEF TypeOK
  <2>3. content'[f] \in Seq(Piece) /\ Len(content'[f]) = n + 1
    BY <1>2, <2>1, <2>2
  <2>4. content'[f] = Blocks(c, n + 1)
    <3>1. ASSUME NEW i \in 1..(n + 1) PROVE content'[f][i] = [from |-> c, part |-> i]
      <4>1. CASE i \in 1..n
        <5>1. content[f][i] = [from |-> c, part |-> i]
          BY <1>2, <4>1 DEF Blocks
        <5> QED BY <1>2, <2>1, <2>2, <4>1, <5>1
      <4>2. CASE i = n + 1
        BY <1>2, <2>1, <2>2, <4>2
      <4> QED BY <1>3, <4>1, <4>2
    <3>2. content'[f] = [i \in 1..(n + 1) |-> content'[f][i]]
      BY <2>3
    <3> QED BY <3>1, <3>2 DEF Blocks
  <2>5. content' \in [Names -> Seq(Piece)]
    <3>1. content' = [content EXCEPT ![f] = content'[f]]
      BY <1>2, <1>6 DEF TypeOK
    <3> QED BY <1>2, <2>3, <3>1 DEF TypeOK
  <2>6. TypeOK'
    BY <1>1, <1>2, <1>6, <2>5 DEF TypeOK, Names, Hosts
  <2>7. SaverInv(c)'
    BY <1>1, <1>2, <1>3, <1>4, <2>3, <2>4 DEF SaverInv, Saving, Blocks
  <2>8. content'[MetaFor(c)] = content[MetaFor(c)]
    BY <1>2, <2>2
  <2> QED BY <1>1, <1>2, <1>4, <1>5, <1>6, <2>2, <2>3, <2>4, <2>6, <2>7, <2>8, SaveStep
<1>7. CASE bad' = bad \cup {c} /\ content' = content
  <2>1. TypeOK'
    BY <1>1, <1>2, <1>7 DEF TypeOK, Names, Hosts
  <2>2. SaverInv(c)'
    <3>1. Len(content[f]) <= Len(response[c])
      BY <1>1, Saver DEF Saving
    <3> QED BY <1>1, <1>2, <1>4, <1>7, <3>1 DEF SaverInv, Saving, Blocks
  <2> QED BY <1>1, <1>2, <1>4, <1>5, <1>7, <2>1, <2>2, SaveStep
<1> QED BY <1>6, <1>7 DEF SaveBlock

(* The end of the body, and the .meta file. *)
LEMMA SaveMetaSteps ==
    ASSUME CacheInv, NEW c \in Clients, SaveOpenMeta(c) \/ SaveMeta(c)
    PROVE  CacheInv'
<1> DEFINE f == FileFor(c)
           g == MetaFor(c)
<1>1. /\ pc[c] \in Saving
      /\ UNCHANGED <<request, response, fetched, peer, source, resolved, bad, stats, stops>>
      /\ Len(content[f]) >= Len(response[c]) \/ c \in bad \/ pc[c] = "writeMeta"
      /\ \/ lock' = lock /\ pc' = [pc EXCEPT ![c] = "writeMeta"]
         \/ lock' = Nobody /\ pc' = [pc EXCEPT ![c] = "send"]
      /\ files' = files \/ files' = files \cup {g}
      /\ \/ content' = content
         \/ content' = [content EXCEPT ![g] = <<>>]
         \/ content' = [content EXCEPT ![g] = <<Meta(c)>>]
  BY DEF SaveOpenMeta, SaveMeta, Go, Written, ReleasedBy, Saving, fetchVars
<1>2. /\ TypeOK /\ lock = c /\ f \in Names /\ g \in Names /\ f # g
      /\ content[f] \in Seq(Piece) /\ response[c] \in Seq(Piece)
      /\ content[f] = Blocks(c, Len(content[f])) /\ response[c] = Blocks(c, Len(response[c]))
      /\ Len(content[f]) <= Len(response[c])
      /\ Len(content[f]) = Len(response[c]) \/ c \in bad
  BY <1>1, Saver
<1>3. content[f] = response[c] \/ c \in bad
  BY <1>2
<1>4. c # Nobody
  BY ClientsAssumption DEF Nobody
<1>5. /\ \/ lock' = c /\ pc'[c] = "writeMeta"
         \/ lock' = Nobody /\ pc'[c] = "send"
      /\ Others(c) /\ pc' \in [Clients -> Places]
  <2>1. CASE lock' = lock /\ pc' = [pc EXCEPT ![c] = "writeMeta"]
    BY <1>1, <1>2, <2>1 DEF Others, TypeOK, Places
  <2>2. CASE lock' = Nobody /\ pc' = [pc EXCEPT ![c] = "send"]
    BY <1>1, <1>2, <2>2 DEF Others, TypeOK, Places
  <2> QED BY <1>1, <2>1, <2>2
<1>6. /\ content' \in [Names -> Seq(Piece)]
      /\ \A h \in Names \ {g} : content'[h] = content[h]
      /\ content'[g] \in {content[g], <<>>, <<Meta(c)>>}
  <2>1. <<>> \in Seq(Piece) /\ <<Meta(c)>> \in Seq(Piece)
    BY MetaType
  <2>2. content \in [Names -> Seq(Piece)]
    BY <1>2 DEF TypeOK
  <2>3. PICK x \in Seq(Piece) : /\ content' = [content EXCEPT ![g] = x]
                                /\ x \in {content[g], <<>>, <<Meta(c)>>}
    <3>1. content = [content EXCEPT ![g] = content[g]] /\ content[g] \in Seq(Piece)
      BY <1>2, <2>2
    <3> QED BY <1>1, <2>1, <3>1
  <2> QED BY <1>2, <2>2, <2>3
<1>7. TypeOK'
  <2>1. files' \subseteq Names
    BY <1>1, <1>2 DEF TypeOK
  <2> QED BY <1>1, <1>2, <1>5, <1>6, <2>1 DEF TypeOK, Names, Hosts
<1>8. FileFor(c)' = f /\ content'[f] = content[f]
  BY <1>1, <1>2, <1>6 DEF FileFor
<1>9. SaverInv(c)'
  BY <1>1, <1>2, <1>4, <1>5, <1>8 DEF SaverInv, Saving, Blocks
<1>10. pc'[c] \in Saving \cup {"send"} /\ files' \subseteq files \cup {f, g}
  BY <1>1, <1>5 DEF Saving
<1>11. \A h \in Names \ {f, g} : content'[h] = content[h]
  BY <1>6
<1>12. content'[f] = Blocks(c, Len(content'[f])) /\ (content'[f] = response[c] \/ c \in bad')
  BY <1>1, <1>2, <1>3, <1>8
<1> QED BY <1>1, <1>2, <1>5, <1>6, <1>7, <1>9, <1>10, <1>11, <1>12, SaveStep

-----------------------------------------------------------------------------
(* The process ends. *)

LEMMA EndProcessStep == ASSUME CacheInv, EndProcess PROVE CacheInv'
<1>1. TypeOK /\ Threads /\ Bodies
  BY Parts6
<1>2. /\ pc' = [c \in Clients |-> IF pc[c] \in {"away", "done"} THEN pc[c] ELSE "dead"]
      /\ lock' = Nobody /\ resolved' = "none" /\ stats' = NoStats /\ stops' = stops + 1
      /\ UNCHANGED <<request, response, fetched, peer, source, files, content, bad>>
  BY DEF EndProcess
<1>3. TypeOK'
  <2>1. pc' \in [Clients -> Places]
    BY <1>1, <1>2 DEF TypeOK, Places
  <2>2. stats' \in [total : Nat, hits : Nat, misses : Nat, errors : Nat] /\ stops' \in Nat
    BY <1>1, <1>2 DEF NoStats, TypeOK
  <2> QED BY <1>1, <1>2, <2>1, <2>2 DEF TypeOK, Names, Hosts
<1>4. Kept
  BY <1>2 DEF Kept
<1>5. ASSUME NEW c \in Clients PROVE ThreadInv(c)' /\ SaverInv(c)'
  <2>1. \/ pc'[c] = "dead"
        \/ pc[c] = pc'[c] /\ pc[c] \in {"away", "done"}
    BY <1>2
  <2>2. c # Nobody
    BY ClientsAssumption DEF Nobody
  <2>3. ThreadInv(c)'
    BY <1>1, <1>2, <2>1
       DEF Threads, ThreadInv, Early, Saving, Belongs, LookedUp, FileFor, Blocks
  <2>4. SaverInv(c)'
    BY <1>2, <2>1, <2>2 DEF SaverInv, Saving
  <2> QED BY <2>3, <2>4
<1>6. Bodies'
  BY <1>1, <1>2, <1>4, FileFrame DEF Bodies, Names
<1>7. stops' # 0
  BY <1>1, <1>2 DEF TypeOK
<1>8. ResolverInv'
  BY <1>2 DEF ResolverInv
<1> QED BY <1>3, <1>5, <1>6, <1>7, <1>8 DEF CacheInv, Bodies

-----------------------------------------------------------------------------

LEMMA InitCache == Init => CacheInv
<1> SUFFICES ASSUME Init PROVE CacheInv
  OBVIOUS
<1>1. (CHOOSE k \in Keys : TRUE) \in Keys
  BY KeysAssumption
<1>2. <<>> \in Seq(Piece) /\ Len(<<>>) = 0
  OBVIOUS
<1>3. TypeOK
  BY <1>1, <1>2 DEF Init, TypeOK, Places, Statuses, Sources, NoStats
<1>4. ASSUME NEW c \in Clients PROVE ThreadInv(c) /\ SaverInv(c)
  <2>1. c # Nobody
    BY ClientsAssumption DEF Nobody
  <2> QED BY <1>2, <2>1 DEF Init, ThreadInv, SaverInv, Early, Saving
<1>5. ASSUME NEW f \in Names PROVE FileInv(f)
  <2>1. content[f] = <<>>
    BY DEF Init
  <2> QED BY <1>2, <2>1 DEF FileInv, OneMeta
<1>6. ResolverInv
  BY DEF Init, ResolverInv
<1> QED BY <1>3, <1>4, <1>5, <1>6 DEF Init, CacheInv

LEMMA CacheStep == CacheInv /\ [Next]_vars => CacheInv'
<1> SUFFICES ASSUME CacheInv, [Next]_vars PROVE CacheInv'
  OBVIOUS
<1>1. CASE UNCHANGED vars
  <2>1. UNCHANGED <<pc, request, response, fetched, peer, source, resolved, files, content,
                    bad, lock, stats, stops>>
    BY <1>1 DEF vars
  <2>2. TypeOK /\ Threads /\ ResolverInv /\ Savers /\ Bodies /\ Whole /\ Kept
    BY <2>1, Parts6 DEF Kept
  <2>3. TypeOK'
    BY <2>1, <2>2 DEF TypeOK, Names, Hosts
  <2>4. \A c \in Clients : ThreadInv(c)' /\ SaverInv(c)'
    BY <2>1, <2>2, ThreadFrame, SaverFrame DEF Savers
  <2>5. Bodies'
    BY <2>1, <2>2, FileFrame DEF Bodies, Names
  <2>6. Whole' /\ ResolverInv'
    BY <2>1, <2>2, WholeFrame, ResolverFrame
  <2> QED BY <2>3, <2>4, <2>5, <2>6 DEF CacheInv, Bodies, Whole
<1>2. CASE Stop
  BY <1>2, EndProcessStep DEF Stop
<1>3. ASSUME NEW c \in Clients, Accept(c) \/ HandleClient(c) \/ BrokenPipe(c)
      PROVE  CacheInv'
  BY <1>3, PlainSteps, ParseStep, ReadBlockStep, MissStep, FetchStep, SaveOpenStep,
     SaveBlockStep, SaveMetaSteps, EndProcessStep DEF HandleClient, BrokenPipe
<1> QED BY <1>1, <1>2, <1>3 DEF Next

-----------------------------------------------------------------------------
(* What the threads have counted. *)

FromCache == {c \in Clients : source[c] = "cache"}

LEMMA HitsOf ==
    HitsAgree <=> (stops = 0 => IsFiniteSet(FromCache) /\ stats.hits = Cardinality(FromCache))
  BY DEF HitsAgree, FromCache

(* No hit is counted, and nothing more was answered from the cache. *)
LEMMA NoHit ==
    ASSUME TypeOK, HitsAgree, UNCHANGED stops,
           stats' \in {stats, Counted(stats, FALSE, FALSE), Counted(stats, FALSE, TRUE)},
           \A d \in Clients : source'[d] = "cache" <=> source[d] = "cache"
    PROVE  HitsAgree'
<1>1. FromCache' = FromCache
  BY DEF FromCache
<1>2. stats'.hits = stats.hits
  <2>1. stats.hits \in Nat
    BY DEF TypeOK
  <2> QED BY <2>1 DEF Counted
<1> QED BY <1>1, <1>2, HitsOf DEF HitsAgree, FromCache

LEMMA OneHit ==
    ASSUME TypeOK, HitsAgree, UNCHANGED stops, NEW c \in Clients,
           stats' = Counted(stats, TRUE, FALSE),
           source[c] # "cache", source' = [source EXCEPT ![c] = "cache"]
    PROVE  HitsAgree'
<1>1. c \notin FromCache /\ FromCache' = FromCache \cup {c}
  BY DEF FromCache, TypeOK
<1>2. stats'.hits = stats.hits + 1
  BY DEF Counted
<1>3. ASSUME stops = 0
      PROVE  IsFiniteSet(FromCache') /\ stats'.hits = Cardinality(FromCache')
  <2>1. IsFiniteSet(FromCache) /\ stats.hits = Cardinality(FromCache)
    BY <1>3, HitsOf
  <2>2. PICK S : S = FromCache /\ IsFiniteSet(S) /\ c \notin S
    BY <1>1, <2>1
  <2>3. IsFiniteSet(S \cup {c}) /\ Cardinality(S \cup {c}) = Cardinality(S) + 1
    BY <2>2, FS_AddElement
  <2> QED BY <1>1, <1>2, <2>1, <2>2, <2>3
<1> QED BY <1>3 DEF HitsAgree, FromCache

LEMMA HitsStep == CacheInv /\ HitsAgree /\ [Next]_vars => HitsAgree'
<1> SUFFICES ASSUME CacheInv, HitsAgree, [Next]_vars PROVE HitsAgree'
  OBVIOUS
<1>1. TypeOK /\ Threads
  BY Parts6
<1>2. CASE UNCHANGED vars
  BY <1>1, <1>2, NoHit DEF vars
<1>3. CASE EndProcess
  BY <1>1, <1>3 DEF EndProcess, HitsAgree, TypeOK
<1>4. ASSUME NEW c \in Clients, Accept(c) \/ HandleClient(c) PROVE HitsAgree'
  <2>1. CASE \/ NoRequest(c) \/ Refuse(c) \/ Parse(c) \/ IsCached(c) \/ GetCacheEntry(c)
             \/ Miss(c) \/ Fetch(c) \/ SaveOpen(c) \/ SaveBlock(c) \/ SaveOpenMeta(c)
             \/ SaveMeta(c) \/ SendResponse(c) \/ Accept(c)
    <3>1. /\ UNCHANGED stops
          /\ stats' \in {stats, Counted(stats, FALSE, FALSE), Counted(stats, FALSE, TRUE)}
      BY <2>1 DEF NoRequest, Refuse, Parse, IsCached, GetCacheEntry, Miss, Fetch, SaveOpen,
                  SaveBlock, SaveOpenMeta, SaveMeta, SendResponse, Accept
    <3>2. \/ source' = source
          \/ pc[c] \in Early /\ source' = [source EXCEPT ![c] = "error"]
          \/ pc[c] \in Early /\ source' = [source EXCEPT ![c] = "origin"]
      BY <2>1 DEF NoRequest, Refuse, Parse, IsCached, GetCacheEntry, Miss, Fetch, SaveOpen,
                  SaveBlock, SaveOpenMeta, SaveMeta, SendResponse, Accept, Early
    <3>3. pc[c] \in Early => source[c] = "none"
      BY <1>1 DEF Threads, ThreadInv
    <3>4. \A d \in Clients : source'[d] = "cache" <=> source[d] = "cache"
      BY <1>1, <3>2, <3>3 DEF TypeOK
    <3> QED BY <1>1, <3>1, <3>4, NoHit
  <2>2. CASE ReadBlock(c)
    <3>1. \/ UNCHANGED <<source, stats, stops>>
          \/ /\ source' = [source EXCEPT ![c] = "cache"] /\ stats' = Counted(stats, TRUE, FALSE)
             /\ UNCHANGED stops
      BY <2>2 DEF ReadBlock
    <3>2. source[c] = "none"
      BY <1>1, <2>2 DEF ReadBlock, Threads, ThreadInv, Early
    <3> QED BY <1>1, <3>1, <3>2, NoHit, OneHit
  <2> QED BY <1>4, <2>1, <2>2 DEF HandleClient
<1> QED BY <1>2, <1>3, <1>4 DEF Next, Stop, BrokenPipe

LEMMA InitHits == Init => HitsAgree
<1> SUFFICES ASSUME Init PROVE HitsAgree
  OBVIOUS
<1>1. FromCache = {}
  BY DEF Init, FromCache
<1> QED BY <1>1, FS_EmptySet DEF Init, NoStats, HitsAgree, FromCache

-----------------------------------------------------------------------------
(* The theorems. *)

(* The inductive invariant holds in every state, with any number of        *)
(* clients, of stops and of failing writes, and of keys that share a file, *)
(* be it a cache file or a .meta file (proxy_server.cpp:177-218, 365-431,  *)
(* 589-600).                                                               *)
THEOREM Inductive == Spec => []IInv
<1>1. Init => IInv
  BY InitCache, InitHits DEF IInv
<1>2. IInv /\ [Next]_vars => IInv'
  BY CacheStep, HitsStep DEF IInv
<1> QED BY <1>1, <1>2, PTL DEF Spec

(* However the threads come in between each other, cacheHits is the number *)
(* of requests that were answered from the cache (README.md:209-211,       *)
(* proxy_server.cpp:184-197, 589-600).                                     *)
THEOREM HitsCorrect == Spec => []HitsAgree
<1>1. IInv => HitsAgree
  BY DEF IInv
<1> QED BY <1>1, Inductive, PTL

(* A file of the cache directory is a beginning of one response, or one    *)
(* thread's metadata; and a cache file that is no .meta file is all of a   *)
(* response while nobody writes, unless a write failed or the process has  *)
(* ended (README.md:36, 50-52).                                            *)
THEOREM FilesCorrect == Spec => []FilesAreFetched
<1>1. IInv => FilesAreFetched
  BY ClientsAssumption
     DEF IInv, CacheInv, FileInv, WholeInv, FilesAreFetched, FileFor, Nobody
<1> QED BY <1>1, Inductive, PTL

(* What is cached, and what is served from the cache, had status 200       *)
(* (README.md:39, proxy_server.cpp:202-205).                               *)
THEOREM SuccessCorrect == Spec => []OnlySuccessCached
<1>1. IInv => OnlySuccessCached
  <2> SUFFICES ASSUME CacheInv PROVE OnlySuccessCached
    BY DEF IInv
  <2>1. /\ \A f \in Names : DOMAIN content[f] = 1..Len(content[f])
        /\ \A c \in Clients : DOMAIN response[c] = 1..Len(response[c])
    BY DEF CacheInv, TypeOK
  <2> QED BY <2>1 DEF CacheInv, FileInv, ThreadInv, Belongs, OnlySuccessCached
<1> QED BY <1>1, Inductive, PTL

(* A key whose file is its own is served blocks that were fetched for it,  *)
(* whatever becomes of its .meta file, and from its own host unless        *)
(* another thread has looked up the other one (proxy_server.cpp:340-363,   *)
(* 383, 423, 437-456).                                                     *)
THEOREM KeysCorrect == Spec => []ServedOwnKey
<1>1. IInv => ServedOwnKey
  <2> SUFFICES ASSUME CacheInv, NEW c \in Clients, source[c] = "cache", Own(request[c].key),
                      NEW i \in DOMAIN response[c]
               PROVE  LET d == response[c][i].from
                      IN  /\ response[c][i].part # 0
                          /\ request[d].key = request[c].key
                          /\ LookedUp(peer[d], request[c].key, d)
    BY DEF IInv, ServedOwnKey
  <2>1. response[c] \in Seq(Piece) /\ i \in 1..Len(response[c])
    BY DEF CacheInv, TypeOK
  <2>2. response[c][i] \in Piece
    BY <2>1
  <2>3. PICK d \in Clients : d = response[c][i].from
    BY <2>2 DEF Piece
  <2>4. Belongs(response[c][i], FileFor(c)) /\ FileFor(c) \notin Metas
    BY <2>1 DEF CacheInv, ThreadInv, Own, FileFor
  <2>5. fetched[d] = "200" /\ response[c][i].part # 0 /\ FileFor(d) = FileFor(c)
    BY <2>3, <2>4 DEF Belongs
  <2>6. request[d].key = request[c].key
    BY <2>5 DEF Own, FileFor, CacheInv, TypeOK
  <2>7. LookedUp(peer[d], request[d].key, d)
    BY <2>5 DEF CacheInv, ThreadInv
  <2> QED BY <2>3, <2>5, <2>6, <2>7
<1> QED BY <1>1, Inductive, PTL

=============================================================================
