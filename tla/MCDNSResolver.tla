--------------------------- MODULE MCDNSResolver ---------------------------
(* Instances of DNSResolver for TLC. *)
EXTENDS DNSResolver

(* "www" may be an alias of "cdn", or have its servers there or at "ns";   *)
(* "cdn" may refer to "ns" or to a name that cannot be asked for.          *)
ChainNames == {"www", "cdn", "ns", "long"}
Chain      == [n \in ChainNames |-> CASE n = "www" -> {"cdn", "ns"}
                                      [] n = "cdn" -> {"ns", "long"}
                                      [] OTHER     -> {}]

(* Two names that are aliases of each other. *)
LoopNames  == {"a", "b"}
Loop       == [n \in LoopNames |-> LoopNames \ {n}]

=============================================================================
