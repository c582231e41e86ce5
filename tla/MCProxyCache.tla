--------------------------- MODULE MCProxyCache ---------------------------
(* Instances of ProxyCache for TLC. *)
EXTENDS ProxyCache, TLC

(* Two objects of one host, of which one has the name of the other's .meta *)
(* file, and one of another host; or one object.                           *)
ThreeKeys == {"h/a", "h/a.meta", "g/b"}
OneKey    == {"h/a"}

OwnFiles  == [k \in ThreeKeys |-> k]
OwnMetas  == [f \in ThreeKeys |-> f \o ".meta"]
TwoHosts  == [k \in ThreeKeys |-> IF k = "g/b" THEN "g" ELSE "h"]
OneFile   == [k \in OneKey |-> k]
OneMetaOf == [f \in OneKey |-> f \o ".meta"]
OneHost   == [k \in OneKey |-> "h"]

ClientSymmetry == Permutations(Clients)

=============================================================================
