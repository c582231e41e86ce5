---------------------------- MODULE MCWebServer ----------------------------
(* Instances of WebServer for TLC; the .cfg files hold its constants. *)
EXTENDS WebServer

(* "" is the directory itself, which opens and yields nothing. *)
Site ==
    [p \in {"", "/", "/index.html", "/a", "/ab", "/a..b", "/none"} |->
        CASE p = "/index.html" -> "home"
          [] p = "/a"          -> "pageA"
          [] p \in {"/ab", "/a..b"} -> "pageAB"
          [] p = "/none"       -> "none"
          [] OTHER             -> "empty"]

Get(path) == [method |-> "GET", path |-> path]
Whole(line) == [asked |-> line, first |-> line, cut |-> "no"]
Cut(line, first, cut) == [asked |-> line, first |-> first, cut |-> cut]

(* A page, or a cut inside the method; another method, or a path that is   *)
(* cut where another page is found; a path with dots, or a request that is *)
(* too long.                                                               *)
CONSTANTS c1, c2, c3
FewRequests ==
    [c \in {c1, c2, c3} |->
        CASE c = c1 -> {Whole(Get("/")), Cut(Get("/none"), [method |-> "GE", path |-> ""], "later")}
          [] c = c2 -> {Whole([method |-> "POST", path |-> "/a"]), Cut(Get("/ab"), Get("/a"), "later")}
          [] c = c3 -> {Whole(Get("/a..b")), Cut(Get("/a"), Get("/a"), "long")}]

============================================================================
