----------------------------- MODULE UDPPinger -----------------------------
(***************************************************************************)
(* udtp-pinger/: the clients and the server of the UDP pinger together, on *)
(* a network that loses, delays and reorders datagrams.                    *)
(*                                                                         *)
(* Programs are fast: the clock stands still while one of them can go on.  *)
(***************************************************************************)
EXTENDS PingClient, PingServer, SequencesExt

CONSTANTS
    MaxTime,     \* bound: when the clock stops
    MaxStrays    \* bound: datagrams of other programs

ASSUME TimesAssumption ==
    {Timeout, Interval, HeartbeatTimeout, MaxTime, MaxStrays} \cup Delays \subseteq Nat
ASSUME CountAssumption == Count \in Nat \ {0} /\ Timeout > 0

VARIABLES
    arrivals,  \* history: per client, when the last datagram reached the server, if any
    strays     \* history: how many datagrams of others the clients got

history == <<arrivals, strays>>
vars == <<netVars, clientVars, serverVars, history>>

Init ==
    /\ now = 0
    /\ flight = {}
    /\ inbox = <<>>
    /\ replies = [c \in Clients |-> <<>>]
    /\ arrivals = [c \in Clients |-> {}]
    /\ strays = 0
    /\ ClientInit
    /\ ServerInit

Deliver ==
    /\ Arrive
    /\ arrivals' = [c \in Clients |-> IF inbox' # inbox /\ inbox'[Len(inbox')].client = c
                                      THEN {now} ELSE arrivals[c]]
    /\ UNCHANGED <<strays, clientVars, serverVars>>

(* The client's socket is not connected: anybody may send to it.  That     *)
(* another program sends what reads as a ping (client.cpp:260-275) is left *)
(* out: its numbers would be taken as they are.                            *)
Stray(c) ==
    /\ strays < MaxStrays
    /\ cpc[c] = "wait"
    /\ strays' = strays + 1
    /\ replies' = [replies EXCEPT ![c] = Append(@, Malformed)]
    /\ UNCHANGED <<now, flight, inbox, arrivals, clientVars, serverVars>>

Tick ==
    /\ now < MaxTime
    /\ \A c \in Clients : ClientIdle(c)
    /\ ServerIdle
    /\ now' = now + 1
    /\ UNCHANGED <<flight, inbox, replies, clientVars, serverVars, history>>

Next ==
    \/ ClientStep /\ UNCHANGED <<serverVars, history>>
    \/ ServerStep /\ UNCHANGED <<clientVars, history>>
    \/ Deliver
    \/ \E c \in Clients : Stray(c)
    \/ Tick

Spec == Init /\ [][Next]_vars

-----------------------------------------------------------------------------
Packets  == [client : Clients, to : {"server", "client"}, payload : Payload]
Outcomes == [kind : {"reply", "malformed", "timeout"}, seq : 1..Count, rtt : Nat, at : Nat]
Infos    == [last_seen : Nat, dead_reported : BOOLEAN]

(* Every variable keeps its type; a datagram is kept for its echo only     *)
(* while its delay lasts.                                                  *)
TypeOK ==
    /\ now \in 0..MaxTime /\ strays \in 0..MaxStrays
    /\ flight \subseteq Packets /\ inbox \in Seq(Packets)
    /\ replies \in [Clients -> Seq(Payload \cup {Malformed})]
    /\ cpc \in [Clients -> {"send", "wait", "sleep", "done"}]
    /\ seq \in [Clients -> 1..Count] /\ until \in [Clients -> Nat]
    /\ log \in [Clients -> Seq(Outcomes)]
    /\ delay \in Delays /\ wake \in Nat
    /\ DOMAIN clients \subseteq Clients /\ clients \in [DOMAIN clients -> Infos]
    /\ spc \in {"recv", "delay"} /\ (spc = "delay" <=> pending # {})
    /\ pending \subseteq Packets /\ \A p, q \in pending : p = q
    /\ arrivals \in [Clients -> SUBSET (0..MaxTime)]

Replies(c) == {i \in DOMAIN log[c] : log[c][i].kind = "reply"}

(* When a client sent a ping: it slept after the round before it. *)
SentAt(c, number) == IF number = 1 THEN 0 ELSE log[c][number - 1].at + Interval

(* udp_pinger_client.cpp:268: a round-trip time is that of the ping whose  *)
(* echo it is, also when the echo comes rounds later, and no ping has two. *)
RttOfItsPing ==
    \A c \in Clients : \A i \in Replies(c) :
       LET sample == log[c][i]
       IN  /\ sample.seq <= i
           /\ sample.at - sample.rtt = SentAt(c, sample.seq)
           /\ \A j \in Replies(c) : log[c][j].seq = sample.seq => i = j

Reported(c) == c \in DOMAIN clients /\ clients[c].dead_reported

(* README.md:34: a client that is reported has sent nothing for more than  *)
(* N seconds, except for what the server has still to read: as soon as it  *)
(* reads a datagram of that client, the client is alive again.             *)
DeadIsSilent ==
    \A c \in Clients : Reported(c) =>
       \/ \E p \in ToSet(inbox) : p.client = c
       \/ \A t \in arrivals[c] : now - t > Second * HeartbeatTimeout

(* N + 1 whole seconds must have passed at a check, as the silence is cut  *)
(* off to seconds and compared with >, and the check comes once a second.  *)
ReportWithin == Second * (HeartbeatTimeout + 2)

(* udp_pinger_server.cpp:166: "1s timeout so we can periodically check     *)
(* heartbeat liveness": a silent client is reported before N + 2 seconds   *)
(* have passed, and the delay of an answer; no earlier bound holds         *)
(* (lines 228-229).                                                        *)
ReportedInTime ==
    HeartbeatTimeout > 0 =>
       \A c \in DOMAIN clients :
          \/ clients[c].dead_reported
          \/ now - clients[c].last_seen < ReportWithin + delay

-----------------------------------------------------------------------------
(* The inductive invariant behind these. *)

(* A client that sends does so at once; its log has an entry per round. *)
ClientInv(c) ==
    /\ Len(log[c]) = IF cpc[c] \in {"send", "wait"} THEN seq[c] - 1 ELSE seq[c]
    /\ cpc[c] = "send" => now = SentAt(c, seq[c])
    /\ cpc[c] = "sleep" => seq[c] < Count /\ until[c] = SentAt(c, seq[c] + 1) /\ now <= until[c]

(* The pings of c that have been sent, and what they contain. *)
Sent(c) == {n \in 1..seq[c] : n < seq[c] \/ cpc[c] # "send"}

Genuine(c, payload) ==
    payload.seq \in Sent(c) /\ payload.ts = SentAt(c, payload.seq) /\ payload.ts <= now

PayloadInv ==
    /\ \A p \in flight \cup pending \cup ToSet(inbox) : Genuine(p.client, p.payload)
    /\ \A c \in Clients : \A payload \in ToSet(replies[c]) \ {Malformed} : Genuine(c, payload)

(* Where the ping n of c, or its echo, may be. *)
Carries(packet, c, n) == packet.client = c /\ packet.payload.seq = n
InFlight(c, n)  == \E p \in flight : Carries(p, c, n)
InInbox(c, n)   == \E i \in 1..Len(inbox) : Carries(inbox[i], c, n)
InPending(c, n) == \E p \in pending : Carries(p, c, n)
InReplies(c, n) == \E i \in 1..Len(replies[c]) : replies[c][i].seq = n
InLog(c, n)     == \E i \in Replies(c) : log[c][i].seq = n

(* It is in one place, and there once. *)
OnceInv(c, n) ==
    /\ \A p, q \in flight : Carries(p, c, n) /\ Carries(q, c, n) => p = q
    /\ \A i, j \in 1..Len(inbox) : Carries(inbox[i], c, n) /\ Carries(inbox[j], c, n) => i = j
    /\ \A i, j \in 1..Len(replies[c]) : replies[c][i].seq = n /\ replies[c][j].seq = n => i = j
    /\ \A i, j \in Replies(c) : log[c][i].seq = n /\ log[c][j].seq = n => i = j
    /\ InFlight(c, n)  => ~InInbox(c, n) /\ ~InPending(c, n) /\ ~InReplies(c, n) /\ ~InLog(c, n)
    /\ InInbox(c, n)   => ~InPending(c, n) /\ ~InReplies(c, n) /\ ~InLog(c, n)
    /\ InPending(c, n) => ~InReplies(c, n) /\ ~InLog(c, n)
    /\ InReplies(c, n) => ~InLog(c, n)

SampleInv(c) ==
    \A i \in Replies(c), n \in 1..Count :
       log[c][i].seq = n =>
          n \in Sent(c) /\ n <= i /\ log[c][i].at - log[c][i].rtt = SentAt(c, n)

(* The time at which the table was last looked through, or the wait that   *)
(* has been followed by a delay ended at the latest.                       *)
Watched(c) ==
    clients[c].dead_reported \/
       wake - clients[c].last_seen < ReportWithin + (IF spc = "recv" THEN 0 ELSE delay)

ServerInv ==
    /\ now <= wake
    /\ \A c \in DOMAIN clients :
          /\ clients[c].last_seen <= now
          /\ HeartbeatTimeout > 0 => Watched(c)
          /\ clients[c].dead_reported => now - clients[c].last_seen > Second * HeartbeatTimeout

(* What has come from c is waiting, or the table knows of it. *)
HeardInv(c) ==
    \A t \in arrivals[c] :
       /\ t <= now
       /\ \/ \E p \in ToSet(inbox) : p.client = c
          \/ c \in DOMAIN clients /\ t <= clients[c].last_seen

(* Every ping is in one place at most and says when it was sent; the       *)
(* server looks through its table in time (udp_pinger_client.cpp:226-282,  *)
(* udp_pinger_server.cpp:190-238).                                         *)
IInv ==
    /\ TypeOK /\ PayloadInv /\ ServerInv
    /\ \A c \in Clients : ClientInv(c) /\ SampleInv(c) /\ HeardInv(c)
    /\ \A c \in Clients, n \in 1..Count : OnceInv(c, n)

=============================================================================
