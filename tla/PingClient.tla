----------------------------- MODULE PingClient -----------------------------
(***************************************************************************)
(* udtp-pinger/udp_pinger_client.cpp: each client sends a ping, waits for  *)
(* one datagram or for the timeout of the socket, sleeps, and goes on with *)
(* the next.  It takes whatever comes for the answer to the last ping.     *)
(***************************************************************************)
EXTENDS PingNetwork

CONSTANTS Timeout, Interval   \* timeout_ms and interval_ms, in ticks

VARIABLES
    cpc,      \* per client, where it is
    seq,      \* the number of its ping
    until,    \* when recvfrom() or the sleep ends
    log       \* what became of each round: received, lost and rtts_ms

clientVars == <<cpc, seq, until, log>>

ClientInit ==
    /\ cpc = [c \in Clients |-> "send"]
    /\ seq = [c \in Clients |-> 1]
    /\ until = [c \in Clients |-> 0]
    /\ log = [c \in Clients |-> <<>>]

Ping(c) ==
    /\ cpc[c] = "send"
    /\ Send(ToServer(c, [seq |-> seq[c], ts |-> now]))
    /\ cpc' = [cpc EXCEPT ![c] = "wait"]
    /\ until' = [until EXCEPT ![c] = now + Timeout]
    /\ UNCHANGED <<seq, log, now, inbox, replies>>

(* The end of a round: sleep, unless it was the last. *)
Sleeps(c) == seq[c] # Count

EndRound(c, outcome) ==
    /\ log' = [log EXCEPT ![c] = Append(@, outcome)]
    /\ cpc' = [cpc EXCEPT ![c] = IF Sleeps(c) THEN "sleep" ELSE "done"]
    /\ until' = [until EXCEPT ![c] = now + Interval]
    /\ UNCHANGED <<seq, now, flight, inbox>>

(* mutant: the round-trip time is taken from the last ping *)
SinceLastPing(c, payload) == now - (until[c] - Timeout)

Rtt(c, payload) == now - payload.ts

Reply(c) ==
    /\ cpc[c] = "wait"
    /\ replies[c] # <<>>
    /\ replies' = [replies EXCEPT ![c] = Tail(@)]
    /\ LET payload == Head(replies[c])
       IN  EndRound(c, IF payload = Malformed
                       THEN [kind |-> "malformed", seq |-> seq[c], rtt |-> 0, at |-> now]
                       ELSE [kind |-> "reply", seq |-> payload.seq,
                             rtt |-> Rtt(c, payload), at |-> now])

TimedOut(c) ==
    /\ cpc[c] = "wait"
    /\ replies[c] = <<>>
    /\ now >= until[c]
    /\ EndRound(c, [kind |-> "timeout", seq |-> seq[c], rtt |-> 0, at |-> now])
    /\ UNCHANGED replies

Awake(c) ==
    /\ cpc[c] = "sleep"
    /\ now >= until[c]
    /\ cpc' = [cpc EXCEPT ![c] = IF seq[c] = Count THEN "done" ELSE "send"]
    /\ seq' = [seq EXCEPT ![c] = IF seq[c] = Count THEN @ ELSE @ + 1]
    /\ UNCHANGED <<until, log, netVars>>

ClientStep == \E c \in Clients : Ping(c) \/ Reply(c) \/ TimedOut(c) \/ Awake(c)

(* A client has nothing to do at this instant. *)
ClientIdle(c) ==
    \/ cpc[c] = "done"
    \/ cpc[c] = "sleep" /\ now < until[c]
    \/ cpc[c] = "wait" /\ replies[c] = <<>> /\ now < until[c]

=============================================================================
