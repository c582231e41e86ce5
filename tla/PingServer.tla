----------------------------- MODULE PingServer -----------------------------
(***************************************************************************)
(* udtp-pinger/udp_pinger_server.cpp: one loop that receives a datagram or *)
(* times out after a second, echoes what it does not drop, and looks for   *)
(* clients that have been silent for too long.                             *)
(***************************************************************************)
EXTENDS PingNetwork

CONSTANTS
    Second,            \* ticks of the clock in a second
    Delays,            \* values of delay_ms, in ticks
    HeartbeatTimeout   \* in seconds

ASSUME SecondAssumption == Second \in Nat \ {0}

VARIABLES
    delay,     \* delay_ms, from the command line
    spc,       \* "recv", or "delay" in sleep_for()
    wake,      \* when recvfrom() or the sleep ends
    pending,   \* the datagram to echo after the delay, if any
    clients    \* the clients heard of: last_seen and dead_reported

serverVars == <<delay, spc, wake, pending, clients>>

ServerInit ==
    /\ delay \in Delays
    /\ spc = "recv"
    /\ wake = Second
    /\ pending = {}
    /\ clients = [c \in {} |-> 0]

(* mutant: reported after N whole seconds, not after more than N *)
SilentAtLeast(info) == (now - info.last_seen) \div Second >= HeartbeatTimeout

(* duration_cast<seconds> cuts off what is less than a second. *)
Silent(info) == (now - info.last_seen) \div Second > HeartbeatTimeout

(* The loop over clients at the end of every round. *)
Checked(table) ==
    IF HeartbeatTimeout = 0 THEN table
    ELSE [c \in DOMAIN table |->
             [table[c] EXCEPT !.dead_reported = @ \/ Silent(table[c])]]

(* mutant: the echo that was sent is kept *)
KeepsPending(table) ==
    /\ spc' = "recv"
    /\ wake' = now + Second
    /\ clients' = Checked(table)
    /\ UNCHANGED pending

NextRound(table) ==
    /\ spc' = "recv"
    /\ wake' = now + Second
    /\ pending' = {}
    /\ clients' = Checked(table)

Seen(c) ==
    [d \in DOMAIN clients \cup {c} |->
        IF d = c THEN [last_seen |-> now, dead_reported |-> FALSE] ELSE clients[d]]

RecvPacket ==
    /\ spc = "recv"
    /\ inbox # <<>>
    /\ inbox' = Tail(inbox)
    /\ LET packet == Head(inbox)
           echo   == ToClient(packet.client, packet.payload)
       IN  \/ /\ NextRound(Seen(packet.client))             \* dropped
              /\ UNCHANGED flight
           \/ /\ delay = 0
              /\ Send(echo)
              /\ NextRound(Seen(packet.client))
           \/ /\ delay > 0
              /\ spc' = "delay"
              /\ wake' = now + delay
              /\ pending' = {echo}
              /\ clients' = Seen(packet.client)
              /\ UNCHANGED flight
    /\ UNCHANGED <<now, replies, delay>>

Echo ==
    /\ spc = "delay"
    /\ now >= wake
    /\ \E packet \in pending : Send(packet)
    /\ NextRound(clients)
    /\ UNCHANGED <<now, inbox, replies, delay>>

(* mutant: after a timeout the loop goes on without the check *)
OnlyWaits(table) ==
    /\ wake' = now + Second
    /\ UNCHANGED <<spc, pending, clients>>

AfterTimeout(table) == NextRound(table)

RecvTimeout ==
    /\ spc = "recv"
    /\ inbox = <<>>
    /\ now >= wake
    /\ AfterTimeout(clients)
    /\ UNCHANGED <<netVars, delay>>

ServerStep == RecvPacket \/ Echo \/ RecvTimeout

(* The server has nothing to do at this instant. *)
ServerIdle ==
    \/ spc = "recv" /\ inbox = <<>> /\ now < wake
    \/ spc = "delay" /\ now < wake

=============================================================================
