---------------------------- MODULE PingNetwork ----------------------------
(***************************************************************************)
(* What the UDP pinger's clients and server share: the clock, in ticks of  *)
(* any length, datagrams on their way and those that wait in a socket.     *)
(***************************************************************************)
EXTENDS Naturals, Sequences

CONSTANTS Clients, Count   \* Count: pings of each client

VARIABLES
    now,      \* the clock
    flight,   \* datagrams on their way
    inbox,    \* those that have reached the server's socket
    replies   \* per client, those that have reached its socket

netVars == <<now, flight, inbox, replies>>

(* A ping and its echo have the same payload: the number of the ping and   *)
(* the time it was sent.  A datagram of another program has none.          *)
Payload == [seq : 1..Count, ts : Nat]
Malformed == [seq |-> 0, ts |-> 0]

(* sendto(): the datagram sets out, or is lost. *)
Send(packet) ==
    \/ flight' = flight \cup {packet}
    \/ flight' = flight

ToServer(c, payload) == [client |-> c, to |-> "server", payload |-> payload]
ToClient(c, payload) == [client |-> c, to |-> "client", payload |-> payload]

(* A datagram arrives, after any time and in any order. *)
Arrive ==
    \E p \in flight :
       /\ flight' = flight \ {p}
       /\ \/ /\ p.to = "server"
             /\ inbox' = Append(inbox, p)
             /\ UNCHANGED replies
          \/ /\ p.to = "client"
             /\ replies' = [replies EXCEPT ![p.client] = Append(@, p.payload)]
             /\ UNCHANGED inbox
       /\ UNCHANGED now

=============================================================================
