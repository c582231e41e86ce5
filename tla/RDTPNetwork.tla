---------------------------- MODULE RDTPNetwork ----------------------------
(***************************************************************************)
(* The datagrams of the Go-Back-N protocol of RDTP/ and the UDP path that  *)
(* carries them.                                                           *)
(*                                                                         *)
(* A datagram is what build_packet writes and parse_packet gives back.     *)
(* parse_packet returns nullopt for a datagram whose magic, version, type, *)
(* length or CRC is wrong and both programs then `continue`: a corrupted   *)
(* datagram has the effect of a lost one.                                  *)
(***************************************************************************)
EXTENDS Integers

CONSTANTS
    FileLen,   \* number of chunks of at most mss bytes that the sender's file
               \* yields: a read that fails is taken for its end
    SeqMod,    \* sequence numbers are uint32_t: 2^32 in the code
    Addrs,     \* UDP source addresses that runs of the sender may get
    NoPeer     \* the receiver's `have_peer == false`

ASSUME FileLenAssumption == FileLen \in Nat
ASSUME SeqModAssumption  == SeqMod \in Nat \ {0}
ASSUME NoPeerAssumption  == NoPeer \notin Addrs

VARIABLE net   \* datagrams that are in flight

(* The uint32_t that stands for chunk k in a `seq` field. *)
Wire(k) == k % SeqMod

SeqNum  == 0..(SeqMod - 1)
NoChunk == -1                        \* ACK and FIN carry no payload

(* addr is the source of DATA and FIN and the destination of an ACK. *)
Packet == [ type  : {"Data", "Ack", "Fin"},
            seq   : SeqNum,
            chunk : {NoChunk} \cup 0..(FileLen - 1),
            addr  : Addrs ]

DataPacket(k, a) == [type |-> "Data", seq |-> Wire(k), chunk |-> k, addr |-> a]
FinPacket(k, a)  == [type |-> "Fin", seq |-> Wire(k), chunk |-> NoChunk, addr |-> a]
AckPacket(n, a)  == [type |-> "Ack", seq |-> n, chunk |-> NoChunk, addr |-> a]

Send(packets) == net' = net \cup packets

(* recvfrom hands p over; the network may still hold another copy of it.   *)
Receive(p, replies) ==
    \/ net' = (net \ {p}) \cup replies
    \/ net' = net \cup replies

(* The network drops, or corrupts beyond its CRC, a datagram. *)
Lose == \E p \in net : net' = net \ {p}

=============================================================================
