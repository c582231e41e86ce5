---------------------------- MODULE RDTPReceiver ----------------------------
(***************************************************************************)
(* rdt_receiver.cpp.  It accepts the chunk it expects, appends it to the   *)
(* output and acknowledges it; it answers anything else with the last      *)
(* acknowledgement again; the first datagram it parses fixes the peer all  *)
(* acknowledgements are sent to; a FIN in order ends it.                   *)
(***************************************************************************)
EXTENDS RDTPNetwork, Sequences

VARIABLES
    rPhase,    \* where main() of the receiver is
    expected,  \* uint32_t expected
    lastAck,   \* uint32_t last_in_order_ack
    out,       \* the chunks written to the output stream
    peer       \* the address answers go to, or NoPeer

receiverVars == <<rPhase, expected, lastAck, out, peer>>

ReceiverPhases == {"receiving", "closing", "done", "failed"}

(* static_cast<uint32_t>(-1), "no data yet" *)
NoDataYet == SeqMod - 1

LockPeerAnew(p) == peer' = p.addr              \* mutant: always the last source

LockPeer(p) == peer' = IF peer = NoPeer THEN p.addr ELSE peer

InOrderOrLater(p) == p.seq >= expected         \* mutant: gaps are skipped

InOrderOrOld(p) == p.seq <= expected           \* mutant: repeats are accepted

InOrder(p) == p.seq = expected

NeverAckAgain(to) == {}                        \* mutant: a repeat gets no answer

AckAgainAlways(to) == {AckPacket(lastAck, to)} \* mutant: also "no data yet"

(* The answer to a datagram out of order: nothing before the first chunk.  *)
LastAckAgain(to) == IF lastAck # NoDataYet THEN {AckPacket(lastAck, to)} ELSE {}

RecvData(p) ==
    /\ rPhase = "receiving"
    /\ p.type = "Data"
    /\ LockPeer(p)
    /\ IF InOrder(p)
       THEN /\ out' = Append(out, p.chunk)
            /\ lastAck' = expected
            /\ expected' = (expected + 1) % SeqMod
            /\ Receive(p, {AckPacket(expected, peer')})
       ELSE /\ Receive(p, LastAckAgain(peer'))
            /\ UNCHANGED <<out, lastAck, expected>>
    /\ UNCHANGED rPhase

(* ACK(fin_seq) is sent before the output is flushed. *)
RecvFin(p) ==
    /\ rPhase = "receiving"
    /\ p.type = "Fin"
    /\ LockPeer(p)
    /\ IF InOrder(p)
       THEN /\ rPhase' = "closing"
            /\ Receive(p, {AckPacket(p.seq, peer')})
       ELSE /\ Receive(p, LastAckAgain(peer'))
            /\ UNCHANGED rPhase
    /\ UNCHANGED <<expected, lastAck, out>>

(* out.flush() and exit: nobody reads the socket any more. *)
Flush ==
    /\ rPhase = "closing"
    /\ rPhase' = "done"
    /\ UNCHANGED <<expected, lastAck, out, peer, net>>

(* recvfrom, sendto, the write or the flush throws, or the process dies.   *)
ReceiverFail ==
    /\ rPhase \in {"receiving", "closing"}
    /\ rPhase' = "failed"
    /\ UNCHANGED <<expected, lastAck, out, peer, net>>

ReceiverInit ==
    /\ rPhase = "receiving"
    /\ expected = 0
    /\ lastAck = NoDataYet
    /\ out = <<>>
    /\ peer = NoPeer

ReceiverNext ==
    \/ \E p \in net : RecvData(p)
    \/ \E p \in net : RecvFin(p)
    \/ Flush
    \/ ReceiverFail

=============================================================================
