----------------------------- MODULE RDTPSender -----------------------------
(***************************************************************************)
(* rdt_sender.cpp.  The window (a deque of InFlight) holds the chunks      *)
(* base..nextSeq-1, so it is kept as those two bounds.  The counters       *)
(* base and nextSeq here count chunks and do not wrap; what the program    *)
(* compares, the uint32_t of a chunk, is Wire(k).                          *)
(***************************************************************************)
EXTENDS RDTPNetwork

CONSTANT Window                      \* opt.window, 64 by default

ASSUME WindowAssumption == Window \in Nat \ {0}

VARIABLES
    sPhase,    \* where main() of the sender is
    addr,      \* source address of its socket
    base,      \* the chunk at window.front(), or nextSeq when it is empty
    nextSeq,   \* chunks read from the file so far
    eof        \* a read has returned no bytes

senderVars == <<sPhase, addr, base, nextSeq, eof>>

SenderPhases == {"idle", "data", "fin", "done", "failed"}

InWindow == base..(nextSeq - 1)

(* fill_window: read and send chunks until the window is full or the file  *)
(* ends, from a window that starts at b.  The end of the file is only seen *)
(* by the read after the last chunk, which needs room in the window.       *)
(* The loop of main() is left once eof is set and the window is empty.     *)
FilledTo(b) == IF FileLen < b + Window THEN FileLen ELSE b + Window

FillWindow(b) ==
    /\ base' = b
    /\ nextSeq' = FilledTo(b)
    /\ eof' = (FileLen < b + Window)
    /\ sPhase' = IF eof' /\ b = nextSeq' THEN "fin" ELSE "data"

NewData(first, last, a) == {DataPacket(k, a) : k \in first..(last - 1)}

(* A run of the program, from scratch: a previous one may have failed. *)
SenderStart ==
    /\ sPhase \in {"idle", "failed"}
    /\ \E a \in Addrs :
          /\ addr' = a
          /\ FillWindow(0)
          /\ Send(NewData(0, nextSeq', a))

(* handle_ack pops chunks while window.front().seq <= ackno, as uint32_t;  *)
(* k is the first chunk that stays.                                        *)
PopsTo(ackno, k) ==
    /\ \A j \in base..(k - 1) : Wire(j) <= ackno
    /\ k = nextSeq \/ Wire(k) > ackno

(* An ACK below window.front() is received and ignored; another one moves  *)
(* the window and fill_window sends the chunks that now fit.               *)
RecvAck(p) ==
    /\ sPhase = "data"
    /\ p.type = "Ack" /\ p.addr = addr
    /\ UNCHANGED addr
    /\ IF base < nextSeq /\ p.seq >= Wire(base)
       THEN \E k \in base..nextSeq :
              /\ PopsTo(p.seq, k)
              /\ FillWindow(k)
              /\ Receive(p, NewData(nextSeq, nextSeq', addr))
       ELSE /\ Receive(p, {})
            /\ UNCHANGED <<sPhase, base, nextSeq, eof>>

(* select() timed out: all of the window is sent again.  Timers are not    *)
(* modelled, so that a timeout may also beat an answer that is on its way. *)
Retransmit ==
    /\ sPhase = "data"
    /\ base < nextSeq
    /\ Send(NewData(base, nextSeq, addr))
    /\ UNCHANGED senderVars

(* First and repeated transmission of FIN(fin_seq = next_seq). *)
SendFin ==
    /\ sPhase = "fin"
    /\ Send({FinPacket(nextSeq, addr)})
    /\ UNCHANGED senderVars

AnyAckIsFinAck(p) == TRUE                      \* mutant: seq is not compared

FinAcked(p) == p.seq = Wire(nextSeq)

(* Only ACK(fin_seq) ends the wait. *)
RecvFinAck(p) ==
    /\ sPhase = "fin"
    /\ p.type = "Ack" /\ p.addr = addr
    /\ Receive(p, {})
    /\ sPhase' = IF FinAcked(p) THEN "done" ELSE "fin"
    /\ UNCHANGED <<addr, base, nextSeq, eof>>

(* sendto, select or recvfrom fails (exit status 1) or the process dies.   *)
SenderFail ==
    /\ sPhase \in {"data", "fin"}
    /\ sPhase' = "failed"
    /\ UNCHANGED <<addr, base, nextSeq, eof, net>>

SenderInit ==
    /\ sPhase = "idle"
    /\ addr \in Addrs                \* no meaning before SenderStart
    /\ base = 0
    /\ nextSeq = 0
    /\ eof = FALSE

SenderNext ==
    \/ SenderStart
    \/ \E p \in net : RecvAck(p)
    \/ Retransmit
    \/ SendFin
    \/ \E p \in net : RecvFinAck(p)
    \/ SenderFail

=============================================================================
