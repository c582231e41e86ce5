-------------------------------- MODULE RDTP --------------------------------
(***************************************************************************)
(* The sender, the receiver and the network of RDTP/ together.             *)
(***************************************************************************)
EXTENDS RDTPSender, RDTPReceiver

vars == <<senderVars, receiverVars, net>>

Init ==
    /\ SenderInit
    /\ ReceiverInit
    /\ net = {}

SenderStep   == SenderNext /\ UNCHANGED receiverVars
ReceiverStep == ReceiverNext /\ UNCHANGED senderVars
NetworkStep  == Lose /\ UNCHANGED <<senderVars, receiverVars>>

Next == SenderStep \/ ReceiverStep \/ NetworkStep

Spec == Init /\ [][Next]_vars

-----------------------------------------------------------------------------
(* Fairness.  Both programs block in recvfrom or select and so take a step *)
(* they can take: weak fairness for the steps that wait for nobody.  The   *)
(* network loses datagrams, but not every one of those that are sent again *)
(* and again: strong fairness for the reception of the chunk or FIN that   *)
(* is waited for, of a chunk received before, and of an acknowledgement    *)
(* that moves the window or ends the transfer.  Nothing is assumed of      *)
(* failures or of further runs of the sender.                              *)

FirstRun      == sPhase = "idle" /\ SenderStart /\ UNCHANGED receiverVars
Resend        == (Retransmit \/ SendFin) /\ UNCHANGED receiverVars
DataInOrder   == \E p \in net : p.seq = expected /\ RecvData(p) /\ UNCHANGED senderVars
DataRepeated  == \E p \in net : p.seq # expected /\ RecvData(p) /\ UNCHANGED senderVars
FinInOrder    == \E p \in net : p.seq = expected /\ RecvFin(p) /\ UNCHANGED senderVars
AckOfWindow   == \E p \in net : p.seq >= Wire(base) /\ RecvAck(p) /\ UNCHANGED receiverVars
AckOfFin      == \E p \in net : p.seq = Wire(nextSeq) /\ RecvFinAck(p) /\ UNCHANGED receiverVars

Fairness ==
    /\ WF_vars(FirstRun)
    /\ WF_vars(Resend)
    /\ WF_vars(Flush /\ UNCHANGED senderVars)
    /\ SF_vars(DataInOrder)
    /\ SF_vars(DataRepeated)
    /\ SF_vars(FinInOrder)
    /\ SF_vars(AckOfWindow)
    /\ SF_vars(AckOfFin)

FairSpec == Spec /\ Fairness

-----------------------------------------------------------------------------
(* Every variable keeps the type the code gives it. *)
TypeOK ==
    /\ net \subseteq Packet
    /\ sPhase \in SenderPhases
    /\ addr \in Addrs
    /\ base \in Nat
    /\ nextSeq \in Nat
    /\ eof \in BOOLEAN
    /\ rPhase \in ReceiverPhases
    /\ expected \in SeqNum
    /\ lastAck \in SeqNum
    /\ out \in Seq(Int)
    /\ peer \in Addrs \cup {NoPeer}

(* The output is a prefix of the file, chunk by chunk, whatever the network *)
(* loses, repeats or reorders and however often a sender starts again      *)
(* (rdt_receiver.cpp:86-103: only the expected seq is written).            *)
PrefixDelivered ==
    /\ Len(out) <= FileLen
    /\ \A i \in 1..Len(out) : out[i] = i - 1

(* "sender держит окно неподтвержденных сегментов" (README.md:46): a chunk *)
(* leaves the window only when the receiver has written it, also when the  *)
(* acknowledgement that moved the window was meant for an earlier run of   *)
(* the sender on the same port.                                            *)
WindowHoldsUnacked == base <= Len(out)

(* A sender that ends with exit status 0 has had all of its file written,  *)
(* and the receiver has left its loop (rdt_sender.cpp:209).                *)
DoneMeansDelivered ==
    sPhase = "done" => /\ Len(out) = FileLen
                       /\ rPhase # "receiving"

(* The receiver answers the first address it has heard from and no other   *)
(* (rdt_receiver.cpp:80-84): a run of the sender from another port never   *)
(* moves its window or ends, though the data it sends is still written.    *)
PeerLockout ==
    peer \notin {NoPeer, addr} => /\ base = 0
                                  /\ sPhase # "done"

(* Nothing acknowledged is taken back: the number the receiver repeats     *)
(* never decreases, and once it has answered a FIN its output is final.    *)
AcksNeverGoBack ==
    [][ /\ lastAck # NoDataYet => lastAck' \in lastAck..(FileLen - 1)
        /\ rPhase # "receiving" => UNCHANGED <<out, lastAck, peer>> ]_vars

-----------------------------------------------------------------------------
(* The inductive invariant behind the properties above, for transfers that *)
(* do not use up the sequence numbers.                                     *)

NoWrap == FileLen < SeqMod

(* Between two steps the window is filled as far as it goes, and the FIN   *)
(* is only sent from an empty window at the end of the file.               *)
SenderInv ==
    /\ 0 <= base /\ base <= nextSeq /\ nextSeq <= FileLen
    /\ sPhase = "idle" => nextSeq = 0
    /\ sPhase \in {"data", "fin", "done"} =>
          /\ nextSeq = FilledTo(base)
          /\ eof = (FileLen < base + Window)
    /\ sPhase \in {"fin", "done"} => base = FileLen

(* expected, last_in_order_ack and the output move together. *)
ReceiverInv ==
    /\ expected <= FileLen
    /\ Len(out) = expected
    /\ \A i \in 1..Len(out) : out[i] = i - 1
    /\ lastAck = IF expected = 0 THEN NoDataYet ELSE expected - 1
    /\ rPhase \in {"closing", "done"} => expected = FileLen

(* Every chunk below p.seq and p.seq itself is written, or p acknowledges  *)
(* the FIN.                                                                *)
AckIsTrue(p) ==
    \/ p.seq < expected
    \/ p.seq = FileLen /\ expected = FileLen /\ rPhase # "receiving"

PacketInv(p) ==
    /\ p.type = "Data" => p.chunk = p.seq /\ p.seq < FileLen
    /\ p.type = "Fin"  => p.seq = FileLen /\ expected = FileLen
    /\ p.type = "Ack"  => p.addr = peer /\ AckIsTrue(p)

(* What the sender has dropped is written, and only the run of the sender  *)
(* the receiver talks to has dropped anything.                             *)
WindowInv ==
    /\ base <= expected
    /\ base > 0 => addr = peer
    /\ sPhase = "done" => /\ expected = FileLen
                          /\ rPhase # "receiving"
                          /\ addr = peer

IInv ==
    /\ TypeOK
    /\ SenderInv
    /\ ReceiverInv
    /\ \A p \in net : PacketInv(p)
    /\ WindowInv

-----------------------------------------------------------------------------
(* The packets, windows and acknowledgements implement ReliableTransfer.   *)
Transfer == INSTANCE ReliableTransfer WITH
    delivered <- out,
    closed    <- CASE rPhase = "receiving" -> "open"
                   [] rPhase = "failed"    -> "failed"
                   [] OTHER                -> "closed",
    reported  <- CASE sPhase = "done"   -> "success"
                   [] sPhase = "failed" -> "failure"
                   [] OTHER             -> "nothing"

(* Every behaviour is one of the abstract specification: chunks appear in  *)
(* order, the receiver ends only with all of them, success is reported     *)
(* only after that (README.md:45-50).                                      *)
ImplementsReliableTransfer == Transfer!Spec

-----------------------------------------------------------------------------
(* If datagrams get through now and then, the receiver ends with the file, *)
(* unless it fails itself, senders fail for ever, or the sender that goes  *)
(* on is not the one the receiver is locked on to (rdt_receiver.cpp:80):   *)
(* retransmission of the whole window and the repeated FIN get every       *)
(* transfer to its end.                                                    *)
ReceiverCompletes ==
    \/ <>(rPhase \in {"done", "failed"})
    \/ []<>(sPhase = "failed")
    \/ <>[](peer \notin {NoPeer, addr})

(* README.md:50: to end a transfer the sender sends FIN and waits for its  *)
(* acknowledgement.  As a promise: when the receiver has ended well, a     *)
(* sender that waits for that acknowledgement ends too.                    *)
SenderCompletes ==
    (rPhase = "done" /\ sPhase = "fin") ~> (sPhase \in {"done", "failed"})

=============================================================================
