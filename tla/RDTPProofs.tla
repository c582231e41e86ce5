----------------------------- MODULE RDTPProofs -----------------------------
(***************************************************************************)
(* Proofs about RDTP for every file length, window, address set and        *)
(* sequence number space.  Type correctness needs no assumption; the other *)
(* theorems are about transfers that do not use up the sequence numbers.   *)
(***************************************************************************)
EXTENDS RDTP, TLAPS

(* A sequence number is the remainder of the chunk's number.               *)
LEMMA WireType ==
    /\ \A k \in Nat : Wire(k) \in SeqNum
    /\ NoWrap => \A k \in 0..FileLen : Wire(k) = k
  BY FileLenAssumption, SeqModAssumption DEF NoWrap, Wire, SeqNum

(* What the two programs build are packets. *)
LEMMA PacketType ==
    ASSUME NEW a \in Addrs
    PROVE  /\ \A k \in 0..(FileLen - 1) : DataPacket(k, a) \in Packet
           /\ \A k \in Nat : FinPacket(k, a) \in Packet
           /\ \A n \in SeqNum : AckPacket(n, a) \in Packet
<1> USE FileLenAssumption
<1>1. \A k \in 0..(FileLen - 1) : DataPacket(k, a) \in Packet
  <2> TAKE k \in 0..(FileLen - 1)
  <2>1. k \in Nat /\ Wire(k) \in SeqNum
    BY WireType
  <2> QED BY <2>1 DEF DataPacket, Packet
<1>2. \A k \in Nat : FinPacket(k, a) \in Packet
  BY WireType DEF FinPacket, Packet
<1>3. \A n \in SeqNum : AckPacket(n, a) \in Packet
  BY DEF AckPacket, Packet
<1> QED BY <1>1, <1>2, <1>3

(* The network invents nothing. *)
LEMMA NetworkBound ==
    ASSUME NEW p, NEW S
    PROVE  /\ Send(S) => net' \subseteq net \cup S
           /\ Receive(p, S) => net' \subseteq net \cup S
  BY DEF Send, Receive

(* Filling the window never reads past the end of the file. *)
LEMMA FilledBound ==
    ASSUME NEW b \in 0..FileLen
    PROVE  /\ FilledTo(b) \in b..FileLen
           /\ FilledTo(b) = b => b = FileLen
           /\ (FileLen < b + Window) => FilledTo(b) = FileLen
  BY FileLenAssumption, WindowAssumption DEF FilledTo

(* The chunks sent are packets as long as they are chunks of the file. *)
LEMMA NewDataType ==
    ASSUME NEW first \in Nat, NEW last \in 0..FileLen, NEW a \in Addrs
    PROVE  NewData(first, last, a) \subseteq Packet
<1>1. SUFFICES ASSUME NEW k \in first..(last - 1)
               PROVE  DataPacket(k, a) \in Packet
  BY DEF NewData
<1>2. k \in 0..(FileLen - 1)
  BY FileLenAssumption
<1> QED BY <1>2, PacketType

-----------------------------------------------------------------------------
(* Type correctness.  The bounds of the window are part of the induction:  *)
(* without them a chunk past the end of the file could be sent.            *)

TypeInv == TypeOK /\ base <= nextSeq /\ nextSeq <= FileLen

LEMMA TypeStep == TypeInv /\ [Next]_vars => TypeInv'
<1> SUFFICES ASSUME TypeInv, [Next]_vars
             PROVE  TypeInv'
  OBVIOUS
<1> USE FileLenAssumption, SeqModAssumption, WindowAssumption
<1>0. /\ net \subseteq Packet /\ sPhase \in SenderPhases /\ addr \in Addrs
      /\ base \in Nat /\ nextSeq \in Nat /\ eof \in BOOLEAN
      /\ base <= nextSeq /\ nextSeq <= FileLen
      /\ rPhase \in ReceiverPhases /\ expected \in SeqNum /\ lastAck \in SeqNum
      /\ out \in Seq(Int) /\ peer \in Addrs \cup {NoPeer}
  BY DEF TypeInv, TypeOK
<1> DEFINE ReceiverType == /\ rPhase' \in ReceiverPhases /\ expected' \in SeqNum
                           /\ lastAck' \in SeqNum /\ out' \in Seq(Int)
                           /\ peer' \in Addrs \cup {NoPeer}
           SenderType == /\ sPhase' \in SenderPhases /\ addr' \in Addrs
                         /\ base' \in Nat /\ nextSeq' \in Nat /\ eof' \in BOOLEAN
                         /\ base' <= nextSeq' /\ nextSeq' <= FileLen
<1>1. CASE SenderStep
  <2>0. ReceiverType
    BY <1>0, <1>1 DEF SenderStep, receiverVars
  <2> SUFFICES SenderType /\ net' \subseteq Packet
    BY <2>0 DEF TypeInv, TypeOK
  <2>1. ASSUME NEW b \in 0..FileLen, FillWindow(b)
        PROVE  /\ sPhase' \in SenderPhases /\ eof' \in BOOLEAN
               /\ base' = b /\ nextSeq' \in b..FileLen
    <3>1. /\ base' = b /\ nextSeq' = FilledTo(b)
      BY <2>1 DEF FillWindow
    <3>2. eof' \in BOOLEAN /\ sPhase' \in {"fin", "data"}
      BY <2>1 DEF FillWindow
    <3> QED BY <3>1, <3>2, FilledBound DEF SenderPhases
  <2>2. CASE SenderStart
    <3>1. PICK a \in Addrs : /\ addr' = a
                             /\ FillWindow(0)
                             /\ Send(NewData(0, nextSeq', a))
      BY <2>2 DEF SenderStart
    <3>2. SenderType /\ nextSeq' \in 0..FileLen
      BY <3>1, <2>1, <1>0 DEF SenderPhases
    <3>3. NewData(0, nextSeq', a) \subseteq Packet
      BY <3>2, NewDataType
    <3> QED BY <3>1, <3>2, <3>3, <1>0, NetworkBound
  <2>3. ASSUME NEW p \in net, RecvAck(p)
        PROVE  SenderType /\ net' \subseteq Packet
    <3>1. CASE base < nextSeq /\ p.seq >= Wire(base)
      <4>1. PICK k \in base..nextSeq :
                   /\ FillWindow(k)
                   /\ Receive(p, NewData(nextSeq, nextSeq', addr))
        BY <2>3, <3>1 DEF RecvAck
      <4>2. k \in 0..FileLen
        BY <1>0
      <4>3. SenderType /\ nextSeq' \in 0..FileLen
        BY <4>1, <4>2, <2>1, <1>0, <2>3 DEF RecvAck
      <4>4. NewData(nextSeq, nextSeq', addr) \subseteq Packet
        BY <4>3, <1>0, NewDataType
      <4> QED BY <4>1, <4>3, <4>4, <1>0, NetworkBound
    <3>2. CASE ~(base < nextSeq /\ p.seq >= Wire(base))
      BY <2>3, <3>2, <1>0, NetworkBound DEF RecvAck
    <3> QED BY <3>1, <3>2
  <2>4. CASE Retransmit
    <3>1. NewData(base, nextSeq, addr) \subseteq Packet
      BY <1>0, NewDataType
    <3> QED BY <2>4, <3>1, <1>0, NetworkBound DEF Retransmit, senderVars
  <2>5. CASE SendFin
    BY <2>5, <1>0, NetworkBound, PacketType DEF SendFin, senderVars
  <2>6. ASSUME NEW p \in net, RecvFinAck(p)
        PROVE  SenderType /\ net' \subseteq Packet
    BY <2>6, <1>0, NetworkBound DEF RecvFinAck, SenderPhases
  <2>7. CASE SenderFail
    BY <2>7, <1>0 DEF SenderFail, SenderPhases
  <2> QED BY <1>1, <2>2, <2>3, <2>4, <2>5, <2>6, <2>7 DEF SenderStep, SenderNext
<1>2. CASE ReceiverStep
  <2>0. SenderType
    BY <1>0, <1>2 DEF ReceiverStep, senderVars
  <2> SUFFICES ReceiverType /\ net' \subseteq Packet
    BY <2>0 DEF TypeInv, TypeOK
  <2>1. ASSUME NEW p \in net, LockPeer(p)
        PROVE  /\ peer' \in Addrs
               /\ LastAckAgain(peer') \subseteq Packet
               /\ \A n \in SeqNum : AckPacket(n, peer') \in Packet
               /\ p.seq \in SeqNum /\ p.chunk \in Int
    <3>1. p.addr \in Addrs /\ p.seq \in SeqNum /\ p.chunk \in Int
      BY <1>0 DEF Packet, NoChunk
    <3>2. peer' \in Addrs
      BY <3>1, <2>1, <1>0 DEF LockPeer
    <3> QED BY <3>1, <3>2, <1>0, PacketType DEF LastAckAgain
  <2>2. ASSUME NEW p \in net, RecvData(p)
        PROVE  ReceiverType /\ net' \subseteq Packet
    <3>1. LockPeer(p)
      BY <2>2 DEF RecvData
    <3>2. CASE InOrder(p)
      <4>1. /\ out' = Append(out, p.chunk) /\ lastAck' = expected
            /\ expected' = (expected + 1) % SeqMod
            /\ Receive(p, {AckPacket(expected, peer')})
            /\ rPhase' = rPhase
        BY <2>2, <3>2 DEF RecvData
      <4>2. expected' \in SeqNum
        BY <4>1, <1>0 DEF SeqNum
      <4>3. net' \subseteq Packet
        BY <4>1, <3>1, <2>1, <1>0, NetworkBound
      <4> QED BY <4>1, <4>2, <4>3, <3>1, <2>1, <1>0
    <3>3. CASE ~InOrder(p)
      BY <2>2, <3>3, <3>1, <2>1, <1>0, NetworkBound DEF RecvData
    <3> QED BY <3>2, <3>3
  <2>3. ASSUME NEW p \in net, RecvFin(p)
        PROVE  ReceiverType /\ net' \subseteq Packet
    <3>1. LockPeer(p)
      BY <2>3 DEF RecvFin
    <3>2. rPhase' \in ReceiverPhases /\ UNCHANGED <<expected, lastAck, out>>
      BY <2>3, <1>0 DEF RecvFin, ReceiverPhases
    <3>3. net' \subseteq Packet
      <4>1. CASE InOrder(p)
        BY <2>3, <4>1, <3>1, <2>1, <1>0, NetworkBound DEF RecvFin
      <4>2. CASE ~InOrder(p)
        BY <2>3, <4>2, <3>1, <2>1, <1>0, NetworkBound DEF RecvFin
      <4> QED BY <4>1, <4>2
    <3> QED BY <3>1, <3>2, <3>3, <2>1, <1>0
  <2>4. CASE Flush
    BY <2>4, <1>0 DEF Flush, ReceiverPhases
  <2>5. CASE ReceiverFail
    BY <2>5, <1>0 DEF ReceiverFail, ReceiverPhases
  <2> QED BY <1>2, <2>2, <2>3, <2>4, <2>5 DEF ReceiverStep, ReceiverNext
<1>3. CASE NetworkStep
  BY <1>3, <1>0 DEF NetworkStep, Lose, senderVars, receiverVars, TypeInv, TypeOK
<1>4. CASE UNCHANGED vars
  BY <1>4, <1>0 DEF vars, senderVars, receiverVars, TypeInv, TypeOK
<1> QED BY <1>1, <1>2, <1>3, <1>4 DEF Next

LEMMA TypeInit == Init => TypeInv
<1> SUFFICES ASSUME Init
             PROVE  TypeInv
  OBVIOUS
<1>1. NoDataYet \in SeqNum /\ 0 \in SeqNum
  BY SeqModAssumption DEF NoDataYet, SeqNum
<1>2. /\ sPhase \in SenderPhases /\ addr \in Addrs /\ eof \in BOOLEAN
      /\ base = 0 /\ nextSeq = 0
  BY DEF Init, SenderInit, SenderPhases
<1>3. /\ rPhase \in ReceiverPhases /\ expected \in SeqNum /\ lastAck \in SeqNum
      /\ out \in Seq(Int) /\ peer \in Addrs \cup {NoPeer} /\ net = {}
  BY <1>1 DEF Init, ReceiverInit, ReceiverPhases
<1> QED BY <1>2, <1>3, FileLenAssumption DEF TypeInv, TypeOK

(* Every variable keeps its type, also when sequence numbers wrap around.  *)
THEOREM TypeCorrect == Spec => []TypeOK
<1>1. TypeInv => TypeOK
  BY DEF TypeInv
<1> QED BY <1>1, TypeInit, TypeStep, PTL DEF Spec

-----------------------------------------------------------------------------
(* The inductive invariant.  An acknowledgement in flight is what relates  *)
(* the sender's window to the receiver's output, so it says of every       *)
(* datagram in flight what it claims; the other conjuncts keep that true   *)
(* across new runs of the sender, repeated datagrams and the FIN.          *)

(* The receiver only moves forward, which keeps what a datagram says true. *)
LEMMA OldPackets ==
    ASSUME TypeOK, \A p \in net : PacketInv(p),
           expected' \in expected..FileLen,
           peer # NoPeer => peer' = peer,
           rPhase # "receiving" => rPhase' # "receiving"
    PROVE  \A p \in net : PacketInv(p)'
<1> SUFFICES ASSUME NEW p \in net
             PROVE  PacketInv(p)'
  OBVIOUS
<1>1. PacketInv(p) /\ p \in Packet
  BY DEF TypeOK
<1>2. p.addr \in Addrs /\ p.seq \in Int
  BY <1>1, SeqModAssumption DEF Packet, SeqNum
<1>3. expected \in Int /\ expected' \in Int /\ expected <= expected' /\ expected' <= FileLen
  BY FileLenAssumption, SeqModAssumption DEF TypeOK, SeqNum
<1>4. p.type = "Data" => p.chunk = p.seq /\ p.seq < FileLen
  BY <1>1 DEF PacketInv
<1>5. p.type = "Fin" => p.seq = FileLen /\ expected' = FileLen
  BY <1>1, <1>3, FileLenAssumption DEF PacketInv
<1>6. ASSUME p.type = "Ack"
      PROVE  p.addr = peer' /\ AckIsTrue(p)'
  <2>1. p.addr = peer /\ AckIsTrue(p)
    BY <1>1, <1>6 DEF PacketInv
  <2>2. p.addr = peer'
    BY <2>1, <1>2, NoPeerAssumption
  <2>3. AckIsTrue(p)'
    BY <2>1, <1>2, <1>3, FileLenAssumption DEF AckIsTrue
  <2> QED BY <2>2, <2>3
<1> QED BY <1>4, <1>5, <1>6 DEF PacketInv

(* The chunks sent are what their sequence numbers say. *)
LEMMA NewDataInv ==
    ASSUME NoWrap, NEW first \in Nat, NEW last \in 0..FileLen, NEW a
    PROVE  \A p \in NewData(first, last, a) : PacketInv(p)'
<1> SUFFICES ASSUME NEW k \in first..(last - 1)
             PROVE  PacketInv(DataPacket(k, a))'
  BY DEF NewData
<1>1. k \in 0..FileLen /\ k < FileLen
  BY FileLenAssumption
<1>2. Wire(k) = k
  BY <1>1, WireType
<1> QED BY <1>1, <1>2 DEF PacketInv, DataPacket

LEMMA InvInit == Init => IInv
<1> SUFFICES ASSUME Init
             PROVE  IInv
  OBVIOUS
<1> USE FileLenAssumption
<1>1. TypeOK
  BY TypeInit DEF TypeInv
<1>2. SenderInv
  BY DEF Init, SenderInit, SenderInv
<1>3. ReceiverInv
  BY DEF Init, ReceiverInit, ReceiverInv
<1>4. \A p \in net : PacketInv(p)
  BY DEF Init
<1>5. WindowInv
  BY DEF Init, SenderInit, ReceiverInit, WindowInv
<1> QED BY <1>1, <1>2, <1>3, <1>4, <1>5 DEF IInv

(* The invariant of the window right after fill_window. *)
LEMMA FillWindowInv ==
    ASSUME NEW b \in 0..FileLen, FillWindow(b)
    PROVE  /\ SenderInv'
           /\ base' = b /\ nextSeq' \in b..FileLen
           /\ sPhase' \in {"data", "fin"}
<1> USE FileLenAssumption, WindowAssumption
<1>1. /\ base' = b /\ nextSeq' = FilledTo(b) /\ eof' = (FileLen < b + Window)
      /\ sPhase' = IF eof' /\ b = nextSeq' THEN "fin" ELSE "data"
  BY DEF FillWindow
<1>2. nextSeq' \in b..FileLen
  BY <1>1, FilledBound
<1>3. sPhase' = "fin" => base' = FileLen
  BY <1>1, FilledBound
<1>4. nextSeq' = FilledTo(base') /\ eof' = (FileLen < base' + Window)
  BY <1>1
<1>5. sPhase' \in {"data", "fin"} /\ sPhase' # "idle" /\ sPhase' # "done"
  BY <1>1
<1>6. 0 <= base' /\ base' <= nextSeq' /\ nextSeq' <= FileLen
  BY <1>1, <1>2
<1>7. SenderInv'
  BY <1>3, <1>4, <1>5, <1>6 DEF SenderInv, FilledTo
<1> QED BY <1>1, <1>2, <1>5, <1>7

(* A step of the sender keeps the invariant. *)
LEMMA SenderStepInv ==
    ASSUME NoWrap, IInv, TypeOK', SenderStep
    PROVE  IInv'
<1> USE FileLenAssumption, SeqModAssumption, WindowAssumption
<1>0. /\ TypeOK /\ SenderInv /\ ReceiverInv /\ WindowInv
      /\ \A p \in net : PacketInv(p)
  BY DEF IInv
<1>1. /\ base \in Nat /\ nextSeq \in Nat /\ expected \in Nat /\ addr \in Addrs
      /\ base <= nextSeq /\ nextSeq <= FileLen /\ expected <= FileLen
      /\ base <= expected
  BY <1>0 DEF TypeOK, SenderInv, ReceiverInv, WindowInv, SeqNum
<1>2. /\ expected' = expected /\ peer' = peer /\ rPhase' = rPhase
      /\ out' = out /\ lastAck' = lastAck
  BY DEF SenderStep, receiverVars
<1>3. ReceiverInv'
  BY <1>0, <1>2 DEF ReceiverInv
<1>4. \A p \in net : PacketInv(p)'
  BY <1>0, <1>1, <1>2, OldPackets
<1> DEFINE Goal == SenderInv' /\ WindowInv' /\ \A p \in net' : PacketInv(p)'
<1> SUFFICES Goal
  BY <1>0, <1>3 DEF IInv
<1>5. CASE SenderStart
  <2>1. PICK a \in Addrs : /\ addr' = a
                           /\ FillWindow(0)
                           /\ Send(NewData(0, nextSeq', a))
    BY <1>5 DEF SenderStart
  <2>2. /\ SenderInv' /\ base' = 0 /\ nextSeq' \in 0..FileLen
        /\ sPhase' \in {"data", "fin"}
    BY <2>1, FillWindowInv
  <2>3. WindowInv'
    BY <2>2, <1>1, <1>2 DEF WindowInv
  <2>4. \A p \in NewData(0, nextSeq', a) : PacketInv(p)'
    BY <2>2, NewDataInv
  <2>5. net' \subseteq net \cup NewData(0, nextSeq', a)
    BY <2>1, NetworkBound
  <2> QED BY <2>2, <2>3, <2>4, <2>5, <1>4
<1>6. ASSUME NEW p \in net, RecvAck(p)
      PROVE  Goal
  <2>1. /\ p.type = "Ack" /\ p.addr = addr /\ addr' = addr /\ sPhase = "data"
    BY <1>6 DEF RecvAck
  <2>2. p.addr = peer /\ AckIsTrue(p) /\ p.seq \in Nat
    BY <2>1, <1>0 DEF PacketInv, TypeOK, Packet, SeqNum
  <2>3. CASE base < nextSeq /\ p.seq >= Wire(base)
    <3>1. PICK k \in base..nextSeq :
                 /\ PopsTo(p.seq, k)
                 /\ FillWindow(k)
                 /\ Receive(p, NewData(nextSeq, nextSeq', addr))
      BY <1>6, <2>3 DEF RecvAck
    <3>2. k \in 0..FileLen
      BY <1>1
    <3>3. /\ SenderInv' /\ base' = k /\ nextSeq' \in k..FileLen
          /\ sPhase' \in {"data", "fin"}
      BY <3>1, <3>2, FillWindowInv
    <3>4. k <= expected
      <4>1. CASE k = base
        BY <4>1, <1>1
      <4>2. CASE k > base
        <5>1. k - 1 \in base..(k - 1) /\ k - 1 \in 0..FileLen
          BY <4>2, <3>2, <1>1
        <5>2. k - 1 <= p.seq
          BY <5>1, <3>1, WireType DEF PopsTo
        <5> QED BY <5>2, <3>2, <2>2, <1>1 DEF AckIsTrue
      <4> QED BY <4>1, <4>2, <1>1
    <3>5. WindowInv'
      BY <3>3, <3>4, <2>1, <2>2, <1>2 DEF WindowInv
    <3>6. \A q \in NewData(nextSeq, nextSeq', addr) : PacketInv(q)'
      BY <3>2, <3>3, <1>1, NewDataInv
    <3>7. net' \subseteq net \cup NewData(nextSeq, nextSeq', addr)
      BY <3>1, NetworkBound
    <3> QED BY <3>3, <3>5, <3>6, <3>7, <1>4
  <2>4. CASE ~(base < nextSeq /\ p.seq >= Wire(base))
    <3>1. UNCHANGED senderVars /\ Receive(p, {})
      BY <1>6, <2>4, <2>1 DEF RecvAck, senderVars
    <3>2. SenderInv' /\ WindowInv'
      BY <3>1, <1>0, <1>2 DEF SenderInv, WindowInv, senderVars, FilledTo
    <3> QED BY <3>1, <3>2, <1>4, NetworkBound
  <2> QED BY <2>3, <2>4
<1>7. CASE Retransmit
  <2>1. UNCHANGED senderVars /\ Send(NewData(base, nextSeq, addr))
    BY <1>7 DEF Retransmit
  <2>2. SenderInv' /\ WindowInv'
    BY <2>1, <1>0, <1>2 DEF SenderInv, WindowInv, senderVars, FilledTo
  <2>3. \A q \in NewData(base, nextSeq, addr) : PacketInv(q)'
    BY <1>1, NewDataInv
  <2> QED BY <2>1, <2>2, <2>3, <1>4, NetworkBound
<1>8. CASE SendFin
  <2>1. /\ UNCHANGED senderVars /\ Send({FinPacket(nextSeq, addr)})
        /\ sPhase = "fin"
    BY <1>8 DEF SendFin
  <2>2. SenderInv' /\ WindowInv'
    BY <2>1, <1>0, <1>2 DEF SenderInv, WindowInv, senderVars, FilledTo
  <2>3. base = FileLen /\ nextSeq = FileLen /\ expected = FileLen
    BY <2>1, <1>0, <1>1 DEF SenderInv
  <2>4. Wire(nextSeq) = FileLen
    BY <2>3, WireType
  <2>5. \A q \in {FinPacket(nextSeq, addr)} : PacketInv(q)'
    BY <2>3, <2>4, <1>2 DEF PacketInv, FinPacket
  <2> QED BY <2>1, <2>2, <2>5, <1>4, NetworkBound
<1>9. ASSUME NEW p \in net, RecvFinAck(p)
      PROVE  Goal
  <2>1. /\ p.type = "Ack" /\ p.addr = addr /\ sPhase = "fin"
        /\ Receive(p, {}) /\ UNCHANGED <<addr, base, nextSeq, eof>>
        /\ sPhase' = IF FinAcked(p) THEN "done" ELSE "fin"
    BY <1>9 DEF RecvFinAck
  <2>2. p.addr = peer /\ AckIsTrue(p) /\ p.seq \in Nat
    BY <2>1, <1>0 DEF PacketInv, TypeOK, Packet, SeqNum
  <2>3. base = FileLen /\ nextSeq = FileLen /\ expected = FileLen
    BY <2>1, <1>0, <1>1 DEF SenderInv
  <2>4. FinAcked(p) => p.seq = FileLen
    BY <2>3, WireType DEF FinAcked
  <2>5. FinAcked(p) => rPhase # "receiving"
    BY <2>4, <2>2, <2>3 DEF AckIsTrue
  <2>6. WindowInv'
    BY <2>1, <2>2, <2>3, <2>5, <1>0, <1>1, <1>2 DEF WindowInv
  <2>7. SenderInv'
    BY <2>1, <2>3, <1>0 DEF SenderInv, FilledTo
  <2> QED BY <2>1, <2>6, <2>7, <1>4, NetworkBound
<1>10. CASE SenderFail
  <2>1. /\ UNCHANGED <<addr, base, nextSeq, eof, net>> /\ sPhase' = "failed"
    BY <1>10 DEF SenderFail
  <2>2. SenderInv' /\ WindowInv'
    BY <2>1, <1>0, <1>2 DEF SenderInv, WindowInv
  <2> QED BY <2>1, <2>2, <1>4
<1> QED BY <1>5, <1>6, <1>7, <1>8, <1>9, <1>10 DEF SenderStep, SenderNext

(* A step of the receiver keeps the invariant. *)
LEMMA ReceiverStepInv ==
    ASSUME NoWrap, IInv, TypeOK', ReceiverStep
    PROVE  IInv'
<1> USE FileLenAssumption, SeqModAssumption
<1>0. /\ TypeOK /\ SenderInv /\ ReceiverInv /\ WindowInv
      /\ \A p \in net : PacketInv(p)
  BY DEF IInv
<1>1. /\ expected \in Nat /\ base \in Nat /\ addr \in Addrs
      /\ expected <= FileLen /\ base <= expected
      /\ out \in Seq(Int) /\ Len(out) = expected
      /\ \A i \in 1..Len(out) : out[i] = i - 1
  BY <1>0 DEF TypeOK, ReceiverInv, WindowInv, SeqNum
<1>2. UNCHANGED senderVars
  BY DEF ReceiverStep
<1>3. SenderInv'
  BY <1>0, <1>2 DEF SenderInv, senderVars, FilledTo
(* Whatever the receiver does, it moves forward; the rest follows. *)
<1>4. ASSUME ReceiverInv',
             expected' \in expected..FileLen,
             peer # NoPeer => peer' = peer,
             rPhase # "receiving" => rPhase' # "receiving",
             NEW S, net' \subseteq net \cup S, \A q \in S : PacketInv(q)'
      PROVE  IInv'
  <2>1. \A p \in net : PacketInv(p)'
    BY <1>0, <1>4, OldPackets
  <2>2. base > 0 => peer # NoPeer
    BY <1>0, <1>1, NoPeerAssumption DEF WindowInv
  <2>3. WindowInv'
    <3>1. base' = base /\ addr' = addr /\ sPhase' = sPhase /\ expected' \in Nat
      BY <1>1, <1>2, <1>4 DEF senderVars
    <3>2. base' <= expected'
      BY <3>1, <1>1, <1>4
    <3>3. base' > 0 => addr' = peer'
      BY <3>1, <2>2, <1>0, <1>4 DEF WindowInv
    <3>4. ASSUME sPhase' = "done"
          PROVE  expected' = FileLen /\ rPhase' # "receiving" /\ addr' = peer'
      <4>1. expected = FileLen /\ rPhase # "receiving" /\ addr = peer
        BY <3>1, <3>4, <1>0 DEF WindowInv
      <4> QED BY <4>1, <3>1, <1>1, <1>4, NoPeerAssumption
    <3> QED BY <3>2, <3>3, <3>4 DEF WindowInv
  <2> QED BY <2>1, <2>3, <1>3, <1>4 DEF IInv
<1>5. ASSUME NEW p \in net, LockPeer(p)
      PROVE  /\ peer # NoPeer => peer' = peer
             /\ p \in Packet /\ PacketInv(p)
  BY <1>0, <1>5 DEF LockPeer, TypeOK
(* The last acknowledgement sent again says nothing new. *)
<1>6. ASSUME ReceiverInv', UNCHANGED <<expected, lastAck>>
      PROVE  \A q \in LastAckAgain(peer') : PacketInv(q)'
  <2> SUFFICES ASSUME lastAck # NoDataYet
               PROVE  \A q \in {AckPacket(lastAck, peer')} : PacketInv(q)'
    BY DEF LastAckAgain
  <2>1. lastAck = expected - 1
    BY <1>0 DEF ReceiverInv
  <2>2. lastAck < expected'
    BY <2>1, <1>1, <1>6
  <2> QED BY <2>2 DEF PacketInv, AckPacket, AckIsTrue
<1>7. ASSUME NEW p \in net, RecvData(p)
      PROVE  IInv'
  <2>1. LockPeer(p) /\ p.type = "Data" /\ rPhase' = rPhase /\ rPhase = "receiving"
    BY <1>7 DEF RecvData
  <2>2. CASE InOrder(p)
    <3>1. /\ out' = Append(out, p.chunk) /\ lastAck' = expected
          /\ expected' = (expected + 1) % SeqMod
          /\ Receive(p, {AckPacket(expected, peer')})
      BY <1>7, <2>2 DEF RecvData
    <3>2. p.chunk = expected /\ expected < FileLen
      BY <2>1, <2>2, <1>5 DEF InOrder, PacketInv
    <3>3. expected' = expected + 1
      <4>1. expected + 1 \in 0..FileLen /\ (expected + 1) % SeqMod = Wire(expected + 1)
        BY <3>2, <1>1 DEF Wire
      <4> QED BY <4>1, <3>1, WireType
    <3>4. Len(out') = expected' /\ \A i \in 1..Len(out') : out'[i] = i - 1
      BY <3>1, <3>2, <3>3, <1>1
    <3>5. ReceiverInv'
      BY <3>1, <3>2, <3>3, <3>4, <2>1, <1>1 DEF ReceiverInv
    <3>6. \A q \in {AckPacket(expected, peer')} : PacketInv(q)'
      BY <3>3, <1>1 DEF PacketInv, AckPacket, AckIsTrue
    <3>7. expected' \in expected..FileLen
      BY <3>2, <3>3, <1>1
    <3>8. net' \subseteq net \cup {AckPacket(expected, peer')}
      BY <3>1, NetworkBound
    <3>9. /\ peer # NoPeer => peer' = peer
          /\ rPhase # "receiving" => rPhase' # "receiving"
      BY <2>1, <1>5
    <3> QED BY <3>5, <3>6, <3>7, <3>8, <3>9, <1>4
  <2>3. CASE ~InOrder(p)
    <3>1. /\ UNCHANGED <<out, lastAck, expected>> /\ Receive(p, LastAckAgain(peer'))
      BY <1>7, <2>3 DEF RecvData
    <3>2. ReceiverInv'
      BY <3>1, <2>1, <1>0 DEF ReceiverInv
    <3>3. expected' \in expected..FileLen
      BY <3>1, <1>1
    <3>4. \A q \in LastAckAgain(peer') : PacketInv(q)'
      BY <3>1, <3>2, <1>6
    <3> QED BY <3>1, <3>2, <3>3, <3>4, <2>1, <1>4, <1>5, NetworkBound
  <2> QED BY <2>2, <2>3
<1>8. ASSUME NEW p \in net, RecvFin(p)
      PROVE  IInv'
  <2>1. /\ LockPeer(p) /\ p.type = "Fin" /\ rPhase = "receiving"
        /\ UNCHANGED <<expected, lastAck, out>>
    BY <1>8 DEF RecvFin
  <2>2. p.seq = FileLen /\ expected = FileLen
    BY <2>1, <1>5 DEF PacketInv
  <2>3. rPhase' = "closing" /\ Receive(p, {AckPacket(p.seq, peer')})
    BY <1>8, <2>2 DEF RecvFin, InOrder
  <2>4. ReceiverInv'
    BY <2>1, <2>2, <2>3, <1>0 DEF ReceiverInv
  <2>5. \A q \in {AckPacket(p.seq, peer')} : PacketInv(q)'
    BY <2>1, <2>2, <2>3 DEF PacketInv, AckPacket, AckIsTrue
  <2>6. expected' \in expected..FileLen
    BY <2>1, <1>1
  <2> QED BY <2>1, <2>3, <2>4, <2>5, <2>6, <1>4, <1>5, NetworkBound
<1>9. CASE Flush \/ ReceiverFail
  <2>1. /\ UNCHANGED <<expected, lastAck, out, peer, net>>
        /\ rPhase' \in {"done", "failed"}
        /\ rPhase' = "done" => rPhase = "closing"
    BY <1>9 DEF Flush, ReceiverFail
  <2>2. ReceiverInv'
    BY <2>1, <1>0 DEF ReceiverInv
  <2>3. expected' \in expected..FileLen
    BY <2>1, <1>1
  <2>4. /\ peer # NoPeer => peer' = peer
        /\ rPhase # "receiving" => rPhase' # "receiving"
    BY <2>1
  <2> DEFINE None == {}
  <2>5. net' \subseteq net \cup None /\ \A q \in None : PacketInv(q)'
    BY <2>1
  <2> HIDE DEF None
  <2> QED BY <2>2, <2>3, <2>4, <2>5, <1>4
<1> QED BY <1>7, <1>8, <1>9 DEF ReceiverStep, ReceiverNext

LEMMA InvStep ==
    ASSUME NoWrap
    PROVE  IInv /\ [Next]_vars => IInv'
<1> SUFFICES ASSUME IInv, [Next]_vars
             PROVE  IInv'
  OBVIOUS
<1>0. TypeOK'
  BY TypeStep DEF TypeInv, IInv, SenderInv
<1>1. CASE SenderStep
  BY <1>0, <1>1, SenderStepInv
<1>2. CASE ReceiverStep
  BY <1>0, <1>2, ReceiverStepInv
<1>3. CASE NetworkStep \/ UNCHANGED vars
  <2>1. UNCHANGED <<senderVars, receiverVars>> /\ net' \subseteq net
    BY <1>3 DEF NetworkStep, Lose, vars
  <2>2. \A p : PacketInv(p) = PacketInv(p)'
    BY <2>1 DEF receiverVars, PacketInv, AckIsTrue
  <2>3. \A p \in net' : PacketInv(p)'
    BY <2>1, <2>2 DEF IInv
  <2>4. SenderInv' /\ WindowInv'
    BY <2>1 DEF IInv, SenderInv, WindowInv, senderVars, receiverVars, FilledTo
  <2>5. ReceiverInv'
    BY <2>1 DEF IInv, ReceiverInv, receiverVars
  <2> QED BY <1>0, <2>3, <2>4, <2>5 DEF IInv
<1> QED BY <1>1, <1>2, <1>3 DEF Next

(* The inductive invariant holds for every file length, window and set of  *)
(* addresses, as long as the file has fewer chunks than there are sequence *)
(* numbers.                                                                *)
THEOREM Inductive == ASSUME NoWrap PROVE Spec => []IInv
  BY InvInit, InvStep, PTL DEF Spec

(* Loss, repetition, reordering and new runs of the sender never put a     *)
(* wrong chunk into the receiver's output (rdt_receiver.cpp:86-103).       *)
THEOREM PrefixCorrect == ASSUME NoWrap PROVE Spec => []PrefixDelivered
<1>1. IInv => PrefixDelivered
  BY DEF IInv, ReceiverInv, PrefixDelivered
<1> QED BY <1>1, Inductive, PTL

(* No chunk leaves the sender's window before it is written                *)
(* (rdt_sender.cpp:120-125).                                               *)
THEOREM WindowCorrect == ASSUME NoWrap PROVE Spec => []WindowHoldsUnacked
<1>1. IInv => WindowHoldsUnacked
  BY DEF IInv, ReceiverInv, WindowInv, WindowHoldsUnacked
<1> QED BY <1>1, Inductive, PTL

(* Exit status 0 of the sender means that the receiver has the whole file  *)
(* (rdt_sender.cpp:209).                                                   *)
THEOREM DoneCorrect == ASSUME NoWrap PROVE Spec => []DoneMeansDelivered
<1>1. IInv => DoneMeansDelivered
  BY DEF IInv, ReceiverInv, WindowInv, DoneMeansDelivered
<1> QED BY <1>1, Inductive, PTL

(* Only the run of the sender the receiver has locked on to makes progress *)
(* (rdt_receiver.cpp:80-84).                                               *)
THEOREM LockoutCorrect == ASSUME NoWrap PROVE Spec => []PeerLockout
<1>1. IInv => PeerLockout
  BY DEF IInv, TypeOK, WindowInv, PeerLockout
<1> QED BY <1>1, Inductive, PTL

-----------------------------------------------------------------------------
(* Nothing acknowledged is taken back (rdt_receiver.cpp:86-114).           *)
LEMMA AcksStep ==
    ASSUME NoWrap, IInv, IInv', [Next]_vars
    PROVE  [ /\ lastAck # NoDataYet => lastAck' \in lastAck..(FileLen - 1)
             /\ rPhase # "receiving" => UNCHANGED <<out, lastAck, peer>> ]_vars
<1>1. /\ expected \in Nat /\ expected' \in Nat
      /\ expected <= FileLen /\ expected' <= FileLen
      /\ lastAck = (IF expected = 0 THEN NoDataYet ELSE expected - 1)
      /\ lastAck' = (IF expected' = 0 THEN NoDataYet ELSE expected' - 1)
  BY DEF IInv, TypeOK, ReceiverInv, SeqNum, NoDataYet
<1>2. expected <= expected' /\ (rPhase # "receiving" => UNCHANGED <<out, lastAck, peer>>)
  <2>1. CASE ReceiverStep
    <3>1. ASSUME NEW p \in net, RecvData(p)
          PROVE  expected <= expected' /\ rPhase = "receiving"
      <4>1. CASE InOrder(p)
        <5>1. expected' = (expected + 1) % SeqMod /\ p.type = "Data" /\ p.seq = expected
          BY <3>1, <4>1 DEF RecvData, InOrder
        <5>2. expected + 1 \in 0..FileLen
          BY <5>1, <1>1, FileLenAssumption DEF IInv, PacketInv
        <5>3. expected' = expected + 1
          BY <5>1, <5>2, WireType DEF Wire
        <5> QED BY <5>3, <1>1, <3>1 DEF RecvData
      <4>2. CASE ~InOrder(p)
        BY <3>1, <4>2, <1>1 DEF RecvData
      <4> QED BY <4>1, <4>2
    <3>2. ASSUME NEW p \in net, RecvFin(p)
          PROVE  expected <= expected' /\ rPhase = "receiving"
      BY <3>2, <1>1 DEF RecvFin
    <3>3. CASE Flush \/ ReceiverFail
      BY <3>3, <1>1 DEF Flush, ReceiverFail
    <3> QED BY <2>1, <3>1, <3>2, <3>3 DEF ReceiverStep, ReceiverNext
  <2>2. CASE UNCHANGED receiverVars
    BY <2>2, <1>1 DEF receiverVars
  <2> QED BY <2>1, <2>2 DEF Next, SenderStep, NetworkStep, vars
<1>3. lastAck # NoDataYet => lastAck' \in lastAck..(FileLen - 1)
  BY <1>1, <1>2, FileLenAssumption
<1> QED BY <1>2, <1>3

THEOREM AcksCorrect == ASSUME NoWrap PROVE Spec => AcksNeverGoBack
<1>1. IInv /\ IInv' /\ [Next]_vars =>
         [ /\ lastAck # NoDataYet => lastAck' \in lastAck..(FileLen - 1)
           /\ rPhase # "receiving" => UNCHANGED <<out, lastAck, peer>> ]_vars
  BY AcksStep
<1> QED BY <1>1, Inductive, PTL DEF Spec, AcksNeverGoBack

-----------------------------------------------------------------------------
(* Refinement.  Only a chunk in order, the end of the receiver and the end *)
(* or failure of a run are seen by the abstract specification; every other *)
(* step leaves its variables alone.                                        *)
LEMMA TransferInit == Init => Transfer!Init
  BY DEF Init, SenderInit, ReceiverInit, Transfer!Init

LEMMA TransferStep ==
    ASSUME NoWrap, IInv, [Next]_vars
    PROVE  [Transfer!Next]_Transfer!vars
<1> USE FileLenAssumption
<1>0. /\ out \in Seq(Int) /\ Len(out) = expected
      /\ expected \in Nat /\ expected <= FileLen
      /\ rPhase \in ReceiverPhases /\ sPhase \in SenderPhases
      /\ rPhase \in {"closing", "done"} => expected = FileLen
      /\ \A p \in net : PacketInv(p)
  BY DEF IInv, TypeOK, ReceiverInv, SeqNum
<1>1. ASSUME UNCHANGED receiverVars, UNCHANGED sPhase
      PROVE  UNCHANGED Transfer!vars
  BY <1>1 DEF receiverVars, Transfer!vars
<1>2. CASE SenderStep
  <2>0. UNCHANGED receiverVars /\ UNCHANGED <<out, rPhase>>
    BY <1>2 DEF SenderStep, receiverVars
  <2>1. ASSUME sPhase \in {"idle", "data"}, sPhase' \in {"data", "fin"}
        PROVE  UNCHANGED Transfer!vars
    BY <2>0, <2>1 DEF Transfer!vars
  <2>2. CASE SenderStart
    <3>1. sPhase' \in {"data", "fin"} /\ sPhase \in {"idle", "failed"}
      BY <2>2 DEF SenderStart, FillWindow
    <3>2. CASE sPhase = "idle"
      BY <3>1, <3>2, <2>1
    <3>3. CASE sPhase = "failed"
      BY <3>1, <3>3, <2>0 DEF Transfer!Next, Transfer!Retry
    <3> QED BY <3>1, <3>2, <3>3
  <2>3. ASSUME NEW p \in net, RecvAck(p)
        PROVE  UNCHANGED Transfer!vars
    <3>1. sPhase = "data" /\ sPhase' \in {"data", "fin"}
      BY <2>3 DEF RecvAck, FillWindow
    <3> QED BY <3>1, <2>1
  <2>4. CASE Retransmit \/ SendFin
    BY <2>4, <2>0, <1>1 DEF Retransmit, SendFin, senderVars
  <2>5. ASSUME NEW p \in net, RecvFinAck(p)
        PROVE  [Transfer!Next]_Transfer!vars
    <3>1. sPhase = "fin" /\ sPhase' = IF FinAcked(p) THEN "done" ELSE "fin"
      BY <2>5 DEF RecvFinAck
    <3>2. CASE FinAcked(p)
      <4>1. p.type = "Ack" /\ nextSeq = FileLen /\ p.seq = Wire(nextSeq) /\ nextSeq \in Nat
        BY <2>5, <3>2, <3>1, WindowAssumption
        DEF RecvFinAck, FinAcked, IInv, SenderInv, TypeOK, FilledTo
      <4>2. AckIsTrue(p) /\ p.seq = FileLen
        BY <4>1, <1>0, WireType DEF PacketInv
      <4>3. expected = FileLen /\ rPhase # "receiving"
        BY <4>2, <1>0 DEF AckIsTrue
      <4>4. Transfer!ReportSuccess
        BY <4>3, <3>1, <3>2, <2>0, <1>0 DEF Transfer!ReportSuccess, ReceiverPhases
      <4> QED BY <4>4 DEF Transfer!Next
    <3>3. CASE ~FinAcked(p)
      BY <3>1, <3>3, <2>0, <1>1
    <3> QED BY <3>2, <3>3
  <2>6. CASE SenderFail
    <3>1. sPhase \in {"data", "fin"} /\ sPhase' = "failed"
      BY <2>6 DEF SenderFail
    <3>2. Transfer!ReportFailure
      BY <3>1, <2>0 DEF Transfer!ReportFailure
    <3> QED BY <3>2 DEF Transfer!Next
  <2> QED BY <1>2, <2>2, <2>3, <2>4, <2>5, <2>6 DEF SenderStep, SenderNext
<1>3. CASE ReceiverStep
  <2>0. UNCHANGED sPhase
    BY <1>3 DEF ReceiverStep, senderVars
  <2>1. ASSUME NEW p \in net, RecvData(p)
        PROVE  [Transfer!Next]_Transfer!vars
    <3>1. rPhase = "receiving" /\ rPhase' = rPhase /\ p.type = "Data"
      BY <2>1 DEF RecvData
    <3>2. CASE InOrder(p)
      <4>1. p.chunk = expected /\ expected < FileLen /\ out' = Append(out, p.chunk)
        BY <2>1, <3>1, <3>2, <1>0 DEF RecvData, InOrder, PacketInv
      <4>2. Transfer!Deliver
        BY <4>1, <3>1, <2>0, <1>0 DEF Transfer!Deliver
      <4> QED BY <4>2 DEF Transfer!Next
    <3>3. CASE ~InOrder(p)
      <4>1. out' = out
        BY <2>1, <3>3 DEF RecvData
      <4> QED BY <4>1, <3>1, <2>0 DEF Transfer!vars
    <3> QED BY <3>2, <3>3
  <2>2. ASSUME NEW p \in net, RecvFin(p)
        PROVE  [Transfer!Next]_Transfer!vars
    <3>1. /\ rPhase = "receiving" /\ p.type = "Fin" /\ out' = out
      BY <2>2 DEF RecvFin
    <3>2. p.seq = expected /\ expected = FileLen
      BY <3>1, <1>0 DEF PacketInv
    <3>3. rPhase' = "closing"
      BY <2>2, <3>2 DEF RecvFin, InOrder
    <3>4. Transfer!Close
      BY <3>1, <3>2, <3>3, <2>0, <1>0 DEF Transfer!Close
    <3> QED BY <3>4 DEF Transfer!Next
  <2>3. CASE Flush
    BY <2>3, <2>0 DEF Flush, Transfer!vars
  <2>4. CASE ReceiverFail
    <3>1. rPhase \in {"receiving", "closing"} /\ rPhase' = "failed" /\ out' = out
      BY <2>4 DEF ReceiverFail
    <3>2. Transfer!Break
      BY <3>1, <2>0 DEF Transfer!Break
    <3> QED BY <3>2 DEF Transfer!Next
  <2> QED BY <1>3, <2>1, <2>2, <2>3, <2>4 DEF ReceiverStep, ReceiverNext
<1>4. CASE NetworkStep \/ UNCHANGED vars
  BY <1>4, <1>1 DEF NetworkStep, vars, senderVars
<1> QED BY <1>2, <1>3, <1>4 DEF Next

(* RDTP implements ReliableTransfer for every file, window and number of   *)
(* runs of the sender (README.md:43-50).                                   *)
THEOREM Refinement == ASSUME NoWrap PROVE Spec => ImplementsReliableTransfer
<1>1. IInv /\ [Next]_vars => [Transfer!Next]_Transfer!vars
  BY TransferStep
<1> QED BY <1>1, TransferInit, Inductive, PTL
        DEF Spec, ImplementsReliableTransfer, Transfer!Spec

=============================================================================
