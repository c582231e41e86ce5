------------------------------ MODULE DNSReply ------------------------------
(***************************************************************************)
(* What a name server means and the packet it writes for it (RFC 1035,     *)
(* 4.1): the records of three sections, whose names are written label by   *)
(* label or end with a pointer to a name that is written before.  Not code *)
(* of the resolver: what parseDNSResponse() of dns-resolver/ is held       *)
(* against.  A packet is a sequence of cells: a byte of a name or of data  *)
(* is a cell, and so is a field of a header, a question or a record,       *)
(* whatever its width.  A byte of a name is the length of a label or, from *)
(* Ptr on, the first half of a pointer.                                    *)
(***************************************************************************)
EXTENDS Integers, Sequences

CONSTANTS
    Base, Ptr,    \* 256, 0xC0: values of a byte, the least that is a pointer
    AddressLen    \* bytes of an address, by type

Cell == 0..(Base - 1)
TypeA == 1
TypeNS == 2
TypeCNAME == 5
TypeAAAA == 28

(* id, flags and four counts; qtype and qclass; type, class, ttl, length.  *)
(* Of the flags only the RCODE is left.                                    *)
HeaderLen   == 6
QuestionLen == 2
FixedLen    == 4

Label   == Seq(Cell)
Record  == [owner : Seq(Label), type : Cell, address : Seq(Cell), target : Seq(Label)]
Section == {"questions", "answers", "authority", "additional"}
NextSection == [questions |-> "answers", answers |-> "authority", authority |-> "additional"]

(* Where the count of a section is in the header.                          *)
CountAt(s) == CASE s = "questions" -> 2 [] s = "answers"    -> 3
                [] s = "authority" -> 4 [] s = "additional" -> 5

(* A name, or what is left of one after some labels: where it is written,  *)
(* what follows it, and the pointers it goes through.                      *)
Name == [at : Nat, end : Nat, labels : Seq(Label), chain : Nat]

(* What is meant; the packet; the names that are written in it, and where  *)
(* the items of each section start, with the place after the last one.     *)
(* chain bounds the number of pointers a name goes through.                *)
Reply == [packet : Seq(Cell), chain : Nat,
          meant  : [answers : Seq(Record), authority : Seq(Record), additional : Seq(Record)],
          names  : SUBSET Name,
          places : [Section -> Seq(Nat)]]

Byte(r, k) == r.packet[k + 1]
Bytes(r, from, length) == SubSeq(r.packet, from + 1, from + length)

(* The end of a name, a label and the rest of the name, or a pointer to a  *)
(* name that ends before it.                                               *)
IsEnd(m, r) ==
    Byte(r, m.at) = 0 /\ m.end = m.at + 1 /\ m.labels = <<>> /\ m.chain = 0

StartsWithLabel(m, r) ==
    \E n \in r.names :
        /\ Byte(r, m.at) \in 1..(Ptr - 1) /\ n.at = m.at + Byte(r, m.at) + 1
        /\ n.end = m.end /\ n.chain = m.chain
        /\ m.labels = <<Bytes(r, m.at + 1, Byte(r, m.at))>> \o n.labels

IsPointerTo(m, r) ==
    \E n \in r.names :
        /\ Byte(r, m.at) >= Ptr
        /\ n.at = (Byte(r, m.at) - Ptr) * Base + Byte(r, m.at + 1) /\ n.end <= m.at
        /\ m.end = m.at + 2 /\ m.labels = n.labels /\ m.chain = n.chain + 1

IsName(m, r) ==
    /\ m.at < m.end /\ m.end <= Len(r.packet) /\ m.chain <= r.chain
    /\ IsEnd(m, r) \/ StartsWithLabel(m, r) \/ IsPointerTo(m, r)

(* The k-th question is the name m with its type and class.                *)
IsQuestion(m, k, r) ==
    /\ m.at = r.places["questions"][k]
    /\ r.places["questions"][k + 1] = m.end + QuestionLen

(* The k-th record of a section: its owner is the name m, and for a name   *)
(* server or an alias its data is a name.                                  *)
IsRecord(m, s, k, r) ==
    LET record == r.meant[s][k]
        length == Byte(r, m.end + 3)
        data   == m.end + FixedLen
    IN  /\ m.at = r.places[s][k] /\ data <= Len(r.packet)
        /\ r.places[s][k + 1] = data + length
        /\ record.owner = m.labels /\ record.type = Byte(r, m.end)
        /\ record.address = IF record.type \in {TypeA, TypeAAAA} /\ length = AddressLen[record.type]
                              THEN Bytes(r, data, length) ELSE <<>>
        /\ IF record.type \in {TypeNS, TypeCNAME}
             THEN \E t \in r.names : t.at = data /\ t.end <= data + length /\ t.labels = record.target
             ELSE record.target = <<>>

IsItem(m, s, k, r) == IF s = "questions" THEN IsQuestion(m, k, r) ELSE IsRecord(m, s, k, r)

(* The items of the sections follow each other, as many as the header says *)
(* and as are meant.                                                       *)
WellWritten(r) ==
    /\ Len(r.packet) >= HeaderLen /\ Byte(r, 1) = 0
    /\ \A m \in r.names : IsName(m, r)
    /\ r.places["questions"][1] = HeaderLen
    /\ \A s \in Section :
          /\ Len(r.places[s]) = Byte(r, CountAt(s)) + 1
          /\ s # "questions" => Len(r.meant[s]) = Byte(r, CountAt(s))
          /\ s # "additional" => r.places[NextSection[s]][1] = r.places[s][Len(r.places[s])]
          /\ \A k \in 1..(Len(r.places[s]) - 1) :
                /\ r.places[s][k + 1] <= Len(r.packet)
                /\ \E m \in r.names : IsItem(m, s, k, r)

============================================================================
