----------------------------- MODULE DNSPacket -----------------------------
(***************************************************************************)
(* dns-resolver/dns_resolver.cpp: createDNSQuery() and parseDNSResponse()  *)
(* with parseResourceRecord() and parseDNSName().  Packets are those of    *)
(* DNSReply: sequences of cells.                                           *)
(***************************************************************************)
EXTENDS DNSReply, SequencesExt

CONSTANTS
    Replies,      \* what servers send, see Reply and WellWritten of DNSReply
    Domains,      \* what the user asks for: sequences of cells and Dot
    Letters,      \* the cells that may be in a domain name
    MAX_JUMPS,    \* pointers that are followed in a name
    MaxLabel,     \* 63
    MaxDomain     \* 253

Dot == Base

ASSUME BytesAssumption ==
    /\ Base \in Nat /\ Ptr \in Cell /\ MaxLabel \in 1..(Ptr - 1)
    /\ MaxDomain \in Nat /\ MAX_JUMPS \in Nat \ {0}
    /\ AddressLen \in [{TypeA, TypeAAAA} -> Nat]
    /\ {TypeA, TypeNS, TypeCNAME, TypeAAAA} \subseteq Cell
ASSUME RepliesAssumption == \A r \in Replies : WellWritten(r)
ASSUME InputsAssumption ==
    /\ Replies \subseteq Reply /\ Letters \subseteq Cell
    /\ Domains \subseteq Seq(Cell \cup {Dot})

VARIABLES
    domain,    \* the question of resolve(); <<>> when a reply is parsed
    reply,     \* the reply that is parsed, as it was sent
    damage,    \* what became of it: "none", "cut", "changed"
    packet,    \* as it is parsed
    phase,     \* "resolve", "refused", "thrown"; "header", "section", "name",
               \* "fixed", "target"; "done", "failed"
    section, i,       \* the loop of parseDNSResponse() that runs, its counter
    offset,
    name,      \* the local variables of parseDNSName()
    rr,        \* the record that is parsed
    out        \* the records of the three sections

vars == <<domain, reply, damage, packet, phase, section, i, offset, name, rr, out>>
inputs == <<domain, reply, damage, packet>>

Size  == Len(packet)
At(k) == packet[k + 1]                         \* packet[k] of the code
Slice(from, length) == SubSeq(packet, from + 1, from + length)

Empty    == [answers |-> <<>>, authority |-> <<>>, additional |-> <<>>]
NoRecord == [owner |-> <<>>, type |-> 0, address |-> <<>>, target |-> <<>>]
NoReply  == [packet |-> <<>>, chain |-> 0, meant |-> Empty, names |-> {},
             places |-> [s \in Section |-> <<>>]]
NotJumped == -1
NoName   == [pos |-> 0, resume |-> NotJumped, jumps |-> 0, labels |-> <<>>]

(* A datagram longer than the buffer of 512 bytes is cut; a server may     *)
(* write a byte that is wrong.                                             *)
Arrives(sent) ==
    \/ damage = "none" /\ packet = sent
    \/ damage = "cut" /\ packet \in {SubSeq(sent, 1, n) : n \in HeaderLen..(Len(sent) - 1)}
    \/ damage = "changed" /\ packet \in {[sent EXCEPT ![k] = b] : k \in 1..Len(sent), b \in Cell}

Init ==
    /\ \/ /\ domain \in Domains /\ reply = NoReply /\ damage = "none"
          /\ packet = <<>> /\ phase = "resolve"
       \/ /\ domain = <<>> /\ reply \in Replies
          /\ damage \in {"none", "cut", "changed"} /\ Arrives(reply.packet)
          /\ phase = "header"
    /\ section = "questions" /\ i = 0 /\ offset = 0
    /\ name = NoName /\ rr = NoRecord /\ out = Empty

-----------------------------------------------------------------------------
(* The question: resolve(), isValidDomainName() and createDNSQuery(). *)

(* getline(iss, label, '.') until it fails: no label after a last dot. *)
Labels(text) ==
    LET split[n \in 0..Len(text)] ==
            IF n = 0 THEN <<<<>>>>
            ELSE IF text[n] = Dot THEN Append(split[n - 1], <<>>)
            ELSE [split[n - 1] EXCEPT ![Len(split[n - 1])] = Append(@, text[n])]
        all == split[Len(text)]
    IN  IF Last(all) = <<>> THEN Front(all) ELSE all

IsValidDomainName(text) ==
    /\ text # <<>> /\ Len(text) <= MaxDomain
    /\ \A n \in 1..Len(text) : text[n] \in Letters \cup {Dot}

EncodedName(labels) ==
    FlattenSeq([n \in 1..Len(labels) |-> <<Len(labels[n])>> \o labels[n]]) \o <<0>>

(* mutant: the name is not ended *)
QueryWithoutEnd(labels) ==
    <<1, 0, 1, 0, 0, 0>> \o Front(EncodedName(labels)) \o <<TypeA, 1>>

Query(labels) == <<1, 0, 1, 0, 0, 0>> \o EncodedName(labels) \o <<TypeA, 1>>

(* The query goes out; that it can be read is seen by parsing it here. *)
CreateQuery ==
    /\ phase = "resolve"
    /\ LET labels == Labels(domain)
       IN  IF ~IsValidDomainName(domain) THEN phase' = "refused" /\ UNCHANGED packet
           ELSE IF \E n \in 1..Len(labels) : Len(labels[n]) > MaxLabel
             THEN phase' = "thrown" /\ UNCHANGED packet
           ELSE phase' = "header" /\ packet' = Query(labels)
    /\ UNCHANGED <<domain, reply, damage, section, i, offset, name, rr, out>>

-----------------------------------------------------------------------------
(* parseDNSResponse() *)

RCode == At(1)
Count(s) == At(CountAt(s))

(* What leaves one of the four loops. *)
LeaveSection ==
    /\ i' = 0
    /\ IF section = "additional"
         THEN phase' = "done" /\ UNCHANGED section
         ELSE phase' = "section" /\ section' = NextSection[section]

Header ==
    /\ phase = "header"
    /\ phase' = IF Size < HeaderLen \/ RCode # 0 THEN "failed" ELSE "section"
    /\ offset' = HeaderLen
    /\ UNCHANGED <<inputs, section, i, name, rr, out>>

StartName(from) == name' = [NoName EXCEPT !.pos = from]

BeginItem ==
    /\ phase = "section"
    /\ IF i < Count(section) /\ offset < Size
         THEN /\ phase' = "name" /\ StartName(offset)
              /\ rr' = NoRecord
              /\ UNCHANGED <<section, i>>
         ELSE LeaveSection /\ UNCHANGED <<name, rr>>
    /\ UNCHANGED <<inputs, offset, out>>

-----------------------------------------------------------------------------
(* parseDNSName(): a step per iteration.  Phase "name" is the call for an  *)
(* owner, which moves offset; "target" the one for the data of a record.   *)

InName == phase \in {"name", "target"}

LoopGoesOn == name.pos < Size /\ name.jumps < MAX_JUMPS

IsPointer == At(name.pos) >= Ptr /\ name.pos + 1 < Size

(* mutant: every pointer moves the place to go on from *)
JumpFromLast ==
    /\ InName /\ LoopGoesOn /\ IsPointer
    /\ name' = [name EXCEPT !.pos = (At(@) - Ptr) * Base + At(@ + 1),
                            !.resume = name.pos + 2,
                            !.jumps = @ + 1]
    /\ UNCHANGED <<inputs, phase, section, i, offset, rr, out>>

Jump ==
    /\ InName /\ LoopGoesOn /\ IsPointer
    /\ name' = [name EXCEPT !.pos = (At(@) - Ptr) * Base + At(@ + 1),
                            !.resume = IF @ = NotJumped THEN name.pos + 2 ELSE @,
                            !.jumps = @ + 1]
    /\ UNCHANGED <<inputs, phase, section, i, offset, rr, out>>

IsLabel == At(name.pos) \in 1..(Ptr - 1) /\ name.pos + At(name.pos) < Size

TakeLabel ==
    /\ InName /\ LoopGoesOn /\ IsLabel
    /\ name' = [name EXCEPT !.pos = @ + At(@) + 1,
                            !.labels = Append(@, Slice(name.pos + 1, At(name.pos)))]
    /\ UNCHANGED <<inputs, phase, section, i, offset, rr, out>>

(* push_back(rr) *)
Push(record) ==
    /\ out' = [out EXCEPT ![section] = Append(@, record)]
    /\ i' = i + 1 /\ phase' = "section"

(* The loop is left at the end of the name, at a label or a pointer that   *)
(* is cut off, outside of the packet, or at the limit: it makes no         *)
(* difference for what is returned, nor for the offset after a pointer.    *)
EndName ==
    /\ InName /\ ~(LoopGoesOn /\ (IsPointer \/ IsLabel))
    /\ LET end == IF name.resume # NotJumped THEN name.resume
                  ELSE IF LoopGoesOn /\ At(name.pos) = 0 THEN name.pos + 1
                  ELSE name.pos
       IN  \/ /\ phase = "name"
              /\ offset' = end /\ phase' = "fixed"
              /\ rr' = [rr EXCEPT !.owner = name.labels]
              /\ UNCHANGED <<i, out>>
           \/ /\ phase = "target"
              /\ Push([rr EXCEPT !.target = name.labels])
              /\ UNCHANGED <<offset, rr>>
    /\ UNCHANGED <<inputs, section, name>>

-----------------------------------------------------------------------------
(* What follows the name: a question's type and class, or a record. *)

SkipQuestion ==
    /\ phase = "fixed" /\ section = "questions"
    /\ IF offset + QuestionLen > Size
         THEN phase' = "failed" /\ UNCHANGED <<i, offset>>
         ELSE phase' = "section" /\ i' = i + 1 /\ offset' = offset + QuestionLen
    /\ UNCHANGED <<inputs, section, name, rr, out>>

Type   == At(offset)
Length == At(offset + 3)

(* mutant: the loop goes on to the next record without counting this one *)
CutRecordRetried ==
    /\ phase = "fixed" /\ section # "questions"
    /\ offset + FixedLen > Size
    /\ phase' = "section"
    /\ UNCHANGED <<inputs, section, i, offset, name, rr, out>>

(* parseResourceRecord() returns false, and its loop is left where it was. *)
CutRecord ==
    /\ phase = "fixed" /\ section # "questions"
    /\ \/ offset + FixedLen > Size /\ UNCHANGED offset
       \/ /\ offset + FixedLen <= Size /\ offset + FixedLen + Length > Size
          /\ offset' = offset + FixedLen
    /\ LeaveSection
    /\ UNCHANGED <<inputs, name, rr, out>>

(* mutant: the length of the data is not compared with what is left *)
FitsUnchecked == offset + FixedLen <= Size

Fits == offset + FixedLen <= Size /\ offset + FixedLen + Length <= Size

TakeRecord ==
    /\ phase = "fixed" /\ section # "questions" /\ Fits
    /\ offset' = offset + FixedLen + Length
    /\ LET data   == Slice(offset + FixedLen, Length)
           isAddr == Type \in {TypeA, TypeAAAA} /\ Length = AddressLen[Type]
           record == [rr EXCEPT !.type = Type, !.address = IF isAddr THEN data ELSE <<>>]
       IN  IF Type \in {TypeNS, TypeCNAME}
             THEN /\ phase' = "target" /\ StartName(offset + FixedLen)
                  /\ rr' = record
                  /\ UNCHANGED <<i, out>>
             ELSE Push(record) /\ UNCHANGED <<name, rr>>
    /\ UNCHANGED <<inputs, section>>

Next == \/ CreateQuery \/ Header \/ BeginItem \/ Jump \/ TakeLabel \/ EndName
        \/ SkipQuestion \/ CutRecord \/ TakeRecord

Spec == Init /\ [][Next]_vars

FairSpec == Spec /\ WF_vars(Next)

-----------------------------------------------------------------------------
(* Types; no offset of the program leaves the packet, so that no cell      *)
(* outside of it is read (dns_resolver.cpp:324, 352, 369).                 *)
TypeOK ==
    /\ packet \in Seq(Cell)
    /\ phase \in {"resolve", "refused", "thrown", "header", "section", "name", "fixed",
                  "target", "done", "failed"}
    /\ section \in Section /\ i \in Nat
    /\ phase \notin {"header", "resolve", "failed"} => offset <= Size
    /\ name.pos \in Nat /\ name.jumps \in 0..MAX_JUMPS /\ name.labels \in Seq(Label)
    /\ rr \in Record
    /\ \A s \in Section \ {"questions"} : out[s] \in Seq(Record)

(* A cut label whose rest would be read: parseDNSName() leaves the offset  *)
(* at the label (dns_resolver.cpp:324-326, 340), and what is left of it is *)
(* taken for the type of a question, or for a record if there is enough of *)
(* it for the length that it seems to state.                               *)
RestIsRead ==
    \E m \in reply.names :
        /\ m.at < Size /\ At(m.at) \in 1..(Ptr - 1) /\ m.at + At(m.at) >= Size
        /\ \/ /\ m.at + QuestionLen < Size
              /\ \E k \in 1..Len(reply.places["questions"]) :
                    reply.places["questions"][k] = m.end + QuestionLen
           \/ /\ m.at + FixedLen <= Size
              /\ m.at + FixedLen + At(m.at + 3) <= Size

BeginsAsMeant ==
    /\ IsPrefix(out.answers, reply.meant.answers)
    /\ out.answers = reply.meant.answers => IsPrefix(out.authority, reply.meant.authority)
    /\ out.answers = reply.meant.answers /\ out.authority = reply.meant.authority =>
          IsPrefix(out.additional, reply.meant.additional)

(* What a server writes is what is parsed, section by section, with names  *)
(* compressed or not, as long as none of them goes through MAX_JUMPS       *)
(* pointers: after that many the rest of a name is not read                *)
(* (dns_resolver.cpp:295).  A reply that is cut off (the buffer of         *)
(* queryUDP has 512 bytes) loses records at its end and has none of them   *)
(* wrong: every section is a prefix of what was meant as long as the ones  *)
(* before it are complete.  The one after the cut may hold records that    *)
(* nobody sent, as the offset stays in the middle of the record that       *)
(* failed (437, 444).  Not so if the cut is in a label whose rest is read  *)
(* as a record; a host name has no bytes that state so short a length.     *)
ParsesWhatIsMeant ==
    phase = "done" /\ reply # NoReply /\ reply.chain < MAX_JUMPS =>
        /\ damage = "none" => out = reply.meant
        /\ damage = "cut" /\ ~RestIsRead => BeginsAsMeant

(* A query names the domain it was made for and nothing follows it, if no  *)
(* label is empty: "a..b" passes isValidDomainName() and is written as a   *)
(* name that ends after "a" (dns_resolver.cpp:230-246, 268-275).           *)
QueryAsksDomain ==
    /\ phase \in {"done", "failed"} /\ domain # <<>>
    /\ \A n \in 1..Len(Labels(domain)) : Labels(domain)[n] # <<>>
    => phase = "done" /\ rr.owner = Labels(domain) /\ offset = Size

(* Every packet is parsed to an end, also one whose pointers form a cycle  *)
(* (dns_resolver.cpp:293).                                                 *)
ParsingEnds == <>(phase \in {"refused", "thrown", "done", "failed"})

-----------------------------------------------------------------------------
(* The inductive invariant. *)

(* Types that depend on the phase; where parseDNSName() goes on, after a   *)
(* pointer or without one, is in the packet.                               *)
PlaceInv ==
    /\ offset \in Nat
    /\ name \in [pos : Nat, resume : Nat \cup {NotJumped}, jumps : 0..MAX_JUMPS,
                 labels : Seq(Label)]
    /\ out \in [answers : Seq(Record), authority : Seq(Record), additional : Seq(Record)]
    /\ phase = "resolve" => /\ domain \in Domains /\ reply = NoReply
                            /\ section = "questions" /\ i = 0 /\ offset = 0
    /\ phase = "name" => IF name.resume = NotJumped THEN name.pos <= Size
                                                    ELSE name.resume <= Size
    /\ phase = "target" => section # "questions"

(* Where the labels of a name are: the k-th ends before P[k].  The name    *)
(* starts at from, and rest cells follow it.                               *)
Layout(P, labels, bytes, from, rest) ==
    /\ P \in [0..Len(labels) -> Nat] /\ P[0] = from
    /\ \A k \in 1..Len(labels) :
          /\ P[k] = P[k - 1] + 1 + Len(labels[k])
          /\ P[k] <= P[Len(labels)]
          /\ bytes[P[k - 1] + 1] = Len(labels[k])
          /\ \A j \in 1..Len(labels[k]) : bytes[P[k - 1] + 1 + j] = labels[k][j]
    /\ Len(bytes) = P[Len(labels)] + 1 + rest
    /\ bytes[P[Len(labels)] + 1] = 0

(* The labels of the question that have been read end where the name is.   *)
ReadSoFar(labels) ==
    \E P \in [0..Len(labels) -> 0..Size], k \in 0..Len(labels) :
        /\ Layout(P, labels, packet, HeaderLen, QuestionLen)
        /\ name.pos = P[k] /\ name.labels = SubSeq(labels, 1, k)

(* A query without an empty label is parsed as its one question.           *)
AtQuestion == section = "questions" /\ i = 0

AsksFor(labels) ==
    /\ packet = Query(labels)
    /\ labels \in Seq(Label) /\ \A n \in 1..Len(labels) : Len(labels[n]) \in 1..MaxLabel

ParsesAs(labels) ==
    \/ phase = "header" /\ AtQuestion
    \/ phase = "section" /\ AtQuestion /\ offset = HeaderLen
    \/ /\ phase = "name" /\ AtQuestion
       /\ name.resume = NotJumped /\ name.jumps = 0 /\ ReadSoFar(labels)
    \/ phase = "fixed" /\ AtQuestion /\ rr.owner = labels /\ offset = Size - QuestionLen
    \/ /\ phase \in {"section", "done"} /\ ~AtQuestion
       /\ section = "questions" => i = 1 /\ phase = "section"
       /\ rr.owner = labels /\ offset = Size

IsAsked ==
    /\ domain # <<>> /\ phase \notin {"resolve", "refused", "thrown"}
    /\ \A n \in 1..Len(Labels(domain)) : Labels(domain)[n] # <<>>

QueryInv == IsAsked => AsksFor(Labels(domain)) /\ ParsesAs(Labels(domain))

(* A reply as it was sent or its beginning, whose names are short enough   *)
(* in pointers and not cut where the rest would be read.                   *)
IsRead ==
    /\ reply # NoReply /\ reply.chain < MAX_JUMPS /\ damage # "changed"
    /\ damage = "cut" => ~RestIsRead

IsBeginning ==
    /\ reply \in Replies /\ Size >= HeaderLen /\ Size <= Len(reply.packet)
    /\ \A k \in 0..(Size - 1) : At(k) = Byte(reply, k)
    /\ damage # "cut" => Size = Len(reply.packet)

(* Everything before the item that is read has been taken.                 *)
RecordSection == Section \ {"questions"}
EarlierSections ==
    [questions |-> {}, answers |-> {}, authority |-> {"answers"},
     additional |-> {"answers", "authority"}]

TakenSoFar ==
    \A s \in RecordSection :
        out[s] = SubSeq(reply.meant[s], 1,
                        IF s = section THEN i
                        ELSE IF s \in EarlierSections[section] THEN Len(reply.meant[s]) ELSE 0)

(* Of a name m, the labels before name.pos have been read, and a name n of *)
(* the reply is what is left.                                              *)
ReadingOf(m) ==
    \E n \in reply.names :
        /\ n.at = name.pos /\ m.labels = name.labels \o n.labels
        /\ m.chain = name.jumps + n.chain
        /\ IF name.resume = NotJumped THEN n.end = m.end
           ELSE name.resume = m.end /\ m.end <= Size /\ n.end <= Size

(* The next item is read where it was written, and its name is m.          *)
ReadsItem(m) ==
    \/ /\ phase = "name" /\ offset = m.at /\ rr = NoRecord /\ ReadingOf(m)
    \/ /\ phase = "fixed" /\ offset = m.end /\ offset <= Size
       /\ rr = [NoRecord EXCEPT !.owner = m.labels]
    \/ /\ phase = "fixed" /\ damage = "cut"     \* the name was cut
       /\ IF section = "questions" THEN offset + QuestionLen >= Size ELSE ~Fits
    \/ /\ phase = "target" /\ section # "questions"
       /\ offset = reply.places[section][i + 2]
       /\ rr = [reply.meant[section][i + 1] EXCEPT !.target = <<>>]
       /\ \E t \in reply.names : t.end <= offset /\ ReadingOf(t)
                                 /\ t.labels = reply.meant[section][i + 1].target

InStep ==
    /\ TakenSoFar
    /\ \/ phase = "header" /\ AtQuestion
       \/ /\ phase = "section" /\ i < Len(reply.places[section])
          /\ offset = reply.places[section][i + 1]
       \/ /\ i + 1 < Len(reply.places[section])
          /\ \E m \in reply.names : IsItem(m, section, i + 1, reply) /\ ReadsItem(m)

(* After a cut: nothing is left, or an earlier section is not complete.    *)
OutOfStep ==
    /\ damage = "cut" /\ BeginsAsMeant
    /\ \/ phase = "done"
       \/ phase = "section" /\ offset = Size
       \/ section \in {"authority", "additional"} /\ out.answers # reply.meant.answers
       \/ section = "additional" /\ out.authority # reply.meant.authority

ReplyInv ==
    IsRead => /\ IsBeginning
              /\ \/ InStep
                 \/ phase = "done" /\ out = reply.meant
                 \/ phase = "failed" /\ damage = "cut"
                 \/ OutOfStep

(* A loop reads the items that its section counts, and no more.            *)
InLoop == phase \in {"section", "name", "fixed", "target"}

LoopInv ==
    /\ phase = "header" => i = 0
    /\ InLoop =>
          /\ Size >= HeaderLen
          /\ IF phase = "section" THEN i <= Count(section) ELSE i < Count(section)

(* Types; where a name may go on; how far a query has been read as the     *)
(* labels it was made from, and a reply as what was meant; that no loop    *)
(* goes beyond what the header counts                                      *)
(* (dns_resolver.cpp:230-286, 288-346, 395-466).                           *)
IInv == TypeOK /\ PlaceInv /\ QueryInv /\ ReplyInv /\ LoopInv

-----------------------------------------------------------------------------
(* Why parsing ends. *)

(* What is left to do: sections, items of the section, steps of the item,  *)
(* pointers and cells of the name.                                         *)
Stage ==
    CASE phase = "resolve" -> 6
      [] phase = "header"  -> 5
      [] InLoop            -> [questions |-> 4, answers |-> 3, authority |-> 2,
                               additional |-> 1][section]
      [] OTHER             -> 0

ItemsLeft == IF InLoop THEN Count(section) - i ELSE 0
StepsLeft == IF InLoop THEN [section |-> 3, name |-> 2, fixed |-> 1, target |-> 0][phase] ELSE 0
JumpsLeft == MAX_JUMPS - name.jumps
CellsLeft == IF name.pos < Size THEN Size - name.pos ELSE 0

Left == <<Stage, ItemsLeft, StepsLeft, JumpsLeft, CellsLeft>>

(* The lexicographic order, which is well-founded on natural numbers.      *)
Less(a, b) == \E k \in 1..5 : a[k] < b[k] /\ \A j \in 1..(k - 1) : a[j] = b[j]

LeftIsNatural == Left \in [1..5 -> Nat]

(* Every step of the parser leaves less to do, whatever the packet is and  *)
(* wherever its pointers lead (dns_resolver.cpp:293-338, 411-463): there   *)
(* is no packet on which it goes on for ever.                              *)
LeavesLess == [][Less(Left', Left)]_vars

============================================================================
