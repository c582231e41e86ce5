---------------------------- MODULE MCDNSPacket ----------------------------
(* Instances of DNSPacket for TLC; the .cfg files hold its constants. *)
EXTENDS DNSPacket

A == <<1>>
B == <<2, 3>>

(* Every name of a reply as it is written and as it is meant.  The name    *)
(* B.A of the question is at 6, its last label at 9.                       *)
Question == EncodedName(<<B, A>>) \o <<TypeA, 1>>
To(place) == <<Ptr, place>>

Fixed(type, length) == <<type, 1, 0, length>>
Address(owner, length) ==
    [owner |-> owner, type |-> IF length = 1 THEN TypeA ELSE TypeAAAA,
     address |-> [n \in 1..length |-> 7], target |-> <<>>]
Refer(type, owner, target) ==
    [owner |-> owner, type |-> type, address |-> <<>>, target |-> target]

(* The names written at a place: labels and what ends them, the byte zero  *)
(* or a pointer to the name m.                                             *)
Zero == [size |-> 1, labels |-> <<>>, chain |-> 0]
PointsTo(m) == [size |-> 2, labels |-> m.labels, chain |-> m.chain + 1]

NameAt(at, labels, last, k) ==       \* without its first k labels
    LET start[n \in 0..Len(labels)] ==
            IF n = 0 THEN at ELSE start[n - 1] + 1 + Len(labels[n])
    IN  [at |-> start[k], end |-> start[Len(labels)] + last.size,
         labels |-> SubSeq(labels, k + 1, Len(labels)) \o last.labels, chain |-> last.chain]

NamesAt(at, labels, last) == {NameAt(at, labels, last, k) : k \in 0..Len(labels)}

QuestionNames == NamesAt(6, <<B, A>>, Zero)      \* B.A at 6, A at 9
BA == NameAt(6, <<B, A>>, Zero, 0)
OnlyA == NameAt(6, <<B, A>>, Zero, 1)

(* No compression: one address. *)
Plain ==
    [packet |-> <<9, 0, 1, 1, 0, 0>> \o Question \o EncodedName(<<B, A>>)
                  \o Fixed(TypeA, 1) \o <<7>>,
     chain  |-> 0,
     meant  |-> [Empty EXCEPT !.answers = <<Address(<<B, A>>, 1)>>],
     names  |-> QuestionNames \cup NamesAt(14, <<B, A>>, Zero),
     places |-> [questions |-> <<6, 14>>, answers |-> <<14, 25>>,
                 authority |-> <<25>>, additional |-> <<25>>]]

(* An alias whose target, at 20, is B and a pointer; an address of the     *)
(* target by a pointer to that, which is a chain of two.                   *)
Alias ==
    [packet |-> <<9, 0, 1, 2, 0, 0>> \o Question
                  \o To(6) \o Fixed(TypeCNAME, 5) \o <<2, 2, 3>> \o To(9)
                  \o To(20) \o Fixed(TypeAAAA, 2) \o <<7, 7>>,
     chain  |-> 2,
     meant  |-> [Empty EXCEPT !.answers =
                    <<Refer(TypeCNAME, <<B, A>>, <<B, A>>), Address(<<B, A>>, 2)>>],
     names  |-> QuestionNames
                  \cup NamesAt(14, <<>>, PointsTo(BA)) \cup NamesAt(20, <<B>>, PointsTo(OnlyA))
                  \cup NamesAt(25, <<>>, PointsTo(NameAt(20, <<B>>, PointsTo(OnlyA), 0))),
     places |-> [questions |-> <<6, 14>>, answers |-> <<14, 25, 33>>,
                 authority |-> <<33>>, additional |-> <<33>>]]

(* A referral: a server of A in the authority section, its address and a   *)
(* record of another type in the additional one.                           *)
Referral ==
    [packet |-> <<9, 0, 1, 0, 1, 2>> \o Question
                  \o To(9) \o Fixed(TypeNS, 4) \o <<1, 5>> \o To(9)
                  \o To(20) \o Fixed(TypeA, 1) \o <<7>>
                  \o <<0>> \o Fixed(6, 2) \o <<7, 7>>,
     chain  |-> 2,
     meant  |-> [Empty EXCEPT
                    !.authority  = <<Refer(TypeNS, <<A>>, <<<<5>>, A>>)>>,
                    !.additional = <<Address(<<<<5>>, A>>, 1),
                                     Refer(6, <<>>, <<>>)>>],
     names  |-> QuestionNames
                  \cup NamesAt(14, <<>>, PointsTo(OnlyA)) \cup NamesAt(20, <<<<5>>>>, PointsTo(OnlyA))
                  \cup NamesAt(24, <<>>, PointsTo(NameAt(20, <<<<5>>>>, PointsTo(OnlyA), 0)))
                  \cup NamesAt(31, <<>>, Zero),
     places |-> [questions |-> <<6, 14>>, answers |-> <<14>>,
                 authority |-> <<14, 24>>, additional |-> <<24, 31, 38>>]]

(* Long labels, which may be cut, in the question and in two addresses.    *)
(* What is left of Host states a length of 9, of Binary a length of none.  *)
Host   == <<1, 1, 9, 1, 1, 1>>
Binary == <<1, 1, 0, 1, 1>>
Long ==
    [packet |-> <<9, 0, 1, 2, 0, 0>> \o EncodedName(<<Host>>) \o <<TypeA, 1>>
                  \o EncodedName(<<Host>>) \o Fixed(TypeA, 1) \o <<7>>
                  \o EncodedName(<<Binary>>) \o Fixed(TypeA, 1) \o <<7>>,
     chain  |-> 0,
     meant  |-> [Empty EXCEPT !.answers = <<Address(<<Host>>, 1), Address(<<Binary>>, 1)>>],
     names  |-> NamesAt(6, <<Host>>, Zero) \cup NamesAt(16, <<Host>>, Zero)
                  \cup NamesAt(29, <<Binary>>, Zero),
     places |-> [questions |-> <<6, 16>>, answers |-> <<16, 29, 41>>,
                 authority |-> <<41>>, additional |-> <<41>>]]

FewReplies == {Plain, Alias, Referral, Long}

(* All names of up to four characters: a letter, a dot, a forbidden one. *)
ShortDomains == UNION {[1..n -> {1, 2, Dot, 20}] : n \in 1..4}

Lengths == [t \in {TypeA, TypeAAAA} |-> IF t = TypeA THEN 1 ELSE 2]

============================================================================
