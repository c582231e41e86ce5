--------------------------- MODULE DNSPacketProofs ---------------------------
(***************************************************************************)
(* Proofs about DNSPacket: the offset never leaves the packet, a query is  *)
(* read as the domain it was made for, and a reply as the records that     *)
(* were meant, or as a beginning of them if it is cut; each step leaves    *)
(* less of the packet to parse.  For a query that needs what               *)
(* createDNSQuery() writes for any number of labels: FlattenSeq and Labels *)
(* are recursive functions, and what they return is proved by induction    *)
(* over sets of natural numbers.                                           *)
(***************************************************************************)
EXTENDS DNSPacket, SequenceTheorems, WellFoundedInduction, TLAPS

-----------------------------------------------------------------------------
(* Recursion over natural numbers. *)

(* Induction, with a set in the place of a predicate.                      *)
LEMMA NatSetInduction ==
    ASSUME NEW S, 0 \in S, \A n \in Nat : n \in S => n + 1 \in S
    PROVE  Nat \subseteq S
<1> DEFINE R == {p \in Nat \X Nat : p[1] < p[2]}
           T == Nat \ S
<1>1. IsWellFoundedOn(R, Nat)
  BY NatLessThanWellFounded DEF OpToRel
<1>2. \A x, y \in Nat : x < y => <<x, y>> \in R
  OBVIOUS
<1> HIDE DEF R
<1>3. SUFFICES ASSUME T # {} PROVE FALSE
  OBVIOUS
<1>4. PICK x \in T : \A y \in T : ~(<<y, x>> \in R)
  BY <1>1, <1>3, WFMin
<1>5. x # 0 /\ x \in Nat
  OBVIOUS
<1>6. x - 1 \in Nat /\ x - 1 < x /\ (x - 1) + 1 = x
  BY <1>5
<1>7. x - 1 \notin T
  BY <1>2, <1>4, <1>5, <1>6
<1> QED BY <1>6, <1>7

(* A function can be defined by its first value and a step.                *)
Iterates(f, N, V, first, step) ==
    /\ f \in [0..N -> V] /\ f[0] = first
    /\ \A n \in 1..N : f[n] = step[<<n, f[n - 1]>>]

LEMMA Recursion ==
    ASSUME NEW N \in Nat, NEW V, NEW first \in V, NEW step \in [(1..N) \X V -> V]
    PROVE  \E f : Iterates(f, N, V, first, step)
<1>0. SUFFICES \E f \in [0..N -> V] :
                  f[0] = first /\ \A n \in 1..N : f[n] = step[<<n, f[n - 1]>>]
  BY DEF Iterates
<1> DEFINE Upto(m, f) == f[0] = first /\ \A n \in 1..m : f[n] = step[<<n, f[n - 1]>>]
           S == {m \in Nat : m <= N => \E f \in [0..m -> V] : Upto(m, f)}
<1>1. 0 \in S
  <2>1. [n \in 0..0 |-> first] \in [0..0 -> V] /\ Upto(0, [n \in 0..0 |-> first])
    OBVIOUS
  <2> QED BY <2>1
<1>2. ASSUME NEW m \in Nat, m \in S PROVE m + 1 \in S
  <2> SUFFICES ASSUME m + 1 <= N PROVE \E f \in [0..(m + 1) -> V] : Upto(m + 1, f)
    OBVIOUS
  <2>1. PICK f \in [0..m -> V] : Upto(m, f)
    BY <1>2
  <2> DEFINE g == [n \in 0..(m + 1) |-> IF n <= m THEN f[n] ELSE step[<<m + 1, f[m]>>]]
  <2>2. step[<<m + 1, f[m]>>] \in V
    <3>1. <<m + 1, f[m]>> \in (1..N) \X V
      BY <2>1
    <3> QED BY <3>1
  <2>3. g \in [0..(m + 1) -> V]
    BY <2>1, <2>2
  <2>4. \A n \in 0..m : g[n] = f[n]
    OBVIOUS
  <2>5. g[m + 1] = step[<<m + 1, f[m]>>]
    OBVIOUS
  <2> HIDE DEF g
  <2>6. ASSUME NEW n \in 1..(m + 1) PROVE g[n] = step[<<n, g[n - 1]>>]
    <3>1. CASE n <= m
      <4>1. n \in 1..m /\ n \in 0..m /\ n - 1 \in 0..m
        BY <3>1
      <4> QED BY <2>1, <2>4, <4>1
    <3>2. CASE n = m + 1
      <4>1. n - 1 = m /\ m \in 0..m
        BY <3>2
      <4> QED BY <2>4, <2>5, <3>2, <4>1
    <3> QED BY <3>1, <3>2
  <2>7. Upto(m + 1, g)
    <3>1. 0 \in 0..m
      OBVIOUS
    <3> QED BY <2>1, <2>4, <2>6, <3>1
  <2> QED BY <2>3, <2>7
<1> HIDE DEF S
<1>3. N \in S
  BY <1>1, <1>2, NatSetInduction
<1> QED BY <1>3 DEF S

-----------------------------------------------------------------------------
(* Sequences that are put together. *)

(* What FlattenSeq has made after each of the sequences.                   *)
LEMMA Concatenation ==
    ASSUME NEW T, NEW seqs \in Seq(Seq(T))
    PROVE  \E f \in [0..Len(seqs) -> Seq(T)] :
              /\ f[0] = <<>> /\ f[Len(seqs)] = FlattenSeq(seqs)
              /\ \A k \in 1..Len(seqs) : f[k] = f[k - 1] \o seqs[k]
<1> DEFINE n == Len(seqs)
           step == [p \in (1..n) \X Seq(T) |-> p[2] \o seqs[p[1]]]
<1>1. n \in Nat /\ \A k \in 1..n : seqs[k] \in Seq(T)
  OBVIOUS
<1>2. step \in [(1..n) \X Seq(T) -> Seq(T)]
  <2>1. ASSUME NEW p \in (1..n) \X Seq(T) PROVE p[2] \o seqs[p[1]] \in Seq(T)
    <3>1. p[1] \in 1..n /\ p[2] \in Seq(T)
      OBVIOUS
    <3> QED BY <1>1, <3>1, ConcatProperties
  <2> QED BY <2>1
<1>3. \A k \in 1..n, v \in Seq(T) : step[<<k, v>>] = v \o seqs[k]
  OBVIOUS
<1>4. <<>> \in Seq(T)
  OBVIOUS
<1> HIDE DEF step
<1>5. PICK f \in [0..n -> Seq(T)] :
         f[0] = <<>> /\ \A k \in 1..n : f[k] = step[<<k, f[k - 1]>>]
  <2>1. \E f : Iterates(f, n, Seq(T), <<>>, step)
    BY <1>1, <1>2, <1>4, Recursion
  <2> QED BY <2>1 DEF Iterates
<1>6. ASSUME NEW k \in 1..n PROVE f[k] = f[k - 1] \o seqs[k]
  <2>1. k - 1 \in 0..n
    BY <1>1
  <2>2. f[k - 1] \in Seq(T)
    BY <2>1, <1>5
  <2> QED BY <1>3, <1>5, <2>2
<1>7. CASE n = 0
  <2>1. seqs = <<>>
    BY <1>7
  <2>2. FlattenSeq(seqs) = seqs
    BY <1>7 DEF FlattenSeq
  <2> QED BY <1>5, <1>6, <1>7, <2>1, <2>2
<1>8. CASE n # 0
  <2> DEFINE Equation(g) == g = [j \in 1..Len(seqs) |->
                                    IF j = 1 THEN seqs[j] ELSE g[j - 1] \o seqs[j]]
             flatten == CHOOSE g : g = [j \in 1..Len(seqs) |->
                                           IF j = 1 THEN seqs[j] ELSE g[j - 1] \o seqs[j]]
             h == [j \in 1..n |-> f[j]]
  <2>1. Equation(h)
    <3>1. ASSUME NEW j \in 1..n PROVE h[j] = IF j = 1 THEN seqs[j] ELSE h[j - 1] \o seqs[j]
      <4>1. CASE j = 1
        <5>1. 1 \in 1..n /\ 1 - 1 = 0
          BY <4>1
        <5>2. f[1] = <<>> \o seqs[1] /\ seqs[1] \in Seq(T)
          BY <1>1, <1>5, <1>6, <5>1
        <5> QED BY <4>1, <5>2, ConcatEmptySeq
      <4>2. CASE j # 1
        <5>1. j - 1 \in 1..n
          BY <1>1, <4>2
        <5> QED BY <1>6, <4>2, <5>1
      <4> QED BY <4>1, <4>2
    <3> QED BY <3>1
  <2>2. Equation(flatten)
    BY <2>1
  <2>3. FlattenSeq(seqs) = flatten[n]
    BY <1>8 DEF FlattenSeq
  <2> HIDE DEF flatten, h
  <2>4. \A j \in 1..n : flatten[j] = IF j = 1 THEN seqs[j] ELSE flatten[j - 1] \o seqs[j]
    BY <2>2
  <2> DEFINE S == {m \in Nat : m + 1 <= n => flatten[m + 1] = f[m + 1]}
  <2>5. 0 \in S
    <3>1. 1 \in 1..n /\ 1 - 1 = 0
      BY <1>1, <1>8
    <3>2. f[1] = <<>> \o seqs[1] /\ seqs[1] \in Seq(T)
      BY <1>1, <1>5, <1>6, <3>1
    <3>3. f[1] = seqs[1]
      BY <3>2, ConcatEmptySeq
    <3> QED BY <2>4, <3>1, <3>3
  <2>6. ASSUME NEW m \in Nat, m \in S PROVE m + 1 \in S
    <3> SUFFICES ASSUME (m + 1) + 1 <= n PROVE flatten[(m + 1) + 1] = f[(m + 1) + 1]
      OBVIOUS
    <3>1. PICK q \in 1..n : q = (m + 1) + 1 /\ q # 1 /\ q - 1 = m + 1
      BY <1>1
    <3>2. flatten[m + 1] = f[m + 1]
      BY <1>1, <2>6
    <3>3. flatten[q] = flatten[q - 1] \o seqs[q] /\ f[q] = f[q - 1] \o seqs[q]
      BY <1>6, <2>4, <3>1
    <3> QED BY <3>1, <3>2, <3>3
  <2> HIDE DEF S
  <2>7. n - 1 \in S
    <3>1. n - 1 \in Nat
      BY <1>1, <1>8
    <3> QED BY <2>5, <2>6, <3>1, NatSetInduction
  <2>8. flatten[n] = f[n]
    <3>1. (n - 1) + 1 = n /\ n - 1 \in Nat
      BY <1>1, <1>8
    <3> QED BY <2>7, <3>1 DEF S
  <2> QED BY <1>5, <1>6, <2>3, <2>8
<1> QED BY <1>7, <1>8

(* Each of them stays where it was put.                                    *)
Begins(a, b) == Len(a) <= Len(b) /\ \A j \in 1..Len(a) : b[j] = a[j]

LEMMA StaysAtFront ==
    ASSUME NEW T, NEW n \in Nat, NEW s \in [1..n -> Seq(T)], NEW f \in [0..n -> Seq(T)],
           \A k \in 1..n : f[k] = f[k - 1] \o s[k],
           NEW k \in 0..n
    PROVE  Begins(f[k], f[n])
<1> DEFINE Keeps(m) == /\ Len(f[k]) <= Len(f[m])
                       /\ \A j \in 1..Len(f[k]) : f[m][j] = f[k][j]
           S == {d \in Nat : k + d <= n => Keeps(k + d)}
<1>1. 0 \in S
  <2>1. k + 0 = k /\ Len(f[k]) \in Nat
    OBVIOUS
  <2> QED BY <2>1
<1>2. ASSUME NEW d \in Nat, d \in S PROVE d + 1 \in S
  <2> SUFFICES ASSUME k + (d + 1) <= n PROVE Keeps(k + (d + 1))
    OBVIOUS
  <2> DEFINE m == k + d
  <2>1. Keeps(m) /\ m + 1 \in 1..n /\ (m + 1) - 1 = m /\ m \in 0..n /\ k + (d + 1) = m + 1
    BY <1>2
  <2> HIDE DEF m
  <2>2. f[m + 1] = f[m] \o s[m + 1] /\ f[m] \in Seq(T) /\ s[m + 1] \in Seq(T)
        /\ f[k] \in Seq(T)
    BY <2>1
  <2>3. /\ Len(f[m] \o s[m + 1]) = Len(f[m]) + Len(s[m + 1])
        /\ \A j \in 1..(Len(f[m]) + Len(s[m + 1])) :
              (f[m] \o s[m + 1])[j] = IF j <= Len(f[m]) THEN f[m][j]
                                      ELSE s[m + 1][j - Len(f[m])]
    BY <2>2, ConcatProperties
  <2>4. Len(f[m]) \in Nat /\ Len(s[m + 1]) \in Nat /\ Len(f[k]) \in Nat
    BY <2>2
  <2>5. Len(f[k]) <= Len(f[m + 1])
    BY <2>1, <2>2, <2>3, <2>4
  <2>6. ASSUME NEW j \in 1..Len(f[k]) PROVE f[m + 1][j] = f[k][j]
    <3>1. j <= Len(f[m])
      BY <2>1, <2>4
    <3>2. j \in 1..(Len(f[m]) + Len(s[m + 1]))
      <4>1. PICK a, b : a = Len(f[m]) /\ b = Len(s[m + 1])
        OBVIOUS
      <4>2. j \in Nat /\ 1 <= j /\ j <= a /\ a \in Nat /\ b \in Nat
        BY <2>4, <3>1, <4>1
      <4>3. j \in 1..(a + b)
        BY <4>2
      <4> QED BY <4>1, <4>3
    <3>3. f[m + 1][j] = f[m][j]
      BY <2>2, <2>3, <3>1, <3>2
    <3> QED BY <2>1, <3>3
  <2> QED BY <2>1, <2>5, <2>6
<1> HIDE DEF S
<1>3. n - k \in S
  <2>1. n - k \in Nat
    OBVIOUS
  <2> QED BY <1>1, <1>2, <2>1, NatSetInduction
<1>4. k + (n - k) = n /\ n - k \in Nat
  OBVIOUS
<1>5. Keeps(k + (n - k))
  BY <1>3, <1>4 DEF S
<1>6. Keeps(n)
  <2> HIDE DEF Keeps
  <2> QED BY <1>4, <1>5
<1>7. Begins(f[k], f[n])
  BY <1>6 DEF Begins
<1> QED BY <1>7

-----------------------------------------------------------------------------
(* The query: where each label of the name is written.                     *)

LEMMA CellFacts ==
    /\ {0, 1} \subseteq Cell /\ Cell \subseteq Nat /\ Base \in Nat /\ Base >= 2
    /\ Ptr \in Nat /\ Ptr < Base /\ Ptr > 1
    /\ MaxLabel \in Nat /\ MaxLabel < Ptr
    /\ \A m \in 0..MaxLabel : m \in Cell
<1>1. Base \in Nat /\ TypeA \in Cell /\ Ptr \in Cell /\ MaxLabel \in 1..(Ptr - 1)
  BY BytesAssumption
<1> QED BY <1>1 DEF Cell, TypeA

(* A label with its length before it.                                      *)
LEMMA PartType ==
    ASSUME NEW label \in Label, Len(label) \in Cell
    PROVE  /\ <<Len(label)>> \o label \in Seq(Cell)
           /\ Len(<<Len(label)>> \o label) = 1 + Len(label)
           /\ (<<Len(label)>> \o label)[1] = Len(label)
           /\ \A j \in 1..Len(label) : (<<Len(label)>> \o label)[1 + j] = label[j]
<1>1. label \in Seq(Cell) /\ Len(label) \in Nat
  BY DEF Label
<1>2. PICK one : one = <<Len(label)>>
  OBVIOUS
<1>3. one \in Seq(Cell) /\ Len(one) = 1 /\ one[1] = Len(label)
  BY <1>2
<1>4. /\ one \o label \in Seq(Cell)
      /\ Len(one \o label) = Len(one) + Len(label)
      /\ \A m \in 1..(Len(one) + Len(label)) :
            (one \o label)[m] = IF m <= Len(one) THEN one[m] ELSE label[m - Len(one)]
  BY <1>1, <1>3, ConcatProperties
<1>5. (one \o label)[1] = Len(label)
  BY <1>1, <1>3, <1>4
<1>6. ASSUME NEW j \in 1..Len(label) PROVE (one \o label)[1 + j] = label[j]
  <2>1. 1 + j \in 1..(1 + Len(label)) /\ ~(1 + j <= 1) /\ (1 + j) - 1 = j
    BY <1>1
  <2> QED BY <1>3, <1>4, <2>1
<1> QED BY <1>2, <1>3, <1>4, <1>5, <1>6

LEMMA NameLayout ==
    ASSUME NEW labels \in Seq(Label), \A k \in 1..Len(labels) : Len(labels[k]) \in Cell
    PROVE  /\ EncodedName(labels) \in Seq(Cell)
           /\ \E P : Layout(P, labels, EncodedName(labels), 0, 0)
<1> DEFINE n == Len(labels)
           parts == [m \in 1..Len(labels) |-> <<Len(labels[m])>> \o labels[m]]
           E == EncodedName(labels)
<1>1. n \in Nat /\ \A k \in 1..n : labels[k] \in Label /\ Len(labels[k]) \in Nat
  BY DEF Label
<1>2. \A k \in 1..n : parts[k] = <<Len(labels[k])>> \o labels[k]
  OBVIOUS
<1>3. \A k \in 1..n : parts[k] \in Seq(Cell)
  BY <1>1, <1>2, PartType
<1>4. parts \in Seq(Seq(Cell)) /\ Len(parts) = n
  BY <1>1, <1>3
<1> HIDE DEF parts
<1>5. PICK f \in [0..n -> Seq(Cell)] :
         /\ f[0] = <<>> /\ f[n] = FlattenSeq(parts)
         /\ \A k \in 1..n : f[k] = f[k - 1] \o parts[k]
  <2>1. \E f \in [0..Len(parts) -> Seq(Cell)] :
           /\ f[0] = <<>> /\ f[Len(parts)] = FlattenSeq(parts)
           /\ \A k \in 1..Len(parts) : f[k] = f[k - 1] \o parts[k]
    BY <1>4, Concatenation, Zenon
  <2> QED BY <1>4, <2>1
<1>6. E = f[n] \o <<0>>
  BY <1>5 DEF EncodedName, parts
<1> HIDE DEF E
<1>7. n \in 0..n /\ f[n] \in Seq(Cell) /\ Len(f[n]) \in Nat /\ 0 \in 0..n
  BY <1>1, <1>5
<1>8. /\ E \in Seq(Cell) /\ Len(E) = Len(f[n]) + 1
      /\ \A m \in 1..Len(f[n]) : E[m] = f[n][m]
      /\ E[Len(f[n]) + 1] = 0
  <2>1. PICK F, zero : F = f[n] /\ zero = <<0>>
    OBVIOUS
  <2>2. F \in Seq(Cell) /\ zero \in Seq(Cell) /\ Len(zero) = 1 /\ zero[1] = 0 /\ Len(F) \in Nat
    BY <1>7, <2>1, CellFacts
  <2>3. /\ F \o zero \in Seq(Cell)
        /\ Len(F \o zero) = Len(F) + Len(zero)
        /\ \A m \in 1..(Len(F) + Len(zero)) :
              (F \o zero)[m] = IF m <= Len(F) THEN F[m] ELSE zero[m - Len(F)]
    BY <2>2, ConcatProperties
  <2>4. (F \o zero)[Len(F) + 1] = 0
    BY <2>2, <2>3
  <2>5. \A m \in 1..Len(F) : (F \o zero)[m] = F[m]
    BY <2>2, <2>3
  <2> QED BY <1>6, <2>1, <2>2, <2>3, <2>4, <2>5
<1>9. \A k \in 0..n : Begins(f[k], f[n])
  <2>1. parts \in [1..n -> Seq(Cell)]
    BY <1>3, <1>4
  <2> HIDE DEF n
  <2> QED BY <1>1, <1>5, <2>1, StaysAtFront
<1> DEFINE P == [k \in 0..n |-> Len(f[k])]
<1>10. P \in [0..n -> Nat] /\ P[0] = 0 /\ Len(E) = P[n] + 1 /\ E[P[n] + 1] = 0
  BY <1>5, <1>7, <1>8
<1>11. ASSUME NEW k \in 1..n
       PROVE  /\ P[k] = P[k - 1] + 1 + Len(labels[k])
              /\ P[k] <= P[n]
              /\ E[P[k - 1] + 1] = Len(labels[k])
              /\ \A j \in 1..Len(labels[k]) : E[P[k - 1] + 1 + j] = labels[k][j]
  <2>1. PICK a, b, label, part : a = f[k - 1] /\ b = f[k] /\ label = labels[k] /\ part = parts[k]
    OBVIOUS
  <2>2. k - 1 \in 0..n /\ k \in 0..n
    BY <1>1
  <2>3. /\ a \in Seq(Cell) /\ b \in Seq(Cell) /\ part \in Seq(Cell) /\ b = a \o part
        /\ label \in Label /\ Len(label) \in Cell /\ part = <<Len(label)>> \o label
    BY <1>1, <1>2, <1>3, <1>5, <2>1, <2>2
  <2>4. /\ Len(part) = 1 + Len(label) /\ part[1] = Len(label)
        /\ \A j \in 1..Len(label) : part[1 + j] = label[j]
    BY <2>3, PartType
  <2>5. Len(a) \in Nat /\ Len(label) \in Nat
    BY <2>3 DEF Label
  <2>6. /\ Len(a \o part) = Len(a) + Len(part)
        /\ \A m \in 1..(Len(a) + Len(part)) :
              (a \o part)[m] = IF m <= Len(a) THEN a[m] ELSE part[m - Len(a)]
    BY <2>3, ConcatProperties
  <2>7. Len(b) = Len(a) + 1 + Len(label)
    BY <2>3, <2>4, <2>5, <2>6
  <2>8. ASSUME NEW m \in 1..(1 + Len(label)) PROVE E[Len(a) + m] = part[m]
    <3>1. Len(a) + m \in 1..Len(b)
      BY <2>5, <2>7
    <3>2. E[Len(a) + m] = f[n][Len(a) + m]
      <4>1. Begins(b, f[n])
        BY <1>9, <2>1, <2>2
      <4>2. Len(a) + m \in 1..Len(f[n])
        BY <1>7, <3>1, <4>1, <2>5, <2>7 DEF Begins
      <4> QED BY <1>8, <4>2
    <3>3. f[n][Len(a) + m] = b[Len(a) + m]
      BY <1>9, <2>1, <2>2, <3>1 DEF Begins
    <3>4. /\ Len(a) + m \in 1..(Len(a) + Len(part)) /\ ~(Len(a) + m <= Len(a))
          /\ (Len(a) + m) - Len(a) = m
      BY <2>4, <2>5
    <3>5. b[Len(a) + m] = part[m]
      BY <2>3, <2>6, <3>4
    <3> QED BY <3>2, <3>3, <3>5
  <2>9. E[Len(a) + 1] = Len(label)
    BY <2>4, <2>5, <2>8
  <2>10. ASSUME NEW j \in 1..Len(label) PROVE E[Len(a) + 1 + j] = label[j]
    <3>1. 1 + j \in 1..(1 + Len(label)) /\ Len(a) + 1 + j = Len(a) + (1 + j)
      BY <2>5
    <3> QED BY <2>4, <2>8, <3>1
  <2>11. P[k - 1] = Len(a) /\ P[k] = Len(b) /\ P[n] = Len(f[n])
    BY <1>7, <2>1, <2>2
  <2>12. Len(b) <= Len(f[n])
    BY <1>9, <2>1, <2>2 DEF Begins
  <2> HIDE DEF P
  <2> QED BY <2>1, <2>7, <2>9, <2>10, <2>11, <2>12
<1> HIDE DEF P
<1>12. Layout(P, labels, E, 0, 0)
  BY <1>10, <1>11 DEF Layout
<1> QED BY <1>8, <1>12 DEF E

(* Where the header, the name and the question are in a query.             *)
LEMMA QueryLayout ==
    ASSUME NEW labels \in Seq(Label), \A k \in 1..Len(labels) : Len(labels[k]) \in Cell
    PROVE  /\ Query(labels) \in Seq(Cell)
           /\ Query(labels)[2] = 0 /\ Query(labels)[3] = 1
           /\ Query(labels)[4] = 0 /\ Query(labels)[5] = 0 /\ Query(labels)[6] = 0
           /\ \E P : Layout(P, labels, Query(labels), HeaderLen, QuestionLen)
<1>1. PICK E, head, tail : /\ E = EncodedName(labels)
                           /\ head = <<1, 0, 1, 0, 0, 0>> /\ tail = <<TypeA, 1>>
  OBVIOUS
<1>2. PICK P : Layout(P, labels, E, 0, 0)
  BY <1>1, NameLayout
<1>3. E \in Seq(Cell) /\ Len(E) \in Nat
  BY <1>1, NameLayout
<1>4. /\ head \in Seq(Cell) /\ Len(head) = 6
      /\ head[2] = 0 /\ head[3] = 1 /\ head[4] = 0 /\ head[5] = 0 /\ head[6] = 0
  BY <1>1, CellFacts
<1>5. tail \in Seq(Cell) /\ Len(tail) = 2
  BY <1>1, CellFacts DEF TypeA
<1>6. /\ head \o E \in Seq(Cell)
      /\ Len(head \o E) = 6 + Len(E)
      /\ \A m \in 1..(6 + Len(E)) : (head \o E)[m] = IF m <= 6 THEN head[m] ELSE E[m - 6]
  <2>1. head \in Seq(Cell) /\ E \in Seq(Cell)
    BY <1>3, <1>4
  <2>2. /\ head \o E \in Seq(Cell)
        /\ Len(head \o E) = Len(head) + Len(E)
        /\ \A m \in 1..(Len(head) + Len(E)) :
              (head \o E)[m] = IF m <= Len(head) THEN head[m] ELSE E[m - Len(head)]
    BY <2>1, ConcatProperties
  <2> QED BY <1>4, <2>2
<1>7. PICK H : H = head \o E
  OBVIOUS
<1>8. H \in Seq(Cell) /\ Len(H) = 6 + Len(E)
  BY <1>6, <1>7
<1>9. PICK Q : Q = H \o tail
  OBVIOUS
<1>10. /\ Q \in Seq(Cell)
       /\ Len(Q) = 6 + Len(E) + 2
       /\ \A m \in 1..(6 + Len(E)) : Q[m] = H[m]
  <2>1. /\ H \o tail \in Seq(Cell)
        /\ Len(H \o tail) = Len(H) + Len(tail)
        /\ \A m \in 1..(Len(H) + Len(tail)) :
              (H \o tail)[m] = IF m <= Len(H) THEN H[m] ELSE tail[m - Len(H)]
    <3>1. H \in Seq(Cell) /\ tail \in Seq(Cell)
      BY <1>5, <1>8
    <3> QED BY <3>1, ConcatProperties
  <2> QED BY <1>3, <1>5, <1>8, <1>9, <2>1
<1>11. Q = Query(labels)
  BY <1>1, <1>7, <1>9 DEF Query
<1>12. \A m \in 1..6 : Q[m] = head[m]
  BY <1>3, <1>6, <1>7, <1>10
<1>13. \A m \in 1..Len(E) : Q[6 + m] = E[m]
  <2> SUFFICES ASSUME NEW m \in 1..Len(E) PROVE Q[6 + m] = E[m]
    OBVIOUS
  <2>1. 6 + m \in 1..(6 + Len(E)) /\ ~(6 + m <= 6) /\ (6 + m) - 6 = m
    BY <1>3
  <2> QED BY <1>6, <1>7, <1>10, <2>1
<1> DEFINE n == Len(labels)
           R == [k \in 0..n |-> 6 + P[k]]
<1>14. n \in Nat /\ \A k \in 1..n : Len(labels[k]) \in Nat
  BY DEF Label
<1>15. P \in [0..n -> Nat] /\ P[0] = 0 /\ Len(E) = P[n] + 1 /\ E[P[n] + 1] = 0
  BY <1>2, <1>3, <1>14, SMTT(30) DEF Layout
<1>16. R \in [0..n -> Nat] /\ R[0] = HeaderLen /\ \A k \in 0..n : R[k] = 6 + P[k] /\ P[k] \in Nat
  BY <1>14, <1>15 DEF HeaderLen
<1> HIDE DEF R
<1>17. ASSUME NEW k \in 1..n
       PROVE  /\ R[k] = R[k - 1] + 1 + Len(labels[k])
              /\ R[k] <= R[n]
              /\ Q[R[k - 1] + 1] = Len(labels[k])
              /\ \A j \in 1..Len(labels[k]) : Q[R[k - 1] + 1 + j] = labels[k][j]
  <2>1. /\ P[k] = P[k - 1] + 1 + Len(labels[k]) /\ P[k] <= P[n]
        /\ E[P[k - 1] + 1] = Len(labels[k])
        /\ \A j \in 1..Len(labels[k]) : E[P[k - 1] + 1 + j] = labels[k][j]
    BY <1>2 DEF Layout
  <2>2. k - 1 \in 0..n /\ k \in 0..n /\ n \in 0..n
    BY <1>14
  <2>3. PICK p, q, r, length : /\ p = P[k - 1] /\ q = P[k] /\ r = P[n] /\ length = Len(labels[k])
    OBVIOUS
  <2>4. /\ p \in Nat /\ q \in Nat /\ r \in Nat /\ length \in Nat
        /\ R[k - 1] = 6 + p /\ R[k] = 6 + q /\ R[n] = 6 + r
        /\ q = p + 1 + length /\ q <= r /\ Len(E) = r + 1
    BY <1>14, <1>15, <1>16, <2>1, <2>2, <2>3
  <2>5. Q[(6 + p) + 1] = length
    <3>1. p + 1 \in 1..Len(E) /\ (6 + p) + 1 = 6 + (p + 1)
      BY <2>4
    <3> QED BY <1>13, <2>1, <2>3, <3>1
  <2>6. ASSUME NEW j \in 1..length PROVE Q[(6 + p) + 1 + j] = labels[k][j]
    <3>1. p + 1 + j \in 1..Len(E) /\ (6 + p) + 1 + j = 6 + (p + 1 + j)
      BY <2>4
    <3> QED BY <1>13, <2>1, <2>3, <3>1
  <2>7. R[k] = R[k - 1] + 1 + length /\ R[k] <= R[n]
    BY <2>4
  <2> QED BY <2>3, <2>4, <2>5, <2>6, <2>7
<1>18. Len(Q) = R[n] + 1 + QuestionLen /\ Q[R[n] + 1] = 0
  <2>1. n \in 0..n
    BY <1>14
  <2>2. PICK r : r = P[n] /\ r \in Nat
    BY <1>15, <2>1
  <2>3. R[n] = 6 + r /\ Len(E) = r + 1
    BY <1>15, <1>16, <2>1, <2>2
  <2>4. r + 1 \in 1..Len(E) /\ (6 + r) + 1 = 6 + (r + 1)
    BY <2>2, <2>3
  <2>5. Q[(6 + r) + 1] = 0
    BY <1>13, <1>15, <2>2, <2>4
  <2> QED BY <1>10, <2>2, <2>3, <2>5 DEF QuestionLen
<1>19. Layout(R, labels, Q, HeaderLen, QuestionLen)
  BY <1>16, <1>17, <1>18 DEF Layout
<1>20. Q[2] = 0 /\ Q[3] = 1 /\ Q[4] = 0 /\ Q[5] = 0 /\ Q[6] = 0
  BY <1>4, <1>12
<1> QED BY <1>10, <1>11, <1>19, <1>20

-----------------------------------------------------------------------------
(* The labels of a domain. *)

LEMMA LabelsType ==
    ASSUME NEW text \in Seq(Cell \cup {Dot})
    PROVE  Labels(text) \in Seq(Label)
<1> DEFINE n == Len(text)
           V == Seq(Label) \ {<<>>}
           step == [p \in (1..n) \X V |->
                       IF text[p[1]] = Dot THEN Append(p[2], <<>>)
                       ELSE [p[2] EXCEPT ![Len(p[2])] = Append(@, text[p[1]])]]
           Equation(g) ==
               g = [m \in 0..Len(text) |->
                       IF m = 0 THEN <<<<>>>>
                       ELSE IF text[m] = Dot THEN Append(g[m - 1], <<>>)
                       ELSE [g[m - 1] EXCEPT ![Len(g[m - 1])] = Append(@, text[m])]]
           split == CHOOSE g :
               g = [m \in 0..Len(text) |->
                       IF m = 0 THEN <<<<>>>>
                       ELSE IF text[m] = Dot THEN Append(g[m - 1], <<>>)
                       ELSE [g[m - 1] EXCEPT ![Len(g[m - 1])] = Append(@, text[m])]]
<1>1. n \in Nat /\ <<>> \in Label /\ <<<<>>>> \in V
  BY DEF Label
<1>2. ASSUME NEW m \in 1..n, NEW v \in V
      PROVE  /\ text[m] = Dot => Append(v, <<>>) \in V
             /\ text[m] # Dot => [v EXCEPT ![Len(v)] = Append(@, text[m])] \in V
  <2>1. v \in Seq(Label) /\ Len(v) \in 1..Len(v) /\ v[Len(v)] \in Label
    OBVIOUS
  <2>2. CASE text[m] = Dot
    <3>1. Append(v, <<>>) \in Seq(Label) /\ Len(Append(v, <<>>)) = Len(v) + 1
      BY <1>1, <2>1, AppendProperties
    <3> QED BY <2>1, <2>2, <3>1
  <2>3. CASE text[m] # Dot
    <3>1. text[m] \in Cell
      BY <1>1, <2>3
    <3>2. PICK last : last = Append(v[Len(v)], text[m])
      OBVIOUS
    <3>3. last \in Label
      BY <2>1, <3>1, <3>2, AppendProperties DEF Label
    <3>4. [v EXCEPT ![Len(v)] = last] \in Seq(Label)
          /\ Len([v EXCEPT ![Len(v)] = last]) = Len(v)
      BY <2>1, <3>3, ExceptSeq
    <3>5. [v EXCEPT ![Len(v)] = last] \in V
      BY <2>1, <3>4
    <3> QED BY <2>3, <3>2, <3>5
  <2> QED BY <2>2, <2>3
<1>3. step \in [(1..n) \X V -> V]
  <2>1. ASSUME NEW p \in (1..n) \X V PROVE step[p] \in V
    <3>1. p[1] \in 1..n /\ p[2] \in V
      OBVIOUS
    <3> HIDE DEF V
    <3> QED BY <1>2, <3>1
  <2> HIDE DEF V
  <2> QED BY <2>1
<1>4. \A m \in 1..n, v \in V :
         step[<<m, v>>] = IF text[m] = Dot THEN Append(v, <<>>)
                          ELSE [v EXCEPT ![Len(v)] = Append(@, text[m])]
  <2> HIDE DEF V
  <2> QED OBVIOUS
<1> HIDE DEF step, V
<1>5. PICK f : Iterates(f, n, V, <<<<>>>>, step)
  BY <1>1, <1>3, Recursion
<1>6. /\ f \in [0..n -> V] /\ f[0] = <<<<>>>>
      /\ \A m \in 1..n : f[m] = step[<<m, f[m - 1]>>]
  BY <1>5 DEF Iterates
<1>7. Equation(f)
  <2>1. ASSUME NEW m \in 0..n, m # 0
        PROVE  f[m] = IF text[m] = Dot THEN Append(f[m - 1], <<>>)
                      ELSE [f[m - 1] EXCEPT ![Len(f[m - 1])] = Append(@, text[m])]
    <3>1. m \in 1..n /\ m - 1 \in 0..n
      BY <1>1, <2>1
    <3>2. f[m - 1] \in V
      BY <1>6, <3>1
    <3> QED BY <1>4, <1>6, <3>1, <3>2
  <2> QED BY <1>6, <2>1
<1>8. Equation(split)
  BY <1>7
<1> DEFINE all == split[n]
<1>9. Labels(text) = IF Last(all) = <<>> THEN Front(all) ELSE all
  BY DEF Labels
<1> HIDE DEF split
<1>10. split[0] = <<<<>>>>
  BY <1>1, <1>8
<1>11. \A m \in 1..n : split[m] = IF text[m] = Dot THEN Append(split[m - 1], <<>>)
                         ELSE [split[m - 1] EXCEPT ![Len(split[m - 1])] = Append(@, text[m])]
  <2> SUFFICES ASSUME NEW m \in 1..n
               PROVE  split[m] = IF text[m] = Dot THEN Append(split[m - 1], <<>>)
                         ELSE [split[m - 1] EXCEPT ![Len(split[m - 1])] = Append(@, text[m])]
    OBVIOUS
  <2>1. m \in 0..Len(text) /\ m # 0
    BY <1>1
  <2>2. split[m] = IF m = 0 THEN <<<<>>>>
                   ELSE IF text[m] = Dot THEN Append(split[m - 1], <<>>)
                   ELSE [split[m - 1] EXCEPT ![Len(split[m - 1])] = Append(@, text[m])]
    BY <1>8, <2>1, Zenon
  <2> QED BY <2>1, <2>2
<1> DEFINE S == {m \in Nat : m <= n => split[m] \in V}
<1>12. 0 \in S
  BY <1>1, <1>10
<1>13. ASSUME NEW m \in Nat, m \in S PROVE m + 1 \in S
  <2> SUFFICES ASSUME m + 1 <= n PROVE split[m + 1] \in V
    OBVIOUS
  <2>1. PICK q \in 1..n : q = m + 1 /\ q - 1 = m
    BY <1>1
  <2>2. split[q - 1] \in V
    BY <1>1, <1>13, <2>1
  <2>3. split[q] \in V
    <3>1. PICK v : v = split[q - 1]
      OBVIOUS
    <3>2. CASE text[q] = Dot
      <4>1. Append(v, <<>>) \in V
        BY <1>2, <2>2, <3>1, <3>2
      <4>2. split[q] = Append(v, <<>>)
        BY <1>11, <3>1, <3>2
      <4> QED BY <4>1, <4>2
    <3>3. CASE text[q] # Dot
      <4>1. [v EXCEPT ![Len(v)] = Append(@, text[q])] \in V
        BY <1>2, <2>2, <3>1, <3>3
      <4>2. split[q] = [v EXCEPT ![Len(v)] = Append(@, text[q])]
        BY <1>11, <3>1, <3>3
      <4> QED BY <4>1, <4>2
    <3> QED BY <3>2, <3>3
  <2> QED BY <2>1, <2>3
<1>14. all \in V
  <2>1. n \in S
    <3> HIDE DEF S
    <3> QED BY <1>1, <1>12, <1>13, NatSetInduction
  <2> QED BY <1>1, <2>1
<1> HIDE DEF all
<1>15. all \in Seq(Label)
  BY <1>14 DEF V
<1>16. Front(all) \in Seq(Label)
  <2>1. Len(all) \in Nat /\ \A m \in 1..(Len(all) - 1) : all[m] \in Label
    BY <1>15
  <2>2. SubSeq(all, 1, Len(all) - 1) \in Seq(Label)
    BY <2>1, SubSeqProperties, <1>15
  <2> QED BY <2>2 DEF Front
<1> QED BY <1>9, <1>15, <1>16

-----------------------------------------------------------------------------
(* Types. *)

LEMMA SliceType ==
    ASSUME packet \in Seq(Cell), NEW from \in Nat, NEW length \in Nat, from + length <= Size
    PROVE  Slice(from, length) \in Seq(Cell)
<1>1. \A m \in (from + 1)..(from + length) : packet[m] \in Cell
  BY DEF Size
<1>2. SubSeq(packet, from + 1, from + length) \in Seq(Cell)
  BY <1>1, SubSeqProperties
<1> QED BY <1>2 DEF Slice

LEMMA AtType ==
    ASSUME packet \in Seq(Cell), NEW k \in Nat, k < Size
    PROVE  At(k) \in Cell /\ At(k) \in Nat
<1>1. k + 1 \in 1..Len(packet)
  BY DEF Size
<1>2. packet[k + 1] \in Cell
  BY <1>1
<1> QED BY <1>2, CellFacts DEF At

LEMMA SizeType ==
    ASSUME packet \in Seq(Cell)
    PROVE  Size \in Nat
BY DEF Size

(* A datagram is a sequence of cells, whatever became of it.               *)
LEMMA ArrivesType ==
    ASSUME NEW sent \in Seq(Cell), Arrives(sent)
    PROVE  packet \in Seq(Cell)
<1>1. CASE damage = "none" /\ packet = sent
  BY <1>1
<1>2. ASSUME NEW n \in HeaderLen..(Len(sent) - 1), packet = SubSeq(sent, 1, n)
      PROVE  packet \in Seq(Cell)
  <2>1. n \in Nat /\ n <= Len(sent)
    BY DEF HeaderLen
  <2>2. \A m \in 1..n : sent[m] \in Cell
    BY <2>1
  <2>3. SubSeq(sent, 1, n) \in Seq(Cell)
    BY <2>1, <2>2, SubSeqProperties
  <2> QED BY <1>2, <2>3
<1>3. ASSUME NEW k \in 1..Len(sent), NEW b \in Cell, packet = [sent EXCEPT ![k] = b]
      PROVE  packet \in Seq(Cell)
  BY <1>3, ExceptSeq
<1> QED BY <1>1, <1>2, <1>3 DEF Arrives

LEMMA NoNameType ==
    NoName \in [pos : Nat, resume : Nat \cup {NotJumped}, jumps : 0..MAX_JUMPS,
                labels : Seq(Label)]
BY BytesAssumption DEF NoName

LEMMA NoRecordType == NoRecord \in Record
BY CellFacts DEF NoRecord, Record

LEMMA EmptyType ==
    Empty \in [answers : Seq(Record), authority : Seq(Record), additional : Seq(Record)]
BY DEF Empty

(* The part of the invariant that says nothing of a query.                 *)
TypeInv == TypeOK /\ PlaceInv

LEMMA InitTypes == Init => TypeInv
<1> SUFFICES ASSUME Init PROVE TypeInv
  OBVIOUS
<1>1. packet \in Seq(Cell)
  <2>1. CASE packet = <<>>
    BY <2>1
  <2>2. CASE reply \in Replies /\ Arrives(reply.packet)
    <3>1. reply.packet \in Seq(Cell)
      BY <2>2, InputsAssumption DEF Reply
    <3> QED BY <2>2, <3>1, ArrivesType
  <2> QED BY <2>1, <2>2 DEF Init
<1>2. /\ phase \in {"resolve", "header"} /\ section = "questions" /\ i = 0 /\ offset = 0
      /\ name = NoName /\ rr = NoRecord /\ out = Empty
      /\ phase = "resolve" => domain \in Domains /\ reply = NoReply
  BY DEF Init
<1>3. TypeOK
  <2>1. name.pos \in Nat /\ name.jumps \in 0..MAX_JUMPS /\ name.labels \in Seq(Label)
    BY <1>2, NoNameType
  <2>2. rr \in Record
    BY <1>2, NoRecordType
  <2>3. \A s \in Section \ {"questions"} : out[s] \in Seq(Record)
    <3>1. out.answers = <<>> /\ out.authority = <<>> /\ out.additional = <<>>
      BY <1>2 DEF Empty
    <3>2. <<>> \in Seq(Record)
      OBVIOUS
    <3>3. \A s \in Section \ {"questions"} : s \in {"answers", "authority", "additional"}
      BY DEF Section
    <3> QED BY <3>1, <3>2, <3>3
  <2> QED BY <1>1, <1>2, <2>1, <2>2, <2>3 DEF TypeOK, Section
<1>4. PlaceInv
  BY <1>2, NoNameType, EmptyType DEF PlaceInv
<1> QED BY <1>3, <1>4 DEF TypeInv

-----------------------------------------------------------------------------
(* Every step keeps the types. *)

(* The query that is written is a sequence of cells.                       *)
LEMMA QueryCells ==
    ASSUME NEW text \in Domains,
           \A n \in 1..Len(Labels(text)) : Len(Labels(text)[n]) <= MaxLabel
    PROVE  /\ Labels(text) \in Seq(Label)
           /\ \A n \in 1..Len(Labels(text)) : Len(Labels(text)[n]) \in Cell
           /\ Query(Labels(text)) \in Seq(Cell)
<1>1. text \in Seq(Cell \cup {Dot})
  BY InputsAssumption
<1>2. PICK labels : labels = Labels(text)
  OBVIOUS
<1>3. labels \in Seq(Label)
  BY <1>1, <1>2, LabelsType
<1>4. ASSUME NEW n \in 1..Len(labels) PROVE Len(labels[n]) \in Cell
  <2>1. labels[n] \in Label /\ Len(labels[n]) \in Nat
    BY <1>3 DEF Label
  <2>2. Len(labels[n]) <= MaxLabel
    BY <1>2
  <2>3. Len(labels[n]) \in 0..MaxLabel
    BY <2>1, <2>2, CellFacts
  <2> QED BY <2>3, CellFacts
<1>5. Query(labels) \in Seq(Cell)
  BY <1>3, <1>4, QueryLayout
<1> QED BY <1>2, <1>3, <1>4, <1>5

LEMMA TypesCreateQuery == TypeInv /\ CreateQuery => TypeInv'
<1> SUFFICES ASSUME TypeInv, CreateQuery PROVE TypeInv'
  OBVIOUS
<1>1. /\ domain' = domain /\ section' = section /\ i' = i /\ offset' = offset
      /\ name' = name /\ rr' = rr /\ out' = out /\ phase = "resolve"
  BY DEF CreateQuery
<1>2. \/ phase' \in {"refused", "thrown"} /\ packet' = packet
      \/ /\ phase' = "header" /\ packet' = Query(Labels(domain))
         /\ ~\E n \in 1..Len(Labels(domain)) : Len(Labels(domain)[n]) > MaxLabel
  BY DEF CreateQuery
<1>3. offset = 0 /\ domain \in Domains /\ packet \in Seq(Cell)
  BY <1>1 DEF TypeInv, TypeOK, PlaceInv
<1>4. packet' \in Seq(Cell)
  <2>1. CASE packet' = packet
    BY <1>3, <2>1
  <2>2. CASE /\ packet' = Query(Labels(domain))
             /\ ~\E n \in 1..Len(Labels(domain)) : Len(Labels(domain)[n]) > MaxLabel
    <3>1. PICK labels : labels = Labels(domain)
      OBVIOUS
    <3>2. labels \in Seq(Label)
      BY <1>3, <3>1, LabelsType, InputsAssumption
    <3>3. ASSUME NEW n \in 1..Len(labels) PROVE Len(labels[n]) <= MaxLabel
      <4>1. Len(labels[n]) \in Nat
        BY <3>2 DEF Label
      <4> QED BY <2>2, <3>1, <4>1, CellFacts
    <3> QED BY <1>3, <2>2, <3>1, <3>3, QueryCells
  <2> QED BY <1>2, <2>1, <2>2
<1>5. Size' \in Nat
  BY <1>4 DEF Size
<1>6. TypeOK'
  BY <1>1, <1>2, <1>3, <1>4, <1>5 DEF TypeInv, TypeOK
<1>7. PlaceInv'
  BY <1>1, <1>2 DEF TypeInv, PlaceInv
<1> QED BY <1>6, <1>7 DEF TypeInv

LEMMA TypesHeader == TypeInv /\ Header => TypeInv'
<1> SUFFICES ASSUME TypeInv, Header PROVE TypeInv'
  OBVIOUS
<1>1. /\ packet' = packet /\ section' = section /\ i' = i /\ offset' = HeaderLen
      /\ name' = name /\ rr' = rr /\ out' = out /\ phase = "header"
      /\ phase' = IF Size < HeaderLen \/ RCode # 0 THEN "failed" ELSE "section"
  BY DEF Header, inputs
<1>2. packet \in Seq(Cell) /\ Size' = Size /\ Size \in Nat
  BY <1>1, SizeType DEF TypeInv, TypeOK, Size
<1>3. phase' # "failed" => offset' <= Size'
  BY <1>1, <1>2 DEF HeaderLen
<1>4. TypeOK'
  BY <1>1, <1>2, <1>3 DEF TypeInv, TypeOK
<1>5. PlaceInv'
  BY <1>1 DEF TypeInv, PlaceInv, HeaderLen
<1> QED BY <1>4, <1>5 DEF TypeInv

LEMMA LeaveSectionTypes ==
    ASSUME TypeInv, LeaveSection
    PROVE  /\ phase' \in {"done", "section"} /\ section' \in Section /\ i' = 0
           /\ section' # "questions"
<1>1. section \in Section
  BY DEF TypeInv, TypeOK
<1> QED BY <1>1 DEF LeaveSection, NextSection, Section

LEMMA TypesBeginItem == TypeInv /\ BeginItem => TypeInv'
<1> SUFFICES ASSUME TypeInv, BeginItem PROVE TypeInv'
  OBVIOUS
<1>1. packet' = packet /\ offset' = offset /\ out' = out /\ phase = "section" /\ Size' = Size
  BY DEF BeginItem, inputs, Size
<1>2. packet \in Seq(Cell) /\ Size \in Nat /\ offset \in Nat /\ offset <= Size
  BY <1>1, SizeType DEF TypeInv, TypeOK, PlaceInv
<1>3. CASE /\ i < Count(section) /\ offset < Size
           /\ phase' = "name" /\ StartName(offset) /\ rr' = NoRecord
           /\ UNCHANGED <<section, i>>
  <2>1. name' = [NoName EXCEPT !.pos = offset]
    BY <1>3 DEF StartName
  <2>2. /\ name' \in [pos : Nat, resume : Nat \cup {NotJumped}, jumps : 0..MAX_JUMPS,
                      labels : Seq(Label)]
        /\ name'.pos = offset /\ name'.resume = NotJumped
    BY <1>2, <2>1, NoNameType DEF NoName
  <2>3. TypeOK'
    BY <1>1, <1>2, <1>3, <2>2, NoRecordType DEF TypeInv, TypeOK
  <2>4. PlaceInv'
    BY <1>1, <1>2, <1>3, <2>2 DEF TypeInv, PlaceInv
  <2> QED BY <2>3, <2>4 DEF TypeInv
<1>4. CASE LeaveSection /\ UNCHANGED <<name, rr>>
  <2>1. phase' \in {"done", "section"} /\ section' \in Section /\ i' = 0
    BY <1>4, LeaveSectionTypes
  <2>2. TypeOK'
    BY <1>1, <1>2, <1>4, <2>1 DEF TypeInv, TypeOK
  <2>3. PlaceInv'
    BY <1>1, <1>2, <1>4, <2>1 DEF TypeInv, PlaceInv
  <2> QED BY <2>2, <2>3 DEF TypeInv
<1> QED BY <1>3, <1>4 DEF BeginItem

LEMMA NameTypes ==
    ASSUME TypeInv, InName, LoopGoesOn
    PROVE  /\ packet \in Seq(Cell) /\ Size \in Nat /\ Size' = Len(packet')
           /\ name.pos \in Nat /\ name.pos < Size /\ name.labels \in Seq(Label)
           /\ name.jumps \in 0..MAX_JUMPS /\ name.jumps + 1 \in 0..MAX_JUMPS
           /\ At(name.pos) \in Cell /\ At(name.pos) \in Nat
           /\ name.resume \in Nat \cup {NotJumped}
<1>1. /\ packet \in Seq(Cell) /\ name.pos \in Nat /\ name.labels \in Seq(Label)
      /\ name.jumps \in 0..MAX_JUMPS /\ name.resume \in Nat \cup {NotJumped}
  BY DEF TypeInv, TypeOK, PlaceInv
<1>2. name.pos < Size /\ name.jumps < MAX_JUMPS
  BY DEF LoopGoesOn
<1>3. name.jumps + 1 \in 0..MAX_JUMPS
  BY <1>1, <1>2, BytesAssumption
<1>4. Size \in Nat /\ Size' = Len(packet')
  BY <1>1 DEF Size
<1> QED BY <1>1, <1>2, <1>3, <1>4, AtType

LEMMA TypesJump == TypeInv /\ Jump => TypeInv'
<1> SUFFICES ASSUME TypeInv, Jump PROVE TypeInv'
  OBVIOUS
<1>1. /\ packet' = packet /\ phase' = phase /\ section' = section /\ i' = i
      /\ offset' = offset /\ rr' = rr /\ out' = out /\ Size' = Size
      /\ InName /\ LoopGoesOn /\ IsPointer
  BY DEF Jump, inputs, Size
<1>2. /\ packet \in Seq(Cell) /\ Size \in Nat
      /\ name.pos \in Nat /\ name.pos < Size /\ name.labels \in Seq(Label)
      /\ name.jumps + 1 \in 0..MAX_JUMPS
      /\ At(name.pos) \in Nat /\ name.resume \in Nat \cup {NotJumped}
  BY <1>1, NameTypes
<1>3. At(name.pos) >= Ptr /\ name.pos + 1 < Size
  BY <1>1 DEF IsPointer
<1>4. At(name.pos + 1) \in Nat
  BY <1>2, <1>3, AtType
<1> DEFINE to == (At(name.pos) - Ptr) * Base + At(name.pos + 1)
           back == IF name.resume = NotJumped THEN name.pos + 2 ELSE name.resume
<1>5. to \in Nat
  <2>1. At(name.pos) - Ptr \in Nat
    BY <1>2, <1>3, CellFacts
  <2>2. (At(name.pos) - Ptr) * Base \in Nat
    <3>1. PICK high : high = At(name.pos) - Ptr
      OBVIOUS
    <3>2. high * Base \in Nat
      BY <2>1, <3>1, CellFacts
    <3> QED BY <3>1, <3>2
  <2> QED BY <1>4, <2>2
<1>6. back \in Nat /\ (phase = "name" => back <= Size) /\ back # NotJumped
  <2>1. phase = "name" /\ name.resume # NotJumped => name.resume <= Size
    BY DEF TypeInv, PlaceInv
  <2> QED BY <1>2, <1>3, <2>1, SMTT(30) DEF NotJumped
<1>7. name \in [pos : Nat, resume : Nat \cup {NotJumped}, jumps : 0..MAX_JUMPS,
                labels : Seq(Label)]
  BY DEF TypeInv, PlaceInv
<1>8. name' = [name EXCEPT !.pos = to, !.resume = back, !.jumps = name.jumps + 1]
  BY DEF Jump
<1> HIDE DEF to, back
<1>9. /\ name' \in [pos : Nat, resume : Nat \cup {NotJumped}, jumps : 0..MAX_JUMPS,
                    labels : Seq(Label)]
      /\ name'.resume = back
  BY <1>2, <1>5, <1>6, <1>7, <1>8
<1>10. TypeOK'
  BY <1>1, <1>9 DEF TypeInv, TypeOK
<1>11. PlaceInv'
  <2>1. phase' = "name" => IF name'.resume = NotJumped THEN name'.pos <= Size'
                                                       ELSE name'.resume <= Size'
    BY <1>1, <1>6, <1>9
  <2>2. /\ offset \in Nat /\ (phase = "target" => section # "questions")
        /\ out \in [answers : Seq(Record), authority : Seq(Record), additional : Seq(Record)]
        /\ phase # "resolve"
    BY <1>1 DEF TypeInv, PlaceInv, InName
  <2> QED BY <1>1, <1>9, <2>1, <2>2 DEF PlaceInv
<1> QED BY <1>10, <1>11 DEF TypeInv

LEMMA TypesTakeLabel == TypeInv /\ TakeLabel => TypeInv'
<1> SUFFICES ASSUME TypeInv, TakeLabel PROVE TypeInv'
  OBVIOUS
<1>1. /\ packet' = packet /\ phase' = phase /\ section' = section /\ i' = i
      /\ offset' = offset /\ rr' = rr /\ out' = out /\ Size' = Size
      /\ InName /\ LoopGoesOn /\ IsLabel
  BY DEF TakeLabel, inputs, Size
<1>2. /\ packet \in Seq(Cell) /\ Size \in Nat
      /\ name.pos \in Nat /\ name.labels \in Seq(Label)
      /\ At(name.pos) \in Nat
  BY <1>1, NameTypes
<1>3. name.pos + At(name.pos) < Size
  BY <1>1 DEF IsLabel
<1> DEFINE label == Slice(name.pos + 1, At(name.pos))
           to == name.pos + At(name.pos) + 1
<1>4. label \in Label
  <2>1. name.pos + 1 \in Nat /\ (name.pos + 1) + At(name.pos) <= Size
    BY <1>2, <1>3
  <2> QED BY <1>2, <2>1, SliceType DEF Label
<1>5. to \in Nat /\ to <= Size
  BY <1>2, <1>3
<1>6. name \in [pos : Nat, resume : Nat \cup {NotJumped}, jumps : 0..MAX_JUMPS,
                labels : Seq(Label)]
  BY DEF TypeInv, PlaceInv
<1>7. name' = [name EXCEPT !.pos = to, !.labels = Append(name.labels, label)]
  BY DEF TakeLabel
<1> HIDE DEF label, to
<1>8. Append(name.labels, label) \in Seq(Label)
  BY <1>2, <1>4, AppendProperties
<1>9. /\ name' \in [pos : Nat, resume : Nat \cup {NotJumped}, jumps : 0..MAX_JUMPS,
                    labels : Seq(Label)]
      /\ name'.resume = name.resume /\ name'.pos = to
  BY <1>5, <1>6, <1>7, <1>8
<1>10. TypeOK'
  BY <1>1, <1>9 DEF TypeInv, TypeOK
<1>11. PlaceInv'
  <2>1. phase' = "name" => IF name'.resume = NotJumped THEN name'.pos <= Size'
                                                       ELSE name'.resume <= Size'
    <3>1. phase = "name" /\ name.resume # NotJumped => name.resume <= Size
      BY DEF TypeInv, PlaceInv
    <3> QED BY <1>1, <1>5, <1>9, <3>1
  <2>2. /\ offset \in Nat /\ (phase = "target" => section # "questions")
        /\ out \in [answers : Seq(Record), authority : Seq(Record), additional : Seq(Record)]
        /\ phase # "resolve"
    BY <1>1 DEF TypeInv, PlaceInv, InName
  <2> QED BY <1>1, <1>9, <2>1, <2>2 DEF PlaceInv
<1> QED BY <1>10, <1>11 DEF TypeInv

(* A record is put at the end of its section.                              *)
LEMMA PushTypes ==
    ASSUME TypeInv, section # "questions", NEW record \in Record, Push(record)
    PROVE  /\ out' \in [answers : Seq(Record), authority : Seq(Record), additional : Seq(Record)]
           /\ \A s \in Section \ {"questions"} : out'[s] \in Seq(Record)
           /\ i' \in Nat /\ phase' = "section"
<1>1. out \in [answers : Seq(Record), authority : Seq(Record), additional : Seq(Record)]
  BY DEF TypeInv, PlaceInv
<1>2. section \in {"answers", "authority", "additional"} /\ i \in Nat
  BY DEF TypeInv, TypeOK, Section
<1>3. out[section] \in Seq(Record)
  BY DEF TypeInv, TypeOK
<1>4. PICK more : more = Append(out[section], record)
  OBVIOUS
<1>5. more \in Seq(Record)
  BY <1>3, <1>4, AppendProperties
<1>6. out' = [out EXCEPT ![section] = more] /\ i' = i + 1 /\ phase' = "section"
  BY <1>4 DEF Push
<1>7. out' \in [answers : Seq(Record), authority : Seq(Record), additional : Seq(Record)]
  <2>1. CASE section = "answers"
    BY <1>1, <1>5, <1>6, <2>1
  <2>2. CASE section = "authority"
    BY <1>1, <1>5, <1>6, <2>2
  <2>3. CASE section = "additional"
    BY <1>1, <1>5, <1>6, <2>3
  <2> QED BY <1>2, <2>1, <2>2, <2>3
<1>8. \A s \in Section \ {"questions"} : out'[s] \in Seq(Record)
  <2>1. \A s \in Section \ {"questions"} : s \in {"answers", "authority", "additional"}
    BY DEF Section
  <2>2. /\ out'.answers \in Seq(Record) /\ out'.authority \in Seq(Record)
        /\ out'.additional \in Seq(Record)
    BY <1>7
  <2> QED BY <2>1, <2>2
<1> QED BY <1>2, <1>6, <1>7, <1>8

LEMMA RecordWith ==
    ASSUME NEW record \in Record, NEW labels \in Seq(Label)
    PROVE  /\ [record EXCEPT !.owner = labels] \in Record
           /\ [record EXCEPT !.target = labels] \in Record
           /\ [record EXCEPT !.owner = labels].owner = labels
BY DEF Record

LEMMA TypesEndName == TypeInv /\ EndName => TypeInv'
<1> SUFFICES ASSUME TypeInv, EndName PROVE TypeInv'
  OBVIOUS
<1>1. /\ packet' = packet /\ section' = section /\ name' = name /\ Size' = Size
  BY DEF EndName, inputs, Size
<1>2. /\ packet \in Seq(Cell) /\ Size \in Nat /\ rr \in Record /\ name.labels \in Seq(Label)
      /\ name.pos \in Nat
  BY SizeType DEF TypeInv, TypeOK
<1> DEFINE end == IF name.resume # NotJumped THEN name.resume
                  ELSE IF LoopGoesOn /\ At(name.pos) = 0 THEN name.pos + 1
                  ELSE name.pos
<1>3. CASE /\ phase = "name" /\ offset' = end /\ phase' = "fixed"
           /\ rr' = [rr EXCEPT !.owner = name.labels] /\ UNCHANGED <<i, out>>
  <2>1. end \in Nat /\ end <= Size
    <3>1. CASE name.resume # NotJumped
      BY <1>3, <3>1 DEF TypeInv, PlaceInv
    <3>2. CASE name.resume = NotJumped /\ LoopGoesOn /\ At(name.pos) = 0
      BY <1>2, <3>2 DEF LoopGoesOn
    <3>3. CASE name.resume = NotJumped /\ ~(LoopGoesOn /\ At(name.pos) = 0)
      BY <1>2, <1>3, <3>3 DEF TypeInv, PlaceInv
    <3> QED BY <3>1, <3>2, <3>3
  <2> HIDE DEF end
  <2>2. rr' \in Record
    BY <1>2, <1>3, RecordWith
  <2>3. TypeOK'
    BY <1>1, <1>3, <2>1, <2>2 DEF TypeInv, TypeOK
  <2>4. PlaceInv'
    BY <1>1, <1>3, <2>1 DEF TypeInv, PlaceInv
  <2> QED BY <2>3, <2>4 DEF TypeInv
<1>4. CASE /\ phase = "target" /\ Push([rr EXCEPT !.target = name.labels])
           /\ UNCHANGED <<offset, rr>>
  <2>1. section # "questions"
    BY <1>4 DEF TypeInv, PlaceInv
  <2>2. [rr EXCEPT !.target = name.labels] \in Record
    BY <1>2, RecordWith
  <2>3. /\ out' \in [answers : Seq(Record), authority : Seq(Record), additional : Seq(Record)]
        /\ \A s \in Section \ {"questions"} : out'[s] \in Seq(Record)
        /\ i' \in Nat /\ phase' = "section"
    BY <1>4, <2>1, <2>2, PushTypes
  <2>4. offset' = offset /\ rr' = rr
    BY <1>4
  <2>5. offset <= Size
    BY <1>4 DEF TypeInv, TypeOK
  <2>6. TypeOK'
    BY <1>1, <2>3, <2>4, <2>5 DEF TypeInv, TypeOK
  <2>7. PlaceInv'
    BY <1>1, <2>3, <2>4 DEF TypeInv, PlaceInv
  <2> QED BY <2>6, <2>7 DEF TypeInv
<1> QED BY <1>3, <1>4 DEF EndName

LEMMA TypesSkipQuestion == TypeInv /\ SkipQuestion => TypeInv'
<1> SUFFICES ASSUME TypeInv, SkipQuestion PROVE TypeInv'
  OBVIOUS
<1>1. /\ packet' = packet /\ section' = section /\ name' = name /\ rr' = rr /\ out' = out
      /\ Size' = Size
  BY DEF SkipQuestion, inputs, Size
<1>2. packet \in Seq(Cell) /\ Size \in Nat /\ offset \in Nat /\ i \in Nat
  BY SizeType DEF TypeInv, TypeOK, PlaceInv
<1>3. \/ phase' = "failed" /\ i' = i /\ offset' = offset
      \/ /\ offset + QuestionLen <= Size
         /\ phase' = "section" /\ i' = i + 1 /\ offset' = offset + QuestionLen
  BY <1>2 DEF SkipQuestion, QuestionLen
<1>4. TypeOK'
  BY <1>1, <1>2, <1>3 DEF TypeInv, TypeOK, QuestionLen
<1>5. PlaceInv'
  BY <1>1, <1>2, <1>3 DEF TypeInv, PlaceInv, QuestionLen
<1> QED BY <1>4, <1>5 DEF TypeInv

LEMMA TypesCutRecord == TypeInv /\ CutRecord => TypeInv'
<1> SUFFICES ASSUME TypeInv, CutRecord PROVE TypeInv'
  OBVIOUS
<1>1. /\ packet' = packet /\ name' = name /\ rr' = rr /\ out' = out
      /\ Size' = Size /\ phase = "fixed" /\ LeaveSection
  BY DEF CutRecord, inputs, Size
<1>2. packet \in Seq(Cell) /\ Size \in Nat /\ offset \in Nat /\ offset <= Size
  BY <1>1, SizeType DEF TypeInv, TypeOK, PlaceInv
<1>3. \/ offset' = offset
      \/ offset + FixedLen <= Size /\ offset' = offset + FixedLen
  BY DEF CutRecord
<1>4. offset' \in Nat /\ offset' <= Size
  BY <1>2, <1>3 DEF FixedLen
<1>5. phase' \in {"done", "section"} /\ section' \in Section /\ i' = 0
  BY <1>1, LeaveSectionTypes
<1>6. TypeOK'
  BY <1>1, <1>2, <1>4, <1>5 DEF TypeInv, TypeOK
<1>7. PlaceInv'
  BY <1>1, <1>4, <1>5 DEF TypeInv, PlaceInv
<1> QED BY <1>6, <1>7 DEF TypeInv

LEMMA TypesTakeRecord == TypeInv /\ TakeRecord => TypeInv'
<1> SUFFICES ASSUME TypeInv, TakeRecord PROVE TypeInv'
  OBVIOUS
<1>1. /\ packet' = packet /\ section' = section /\ Size' = Size
      /\ phase = "fixed" /\ section # "questions" /\ Fits
      /\ offset' = offset + FixedLen + Length
  BY DEF TakeRecord, inputs, Size
<1>2. /\ packet \in Seq(Cell) /\ Size \in Nat /\ offset \in Nat /\ rr \in Record
      /\ offset + FixedLen <= Size
  BY <1>1, SizeType DEF TypeInv, TypeOK, PlaceInv, Fits
<1>3. Length \in Nat /\ Type \in Cell
  <2>1. offset + 3 \in Nat /\ offset + 3 < Size /\ offset < Size
    BY <1>2 DEF FixedLen
  <2> QED BY <1>2, <2>1, AtType DEF Length, Type
<1>4. offset + FixedLen + Length <= Size /\ offset + FixedLen \in Nat
  BY <1>1, <1>2 DEF Fits, FixedLen
<1> DEFINE data   == Slice(offset + FixedLen, Length)
           isAddr == Type \in {TypeA, TypeAAAA} /\ Length = AddressLen[Type]
           record == [rr EXCEPT !.type = Type, !.address = IF isAddr THEN data ELSE <<>>]
<1>5. data \in Seq(Cell)
  BY <1>2, <1>3, <1>4, SliceType
<1>6. record \in Record
  <2>1. (IF isAddr THEN data ELSE <<>>) \in Seq(Cell)
    BY <1>5
  <2> HIDE DEF data, isAddr
  <2> QED BY <1>2, <1>3, <2>1 DEF Record
<1>7. \/ /\ phase' = "target" /\ StartName(offset + FixedLen) /\ rr' = record
         /\ UNCHANGED <<i, out>>
      \/ Push(record) /\ UNCHANGED <<name, rr>>
  BY DEF TakeRecord
<1> HIDE DEF record
<1>8. offset' \in Nat /\ offset' <= Size
  BY <1>1, <1>2, <1>3, <1>4
<1>9. CASE /\ phase' = "target" /\ StartName(offset + FixedLen) /\ rr' = record
           /\ UNCHANGED <<i, out>>
  <2>1. name' = [NoName EXCEPT !.pos = offset + FixedLen]
    BY <1>9 DEF StartName
  <2>2. name' \in [pos : Nat, resume : Nat \cup {NotJumped}, jumps : 0..MAX_JUMPS,
                   labels : Seq(Label)]
    BY <1>4, <2>1, NoNameType
  <2>3. TypeOK'
    BY <1>1, <1>2, <1>6, <1>8, <1>9, <2>2 DEF TypeInv, TypeOK
  <2>4. PlaceInv'
    BY <1>1, <1>8, <1>9, <2>2 DEF TypeInv, PlaceInv
  <2> QED BY <2>3, <2>4 DEF TypeInv
<1>10. CASE Push(record) /\ UNCHANGED <<name, rr>>
  <2>1. /\ out' \in [answers : Seq(Record), authority : Seq(Record), additional : Seq(Record)]
        /\ \A s \in Section \ {"questions"} : out'[s] \in Seq(Record)
        /\ i' \in Nat /\ phase' = "section"
    BY <1>1, <1>6, <1>10, PushTypes
  <2>2. name' = name /\ rr' = rr
    BY <1>10
  <2>3. TypeOK'
    BY <1>1, <1>8, <2>1, <2>2 DEF TypeInv, TypeOK
  <2>4. PlaceInv'
    BY <1>1, <1>8, <2>1, <2>2 DEF TypeInv, PlaceInv
  <2> QED BY <2>3, <2>4 DEF TypeInv
<1> QED BY <1>7, <1>9, <1>10

LEMMA TypesStuttering == TypeInv /\ UNCHANGED vars => TypeInv'
BY DEF TypeInv, TypeOK, PlaceInv, vars, Size

LEMMA TypesKept == TypeInv /\ [Next]_vars => TypeInv'
BY TypesCreateQuery, TypesHeader, TypesBeginItem, TypesJump, TypesTakeLabel, TypesEndName,
   TypesSkipQuestion, TypesCutRecord, TypesTakeRecord, TypesStuttering DEF Next

(* Whatever servers send, and however it is cut or changed, the offset     *)
(* of parseDNSResponse() never leaves the packet, a name never follows     *)
(* more than MAX_JUMPS pointers, and what is taken are cells of the        *)
(* packet (dns_resolver.cpp:295, 324, 352, 369).                           *)
THEOREM TypeCorrect == Spec => []TypeOK
<1>1. TypeInv => TypeOK
  BY DEF TypeInv
<1> QED BY InitTypes, TypesKept, <1>1, PTL DEF Spec

-----------------------------------------------------------------------------
(* A query is parsed as the question it was made for. *)

LEMMA QueryBytes ==
    ASSUME NEW labels, AsksFor(labels)
    PROVE  /\ packet \in Seq(Cell) /\ Size \in Nat /\ RCode = 0 /\ packet[3] = 1
           /\ packet[4] = 0 /\ packet[5] = 0 /\ packet[6] = 0
           /\ \E P \in [0..Len(labels) -> 0..Size] :
                 /\ Layout(P, labels, packet, HeaderLen, QuestionLen)
                 /\ \A k \in 0..Len(labels) : P[k] + 1 + QuestionLen <= Size
<1>1. packet = Query(labels) /\ labels \in Seq(Label)
  BY DEF AsksFor
<1>2. ASSUME NEW k \in 1..Len(labels) PROVE Len(labels[k]) \in Cell
  <2>1. Len(labels[k]) \in 1..MaxLabel
    BY DEF AsksFor
  <2>2. Len(labels[k]) \in 0..MaxLabel
    BY <2>1, CellFacts
  <2> QED BY <2>2, CellFacts
<1>3. /\ packet \in Seq(Cell)
      /\ packet[2] = 0 /\ packet[3] = 1 /\ packet[4] = 0 /\ packet[5] = 0 /\ packet[6] = 0
      /\ \E P : Layout(P, labels, packet, HeaderLen, QuestionLen)
  BY <1>1, <1>2, QueryLayout
<1>4. Size \in Nat
  BY <1>3, SizeType
<1>5. RCode = 0
  BY <1>3 DEF RCode, At
<1>6. PICK P : Layout(P, labels, packet, HeaderLen, QuestionLen)
  BY <1>3
<1> DEFINE n == Len(labels)
<1>7. n \in Nat /\ P \in [0..n -> Nat] /\ n \in 0..n /\ Size = P[n] + 1 + QuestionLen
  BY <1>1, <1>6 DEF Layout, Size
<1>8. ASSUME NEW k \in 0..n PROVE P[k] <= P[n]
  <2>1. CASE k \in 1..n
    BY <1>6, <2>1 DEF Layout
  <2>2. CASE k = 0 /\ n = 0
    BY <1>7, <2>2
  <2>3. CASE k = 0 /\ n # 0
    <3>1. 1 \in 1..n /\ 1 - 1 = 0 /\ 0 \in 0..n /\ 1 \in 0..n
      BY <1>7, <2>3
    <3>2. P[1] = P[0] + 1 + Len(labels[1]) /\ P[1] <= P[n] /\ Len(labels[1]) \in Nat
      BY <1>1, <1>6, <3>1 DEF Layout, Label
    <3> QED BY <1>7, <2>3, <3>1, <3>2
  <2> QED BY <1>7, <2>1, <2>2, <2>3
<1>9. ASSUME NEW k \in 0..n PROVE P[k] + 1 + QuestionLen <= Size /\ P[k] \in 0..Size
  <2>1. P[k] \in Nat /\ P[n] \in Nat /\ P[k] <= P[n]
    BY <1>7, <1>8
  <2> QED BY <1>4, <1>7, <2>1 DEF QuestionLen
<1>10. P \in [0..n -> 0..Size]
  BY <1>7, <1>9
<1> QED BY <1>3, <1>4, <1>5, <1>6, <1>9, <1>10

(* What the next byte of the name is, after k labels of it.                *)
LEMMA NextByte ==
    ASSUME NEW labels, AsksFor(labels), NEW P,
           Layout(P, labels, packet, HeaderLen, QuestionLen), NEW k \in 0..Len(labels)
    PROVE  /\ P[k] \in Nat /\ P[k] + 1 + QuestionLen <= Size
           /\ k < Len(labels) =>
                 /\ At(P[k]) \in 1..(Ptr - 1) /\ P[k] + At(P[k]) < Size
                 /\ P[k + 1] = P[k] + At(P[k]) + 1
                 /\ Slice(P[k] + 1, At(P[k])) = labels[k + 1]
           /\ k = Len(labels) => At(P[k]) = 0 /\ P[k] + 1 + QuestionLen = Size
<1> DEFINE n == Len(labels)
<1>1. /\ labels \in Seq(Label) /\ n \in Nat /\ packet \in Seq(Cell) /\ Size \in Nat
      /\ n \in 0..n /\ P \in [0..n -> Nat] /\ Size = P[n] + 1 + QuestionLen
      /\ At(P[n]) = 0
  <2>1. labels \in Seq(Label)
    BY DEF AsksFor
  <2>2. packet \in Seq(Cell) /\ Size \in Nat
    BY QueryBytes
  <2> QED BY <2>1, <2>2 DEF Layout, Size, At
<1>2. CASE k = n
  BY <1>1, <1>2
<1>3. CASE k # n
  <2>1. k + 1 \in 1..n /\ (k + 1) - 1 = k /\ k + 1 \in 0..n
    BY <1>1, <1>3
  <2>2. PICK label, length : label = labels[k + 1] /\ length = Len(labels[k + 1])
    OBVIOUS
  <2>3. label \in Seq(Cell) /\ length = Len(label) /\ length \in 1..MaxLabel
    BY <1>1, <2>1, <2>2 DEF AsksFor, Label
  <2>4. /\ P[k + 1] = P[k] + 1 + length /\ P[k + 1] <= P[n] /\ At(P[k]) = length
        /\ \A j \in 1..length : packet[P[k] + 1 + j] = label[j]
    <3>1. \A m \in 1..n :
             /\ P[m] = P[m - 1] + 1 + Len(labels[m])
             /\ P[m] <= P[n]
             /\ packet[P[m - 1] + 1] = Len(labels[m])
             /\ \A j \in 1..Len(labels[m]) : packet[P[m - 1] + 1 + j] = labels[m][j]
      BY DEF Layout
    <3> QED BY <2>1, <2>2, <3>1 DEF At
  <2>5. PICK p, q, r : p = P[k] /\ q = P[k + 1] /\ r = P[n]
    OBVIOUS
  <2>6. p \in Nat /\ q \in Nat /\ r \in Nat /\ q = p + 1 + length /\ q <= r /\ Size = r + 1 + 2
    BY <1>1, <2>1, <2>4, <2>5 DEF QuestionLen
  <2>7. length \in Nat /\ length \in 1..(Ptr - 1)
    BY <2>3, CellFacts
  <2>8. Slice(p + 1, length) = label
    <3> DEFINE slice == SubSeq(packet, p + 2, p + 1 + length)
    <3>1. \A m \in (p + 2)..(p + 1 + length) : packet[m] \in Cell
      <4>1. \A m \in (p + 2)..(p + 1 + length) : m \in 1..Len(packet)
        BY <2>6, <2>7 DEF Size
      <4> QED BY <1>1, <4>1
    <3>2. p + 2 \in Int /\ p + 1 + length \in Int
      BY <2>6, <2>7
    <3>3. /\ slice \in Seq(Cell)
          /\ Len(slice) = IF p + 2 <= p + 1 + length THEN (p + 1 + length) - (p + 2) + 1 ELSE 0
          /\ \A j \in 1..((p + 1 + length) - (p + 2) + 1) : slice[j] = packet[(p + 2) + j - 1]
      BY <3>1, <3>2, SubSeqProperties
    <3> HIDE DEF slice
    <3>4. Len(slice) = length
      BY <2>6, <2>7, <3>3, SMTT(30)
    <3>5. ASSUME NEW j \in 1..length PROVE slice[j] = label[j]
      <4>1. j \in 1..((p + 1 + length) - (p + 2) + 1) /\ (p + 2) + j - 1 = p + 1 + j
        BY <2>6, <2>7
      <4>2. slice[j] = packet[p + 1 + j]
        BY <3>3, <4>1
      <4> QED BY <2>4, <2>5, <4>2
    <3>6. slice = label
      BY <2>3, <3>3, <3>4, <3>5, SeqEqual
    <3>7. (p + 1) + 1 = p + 2 /\ (p + 1) + length = p + 1 + length
      BY <2>6, <2>7
    <3> QED BY <3>6, <3>7 DEF Slice, slice
  <2>9. p + length < Size /\ q = p + length + 1 /\ p + 1 + QuestionLen <= Size
    BY <2>6, <2>7 DEF QuestionLen
  <2> QED BY <1>3, <2>2, <2>4, <2>5, <2>6, <2>7, <2>8, <2>9
<1> QED BY <1>2, <1>3

-----------------------------------------------------------------------------
(* Every step keeps what is known of a query. *)

LEMMA QueryInit == Init => QueryInv
BY DEF Init, QueryInv, IsAsked

LEMMA QueryCreateQuery == TypeInv /\ QueryInv /\ CreateQuery => QueryInv'
<1> SUFFICES ASSUME TypeInv, QueryInv, CreateQuery, IsAsked'
             PROVE  (AsksFor(Labels(domain)) /\ ParsesAs(Labels(domain)))'
  BY DEF QueryInv
<1>1. phase = "resolve" /\ domain' = domain /\ section' = section /\ i' = i
  BY DEF CreateQuery
<1>2. domain \in Domains /\ section = "questions" /\ i = 0
  BY <1>1 DEF TypeInv, PlaceInv
<1>3. PICK labels : labels = Labels(domain)
  OBVIOUS
<1>4. labels = Labels(domain)' /\ \A n \in 1..Len(labels) : labels[n] # <<>>
  BY <1>1, <1>3 DEF IsAsked
<1>5. /\ phase' = "header" /\ packet' = Query(labels)
      /\ ~\E n \in 1..Len(labels) : Len(labels[n]) > MaxLabel
  BY <1>3 DEF CreateQuery, IsAsked
<1>6. labels \in Seq(Label)
  BY <1>2, <1>3, LabelsType, InputsAssumption
<1>7. ASSUME NEW n \in 1..Len(labels) PROVE Len(labels[n]) \in 1..MaxLabel
  <2>1. labels[n] \in Seq(Cell) /\ labels[n] # <<>>
    BY <1>4, <1>6 DEF Label
  <2>2. Len(labels[n]) \in Nat /\ Len(labels[n]) # 0
    BY <2>1
  <2> QED BY <1>5, <2>2, CellFacts
<1>8. AsksFor(labels)'
  BY <1>5, <1>6, <1>7 DEF AsksFor
<1>9. ParsesAs(labels)'
  BY <1>1, <1>2, <1>5 DEF ParsesAs, AtQuestion
<1> QED BY <1>4, <1>8, <1>9

(* The other actions keep domain and packet.                               *)
LEMMA AskedBefore ==
    ASSUME QueryInv, IsAsked', UNCHANGED inputs, phase \notin {"resolve", "refused", "thrown"}
    PROVE  /\ IsAsked
           /\ \E labels : /\ labels = Labels(domain) /\ labels = Labels(domain)'
                          /\ AsksFor(labels) /\ AsksFor(labels)' /\ ParsesAs(labels)
                          /\ Size' = Size
<1>1. domain' = domain /\ packet' = packet
  BY DEF inputs
<1>2. PICK labels : labels = Labels(domain)
  OBVIOUS
<1>3. labels = Labels(domain)'
  BY <1>1, <1>2
<1>4. IsAsked
  BY <1>1, <1>2, <1>3 DEF IsAsked
<1>5. AsksFor(labels) /\ ParsesAs(labels)
  BY <1>2, <1>4 DEF QueryInv
<1>6. AsksFor(labels)' /\ Size' = Size
  BY <1>1, <1>5 DEF AsksFor, Size
<1> QED BY <1>2, <1>3, <1>4, <1>5, <1>6

LEMMA QueryHeader == TypeInv /\ QueryInv /\ Header => QueryInv'
<1> SUFFICES ASSUME TypeInv, QueryInv, Header, IsAsked'
             PROVE  (AsksFor(Labels(domain)) /\ ParsesAs(Labels(domain)))'
  BY DEF QueryInv
<1>1. /\ UNCHANGED inputs /\ phase = "header" /\ section' = section /\ i' = i
      /\ phase' = (IF Size < HeaderLen \/ RCode # 0 THEN "failed" ELSE "section")
      /\ offset' = HeaderLen
  BY DEF Header
<1>2. PICK labels : /\ labels = Labels(domain)'
                    /\ AsksFor(labels) /\ AsksFor(labels)' /\ ParsesAs(labels) /\ Size' = Size
  BY <1>1, AskedBefore
<1>3. AtQuestion
  BY <1>1, <1>2 DEF ParsesAs
<1>4. RCode = 0 /\ Size \in Nat /\ HeaderLen <= Size
  <2>1. PICK P \in [0..Len(labels) -> 0..Size] : Layout(P, labels, packet, HeaderLen, QuestionLen)
    BY <1>2, QueryBytes
  <2>2. 0 \in 0..Len(labels)
    BY <1>2 DEF AsksFor
  <2>3. P[0] = HeaderLen /\ P[0] \in 0..Size /\ RCode = 0 /\ Size \in Nat
    BY <1>2, <2>1, <2>2, QueryBytes DEF Layout
  <2> QED BY <2>3
<1>5. phase' = "section"
  BY <1>1, <1>4 DEF HeaderLen
<1>6. ParsesAs(labels)'
  BY <1>1, <1>3, <1>5 DEF ParsesAs, AtQuestion
<1> QED BY <1>2, <1>6

LEMMA QueryBeginItem == TypeInv /\ QueryInv /\ BeginItem => QueryInv'
<1> SUFFICES ASSUME TypeInv, QueryInv, BeginItem, IsAsked'
             PROVE  (AsksFor(Labels(domain)) /\ ParsesAs(Labels(domain)))'
  BY DEF QueryInv
<1>1. UNCHANGED inputs /\ phase = "section" /\ offset' = offset
  BY DEF BeginItem
<1>2. PICK labels : /\ labels = Labels(domain)'
                    /\ AsksFor(labels) /\ AsksFor(labels)' /\ ParsesAs(labels) /\ Size' = Size
  BY <1>1, AskedBefore
<1>3. PICK P \in [0..Len(labels) -> 0..Size] :
         /\ Layout(P, labels, packet, HeaderLen, QuestionLen)
         /\ \A k \in 0..Len(labels) : P[k] + 1 + QuestionLen <= Size
  BY <1>2, QueryBytes
<1>4. /\ labels \in Seq(Label) /\ Len(labels) \in Nat /\ 0 \in 0..Len(labels)
      /\ Size \in Nat /\ packet[3] = 1 /\ P[0] = HeaderLen /\ packet' = packet
  BY <1>1, <1>2, <1>3, QueryBytes DEF AsksFor, Layout, inputs
<1>5. CASE AtQuestion
  <2>1. offset = HeaderLen /\ i = 0 /\ section = "questions"
    BY <1>1, <1>2, <1>5 DEF ParsesAs, AtQuestion
  <2>2. Count(section) = 1
    BY <1>4, <2>1 DEF Count, CountAt, At
  <2>3. offset < Size
    BY <1>3, <1>4, <2>1 DEF HeaderLen, QuestionLen
  <2>4. phase' = "name" /\ StartName(offset) /\ section' = section /\ i' = i
    BY <2>1, <2>2, <2>3 DEF BeginItem
  <2>5. /\ name'.pos = HeaderLen /\ name'.resume = NotJumped /\ name'.jumps = 0
        /\ name'.labels = <<>>
    BY <2>1, <2>4 DEF StartName, NoName
  <2>6. SubSeq(labels, 1, 0) = <<>>
    BY <1>4, SubSeqEmpty
  <2>7. ReadSoFar(labels)'
    <3>1. Layout(P, labels, packet', HeaderLen, QuestionLen)
      BY <1>3, <1>4
    <3>2. P \in [0..Len(labels) -> 0..Size']
      BY <1>2
    <3> QED BY <1>4, <2>5, <2>6, <3>1, <3>2 DEF ReadSoFar
  <2>8. ParsesAs(labels)'
    BY <2>1, <2>4, <2>5, <2>7 DEF ParsesAs, AtQuestion
  <2> QED BY <1>2, <2>8
<1>6. CASE ~AtQuestion
  <2>1. /\ section = "questions" => i = 1
        /\ rr.owner = labels /\ offset = Size
    BY <1>1, <1>2, <1>6 DEF ParsesAs
  <2>2. LeaveSection /\ UNCHANGED <<name, rr>>
    BY <1>4, <2>1 DEF BeginItem
  <2>3. /\ phase' \in {"done", "section"} /\ section' # "questions"
    BY <2>2, LeaveSectionTypes
  <2>4. ParsesAs(labels)'
    BY <1>1, <1>2, <2>1, <2>2, <2>3 DEF ParsesAs, AtQuestion
  <2> QED BY <1>2, <2>4
<1> QED BY <1>5, <1>6

(* Where parseDNSName() is in the name of the question.                    *)
LEMMA ReadingName ==
    ASSUME InName, NEW labels, AsksFor(labels), ParsesAs(labels)
    PROVE  /\ phase = "name" /\ AtQuestion /\ name.resume = NotJumped /\ name.jumps = 0
           /\ LoopGoesOn
           /\ \E P \in [0..Len(labels) -> 0..Size], k \in 0..Len(labels) :
                 /\ Layout(P, labels, packet, HeaderLen, QuestionLen)
                 /\ name.pos = P[k] /\ name.labels = SubSeq(labels, 1, k)
<1>1. /\ phase = "name" /\ AtQuestion /\ name.resume = NotJumped /\ name.jumps = 0
      /\ ReadSoFar(labels)
  BY DEF InName, ParsesAs
<1>2. PICK P \in [0..Len(labels) -> 0..Size], k \in 0..Len(labels) :
         /\ Layout(P, labels, packet, HeaderLen, QuestionLen)
         /\ name.pos = P[k] /\ name.labels = SubSeq(labels, 1, k)
  BY <1>1 DEF ReadSoFar
<1>3. name.pos \in Nat /\ name.pos + 1 + QuestionLen <= Size
  BY <1>2, NextByte
<1>4. Size \in Nat
  BY QueryBytes
<1>5. LoopGoesOn
  BY <1>1, <1>3, <1>4, BytesAssumption DEF LoopGoesOn, QuestionLen
<1> QED BY <1>1, <1>2, <1>5

LEMMA QueryJump == TypeInv /\ QueryInv /\ Jump => QueryInv'
<1> SUFFICES ASSUME TypeInv, QueryInv, Jump, IsAsked' PROVE FALSE
  BY DEF QueryInv
<1>1. UNCHANGED inputs /\ InName /\ IsPointer
  BY DEF Jump
<1>2. PICK labels : AsksFor(labels) /\ ParsesAs(labels)
  BY <1>1, AskedBefore DEF InName
<1>3. PICK P \in [0..Len(labels) -> 0..Size], k \in 0..Len(labels) :
         /\ Layout(P, labels, packet, HeaderLen, QuestionLen) /\ name.pos = P[k]
  BY <1>1, <1>2, ReadingName
<1>4. At(P[k]) < Ptr
  <2>1. k < Len(labels) \/ k = Len(labels)
    BY <1>2 DEF AsksFor
  <2>2. CASE k < Len(labels)
    BY <1>2, <1>3, <2>2, NextByte, CellFacts
  <2>3. CASE k = Len(labels)
    <3>1. At(P[k]) = 0
      BY <1>2, <1>3, <2>3, NextByte, SMTT(30)
    <3> QED BY <3>1, CellFacts
  <2> QED BY <2>1, <2>2, <2>3
<1>5. At(P[k]) >= Ptr
  BY <1>1, <1>3 DEF IsPointer
<1>6. At(P[k]) \in Nat
  <2>1. packet \in Seq(Cell) /\ Size \in Nat
    BY <1>2, QueryBytes
  <2>2. P[k] \in Nat /\ P[k] < Size
    <3>1. P[k] \in Nat /\ P[k] + 1 + QuestionLen <= Size
      BY <1>2, <1>3, NextByte
    <3> QED BY <2>1, <3>1 DEF QuestionLen
  <2> QED BY <2>1, <2>2, AtType
<1> QED BY <1>4, <1>5, <1>6, CellFacts

LEMMA QueryTakeLabel == TypeInv /\ QueryInv /\ TakeLabel => QueryInv'
<1> SUFFICES ASSUME TypeInv, QueryInv, TakeLabel, IsAsked'
             PROVE  (AsksFor(Labels(domain)) /\ ParsesAs(Labels(domain)))'
  BY DEF QueryInv
<1>1. /\ UNCHANGED inputs /\ InName /\ IsLabel /\ packet' = packet
      /\ phase' = phase /\ section' = section /\ i' = i
  BY DEF TakeLabel, inputs
<1>2. PICK labels : /\ labels = Labels(domain)'
                    /\ AsksFor(labels) /\ AsksFor(labels)' /\ ParsesAs(labels) /\ Size' = Size
  BY <1>1, AskedBefore DEF InName
<1>3. phase = "name" /\ AtQuestion /\ name.resume = NotJumped /\ name.jumps = 0
  BY <1>1, <1>2, ReadingName
<1>4. PICK P \in [0..Len(labels) -> 0..Size], k \in 0..Len(labels) :
         /\ Layout(P, labels, packet, HeaderLen, QuestionLen)
         /\ name.pos = P[k] /\ name.labels = SubSeq(labels, 1, k)
  BY <1>1, <1>2, ReadingName
<1>5. labels \in Seq(Label) /\ Len(labels) \in Nat
  BY <1>2 DEF AsksFor
<1>6. k # Len(labels)
  <2>1. At(P[k]) \in 1..(Ptr - 1)
    BY <1>1, <1>4 DEF IsLabel
  <2>2. k = Len(labels) => At(P[k]) = 0
    BY <1>2, <1>4, NextByte
  <2> QED BY <2>1, <2>2
<1>7. k < Len(labels) /\ k + 1 \in 0..Len(labels) /\ k + 1 \in 1..Len(labels)
  BY <1>5, <1>6
<1>8. /\ P[k + 1] = P[k] + At(P[k]) + 1
      /\ Slice(P[k] + 1, At(P[k])) = labels[k + 1]
  BY <1>2, <1>4, <1>7, NextByte
<1>9. name \in [pos : Nat, resume : Nat \cup {NotJumped}, jumps : 0..MAX_JUMPS,
                labels : Seq(Label)]
  BY DEF TypeInv, PlaceInv
<1>10. name' = [name EXCEPT !.pos = name.pos + At(name.pos) + 1,
                            !.labels = Append(name.labels, Slice(name.pos + 1, At(name.pos)))]
  BY DEF TakeLabel
<1>11. /\ name'.pos = P[k + 1] /\ name'.resume = NotJumped /\ name'.jumps = 0
       /\ name'.labels = Append(SubSeq(labels, 1, k), labels[k + 1])
  BY <1>3, <1>4, <1>8, <1>9, <1>10
<1>12. Append(SubSeq(labels, 1, k), labels[k + 1]) = SubSeq(labels, 1, k + 1)
  BY <1>5, <1>7, SubSeqRecursiveSecond
<1>13. ReadSoFar(labels)'
  <2>1. P \in [0..Len(labels) -> 0..Size'] /\ Layout(P, labels, packet', HeaderLen, QuestionLen)
    BY <1>1, <1>2, <1>4
  <2>2. name'.pos = P[k + 1] /\ name'.labels = SubSeq(labels, 1, k + 1)
    BY <1>11, <1>12
  <2> QED BY <1>7, <2>1, <2>2 DEF ReadSoFar
<1>14. ParsesAs(labels)'
  BY <1>1, <1>3, <1>11, <1>13 DEF ParsesAs, AtQuestion
<1> QED BY <1>2, <1>14

LEMMA QueryEndName == TypeInv /\ QueryInv /\ EndName => QueryInv'
<1> SUFFICES ASSUME TypeInv, QueryInv, EndName, IsAsked'
             PROVE  (AsksFor(Labels(domain)) /\ ParsesAs(Labels(domain)))'
  BY DEF QueryInv
<1>1. /\ UNCHANGED inputs /\ InName /\ section' = section /\ packet' = packet
  BY DEF EndName, inputs
<1>2. PICK labels : /\ labels = Labels(domain)'
                    /\ AsksFor(labels) /\ AsksFor(labels)' /\ ParsesAs(labels) /\ Size' = Size
  BY <1>1, AskedBefore DEF InName
<1>3. phase = "name" /\ AtQuestion /\ name.resume = NotJumped /\ LoopGoesOn
  BY <1>1, <1>2, ReadingName
<1>4. PICK P \in [0..Len(labels) -> 0..Size], k \in 0..Len(labels) :
         /\ Layout(P, labels, packet, HeaderLen, QuestionLen)
         /\ name.pos = P[k] /\ name.labels = SubSeq(labels, 1, k)
  BY <1>1, <1>2, ReadingName
<1>5. labels \in Seq(Label) /\ Len(labels) \in Nat
  BY <1>2 DEF AsksFor
<1>6. k = Len(labels)
  <2>1. ~IsLabel
    BY <1>3 DEF EndName
  <2>2. k < Len(labels) => IsLabel
    <3>1. k < Len(labels) => At(P[k]) \in 1..(Ptr - 1) /\ P[k] + At(P[k]) < Size
      BY <1>2, <1>4, NextByte
    <3> QED BY <1>4, <3>1 DEF IsLabel
  <2> QED BY <1>5, <2>1, <2>2
<1>7. At(name.pos) = 0 /\ name.pos + 1 + QuestionLen = Size /\ name.pos \in Nat
  BY <1>2, <1>4, <1>6, NextByte
<1>8. name.labels = labels
  BY <1>4, <1>5, <1>6, SubSeqFull
<1>9. /\ offset' = name.pos + 1 /\ phase' = "fixed" /\ i' = i
      /\ rr' = [rr EXCEPT !.owner = name.labels]
  BY <1>3, <1>7 DEF EndName
<1>10. rr'.owner = labels
  <2>1. rr \in Record
    BY DEF TypeInv, TypeOK
  <2> QED BY <1>8, <1>9, <2>1 DEF Record
<1>11. offset' = Size' - QuestionLen
  BY <1>2, <1>7, <1>9 DEF QuestionLen
<1>12. ParsesAs(labels)'
  BY <1>1, <1>3, <1>9, <1>10, <1>11 DEF ParsesAs, AtQuestion
<1> QED BY <1>2, <1>12

LEMMA QuerySkipQuestion == TypeInv /\ QueryInv /\ SkipQuestion => QueryInv'
<1> SUFFICES ASSUME TypeInv, QueryInv, SkipQuestion, IsAsked'
             PROVE  (AsksFor(Labels(domain)) /\ ParsesAs(Labels(domain)))'
  BY DEF QueryInv
<1>1. UNCHANGED inputs /\ phase = "fixed" /\ section' = section /\ rr' = rr
  BY DEF SkipQuestion
<1>2. PICK labels : /\ labels = Labels(domain)'
                    /\ AsksFor(labels) /\ AsksFor(labels)' /\ ParsesAs(labels) /\ Size' = Size
  BY <1>1, AskedBefore
<1>3. AtQuestion /\ rr.owner = labels /\ offset = Size - QuestionLen /\ Size \in Nat
  BY <1>1, <1>2, QueryBytes DEF ParsesAs
<1>4. ~(offset + QuestionLen > Size) /\ offset + QuestionLen = Size
  BY <1>3 DEF QuestionLen
<1>5. phase' = "section" /\ i' = i + 1 /\ offset' = Size
  BY <1>4 DEF SkipQuestion
<1>6. section' = "questions" /\ i' = 1
  BY <1>1, <1>3, <1>5 DEF AtQuestion
<1>7. ParsesAs(labels)'
  BY <1>1, <1>2, <1>3, <1>5, <1>6 DEF ParsesAs, AtQuestion
<1> QED BY <1>2, <1>7

(* A query has no record.                                                  *)
LEMMA QueryNoRecord == QueryInv /\ (CutRecord \/ TakeRecord) => QueryInv'
<1> SUFFICES ASSUME QueryInv, CutRecord \/ TakeRecord, IsAsked' PROVE FALSE
  BY DEF QueryInv
<1>1. UNCHANGED inputs /\ phase = "fixed" /\ section # "questions"
  BY DEF CutRecord, TakeRecord
<1>2. PICK labels : ParsesAs(labels)
  BY <1>1, AskedBefore
<1> QED BY <1>1, <1>2 DEF ParsesAs, AtQuestion

LEMMA QueryStuttering == QueryInv /\ UNCHANGED vars => QueryInv'
<1> SUFFICES ASSUME QueryInv, UNCHANGED vars, IsAsked'
             PROVE  (AsksFor(Labels(domain)) /\ ParsesAs(Labels(domain)))'
  BY DEF QueryInv
<1>1. /\ UNCHANGED inputs /\ phase' = phase /\ section' = section /\ i' = i
      /\ offset' = offset /\ name' = name /\ rr' = rr
  BY DEF vars, inputs
<1>2. phase \notin {"resolve", "refused", "thrown"}
  BY <1>1 DEF IsAsked
<1>3. PICK labels : /\ labels = Labels(domain)'
                    /\ AsksFor(labels)' /\ ParsesAs(labels) /\ Size' = Size
  BY <1>1, <1>2, AskedBefore
<1>4. ReadSoFar(labels)' <=> ReadSoFar(labels)
  BY <1>1, <1>3 DEF ReadSoFar, inputs
<1>5. ParsesAs(labels)'
  BY <1>1, <1>3, <1>4 DEF ParsesAs, AtQuestion
<1> QED BY <1>3, <1>5

-----------------------------------------------------------------------------
(* Replies: what a server writes. *)

LEMMA ReplyShape ==
    ASSUME NEW r \in Replies
    PROVE  /\ WellWritten(r) /\ r.chain \in Nat /\ r.names \subseteq Name
           /\ r.packet \in Seq(Cell) /\ Len(r.packet) \in Nat /\ Len(r.packet) >= HeaderLen
           /\ \A k \in 0..(Len(r.packet) - 1) : Byte(r, k) \in Cell /\ Byte(r, k) \in Nat
<1>1. r \in Reply /\ WellWritten(r)
  BY InputsAssumption, RepliesAssumption
<1>2. r.chain \in Nat /\ r.names \subseteq Name /\ r.packet \in Seq(Cell)
  BY <1>1 DEF Reply
<1>3. Len(r.packet) \in Nat /\ Len(r.packet) >= HeaderLen
  BY <1>1, <1>2 DEF WellWritten
<1>4. ASSUME NEW k \in 0..(Len(r.packet) - 1) PROVE Byte(r, k) \in Cell /\ Byte(r, k) \in Nat
  <2>1. k + 1 \in 1..Len(r.packet)
    BY <1>3
  <2>2. r.packet[k + 1] \in Cell
    BY <1>2, <2>1
  <2> QED BY <2>2, CellFacts DEF Byte
<1> QED BY <1>1, <1>2, <1>3, <1>4

(* The sections of a reply: as many items as the header counts.            *)
LEMMA SectionShape ==
    ASSUME NEW r \in Replies, NEW s \in Section
    PROVE  /\ r.places[s] \in Seq(Nat) /\ Len(r.places[s]) \in Nat
           /\ Len(r.places[s]) = Byte(r, CountAt(s)) + 1
           /\ s # "questions" => /\ r.meant[s] \in Seq(Record)
                                 /\ Len(r.meant[s]) = Len(r.places[s]) - 1
           /\ s # "additional" => r.places[NextSection[s]][1] = r.places[s][Len(r.places[s])]
           /\ \A k \in 1..(Len(r.places[s]) - 1) :
                 /\ r.places[s][k] \in Nat /\ r.places[s][k + 1] \in Nat
                 /\ r.places[s][k + 1] <= Len(r.packet)
                 /\ \E m \in r.names : IsItem(m, s, k, r)
<1>1. r \in Reply /\ WellWritten(r)
  BY InputsAssumption, RepliesAssumption
<1>2. r.places[s] \in Seq(Nat)
  BY <1>1 DEF Reply
<1>3. /\ Len(r.places[s]) = Byte(r, CountAt(s)) + 1
      /\ s # "questions" => Len(r.meant[s]) = Byte(r, CountAt(s))
      /\ s # "additional" => r.places[NextSection[s]][1] = r.places[s][Len(r.places[s])]
      /\ \A k \in 1..(Len(r.places[s]) - 1) :
            /\ r.places[s][k + 1] <= Len(r.packet)
            /\ \E m \in r.names : IsItem(m, s, k, r)
  BY <1>1 DEF WellWritten
<1>4. s # "questions" => r.meant[s] \in Seq(Record)
  <2>1. r.meant \in [answers : Seq(Record), authority : Seq(Record), additional : Seq(Record)]
    BY <1>1 DEF Reply
  <2>2. s # "questions" => s \in {"answers", "authority", "additional"}
    BY DEF Section
  <2> QED BY <2>1, <2>2
<1>5. Len(r.places[s]) \in Nat
  BY <1>2
<1>6. s # "questions" => Len(r.meant[s]) = Len(r.places[s]) - 1
  <2>1. CountAt(s) \in 0..(Len(r.packet) - 1)
    <3>1. CountAt(s) \in 2..5
      BY DEF CountAt, Section
    <3>2. Len(r.packet) \in Nat /\ Len(r.packet) >= 6
      BY ReplyShape DEF HeaderLen
    <3> QED BY <3>1, <3>2
  <2>2. Byte(r, CountAt(s)) \in Nat
    BY <2>1, ReplyShape
  <2> QED BY <1>3, <2>2
<1>7. ASSUME NEW k \in 1..(Len(r.places[s]) - 1)
      PROVE  r.places[s][k] \in Nat /\ r.places[s][k + 1] \in Nat
  <2>1. k \in 1..Len(r.places[s]) /\ k + 1 \in 1..Len(r.places[s])
    BY <1>5
  <2> QED BY <1>2, <2>1, SMTT(30)
<1> QED BY <1>2, <1>3, <1>4, <1>5, <1>6, <1>7

LEMMA NameShape ==
    ASSUME NEW r \in Replies, NEW m \in r.names
    PROVE  /\ m.at \in Nat /\ m.end \in Nat /\ m.chain \in Nat /\ m.labels \in Seq(Label)
           /\ m.at < m.end /\ m.end <= Len(r.packet) /\ m.chain <= r.chain
           /\ Byte(r, m.at) \in Cell /\ Byte(r, m.at) \in Nat
           /\ IsEnd(m, r) \/ StartsWithLabel(m, r) \/ IsPointerTo(m, r)
<1>1. m \in Name /\ IsName(m, r) /\ Len(r.packet) \in Nat
  BY ReplyShape DEF WellWritten
<1>2. m.at \in Nat /\ m.end \in Nat /\ m.chain \in Nat /\ m.labels \in Seq(Label)
  BY <1>1 DEF Name
<1>3. /\ m.at < m.end /\ m.end <= Len(r.packet) /\ m.chain <= r.chain
      /\ IsEnd(m, r) \/ StartsWithLabel(m, r) \/ IsPointerTo(m, r)
  BY <1>1 DEF IsName
<1>4. m.at \in 0..(Len(r.packet) - 1)
  BY <1>1, <1>2, <1>3
<1> QED BY <1>2, <1>3, <1>4, ReplyShape

-----------------------------------------------------------------------------
(* A name is read as the labels that are written. *)

(* What is parsed is what was sent, as far as it goes.                     *)
LEMMA Beginning ==
    ASSUME TypeInv, IsBeginning
    PROVE  /\ reply \in Replies /\ Size \in Nat /\ Len(reply.packet) \in Nat
           /\ Size <= Len(reply.packet) /\ packet \in Seq(Cell)
           /\ damage # "cut" => Size = Len(reply.packet)
           /\ \A k \in Nat : k < Size => At(k) = Byte(reply, k) /\ At(k) \in Nat
           /\ \A from, length \in Nat : from + length <= Size =>
                 Slice(from, length) = Bytes(reply, from, length)
<1>1. packet \in Seq(Cell) /\ Size \in Nat
  BY SizeType DEF TypeInv, TypeOK
<1>2. /\ reply \in Replies /\ Size <= Len(reply.packet)
      /\ \A k \in 0..(Size - 1) : At(k) = Byte(reply, k)
      /\ damage # "cut" => Size = Len(reply.packet)
  BY DEF IsBeginning
<1>3. reply.packet \in Seq(Cell) /\ Len(reply.packet) \in Nat
  BY <1>2, ReplyShape
<1>4. ASSUME NEW k \in Nat, k < Size PROVE At(k) = Byte(reply, k) /\ At(k) \in Nat
  <2>1. k \in 0..(Size - 1)
    BY <1>1, <1>4
  <2> QED BY <1>1, <1>2, <1>4, <2>1, AtType
<1>5. ASSUME NEW from \in Nat, NEW length \in Nat, from + length <= Size
      PROVE  Slice(from, length) = Bytes(reply, from, length)
  <2> DEFINE a == SubSeq(packet, from + 1, from + length)
             b == SubSeq(reply.packet, from + 1, from + length)
  <2>1. from + 1 \in Int /\ from + length \in Int
    OBVIOUS
  <2>2. ASSUME NEW j \in (from + 1)..(from + length)
        PROVE  packet[j] \in Cell /\ reply.packet[j] \in Cell /\ packet[j] = reply.packet[j]
    <3>1. j \in 1..Len(packet) /\ j \in 1..Len(reply.packet) /\ j - 1 \in 0..(Size - 1)
          /\ (j - 1) + 1 = j
      BY <1>1, <1>2, <1>3, <1>5 DEF Size
    <3>2. At(j - 1) = Byte(reply, j - 1)
      BY <1>2, <3>1
    <3> QED BY <1>1, <1>3, <3>1, <3>2 DEF At, Byte
  <2>3. /\ a \in Seq(Cell) /\ Len(a) = IF from + 1 <= from + length
                                       THEN from + length - (from + 1) + 1 ELSE 0
        /\ \A j \in 1..(from + length - (from + 1) + 1) : a[j] = packet[from + 1 + j - 1]
    BY <2>1, <2>2, SubSeqProperties
  <2>4. /\ b \in Seq(Cell) /\ Len(b) = IF from + 1 <= from + length
                                       THEN from + length - (from + 1) + 1 ELSE 0
        /\ \A j \in 1..(from + length - (from + 1) + 1) : b[j] = reply.packet[from + 1 + j - 1]
    BY <2>1, <2>2, SubSeqProperties
  <2> HIDE DEF a, b
  <2>5. Len(a) = length /\ Len(b) = length
    BY <2>3, <2>4
  <2>6. ASSUME NEW j \in 1..Len(a) PROVE a[j] = b[j]
    <3>1. j \in 1..(from + length - (from + 1) + 1)
          /\ from + 1 + j - 1 \in (from + 1)..(from + length)
      BY <2>5
    <3> QED BY <2>2, <2>3, <2>4, <3>1
  <2>7. a = b
    BY <2>3, <2>4, <2>5, <2>6, SeqEqual
  <2> QED BY <2>7 DEF a, b, Slice, Bytes
<1> QED BY <1>1, <1>2, <1>3, <1>4, <1>5

LEMMA AppendLabel ==
    ASSUME NEW a \in Seq(Label), NEW label \in Label, NEW b \in Seq(Label)
    PROVE  a \o (<<label>> \o b) = Append(a, label) \o b
<1>1. PICK one : one = <<label>>
  OBVIOUS
<1>2. one \in Seq(Label)
  BY <1>1
<1>3. (a \o one) \o b = a \o (one \o b)
  BY <1>2, ConcatAssociative
<1>4. Append(a, label) = a \o <<label>>
  BY AppendIsConcat
<1> QED BY <1>1, <1>3, <1>4

(* What is left of the name m, which is being read.                        *)
Remains(m, n) ==
    /\ n \in reply.names /\ n.at = name.pos /\ m.labels = name.labels \o n.labels
    /\ m.chain = name.jumps + n.chain
    /\ IF name.resume = NotJumped THEN n.end = m.end
       ELSE name.resume = m.end /\ m.end <= Size /\ n.end <= Size

LEMMA ReadingRemains ==
    ASSUME NEW m PROVE ReadingOf(m) <=> \E n : Remains(m, n)
BY DEF ReadingOf, Remains

LEMMA ReadingKept ==
    ASSUME UNCHANGED <<inputs, name>>, NEW m, ReadingOf(m)
    PROVE  ReadingOf(m)'
<1>1. reply' = reply /\ name' = name /\ Size' = Size
  BY DEF inputs, Size
<1> QED BY <1>1 DEF ReadingOf

(* At its first byte nothing of a name has been read.                      *)
LEMMA ReadingStarts ==
    ASSUME TypeInv, IsBeginning, UNCHANGED inputs, NEW m \in reply.names, NEW from,
           from = m.at, StartName(from)
    PROVE  ReadingOf(m)'
<1>1. m.labels \in Seq(Label) /\ m.chain \in Nat
  BY Beginning, NameShape
<1>2. /\ name'.pos = m.at /\ name'.resume = NotJumped /\ name'.jumps = 0 /\ name'.labels = <<>>
      /\ reply' = reply
  BY DEF StartName, NoName, inputs
<1>3. m.labels = <<>> \o m.labels /\ m.chain = 0 + m.chain
  BY <1>1, ConcatEmptySeq
<1> QED BY <1>2, <1>3 DEF ReadingOf

LEMMA ReadingTakeLabel ==
    ASSUME TypeInv, IsBeginning, TakeLabel, NEW m \in reply.names, ReadingOf(m)
    PROVE  ReadingOf(m)'
<1>1. PICK n : Remains(m, n)
  BY ReadingRemains
<1>2. InName /\ LoopGoesOn /\ IsLabel /\ reply' = reply /\ Size' = Size
  BY DEF TakeLabel, inputs, Size
<1>3. /\ reply \in Replies /\ Size \in Nat /\ name.pos \in Nat /\ name.pos < Size
      /\ name.labels \in Seq(Label) /\ At(name.pos) \in Nat
      /\ At(name.pos) = Byte(reply, name.pos)
  BY <1>2, NameTypes, Beginning
<1>4. /\ At(name.pos) \in 1..(Ptr - 1) /\ name.pos + At(name.pos) < Size
      /\ At(name.pos) # 0 /\ ~(At(name.pos) >= Ptr)
  BY <1>2, <1>3, CellFacts DEF IsLabel
<1>5. n \in reply.names /\ n.at = name.pos
  BY <1>1 DEF Remains
<1>6. StartsWithLabel(n, reply)
  <2>1. ~IsEnd(n, reply)
    BY <1>3, <1>4, <1>5 DEF IsEnd
  <2>2. ~IsPointerTo(n, reply)
    BY <1>3, <1>4, <1>5 DEF IsPointerTo
  <2> QED BY <1>3, <1>5, <2>1, <2>2, NameShape
<1>7. PICK k \in reply.names :
         /\ k.at = name.pos + At(name.pos) + 1 /\ k.end = n.end /\ k.chain = n.chain
         /\ n.labels = <<Bytes(reply, name.pos + 1, At(name.pos))>> \o k.labels
  BY <1>3, <1>5, <1>6 DEF StartsWithLabel
<1>8. PICK label : label = Slice(name.pos + 1, At(name.pos))
  OBVIOUS
<1>9. label = Bytes(reply, name.pos + 1, At(name.pos)) /\ label \in Label
  <2>1. name.pos + 1 \in Nat /\ (name.pos + 1) + At(name.pos) <= Size
    BY <1>3, <1>4
  <2>2. packet \in Seq(Cell)
    BY Beginning
  <2> QED BY <1>3, <1>8, <2>1, <2>2, Beginning, SliceType DEF Label
<1>10. m.labels = Append(name.labels, label) \o k.labels
  <2>1. k.labels \in Seq(Label)
    BY <1>3, NameShape
  <2>2. m.labels = name.labels \o (<<label>> \o k.labels)
    BY <1>1, <1>7, <1>9 DEF Remains
  <2> QED BY <1>3, <1>9, <2>1, <2>2, AppendLabel
<1>11. /\ name'.pos = k.at /\ name'.labels = Append(name.labels, label)
       /\ name'.resume = name.resume /\ name'.jumps = name.jumps
  <2>1. name \in [pos : Nat, resume : Nat \cup {NotJumped}, jumps : 0..MAX_JUMPS,
                  labels : Seq(Label)]
    BY DEF TypeInv, PlaceInv
  <2>2. name' = [name EXCEPT !.pos = name.pos + At(name.pos) + 1,
                             !.labels = Append(name.labels, label)]
    BY <1>8 DEF TakeLabel
  <2> QED BY <1>7, <2>1, <2>2
<1>12. Remains(m, k)'
  BY <1>1, <1>2, <1>7, <1>10, <1>11 DEF Remains
<1> QED BY <1>12 DEF Remains, ReadingOf

LEMMA ReadingJump ==
    ASSUME TypeInv, IsBeginning, Jump, NEW m \in reply.names, ReadingOf(m)
    PROVE  ReadingOf(m)'
<1>1. PICK n : Remains(m, n)
  BY ReadingRemains
<1>2. InName /\ LoopGoesOn /\ IsPointer /\ reply' = reply /\ Size' = Size
  BY DEF Jump, inputs, Size
<1>3. /\ reply \in Replies /\ Size \in Nat /\ name.pos \in Nat /\ name.pos < Size
      /\ At(name.pos) \in Nat /\ At(name.pos) = Byte(reply, name.pos)
      /\ name.jumps \in 0..MAX_JUMPS /\ name.resume \in Nat \cup {NotJumped}
  BY <1>2, NameTypes, Beginning
<1>4. At(name.pos) >= Ptr /\ name.pos + 1 < Size
  BY <1>2 DEF IsPointer
<1>5. At(name.pos + 1) = Byte(reply, name.pos + 1)
  BY <1>3, <1>4, Beginning
<1>6. n \in reply.names /\ n.at = name.pos
  BY <1>1 DEF Remains
<1>7. IsPointerTo(n, reply)
  <2>1. ~IsEnd(n, reply)
    BY <1>3, <1>4, <1>6, CellFacts DEF IsEnd
  <2>2. ~StartsWithLabel(n, reply)
    <3>1. ~(At(name.pos) \in 1..(Ptr - 1))
      BY <1>3, <1>4, CellFacts
    <3> QED BY <1>3, <1>6, <3>1 DEF StartsWithLabel
  <2> QED BY <1>3, <1>6, <2>1, <2>2, NameShape
<1>8. PICK k \in reply.names :
         /\ k.at = (At(name.pos) - Ptr) * Base + At(name.pos + 1) /\ k.end <= name.pos
         /\ n.end = name.pos + 2 /\ n.labels = k.labels /\ n.chain = k.chain + 1
  BY <1>3, <1>5, <1>6, <1>7 DEF IsPointerTo
<1>9. k.end \in Nat /\ k.chain \in Nat /\ m.end \in Nat
  BY <1>3, NameShape
<1> DEFINE back == IF name.resume = NotJumped THEN name.pos + 2 ELSE name.resume
<1>10. /\ name'.pos = k.at /\ name'.labels = name.labels
       /\ name'.resume = back /\ name'.jumps = name.jumps + 1
  <2>1. name \in [pos : Nat, resume : Nat \cup {NotJumped}, jumps : 0..MAX_JUMPS,
                  labels : Seq(Label)]
    BY DEF TypeInv, PlaceInv
  <2>2. name' = [name EXCEPT !.pos = k.at, !.resume = back, !.jumps = name.jumps + 1]
    BY <1>8 DEF Jump
  <2> HIDE DEF back
  <2> QED BY <2>1, <2>2
<1>11. back = m.end /\ m.end <= Size /\ k.end <= Size /\ back # NotJumped
  <2>1. IF name.resume = NotJumped THEN n.end = m.end
        ELSE name.resume = m.end /\ m.end <= Size
    BY <1>1 DEF Remains
  <2> QED BY <1>3, <1>4, <1>8, <1>9, <2>1 DEF NotJumped
<1> HIDE DEF back
<1>12. m.labels = name.labels \o k.labels /\ m.chain = (name.jumps + 1) + k.chain
  <2>1. m.labels = name.labels \o n.labels /\ m.chain = name.jumps + n.chain
    BY <1>1 DEF Remains
  <2>2. m.labels = name.labels \o k.labels
    BY <1>8, <2>1
  <2>3. PICK j, c : j = name.jumps /\ c = k.chain
    OBVIOUS
  <2>4. j + (c + 1) = (j + 1) + c
    BY <1>3, <1>9, <2>3
  <2> QED BY <1>8, <2>1, <2>2, <2>3, <2>4
<1>13. Remains(m, k)'
  BY <1>2, <1>10, <1>11, <1>12 DEF Remains
<1> QED BY <1>13 DEF Remains, ReadingOf

(* Where a name is left: after it, with all of its labels, or, if it is    *)
(* not all there, at the label or pointer that is cut, or at the end.      *)
NameEnd == IF name.resume # NotJumped THEN name.resume
           ELSE IF LoopGoesOn /\ At(name.pos) = 0 THEN name.pos + 1
           ELSE name.pos

IsComplete(m) == name.labels = m.labels /\ NameEnd = m.end /\ m.end <= Size

IsCut(m) ==
    /\ NameEnd = name.pos /\ m.end > Size
    /\ \E n \in reply.names :
          /\ n.at = name.pos /\ n.end = m.end
          /\ \/ name.pos + 1 >= Size
             \/ /\ name.pos < Size /\ At(name.pos) \in 1..(Ptr - 1)
                /\ name.pos + At(name.pos) >= Size

LEMMA ReadingEnds ==
    ASSUME TypeInv, IsBeginning, IsRead, EndName, NEW m \in reply.names, ReadingOf(m),
           phase = "name" \/ m.end <= Size
    PROVE  IsComplete(m) \/ IsCut(m)
<1>1. PICK n : Remains(m, n)
  BY ReadingRemains
<1>2. ~(LoopGoesOn /\ (IsPointer \/ IsLabel))
  BY DEF EndName
<1>3. /\ reply \in Replies /\ Size \in Nat /\ n \in reply.names /\ n.at = name.pos
      /\ name.pos \in Nat /\ name.jumps \in 0..MAX_JUMPS
      /\ name.labels \in Seq(Label) /\ name.resume \in Nat \cup {NotJumped}
  BY <1>1, Beginning DEF Remains, TypeInv, TypeOK, PlaceInv
<1>4. /\ m.end \in Nat /\ n.at \in Nat /\ n.end \in Nat /\ n.at < n.end
      /\ m.chain \in Nat /\ n.chain \in Nat /\ m.chain <= reply.chain
      /\ IsEnd(n, reply) \/ StartsWithLabel(n, reply) \/ IsPointerTo(n, reply)
  BY <1>3, NameShape
<1>5. name.jumps < MAX_JUMPS
  <2>1. reply.chain < MAX_JUMPS /\ reply.chain \in Nat
    BY <1>3, ReplyShape DEF IsRead
  <2>2. m.chain = name.jumps + n.chain
    BY <1>1 DEF Remains
  <2> QED BY <1>3, <1>4, <2>1, <2>2, BytesAssumption
<1>6. name.pos < Size => At(name.pos) \in Nat /\ At(name.pos) = Byte(reply, name.pos)
  BY <1>3, Beginning
(* What is not at its end goes on if it is there.                          *)
<1>7. ASSUME name.pos < Size, StartsWithLabel(n, reply)
      PROVE  /\ name.pos + At(name.pos) >= Size /\ At(name.pos) \in 1..(Ptr - 1)
             /\ n.end > Size
  <2>1. LoopGoesOn
    BY <1>5, <1>7 DEF LoopGoesOn
  <2>2. PICK k \in reply.names :
           /\ At(name.pos) \in 1..(Ptr - 1) /\ k.at = name.pos + At(name.pos) + 1
           /\ k.end = n.end
    BY <1>3, <1>6, <1>7 DEF StartsWithLabel
  <2>3. ~(name.pos + At(name.pos) < Size)
    BY <1>2, <2>1, <2>2 DEF IsLabel
  <2>4. k.at \in Nat /\ k.end \in Nat /\ k.at < k.end
    BY <1>3, NameShape
  <2> QED BY <1>3, <1>6, <1>7, <2>2, <2>3, <2>4
<1>8. ASSUME name.pos < Size, IsPointerTo(n, reply)
      PROVE  name.pos + 1 >= Size /\ At(name.pos) >= Ptr /\ n.end > Size
  <2>1. LoopGoesOn
    BY <1>5, <1>8 DEF LoopGoesOn
  <2>2. At(name.pos) >= Ptr /\ n.end = name.pos + 2
    BY <1>3, <1>6, <1>8 DEF IsPointerTo
  <2>3. ~(name.pos + 1 < Size)
    BY <1>2, <2>1, <2>2 DEF IsPointer
  <2> QED BY <1>3, <2>2, <2>3
<1>9. CASE n.end <= Size
  <2>1. name.pos < Size
    BY <1>3, <1>4, <1>9
  <2>2. IsEnd(n, reply)
    BY <1>3, <1>4, <1>7, <1>8, <1>9, <2>1
  <2>3. At(name.pos) = 0 /\ n.end = name.pos + 1 /\ n.labels = <<>> /\ LoopGoesOn
    BY <1>3, <1>5, <1>6, <2>1, <2>2 DEF IsEnd, LoopGoesOn
  <2>4. m.labels = name.labels
    <3>1. m.labels = name.labels \o <<>>
      BY <1>1, <2>3 DEF Remains
    <3> QED BY <1>3, <3>1, ConcatEmptySeq
  <2>5. NameEnd = m.end /\ m.end <= Size
    <3>1. IF name.resume = NotJumped THEN n.end = m.end
          ELSE name.resume = m.end /\ m.end <= Size
      BY <1>1 DEF Remains
    <3> QED BY <1>9, <2>3, <3>1 DEF NameEnd
  <2> QED BY <2>4, <2>5 DEF IsComplete
<1>10. CASE n.end > Size
  <2>1. name.resume = NotJumped /\ n.end = m.end
    <3>1. IF name.resume = NotJumped THEN n.end = m.end ELSE n.end <= Size
      BY <1>1 DEF Remains
    <3> QED BY <1>3, <1>4, <1>10, <3>1
  <2>2. phase = "name" /\ name.pos <= Size
    <3>1. phase = "name"
      BY <1>3, <1>4, <1>10, <2>1
    <3> QED BY <2>1, <3>1 DEF TypeInv, PlaceInv
  <2>3. CASE name.pos >= Size
    <3>1. ~LoopGoesOn /\ name.pos + 1 >= Size
      BY <1>3, <2>3 DEF LoopGoesOn
    <3>2. NameEnd = name.pos
      BY <2>1, <3>1 DEF NameEnd
    <3> QED BY <1>3, <1>10, <2>1, <3>1, <3>2 DEF IsCut
  <2>4. CASE name.pos < Size
    <3>1. ~IsEnd(n, reply)
      <4>1. n.end # name.pos + 1
        BY <1>3, <1>4, <1>10, <2>4
      <4> QED BY <1>3, <4>1 DEF IsEnd
    <3>2. CASE StartsWithLabel(n, reply)
      <4>1. /\ name.pos + At(name.pos) >= Size /\ At(name.pos) \in 1..(Ptr - 1)
            /\ At(name.pos) # 0
        BY <1>7, <2>4, <3>2
      <4>2. NameEnd = name.pos
        BY <2>1, <4>1 DEF NameEnd
      <4> QED BY <1>3, <1>10, <2>1, <2>4, <4>1, <4>2 DEF IsCut
    <3>3. CASE IsPointerTo(n, reply)
      <4>1. name.pos + 1 >= Size /\ At(name.pos) # 0
        BY <1>6, <1>8, <2>4, <3>3, CellFacts
      <4>2. NameEnd = name.pos
        BY <2>1, <4>1 DEF NameEnd
      <4> QED BY <1>3, <1>10, <2>1, <4>1, <4>2 DEF IsCut
    <3> QED BY <1>4, <3>1, <3>2, <3>3
  <2> QED BY <1>3, <2>3, <2>4
<1> QED BY <1>3, <1>4, <1>9, <1>10

-----------------------------------------------------------------------------
(* What has been taken. *)

LEMMA SectionNames ==
    /\ RecordSection = {"answers", "authority", "additional"}
    /\ RecordSection \subseteq Section
    /\ Section = RecordSection \cup {"questions"}
BY DEF RecordSection, Section

(* As long as the items are in step, every section begins as it should.    *)
LEMMA TakenIsPrefix ==
    ASSUME TypeInv, reply \in Replies, TakenSoFar, i < Len(reply.places[section])
    PROVE  /\ BeginsAsMeant
           /\ section \in RecordSection /\ i + 1 < Len(reply.places[section]) =>
                 out[section] # reply.meant[section]
<1>1. section \in Section /\ i \in Nat
  BY DEF TypeInv, TypeOK
<1> DEFINE taken(s) == IF s = section THEN i
                       ELSE IF s \in EarlierSections[section] THEN Len(reply.meant[s]) ELSE 0
<1>2. ASSUME NEW s \in RecordSection
      PROVE  /\ reply.meant[s] \in Seq(Record) /\ Len(reply.meant[s]) \in Nat
             /\ taken(s) \in Nat /\ taken(s) <= Len(reply.meant[s])
             /\ out[s] = SubSeq(reply.meant[s], 1, taken(s))
  <2>1. s \in Section /\ s # "questions"
    BY SectionNames DEF RecordSection
  <2>2. /\ reply.meant[s] \in Seq(Record) /\ Len(reply.places[s]) \in Nat
        /\ Len(reply.meant[s]) = Len(reply.places[s]) - 1
    BY <2>1, SectionShape
  <2>3. Len(reply.meant[s]) \in Nat
    BY <2>2
  <2>4. s = section => i <= Len(reply.meant[s])
    BY <1>1, <2>2, <2>3
  <2>5. out[s] = SubSeq(reply.meant[s], 1, taken(s))
    BY DEF TakenSoFar
  <2> QED BY <1>1, <2>2, <2>3, <2>4, <2>5
<1>3. ASSUME NEW s \in RecordSection
      PROVE  IsPrefix(out[s], reply.meant[s]) /\ Len(out[s]) = taken(s)
  <2>1. PICK meant, n : meant = reply.meant[s] /\ n = taken(s)
    OBVIOUS
  <2>2. meant \in Seq(Record) /\ Len(meant) \in Nat /\ n \in Nat /\ n <= Len(meant)
        /\ out[s] = SubSeq(meant, 1, n)
    BY <1>2, <2>1
  <2>3. Len(SubSeq(meant, 1, n)) = n
    <3>1. \A j \in 1..n : meant[j] \in Record
      BY <2>2
    <3>2. Len(SubSeq(meant, 1, n)) = IF 1 <= n THEN n - 1 + 1 ELSE 0
      BY <2>2, <3>1, SubSeqProperties
    <3> QED BY <2>2, <3>2
  <2>4. IsPrefix(out[s], meant)
    BY <2>2, <2>3 DEF IsPrefix
  <2> QED BY <2>1, <2>2, <2>3, <2>4
<1> HIDE DEF taken
<1>4. BeginsAsMeant
  BY <1>3, SectionNames DEF BeginsAsMeant
<1>5. ASSUME section \in RecordSection, i + 1 < Len(reply.places[section])
      PROVE  out[section] # reply.meant[section]
  <2>1. Len(out[section]) = i
    BY <1>3, <1>5 DEF taken
  <2>2. Len(reply.meant[section]) = Len(reply.places[section]) - 1
        /\ Len(reply.places[section]) \in Nat
    <3>1. section \in Section /\ section # "questions"
      BY <1>5 DEF RecordSection
    <3> QED BY <3>1, SectionShape
  <2> QED BY <1>1, <1>5, <2>1, <2>2
<1> QED BY <1>4, <1>5

-----------------------------------------------------------------------------
(* Every step keeps what is known of a reply. *)

ReplyStage ==
    \/ InStep
    \/ phase = "done" /\ out = reply.meant
    \/ phase = "failed" /\ damage = "cut"
    \/ OutOfStep

LEMMA ReplyInit == Init => ReplyInv
<1> SUFFICES ASSUME Init, IsRead PROVE IsBeginning /\ InStep
  BY DEF ReplyInv
<1>1. /\ reply \in Replies /\ damage \in {"none", "cut"} /\ Arrives(reply.packet)
      /\ phase = "header"
  BY DEF Init, IsRead
<1>2. section = "questions" /\ i = 0 /\ out = Empty
  BY DEF Init
<1>3. PICK sent : sent = reply.packet
  OBVIOUS
<1>4. /\ sent \in Seq(Cell) /\ Len(sent) \in Nat /\ Len(sent) >= HeaderLen
      /\ HeaderLen \in Nat
  BY <1>1, <1>3, ReplyShape DEF HeaderLen
<1>5. IsBeginning
  <2>1. CASE damage = "none"
    <3>1. packet = reply.packet
      BY <1>1, <2>1 DEF Arrives
    <3>2. Size = Len(reply.packet) /\ \A k \in 0..(Size - 1) : At(k) = Byte(reply, k)
      BY <3>1 DEF Size, At, Byte
    <3> QED BY <1>1, <1>3, <1>4, <3>2 DEF IsBeginning
  <2>2. CASE damage = "cut"
    <3>1. PICK n \in HeaderLen..(Len(sent) - 1) : packet = SubSeq(sent, 1, n)
      BY <1>1, <1>3, <2>2 DEF Arrives
    <3>2. n \in Nat /\ n >= HeaderLen /\ n <= Len(sent)
      BY <1>4, <3>1
    <3>3. \A j \in 1..n : sent[j] \in Cell
      BY <1>4, <3>2
    <3>4. /\ Len(packet) = IF 1 <= n THEN n - 1 + 1 ELSE 0
          /\ \A j \in 1..(n - 1 + 1) : packet[j] = sent[1 + j - 1]
      BY <3>1, <3>2, <3>3, SubSeqProperties
    <3>5. Size = n
      BY <3>2, <3>4 DEF Size
    <3>6. ASSUME NEW k \in 0..(n - 1) PROVE At(k) = Byte(reply, k)
      <4>1. k + 1 \in 1..(n - 1 + 1) /\ 1 + (k + 1) - 1 = k + 1
        BY <3>2
      <4>2. packet[k + 1] = sent[k + 1]
        BY <3>4, <4>1
      <4> QED BY <1>3, <4>2 DEF At, Byte
    <3> QED BY <1>1, <1>3, <2>2, <3>2, <3>5, <3>6 DEF IsBeginning
  <2> QED BY <1>1, <2>1, <2>2
<1>6. TakenSoFar
  <2>1. ASSUME NEW s \in RecordSection PROVE out[s] = SubSeq(reply.meant[s], 1, 0)
    <3>1. SubSeq(reply.meant[s], 1, 0) = <<>>
      BY SubSeqEmpty
    <3>2. out.answers = <<>> /\ out.authority = <<>> /\ out.additional = <<>>
      BY <1>2 DEF Empty
    <3>3. out[s] = <<>>
      BY <3>2, SectionNames
    <3> QED BY <3>1, <3>3
  <2>2. \A s \in RecordSection : s # section /\ s \notin EarlierSections[section]
    BY <1>2, SectionNames DEF EarlierSections
  <2> QED BY <2>1, <2>2 DEF TakenSoFar
<1> QED BY <1>1, <1>2, <1>5, <1>6 DEF InStep, AtQuestion

(* The other actions keep the reply and the packet.                        *)
LEMMA ReplyBefore ==
    ASSUME TypeInv, ReplyInv, UNCHANGED inputs
    PROVE  /\ reply' = reply /\ damage' = damage /\ packet' = packet /\ Size' = Size
           /\ IsRead' => IsRead /\ IsBeginning /\ ReplyStage /\ reply \in Replies
           /\ IsRead' /\ ReplyStage' => ReplyInv'
           /\ ~IsRead' => ReplyInv'
<1>1. reply' = reply /\ damage' = damage /\ packet' = packet /\ Size' = Size
  BY DEF inputs, Size
<1>2. IsRead' => IsRead
  <2>1. RestIsRead => RestIsRead'
    BY <1>1 DEF RestIsRead, At
  <2> QED BY <1>1, <2>1 DEF IsRead
<1>3. IsRead => IsBeginning /\ ReplyStage
  BY DEF ReplyInv, ReplyStage
<1>4. IsBeginning => IsBeginning' /\ reply \in Replies
  BY <1>1 DEF IsBeginning, At
<1>5. ReplyInv' <=> (IsRead' => IsBeginning' /\ ReplyStage')
  BY DEF ReplyInv, ReplyStage
<1> QED BY <1>1, <1>2, <1>3, <1>4, <1>5

LEMMA StillInStep ==
    ASSUME TakenSoFar', NEW r, NEW s, NEW k, r = reply', s = section', k = i' + 1,
           k < Len(r.places[s]), NEW m \in r.names, IsItem(m, s, k, r), ReadsItem(m)'
    PROVE  ReplyStage'
<1>1. InStep'
  BY DEF InStep
<1> QED BY <1>1 DEF ReplyStage

LEMMA StillTaken ==
    ASSUME TakenSoFar, UNCHANGED <<reply, out, section, i>>
    PROVE  TakenSoFar'
BY DEF TakenSoFar

(* After a cut the sections that count are as they are.                    *)
LEMMA StillOutOfStep ==
    ASSUME OutOfStep, UNCHANGED <<reply, damage, out, section>>,
           phase \notin {"section", "done"} \/ (phase = "section" /\ offset # Size)
    PROVE  ReplyStage'
<1>1. BeginsAsMeant'
  BY DEF OutOfStep, BeginsAsMeant
<1>2. OutOfStep'
  BY <1>1 DEF OutOfStep
<1> QED BY <1>2 DEF ReplyStage

LEMMA OutOfStepLeaves ==
    ASSUME TypeInv, OutOfStep, LeaveSection, UNCHANGED <<reply, damage, out>>,
           phase \notin {"section", "done"} \/ (phase = "section" /\ offset # Size)
    PROVE  ReplyStage'
<1>1. BeginsAsMeant'
  BY DEF OutOfStep, BeginsAsMeant
<1>2. CASE section = "authority" /\ out.answers # reply.meant.answers
  <2>1. section' = "additional"
    BY <1>2 DEF LeaveSection, NextSection
  <2>2. OutOfStep'
    BY <1>1, <1>2, <2>1 DEF OutOfStep
  <2> QED BY <2>2 DEF ReplyStage
<1>3. CASE section = "additional"
  <2>1. phase' = "done"
    BY <1>3 DEF LeaveSection
  <2>2. OutOfStep'
    BY <1>1, <2>1 DEF OutOfStep
  <2> QED BY <2>2 DEF ReplyStage
<1> QED BY <1>2, <1>3 DEF OutOfStep

(* A record that is pushed after a cut does not count.                     *)
LEMMA OutOfStepPushes ==
    ASSUME TypeInv, OutOfStep, NEW record, Push(record),
           UNCHANGED <<reply, damage, section>>, phase \notin {"section", "done"}
    PROVE  ReplyStage'
<1>1. out' = [out EXCEPT ![section] = Append(@, record)]
  BY DEF Push
<1>2. out \in [answers : Seq(Record), authority : Seq(Record), additional : Seq(Record)]
  BY DEF TypeInv, PlaceInv
<1>3. CASE section \in {"authority", "additional"} /\ out.answers # reply.meant.answers
  <2>1. out'.answers = out.answers
    BY <1>1, <1>2, <1>3
  <2>2. BeginsAsMeant'
    BY <1>3, <2>1 DEF OutOfStep, BeginsAsMeant
  <2>3. OutOfStep'
    BY <1>3, <2>1, <2>2 DEF OutOfStep
  <2> QED BY <2>3 DEF ReplyStage
<1>4. CASE section = "additional" /\ out.authority # reply.meant.authority
  <2>1. out'.answers = out.answers /\ out'.authority = out.authority
    BY <1>1, <1>2, <1>4
  <2>2. BeginsAsMeant'
    BY <1>4, <2>1 DEF OutOfStep, BeginsAsMeant
  <2>3. OutOfStep'
    BY <1>4, <2>1, <2>2 DEF OutOfStep
  <2> QED BY <2>3 DEF ReplyStage
<1> QED BY <1>3, <1>4 DEF OutOfStep

LEMMA ReplyCreateQuery == TypeInv /\ ReplyInv /\ CreateQuery => ReplyInv'
<1> SUFFICES ASSUME TypeInv, ReplyInv, CreateQuery, IsRead' PROVE FALSE
  BY DEF ReplyInv
<1>1. phase = "resolve" /\ reply' = reply
  BY DEF CreateQuery
<1> QED BY <1>1 DEF TypeInv, PlaceInv, IsRead

LEMMA ReplyHeader == TypeInv /\ ReplyInv /\ Header => ReplyInv'
<1> SUFFICES ASSUME TypeInv, ReplyInv, Header, IsRead' PROVE ReplyStage'
  BY ReplyBefore DEF Header
<1>1. /\ phase = "header" /\ section' = section /\ i' = i /\ out' = out /\ offset' = HeaderLen
      /\ phase' = IF Size < HeaderLen \/ RCode # 0 THEN "failed" ELSE "section"
      /\ UNCHANGED inputs
  BY DEF Header
<1>2. /\ reply' = reply /\ damage' = damage /\ IsBeginning /\ ReplyStage /\ reply \in Replies
  BY <1>1, ReplyBefore
<1>3. CASE InStep
  <2>1. TakenSoFar /\ section = "questions" /\ i = 0
    BY <1>1, <1>3 DEF InStep, ReadsItem, AtQuestion
  <2>2. TakenSoFar'
    BY <1>1, <1>2, <2>1, StillTaken
  <2>3. Size \in Nat /\ Size >= HeaderLen /\ HeaderLen \in Nat /\ HeaderLen > 1
    BY <1>2, Beginning DEF IsBeginning, HeaderLen
  <2>4. RCode = 0
    <3>1. At(1) = Byte(reply, 1)
      BY <1>2, <2>3, Beginning
    <3>2. Byte(reply, 1) = 0
      BY <1>2, ReplyShape DEF WellWritten
    <3> QED BY <3>1, <3>2 DEF RCode
  <2>5. phase' = "section"
    BY <1>1, <2>3, <2>4
  <2>6. HeaderLen = reply.places["questions"][1] /\ 0 < Len(reply.places["questions"])
    <3>1. reply.places["questions"][1] = HeaderLen
      BY <1>2, ReplyShape DEF WellWritten
    <3>2. CountAt("questions") = 2
      BY DEF CountAt
    <3>3. Byte(reply, 2) \in Nat
      <4>1. 2 < Size
        BY <2>3 DEF HeaderLen
      <4> QED BY <1>2, <4>1, Beginning
    <3>4. Len(reply.places["questions"]) = Byte(reply, 2) + 1
      BY <1>2, <3>2, SectionShape DEF Section
    <3> QED BY <3>1, <3>3, <3>4
  <2>7. InStep'
    BY <1>1, <1>2, <2>1, <2>2, <2>5, <2>6 DEF InStep
  <2> QED BY <2>7 DEF ReplyStage
<1>4. CASE OutOfStep
  BY <1>1, <1>2, <1>4, StillOutOfStep
<1> QED BY <1>1, <1>2, <1>3, <1>4 DEF ReplyStage

(* The count in the header is the number of items, also in a beginning.    *)
LEMMA CountOfReply ==
    ASSUME TypeInv, IsBeginning
    PROVE  /\ section \in Section /\ i \in Nat
           /\ Len(reply.places[section]) \in Nat
           /\ Count(section) \in Nat /\ Count(section) + 1 = Len(reply.places[section])
<1>1. section \in Section /\ i \in Nat
  BY DEF TypeInv, TypeOK
<1>2. PICK k : k = CountAt(section)
  OBVIOUS
<1>3. k \in Nat /\ k < HeaderLen
  <2>1. CountAt(section) \in 2..5
    BY <1>1 DEF CountAt, Section
  <2> QED BY <1>2, <2>1 DEF HeaderLen
<1>4. Size \in Nat /\ HeaderLen <= Size /\ HeaderLen \in Nat
  BY Beginning DEF IsBeginning, HeaderLen
<1>5. At(k) = Byte(reply, k) /\ At(k) \in Nat
  <2>1. k < Size
    BY <1>3, <1>4
  <2> QED BY <1>3, <2>1, Beginning
<1>6. Len(reply.places[section]) = Byte(reply, CountAt(section)) + 1
      /\ Len(reply.places[section]) \in Nat
  BY <1>1, Beginning, SectionShape
<1> QED BY <1>1, <1>2, <1>5, <1>6 DEF Count

LEMMA SameSections ==
    ASSUME NEW S, NEW a \in [answers : S, authority : S, additional : S],
           NEW b \in [answers : S, authority : S, additional : S],
           a.answers = b.answers, a.authority = b.authority, a.additional = b.additional
    PROVE  a = b
OBVIOUS

(* Everything of a section has been taken when its loop is left.           *)
LEMMA SectionEnds ==
    ASSUME TypeInv, reply \in Replies, TakenSoFar, i + 1 = Len(reply.places[section]),
           offset = reply.places[section][i + 1], LeaveSection,
           UNCHANGED <<reply, damage, out, offset>>
    PROVE  ReplyStage'
<1>1. section \in Section /\ i \in Nat
  BY DEF TypeInv, TypeOK
<1>2. ASSUME NEW s \in RecordSection
      PROVE  /\ reply.meant[s] \in Seq(Record) /\ Len(reply.meant[s]) \in Nat
             /\ Len(reply.meant[s]) = Len(reply.places[s]) - 1
  <2>1. s \in Section /\ s # "questions"
    BY SectionNames DEF RecordSection
  <2> QED BY <2>1, SectionShape
<1>3. section \in RecordSection => Len(reply.meant[section]) = i
  <2>1. ASSUME section \in RecordSection PROVE Len(reply.meant[section]) = i
    <3>1. Len(reply.meant[section]) = Len(reply.places[section]) - 1
      BY <1>2, <2>1
    <3>2. Len(reply.meant[section]) = (i + 1) - 1
      BY <3>1
    <3> QED BY <1>1, <3>2
  <2> QED BY <2>1
<1>4. ASSUME NEW s \in RecordSection
      PROVE  /\ s = section \/ s \in EarlierSections[section] => out[s] = reply.meant[s]
             /\ ~(s = section \/ s \in EarlierSections[section]) =>
                    out[s] = SubSeq(reply.meant[s], 1, 0)
  <2>1. out[s] = SubSeq(reply.meant[s], 1,
                        IF s = section THEN i
                        ELSE IF s \in EarlierSections[section] THEN Len(reply.meant[s]) ELSE 0)
    BY DEF TakenSoFar
  <2>2. SubSeq(reply.meant[s], 1, Len(reply.meant[s])) = reply.meant[s]
    BY <1>2, SubSeqFull
  <2> QED BY <1>3, <2>1, <2>2
<1>5. CASE section = "additional"
  <2>1. \A s \in RecordSection : s = section \/ s \in EarlierSections[section]
    BY <1>5, SectionNames DEF EarlierSections
  <2>2. \A s \in RecordSection : out[s] = reply.meant[s]
    BY <1>4, <2>1
  <2>3. /\ out \in [answers : Seq(Record), authority : Seq(Record), additional : Seq(Record)]
        /\ reply.meant \in
              [answers : Seq(Record), authority : Seq(Record), additional : Seq(Record)]
    BY InputsAssumption DEF TypeInv, PlaceInv, Reply
  <2>4. out = reply.meant
    <3>1. PICK meant : meant = reply.meant
      OBVIOUS
    <3>2. /\ out.answers = meant.answers /\ out.authority = meant.authority
          /\ out.additional = meant.additional
      BY <2>2, <3>1, SectionNames
    <3>3. meant \in [answers : Seq(Record), authority : Seq(Record), additional : Seq(Record)]
      BY <2>3, <3>1
    <3>4. out = meant
      BY <2>3, <3>2, <3>3, SameSections
    <3> QED BY <3>1, <3>4
  <2>5. phase' = "done"
    BY <1>5 DEF LeaveSection
  <2> QED BY <2>4, <2>5 DEF ReplyStage
<1>6. CASE section # "additional"
  <2>1. phase' = "section" /\ section' = NextSection[section] /\ i' = 0
    BY <1>6 DEF LeaveSection
  <2>2. PICK next : next = NextSection[section]
    OBVIOUS
  <2>3. /\ next \in RecordSection /\ next \in Section
        /\ \A s \in RecordSection :
              s \in EarlierSections[next] <=> s = section \/ s \in EarlierSections[section]
        /\ next \notin EarlierSections[next]
    BY <1>1, <1>6, <2>2, SectionNames DEF NextSection, EarlierSections, Section
  <2>4. TakenSoFar'
    <3>1. ASSUME NEW s \in RecordSection
          PROVE  out[s] = SubSeq(reply.meant[s], 1,
                                 IF s = next THEN 0
                                 ELSE IF s \in EarlierSections[next]
                                 THEN Len(reply.meant[s]) ELSE 0)
      <4>1. SubSeq(reply.meant[s], 1, Len(reply.meant[s])) = reply.meant[s]
        BY <1>2, SubSeqFull
      <4> QED BY <1>4, <2>3, <4>1
    <3> QED BY <2>1, <2>2, <3>1 DEF TakenSoFar
  <2>5. offset = reply.places[next][1]
    BY <1>1, <1>6, <2>2, SectionShape
  <2>6. 0 < Len(reply.places[next])
    <3>1. Len(reply.meant[next]) = Len(reply.places[next]) - 1 /\ Len(reply.meant[next]) \in Nat
          /\ Len(reply.places[next]) \in Nat
      BY <1>2, <2>3, SectionShape
    <3> QED BY <3>1
  <2>7. InStep'
    BY <2>1, <2>2, <2>4, <2>5, <2>6 DEF InStep
  <2> QED BY <2>7 DEF ReplyStage
<1> QED BY <1>5, <1>6

LEMMA ReplyBeginItem == TypeInv /\ ReplyInv /\ BeginItem => ReplyInv'
<1> SUFFICES ASSUME TypeInv, ReplyInv, BeginItem, IsRead' PROVE ReplyStage'
  BY ReplyBefore DEF BeginItem
<1>1. phase = "section" /\ offset' = offset /\ out' = out /\ UNCHANGED inputs
  BY DEF BeginItem
<1>2. /\ reply' = reply /\ damage' = damage /\ Size' = Size /\ IsBeginning /\ ReplyStage
      /\ IsRead /\ reply \in Replies
  BY <1>1, ReplyBefore
<1>3. /\ section \in Section /\ i \in Nat /\ Len(reply.places[section]) \in Nat
      /\ Count(section) \in Nat /\ Count(section) + 1 = Len(reply.places[section])
  BY <1>2, CountOfReply
<1>4. Size \in Nat /\ offset \in Nat /\ offset <= Size
  BY <1>1, <1>2, Beginning DEF TypeInv, TypeOK, PlaceInv
<1>5. \/ /\ i < Count(section) /\ offset < Size
         /\ phase' = "name" /\ StartName(offset) /\ rr' = NoRecord
         /\ section' = section /\ i' = i
      \/ ~(i < Count(section) /\ offset < Size) /\ LeaveSection
  BY DEF BeginItem
<1>6. CASE InStep
  <2>1. /\ TakenSoFar /\ i < Len(reply.places[section])
        /\ offset = reply.places[section][i + 1]
    BY <1>1, <1>6 DEF InStep, ReadsItem
  <2>2. ASSUME i < Count(section)
        PROVE  /\ i + 1 < Len(reply.places[section])
               /\ \E m \in reply.names : /\ IsItem(m, section, i + 1, reply)
                                         /\ m.at = reply.places[section][i + 1]
    <3>1. i + 1 \in 1..(Len(reply.places[section]) - 1)
      BY <1>3, <2>2
    <3>2. PICK m \in reply.names : IsItem(m, section, i + 1, reply)
      BY <1>2, <1>3, <3>1, SectionShape
    <3>3. m.at = reply.places[section][i + 1]
      <4>1. CASE section = "questions"
        <5>1. IsQuestion(m, i + 1, reply)
          BY <3>2, <4>1 DEF IsItem
        <5> QED BY <4>1, <5>1 DEF IsQuestion
      <4>2. CASE section # "questions"
        <5>1. IsRecord(m, section, i + 1, reply)
          BY <3>2, <4>2 DEF IsItem
        <5> QED BY <5>1 DEF IsRecord
      <4> QED BY <4>1, <4>2
    <3> QED BY <1>3, <2>2, <3>2, <3>3
  <2>3. CASE i < Count(section) /\ offset < Size
    <3>1. PICK m \in reply.names : IsItem(m, section, i + 1, reply) /\ m.at = offset
      BY <2>1, <2>2, <2>3
    <3>2. /\ phase' = "name" /\ StartName(offset) /\ rr' = NoRecord
          /\ section' = section /\ i' = i
      BY <1>5, <2>3
    <3>3. ReadingOf(m)'
      BY <1>1, <1>2, <3>1, <3>2, ReadingStarts
    <3>4. ReadsItem(m)'
      BY <1>1, <3>1, <3>2, <3>3 DEF ReadsItem
    <3>5. TakenSoFar'
      BY <1>1, <1>2, <2>1, <3>2, StillTaken
    <3>6. i + 1 < Len(reply.places[section])
      BY <2>2, <2>3
    <3> QED BY <1>2, <3>1, <3>2, <3>4, <3>5, <3>6, StillInStep
  <2>4. CASE ~(i < Count(section))
    <3>1. i + 1 = Len(reply.places[section]) /\ LeaveSection
      BY <1>3, <1>5, <2>1, <2>4
    <3> QED BY <1>1, <1>2, <2>1, <3>1, SectionEnds
  <2>5. CASE i < Count(section) /\ ~(offset < Size)
    <3>1. offset = Size /\ LeaveSection
      BY <1>4, <1>5, <2>5
    <3>2. damage = "cut"
      <4>1. PICK m \in reply.names : m.at = offset
        BY <2>1, <2>2, <2>5
      <4>2. m.at < m.end /\ m.end <= Len(reply.packet) /\ m.at \in Nat /\ m.end \in Nat
            /\ Len(reply.packet) \in Nat
        BY <1>2, NameShape, ReplyShape
      <4>3. Size # Len(reply.packet)
        BY <1>4, <3>1, <4>1, <4>2
      <4> QED BY <1>2, <4>3, Beginning
    <3>3. BeginsAsMeant
      BY <1>2, <2>1, TakenIsPrefix
    <3>4. BeginsAsMeant'
      BY <1>1, <1>2, <3>3 DEF BeginsAsMeant
    <3>5. phase' \in {"section", "done"}
      BY <3>1, LeaveSectionTypes
    <3>6. OutOfStep'
      BY <1>1, <1>2, <3>1, <3>2, <3>4, <3>5 DEF OutOfStep
    <3> QED BY <3>6 DEF ReplyStage
  <2> QED BY <2>3, <2>4, <2>5
<1>7. CASE OutOfStep
  <2>1. BeginsAsMeant' /\ damage' = "cut"
    BY <1>1, <1>2, <1>7 DEF OutOfStep, BeginsAsMeant
  <2>2. CASE offset = Size
    <3>1. phase' \in {"section", "done"}
      BY <1>4, <1>5, <2>2, LeaveSectionTypes
    <3>2. OutOfStep'
      BY <1>1, <1>2, <2>1, <2>2, <3>1 DEF OutOfStep
    <3> QED BY <3>2 DEF ReplyStage
  <2>3. CASE offset # Size
    <3>1. CASE section' = section
      BY <1>1, <1>2, <1>7, <2>3, <3>1, StillOutOfStep
    <3>2. CASE LeaveSection
      BY <1>1, <1>2, <1>7, <2>3, <3>2, OutOfStepLeaves
    <3> QED BY <1>5, <3>1, <3>2
  <2> QED BY <2>2, <2>3
<1> QED BY <1>1, <1>2, <1>6, <1>7 DEF ReplyStage

(* The item of a reply that is read, for every action after BeginItem.     *)
LEMMA ItemInStep ==
    ASSUME InStep, phase \in {"name", "fixed", "target"}
    PROVE  /\ TakenSoFar /\ i + 1 < Len(reply.places[section])
           /\ \E m \in reply.names : IsItem(m, section, i + 1, reply) /\ ReadsItem(m)
BY DEF InStep

(* A step of parseDNSName() that reads a name as it is written.            *)
LEMMA ReadingStage ==
    ASSUME phase \in {"name", "target"}, ReplyStage,
           UNCHANGED <<reply, damage, phase, section, i, offset, rr, out>>,
           \A m \in reply.names : ReadingOf(m) => ReadingOf(m)'
    PROVE  ReplyStage'
<1>1. CASE InStep
  <2>1. /\ TakenSoFar /\ i + 1 < Len(reply.places[section])
        /\ \E m \in reply.names : IsItem(m, section, i + 1, reply) /\ ReadsItem(m)
    BY <1>1, ItemInStep
  <2>2. PICK m \in reply.names : IsItem(m, section, i + 1, reply) /\ ReadsItem(m)
    BY <2>1
  <2>3. ReadsItem(m)'
    <3>1. CASE phase = "name"
      BY <2>2, <3>1 DEF ReadsItem
    <3>2. CASE phase = "target"
      <4>1. /\ section # "questions" /\ offset = reply.places[section][i + 2]
            /\ rr = [reply.meant[section][i + 1] EXCEPT !.target = <<>>]
            /\ \E t \in reply.names : t.end <= offset /\ ReadingOf(t)
                                      /\ t.labels = reply.meant[section][i + 1].target
        BY <2>2, <3>2 DEF ReadsItem
      <4>2. PICK t \in reply.names : t.end <= offset /\ ReadingOf(t)
                                     /\ t.labels = reply.meant[section][i + 1].target
        BY <4>1
      <4>3. ReadingOf(t)'
        BY <4>2
      <4> QED BY <3>2, <4>1, <4>2, <4>3 DEF ReadsItem
    <3> QED BY <3>1, <3>2
  <2>4. TakenSoFar'
    BY <2>1, StillTaken
  <2> QED BY <2>1, <2>2, <2>3, <2>4, StillInStep
<1>2. CASE OutOfStep
  BY <1>2, StillOutOfStep
<1> QED BY <1>1, <1>2 DEF ReplyStage

LEMMA ReplyJump == TypeInv /\ ReplyInv /\ Jump => ReplyInv'
<1> SUFFICES ASSUME TypeInv, ReplyInv, Jump, IsRead' PROVE ReplyStage'
  BY ReplyBefore DEF Jump
<1>1. /\ phase' = phase /\ section' = section /\ i' = i /\ offset' = offset /\ rr' = rr
      /\ out' = out /\ UNCHANGED inputs /\ phase \in {"name", "target"}
  BY DEF Jump, InName
<1>2. /\ reply' = reply /\ damage' = damage /\ Size' = Size /\ IsBeginning /\ ReplyStage
      /\ reply \in Replies
  BY <1>1, ReplyBefore
<1>3. ASSUME NEW m \in reply.names, ReadingOf(m) PROVE ReadingOf(m)'
  BY <1>2, <1>3, ReadingJump
<1> QED BY <1>1, <1>2, <1>3, ReadingStage

LEMMA ReplyTakeLabel == TypeInv /\ ReplyInv /\ TakeLabel => ReplyInv'
<1> SUFFICES ASSUME TypeInv, ReplyInv, TakeLabel, IsRead' PROVE ReplyStage'
  BY ReplyBefore DEF TakeLabel
<1>1. /\ phase' = phase /\ section' = section /\ i' = i /\ offset' = offset /\ rr' = rr
      /\ out' = out /\ UNCHANGED inputs /\ phase \in {"name", "target"}
  BY DEF TakeLabel, InName
<1>2. /\ reply' = reply /\ damage' = damage /\ Size' = Size /\ IsBeginning /\ ReplyStage
      /\ reply \in Replies
  BY <1>1, ReplyBefore
<1>3. ASSUME NEW m \in reply.names, ReadingOf(m) PROVE ReadingOf(m)'
  BY <1>2, <1>3, ReadingTakeLabel
<1> QED BY <1>1, <1>2, <1>3, ReadingStage

(* What is left of a name that is cut is not read as the rest of its item. *)
LEMMA CutNameEnds ==
    ASSUME TypeInv, IsBeginning, IsRead, NEW m \in reply.names, IsCut(m),
           section \in Section, i \in Nat, i + 1 < Len(reply.places[section]),
           section = "questions" => reply.places["questions"][i + 2] = m.end + QuestionLen,
           offset' = NameEnd, phase' = "fixed", UNCHANGED <<inputs, section>>
    PROVE  ReadsItem(m)'
<1>1. PICK n \in reply.names :
         /\ n.at = name.pos /\ n.end = m.end
         /\ \/ name.pos + 1 >= Size
            \/ /\ name.pos < Size /\ At(name.pos) \in 1..(Ptr - 1)
               /\ name.pos + At(name.pos) >= Size
  BY DEF IsCut
<1>2. offset' = name.pos /\ m.end > Size
  BY DEF IsCut
<1>3. /\ reply \in Replies /\ Size \in Nat /\ Len(reply.packet) \in Nat
      /\ m.end \in Nat /\ m.end <= Len(reply.packet) /\ name.pos \in Nat
  BY Beginning, NameShape DEF TypeInv, TypeOK
<1>4. damage = "cut" /\ damage' = damage /\ Size' = Size /\ packet' = packet
  <2>1. Size # Len(reply.packet)
    BY <1>2, <1>3
  <2> QED BY <2>1, Beginning DEF inputs, Size
<1>5. ~RestIsRead
  BY <1>4 DEF IsRead
<1>6. CASE section = "questions"
  <2>1. name.pos + QuestionLen >= Size
    <3>1. CASE name.pos + 1 >= Size
      BY <1>3, <3>1 DEF QuestionLen
    <3>2. CASE /\ name.pos < Size /\ At(name.pos) \in 1..(Ptr - 1)
               /\ name.pos + At(name.pos) >= Size
      <4>1. i + 2 \in 1..Len(reply.places["questions"])
        <5>1. Len(reply.places["questions"]) \in Nat
          BY <1>3, <1>6, SectionShape
        <5> QED BY <1>6, <5>1
      <4>2. reply.places["questions"][i + 2] = n.end + QuestionLen
        BY <1>1, <1>6
      <4>3. ~(n.at + QuestionLen < Size)
        BY <1>1, <1>5, <3>2, <4>1, <4>2 DEF RestIsRead
      <4> QED BY <1>1, <1>3, <4>3 DEF QuestionLen
    <3> QED BY <1>1, <3>1, <3>2
  <2> QED BY <1>2, <1>4, <1>6, <2>1 DEF ReadsItem
<1>7. CASE section # "questions"
  <2>1. ~(/\ name.pos + FixedLen <= Size
          /\ name.pos + FixedLen + At(name.pos + 3) <= Size)
    <3>1. CASE name.pos + 1 >= Size
      BY <1>3, <3>1 DEF FixedLen
    <3>2. CASE /\ name.pos < Size /\ At(name.pos) \in 1..(Ptr - 1)
               /\ name.pos + At(name.pos) >= Size
      BY <1>1, <1>5, <3>2 DEF RestIsRead
    <3> QED BY <1>1, <3>1, <3>2
  <2>2. ~Fits'
    BY <1>2, <1>4, <2>1 DEF Fits, Length, At
  <2> QED BY <1>2, <1>4, <1>7, <2>2 DEF ReadsItem
<1> QED BY <1>6, <1>7

LEMMA ItemShape ==
    ASSUME TypeInv, reply \in Replies, i + 1 < Len(reply.places[section]),
           NEW m \in reply.names, IsItem(m, section, i + 1, reply)
    PROVE  /\ section \in Section /\ i \in Nat
           /\ reply.places[section][i + 2] \in Nat
           /\ reply.places[section][i + 2] <= Len(reply.packet)
           /\ section = "questions" =>
                 reply.places["questions"][i + 2] = m.end + QuestionLen
           /\ section # "questions" =>
                 /\ section \in RecordSection /\ IsRecord(m, section, i + 1, reply)
                 /\ reply.meant[section][i + 1] \in Record
                 /\ reply.places[section][i + 2] =
                       m.end + FixedLen + Byte(reply, m.end + 3)
                 /\ m.end + FixedLen <= Len(reply.packet)
                 /\ Byte(reply, m.end + 3) \in Nat
<1>1. section \in Section /\ i \in Nat
  BY DEF TypeInv, TypeOK
<1>2. /\ Len(reply.places[section]) \in Nat
      /\ i + 1 \in 1..(Len(reply.places[section]) - 1) /\ (i + 1) + 1 = i + 2
  BY <1>1, SectionShape
<1>3. reply.places[section][i + 2] \in Nat /\ reply.places[section][i + 2] <= Len(reply.packet)
  <2>1. /\ reply.places[section][(i + 1) + 1] \in Nat
        /\ reply.places[section][(i + 1) + 1] <= Len(reply.packet)
    BY <1>1, <1>2, SectionShape
  <2> QED BY <1>2, <2>1
<1>4. ASSUME section = "questions"
      PROVE  reply.places["questions"][i + 2] = m.end + QuestionLen
  <2>1. IsQuestion(m, i + 1, reply)
    BY <1>4 DEF IsItem
  <2>2. reply.places["questions"][(i + 1) + 1] = m.end + QuestionLen
    BY <2>1 DEF IsQuestion
  <2> QED BY <1>2, <2>2
<1>5. ASSUME section # "questions"
      PROVE  /\ section \in RecordSection /\ IsRecord(m, section, i + 1, reply)
             /\ reply.meant[section][i + 1] \in Record
             /\ reply.places[section][i + 2] = m.end + FixedLen + Byte(reply, m.end + 3)
             /\ m.end + FixedLen <= Len(reply.packet) /\ Byte(reply, m.end + 3) \in Nat
  <2>1. IsRecord(m, section, i + 1, reply)
    BY <1>5 DEF IsItem
  <2>2. reply.places[section][(i + 1) + 1] = m.end + FixedLen + Byte(reply, m.end + 3)
    BY <2>1 DEF IsRecord
  <2>3. section \in RecordSection
    BY <1>1, <1>5 DEF RecordSection
  <2>4. /\ reply.meant[section] \in Seq(Record)
        /\ Len(reply.meant[section]) = Len(reply.places[section]) - 1
    BY <1>1, <1>5, SectionShape
  <2>5. i + 1 \in 1..Len(reply.meant[section])
    BY <1>2, <2>4
  <2>6. reply.meant[section][i + 1] \in Record
    BY <2>4, <2>5
  <2>7. m.end + FixedLen <= Len(reply.packet)
    BY <2>1 DEF IsRecord
  <2>8. Byte(reply, m.end + 3) \in Nat
    <3>1. m.end \in Nat /\ Len(reply.packet) \in Nat
      BY NameShape, ReplyShape
    <3>2. m.end + 3 \in 0..(Len(reply.packet) - 1)
      BY <2>7, <3>1 DEF FixedLen
    <3> QED BY <3>2, ReplyShape
  <2> QED BY <1>2, <2>1, <2>2, <2>3, <2>6, <2>7, <2>8
<1> QED BY <1>1, <1>3, <1>4, <1>5

(* The record that was meant is pushed.                                    *)
LEMMA PushInStep ==
    ASSUME TypeInv, reply \in Replies, TakenSoFar, section # "questions",
           i + 1 < Len(reply.places[section]), Push(reply.meant[section][i + 1]),
           UNCHANGED <<reply, section>>, offset' = reply.places[section][i + 2]
    PROVE  ReplyStage'
<1>1. section \in Section /\ i \in Nat /\ section \in RecordSection
  BY DEF TypeInv, TypeOK, RecordSection
<1>2. /\ reply.meant[section] \in Seq(Record) /\ Len(reply.places[section]) \in Nat
      /\ Len(reply.meant[section]) = Len(reply.places[section]) - 1
  BY <1>1, SectionShape
<1>3. PICK record : record = reply.meant[section][i + 1]
  OBVIOUS
<1>4. out' = [out EXCEPT ![section] = Append(out[section], record)] /\ i' = i + 1
      /\ phase' = "section"
  BY <1>3 DEF Push
<1>5. out \in [answers : Seq(Record), authority : Seq(Record), additional : Seq(Record)]
  BY DEF TypeInv, PlaceInv
<1>6. ASSUME NEW s \in RecordSection
      PROVE  out'[s] = IF s = section THEN Append(out[section], record) ELSE out[s]
  BY <1>1, <1>4, <1>5, SectionNames
<1>7. Append(out[section], record) = SubSeq(reply.meant[section], 1, i + 1)
  <2>1. PICK meant, k : meant = reply.meant[section] /\ k = i + 1
    OBVIOUS
  <2>2. meant \in Seq(Record) /\ Len(meant) \in Nat /\ k \in 1..Len(meant)
    BY <1>1, <1>2, <2>1
  <2>3. out[section] = SubSeq(meant, 1, i)
    BY <1>1, <2>1 DEF TakenSoFar
  <2>4. SubSeq(meant, 1, k) = SubSeq(meant, 1, k - 1) \o <<meant[k]>>
    BY <2>2, SubSeqRecursiveSecond
  <2>5. SubSeq(meant, 1, k - 1) = out[section] /\ record = meant[k]
    <3>1. k - 1 = i
      BY <1>1, <2>1
    <3> QED BY <1>3, <2>1, <2>3, <3>1
  <2>6. out[section] \in Seq(Record) /\ record \in Record
    BY <1>1, <2>2, <2>5 DEF TypeInv, TypeOK, RecordSection
  <2>7. Append(out[section], record) = out[section] \o <<record>>
    BY <2>6, AppendIsConcat
  <2> QED BY <2>1, <2>4, <2>5, <2>7
<1>8. TakenSoFar'
  <2>1. ASSUME NEW s \in RecordSection
        PROVE  out'[s] = SubSeq(reply.meant[s], 1,
                                IF s = section THEN i + 1
                                ELSE IF s \in EarlierSections[section]
                                THEN Len(reply.meant[s]) ELSE 0)
    <3>1. CASE s = section
      BY <1>6, <1>7, <3>1
    <3>2. CASE s # section
      <4>1. out[s] = SubSeq(reply.meant[s], 1,
                            IF s \in EarlierSections[section] THEN Len(reply.meant[s]) ELSE 0)
        BY <3>2 DEF TakenSoFar
      <4> QED BY <1>6, <3>2, <4>1
    <3> QED BY <3>1, <3>2
  <2> QED BY <1>4, <2>1 DEF TakenSoFar
<1>9. InStep'
  <2>1. (i + 1) + 1 = i + 2 /\ i' = i + 1
    BY <1>1, <1>4
  <2>2. offset' = reply.places[section][i' + 1]
    BY <2>1
  <2> QED BY <1>4, <1>8, <2>2 DEF InStep
<1> QED BY <1>9 DEF ReplyStage

LEMMA ReplyEndName == TypeInv /\ ReplyInv /\ EndName => ReplyInv'
<1> SUFFICES ASSUME TypeInv, ReplyInv, EndName, IsRead' PROVE ReplyStage'
  BY ReplyBefore DEF EndName
<1>1. UNCHANGED inputs /\ section' = section /\ phase \in {"name", "target"}
  BY DEF EndName, InName
<1>2. /\ reply' = reply /\ damage' = damage /\ Size' = Size /\ packet' = packet
      /\ IsBeginning /\ ReplyStage /\ IsRead /\ reply \in Replies
  BY <1>1, ReplyBefore
<1>3. \/ /\ phase = "name" /\ offset' = NameEnd /\ phase' = "fixed"
         /\ rr' = [rr EXCEPT !.owner = name.labels] /\ UNCHANGED <<i, out>>
      \/ /\ phase = "target" /\ Push([rr EXCEPT !.target = name.labels])
         /\ UNCHANGED <<offset, rr>>
  BY DEF EndName, NameEnd
<1>4. CASE InStep
  <2>1. /\ TakenSoFar /\ i + 1 < Len(reply.places[section])
        /\ \E m \in reply.names : IsItem(m, section, i + 1, reply) /\ ReadsItem(m)
    BY <1>1, <1>4, ItemInStep
  <2>2. PICK m \in reply.names : IsItem(m, section, i + 1, reply) /\ ReadsItem(m)
    BY <2>1
  <2>3. /\ section \in Section /\ i \in Nat
        /\ reply.places[section][i + 2] \in Nat
        /\ reply.places[section][i + 2] <= Len(reply.packet)
        /\ section = "questions" => reply.places["questions"][i + 2] = m.end + QuestionLen
        /\ section # "questions" => reply.meant[section][i + 1] \in Record
    BY <1>2, <2>1, <2>2, ItemShape
  <2>4. CASE phase = "name"
    <3>1. /\ offset' = NameEnd /\ phase' = "fixed" /\ i' = i /\ out' = out
          /\ rr' = [rr EXCEPT !.owner = name.labels]
      BY <1>3, <2>4
    <3>2. rr = NoRecord /\ ReadingOf(m)
      BY <2>2, <2>4 DEF ReadsItem
    <3>3. IsComplete(m) \/ IsCut(m)
      BY <1>2, <2>2, <2>4, <3>2, ReadingEnds
    <3>4. ASSUME IsComplete(m) PROVE ReadsItem(m)'
      <4>1. /\ offset' = m.end /\ offset' <= Size'
            /\ rr' = [NoRecord EXCEPT !.owner = m.labels]
        BY <1>2, <3>1, <3>2, <3>4 DEF IsComplete
      <4> QED BY <3>1, <4>1 DEF ReadsItem
    <3>5. ASSUME IsCut(m) PROVE ReadsItem(m)'
      BY <1>1, <1>2, <2>1, <2>2, <2>3, <3>1, <3>5, CutNameEnds
    <3>6. ReadsItem(m)'
      BY <3>3, <3>4, <3>5
    <3>7. TakenSoFar'
      BY <1>1, <1>2, <2>1, <3>1, StillTaken
    <3> QED BY <1>1, <1>2, <2>1, <2>2, <3>1, <3>6, <3>7, StillInStep
  <2>5. CASE phase = "target"
    <3>1. /\ section # "questions" /\ offset = reply.places[section][i + 2]
          /\ rr = [reply.meant[section][i + 1] EXCEPT !.target = <<>>]
          /\ \E t \in reply.names : t.end <= offset /\ ReadingOf(t)
                                    /\ t.labels = reply.meant[section][i + 1].target
      BY <2>2, <2>5 DEF ReadsItem
    <3>2. PICK t \in reply.names : t.end <= offset /\ ReadingOf(t)
                                   /\ t.labels = reply.meant[section][i + 1].target
      BY <3>1
    <3>3. t.end <= Size /\ t.end \in Nat /\ Size \in Nat
      <4>1. offset <= Size /\ offset \in Nat
        BY <2>5 DEF TypeInv, TypeOK, PlaceInv
      <4>2. Size \in Nat /\ t.end \in Nat
        BY <1>2, Beginning, NameShape
      <4> QED BY <3>2, <4>1, <4>2
    <3>4. IsComplete(t)
      <4>1. IsComplete(t) \/ IsCut(t)
        BY <1>2, <3>2, <3>3, ReadingEnds
      <4>2. ~(t.end > Size)
        BY <3>3
      <4> QED BY <4>1, <4>2 DEF IsCut
    <3>5. PICK record : record = reply.meant[section][i + 1]
      OBVIOUS
    <3>6. record \in Record
      BY <2>3, <3>1, <3>5
    <3>7. [rr EXCEPT !.target = name.labels] = record
      <4>1. rr = [record EXCEPT !.target = <<>>] /\ name.labels = record.target
        BY <3>1, <3>2, <3>4, <3>5 DEF IsComplete
      <4> QED BY <3>6, <4>1 DEF Record
    <3>8. Push(reply.meant[section][i + 1]) /\ offset' = reply.places[section][i + 2]
      BY <1>3, <2>5, <3>1, <3>5, <3>7
    <3> QED BY <1>1, <1>2, <2>1, <3>1, <3>8, PushInStep
  <2> QED BY <1>1, <2>4, <2>5
<1>5. CASE OutOfStep
  <2>1. CASE phase = "name"
    BY <1>1, <1>2, <1>3, <1>5, <2>1, StillOutOfStep
  <2>2. CASE phase = "target"
    BY <1>1, <1>2, <1>3, <1>5, <2>2, OutOfStepPushes
  <2> QED BY <1>1, <2>1, <2>2
<1> QED BY <1>1, <1>2, <1>4, <1>5 DEF ReplyStage

LEMMA ReplySkipQuestion == TypeInv /\ ReplyInv /\ SkipQuestion => ReplyInv'
<1> SUFFICES ASSUME TypeInv, ReplyInv, SkipQuestion, IsRead' PROVE ReplyStage'
  BY ReplyBefore DEF SkipQuestion
<1>1. /\ UNCHANGED inputs /\ section' = section /\ out' = out
      /\ phase = "fixed" /\ section = "questions"
  BY DEF SkipQuestion
<1>2. /\ reply' = reply /\ damage' = damage /\ Size' = Size
      /\ IsBeginning /\ ReplyStage /\ reply \in Replies
  BY <1>1, ReplyBefore
<1>3. /\ Size \in Nat /\ offset \in Nat
      /\ \/ offset + QuestionLen > Size /\ phase' = "failed"
         \/ /\ offset + QuestionLen <= Size
            /\ phase' = "section" /\ i' = i + 1 /\ offset' = offset + QuestionLen
  <2>1. Size \in Nat /\ offset \in Nat
    BY <1>2, Beginning DEF TypeInv, PlaceInv
  <2> QED BY <2>1 DEF SkipQuestion, QuestionLen
<1>4. CASE InStep
  <2>1. /\ TakenSoFar /\ i + 1 < Len(reply.places[section])
        /\ \E m \in reply.names : IsItem(m, section, i + 1, reply) /\ ReadsItem(m)
    BY <1>1, <1>4, ItemInStep
  <2>2. PICK m \in reply.names : IsItem(m, section, i + 1, reply) /\ ReadsItem(m)
    BY <2>1
  <2>3. /\ section \in Section /\ i \in Nat
        /\ reply.places["questions"][i + 2] \in Nat
        /\ reply.places["questions"][i + 2] <= Len(reply.packet)
        /\ reply.places["questions"][i + 2] = m.end + QuestionLen
    BY <1>1, <1>2, <2>1, <2>2, ItemShape
  <2>4. \/ offset = m.end
        \/ damage = "cut" /\ offset + QuestionLen >= Size
    BY <1>1, <2>2 DEF ReadsItem
  <2>5. CASE offset + QuestionLen > Size
    <3>1. damage = "cut"
      <4>1. CASE offset = m.end
        <5>1. Len(reply.packet) \in Nat /\ QuestionLen \in Nat
          BY <1>2, ReplyShape DEF QuestionLen
        <5>2. Size # Len(reply.packet)
          BY <1>3, <2>3, <2>5, <4>1, <5>1
        <5> QED BY <1>2, <5>2, Beginning
      <4> QED BY <2>4, <4>1
    <3>2. phase' = "failed"
      BY <1>3, <2>5 DEF QuestionLen
    <3> QED BY <1>2, <3>1, <3>2 DEF ReplyStage
  <2>6. CASE ~(offset + QuestionLen > Size) /\ offset = m.end
    <3>1. phase' = "section" /\ i' = i + 1 /\ offset' = offset + QuestionLen
      BY <1>3, <2>6
    <3>2. TakenSoFar'
      <4>1. \A s \in RecordSection : s # section
        BY <1>1 DEF RecordSection
      <4> QED BY <1>1, <1>2, <2>1, <4>1 DEF TakenSoFar
    <3>3. i' < Len(reply.places[section]) /\ offset' = reply.places[section][i' + 1]
      <4>1. (i + 1) + 1 = i + 2
        BY <2>3
      <4> QED BY <1>1, <2>1, <2>3, <2>6, <3>1, <4>1
    <3>4. InStep'
      BY <1>1, <1>2, <3>1, <3>2, <3>3 DEF InStep
    <3> QED BY <3>4 DEF ReplyStage
  <2>7. CASE ~(offset + QuestionLen > Size) /\ offset # m.end
    <3>1. damage = "cut" /\ offset + QuestionLen = Size
      BY <1>3, <2>4, <2>7 DEF QuestionLen
    <3>2. phase' = "section" /\ offset' = Size
      BY <1>3, <2>7, <3>1
    <3>3. BeginsAsMeant
      <4>1. i < Len(reply.places[section])
        BY <1>2, <2>1, <2>3, SectionShape
      <4> QED BY <1>2, <2>1, <4>1, TakenIsPrefix
    <3>4. BeginsAsMeant'
      BY <1>1, <1>2, <3>3 DEF BeginsAsMeant
    <3>5. OutOfStep'
      BY <1>2, <3>1, <3>2, <3>4 DEF OutOfStep
    <3> QED BY <3>5 DEF ReplyStage
  <2> QED BY <2>5, <2>6, <2>7
<1>5. ~OutOfStep
  BY <1>1 DEF OutOfStep
<1> QED BY <1>1, <1>2, <1>4, <1>5 DEF ReplyStage

LEMMA ReplyCutRecord == TypeInv /\ ReplyInv /\ CutRecord => ReplyInv'
<1> SUFFICES ASSUME TypeInv, ReplyInv, CutRecord, IsRead' PROVE ReplyStage'
  BY ReplyBefore DEF CutRecord
<1>1. /\ UNCHANGED inputs /\ out' = out /\ phase = "fixed" /\ section # "questions"
      /\ LeaveSection
  BY DEF CutRecord
<1>2. /\ reply' = reply /\ damage' = damage /\ Size' = Size
      /\ IsBeginning /\ ReplyStage /\ reply \in Replies
  BY <1>1, ReplyBefore
<1>3. CASE InStep
  <2>1. /\ TakenSoFar /\ i + 1 < Len(reply.places[section])
        /\ \E m \in reply.names : IsItem(m, section, i + 1, reply) /\ ReadsItem(m)
    BY <1>1, <1>3, ItemInStep
  <2>2. PICK m \in reply.names : IsItem(m, section, i + 1, reply) /\ ReadsItem(m)
    BY <2>1
  <2>3. /\ section \in Section /\ i \in Nat /\ section \in RecordSection
        /\ reply.places[section][i + 2] \in Nat
        /\ reply.places[section][i + 2] <= Len(reply.packet)
        /\ reply.places[section][i + 2] = m.end + FixedLen + Byte(reply, m.end + 3)
        /\ m.end + FixedLen <= Len(reply.packet) /\ Byte(reply, m.end + 3) \in Nat
    BY <1>1, <1>2, <2>1, <2>2, ItemShape
  <2>4. damage = "cut"
    <3>1. SUFFICES ASSUME damage # "cut" PROVE FALSE
      OBVIOUS
    <3>2. offset = m.end /\ Size = Len(reply.packet)
      BY <1>1, <1>2, <2>2, <3>1, Beginning DEF ReadsItem
    <3>3. Size \in Nat /\ m.end \in Nat /\ FixedLen \in Nat
      BY <1>2, Beginning, NameShape DEF FixedLen
    <3>4. m.end + FixedLen <= Size
      BY <2>3, <3>2
    <3>5. FALSE
      <4>1. m.end + 3 \in Nat /\ m.end + 3 < Size
        BY <3>3, <3>4 DEF FixedLen
      <4>2. At(m.end + 3) = Byte(reply, m.end + 3) /\ At(m.end + 3) \in Nat
        BY <1>2, <4>1, Beginning
      <4>3. Fits
        BY <2>3, <3>2, <3>3, <3>4, <4>2 DEF Fits, Length
      <4>4. ~Fits
        BY <3>2, <3>3, <4>2 DEF CutRecord, Fits, Length
      <4> QED BY <4>3, <4>4
    <3> QED BY <3>5
  <2>5. BeginsAsMeant /\ out[section] # reply.meant[section]
    <3>1. i < Len(reply.places[section])
      BY <1>2, <2>1, <2>3, SectionShape
    <3> QED BY <1>2, <2>1, <2>3, <3>1, TakenIsPrefix
  <2>6. BeginsAsMeant'
    BY <1>1, <1>2, <2>5 DEF BeginsAsMeant
  <2>7. CASE section = "answers"
    <3>1. section' = "authority" /\ out.answers # reply.meant.answers
      BY <1>1, <2>5, <2>7 DEF LeaveSection, NextSection
    <3>2. OutOfStep'
      BY <1>1, <1>2, <2>4, <2>6, <3>1 DEF OutOfStep
    <3> QED BY <3>2 DEF ReplyStage
  <2>8. CASE section = "authority"
    <3>1. section' = "additional" /\ out.authority # reply.meant.authority
      BY <1>1, <2>5, <2>8 DEF LeaveSection, NextSection
    <3>2. OutOfStep'
      BY <1>1, <1>2, <2>4, <2>6, <3>1 DEF OutOfStep
    <3> QED BY <3>2 DEF ReplyStage
  <2>9. CASE section = "additional"
    <3>1. phase' = "done"
      BY <1>1, <2>9 DEF LeaveSection
    <3>2. OutOfStep'
      BY <1>1, <1>2, <2>4, <2>6, <3>1 DEF OutOfStep
    <3> QED BY <3>2 DEF ReplyStage
  <2> QED BY <2>3, <2>7, <2>8, <2>9, SectionNames
<1>4. CASE OutOfStep
  BY <1>1, <1>2, <1>4, OutOfStepLeaves
<1> QED BY <1>1, <1>2, <1>3, <1>4 DEF ReplyStage

LEMMA RecordFields ==
    ASSUME NEW A, NEW B, NEW C, NEW D, NEW r \in [owner : A, type : B, address : C, target : D]
    PROVE  r = [owner |-> r.owner, type |-> r.type, address |-> r.address, target |-> r.target]
OBVIOUS

LEMMA ExceptTwo ==
    ASSUME NEW r, NEW t, NEW a
    PROVE  [r EXCEPT !.type = t, !.address = a] = [[r EXCEPT !.type = t] EXCEPT !.address = a]
OBVIOUS

(* What parseResourceRecord() fills in of a record that fits.              *)
LEMMA FixedPart ==
    ASSUME NEW o, NEW t, NEW a, NEW r, NEW s, r = [NoRecord EXCEPT !.owner = o],
           s = [r EXCEPT !.type = t, !.address = a]
    PROVE  s = [owner |-> o, type |-> t, address |-> a, target |-> <<>>]
<1>1. PICK e, n : e = <<>> /\ n = NoRecord
  OBVIOUS
<1>2. n = [owner |-> e, type |-> 0, address |-> e, target |-> e]
  BY <1>1 DEF NoRecord
<1>3. r = [owner |-> o, type |-> 0, address |-> e, target |-> e]
  BY <1>1, <1>2
<1>4. PICK q : q = [r EXCEPT !.type = t]
  OBVIOUS
<1>5. q = [owner |-> o, type |-> t, address |-> e, target |-> e]
  BY <1>3, <1>4
<1>6. [q EXCEPT !.address = a] = [owner |-> o, type |-> t, address |-> a, target |-> e]
  BY <1>5
<1>7. s = [[r EXCEPT !.type = t] EXCEPT !.address = a]
  BY ExceptTwo
<1>8. s = [q EXCEPT !.address = a]
  BY <1>4, <1>7
<1> QED BY <1>1, <1>6, <1>8

(* The fields of a record are read as they were meant.                     *)
LEMMA FieldsInStep ==
    ASSUME TypeInv, IsBeginning, section # "questions", i + 1 < Len(reply.places[section]),
           Fits, NEW m \in reply.names, IsItem(m, section, i + 1, reply), offset = m.end,
           NEW meant, meant = reply.meant[section][i + 1]
    PROVE  /\ offset + FixedLen + Length = reply.places[section][i + 2]
           /\ Type = meant.type /\ meant.owner = m.labels
           /\ meant.address = IF Type \in {TypeA, TypeAAAA} /\ Length = AddressLen[Type]
                                THEN Slice(offset + FixedLen, Length) ELSE <<>>
           /\ IF Type \in {TypeNS, TypeCNAME}
                THEN \E t \in reply.names :
                        /\ t.at = offset + FixedLen /\ t.end <= offset + FixedLen + Length
                        /\ t.labels = meant.target
                ELSE meant.target = <<>>
<1>1. /\ reply \in Replies /\ Size \in Nat /\ m.end \in Nat
  BY Beginning, NameShape
<1>2. /\ IsRecord(m, section, i + 1, reply)
      /\ reply.places[section][i + 2] = m.end + FixedLen + Byte(reply, m.end + 3)
  BY <1>1, ItemShape
<1>3. offset + FixedLen <= Size /\ offset \in Nat
  BY <1>1 DEF Fits
<1>4. At(offset) = Byte(reply, m.end) /\ At(offset + 3) = Byte(reply, m.end + 3)
      /\ At(offset + 3) \in Nat
  <2>1. offset < Size /\ offset + 3 < Size /\ offset + 3 \in Nat
    BY <1>1, <1>3 DEF FixedLen
  <2> QED BY <1>3, <2>1, Beginning
<1>5. PICK type, length, data : type = Type /\ length = Length /\ data = offset + FixedLen
  OBVIOUS
<1>6. /\ type = Byte(reply, m.end) /\ length = Byte(reply, m.end + 3) /\ data = m.end + FixedLen
      /\ length \in Nat /\ data \in Nat /\ data + length <= Size
  <2>1. data \in Nat
    BY <1>3, <1>5 DEF FixedLen
  <2>2. data + length <= Size
    BY <1>5 DEF Fits
  <2> QED BY <1>4, <1>5, <2>1, <2>2 DEF Type, Length
<1>7. Slice(data, length) = Bytes(reply, data, length)
  BY <1>6, Beginning
<1>8. /\ meant.owner = m.labels /\ meant.type = type
      /\ meant.address = IF meant.type \in {TypeA, TypeAAAA} /\ length = AddressLen[meant.type]
                           THEN Bytes(reply, data, length) ELSE <<>>
      /\ IF meant.type \in {TypeNS, TypeCNAME}
           THEN \E t \in reply.names : t.at = data /\ t.end <= data + length
                                       /\ t.labels = meant.target
           ELSE meant.target = <<>>
  BY <1>2, <1>6 DEF IsRecord
<1> QED BY <1>2, <1>5, <1>6, <1>7, <1>8

LEMMA ReplyTakeRecord == TypeInv /\ ReplyInv /\ TakeRecord => ReplyInv'
<1> SUFFICES ASSUME TypeInv, ReplyInv, TakeRecord, IsRead' PROVE ReplyStage'
  BY ReplyBefore DEF TakeRecord
<1>1. /\ UNCHANGED inputs /\ section' = section /\ phase = "fixed" /\ section # "questions"
      /\ Fits /\ offset' = offset + FixedLen + Length
  BY DEF TakeRecord
<1>2. /\ reply' = reply /\ damage' = damage /\ Size' = Size
      /\ IsBeginning /\ ReplyStage /\ reply \in Replies
  BY <1>1, ReplyBefore
<1>3. PICK address :
         address = IF Type \in {TypeA, TypeAAAA} /\ Length = AddressLen[Type]
                     THEN Slice(offset + FixedLen, Length) ELSE <<>>
  OBVIOUS
<1>4. PICK record : record = [rr EXCEPT !.type = Type, !.address = address]
  OBVIOUS
<1>5. \/ /\ Type \in {TypeNS, TypeCNAME} /\ phase' = "target"
         /\ StartName(offset + FixedLen) /\ rr' = record /\ i' = i /\ out' = out
      \/ Type \notin {TypeNS, TypeCNAME} /\ Push(record) /\ rr' = rr
  BY <1>3, <1>4 DEF TakeRecord
<1>6. CASE InStep
  <2>1. /\ TakenSoFar /\ i + 1 < Len(reply.places[section])
        /\ \E m \in reply.names : IsItem(m, section, i + 1, reply) /\ ReadsItem(m)
    BY <1>1, <1>6, ItemInStep
  <2>2. PICK m \in reply.names : IsItem(m, section, i + 1, reply) /\ ReadsItem(m)
    BY <2>1
  <2>3. offset = m.end /\ rr = [NoRecord EXCEPT !.owner = m.labels]
    BY <1>1, <2>2 DEF ReadsItem
  <2>4. PICK meant : meant = reply.meant[section][i + 1]
    OBVIOUS
  <2>5. meant \in Record
    BY <1>1, <1>2, <2>1, <2>2, <2>4, ItemShape
  <2>6. /\ offset + FixedLen + Length = reply.places[section][i + 2]
        /\ Type = meant.type /\ meant.owner = m.labels /\ meant.address = address
        /\ IF Type \in {TypeNS, TypeCNAME}
             THEN \E t \in reply.names :
                     /\ t.at = offset + FixedLen /\ t.end <= offset + FixedLen + Length
                     /\ t.labels = meant.target
             ELSE meant.target = <<>>
    BY <1>1, <1>2, <1>3, <2>1, <2>2, <2>3, <2>4, FieldsInStep
  <2>7. record = [owner |-> meant.owner, type |-> meant.type, address |-> meant.address,
                  target |-> <<>>]
    <3>1. PICK owner, type, r : owner = m.labels /\ type = Type /\ r = rr
      OBVIOUS
    <3>2. record = [r EXCEPT !.type = type, !.address = address]
          /\ r = [NoRecord EXCEPT !.owner = owner]
      BY <1>4, <2>3, <3>1
    <3>3. record = [owner |-> owner, type |-> type, address |-> address, target |-> <<>>]
      BY <3>2, FixedPart
    <3> QED BY <2>6, <3>1, <3>3
  <2>8. meant = [owner |-> meant.owner, type |-> meant.type, address |-> meant.address,
                 target |-> meant.target]
    BY <2>5, RecordFields DEF Record
  <2>9. CASE Type \in {TypeNS, TypeCNAME}
    <3>1. /\ phase' = "target" /\ StartName(offset + FixedLen) /\ rr' = record
          /\ i' = i /\ out' = out
      BY <1>5, <2>9
    <3>2. PICK t \in reply.names :
             /\ t.at = offset + FixedLen /\ t.end <= offset + FixedLen + Length
             /\ t.labels = meant.target
      BY <2>6, <2>9
    <3>3. ReadingOf(t)'
      BY <1>1, <1>2, <3>1, <3>2, ReadingStarts
    <3>4. record = [meant EXCEPT !.target = <<>>]
      BY <2>7, <2>8
    <3>5. t.end <= offset' /\ offset' = reply.places[section][i + 2]
      BY <1>1, <2>6, <3>2
    <3>6. ReadsItem(m)'
      BY <1>1, <1>2, <2>4, <3>1, <3>2, <3>3, <3>4, <3>5 DEF ReadsItem
    <3>7. TakenSoFar'
      BY <1>1, <1>2, <2>1, <3>1, StillTaken
    <3> QED BY <1>1, <1>2, <2>1, <2>2, <3>1, <3>6, <3>7, StillInStep
  <2>10. CASE Type \notin {TypeNS, TypeCNAME}
    <3>1. record = meant
      BY <2>6, <2>7, <2>8, <2>10
    <3>2. Push(reply.meant[section][i + 1]) /\ offset' = reply.places[section][i + 2]
      BY <1>1, <1>5, <2>4, <2>6, <2>10, <3>1
    <3> QED BY <1>1, <1>2, <2>1, <3>2, PushInStep
  <2> QED BY <2>9, <2>10
<1>7. CASE OutOfStep
  <2>1. CASE Push(record)
    BY <1>1, <1>2, <1>7, <2>1, OutOfStepPushes
  <2>2. CASE out' = out
    BY <1>1, <1>2, <1>7, <2>2, StillOutOfStep
  <2> QED BY <1>5, <2>1, <2>2
<1> QED BY <1>1, <1>2, <1>6, <1>7 DEF ReplyStage

LEMMA ReplyStuttering == TypeInv /\ ReplyInv /\ UNCHANGED vars => ReplyInv'
<1> SUFFICES ASSUME TypeInv, ReplyInv, UNCHANGED vars, IsRead' PROVE ReplyStage'
  BY ReplyBefore DEF vars, inputs
<1>1. /\ UNCHANGED inputs /\ UNCHANGED <<reply, damage, phase, section, i, offset, name, rr, out>>
      /\ Size' = Size
  BY DEF vars, inputs, Size
<1>2. IsBeginning /\ ReplyStage /\ reply \in Replies
  BY <1>1, ReplyBefore
<1>3. CASE InStep /\ phase \in {"name", "target"}
  <2>1. ASSUME NEW m \in reply.names, ReadingOf(m) PROVE ReadingOf(m)'
    BY <1>1, <2>1, ReadingKept
  <2> QED BY <1>1, <1>2, <1>3, <2>1, ReadingStage
<1>4. CASE InStep /\ phase = "fixed"
  <2>1. /\ TakenSoFar /\ i + 1 < Len(reply.places[section])
        /\ \E m \in reply.names : IsItem(m, section, i + 1, reply) /\ ReadsItem(m)
    BY <1>4, ItemInStep
  <2>2. PICK m \in reply.names : IsItem(m, section, i + 1, reply) /\ ReadsItem(m)
    BY <2>1
  <2>3. Fits' <=> Fits
    BY <1>1 DEF Fits, Length, At, inputs
  <2>4. ReadsItem(m)'
    BY <1>1, <1>4, <2>2, <2>3 DEF ReadsItem
  <2>5. TakenSoFar'
    BY <1>1, <2>1, StillTaken
  <2> QED BY <1>1, <2>1, <2>2, <2>4, <2>5, StillInStep
<1>5. CASE InStep /\ phase \notin {"name", "fixed", "target"}
  <2>1. TakenSoFar'
    BY <1>1, <1>5, StillTaken DEF InStep
  <2>2. InStep'
    BY <1>1, <1>5, <2>1 DEF InStep, ReadsItem, AtQuestion
  <2> QED BY <2>2 DEF ReplyStage
<1>6. CASE OutOfStep
  <2>1. BeginsAsMeant'
    BY <1>1, <1>6 DEF OutOfStep, BeginsAsMeant
  <2>2. OutOfStep'
    BY <1>1, <1>6, <2>1 DEF OutOfStep
  <2> QED BY <2>2 DEF ReplyStage
<1> QED BY <1>1, <1>2, <1>3, <1>4, <1>5, <1>6 DEF ReplyStage

-----------------------------------------------------------------------------
(* The loops read no more items than the header counts. *)

LEMMA CountType ==
    ASSUME packet \in Seq(Cell), Size >= HeaderLen, NEW s \in Section
    PROVE  Count(s) \in Nat
<1>1. CountAt(s) \in Nat /\ CountAt(s) < HeaderLen
  BY DEF CountAt, Section, HeaderLen
<1>2. CountAt(s) < Size
  BY <1>1, SizeType DEF HeaderLen
<1> QED BY <1>1, <1>2, AtType DEF Count

(* The packet is the same one, and so is what its header says.             *)
LEMMA SameCounts ==
    ASSUME packet' = packet
    PROVE  Size' = Size /\ \A s : Count(s)' = Count(s)
BY DEF Size, Count, At

(* Where one of the loops is left, the next one starts from 0.             *)
LEMMA LoopLeaves ==
    ASSUME TypeInv, Size >= HeaderLen, packet' = packet, LeaveSection
    PROVE  LoopInv'
<1>1. phase' \in {"done", "section"} /\ section' \in Section /\ i' = 0
  BY LeaveSectionTypes
<1>2. packet \in Seq(Cell)
  BY DEF TypeInv, TypeOK
<1>3. Size' = Size /\ Count(section') \in Nat /\ Count(section)' = Count(section')
  BY <1>1, <1>2, CountType DEF Size, Count, At
<1> QED BY <1>1, <1>3 DEF LoopInv, InLoop

LEMMA LoopHeader == TypeInv /\ LoopInv /\ Header => LoopInv'
<1> SUFFICES ASSUME TypeInv, LoopInv, Header PROVE LoopInv'
  OBVIOUS
<1>1. /\ packet' = packet /\ section' = section /\ i' = 0
      /\ phase' = IF Size < HeaderLen \/ RCode # 0 THEN "failed" ELSE "section"
  BY DEF Header, inputs, LoopInv
<1>2. packet \in Seq(Cell) /\ Size \in Nat /\ section \in Section
  BY SizeType DEF TypeInv, TypeOK
<1>3. Size' = Size /\ Count(section)' = Count(section)
  BY <1>1 DEF Size, Count, At
<1>4. CASE phase' = "failed"
  BY <1>4 DEF LoopInv, InLoop
<1>5. CASE phase' = "section" /\ Size >= HeaderLen
  <2>1. Count(section) \in Nat
    BY <1>2, <1>5, CountType
  <2> QED BY <1>1, <1>3, <1>5, <2>1 DEF LoopInv, InLoop
<1> QED BY <1>1, <1>2, <1>4, <1>5 DEF HeaderLen

(* An item that has been read is counted.                                  *)
LEMMA LoopCounts ==
    ASSUME TypeInv, LoopInv, phase \in {"name", "fixed", "target"},
           packet' = packet, section' = section,
           \/ i' = i /\ phase' \in {"name", "fixed", "target"}
           \/ i' = i + 1 /\ phase' = "section"
           \/ phase' = "failed"
    PROVE  LoopInv'
<1>1. i \in Nat /\ section \in Section /\ packet \in Seq(Cell)
  BY DEF TypeInv, TypeOK
<1>2. Size >= HeaderLen /\ i < Count(section)
  BY DEF LoopInv, InLoop
<1>3. Size' = Size /\ Count(section)' = Count(section)
  BY DEF Size, Count, At
<1>4. Count(section) \in Nat
  BY <1>1, <1>2, CountType
<1>5. PICK n \in Nat : n = Count(section)
  BY <1>4
<1> QED BY <1>1, <1>2, <1>3, <1>5 DEF LoopInv, InLoop

LEMMA LoopKept == TypeInv /\ LoopInv /\ [Next]_vars => LoopInv'
<1> SUFFICES ASSUME TypeInv, LoopInv, [Next]_vars PROVE LoopInv'
  OBVIOUS
<1>1. CASE CreateQuery
  BY <1>1 DEF CreateQuery, LoopInv, InLoop, TypeInv, PlaceInv
<1>2. CASE Header
  BY <1>2, LoopHeader
<1>3. CASE BeginItem
  <2>1. packet' = packet /\ phase = "section" /\ Size >= HeaderLen
    BY <1>3 DEF BeginItem, inputs, LoopInv, InLoop
  <2>2. CASE LeaveSection
    BY <2>1, <2>2, LoopLeaves
  <2>3. CASE i < Count(section) /\ phase' = "name" /\ UNCHANGED <<section, i>>
    <3>1. Size' = Size /\ Count(section)' = Count(section)
      BY <2>1, <2>3 DEF Size, Count, At
    <3> QED BY <2>1, <2>3, <3>1 DEF LoopInv, InLoop
  <2> QED BY <1>3, <2>2, <2>3 DEF BeginItem
<1>4. CASE Jump \/ TakeLabel
  <2>1. phase \in {"name", "target"} /\ packet' = packet /\ UNCHANGED <<phase, section, i>>
    BY <1>4 DEF Jump, TakeLabel, InName, inputs
  <2> QED BY <2>1, LoopCounts
<1>5. CASE EndName
  <2>1. /\ phase \in {"name", "target"} /\ packet' = packet /\ section' = section
        /\ \/ i' = i /\ phase' = "fixed"
           \/ i' = i + 1 /\ phase' = "section"
    BY <1>5 DEF EndName, Push, InName, inputs
  <2> QED BY <2>1, LoopCounts
<1>6. CASE SkipQuestion
  <2>1. /\ phase = "fixed" /\ packet' = packet /\ section' = section
        /\ phase' = "failed" \/ (i' = i + 1 /\ phase' = "section")
    BY <1>6 DEF SkipQuestion, inputs
  <2> QED BY <2>1, LoopCounts
<1>7. CASE CutRecord
  <2>1. packet' = packet /\ Size >= HeaderLen /\ LeaveSection
    BY <1>7 DEF CutRecord, inputs, LoopInv, InLoop
  <2> QED BY <2>1, LoopLeaves
<1>8. CASE TakeRecord
  <2>1. /\ phase = "fixed" /\ packet' = packet /\ section' = section
        /\ \/ i' = i /\ phase' = "target"
           \/ i' = i + 1 /\ phase' = "section"
    BY <1>8 DEF TakeRecord, Push, inputs
  <2> QED BY <2>1, LoopCounts
<1>9. CASE UNCHANGED vars
  <2>1. UNCHANGED <<packet, phase, section, i>>
    BY <1>9 DEF vars
  <2>2. Size' = Size /\ Count(section)' = Count(section)
    BY <2>1 DEF Size, Count, At
  <2> QED BY <2>1, <2>2 DEF LoopInv, InLoop
<1> QED BY <1>1, <1>2, <1>3, <1>4, <1>5, <1>6, <1>7, <1>8, <1>9 DEF Next

-----------------------------------------------------------------------------
(* Why parsing ends: every step leaves less to do. *)

LEMMA StageType ==
    ASSUME TypeInv
    PROVE  Stage \in Nat /\ StepsLeft \in Nat /\ JumpsLeft \in Nat /\ CellsLeft \in Nat
<1>1. Stage \in Nat
  BY DEF Stage, InLoop, TypeInv, TypeOK, Section
<1>2. StepsLeft \in Nat
  BY DEF StepsLeft, InLoop
<1>3. JumpsLeft \in Nat
  BY BytesAssumption DEF JumpsLeft, TypeInv, TypeOK
<1>4. CellsLeft \in Nat
  BY SizeType DEF CellsLeft, TypeInv, TypeOK
<1> QED BY <1>1, <1>2, <1>3, <1>4

LEMMA ItemsType ==
    ASSUME TypeInv, LoopInv
    PROVE  ItemsLeft \in Nat
<1>1. i \in Nat /\ section \in Section /\ packet \in Seq(Cell)
  BY DEF TypeInv, TypeOK
<1>2. CASE InLoop
  <2>1. PICK n \in Nat : n = Count(section)
    BY <1>1, <1>2, CountType DEF LoopInv
  <2>2. i <= n
    BY <1>1, <1>2, <2>1 DEF LoopInv
  <2> QED BY <1>1, <1>2, <2>1, <2>2 DEF ItemsLeft
<1> QED BY <1>2 DEF ItemsLeft

LEMMA LeftType ==
    ASSUME TypeInv, LoopInv
    PROVE  LeftIsNatural
<1>1. \A k \in 1..5 : Left[k] \in Nat
  BY StageType, ItemsType DEF Left
<1> QED BY <1>1 DEF LeftIsNatural, Left

(* Less, one place after the other.                                        *)
LEMMA LessAt ==
    /\ Stage' < Stage => Less(Left', Left)
    /\ Stage' = Stage /\ ItemsLeft' < ItemsLeft => Less(Left', Left)
    /\ /\ Stage' = Stage /\ ItemsLeft' = ItemsLeft
       /\ \/ StepsLeft' < StepsLeft
          \/ StepsLeft' = StepsLeft /\ JumpsLeft' < JumpsLeft
          \/ StepsLeft' = StepsLeft /\ JumpsLeft' = JumpsLeft /\ CellsLeft' < CellsLeft
       => Less(Left', Left)
<1>1. ASSUME Stage' < Stage PROVE Less(Left', Left)
  <2>1. Left'[1] < Left[1]
    BY <1>1 DEF Left
  <2> QED BY <2>1 DEF Less
<1>2. ASSUME Stage' = Stage, ItemsLeft' < ItemsLeft PROVE Less(Left', Left)
  <2>1. Left'[1] = Left[1] /\ Left'[2] < Left[2]
    BY <1>2 DEF Left
  <2> QED BY <2>1 DEF Less
<1>3. ASSUME Stage' = Stage, ItemsLeft' = ItemsLeft, StepsLeft' < StepsLeft
      PROVE  Less(Left', Left)
  <2>1. Left'[1] = Left[1] /\ Left'[2] = Left[2] /\ Left'[3] < Left[3]
    BY <1>3 DEF Left
  <2> QED BY <2>1 DEF Less
<1>4. ASSUME Stage' = Stage, ItemsLeft' = ItemsLeft, StepsLeft' = StepsLeft,
             JumpsLeft' < JumpsLeft
      PROVE  Less(Left', Left)
  <2>1. /\ Left'[1] = Left[1] /\ Left'[2] = Left[2] /\ Left'[3] = Left[3]
        /\ Left'[4] < Left[4]
    BY <1>4 DEF Left
  <2> QED BY <2>1 DEF Less
<1>5. ASSUME Stage' = Stage, ItemsLeft' = ItemsLeft, StepsLeft' = StepsLeft,
             JumpsLeft' = JumpsLeft, CellsLeft' < CellsLeft
      PROVE  Less(Left', Left)
  <2>1. /\ Left'[1] = Left[1] /\ Left'[2] = Left[2] /\ Left'[3] = Left[3]
        /\ Left'[4] = Left[4] /\ Left'[5] < Left[5]
    BY <1>5 DEF Left
  <2> QED BY <2>1 DEF Less
<1> QED BY <1>1, <1>2, <1>3, <1>4, <1>5

(* A loop that is left, or the whole of parseDNSResponse().                *)
LEMMA LessLoops ==
    ASSUME TypeInv, InLoop, phase' = "failed" \/ LeaveSection
    PROVE  Less(Left', Left)
<1>1. section \in Section
  BY DEF TypeInv, TypeOK
<1>2. Stage' < Stage
  <2>1. Stage = [questions |-> 4, answers |-> 3, authority |-> 2, additional |-> 1][section]
    BY DEF Stage, InLoop
  <2>2. CASE phase' \in {"failed", "done"}
    BY <1>1, <2>1, <2>2 DEF Stage, InLoop, Section
  <2>3. CASE phase' = "section" /\ section # "additional" /\ section' = NextSection[section]
    BY <1>1, <2>1, <2>3 DEF Stage, InLoop, Section, NextSection
  <2> QED BY <2>2, <2>3 DEF LeaveSection
<1> QED BY <1>2, LessAt

(* An item that is read to its end.                                        *)
LEMMA LessItems ==
    ASSUME TypeInv, LoopInv, phase \in {"name", "fixed", "target"}, phase' = "section",
           packet' = packet, section' = section, i' = i + 1
    PROVE  Less(Left', Left)
<1>1. i \in Nat /\ section \in Section /\ packet \in Seq(Cell) /\ InLoop
  BY DEF TypeInv, TypeOK, InLoop
<1>2. PICK n \in Nat : n = Count(section)
  BY <1>1, CountType DEF LoopInv
<1>3. Count(section)' = n
  BY <1>2 DEF Count, At
<1>4. ItemsLeft = n - i /\ ItemsLeft' = n - (i + 1)
  BY <1>1, <1>2, <1>3 DEF ItemsLeft, InLoop
<1>5. Stage' = Stage
  BY DEF Stage, InLoop
<1> QED BY <1>1, <1>4, <1>5, LessAt

(* A step within an item: what is left of its section stays.               *)
LEMMA SameItem ==
    ASSUME InLoop, phase' \in {"section", "name", "fixed", "target"},
           packet' = packet, section' = section, i' = i
    PROVE  Stage' = Stage /\ ItemsLeft' = ItemsLeft
<1>1. Count(section)' = Count(section)
  BY DEF Count, At
<1>2. Stage' = Stage
  BY DEF Stage, InLoop
<1> QED BY <1>1, <1>2 DEF ItemsLeft, InLoop

LEMMA LessJump == TypeInv /\ Jump => Less(Left', Left)
<1> SUFFICES ASSUME TypeInv, Jump PROVE Less(Left', Left)
  OBVIOUS
<1>1. /\ phase \in {"name", "target"} /\ packet' = packet
      /\ UNCHANGED <<phase, section, i>> /\ InLoop
  BY DEF Jump, InName, inputs, InLoop
<1>2. name \in [pos : Nat, resume : Nat \cup {NotJumped}, jumps : 0..MAX_JUMPS, labels : Seq(Label)]
  BY DEF TypeInv, PlaceInv
<1>3. name'.jumps = name.jumps + 1
  BY <1>2 DEF Jump
<1>4. JumpsLeft' < JumpsLeft
  BY <1>2, <1>3, BytesAssumption DEF JumpsLeft
<1>5. StepsLeft' = StepsLeft
  BY <1>1 DEF StepsLeft, InLoop
<1> QED BY <1>1, <1>4, <1>5, SameItem, LessAt

LEMMA LessTakeLabel == TypeInv /\ TakeLabel => Less(Left', Left)
<1> SUFFICES ASSUME TypeInv, TakeLabel PROVE Less(Left', Left)
  OBVIOUS
<1>1. /\ phase \in {"name", "target"} /\ packet' = packet
      /\ UNCHANGED <<phase, section, i>> /\ InLoop
  BY DEF TakeLabel, InName, inputs, InLoop
<1>2. name \in [pos : Nat, resume : Nat \cup {NotJumped}, jumps : 0..MAX_JUMPS, labels : Seq(Label)]
  BY DEF TypeInv, PlaceInv
<1>3. name.pos < Size /\ At(name.pos) \in 1..(Ptr - 1) /\ Ptr \in Nat
  BY CellFacts DEF TakeLabel, LoopGoesOn, IsLabel
<1>4. PICK length \in Nat \ {0} : length = At(name.pos)
  BY <1>3
<1>5. name'.pos = name.pos + length + 1 /\ name'.jumps = name.jumps
  BY <1>2, <1>4 DEF TakeLabel
<1>6. PICK s \in Nat : s = Size /\ s = Size'
  BY <1>1, SizeType DEF TypeInv, TypeOK, Size
<1>7. CellsLeft' < CellsLeft
  BY <1>2, <1>3, <1>4, <1>5, <1>6 DEF CellsLeft
<1>8. StepsLeft' = StepsLeft /\ JumpsLeft' = JumpsLeft
  BY <1>1, <1>5 DEF StepsLeft, InLoop, JumpsLeft
<1> QED BY <1>1, <1>7, <1>8, SameItem, LessAt

LEMMA StepLess == TypeInv /\ LoopInv /\ Next => Less(Left', Left)
<1> SUFFICES ASSUME TypeInv, LoopInv, Next PROVE Less(Left', Left)
  OBVIOUS
<1>1. CASE CreateQuery
  <2>1. phase = "resolve" /\ phase' \in {"refused", "thrown", "header"}
    BY <1>1 DEF CreateQuery
  <2>2. Stage' < Stage
    BY <2>1 DEF Stage, InLoop
  <2> QED BY <2>2, LessAt
<1>2. CASE Header
  <2>1. /\ phase = "header" /\ phase' \in {"failed", "section"} /\ section' = section
        /\ section \in Section
    BY <1>2 DEF Header, TypeInv, TypeOK
  <2>2. Stage' < Stage
    BY <2>1 DEF Stage, InLoop, Section
  <2> QED BY <2>2, LessAt
<1>3. CASE BeginItem
  <2>1. packet' = packet /\ phase = "section" /\ InLoop
    BY <1>3 DEF BeginItem, inputs, InLoop
  <2>2. CASE LeaveSection
    BY <2>1, <2>2, LessLoops
  <2>3. CASE phase' = "name" /\ UNCHANGED <<section, i>>
    <3>1. StepsLeft' < StepsLeft
      BY <2>1, <2>3 DEF StepsLeft, InLoop
    <3> QED BY <2>1, <2>3, <3>1, SameItem, LessAt
  <2> QED BY <1>3, <2>2, <2>3 DEF BeginItem
<1>4. CASE EndName
  <2>1. packet' = packet /\ section' = section /\ phase \in {"name", "target"} /\ InLoop
    BY <1>4 DEF EndName, InName, inputs, InLoop
  <2>2. CASE phase = "name" /\ phase' = "fixed" /\ i' = i
    <3>1. StepsLeft' < StepsLeft
      BY <2>2 DEF StepsLeft, InLoop
    <3> QED BY <2>1, <2>2, <3>1, SameItem, LessAt
  <2>3. CASE i' = i + 1 /\ phase' = "section"
    BY <2>1, <2>3, LessItems
  <2> QED BY <1>4, <2>2, <2>3 DEF EndName, Push
<1>5. CASE SkipQuestion
  <2>1. packet' = packet /\ section' = section /\ phase = "fixed" /\ InLoop
    BY <1>5 DEF SkipQuestion, inputs, InLoop
  <2>2. CASE phase' = "failed"
    BY <2>1, <2>2, LessLoops
  <2>3. CASE i' = i + 1 /\ phase' = "section"
    BY <2>1, <2>3, LessItems
  <2> QED BY <1>5, <2>2, <2>3 DEF SkipQuestion
<1>6. CASE CutRecord
  BY <1>6, LessLoops DEF CutRecord, InLoop
<1>7. CASE TakeRecord
  <2>1. packet' = packet /\ section' = section /\ phase = "fixed" /\ InLoop
    BY <1>7 DEF TakeRecord, inputs, InLoop
  <2>2. CASE phase' = "target" /\ i' = i
    <3>1. StepsLeft' < StepsLeft
      BY <2>1, <2>2 DEF StepsLeft, InLoop
    <3> QED BY <2>1, <2>2, <3>1, SameItem, LessAt
  <2>3. CASE i' = i + 1 /\ phase' = "section"
    BY <2>1, <2>3, LessItems
  <2> QED BY <1>7, <2>2, <2>3 DEF TakeRecord, Push
<1> QED BY <1>1, <1>2, <1>3, <1>4, <1>5, <1>6, <1>7, LessJump, LessTakeLabel DEF Next

-----------------------------------------------------------------------------
(* The theorems. *)

LEMMA IInvKept == IInv /\ [Next]_vars => IInv'
<1>1. IInv <=> TypeInv /\ QueryInv /\ ReplyInv /\ LoopInv
  BY DEF IInv, TypeInv
<1>2. IInv' <=> TypeInv' /\ QueryInv' /\ ReplyInv' /\ LoopInv'
  BY DEF IInv, TypeInv
<1>3. TypeInv /\ QueryInv /\ [Next]_vars => QueryInv'
  BY QueryCreateQuery, QueryHeader, QueryBeginItem, QueryJump, QueryTakeLabel, QueryEndName,
     QuerySkipQuestion, QueryNoRecord, QueryStuttering DEF Next
<1>4. TypeInv /\ ReplyInv /\ [Next]_vars => ReplyInv'
  BY ReplyCreateQuery, ReplyHeader, ReplyBeginItem, ReplyJump, ReplyTakeLabel, ReplyEndName,
     ReplySkipQuestion, ReplyCutRecord, ReplyTakeRecord, ReplyStuttering DEF Next
<1> QED BY <1>1, <1>2, <1>3, <1>4, TypesKept, LoopKept

LEMMA InitIInv == Init => IInv
<1>1. Init => LoopInv
  BY DEF Init, LoopInv, InLoop
<1> QED BY <1>1, InitTypes, QueryInit, ReplyInit DEF IInv, TypeInv

(* The inductive invariant, for all packets and all domains: the types,    *)
(* where a name may go on, how far a query has been read as the labels it  *)
(* was made from, and a reply, also one that is cut, as the records that   *)
(* were meant, and that no loop reads more items than the header counts    *)
(* (dns_resolver.cpp:230-286, 288-346, 395-466).                           *)
THEOREM Inductive == Spec => []IInv
BY InitIInv, IInvKept, PTL DEF Spec

(* A query that createDNSQuery() writes for a domain without an empty      *)
(* label is parsed to its end, and its question names that domain, for     *)
(* every domain and every number of labels (dns_resolver.cpp:230-275).     *)
THEOREM QueryIsRead == Spec => []QueryAsksDomain
<1>1. IInv => QueryAsksDomain
  <2> SUFFICES ASSUME QueryInv, phase \in {"done", "failed"}, domain # <<>>,
                      \A n \in 1..Len(Labels(domain)) : Labels(domain)[n] # <<>>
               PROVE  phase = "done" /\ rr.owner = Labels(domain) /\ offset = Size
    BY DEF IInv, QueryAsksDomain
  <2>1. IsAsked
    BY DEF IsAsked
  <2>2. PICK labels : labels = Labels(domain) /\ ParsesAs(labels)
    BY <2>1 DEF QueryInv
  <2>3. phase = "done" /\ rr.owner = labels /\ offset = Size
    BY <2>2 DEF ParsesAs
  <2> QED BY <2>2, <2>3
<1> QED BY <1>1, Inductive, PTL

(* Every reply that a server writes, however many records it has and       *)
(* however its names are compressed, is parsed as the records that were    *)
(* meant, and one that is cut off as a beginning of them: no record is     *)
(* wrong before the cut (dns_resolver.cpp:288-346, 348-393, 395-466).      *)
THEOREM RepliesAreRead == Spec => []ParsesWhatIsMeant
<1>1. IInv => ParsesWhatIsMeant
  <2> SUFFICES ASSUME TypeInv, ReplyInv, phase = "done", reply # NoReply,
                      reply.chain < MAX_JUMPS
               PROVE  /\ damage = "none" => out = reply.meant
                      /\ damage = "cut" /\ ~RestIsRead => BeginsAsMeant
    BY DEF IInv, TypeInv, ParsesWhatIsMeant
  <2>1. ASSUME IsRead
        PROVE  out = reply.meant \/ (damage = "cut" /\ BeginsAsMeant)
    BY <2>1 DEF ReplyInv, InStep, ReadsItem, OutOfStep
  <2>2. CASE damage = "none"
    BY <2>1, <2>2 DEF IsRead
  <2>3. CASE damage = "cut" /\ ~RestIsRead
    <3>1. IsRead /\ reply \in Replies
      BY <2>3 DEF IsRead, ReplyInv, IsBeginning
    <3>2. ASSUME out = reply.meant PROVE BeginsAsMeant
      <4>1. /\ reply.meant.answers \in Seq(Record) /\ reply.meant.authority \in Seq(Record)
            /\ reply.meant.additional \in Seq(Record)
        BY <3>1, InputsAssumption DEF Reply
      <4>2. /\ IsPrefix(reply.meant.answers, reply.meant.answers)
            /\ IsPrefix(reply.meant.authority, reply.meant.authority)
            /\ IsPrefix(reply.meant.additional, reply.meant.additional)
        BY <4>1 DEF IsPrefix
      <4> QED BY <3>2, <4>2 DEF BeginsAsMeant
    <3> QED BY <2>1, <2>3, <3>1, <3>2
  <2> QED BY <2>2, <2>3
<1> QED BY <1>1, Inductive, PTL

(* No packet is parsed for ever, whatever it is and wherever the pointers  *)
(* of its names lead: what is left to do is a tuple of natural numbers,    *)
(* and each step makes it less in the lexicographic order                  *)
(* (dns_resolver.cpp:293-338, 411-463).                                    *)
THEOREM ParsingAdvances == Spec => []LeftIsNatural /\ LeavesLess
<1>1. IInv => LeftIsNatural
  BY LeftType DEF IInv, TypeInv
<1>2. IInv /\ [Next]_vars => [Less(Left', Left)]_vars
  BY StepLess DEF IInv, TypeInv
<1> QED BY <1>1, <1>2, Inductive, PTL DEF Spec, LeavesLess
=============================================================================
