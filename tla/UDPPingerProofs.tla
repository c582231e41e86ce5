-------------------------- MODULE UDPPingerProofs --------------------------
(***************************************************************************)
(* The round-trip times and the reports of UDPPinger are right, for any    *)
(* number of clients and pings, all timeouts, intervals and delays.        *)
(***************************************************************************)
EXTENDS UDPPinger, SequenceTheorems, TLAPS

USE CountAssumption

LEMMA Numbers ==
    /\ Timeout \in Nat /\ Interval \in Nat /\ HeartbeatTimeout \in Nat
    /\ MaxTime \in Nat /\ MaxStrays \in Nat /\ \A d \in Delays : d \in Nat
  BY TimesAssumption

(* Times in seconds, in ticks. *)
LEMMA Seconds ==
    /\ Second \in Nat /\ Second > 0
    /\ Second * HeartbeatTimeout \in Nat /\ ReportWithin \in Nat
    /\ ReportWithin = Second * HeartbeatTimeout + Second + Second
  BY Numbers, SecondAssumption DEF ReportWithin

(* More than n whole seconds are at least n + 1. *)
LEMMA WholeSeconds ==
    ASSUME NEW s \in Nat \ {0}, NEW n \in Nat, NEW k \in Nat
    PROVE  /\ k \div s > n => k >= s * n + s
           /\ ~(k \div s > n) => k < s * n + s
<1>1. PICK q \in Nat : q = k \div s
  OBVIOUS
<1>2. s * q <= k /\ k < s * q + s
  BY <1>1
<1>3. ASSUME q > n PROVE k >= s * n + s
  <2>1. PICK d \in Nat : q = n + 1 + d
    <3>1. q - n - 1 \in Nat /\ q = n + 1 + (q - n - 1)
      BY <1>3
    <3> QED BY <3>1
  <2>2. s * q = s * n + s + s * d /\ s * d >= 0
    BY <2>1
  <2> QED BY <1>2, <2>2
<1>4. ASSUME ~(q > n) PROVE k < s * n + s
  <2>1. PICK d \in Nat : n = q + d
    <3>1. n - q \in Nat /\ n = q + (n - q)
      BY <1>4
    <3> QED BY <3>1
  <2>2. s * n = s * q + s * d /\ s * d >= 0
    BY <2>1
  <2> QED BY <1>2, <2>2
<1> QED BY <1>1, <1>3, <1>4

-----------------------------------------------------------------------------
(* Sequences of datagrams. *)

LEMMA Dequeued ==
    ASSUME NEW S, NEW s \in Seq(S), s # <<>>
    PROVE  /\ Head(s) = s[1] /\ Head(s) \in S /\ 1 \in 1..Len(s) /\ Len(s) \in Nat
           /\ Tail(s) \in Seq(S) /\ Len(Tail(s)) = Len(s) - 1
           /\ \A i \in 1..Len(Tail(s)) : i + 1 \in 1..Len(s) /\ Tail(s)[i] = s[i + 1]
           /\ ToSet(s) = {Head(s)} \cup ToSet(Tail(s))
<1>1. /\ Head(s) = s[1] /\ Head(s) \in S /\ 1 \in 1..Len(s) /\ Len(s) \in Nat
      /\ Tail(s) \in Seq(S) /\ Len(Tail(s)) = Len(s) - 1
      /\ \A i \in 1..Len(Tail(s)) : i + 1 \in 1..Len(s) /\ Tail(s)[i] = s[i + 1]
  BY HeadTailProperties
<1>2. ASSUME NEW x \in ToSet(s) PROVE x = Head(s) \/ x \in ToSet(Tail(s))
  <2>1. PICK i \in 1..Len(s) : x = s[i]
    BY <1>2 DEF ToSet
  <2>2. i = 1 \/ i - 1 \in 1..Len(Tail(s))
    BY <1>1
  <2>3. ASSUME i # 1 PROVE i - 1 \in DOMAIN Tail(s) /\ Tail(s)[i - 1] = x
    <3>1. i - 1 \in 1..Len(Tail(s)) /\ (i - 1) + 1 = i
      BY <1>1, <2>2, <2>3
    <3> QED BY <1>1, <2>1, <3>1
  <2> QED BY <1>1, <2>1, <2>2, <2>3 DEF ToSet
<1>3. ASSUME NEW x \in ToSet(Tail(s)) PROVE x \in ToSet(s)
  <2>1. PICK i \in 1..Len(Tail(s)) : x = Tail(s)[i]
    BY <1>1, <1>3 DEF ToSet
  <2>2. i + 1 \in DOMAIN s /\ x = s[i + 1]
    BY <1>1, <2>1
  <2> QED BY <2>2 DEF ToSet
<1>4. Head(s) \in ToSet(s)
  BY <1>1 DEF ToSet
<1> QED BY <1>1, <1>2, <1>3, <1>4

LEMMA Enqueued ==
    ASSUME NEW S, NEW s \in Seq(S), NEW e \in S
    PROVE  /\ Append(s, e) \in Seq(S) /\ Len(Append(s, e)) = Len(s) + 1 /\ Len(s) \in Nat
           /\ \A i \in 1..Len(s) : Append(s, e)[i] = s[i]
           /\ Append(s, e)[Len(s) + 1] = e
           /\ ToSet(Append(s, e)) = ToSet(s) \cup {e}
<1> DEFINE t == Append(s, e)
<1>1. /\ t \in Seq(S) /\ Len(t) = Len(s) + 1 /\ Len(s) \in Nat
      /\ \A i \in 1..Len(s) : t[i] = s[i]
      /\ t[Len(s) + 1] = e
  BY AppendProperties
<1> HIDE DEF t
<1>2. DOMAIN t = 1..Len(t) /\ DOMAIN s = 1..Len(s)
  BY <1>1
<1>3. ToSet(t) = ToSet(s) \cup {e}
  <2>1. ASSUME NEW x \in ToSet(t) PROVE x \in ToSet(s) \cup {e}
    <3>1. PICK i \in 1..Len(t) : x = t[i]
      BY <1>2, <2>1 DEF ToSet
    <3>2. i = Len(s) + 1 \/ i \in 1..Len(s)
      BY <1>1
    <3> QED BY <1>1, <1>2, <3>1, <3>2 DEF ToSet
  <2>2. ASSUME NEW x \in ToSet(s) PROVE x \in ToSet(t)
    <3>1. PICK i \in 1..Len(s) : x = s[i]
      BY <1>2, <2>2 DEF ToSet
    <3>2. i \in 1..Len(t) /\ x = t[i]
      BY <1>1, <3>1
    <3> QED BY <1>2, <3>2 DEF ToSet
  <2>3. e \in ToSet(t)
    <3>1. Len(s) + 1 \in 1..Len(t)
      BY <1>1
    <3> QED BY <1>1, <1>2, <3>1 DEF ToSet
  <2> QED BY <2>1, <2>2, <2>3
<1> QED BY <1>1, <1>3 DEF t

-----------------------------------------------------------------------------
(* What a step leaves. *)

(* The pings that were sent, and when. *)
Kept ==
    /\ now' >= now
    /\ \A c \in Clients : \A n \in Sent(c) : n \in Sent(c)' /\ SentAt(c, n)' = SentAt(c, n)

LEMMA Stays ==
    ASSUME TypeOK, TypeOK', Kept, NEW c \in Clients, NEW payload \in Payload, Genuine(c, payload)
    PROVE  Genuine(c, payload)'
<1>1. now \in Nat /\ now' \in Nat /\ payload.ts \in Nat
  BY DEF TypeOK, Payload
<1>2. /\ payload.seq \in Sent(c) /\ payload.ts = SentAt(c, payload.seq) /\ payload.ts <= now
  BY DEF Genuine
<1>3. /\ payload.seq \in Sent(c)' /\ SentAt(c, payload.seq)' = SentAt(c, payload.seq) /\ now' >= now
  BY <1>2 DEF Kept
<1> QED BY <1>1, <1>2, <1>3 DEF Genuine

LEMMA KeptOthers == ASSUME TypeOK, now' \in Nat, now' >= now, UNCHANGED clientVars PROVE Kept
  BY DEF Kept, Sent, SentAt, clientVars

LEMMA SamplesKept ==
    ASSUME TypeOK, Kept, NEW c \in Clients, SampleInv(c), log'[c] = log[c]
    PROVE  SampleInv(c)'
<1>1. Replies(c)' = Replies(c)
  BY DEF Replies
<1> SUFFICES ASSUME NEW i \in Replies(c), NEW n \in 1..Count, log[c][i].seq = n
             PROVE  n \in Sent(c)' /\ n <= i /\ log[c][i].at - log[c][i].rtt = SentAt(c, n)'
  BY <1>1 DEF SampleInv
<1>2. n \in Sent(c) /\ n <= i /\ log[c][i].at - log[c][i].rtt = SentAt(c, n)
  BY DEF SampleInv
<1> QED BY <1>2 DEF Kept

-----------------------------------------------------------------------------
(* The clients. *)

LEMMA RoundEnds ==
    ASSUME IInv, NEW c \in Clients, cpc[c] = "wait", NEW o \in Outcomes, EndRound(c, o),
           o.at = now, o.kind = "reply" => o.seq \in Sent(c) /\ now - o.rtt = SentAt(c, o.seq)
    PROVE  /\ log' \in [Clients -> Seq(Outcomes)] /\ until' \in [Clients -> Nat]
           /\ cpc' \in [Clients -> {"send", "wait", "sleep", "done"}]
           /\ Kept /\ \A d \in Clients : ClientInv(d)' /\ SampleInv(d)'
           /\ \A d \in Clients \ {c} : log'[d] = log[d]
           /\ Len(log[c]) \in Nat /\ Len(log[c])' = Len(log[c]) + 1
           /\ \A i \in 1..Len(log[c]) : log'[c][i] = log[c][i]
           /\ log'[c][Len(log[c]) + 1] = o
<1>1. /\ TypeOK /\ \A d \in Clients : ClientInv(d) /\ SampleInv(d)
      /\ log \in [Clients -> Seq(Outcomes)] /\ until \in [Clients -> Nat] /\ now \in Nat
      /\ cpc \in [Clients -> {"send", "wait", "sleep", "done"}] /\ seq \in [Clients -> 1..Count]
  <2>1. TypeOK /\ \A d \in Clients : ClientInv(d) /\ SampleInv(d)
    BY DEF IInv
  <2>2. /\ log \in [Clients -> Seq(Outcomes)] /\ until \in [Clients -> Nat] /\ now \in Nat
        /\ cpc \in [Clients -> {"send", "wait", "sleep", "done"}] /\ seq \in [Clients -> 1..Count]
    BY <2>1 DEF TypeOK
  <2> QED BY <2>1, <2>2
<1>2. /\ UNCHANGED <<seq, now>>
      /\ log' = [log EXCEPT ![c] = Append(log[c], o)]
      /\ cpc' = [cpc EXCEPT ![c] = IF Sleeps(c) THEN "sleep" ELSE "done"]
      /\ until' = [until EXCEPT ![c] = now + Interval]
  BY DEF EndRound
<1>3. /\ log[c] \in Seq(Outcomes) /\ Append(log[c], o) \in Seq(Outcomes)
      /\ Len(Append(log[c], o)) = Len(log[c]) + 1 /\ Len(log[c]) \in Nat
      /\ \A i \in 1..Len(log[c]) : Append(log[c], o)[i] = log[c][i]
      /\ Append(log[c], o)[Len(log[c]) + 1] = o
  BY <1>1, Enqueued
<1>4. /\ \A d \in Clients \ {c} : log'[d] = log[d] /\ cpc'[d] = cpc[d] /\ until'[d] = until[d]
      /\ log'[c] = Append(log[c], o)
  BY <1>1, <1>2
<1>5. /\ log' \in [Clients -> Seq(Outcomes)] /\ until' \in [Clients -> Nat]
      /\ cpc' \in [Clients -> {"send", "wait", "sleep", "done"}]
  <2>1. \A d \in Clients : log'[d] \in Seq(Outcomes)
    BY <1>1, <1>3, <1>4
  <2>2. log' \in [Clients -> Seq(Outcomes)]
    BY <1>1, <1>2, <2>1
  <2>3. now + Interval \in Nat
    BY <1>1, Numbers
  <2>4. (IF Sleeps(c) THEN "sleep" ELSE "done") \in {"send", "wait", "sleep", "done"}
    OBVIOUS
  <2> QED BY <1>1, <1>2, <2>2, <2>3, <2>4
<1>6. Len(log[c]) = seq[c] - 1 /\ seq[c] \in Nat /\ seq[c] >= 1 /\ seq[c] <= Count
  BY <1>1 DEF ClientInv
<1>7. ASSUME NEW d \in Clients, NEW n \in Sent(d)
      PROVE  n \in Sent(d)' /\ SentAt(d, n)' = SentAt(d, n)
  <2>1. n \in Sent(d)'
    BY <1>1, <1>2, <1>4, <1>7 DEF Sent
  <2>2. CASE d = c
    <3>1. n = 1 \/ n - 1 \in 1..Len(log[c])
      BY <1>6, <1>7, <2>2 DEF Sent
    <3> QED BY <1>3, <1>4, <2>1, <2>2, <3>1 DEF SentAt
  <2>3. CASE d # c
    BY <1>4, <2>1, <2>3 DEF SentAt
  <2> QED BY <2>2, <2>3
<1>8. Kept
  BY <1>1, <1>2, <1>7 DEF Kept
<1>9. ASSUME NEW d \in Clients PROVE ClientInv(d)'
  <2>1. CASE d # c
    BY <1>1, <1>2, <1>4, <2>1 DEF ClientInv, SentAt
  <2>2. CASE d = c
    <3>1. /\ cpc'[c] \in {"sleep", "done"} /\ (cpc'[c] = "sleep" => seq[c] # Count)
          /\ until'[c] = now + Interval
      BY <1>1, <1>2 DEF Sleeps
    <3>2. Len(log'[c]) = seq[c]
      BY <1>3, <1>4, <1>6
    <3>3. seq[c] + 1 # 1 /\ log'[c][(seq[c] + 1) - 1].at + Interval = now + Interval
      BY <1>3, <1>4, <1>6
    <3>4. now <= now + Interval /\ (seq[c] # Count => seq[c] < Count)
      BY <1>1, <1>6, Numbers
    <3> QED BY <1>2, <2>2, <3>1, <3>2, <3>3, <3>4 DEF ClientInv, SentAt
  <2> QED BY <2>1, <2>2
<1>10. SampleInv(c)'
  <2> SUFFICES ASSUME NEW i \in Replies(c)', NEW n \in 1..Count, log'[c][i].seq = n
               PROVE  n \in Sent(c)' /\ n <= i /\ log'[c][i].at - log'[c][i].rtt = SentAt(c, n)'
    BY DEF SampleInv
  <2>1. i \in 1..Len(log'[c]) /\ log'[c][i].kind = "reply"
    BY <1>5 DEF Replies
  <2>2. CASE i \in 1..Len(log[c])
    <3>1. log'[c][i] = log[c][i] /\ i \in Replies(c)
      BY <1>3, <1>4, <2>1, <2>2 DEF Replies
    <3>2. n \in Sent(c) /\ n <= i /\ log[c][i].at - log[c][i].rtt = SentAt(c, n)
      BY <1>1, <3>1 DEF SampleInv
    <3> QED BY <1>7, <3>1, <3>2
  <2>3. CASE i = Len(log[c]) + 1
    <3>1. log'[c][i] = o /\ i = seq[c] /\ o.kind = "reply" /\ o.seq = n
      BY <1>3, <1>4, <1>6, <2>1, <2>3
    <3>2. n \in Sent(c) /\ now - o.rtt = SentAt(c, n) /\ n <= seq[c]
      BY <3>1 DEF Sent
    <3> QED BY <1>7, <3>1, <3>2
  <2> QED BY <1>3, <1>4, <2>1, <2>2, <2>3
<1>11. \A d \in Clients \ {c} : SampleInv(d)'
  BY <1>1, <1>4, <1>8, SamplesKept
<1> QED BY <1>3, <1>4, <1>5, <1>8, <1>9, <1>10, <1>11

-----------------------------------------------------------------------------
(* A ping in a sequence. *)

OnceAt(s, T) == \A i, j \in 1..Len(s) : s[i] \in T /\ s[j] \in T => i = j
SomeAt(s, T) == \E i \in 1..Len(s) : s[i] \in T

LEMMA TakenOut ==
    ASSUME NEW S, NEW s \in Seq(S), s # <<>>, NEW T
    PROVE  /\ OnceAt(s, T) => OnceAt(Tail(s), T)
           /\ SomeAt(Tail(s), T) => SomeAt(s, T)
           /\ OnceAt(s, T) /\ Head(s) \in T => ~SomeAt(Tail(s), T)
           /\ Head(s) \in T => SomeAt(s, T)
<1> DEFINE t == Tail(s)
<1>1. /\ Head(s) = s[1] /\ 1 \in 1..Len(s) /\ Len(s) \in Nat
      /\ Len(t) = Len(s) - 1
      /\ \A i \in 1..Len(t) : i + 1 \in 1..Len(s) /\ t[i] = s[i + 1]
  BY Dequeued
<1> HIDE DEF t
<1>2. ASSUME OnceAt(s, T) PROVE OnceAt(t, T)
  <2> SUFFICES ASSUME NEW i \in 1..Len(t), NEW j \in 1..Len(t), t[i] \in T, t[j] \in T PROVE i = j
    BY DEF OnceAt
  <2>1. /\ i + 1 \in 1..Len(s) /\ s[i + 1] \in T /\ j + 1 \in 1..Len(s) /\ s[j + 1] \in T
    BY <1>1
  <2>2. i + 1 = j + 1
    BY <1>2, <2>1 DEF OnceAt
  <2> QED BY <1>1, <2>2
<1>3. ASSUME SomeAt(t, T) PROVE SomeAt(s, T)
  BY <1>1, <1>3 DEF SomeAt
<1>4. ASSUME OnceAt(s, T), Head(s) \in T, SomeAt(t, T) PROVE FALSE
  <2>1. PICK i \in 1..Len(t) : t[i] \in T
    BY <1>4 DEF SomeAt
  <2>2. i + 1 \in 1..Len(s) /\ s[i + 1] \in T
    BY <1>1, <2>1
  <2>3. i + 1 = 1
    BY <1>1, <1>4, <2>2 DEF OnceAt
  <2> QED BY <1>1, <2>3
<1>5. Head(s) \in T => SomeAt(s, T)
  BY <1>1 DEF SomeAt
<1> QED BY <1>2, <1>3, <1>4, <1>5 DEF t

LEMMA PutIn ==
    ASSUME NEW S, NEW s \in Seq(S), NEW e \in S, NEW T
    PROVE  /\ OnceAt(s, T) /\ (e \notin T \/ ~SomeAt(s, T)) => OnceAt(Append(s, e), T)
           /\ SomeAt(Append(s, e), T) => SomeAt(s, T) \/ e \in T
<1> DEFINE t == Append(s, e)
<1>1. /\ Len(t) = Len(s) + 1 /\ Len(s) \in Nat
      /\ \A i \in 1..Len(s) : t[i] = s[i]
      /\ t[Len(s) + 1] = e
  BY Enqueued
<1> HIDE DEF t
<1>2. \A i \in 1..Len(t) : i \in 1..Len(s) \/ i = Len(s) + 1
  BY <1>1
<1>3. ASSUME OnceAt(s, T), e \notin T \/ ~SomeAt(s, T) PROVE OnceAt(t, T)
  BY <1>1, <1>2, <1>3 DEF OnceAt, SomeAt
<1>4. ASSUME SomeAt(t, T) PROVE SomeAt(s, T) \/ e \in T
  BY <1>1, <1>2, <1>4 DEF SomeAt
<1> QED BY <1>3, <1>4 DEF t

(* The datagrams, and the payloads, of the ping n of c. *)
Pings(c, n) == {p \in Packets : Carries(p, c, n)}
Numbered(n) == {payload \in Payload : payload.seq = n}

LEMMA InboxForm ==
    ASSUME NEW s \in Seq(Packets), NEW c \in Clients, NEW n \in 1..Count
    PROVE  /\ SomeAt(s, Pings(c, n)) <=> \E i \in 1..Len(s) : Carries(s[i], c, n)
           /\ OnceAt(s, Pings(c, n)) <=>
                 \A i, j \in 1..Len(s) : Carries(s[i], c, n) /\ Carries(s[j], c, n) => i = j
<1>1. \A i \in 1..Len(s) : s[i] \in Pings(c, n) <=> Carries(s[i], c, n)
  BY DEF Pings
<1> QED BY <1>1 DEF SomeAt, OnceAt

LEMMA RepliesForm ==
    ASSUME NEW s \in Seq(Payload \cup {Malformed}), NEW n \in 1..Count
    PROVE  /\ SomeAt(s, Numbered(n)) <=> \E i \in 1..Len(s) : s[i].seq = n
           /\ OnceAt(s, Numbered(n)) <=>
                 \A i, j \in 1..Len(s) : s[i].seq = n /\ s[j].seq = n => i = j
<1>1. \A i \in 1..Len(s) : s[i] \in Numbered(n) <=> s[i].seq = n
  <2> SUFFICES ASSUME NEW i \in 1..Len(s) PROVE s[i] \in Numbered(n) <=> s[i].seq = n
    OBVIOUS
  <2>1. s[i] \in Payload \/ s[i] = Malformed
    OBVIOUS
  <2>2. Malformed.seq # n /\ Malformed \notin Payload
    BY DEF Malformed, Payload
  <2> QED BY <2>1, <2>2 DEF Numbered
<1> QED BY <1>1 DEF SomeAt, OnceAt

(* A ping that is nowhere new is still in one place at most. *)
LEMMA OnceStays ==
    ASSUME TypeOK, NEW c \in Clients, NEW n \in 1..Count, OnceInv(c, n),
           \A p \in flight' : Carries(p, c, n) => p \in flight,
           \A p \in pending' : Carries(p, c, n) => p \in pending,
           \/ inbox' = inbox
           \/ inbox # <<>> /\ inbox' = Tail(inbox)
           \/ \E p \in Packets : ~Carries(p, c, n) /\ inbox' = Append(inbox, p),
           \/ replies'[c] = replies[c]
           \/ replies[c] # <<>> /\ replies'[c] = Tail(replies[c])
           \/ \E payload \in Payload \cup {Malformed} :
                 payload.seq # n /\ replies'[c] = Append(replies[c], payload),
           inbox' \in Seq(Packets), replies'[c] \in Seq(Payload \cup {Malformed}),
           \A i \in Replies(c)' : log'[c][i].seq = n => i \in Replies(c) /\ log[c][i].seq = n
    PROVE  OnceInv(c, n)'
<1>1. /\ inbox \in Seq(Packets) /\ replies[c] \in Seq(Payload \cup {Malformed})
  BY DEF TypeOK
<1>2. /\ OnceAt(inbox, Pings(c, n)) => OnceAt(inbox', Pings(c, n))
      /\ SomeAt(inbox', Pings(c, n)) => SomeAt(inbox, Pings(c, n))
  <2>1. CASE inbox # <<>> /\ inbox' = Tail(inbox)
    BY <1>1, <2>1, TakenOut
  <2>2. CASE \E p \in Packets : ~Carries(p, c, n) /\ inbox' = Append(inbox, p)
    <3>1. PICK p \in Packets : ~Carries(p, c, n) /\ inbox' = Append(inbox, p)
      BY <2>2
    <3>2. p \notin Pings(c, n)
      BY <3>1 DEF Pings
    <3> QED BY <1>1, <3>1, <3>2, PutIn
  <2> QED BY <2>1, <2>2
<1>3. /\ OnceAt(replies[c], Numbered(n)) => OnceAt(replies'[c], Numbered(n))
      /\ SomeAt(replies'[c], Numbered(n)) => SomeAt(replies[c], Numbered(n))
  <2>1. CASE replies[c] # <<>> /\ replies'[c] = Tail(replies[c])
    BY <1>1, <2>1, TakenOut
  <2>2. CASE \E payload \in Payload \cup {Malformed} :
                payload.seq # n /\ replies'[c] = Append(replies[c], payload)
    <3>1. PICK payload \in Payload \cup {Malformed} :
             payload.seq # n /\ replies'[c] = Append(replies[c], payload)
      BY <2>2
    <3>2. payload \notin Numbered(n)
      BY <3>1 DEF Numbered
    <3>3. /\ OnceAt(replies[c], Numbered(n)) => OnceAt(Append(replies[c], payload), Numbered(n))
          /\ SomeAt(Append(replies[c], payload), Numbered(n)) =>
                SomeAt(replies[c], Numbered(n)) \/ payload \in Numbered(n)
      <4> DEFINE S == Payload \cup {Malformed}
                 s == replies[c]
      <4>1. s \in Seq(S) /\ payload \in S
        BY <1>1, <3>1
      <4> HIDE DEF S, s
      <4>2. /\ OnceAt(s, Numbered(n)) => OnceAt(Append(s, payload), Numbered(n))
            /\ SomeAt(Append(s, payload), Numbered(n)) =>
                  SomeAt(s, Numbered(n)) \/ payload \in Numbered(n)
        BY <3>2, <4>1, PutIn
      <4> QED BY <4>2 DEF s
    <3> QED BY <3>1, <3>2, <3>3
  <2> QED BY <2>1, <2>2
<1>4. /\ InInbox(c, n) <=> SomeAt(inbox, Pings(c, n))
      /\ InInbox(c, n)' <=> SomeAt(inbox', Pings(c, n))
      /\ InReplies(c, n) <=> SomeAt(replies[c], Numbered(n))
      /\ InReplies(c, n)' <=> SomeAt(replies'[c], Numbered(n))
  <2>1. InInbox(c, n) <=> SomeAt(inbox, Pings(c, n))
    BY <1>1, InboxForm DEF InInbox
  <2>2. InInbox(c, n)' <=> SomeAt(inbox', Pings(c, n))
    BY InboxForm DEF InInbox
  <2>3. InReplies(c, n) <=> SomeAt(replies[c], Numbered(n))
    BY <1>1, RepliesForm, ZenonT(30) DEF InReplies
  <2>4. InReplies(c, n)' <=> SomeAt(replies'[c], Numbered(n))
    BY RepliesForm DEF InReplies
  <2> QED BY <2>1, <2>2, <2>3, <2>4
<1>5. /\ InFlight(c, n)' => InFlight(c, n)
      /\ InPending(c, n)' => InPending(c, n)
      /\ InLog(c, n)' => InLog(c, n)
  BY DEF InFlight, InPending, InLog
<1>6. \A p, q \in flight' : Carries(p, c, n) /\ Carries(q, c, n) => p = q
  BY DEF OnceInv
<1>7. \A i, j \in 1..Len(inbox)' : Carries(inbox'[i], c, n) /\ Carries(inbox'[j], c, n) => i = j
  <2>1. OnceAt(inbox, Pings(c, n))
    BY <1>1, InboxForm DEF OnceInv
  <2> QED BY <1>2, <2>1, InboxForm
<1>8. \A i, j \in 1..Len(replies'[c]) : replies'[c][i].seq = n /\ replies'[c][j].seq = n => i = j
  <2>1. OnceAt(replies[c], Numbered(n))
    BY <1>1, RepliesForm DEF OnceInv
  <2> QED BY <1>3, <2>1, RepliesForm
<1>9. \A i, j \in Replies(c)' : log'[c][i].seq = n /\ log'[c][j].seq = n => i = j
  BY DEF OnceInv
<1>10. /\ InFlight(c, n)  => ~InInbox(c, n) /\ ~InPending(c, n) /\ ~InReplies(c, n) /\ ~InLog(c, n)
       /\ InInbox(c, n)   => ~InPending(c, n) /\ ~InReplies(c, n) /\ ~InLog(c, n)
       /\ InPending(c, n) => ~InReplies(c, n) /\ ~InLog(c, n)
       /\ InReplies(c, n) => ~InLog(c, n)
  BY DEF OnceInv
<1> QED BY <1>2, <1>3, <1>4, <1>5, <1>6, <1>7, <1>8, <1>9, <1>10 DEF OnceInv

(* Payloads come from where they were. *)
LEMMA PayloadsStay ==
    ASSUME TypeOK, TypeOK', Kept, PayloadInv,
           \A p \in flight' \cup pending' \cup ToSet(inbox') :
              \/ Genuine(p.client, p.payload)'
              \/ \E q \in flight \cup pending \cup ToSet(inbox) :
                    q.client = p.client /\ q.payload = p.payload,
           \A c \in Clients : \A payload \in ToSet(replies'[c]) \ {Malformed} :
              \/ payload \in ToSet(replies[c])
              \/ \E q \in flight : q.client = c /\ q.payload = payload
    PROVE  PayloadInv'
<1>1. /\ flight' \cup pending' \cup ToSet(inbox') \subseteq Packets
      /\ flight \cup pending \cup ToSet(inbox) \subseteq Packets
      /\ \A c \in Clients : ToSet(replies'[c]) \subseteq Payload \cup {Malformed}
  <2>1. /\ inbox \in Seq(Packets) /\ inbox' \in Seq(Packets)
        /\ \A c \in Clients : replies'[c] \in Seq(Payload \cup {Malformed})
    BY DEF TypeOK
  <2>2. ASSUME NEW S, NEW s \in Seq(S) PROVE ToSet(s) \subseteq S
    BY DEF ToSet
  <2> QED BY <2>1, <2>2 DEF TypeOK
<1>2. ASSUME NEW p \in flight' \cup pending' \cup ToSet(inbox')
      PROVE  Genuine(p.client, p.payload)'
  <2>1. p.client \in Clients /\ p.payload \in Payload
    BY <1>1, <1>2 DEF Packets
  <2>2. CASE \E q \in flight \cup pending \cup ToSet(inbox) :
                q.client = p.client /\ q.payload = p.payload
    <3>1. Genuine(p.client, p.payload)
      BY <2>2 DEF PayloadInv
    <3> DEFINE d == p.client
               y == p.payload
    <3>2. d \in Clients /\ y \in Payload /\ Genuine(d, y)
      BY <2>1, <3>1
    <3> HIDE DEF d, y
    <3>3. Genuine(d, y)'
      BY <3>2, Stays
    <3> QED BY <3>3 DEF d, y
  <2> QED BY <1>2, <2>2
<1>3. ASSUME NEW c \in Clients, NEW payload \in ToSet(replies'[c]) \ {Malformed}
      PROVE  Genuine(c, payload)'
  <2>1. payload \in Payload
    BY <1>1, <1>3
  <2>2. Genuine(c, payload)
    BY <1>3, <2>1 DEF PayloadInv
  <2> QED BY <1>3, <2>1, <2>2, Stays
<1> QED BY <1>2, <1>3 DEF PayloadInv

-----------------------------------------------------------------------------
(* The steps of the clients. *)

LEMMA ServerUntouched ==
    ASSUME IInv, UNCHANGED <<now, inbox, serverVars, history>>
    PROVE  ServerInv' /\ \A c \in Clients : HeardInv(c)'
  BY DEF IInv, ServerInv, Watched, HeardInv, serverVars, history, ToSet

LEMMA NotYetSent ==
    ASSUME IInv, NEW c \in Clients, NEW n \in 1..Count, n \notin Sent(c)
    PROVE  ~InFlight(c, n) /\ ~InInbox(c, n) /\ ~InPending(c, n) /\ ~InReplies(c, n) /\ ~InLog(c, n)
<1>1. TypeOK /\ PayloadInv /\ SampleInv(c)
  BY DEF IInv
<1>2. \A p \in flight \cup pending \cup ToSet(inbox) : ~Carries(p, c, n)
  BY <1>1 DEF PayloadInv, Genuine, Carries
<1>3. ~InFlight(c, n) /\ ~InPending(c, n)
  BY <1>2 DEF InFlight, InPending
<1>4. ~InInbox(c, n)
  <2>1. \A i \in 1..Len(inbox) : inbox[i] \in ToSet(inbox)
    BY <1>1 DEF TypeOK, ToSet
  <2> QED BY <1>2, <2>1 DEF InInbox
<1>5. ~InReplies(c, n)
  <2>1. replies[c] \in Seq(Payload \cup {Malformed})
    BY <1>1 DEF TypeOK
  <2>2. \A i \in 1..Len(replies[c]) : replies[c][i] \in ToSet(replies[c])
    BY <2>1 DEF ToSet
  <2>3. Malformed.seq # n
    BY DEF Malformed
  <2>4. \A payload \in ToSet(replies[c]) : payload.seq # n
    BY <1>1, <2>3 DEF PayloadInv, Genuine
  <2> QED BY <2>2, <2>4 DEF InReplies
<1>6. ~InLog(c, n)
  BY <1>1 DEF InLog, SampleInv
<1> QED BY <1>3, <1>4, <1>5, <1>6

LEMMA PingStep ==
    ASSUME IInv, NEW c \in Clients, Ping(c), UNCHANGED <<serverVars, history>>
    PROVE  IInv'
<1>0. PICK p : p = ToServer(c, [seq |-> seq[c], ts |-> now])
  OBVIOUS
<1>1. /\ TypeOK /\ PayloadInv /\ \A d \in Clients : ClientInv(d) /\ SampleInv(d)
      /\ \A d \in Clients, n \in 1..Count : OnceInv(d, n)
  BY DEF IInv
<1>2. /\ cpc[c] = "send" /\ cpc' = [cpc EXCEPT ![c] = "wait"]
      /\ until' = [until EXCEPT ![c] = now + Timeout]
      /\ UNCHANGED <<seq, log, now, inbox, replies, serverVars, history>>
      /\ flight' = flight \cup {p} \/ flight' = flight
  BY <1>0 DEF Ping, Send
<1>3. /\ seq[c] \in 1..Count /\ now \in Nat /\ p \in Packets
      /\ p.client = c /\ p.payload = [seq |-> seq[c], ts |-> now]
  BY <1>0, <1>1 DEF TypeOK, Packets, Payload, ToServer
<1>4. TypeOK'
  <2>1. now + Timeout \in Nat
    BY <1>3, Numbers
  <2>2. /\ cpc' \in [Clients -> {"send", "wait", "sleep", "done"}]
        /\ until' \in [Clients -> Nat] /\ flight' \subseteq Packets
    BY <1>1, <1>2, <1>3, <2>1 DEF TypeOK
  <2> QED BY <1>1, <1>2, <2>2 DEF TypeOK, serverVars, history
<1>5. /\ Kept /\ seq[c] \notin Sent(c) /\ seq[c] \in Sent(c)'
      /\ now = SentAt(c, seq[c]) /\ SentAt(c, seq[c])' = SentAt(c, seq[c])
  <2>1. \A d \in Clients : \A n \in Sent(d) : n \in Sent(d)'
    BY <1>1, <1>2 DEF Sent, TypeOK
  <2>2. \A d \in Clients : \A n \in 1..Count : SentAt(d, n)' = SentAt(d, n)
    BY <1>2 DEF SentAt
  <2>3. \A d \in Clients : \A n \in Sent(d) : n \in 1..Count
    BY <1>1 DEF Sent, TypeOK
  <2>4. Kept
    BY <1>2, <1>3, <2>1, <2>2, <2>3 DEF Kept
  <2>5. seq[c] \notin Sent(c) /\ seq[c] \in Sent(c)'
    BY <1>1, <1>2, <1>3 DEF Sent, TypeOK
  <2>6. now = SentAt(c, seq[c])
    BY <1>1, <1>2 DEF ClientInv
  <2>7. SentAt(c, seq[c])' = SentAt(c, seq[c])
    BY <1>2 DEF SentAt
  <2> QED BY <2>4, <2>5, <2>6, <2>7
<1>6. \A d \in Clients : ClientInv(d)' /\ SampleInv(d)'
  <2>1. \A d \in Clients : SampleInv(d)'
    BY <1>1, <1>2, <1>5, SamplesKept
  <2>2. ASSUME NEW d \in Clients PROVE ClientInv(d)'
    <3>1. CASE d = c
      BY <1>1, <1>2, <3>1 DEF ClientInv, TypeOK
    <3>2. CASE d # c
      <4>1. cpc'[d] = cpc[d] /\ until'[d] = until[d]
        BY <1>1, <1>2, <3>2 DEF TypeOK
      <4> QED BY <1>1, <1>2, <4>1 DEF ClientInv, SentAt
    <3> QED BY <3>1, <3>2
  <2> QED BY <2>1, <2>2
<1>7. Genuine(p.client, p.payload)'
  <2>1. /\ seq[c] \in Sent(c)' /\ now = SentAt(c, seq[c])' /\ now <= now'
    BY <1>2, <1>3, <1>5
  <2>2. PICK y : y = p.payload /\ y.seq = seq[c] /\ y.ts = now
    BY <1>3
  <2>3. Genuine(c, y)'
    BY <1>2, <1>5, <2>1, <2>2 DEF Genuine, SentAt
  <2> QED BY <1>3, <2>2, <2>3
<1>8. PayloadInv'
  <2>1. pending' = pending
    BY <1>2 DEF serverVars
  <2> QED BY <1>1, <1>2, <1>4, <1>5, <1>7, <2>1, PayloadsStay
<1>9. ASSUME NEW d \in Clients, NEW n \in 1..Count PROVE OnceInv(d, n)'
  <2>1. /\ pending' = pending /\ Replies(d)' = Replies(d) /\ log'[d] = log[d]
        /\ inbox' \in Seq(Packets) /\ replies'[d] \in Seq(Payload \cup {Malformed})
    BY <1>2, <1>4 DEF serverVars, Replies, TypeOK
  <2>2. CASE ~(d = c /\ n = seq[c])
    <3>1. ~Carries(p, d, n)
      BY <1>3, <2>2 DEF Carries
    <3>2. \A q \in flight' : Carries(q, d, n) => q \in flight
      BY <1>2, <3>1
    <3> QED BY <1>1, <1>2, <2>1, <3>2, OnceStays
  <2>3. CASE d = c /\ n = seq[c]
    <3>1. ~InFlight(d, n) /\ ~InInbox(d, n) /\ ~InPending(d, n) /\ ~InReplies(d, n) /\ ~InLog(d, n)
      BY <1>5, <2>3, NotYetSent
    <3>2. ~InInbox(d, n)' /\ ~InPending(d, n)' /\ ~InReplies(d, n)' /\ ~InLog(d, n)'
      BY <1>2, <2>1, <3>1 DEF InInbox, InPending, InReplies, InLog
    <3>3. \A q, r \in flight' : Carries(q, d, n) /\ Carries(r, d, n) => q = r
      BY <1>2, <3>1 DEF InFlight
    <3> QED BY <3>2, <3>3 DEF OnceInv, InInbox, InPending, InReplies, InLog
  <2> QED BY <2>2, <2>3
<1>10. ServerInv' /\ \A d \in Clients : HeardInv(d)'
  BY <1>2, ServerUntouched
<1> QED BY <1>4, <1>6, <1>8, <1>9, <1>10 DEF IInv

(* The first datagram in a client's socket. *)
LEMMA FirstReply ==
    ASSUME IInv, NEW c \in Clients, replies[c] # <<>>
    PROVE  /\ replies[c] \in Seq(Payload \cup {Malformed})
           /\ Tail(replies[c]) \in Seq(Payload \cup {Malformed})
           /\ ToSet(Tail(replies[c])) \subseteq ToSet(replies[c])
           /\ Head(replies[c]) # Malformed =>
                 Head(replies[c]) \in Payload /\ Genuine(c, Head(replies[c]))
<1>1. replies[c] \in Seq(Payload \cup {Malformed}) /\ PayloadInv
  BY DEF IInv, TypeOK
<1>2. /\ Head(replies[c]) \in Payload \cup {Malformed} /\ Tail(replies[c]) \in Seq(Payload \cup {Malformed})
      /\ ToSet(replies[c]) = {Head(replies[c])} \cup ToSet(Tail(replies[c]))
  <2> DEFINE S == Payload \cup {Malformed}
             s == replies[c]
  <2>1. s \in Seq(S) /\ s # <<>>
    BY <1>1
  <2> HIDE DEF S, s
  <2>2. Head(s) \in S /\ Tail(s) \in Seq(S) /\ ToSet(s) = {Head(s)} \cup ToSet(Tail(s))
    BY <2>1, Dequeued
  <2> QED BY <2>2 DEF S, s
<1>3. Head(replies[c]) # Malformed => Genuine(c, Head(replies[c]))
  BY <1>1, <1>2 DEF PayloadInv
<1> QED BY <1>1, <1>2, <1>3

LEMMA RoundStep ==
    ASSUME IInv, NEW c \in Clients, cpc[c] = "wait", NEW o \in Outcomes, EndRound(c, o),
           o.at = now, UNCHANGED <<serverVars, history>>,
           \/ UNCHANGED replies /\ o.kind # "reply"
           \/ /\ replies[c] # <<>> /\ replies' = [replies EXCEPT ![c] = Tail(replies[c])]
              /\ o.kind = "reply" => /\ Head(replies[c]) # Malformed
                                     /\ o.seq = Head(replies[c]).seq
                                     /\ o.rtt = now - Head(replies[c]).ts
    PROVE  IInv'
<1>1. /\ TypeOK /\ PayloadInv /\ \A d \in Clients, n \in 1..Count : OnceInv(d, n)
      /\ now \in Nat
  BY SMTT(30) DEF IInv, TypeOK
<1>2. UNCHANGED <<seq, now, flight, inbox, pending, serverVars, history>>
  BY DEF EndRound, serverVars
<1>3. o.kind = "reply" => o.seq \in Sent(c) /\ now - o.rtt = SentAt(c, o.seq)
  <2> SUFFICES ASSUME o.kind = "reply"
               PROVE  o.seq \in Sent(c) /\ now - o.rtt = SentAt(c, o.seq)
    OBVIOUS
  <2>1. PICK y : y = Head(replies[c])
    OBVIOUS
  <2>2. y \in Payload /\ Genuine(c, y) /\ o.seq = y.seq /\ o.rtt = now - y.ts
    BY <2>1, FirstReply
  <2>3. y.ts \in Nat /\ now - (now - y.ts) = y.ts
    BY <1>1, <2>2 DEF Payload
  <2>4. o.seq \in Sent(c) /\ y.ts = SentAt(c, y.seq)
    BY <2>2 DEF Genuine
  <2>5. y.ts = SentAt(c, o.seq)
    BY <2>2, <2>4
  <2> QED BY <2>2, <2>3, <2>4, <2>5
<1>4. /\ log' \in [Clients -> Seq(Outcomes)] /\ until' \in [Clients -> Nat]
      /\ cpc' \in [Clients -> {"send", "wait", "sleep", "done"}]
      /\ Kept /\ \A d \in Clients : ClientInv(d)' /\ SampleInv(d)'
      /\ \A d \in Clients \ {c} : log'[d] = log[d]
      /\ Len(log[c]) \in Nat /\ Len(log[c])' = Len(log[c]) + 1
      /\ \A i \in 1..Len(log[c]) : log'[c][i] = log[c][i]
      /\ log'[c][Len(log[c]) + 1] = o
  BY <1>3, RoundEnds
<1>5. /\ replies' \in [Clients -> Seq(Payload \cup {Malformed})]
      /\ \A d \in Clients \ {c} : replies'[d] = replies[d]
      /\ \A d \in Clients : ToSet(replies'[d]) \subseteq ToSet(replies[d])
      /\ replies'[c] = replies[c] \/ (replies[c] # <<>> /\ replies'[c] = Tail(replies[c]))
  <2>1. CASE UNCHANGED replies
    BY <1>1, <2>1 DEF TypeOK
  <2>2. CASE replies[c] # <<>> /\ replies' = [replies EXCEPT ![c] = Tail(replies[c])]
    <3>1. /\ Tail(replies[c]) \in Seq(Payload \cup {Malformed})
          /\ ToSet(Tail(replies[c])) \subseteq ToSet(replies[c])
      BY <2>2, FirstReply
    <3>2. replies \in [Clients -> Seq(Payload \cup {Malformed})]
      BY <1>1 DEF TypeOK
    <3> QED BY <2>2, <3>1, <3>2
  <2> QED BY <2>1, <2>2
<1>6. TypeOK'
  BY <1>1, <1>2, <1>4, <1>5 DEF TypeOK, serverVars, history
<1>7. PayloadInv'
  BY <1>1, <1>2, <1>4, <1>5, <1>6, PayloadsStay
<1>8. \A i \in Replies(c)' : \/ i \in Replies(c) /\ log'[c][i] = log[c][i]
                             \/ i = Len(log[c]) + 1 /\ log'[c][i] = o /\ o.kind = "reply"
  <2>1. DOMAIN log'[c] = 1..Len(log'[c]) /\ DOMAIN log[c] = 1..Len(log[c])
    BY <1>1, <1>4 DEF TypeOK
  <2> QED BY <1>4, <2>1, SMTT(30) DEF Replies
<1>9. ASSUME NEW d \in Clients, NEW n \in 1..Count PROVE OnceInv(d, n)'
  <2>1. /\ OnceInv(d, n) /\ inbox' \in Seq(Packets)
        /\ replies[d] \in Seq(Payload \cup {Malformed}) /\ replies'[d] \in Seq(Payload \cup {Malformed})
    BY <1>1, <1>6 DEF TypeOK
  <2>2. CASE d # c
    <3>1. Replies(d)' = Replies(d) /\ log'[d] = log[d] /\ replies'[d] = replies[d]
      BY <1>4, <1>5, <2>2 DEF Replies
    <3> QED BY <1>1, <1>2, <2>1, <3>1, OnceStays
  <2>3. CASE d = c /\ ~(o.kind = "reply" /\ o.seq = n)
    <3>1. \A i \in Replies(c)' : log'[c][i].seq = n => i \in Replies(c) /\ log[c][i].seq = n
      BY <1>8, <2>3
    <3>2. OnceInv(c, n) /\ inbox' = inbox /\ replies'[c] \in Seq(Payload \cup {Malformed})
      BY <1>2, <2>1, <2>3
    <3> QED BY <1>1, <1>2, <1>5, <2>1, <2>3, <3>1, <3>2, OnceStays
  <2>4. CASE d = c /\ o.kind = "reply" /\ o.seq = n
    <3>1. /\ replies[c] # <<>> /\ replies'[c] = Tail(replies[c])
          /\ Head(replies[c]) \in Numbered(n)
      <4>1. /\ replies[c] # <<>> /\ replies' = [replies EXCEPT ![c] = Tail(replies[c])]
            /\ Head(replies[c]) # Malformed /\ n = Head(replies[c]).seq
        BY <2>4
      <4>2. Head(replies[c]) \in Payload
        BY <4>1, FirstReply
      <4>3. replies'[c] = Tail(replies[c])
        BY <1>1, <4>1 DEF TypeOK
      <4> QED BY <4>1, <4>2, <4>3 DEF Numbered
    <3>2. /\ OnceAt(replies[c], Numbered(n)) => ~SomeAt(replies'[c], Numbered(n))
          /\ SomeAt(replies[c], Numbered(n))
      <4> DEFINE S == Payload \cup {Malformed}
                 s == replies[c]
      <4>1. s \in Seq(S) /\ s # <<>> /\ Head(s) \in Numbered(n)
        BY <2>1, <2>4, <3>1
      <4> HIDE DEF S, s
      <4>2. /\ OnceAt(s, Numbered(n)) => ~SomeAt(Tail(s), Numbered(n))
            /\ SomeAt(s, Numbered(n))
        BY <4>1, TakenOut
      <4> QED BY <3>1, <4>2 DEF s
    <3>3. InReplies(c, n) /\ OnceAt(replies[c], Numbered(n))
      <4>1. InReplies(c, n)
        BY <2>1, <2>4, <3>2, RepliesForm DEF InReplies
      <4>2. \A i, j \in 1..Len(replies[c]) :
               replies[c][i].seq = n /\ replies[c][j].seq = n => i = j
        BY <2>1, <2>4 DEF OnceInv
      <4>3. replies[c] \in Seq(Payload \cup {Malformed})
        BY <2>1, <2>4
      <4>4. OnceAt(replies[c], Numbered(n))
        BY <4>2, <4>3, RepliesForm
      <4> QED BY <4>1, <4>4
    <3>4. ~InReplies(c, n)'
      BY <2>1, <2>4, <3>2, <3>3, RepliesForm DEF InReplies
    <3>5. ~InFlight(c, n) /\ ~InInbox(c, n) /\ ~InPending(c, n) /\ ~InLog(c, n)
      BY <2>1, <2>4, <3>3 DEF OnceInv
    <3>6. ~InFlight(c, n)' /\ ~InInbox(c, n)' /\ ~InPending(c, n)'
      BY <1>2, <3>5 DEF InFlight, InInbox, InPending
    <3>7. \A i, j \in Replies(c)' : log'[c][i].seq = n /\ log'[c][j].seq = n => i = j
      BY <1>8, <3>5 DEF InLog
    <3> QED BY <2>4, <3>4, <3>6, <3>7 DEF OnceInv, InFlight, InInbox, InPending, InReplies
  <2> QED BY <2>2, <2>3, <2>4
<1>10. ServerInv' /\ \A d \in Clients : HeardInv(d)'
  BY <1>2, ServerUntouched
<1> QED BY <1>4, <1>6, <1>7, <1>9, <1>10 DEF IInv

LEMMA TimedOutStep ==
    ASSUME IInv, NEW c \in Clients, TimedOut(c), UNCHANGED <<serverVars, history>>
    PROVE  IInv'
<1>1. PICK o : o = [kind |-> "timeout", seq |-> seq[c], rtt |-> 0, at |-> now]
  OBVIOUS
<1>2. cpc[c] = "wait" /\ EndRound(c, o) /\ replies' = replies
  BY <1>1 DEF TimedOut
<1>3. o \in Outcomes /\ o.kind # "reply" /\ o.at = now
  BY <1>1 DEF IInv, TypeOK, Outcomes
<1> QED BY <1>2, <1>3, RoundStep

LEMMA ReplyStep ==
    ASSUME IInv, NEW c \in Clients, Reply(c), UNCHANGED <<serverVars, history>>
    PROVE  IInv'
<1>1. PICK y : y = Head(replies[c])
  OBVIOUS
<1>2. PICK o : o = IF y = Malformed
                   THEN [kind |-> "malformed", seq |-> seq[c], rtt |-> 0, at |-> now]
                   ELSE [kind |-> "reply", seq |-> y.seq, rtt |-> Rtt(c, y), at |-> now]
  OBVIOUS
<1>3. /\ cpc[c] = "wait" /\ replies[c] # <<>> /\ EndRound(c, o)
      /\ replies' = [replies EXCEPT ![c] = Tail(replies[c])]
  BY <1>1, <1>2 DEF Reply
<1>4. now \in Nat /\ seq[c] \in 1..Count
  BY DEF IInv, TypeOK
<1>5. y # Malformed => y.seq \in 1..Count /\ now - y.ts \in Nat
  <2> SUFFICES ASSUME y # Malformed PROVE y.seq \in 1..Count /\ now - y.ts \in Nat
    OBVIOUS
  <2>1. y \in Payload /\ Genuine(c, y)
    BY <1>1, <1>3, FirstReply
  <2>2. y.ts \in Nat /\ y.ts <= now /\ y.seq \in 1..Count
    BY <2>1 DEF Payload, Genuine
  <2> QED BY <1>4, <2>2
<1>6. /\ o \in Outcomes /\ o.at = now
      /\ o.kind = "reply" => y # Malformed /\ o.seq = y.seq /\ o.rtt = now - y.ts
  BY <1>2, <1>4, <1>5 DEF Outcomes, Rtt
<1> QED BY <1>1, <1>3, <1>6, RoundStep

LEMMA AwakeStep ==
    ASSUME IInv, NEW c \in Clients, Awake(c), UNCHANGED <<serverVars, history>>
    PROVE  IInv'
<1>1. /\ TypeOK /\ PayloadInv /\ \A d \in Clients : ClientInv(d) /\ SampleInv(d)
      /\ \A d \in Clients, n \in 1..Count : OnceInv(d, n)
  BY DEF IInv
<1>2. /\ cpc[c] = "sleep" /\ now >= until[c] /\ now \in Nat /\ until[c] \in Nat
      /\ seq[c] \in 1..Count /\ Len(log[c]) = seq[c]
      /\ seq[c] < Count /\ until[c] = SentAt(c, seq[c] + 1) /\ now <= until[c]
  BY <1>1 DEF Awake, ClientInv, TypeOK
<1>3. /\ cpc' = [cpc EXCEPT ![c] = "send"] /\ seq' = [seq EXCEPT ![c] = seq[c] + 1]
      /\ UNCHANGED <<until, log, now, flight, inbox, replies, serverVars, history>>
  <2>1. /\ cpc' = [cpc EXCEPT ![c] = IF seq[c] = Count THEN "done" ELSE "send"]
        /\ seq' = [seq EXCEPT ![c] = IF seq[c] = Count THEN seq[c] ELSE seq[c] + 1]
        /\ UNCHANGED <<until, log, now, flight, inbox, replies, serverVars, history>>
    BY DEF Awake, netVars
  <2>2. seq[c] # Count
    BY <1>2
  <2> QED BY <2>1, <2>2
<1>4. /\ cpc'[c] = "send" /\ seq'[c] = seq[c] + 1 /\ seq[c] + 1 \in 1..Count
      /\ \A d \in Clients \ {c} : cpc'[d] = cpc[d] /\ seq'[d] = seq[d]
      /\ cpc' \in [Clients -> {"send", "wait", "sleep", "done"}] /\ seq' \in [Clients -> 1..Count]
  BY <1>1, <1>2, <1>3 DEF TypeOK
<1>5. TypeOK'
  BY <1>1, <1>3, <1>4 DEF TypeOK, serverVars, history
<1>6. ASSUME NEW d \in Clients, NEW n \in Sent(d)
      PROVE  n \in Sent(d)' /\ SentAt(d, n)' = SentAt(d, n)
  <2>1. SentAt(d, n)' = SentAt(d, n)
    BY <1>3 DEF SentAt
  <2>2. CASE d = c
    BY <1>2, <1>4, <1>6, <2>1, <2>2 DEF Sent
  <2>3. CASE d # c
    BY <1>4, <1>6, <2>1, <2>3 DEF Sent
  <2> QED BY <2>2, <2>3
<1>7. Kept
  BY <1>2, <1>3, <1>6 DEF Kept
<1>8. ASSUME NEW d \in Clients PROVE ClientInv(d)' /\ SampleInv(d)'
  <2>1. SampleInv(d)'
    BY <1>1, <1>3, <1>7, SamplesKept
  <2>2. CASE d = c
    <3>1. Len(log[c]) = (seq[c] + 1) - 1 /\ now = SentAt(c, seq[c] + 1)
      BY <1>2
    <3> QED BY <1>3, <1>4, <2>1, <2>2, <3>1 DEF ClientInv, SentAt
  <2>3. CASE d # c
    <3>1. ClientInv(d) /\ cpc'[d] = cpc[d] /\ seq'[d] = seq[d]
      BY <1>1, <1>4, <2>3
    <3> QED BY <1>3, <2>1, <3>1 DEF ClientInv, SentAt
  <2> QED BY <2>2, <2>3
<1>9. pending' = pending
  BY <1>3 DEF serverVars
<1>10. PayloadInv'
  BY <1>1, <1>3, <1>5, <1>7, <1>9, PayloadsStay
<1>11. ASSUME NEW d \in Clients, NEW n \in 1..Count PROVE OnceInv(d, n)'
  <2>1. /\ OnceInv(d, n) /\ inbox' = inbox /\ inbox' \in Seq(Packets) /\ replies'[d] = replies[d]
        /\ replies'[d] \in Seq(Payload \cup {Malformed}) /\ Replies(d)' = Replies(d)
    BY <1>1, <1>3, <1>5 DEF TypeOK, Replies
  <2> QED BY <1>1, <1>3, <1>9, <2>1, OnceStays
<1>12. ServerInv' /\ \A d \in Clients : HeardInv(d)'
  BY <1>3, ServerUntouched
<1> QED BY <1>5, <1>8, <1>10, <1>11, <1>12 DEF IInv

-----------------------------------------------------------------------------
(* The steps of the server. *)

LEMMA ClientsUntouched ==
    ASSUME IInv, UNCHANGED <<now, clientVars>>
    PROVE  Kept /\ \A c \in Clients : ClientInv(c)' /\ SampleInv(c)'
<1>1. TypeOK /\ now' = now /\ now \in Nat /\ \A c \in Clients : ClientInv(c) /\ SampleInv(c)
  BY DEF IInv, TypeOK
<1>2. Kept
  BY <1>1, KeptOthers
<1>3. \A c \in Clients : SampleInv(c)'
  BY <1>1, <1>2, SamplesKept DEF clientVars
<1>4. \A c \in Clients : ClientInv(c)'
  BY <1>1 DEF ClientInv, SentAt, clientVars
<1> QED BY <1>2, <1>3, <1>4

(* A table of clients, none of which is reported too early. *)
Table(t) ==
    /\ DOMAIN t \subseteq Clients /\ t \in [DOMAIN t -> Infos]
    /\ \A c \in DOMAIN t :
          /\ t[c].last_seen <= now
          /\ t[c].dead_reported => now - t[c].last_seen > Second * HeartbeatTimeout

LEMMA RoundOfServer ==
    ASSUME now \in Nat, NEW t, Table(t), NextRound(t), now' = now
    PROVE  /\ DOMAIN clients' = DOMAIN t /\ clients' \in [DOMAIN clients' -> Infos]
           /\ \A c \in DOMAIN t : clients'[c].last_seen = t[c].last_seen
           /\ wake' \in Nat /\ ServerInv'
<1>1. spc' = "recv" /\ wake' = now + Second /\ clients' = Checked(t)
  BY DEF NextRound
<1>2. /\ \A c \in DOMAIN t : t[c] \in Infos /\ t[c].last_seen \in Nat /\ t[c].dead_reported \in BOOLEAN
      /\ HeartbeatTimeout \in Nat
  BY Numbers DEF Table, Infos
<1>3. CASE HeartbeatTimeout = 0
  <2>1. clients' = t
    BY <1>1, <1>3 DEF Checked
  <2> QED BY <1>1, <1>2, <1>3, <2>1, Seconds DEF ServerInv, Table
<1>4. CASE HeartbeatTimeout # 0
  <2>1. /\ DOMAIN clients' = DOMAIN t
        /\ \A c \in DOMAIN t : clients'[c] = [t[c] EXCEPT !.dead_reported = @ \/ Silent(t[c])]
    BY <1>1, <1>4 DEF Checked
  <2>2. \A c \in DOMAIN t : Silent(t[c]) \in BOOLEAN
    BY DEF Silent
  <2>3. \A c \in DOMAIN t : /\ clients'[c] \in Infos
                            /\ clients'[c].last_seen = t[c].last_seen
                            /\ clients'[c].dead_reported = (t[c].dead_reported \/ Silent(t[c]))
    BY <1>2, <2>1, <2>2 DEF Infos
  <2>4. clients' \in [DOMAIN clients' -> Infos]
    <3>1. clients' = [c \in DOMAIN t |-> clients'[c]]
      BY <1>1, <1>4, <2>1 DEF Checked
    <3> QED BY <2>1, <2>3, <3>1
  <2>5. ASSUME NEW c \in DOMAIN t
        PROVE  /\ Silent(t[c]) => now - t[c].last_seen >= Second * HeartbeatTimeout + Second
               /\ ~Silent(t[c]) => now - t[c].last_seen < Second * HeartbeatTimeout + Second
    <3>1. PICK k \in Nat : k = now - t[c].last_seen
      BY <1>2 DEF Table
    <3>2. /\ k \div Second > HeartbeatTimeout => k >= Second * HeartbeatTimeout + Second
          /\ ~(k \div Second > HeartbeatTimeout) => k < Second * HeartbeatTimeout + Second
      BY <1>2, <3>1, SecondAssumption, WholeSeconds
    <3> QED BY <3>1, <3>2 DEF Silent
  <2>6. now' <= wake' /\ wake' \in Nat
    BY <1>1, Seconds
  <2>7. ASSUME NEW c \in DOMAIN t
        PROVE  /\ clients'[c].last_seen <= now'
               /\ HeartbeatTimeout > 0 => Watched(c)'
               /\ clients'[c].dead_reported => now' - clients'[c].last_seen > Second * HeartbeatTimeout
    <3>1. /\ clients'[c].last_seen = t[c].last_seen /\ t[c].last_seen \in Nat /\ t[c].last_seen <= now
          /\ clients'[c].dead_reported = (t[c].dead_reported \/ Silent(t[c]))
          /\ t[c].dead_reported => now - t[c].last_seen > Second * HeartbeatTimeout
      BY <1>2, <2>3 DEF Table
    <3>2. PICK k, n : k = t[c].last_seen /\ n = Second * HeartbeatTimeout
      OBVIOUS
    <3>3. /\ k \in Nat /\ n \in Nat /\ Second \in Nat /\ Second > 0
          /\ ReportWithin = n + Second + Second
      BY <3>1, <3>2, Seconds
    <3>4. clients'[c].dead_reported => now - k > n
      <4>1. t[c].dead_reported => now - k > n
        BY <3>1, <3>2
      <4>2. Silent(t[c]) => now - k >= n + Second
        BY <2>5, <3>2
      <4>3. now - k >= n + Second => now - k > n
        BY <3>3
      <4> QED BY <3>1, <4>1, <4>2, <4>3
    <3>5. ~clients'[c].dead_reported => now - k < n + Second
      BY <2>5, <3>1, <3>2
    <3>6. ~clients'[c].dead_reported => wake' - clients'[c].last_seen < ReportWithin + 0
      BY <1>1, <3>1, <3>2, <3>3, <3>5
    <3>7. Watched(c)'
      BY <1>1, <3>6 DEF Watched
    <3> QED BY <3>1, <3>2, <3>4, <3>7
  <2>8. ServerInv'
    BY <2>1, <2>6, <2>7 DEF ServerInv
  <2> QED BY <2>1, <2>3, <2>4, <2>6, <2>8
<1> QED BY <1>3, <1>4

LEMMA TableIs == ASSUME IInv PROVE Table(clients)
  BY DEF IInv, TypeOK, ServerInv, Table

LEMMA RecvTimeoutStep ==
    ASSUME IInv, RecvTimeout, UNCHANGED <<clientVars, history>>
    PROVE  IInv'
<1>1. /\ TypeOK /\ PayloadInv /\ \A c \in Clients : HeardInv(c)
      /\ \A c \in Clients, n \in 1..Count : OnceInv(c, n)
  BY DEF IInv
<1>2. /\ spc = "recv" /\ NextRound(clients) /\ UNCHANGED <<now, flight, inbox, replies, delay>>
      /\ UNCHANGED <<clientVars, history>>
  BY DEF RecvTimeout, AfterTimeout, netVars
<1>3. spc' = "recv" /\ pending' = {} /\ now \in Nat
  BY <1>1, <1>2 DEF NextRound, TypeOK
<1>4. /\ DOMAIN clients' = DOMAIN clients /\ clients' \in [DOMAIN clients' -> Infos]
      /\ \A c \in DOMAIN clients : clients'[c].last_seen = clients[c].last_seen
      /\ wake' \in Nat /\ ServerInv'
  BY <1>2, <1>3, TableIs, RoundOfServer
<1>5. TypeOK'
  BY <1>1, <1>2, <1>3, <1>4 DEF TypeOK, clientVars, history
<1>6. Kept /\ \A c \in Clients : ClientInv(c)' /\ SampleInv(c)'
  BY <1>2, ClientsUntouched
<1>7. PayloadInv'
  BY <1>1, <1>2, <1>3, <1>5, <1>6, PayloadsStay
<1>8. ASSUME NEW c \in Clients, NEW n \in 1..Count PROVE OnceInv(c, n)'
  <2>1. /\ OnceInv(c, n) /\ inbox' = inbox /\ inbox' \in Seq(Packets) /\ replies'[c] = replies[c]
        /\ replies'[c] \in Seq(Payload \cup {Malformed}) /\ Replies(c)' = Replies(c) /\ log' = log
    BY <1>1, <1>2, <1>5 DEF TypeOK, Replies, clientVars
  <2> QED BY <1>1, <1>2, <1>3, <2>1, OnceStays
<1>9. \A c \in Clients : HeardInv(c)'
  BY <1>1, <1>2, <1>4 DEF HeardInv, history, ToSet
<1> QED BY <1>4, <1>5, <1>6, <1>7, <1>8, <1>9 DEF IInv

LEMMA EchoStep ==
    ASSUME IInv, Echo, UNCHANGED <<clientVars, history>>
    PROVE  IInv'
<1>1. /\ TypeOK /\ PayloadInv /\ \A c \in Clients : HeardInv(c)
      /\ \A c \in Clients, n \in 1..Count : OnceInv(c, n)
  BY DEF IInv
<1>2. /\ spc = "delay" /\ NextRound(clients) /\ UNCHANGED <<now, inbox, replies, delay>>
      /\ UNCHANGED <<clientVars, history>>
      /\ \E p \in pending : Send(p)
  BY DEF Echo
<1>3. PICK p \in pending : flight' = flight \cup {p} \/ flight' = flight
  BY <1>2 DEF Send
<1>4. spc' = "recv" /\ pending' = {} /\ now \in Nat /\ p \in Packets
  BY <1>1, <1>2 DEF NextRound, TypeOK
<1>5. /\ DOMAIN clients' = DOMAIN clients /\ clients' \in [DOMAIN clients' -> Infos]
      /\ \A c \in DOMAIN clients : clients'[c].last_seen = clients[c].last_seen
      /\ wake' \in Nat /\ ServerInv'
  BY <1>2, <1>4, TableIs, RoundOfServer
<1>6. TypeOK'
  <2>1. flight' \subseteq Packets
    BY <1>1, <1>3, <1>4 DEF TypeOK
  <2> QED BY <1>1, <1>2, <1>4, <1>5, <2>1 DEF TypeOK, clientVars, history
<1>7. Kept /\ \A c \in Clients : ClientInv(c)' /\ SampleInv(c)'
  BY <1>2, ClientsUntouched
<1>8. PayloadInv'
  BY <1>1, <1>2, <1>3, <1>4, <1>6, <1>7, PayloadsStay
<1>9. ASSUME NEW c \in Clients, NEW n \in 1..Count PROVE OnceInv(c, n)'
  <2>1. /\ OnceInv(c, n) /\ inbox' = inbox /\ inbox' \in Seq(Packets) /\ replies' = replies
        /\ replies'[c] \in Seq(Payload \cup {Malformed}) /\ Replies(c)' = Replies(c) /\ log' = log
    BY <1>1, <1>2, <1>6 DEF TypeOK, Replies, clientVars
  <2>2. CASE ~Carries(p, c, n)
    <3>1. \A q \in flight' : Carries(q, c, n) => q \in flight
      BY <1>3, <2>2
    <3>2. \A q \in pending' : Carries(q, c, n) => q \in pending
      BY <1>4
    <3> QED BY <1>1, <2>1, <3>1, <3>2, OnceStays
  <2>3. CASE Carries(p, c, n)
    <3>1. InPending(c, n)
      BY <2>3 DEF InPending
    <3>2. ~InFlight(c, n) /\ ~InInbox(c, n) /\ ~InReplies(c, n) /\ ~InLog(c, n)
      BY <2>1, <3>1 DEF OnceInv
    <3>3. ~InInbox(c, n)' /\ ~InPending(c, n)' /\ ~InReplies(c, n)' /\ ~InLog(c, n)'
      BY <1>4, <2>1, <3>2 DEF InInbox, InPending, InReplies, InLog
    <3>4. \A q, r \in flight' : Carries(q, c, n) /\ Carries(r, c, n) => q = r
      BY <1>3, <3>2 DEF InFlight
    <3> QED BY <3>3, <3>4 DEF OnceInv, InInbox, InPending, InReplies, InLog
  <2> QED BY <2>2, <2>3
<1>10. \A c \in Clients : HeardInv(c)'
  BY <1>1, <1>2, <1>5 DEF HeardInv, history, ToSet
<1> QED BY <1>5, <1>6, <1>7, <1>8, <1>9, <1>10 DEF IInv

LEMMA SeenTable ==
    ASSUME IInv, NEW c \in Clients
    PROVE  /\ Table(Seen(c)) /\ DOMAIN Seen(c) = DOMAIN clients \cup {c}
           /\ Seen(c)[c] = [last_seen |-> now, dead_reported |-> FALSE]
           /\ \A d \in DOMAIN clients \ {c} : Seen(c)[d] = clients[d]
<1>1. /\ Table(clients) /\ now \in Nat
  <2>1. Table(clients)
    BY TableIs
  <2> QED BY <2>1 DEF IInv, TypeOK
<1>2. /\ DOMAIN Seen(c) = DOMAIN clients \cup {c}
      /\ Seen(c)[c] = [last_seen |-> now, dead_reported |-> FALSE]
      /\ \A d \in DOMAIN clients \ {c} : Seen(c)[d] = clients[d]
  BY DEF Seen
<1>3. \A d \in DOMAIN Seen(c) : Seen(c)[d] \in Infos
  <2>1. Seen(c)[c] \in Infos
    BY <1>1, <1>2 DEF Infos
  <2>2. \A d \in DOMAIN clients : clients[d] \in Infos
    BY <1>1 DEF Table
  <2> QED BY <1>2, <2>1, <2>2
<1>4. Seen(c) \in [DOMAIN Seen(c) -> Infos]
  <2>1. Seen(c) = [d \in DOMAIN Seen(c) |-> Seen(c)[d]]
    BY <1>2 DEF Seen
  <2> QED BY <1>3, <2>1
<1>5. \A d \in DOMAIN Seen(c) :
         /\ Seen(c)[d].last_seen <= now
         /\ Seen(c)[d].dead_reported => now - Seen(c)[d].last_seen > Second * HeartbeatTimeout
  BY <1>1, <1>2 DEF Table
<1>6. DOMAIN Seen(c) \subseteq Clients
  BY <1>1, <1>2 DEF Table
<1> QED BY <1>2, <1>4, <1>5, <1>6 DEF Table

(* The table after a datagram of c, checked or not yet. *)
LEMMA TableAfter ==
    ASSUME IInv, NEW c \in Clients, spc = "recv", UNCHANGED <<now, delay>>,
           \/ NextRound(Seen(c))
           \/ spc' = "delay" /\ wake' = now + delay /\ clients' = Seen(c)
    PROVE  /\ DOMAIN clients' = DOMAIN clients \cup {c} /\ clients' \in [DOMAIN clients' -> Infos]
           /\ \A d \in DOMAIN clients \ {c} : clients'[d].last_seen = clients[d].last_seen
           /\ clients'[c].last_seen = now
           /\ wake' \in Nat /\ ServerInv'
<1>1. PICK t : t = Seen(c)
  OBVIOUS
<1>2. /\ Table(t) /\ DOMAIN t = DOMAIN clients \cup {c}
      /\ t[c] = [last_seen |-> now, dead_reported |-> FALSE]
      /\ \A d \in DOMAIN clients \ {c} : t[d] = clients[d]
  BY <1>1, SeenTable
<1>3. /\ TypeOK /\ ServerInv
      /\ now \in Nat /\ delay \in Nat /\ wake \in Nat /\ HeartbeatTimeout \in Nat
  <2>1. TypeOK /\ ServerInv
    BY DEF IInv
  <2>2. now \in Nat /\ delay \in Delays /\ wake \in Nat
    BY <2>1 DEF TypeOK
  <2> QED BY <2>1, <2>2, Numbers
<1>4. CASE NextRound(Seen(c))
  BY <1>1, <1>2, <1>3, <1>4, RoundOfServer
<1>5. CASE spc' = "delay" /\ wake' = now + delay /\ clients' = Seen(c)
  <2>1. clients' = t /\ now' = now /\ delay' = delay /\ wake' = now + delay /\ wake' \in Nat
    BY <1>1, <1>3, <1>5
  <2>2. ASSUME NEW d \in DOMAIN t, HeartbeatTimeout > 0, ~t[d].dead_reported
        PROVE  wake' - t[d].last_seen < ReportWithin + delay
    <3>1. CASE d = c
      BY <1>2, <1>3, <2>1, <3>1, Seconds
    <3>2. CASE d # c
      <4>1. d \in DOMAIN clients /\ t[d] = clients[d] /\ t[d].last_seen \in Nat /\ now <= wake
        BY <1>2, <1>3, <3>2 DEF Table, Infos, ServerInv
      <4>2. Watched(d)
        BY <1>3, <2>2, <4>1 DEF ServerInv
      <4>3. wake - t[d].last_seen < ReportWithin + 0
        BY <2>2, <4>1, <4>2 DEF Watched
      <4> QED BY <1>3, <2>1, <4>1, <4>3, Seconds
    <3> QED BY <3>1, <3>2
  <2>3. \A d \in DOMAIN t : HeartbeatTimeout > 0 => Watched(d)'
    BY <1>5, <2>1, <2>2 DEF Watched
  <2>4. ServerInv'
    BY <1>2, <1>3, <2>1, <2>3 DEF ServerInv, Table
  <2> QED BY <1>2, <2>1, <2>4 DEF Table
<1> QED BY <1>4, <1>5

LEMMA RecvPacketStep ==
    ASSUME IInv, RecvPacket, UNCHANGED <<clientVars, history>>
    PROVE  IInv'
<1>1. /\ TypeOK /\ PayloadInv /\ \A c \in Clients : HeardInv(c)
      /\ \A c \in Clients, n \in 1..Count : OnceInv(c, n)
  BY DEF IInv
<1>2. PICK p : p = Head(inbox)
  OBVIOUS
<1>3. PICK e : e = ToClient(p.client, p.payload)
  OBVIOUS
<1>4. PICK a : a = p.client
  OBVIOUS
<1>5. /\ inbox # <<>> /\ inbox \in Seq(Packets) /\ spc = "recv" /\ pending = {} /\ now \in Nat
  BY <1>1 DEF RecvPacket, TypeOK
<1>6. /\ p \in Packets /\ p \in ToSet(inbox) /\ Tail(inbox) \in Seq(Packets)
      /\ ToSet(inbox) = {p} \cup ToSet(Tail(inbox))
  BY <1>2, <1>5, Dequeued
<1>7. /\ e \in Packets /\ e.client = p.client /\ e.payload = p.payload /\ a \in Clients
      /\ \A c \in Clients, n \in 1..Count : Carries(e, c, n) <=> Carries(p, c, n)
  BY <1>3, <1>4, <1>6 DEF Packets, ToClient, Carries
<1>8. /\ inbox' = Tail(inbox) /\ UNCHANGED <<now, replies, delay, clientVars, history>>
      /\ \/ NextRound(Seen(a)) /\ flight' = flight
         \/ Send(e) /\ NextRound(Seen(a))
         \/ delay > 0 /\ spc' = "delay" /\ wake' = now + delay /\ pending' = {e}
            /\ clients' = Seen(a) /\ flight' = flight
  BY <1>2, <1>3, <1>4 DEF RecvPacket
<1>9. /\ flight' \subseteq flight \cup {e} /\ pending' \subseteq {e}
      /\ flight' = flight \/ pending' = {}
      /\ spc' \in {"recv", "delay"} /\ (spc' = "delay" <=> pending' # {})
  BY <1>8 DEF NextRound, Send
<1>10. /\ DOMAIN clients' = DOMAIN clients \cup {a} /\ clients' \in [DOMAIN clients' -> Infos]
       /\ \A d \in DOMAIN clients \ {a} : clients'[d].last_seen = clients[d].last_seen
       /\ clients'[a].last_seen = now
       /\ wake' \in Nat /\ ServerInv'
  BY <1>5, <1>7, <1>8, TableAfter
<1>11. TypeOK'
  <2>1. /\ flight' \subseteq Packets /\ pending' \subseteq Packets /\ \A q, r \in pending' : q = r
        /\ DOMAIN clients' \subseteq Clients /\ inbox' \in Seq(Packets)
    BY <1>1, <1>6, <1>7, <1>8, <1>9, <1>10 DEF TypeOK
  <2> QED BY <1>1, <1>8, <1>9, <1>10, <2>1 DEF TypeOK, clientVars, history
<1>12. Kept /\ \A c \in Clients : ClientInv(c)' /\ SampleInv(c)'
  BY <1>8, ClientsUntouched
<1>13. PayloadInv'
  BY <1>1, <1>6, <1>7, <1>8, <1>9, <1>11, <1>12, PayloadsStay
<1>14. ASSUME NEW c \in Clients, NEW n \in 1..Count PROVE OnceInv(c, n)'
  <2>1. /\ OnceInv(c, n) /\ inbox' = Tail(inbox) /\ inbox' \in Seq(Packets) /\ replies' = replies
        /\ replies'[c] \in Seq(Payload \cup {Malformed}) /\ Replies(c)' = Replies(c) /\ log' = log
    BY <1>1, <1>8, <1>11 DEF TypeOK, Replies, clientVars
  <2>2. CASE ~Carries(p, c, n)
    <3>1. /\ \A q \in flight' : Carries(q, c, n) => q \in flight
          /\ \A q \in pending' : Carries(q, c, n) => q \in pending
      BY <1>7, <1>9, <2>2
    <3> QED BY <1>1, <1>5, <2>1, <3>1, OnceStays
  <2>3. CASE Carries(p, c, n)
    <3>1. Head(inbox) \in Pings(c, n)
      BY <1>2, <1>6, <2>3 DEF Pings
    <3>2. /\ OnceAt(inbox, Pings(c, n)) => ~SomeAt(inbox', Pings(c, n))
          /\ SomeAt(inbox, Pings(c, n))
      BY <1>5, <2>1, <3>1, TakenOut
    <3>3. InInbox(c, n)
      BY <1>5, <3>2, InboxForm DEF InInbox
    <3>4. OnceAt(inbox, Pings(c, n))
      BY <1>5, <2>1, InboxForm DEF OnceInv
    <3>5. ~InInbox(c, n)'
      BY <2>1, <3>2, <3>4, InboxForm DEF InInbox
    <3>6. ~InFlight(c, n) /\ ~InReplies(c, n) /\ ~InLog(c, n)
      BY <2>1, <3>3 DEF OnceInv
    <3>7. ~InReplies(c, n)' /\ ~InLog(c, n)'
      BY <2>1, <3>6 DEF InReplies, InLog
    <3>8. /\ \A q, r \in flight' : Carries(q, c, n) /\ Carries(r, c, n) => q = r
          /\ ~InFlight(c, n)' \/ ~InPending(c, n)'
      BY <1>9, <3>6 DEF InFlight, InPending
    <3> QED BY <3>5, <3>7, <3>8 DEF OnceInv, InInbox, InReplies, InLog
  <2> QED BY <2>2, <2>3
<1>15. ASSUME NEW c \in Clients PROVE HeardInv(c)'
  <2> SUFFICES ASSUME NEW t \in arrivals[c]
               PROVE  /\ t <= now
                      /\ \/ \E q \in ToSet(inbox') : q.client = c
                         \/ c \in DOMAIN clients' /\ t <= clients'[c].last_seen
    BY <1>8 DEF HeardInv, history
  <2>1. /\ t <= now
        /\ \/ \E q \in ToSet(inbox) : q.client = c
           \/ c \in DOMAIN clients /\ t <= clients[c].last_seen
    BY <1>1 DEF HeardInv
  <2>2. CASE c = a
    BY <1>10, <2>1, <2>2
  <2>3. CASE c # a
    BY <1>4, <1>6, <1>8, <1>10, <2>1, <2>3
  <2> QED BY <2>2, <2>3
<1> QED BY <1>10, <1>11, <1>12, <1>13, <1>14, <1>15 DEF IInv

-----------------------------------------------------------------------------
(* The steps of the network and of the clock. *)

LEMMA DeliverStep == ASSUME IInv, Deliver PROVE IInv'
<1>1. /\ TypeOK /\ PayloadInv /\ ServerInv /\ \A c \in Clients : HeardInv(c)
      /\ \A c \in Clients, n \in 1..Count : OnceInv(c, n)
  BY DEF IInv
<1>2. PICK p \in flight :
         /\ flight' = flight \ {p} /\ now' = now
         /\ \/ inbox' = Append(inbox, p) /\ replies' = replies
            \/ replies' = [replies EXCEPT ![p.client] = Append(replies[p.client], p.payload)]
               /\ inbox' = inbox
  BY DEF Deliver, Arrive
<1>3. /\ arrivals' = [c \in Clients |-> IF inbox' # inbox /\ inbox'[Len(inbox')].client = c
                                        THEN {now} ELSE arrivals[c]]
      /\ UNCHANGED <<strays, clientVars, serverVars>>
  BY DEF Deliver
<1>4. /\ inbox \in Seq(Packets) /\ replies \in [Clients -> Seq(Payload \cup {Malformed})]
      /\ now \in Nat /\ now \in 0..MaxTime
      /\ arrivals \in [Clients -> SUBSET (0..MaxTime)]
  BY <1>1, Numbers, SMTT(30) DEF TypeOK
<1>5. PICK a, y : a = p.client /\ y = p.payload
  OBVIOUS
<1>6. p \in Packets /\ a \in Clients /\ y \in Payload
  BY <1>1, <1>5 DEF TypeOK, Packets
<1>7. /\ Append(inbox, p) \in Seq(Packets) /\ ToSet(Append(inbox, p)) = ToSet(inbox) \cup {p}
      /\ Append(inbox, p)[Len(Append(inbox, p))] = p
  BY <1>4, <1>6, Enqueued
<1>8. /\ Append(replies[a], y) \in Seq(Payload \cup {Malformed})
      /\ ToSet(Append(replies[a], y)) = ToSet(replies[a]) \cup {y}
  <2> DEFINE S == Payload \cup {Malformed}
             s == replies[a]
  <2>1. s \in Seq(S) /\ y \in S
    BY <1>4, <1>6
  <2> HIDE DEF S, s
  <2>2. Append(s, y) \in Seq(S) /\ ToSet(Append(s, y)) = ToSet(s) \cup {y}
    BY <2>1, Enqueued
  <2> QED BY <2>2 DEF S, s
<1>9. \/ inbox' = Append(inbox, p) /\ replies' = replies
      \/ /\ inbox' = inbox /\ replies'[a] = Append(replies[a], y)
         /\ replies' \in [Clients -> Seq(Payload \cup {Malformed})]
         /\ \A c \in Clients \ {a} : replies'[c] = replies[c]
  BY <1>2, <1>4, <1>5, <1>6, <1>8
<1>10. /\ replies' \in [Clients -> Seq(Payload \cup {Malformed})] /\ inbox' \in Seq(Packets)
       /\ flight' \subseteq Packets
  BY <1>1, <1>2, <1>4, <1>7, <1>9 DEF TypeOK
<1>11. arrivals' \in [Clients -> SUBSET (0..MaxTime)]
  <2>1. \A c \in Clients : (IF inbox' # inbox /\ inbox'[Len(inbox')].client = c
                            THEN {now} ELSE arrivals[c]) \in SUBSET (0..MaxTime)
    BY <1>4
  <2> QED BY <1>3, <2>1
<1>12. TypeOK'
  BY <1>1, <1>2, <1>3, <1>10, <1>11 DEF TypeOK, clientVars, serverVars
<1>13. Kept /\ \A c \in Clients : ClientInv(c)' /\ SampleInv(c)'
  BY <1>2, <1>3, ClientsUntouched
<1>14. PayloadInv'
  <2>1. \A q \in flight' \cup pending' \cup ToSet(inbox') : q \in flight \cup pending \cup ToSet(inbox)
    BY <1>2, <1>3, <1>7, <1>9 DEF serverVars
  <2>2. \A c \in Clients : \A x \in ToSet(replies'[c]) : x \in ToSet(replies[c]) \/ (c = a /\ x = y)
    BY <1>8, <1>9
  <2> QED BY <1>1, <1>2, <1>5, <1>12, <1>13, <2>1, <2>2, PayloadsStay
<1>15. ServerInv'
  BY <1>1, <1>2, <1>3 DEF ServerInv, Watched, serverVars
<1>16. ASSUME NEW c \in Clients PROVE HeardInv(c)'
  <2> SUFFICES ASSUME NEW t \in arrivals'[c]
               PROVE  /\ t <= now
                      /\ \/ \E q \in ToSet(inbox') : q.client = c
                         \/ c \in DOMAIN clients /\ t <= clients[c].last_seen
    BY <1>2, <1>3 DEF HeardInv, serverVars
  <2>1. CASE t \in arrivals[c]
    <3>1. /\ t <= now
          /\ \/ \E q \in ToSet(inbox) : q.client = c
             \/ c \in DOMAIN clients /\ t <= clients[c].last_seen
      BY <1>1, <2>1 DEF HeardInv
    <3>2. \A q \in ToSet(inbox) : q \in ToSet(inbox')
      BY <1>7, <1>9
    <3> QED BY <3>1, <3>2
  <2>2. CASE inbox' # inbox /\ inbox'[Len(inbox')].client = c /\ t = now
    <3>1. inbox' = Append(inbox, p)
      BY <1>9, <2>2
    <3>2. p \in ToSet(inbox') /\ p.client = c
      BY <1>7, <2>2, <3>1
    <3> QED BY <1>4, <2>2, <3>2
  <2> QED BY <1>3, <2>1, <2>2
<1>17. ASSUME NEW c \in Clients, NEW n \in 1..Count PROVE OnceInv(c, n)'
  <2>1. /\ OnceInv(c, n) /\ pending' = pending /\ inbox' \in Seq(Packets)
        /\ replies'[c] \in Seq(Payload \cup {Malformed}) /\ Replies(c)' = Replies(c) /\ log' = log
    BY <1>1, <1>3, <1>12 DEF TypeOK, Replies, clientVars, serverVars
  <2>2. \A q \in flight' : q \in flight /\ q # p
    BY <1>2
  <2>3. Carries(p, c, n) <=> c = a /\ y.seq = n
    BY <1>5 DEF Carries
  <2>4. CASE ~Carries(p, c, n)
    <3>1. \/ inbox' = inbox
          \/ \E q \in Packets : ~Carries(q, c, n) /\ inbox' = Append(inbox, q)
      BY <1>6, <1>9, <2>4
    <3>2. \/ replies'[c] = replies[c]
          \/ \E payload \in Payload \cup {Malformed} :
                payload.seq # n /\ replies'[c] = Append(replies[c], payload)
      BY <1>6, <1>9, <2>3, <2>4
    <3> QED BY <1>1, <2>1, <2>2, <3>1, <3>2, OnceStays
  <2>5. CASE Carries(p, c, n)
    <3>1. InFlight(c, n)
      BY <2>5 DEF InFlight
    <3>2. ~InInbox(c, n) /\ ~InPending(c, n) /\ ~InReplies(c, n) /\ ~InLog(c, n)
      BY <2>1, <3>1 DEF OnceInv
    <3>3. ~InPending(c, n)' /\ ~InLog(c, n)'
      BY <2>1, <3>2 DEF InPending, InLog
    <3>4. ~InFlight(c, n)'
      BY <2>1, <2>2, <2>5 DEF InFlight, OnceInv
    <3>5. CASE inbox' = Append(inbox, p) /\ replies' = replies
      <4>1. ~InReplies(c, n)'
        BY <3>2, <3>5 DEF InReplies
      <4>2. ~SomeAt(inbox, Pings(c, n))
        BY <1>4, <3>2, InboxForm DEF InInbox
      <4>3. OnceAt(inbox, Pings(c, n))
        BY <4>2 DEF OnceAt, SomeAt
      <4>4. OnceAt(inbox', Pings(c, n))
        BY <1>4, <1>6, <3>5, <4>2, <4>3, PutIn
      <4>5. \A i, j \in 1..Len(inbox)' : Carries(inbox'[i], c, n) /\ Carries(inbox'[j], c, n) => i = j
        BY <2>1, <4>4, InboxForm
      <4> QED BY <3>3, <3>4, <4>1, <4>5 DEF OnceInv, InFlight, InPending, InReplies, InLog
    <3>6. CASE inbox' = inbox /\ replies'[a] = Append(replies[a], y)
      <4>1. ~InInbox(c, n)'
        BY <3>2, <3>6 DEF InInbox
      <4>2. replies[c] \in Seq(Payload \cup {Malformed})
        BY <1>4
      <4>3. ~SomeAt(replies[c], Numbered(n))
        BY <3>2, <4>2, RepliesForm DEF InReplies
      <4>4. OnceAt(replies[c], Numbered(n))
        BY <4>3 DEF OnceAt, SomeAt
      <4>5. OnceAt(replies'[c], Numbered(n))
        <5> DEFINE S == Payload \cup {Malformed}
                   s == replies[c]
        <5>1. s \in Seq(S) /\ y \in S /\ ~SomeAt(s, Numbered(n)) /\ OnceAt(s, Numbered(n))
          BY <1>6, <4>2, <4>3, <4>4
        <5> HIDE DEF S, s
        <5>2. OnceAt(Append(s, y), Numbered(n))
          BY <5>1, PutIn
        <5> QED BY <2>3, <2>5, <3>6, <5>2 DEF s
      <4>6. \A i, j \in 1..Len(replies'[c]) :
               replies'[c][i].seq = n /\ replies'[c][j].seq = n => i = j
        BY <2>1, <4>5, RepliesForm
      <4> QED BY <3>3, <3>4, <4>1, <4>6 DEF OnceInv, InFlight, InInbox, InPending, InLog
    <3> QED BY <1>9, <3>5, <3>6
  <2> QED BY <2>4, <2>5
<1> QED BY <1>12, <1>13, <1>14, <1>15, <1>16, <1>17 DEF IInv

LEMMA StrayStep == ASSUME IInv, NEW c \in Clients, Stray(c) PROVE IInv'
<1>1. /\ TypeOK /\ PayloadInv /\ ServerInv /\ \A d \in Clients : HeardInv(d)
      /\ \A d \in Clients, n \in 1..Count : OnceInv(d, n)
  BY DEF IInv
<1>2. PICK y : y = Malformed
  OBVIOUS
<1>3. /\ strays < MaxStrays /\ strays' = strays + 1
      /\ replies' = [replies EXCEPT ![c] = Append(replies[c], y)]
      /\ UNCHANGED <<now, flight, inbox, arrivals, clientVars, serverVars>>
  BY <1>2 DEF Stray
<1>4. /\ Append(replies[c], y) \in Seq(Payload \cup {Malformed})
      /\ ToSet(Append(replies[c], y)) = ToSet(replies[c]) \cup {y}
  <2> DEFINE S == Payload \cup {Malformed}
             s == replies[c]
  <2>1. s \in Seq(S) /\ y \in S
    BY <1>1, <1>2 DEF TypeOK
  <2> HIDE DEF S, s
  <2>2. Append(s, y) \in Seq(S) /\ ToSet(Append(s, y)) = ToSet(s) \cup {y}
    BY <2>1, Enqueued
  <2> QED BY <2>2 DEF S, s
<1>5. /\ replies' \in [Clients -> Seq(Payload \cup {Malformed})]
      /\ replies'[c] = Append(replies[c], y)
      /\ \A d \in Clients \ {c} : replies'[d] = replies[d]
  <2>1. replies \in [Clients -> Seq(Payload \cup {Malformed})]
    BY <1>1 DEF TypeOK
  <2> QED BY <1>3, <1>4, <2>1
<1>6. TypeOK'
  <2>1. strays' \in 0..MaxStrays
    <3>1. strays \in 0..MaxStrays /\ MaxStrays \in Nat
      BY <1>1, Numbers DEF TypeOK
    <3> QED BY <1>3, <3>1
  <2> QED BY <1>1, <1>3, <1>5, <2>1 DEF TypeOK, clientVars, serverVars
<1>7. Kept /\ \A d \in Clients : ClientInv(d)' /\ SampleInv(d)'
  BY <1>3, ClientsUntouched
<1>8. PayloadInv'
  <2>1. \A q \in flight' \cup pending' \cup ToSet(inbox') : q \in flight \cup pending \cup ToSet(inbox)
    BY <1>3 DEF serverVars
  <2>2. \A d \in Clients : ToSet(replies'[d]) \subseteq ToSet(replies[d]) \cup {y}
    BY <1>4, <1>5
  <2> QED BY <1>1, <1>2, <1>6, <1>7, <2>1, <2>2, PayloadsStay
<1>9. ASSUME NEW d \in Clients, NEW n \in 1..Count PROVE OnceInv(d, n)'
  <2>1. /\ OnceInv(d, n) /\ pending' = pending /\ inbox' = inbox /\ inbox' \in Seq(Packets)
        /\ replies'[d] \in Seq(Payload \cup {Malformed}) /\ Replies(d)' = Replies(d) /\ log' = log
        /\ flight' = flight
    BY <1>1, <1>3, <1>6 DEF TypeOK, Replies, clientVars, serverVars
  <2>2. y \in Payload \cup {Malformed} /\ y.seq # n
    BY <1>2 DEF Malformed
  <2>3. replies'[d] = replies[d] \/ replies'[d] = Append(replies[d], y)
    BY <1>5
  <2> QED BY <1>1, <2>1, <2>2, <2>3, OnceStays
<1>10. ServerInv' /\ \A d \in Clients : HeardInv(d)'
  BY <1>1, <1>3 DEF ServerInv, Watched, HeardInv, serverVars, ToSet
<1> QED BY <1>6, <1>7, <1>8, <1>9, <1>10 DEF IInv

LEMMA TickStep == ASSUME IInv, Tick PROVE IInv'
<1>1. /\ TypeOK /\ PayloadInv /\ ServerInv
      /\ \A c \in Clients : ClientInv(c) /\ SampleInv(c) /\ HeardInv(c)
      /\ \A c \in Clients, n \in 1..Count : OnceInv(c, n)
  BY DEF IInv
<1>2. /\ now < MaxTime /\ now' = now + 1 /\ ServerIdle /\ \A c \in Clients : ClientIdle(c)
      /\ UNCHANGED <<flight, inbox, replies, clientVars, serverVars, history>>
  BY DEF Tick
<1>3. /\ now \in Nat /\ wake \in Nat /\ delay \in Nat /\ MaxTime \in Nat /\ HeartbeatTimeout \in Nat
      /\ \A c \in Clients : until[c] \in Nat
      /\ now \in 0..MaxTime
  BY <1>1, Numbers DEF TypeOK
<1>4. TypeOK'
  <2>1. now' \in 0..MaxTime
    BY <1>2, <1>3
  <2> QED BY <1>1, <1>2, <2>1 DEF TypeOK, clientVars, serverVars, history
<1>5. UNCHANGED clientVars /\ now' \in Nat /\ now' >= now
  BY <1>2, <1>3
<1>6. Kept
  BY <1>1, <1>5, KeptOthers
<1>7. ASSUME NEW c \in Clients PROVE ClientInv(c)' /\ SampleInv(c)' /\ HeardInv(c)'
  <2>1. SampleInv(c)'
    BY <1>1, <1>2, <1>6, SamplesKept DEF clientVars
  <2>2. cpc[c] # "send" /\ (cpc[c] = "sleep" => now + 1 <= until[c])
    BY <1>2, <1>3 DEF ClientIdle
  <2>3. ClientInv(c)'
    BY <1>1, <1>2, <2>2 DEF ClientInv, SentAt, clientVars
  <2>4. HeardInv(c)'
    <3>1. \A t \in arrivals[c] : t \in Nat
      BY <1>1 DEF TypeOK
    <3> QED BY <1>1, <1>2, <1>3, <3>1 DEF HeardInv, serverVars, history, ToSet
  <2> QED BY <2>1, <2>3, <2>4
<1>8. ServerInv'
  <2>1. now + 1 <= wake
    BY <1>2, <1>3 DEF ServerIdle
  <2>2. \A c \in DOMAIN clients : clients[c].last_seen \in Nat
    BY <1>1 DEF TypeOK, Infos
  <2>3. \A c \in DOMAIN clients :
           clients[c].dead_reported => (now + 1) - clients[c].last_seen > Second * HeartbeatTimeout
    <3> SUFFICES ASSUME NEW c \in DOMAIN clients, clients[c].dead_reported
                 PROVE  (now + 1) - clients[c].last_seen > Second * HeartbeatTimeout
      OBVIOUS
    <3>1. PICK k, n : k = clients[c].last_seen /\ n = Second * HeartbeatTimeout
      OBVIOUS
    <3>2. k \in Nat /\ n \in Nat /\ now \in Nat /\ now - k > n
      BY <1>1, <1>3, <2>2, <3>1, Seconds DEF ServerInv
    <3>3. (now + 1) - k > n
      BY <3>2
    <3> QED BY <3>1, <3>3
  <2>4. \A c \in DOMAIN clients : clients[c].last_seen <= now + 1
    <3> SUFFICES ASSUME NEW c \in DOMAIN clients PROVE clients[c].last_seen <= now + 1
      OBVIOUS
    <3>1. clients[c].last_seen <= now /\ clients[c].last_seen \in Nat /\ now \in Nat
      BY <1>1, <1>3, <2>2 DEF ServerInv
    <3>2. PICK k : k = clients[c].last_seen
      OBVIOUS
    <3> QED BY <3>1, <3>2
  <2>5. \A c \in DOMAIN clients : HeartbeatTimeout > 0 => Watched(c)'
    BY <1>1, <1>2 DEF ServerInv, Watched, serverVars
  <2>6. now' = now + 1 /\ wake' = wake /\ clients' = clients
    BY <1>2 DEF serverVars
  <2>7. ASSUME NEW c \in DOMAIN clients
        PROVE  /\ clients'[c].last_seen <= now'
               /\ HeartbeatTimeout > 0 => Watched(c)'
               /\ clients'[c].dead_reported => now' - clients'[c].last_seen > Second * HeartbeatTimeout
    <3>1. clients'[c].last_seen <= now'
      BY <2>4, <2>6
    <3>2. HeartbeatTimeout > 0 => Watched(c)'
      BY <2>5
    <3>3. clients'[c].dead_reported => now' - clients'[c].last_seen > Second * HeartbeatTimeout
      BY <2>3, <2>6
    <3> QED BY <3>1, <3>2, <3>3
  <2>8. now' <= wake' /\ DOMAIN clients' = DOMAIN clients
    BY <2>1, <2>6
  <2> QED BY <2>7, <2>8 DEF ServerInv
<1>9. pending' = pending /\ log' = log
  BY <1>2 DEF serverVars, clientVars
<1>10. PayloadInv'
  BY <1>1, <1>2, <1>4, <1>6, <1>9, PayloadsStay
<1>11. ASSUME NEW c \in Clients, NEW n \in 1..Count PROVE OnceInv(c, n)'
  <2>1. /\ OnceInv(c, n) /\ inbox' = inbox /\ inbox' \in Seq(Packets) /\ replies' = replies
        /\ replies'[c] \in Seq(Payload \cup {Malformed}) /\ Replies(c)' = Replies(c)
    BY <1>1, <1>2, <1>4, <1>9 DEF TypeOK, Replies
  <2> QED BY <1>1, <1>2, <1>9, <2>1, OnceStays
<1> QED BY <1>4, <1>7, <1>8, <1>10, <1>11 DEF IInv

LEMMA StartsWell == Init => IInv
<1> SUFFICES ASSUME Init PROVE IInv
  OBVIOUS
<1> USE DEF Init, ClientInit, ServerInit
<1>1. TypeOK
  <2>1. <<>> \in Seq(Packets) /\ <<>> \in Seq(Payload \cup {Malformed}) /\ <<>> \in Seq(Outcomes)
    OBVIOUS
  <2>2. 1 \in 1..Count /\ 0 \in 0..MaxTime /\ 0 \in 0..MaxStrays
    BY Numbers
  <2>3. clients = [c \in {} |-> 0] /\ DOMAIN clients = {} /\ clients \in [DOMAIN clients -> Infos]
    OBVIOUS
  <2> QED BY <2>1, <2>2, <2>3, Seconds DEF TypeOK
<1>2. ToSet(inbox) = {} /\ \A c \in Clients : ToSet(replies[c]) = {}
  BY DEF ToSet
<1>3. PayloadInv /\ ServerInv
  BY <1>2, Seconds DEF PayloadInv, ServerInv
<1>4. ASSUME NEW c \in Clients PROVE ClientInv(c) /\ SampleInv(c) /\ HeardInv(c)
  <2>1. Len(log[c]) = 0 /\ Replies(c) = {}
    BY DEF Replies
  <2> QED BY <2>1 DEF ClientInv, SampleInv, HeardInv, SentAt
<1>5. ASSUME NEW c \in Clients, NEW n \in 1..Count PROVE OnceInv(c, n)
  <2>1. Replies(c) = {} /\ Len(inbox) = 0 /\ Len(replies[c]) = 0
    BY DEF Replies
  <2> QED BY <2>1 DEF OnceInv, InFlight, InInbox, InPending, InReplies
<1> QED BY <1>1, <1>3, <1>4, <1>5 DEF IInv

LEMMA NothingHappens == ASSUME IInv, UNCHANGED vars PROVE IInv'
<1>1. /\ TypeOK /\ PayloadInv /\ ServerInv
      /\ \A c \in Clients : ClientInv(c) /\ SampleInv(c) /\ HeardInv(c)
      /\ \A c \in Clients, n \in 1..Count : OnceInv(c, n)
  BY DEF IInv
<1> USE DEF vars, netVars, clientVars, serverVars, history
<1>2. TypeOK'
  BY <1>1 DEF TypeOK
<1>3. Kept /\ \A c \in Clients : ClientInv(c)' /\ SampleInv(c)'
  BY ClientsUntouched
<1>4. PayloadInv'
  BY <1>1, <1>2, <1>3, PayloadsStay
<1>5. ServerInv' /\ \A c \in Clients : HeardInv(c)'
  BY ServerUntouched
<1>6. ASSUME NEW c \in Clients, NEW n \in 1..Count PROVE OnceInv(c, n)'
  <2>1. /\ OnceInv(c, n) /\ inbox' = inbox /\ inbox' \in Seq(Packets) /\ replies' = replies
        /\ replies'[c] \in Seq(Payload \cup {Malformed}) /\ Replies(c)' = Replies(c)
        /\ log' = log /\ pending' = pending /\ flight' = flight
    BY <1>1, <1>2 DEF TypeOK, Replies
  <2> QED BY <1>1, <2>1, OnceStays
<1> QED BY <1>2, <1>3, <1>4, <1>5, <1>6 DEF IInv

-----------------------------------------------------------------------------
(* The theorems. *)

(* Every ping, or its echo, is in one place at most and says when it was   *)
(* sent, the log of a client has an entry for each of its rounds, and the  *)
(* table of the server has been looked through in time                     *)
(* (udp_pinger_client.cpp:226-282, udp_pinger_server.cpp:190-238).         *)
THEOREM Inductive == Spec => []IInv
<1>1. Init => IInv
  BY StartsWell
<1>2. IInv /\ [Next]_vars => IInv'
  <2> SUFFICES ASSUME IInv, [Next]_vars PROVE IInv'
    OBVIOUS
  <2>1. CASE ClientStep /\ UNCHANGED <<serverVars, history>>
    <3>1. PICK c \in Clients : Ping(c) \/ Reply(c) \/ TimedOut(c) \/ Awake(c)
      BY <2>1 DEF ClientStep
    <3> QED BY <2>1, <3>1, PingStep, ReplyStep, TimedOutStep, AwakeStep
  <2>2. CASE ServerStep /\ UNCHANGED <<clientVars, history>>
    BY <2>2, RecvPacketStep, EchoStep, RecvTimeoutStep DEF ServerStep
  <2>3. CASE Deliver
    BY <2>3, DeliverStep
  <2>4. CASE \E c \in Clients : Stray(c)
    BY <2>4, StrayStep
  <2>5. CASE Tick
    BY <2>5, TickStep
  <2>6. CASE UNCHANGED vars
    BY <2>6, NothingHappens
  <2> QED BY <2>1, <2>2, <2>3, <2>4, <2>5, <2>6 DEF Next
<1> QED BY <1>1, <1>2, PTL DEF Spec

LEMMA SamplesRight == IInv => RttOfItsPing
<1> SUFFICES ASSUME IInv, NEW c \in Clients, NEW i \in Replies(c)
             PROVE  /\ log[c][i].seq <= i
                    /\ log[c][i].at - log[c][i].rtt = SentAt(c, log[c][i].seq)
                    /\ \A j \in Replies(c) : log[c][j].seq = log[c][i].seq => i = j
  BY DEF RttOfItsPing
<1>1. log[c] \in Seq(Outcomes) /\ i \in 1..Len(log[c])
  BY DEF IInv, TypeOK, Replies
<1>2. PICK n \in 1..Count : n = log[c][i].seq
  <2>1. log[c][i] \in Outcomes
    BY <1>1
  <2> QED BY <2>1 DEF Outcomes
<1>3. SampleInv(c) /\ OnceInv(c, n)
  BY DEF IInv
<1>4. n <= i /\ log[c][i].at - log[c][i].rtt = SentAt(c, n)
  BY <1>2, <1>3 DEF SampleInv
<1>5. \A j \in Replies(c) : log[c][j].seq = n => i = j
  BY <1>2, <1>3 DEF OnceInv
<1> QED BY <1>2, <1>4, <1>5

LEMMA SilentWhenReported == IInv => DeadIsSilent
<1> SUFFICES ASSUME IInv, NEW c \in Clients, Reported(c), ~ \E p \in ToSet(inbox) : p.client = c,
                    NEW t \in arrivals[c]
             PROVE  now - t > Second * HeartbeatTimeout
  BY DEF DeadIsSilent
<1>1. TypeOK /\ ServerInv /\ HeardInv(c)
  BY DEF IInv
<1>2. c \in DOMAIN clients /\ now - clients[c].last_seen > Second * HeartbeatTimeout
  BY <1>1 DEF Reported, ServerInv
<1>3. t <= clients[c].last_seen
  BY <1>1 DEF HeardInv
<1>4. PICK k \in Nat : k = clients[c].last_seen
  BY <1>1, <1>2 DEF TypeOK, Infos
<1>5. t \in Nat /\ now \in Nat /\ HeartbeatTimeout \in Nat
  BY <1>1, Numbers DEF TypeOK
<1>6. PICK n \in Nat : n = Second * HeartbeatTimeout
  BY Seconds
<1>7. now - t > n
  BY <1>2, <1>3, <1>4, <1>5, <1>6
<1> QED BY <1>6, <1>7

LEMMA SilentIsReported == IInv => ReportedInTime
<1> SUFFICES ASSUME IInv, HeartbeatTimeout > 0, NEW c \in DOMAIN clients, ~clients[c].dead_reported
             PROVE  now - clients[c].last_seen < ReportWithin + delay
  BY DEF ReportedInTime
<1>1. TypeOK /\ ServerInv
  BY DEF IInv
<1>2. PICK k \in Nat : k = clients[c].last_seen
  BY <1>1 DEF TypeOK, Infos
<1>3. now \in Nat /\ wake \in Nat /\ delay \in Delays /\ HeartbeatTimeout \in Nat
  BY <1>1, Numbers DEF TypeOK
<1>4. delay \in Nat
  BY <1>3, Numbers
<1>5. now <= wake /\ Watched(c)
  BY <1>1 DEF ServerInv
<1>6. wake - k < ReportWithin + 0 \/ wake - k < ReportWithin + delay
  BY <1>2, <1>5 DEF Watched
<1> QED BY <1>2, <1>3, <1>4, <1>5, <1>6, Seconds

(* A round-trip time is that of the ping whose echo it is, also when the   *)
(* echo comes rounds later (udp_pinger_client.cpp:268).                    *)
THEOREM RttCorrect == Spec => []RttOfItsPing
  BY Inductive, SamplesRight, PTL

(* A client that the server reports has been silent for more than N        *)
(* seconds, or is heard from next (udp_pinger_server.cpp:222-235).         *)
THEOREM DeadCorrect == Spec => []DeadIsSilent
  BY Inductive, SilentWhenReported, PTL

(* A silent client is reported before N + 2 seconds and the delay of one   *)
(* answer have passed, however fine the clock is                           *)
(* (udp_pinger_server.cpp:166, 228-229).                                   *)
THEOREM ReportedCorrect == Spec => []ReportedInTime
  BY Inductive, SilentIsReported, PTL

=============================================================================
