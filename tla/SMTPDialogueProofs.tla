------------------------- MODULE SMTPDialogueProofs -------------------------
(***************************************************************************)
(* SMTPDialogue implements MailSubmission, for all messages, those with    *)
(* lines that are a dot or read as commands among them, replies of any     *)
(* length and any number of replies that are out of order; and as long as  *)
(* none is, client and server stay in step.                                *)
(***************************************************************************)
EXTENDS SMTPDialogue, SequenceTheorems, TLAPS

(* The lines the client has not looked at are what is left of them, from   *)
(* the one after the m-th on.                                              *)
Shrinks(m) ==
    /\ Len(Unread') + m <= Len(Unread)
    /\ \A i \in 1..Len(Unread') : Unread'[i] = Unread[i + m]

(* They have become more, by lines with this code or none. *)
Grows(code) ==
    /\ Len(Unread') > Len(Unread)
    /\ \A i \in 1..Len(Unread) : Unread'[i] = Unread[i]
    /\ \A i \in 1..Len(Unread') : i > Len(Unread) => Unread'[i].code \in {code, 0}

LEMMA UnreadType == ASSUME TypeOK PROVE Unread \in Seq(ReplyLine) /\ Len(Unread) \in Nat
  BY DEF TypeOK, Unread

LEMMA ShrinkCodes ==
    ASSUME TypeOK, TypeOK', NEW m \in Nat, Shrinks(m)
    PROVE  /\ \A code \in Codes : NoCode(code) => NoCode(code)'
           /\ Late => Late'
           /\ m = 0 /\ NotAgreed => NotAgreed'
<1>1. Len(Unread) \in Nat /\ Len(Unread)' \in Nat
  BY UnreadType
<1>2. \A i \in 1..Len(Unread') : i + m \in 1..Len(Unread) /\ Unread'[i] = Unread[i + m]
  BY <1>1 DEF Shrinks
<1>3. \A code \in Codes : NoCode(code) => NoCode(code)'
  BY <1>2 DEF NoCode
<1>4. Late => Late'
  <2> SUFFICES ASSUME Late, NEW i \in 1..Len(Unread'), NEW j \in 1..Len(Unread'), i < j,
                      Unread'[i].code = 354
               PROVE  Unread'[j].code # 250
    BY DEF Late
  <2>1. i + m < j + m
    BY <1>1
  <2> QED BY <1>2, <2>1, SMTT(30) DEF Late
<1>5. ASSUME m = 0, NotAgreed PROVE NotAgreed'
  <2> SUFFICES ASSUME Unread' # <<>> PROVE Unread'[1].code # 250
    BY DEF NotAgreed
  <2>1. Unread \in Seq(ReplyLine) /\ Unread' \in Seq(ReplyLine)
    BY DEF TypeOK, Unread
  <2>2. 1 \in 1..Len(Unread')
    BY <1>1, <2>1
  <2>3. 1 + m \in 1..Len(Unread) /\ Unread'[1] = Unread[1 + m] /\ 1 + m = 1
    BY <1>2, <1>5, <2>2
  <2> QED BY <1>1, <1>5, <2>1, <2>3 DEF NotAgreed
<1> QED BY <1>3, <1>4, <1>5

LEMMA GrowCodes ==
    ASSUME TypeOK, TypeOK', NEW code \in Codes, Grows(code)
    PROVE  /\ \A other \in Codes \ {code, 0} : NoCode(other) => NoCode(other)'
           /\ code # 250 /\ Late => Late'
           /\ code # 354 /\ NoCode(354) => Late'
           /\ Unread' # <<>>
           /\ NotAgreed /\ (code # 250 \/ Unread # <<>>) => NotAgreed'
<1>1. Len(Unread) \in Nat /\ Len(Unread)' \in Nat
  BY UnreadType
<1>2. \A i \in 1..Len(Unread') : \/ i \in 1..Len(Unread) /\ Unread'[i] = Unread[i]
                                 \/ i > Len(Unread) /\ Unread'[i].code \in {code, 0}
  BY <1>1 DEF Grows
<1>3. \A other \in Codes \ {code, 0} : NoCode(other) => NoCode(other)'
  BY <1>2 DEF NoCode
<1>4. ASSUME code # 250, Late PROVE Late'
  <2> SUFFICES ASSUME NEW i \in 1..Len(Unread'), NEW j \in 1..Len(Unread'), i < j,
                      Unread'[i].code = 354
               PROVE  Unread'[j].code # 250
    BY DEF Late
  <2>1. CASE j \in 1..Len(Unread) /\ Unread'[j] = Unread[j]
    <3>1. i \in 1..Len(Unread)
      BY <1>1, <2>1
    <3>2. Unread'[i] = Unread[i]
      BY <1>1, <1>2, <3>1
    <3> QED BY <1>4, <2>1, <3>1, <3>2 DEF Late
  <2> QED BY <1>2, <1>4, <2>1
<1>5. ASSUME code # 354, NoCode(354) PROVE Late'
  BY <1>2, <1>5 DEF NoCode, Late
<1>6. Unread \in Seq(ReplyLine) /\ Unread' \in Seq(ReplyLine)
  BY DEF TypeOK, Unread
<1>7. 1 \in 1..Len(Unread') /\ Unread' # <<>>
  BY <1>1, <1>6 DEF Grows
<1>8. ASSUME NotAgreed, code # 250 \/ Unread # <<>> PROVE NotAgreed'
  <2>1. CASE 1 \in 1..Len(Unread) /\ Unread'[1] = Unread[1]
    <3>1. Unread # <<>>
      BY <1>1, <2>1
    <3> QED BY <1>8, <2>1, <3>1 DEF NotAgreed
  <2>2. CASE 1 > Len(Unread) /\ Unread'[1].code \in {code, 0}
    <3>1. Unread = <<>>
      BY <1>1, <1>6, <2>2
    <3> QED BY <1>8, <2>2, <3>1 DEF NotAgreed
  <2> QED BY <1>2, <1>7, <2>1, <2>2
<1> QED BY <1>3, <1>4, <1>5, <1>7, <1>8

(* What depends on the text, or on what is on its way to the server. *)
LEMMA SameText ==
    ASSUME body' = body
    PROVE  /\ OneMessage' <=> OneMessage
           /\ Arrives(body)' = Arrives(body)
           /\ \A i : Stream(i)' = Stream(i)
  BY DEF OneMessage, Arrives, Stream, LinesOf

LEMMA SameWire ==
    ASSUME toServer' = toServer
    PROVE  /\ Unsent(Envelope)' <=> Unsent(Envelope)
           /\ Unsent(LineKinds)' <=> Unsent(LineKinds)
  BY DEF Unsent, Envelope, LineKinds

(* Every way a reply can be answered. *)
LEMMA Answers ==
    ASSUME TypeOK, reply' = reply, NEW codes \in SUBSET Codes,
           NEW to \in Places \cup {"junk"}, Answer(codes, to)
    PROVE  /\ slips' \in 0..MaxSlips /\ toClient' \in Seq(ReplyLine)
           /\ \E code \in codes :
                 Grows(code) /\ server' = Then(code)
<1>1. PICK code \in codes, kinds \in UNION {[1..n -> Kinds] : n \in 1..MaxLines} :
         /\ slips' = slips + (IF Orderly(kinds) THEN 0 ELSE 1)
         /\ slips' <= MaxSlips
         /\ toClient' = toClient \o ReplyFor(code, to, kinds)
         /\ server' = Then(code)
  BY DEF Answer
<1>2. PICK n \in 1..MaxLines : kinds \in [1..n -> Kinds]
  OBVIOUS
<1> DEFINE R == ReplyFor(code, to, kinds)
<1>3. n \in Nat /\ Len(kinds) = n
  BY <1>2, MaxLinesAssumption
<1>4. R = [i \in 1..n |-> [code |-> IF kinds[i] \in {"more", "end"} THEN code ELSE 0,
                           kind |-> kinds[i], to |-> to]]
  BY <1>3 DEF ReplyFor
<1>5. ASSUME NEW i \in 1..n
      PROVE  /\ [code |-> IF kinds[i] \in {"more", "end"} THEN code ELSE 0,
                 kind |-> kinds[i], to |-> to] \in ReplyLine
  BY <1>2 DEF ReplyLine, Codes
<1>6. R \in Seq(ReplyLine) /\ Len(R) = n /\ \A i \in 1..n : R[i].code \in {code, 0}
  BY <1>3, <1>4, <1>5
<1> HIDE DEF R
<1>7. toClient' = toClient \o R
  BY <1>1 DEF R
<1>8. reply \in Seq(ReplyLine) /\ toClient \in Seq(ReplyLine)
  BY DEF TypeOK
<1>9. toClient' \in Seq(ReplyLine) /\ Len(toClient') = Len(toClient) + n
  BY <1>6, <1>7, <1>8, ConcatProperties
<1>10. Unread' = reply \o (toClient \o R)
  BY <1>7 DEF Unread
<1>11. Len(Unread) = Len(reply) + Len(toClient) /\ Len(Unread') = Len(Unread) + n
  BY <1>6, <1>8, <1>10, ConcatProperties DEF Unread
<1>12. \A i \in 1..Len(Unread) : Unread'[i] = Unread[i]
  BY <1>6, <1>8, <1>10, <1>11 DEF Unread
<1>13. ASSUME NEW i \in 1..Len(Unread'), i > Len(Unread) PROVE Unread'[i].code \in {code, 0}
  <2>1. i - Len(Unread) \in 1..n
    BY <1>3, <1>8, <1>11, <1>13
  <2>2. Unread'[i] = R[i - Len(Unread)]
    BY <1>3, <1>6, <1>8, <1>10, <1>11, <1>13 DEF Unread
  <2> QED BY <1>6, <2>1, <2>2
<1>14. Grows(code)
  BY <1>3, <1>8, <1>11, <1>12, <1>13 DEF Grows
<1>15. slips' \in 0..MaxSlips
  BY <1>1, MaxSlipsAssumption DEF TypeOK
<1> QED BY <1>1, <1>9, <1>14, <1>15

-----------------------------------------------------------------------------
(* What follows a reply, or a failure. *)

AbstractStep == [Submission!Next]_(Submission!vars)

LEMMA Judged ==
    ASSUME cmd \in Places, NEW ok \in BOOLEAN, Judge(ok)
    PROVE  \/ cmd = "QUIT" /\ phase' = "ended" /\ UNCHANGED <<cmd, verdict>>
           \/ /\ ok /\ cmd \in {"greeting", "EHLO", "MAIL", "RCPT"} /\ phase' = "send"
              /\ cmd' \in {"EHLO", "MAIL", "RCPT", "DATA"} /\ verdict' = verdict
           \/ ok /\ cmd = "DATA" /\ phase' = "send" /\ cmd' = "BODY" /\ verdict' = verdict
           \/ ok /\ cmd = "BODY" /\ phase' = "send" /\ cmd' = "QUIT" /\ verdict' = "success"
           \/ ~ok /\ cmd # "QUIT" /\ phase' = "send" /\ cmd' = "QUIT" /\ verdict' = "failure"
<1>1. CASE cmd = "QUIT"
  BY <1>1 DEF Judge
<1>2. CASE cmd # "QUIT" /\ ok
  BY <1>2 DEF Judge, After, Places, Commands
<1>3. CASE cmd # "QUIT" /\ ~ok
  BY <1>3 DEF Judge, Fail
<1> QED BY <1>1, <1>2, <1>3

LEMMA JudgeTypes ==
    ASSUME TypeOK, NEW ok \in BOOLEAN, Judge(ok)
    PROVE  /\ phase' \in {"send", "ended"} /\ cmd' \in Places
           /\ verdict' \in {"none", "success", "failure"}
  BY Judged DEF TypeOK, Places, Commands

(* The client judges a reply, of which `ok` says that its first line has   *)
(* the expected code, or a failure.                                        *)
LEMMA JudgeStep ==
    ASSUME PlaceInv, NEW ok \in BOOLEAN, Judge(ok), phase \in {"send", "read"},
           phase = "send" => ~ok, TypeOK', NEW m \in Nat, Shrinks(m),
           ok => m >= 1 /\ Len(Unread) >= 1 /\ Unread[1].code = Expected[cmd],
           UNCHANGED <<body, serverVars, toServer>>
    PROVE  PlaceInv' /\ AbstractStep
<1>1. /\ TypeOK /\ WireInv /\ DataInv /\ TextInv /\ ReplyInv /\ VerdictInv /\ PhaseInv
      /\ UNCHANGED <<body, server, message, mailbox, toServer>>
  BY DEF PlaceInv, serverVars
<1>2. /\ NoCode(354) => NoCode(354)'
      /\ Late => Late'
      /\ Arrives(body') = Arrives(body)
      /\ Unsent(Envelope)' <=> Unsent(Envelope)
      /\ Unsent(LineKinds)' <=> Unsent(LineKinds)
      /\ OneMessage' <=> OneMessage
  BY <1>1, ShrinkCodes, SameText, SameWire DEF Codes
<1>3. Len(Unread) \in Nat /\ Len(Unread') \in Nat
  BY <1>1, UnreadType
<1>4. CASE cmd = "QUIT" /\ phase' = "ended" /\ UNCHANGED <<cmd, verdict>>
  <2>1. WireInv'
    BY <1>1, <1>2, <1>4 DEF WireInv, BeforeData, Sending
  <2>2. DataInv'
    BY <1>1, <1>2, <1>4 DEF DataInv, BeforeData, Sending, Unsent
  <2>3. TextInv'
    BY <1>1, <1>4 DEF TextInv, OneMessage, Sending, Taking, Stream, LinesOf
  <2>4. ReplyInv' /\ VerdictInv' /\ PhaseInv'
    BY <1>1, <1>2, <1>4 DEF ReplyInv, VerdictInv, PhaseInv, Sending, Arrives
  <2>5. AbstractStep
    BY <1>1, <1>4 DEF AbstractStep, Submission!vars
  <2> QED BY <2>1, <2>2, <2>3, <2>4, <2>5 DEF PlaceInv
<1>5. CASE /\ ok /\ cmd \in {"greeting", "EHLO", "MAIL", "RCPT"} /\ phase' = "send"
           /\ cmd' \in {"EHLO", "MAIL", "RCPT", "DATA"} /\ verdict' = verdict
  <2>1. WireInv'
    BY <1>1, <1>2, <1>5 DEF WireInv, BeforeData, Sending
  <2>2. DataInv'
    BY <1>1, <1>2, <1>5 DEF DataInv, BeforeData, Sending, Unsent
  <2>3. TextInv'
    BY <1>1, <1>5 DEF TextInv, OneMessage, Sending, Taking, Stream, LinesOf
  <2>4. ReplyInv' /\ VerdictInv' /\ PhaseInv'
    BY <1>1, <1>2, <1>5, SMTT(30) DEF ReplyInv, VerdictInv, PhaseInv, Sending, Arrives
  <2>5. AbstractStep
    BY <1>1, <1>5 DEF AbstractStep, Submission!vars
  <2> QED BY <2>1, <2>2, <2>3, <2>4, <2>5 DEF PlaceInv
<1>6. CASE ok /\ cmd = "DATA" /\ phase' = "send" /\ cmd' = "BODY" /\ verdict' = verdict
  <2>1. Unread[1].code = 354 /\ phase = "read"
    BY <1>6 DEF Expected
  <2>2. ~NoCode(354)
    BY <1>3, <1>6, <2>1 DEF NoCode
  <2>3. Unsent(Envelope) /\ server \in {"data", "closed"} /\ toServer \in Seq(Envelope)
    BY <1>1, <1>6, <2>1, <2>2 DEF DataInv, WireInv, Sending
  <2>4. toServer = <<>>
    <3>1. Len(toServer) \in Nat /\ \A i \in 1..Len(toServer) : toServer[i] \in Envelope
      BY <2>3
    <3>2. Len(toServer) = 0
      BY <2>3, <3>1 DEF Unsent
    <3> QED BY <2>3, <3>2
  <2>5. mailbox = <<>> => NotAgreed'
    <3> SUFFICES ASSUME mailbox = <<>>, Unread' # <<>> PROVE Unread'[1].code # 250
      BY DEF NotAgreed
    <3>4. Unread' \in Seq(ReplyLine)
      BY DEF TypeOK, Unread
    <3>1. 1 + m \in 1..Len(Unread) /\ 1 < 1 + m /\ Unread'[1] = Unread[1 + m]
      BY <1>3, <1>6, <3>4 DEF Shrinks
    <3>2. Late /\ 1 \in 1..Len(Unread)
      BY <1>1, <1>3, <1>6 DEF ReplyInv
    <3> QED BY <2>1, <3>1, <3>2 DEF Late
  <2>6. WireInv'
    BY <1>1, <1>2, <1>6, <2>3, <2>4 DEF WireInv, BeforeData, Sending, Unsent
  <2>7. DataInv'
    BY <1>1, <1>2, <1>6, <2>3 DEF DataInv, BeforeData, Sending, Unsent
  <2>8. TextInv'
    <3>1. OneMessage /\ server = "data" => message = <<>>
      BY <1>1, <1>6 DEF TextInv
    <3> QED BY <1>1, <1>2, <1>6, <2>4, <3>1 DEF TextInv, Sending
  <2>9. ReplyInv' /\ VerdictInv' /\ PhaseInv'
    BY <1>1, <1>2, <1>6, <2>1, <2>3, <2>5 DEF ReplyInv, VerdictInv, PhaseInv, Sending, Arrives
  <2>10. AbstractStep
    BY <1>1, <1>6 DEF AbstractStep, Submission!vars
  <2> QED BY <2>6, <2>7, <2>8, <2>9, <2>10 DEF PlaceInv
<1>7. ASSUME cmd # "QUIT", phase' = "send", cmd' = "QUIT"
      PROVE  WireInv' /\ DataInv' /\ TextInv' /\ ReplyInv' /\ PhaseInv'
  <2>1. WireInv'
    BY <1>1, <1>2, <1>7 DEF WireInv, BeforeData, Sending
  <2>2. DataInv'
    BY <1>1, <1>2, <1>7 DEF DataInv, BeforeData, Sending, Unsent
  <2>3. TextInv'
    <3> SUFFICES ASSUME OneMessage, server = "data" PROVE TextInv'
      BY <1>1, <1>2 DEF TextInv
    <3>1. CASE \E n \in 0..(Len(body) + 1) : Taking(n)
      <4>1. \E n \in 0..(Len(body') + 1) : Taking(n)'
        BY <1>1, <3>1 DEF Taking, Stream, LinesOf
      <4> QED BY <1>7, <4>1 DEF TextInv
    <3>2. CASE toServer = <<>>
      <4>1. \A i \in 1..Len(toServer') : toServer'[i] = "QUIT"
        BY <1>1, <3>2
      <4> QED BY <1>7, <4>1 DEF TextInv
    <3> QED BY <1>1, <1>7, <3>1, <3>2 DEF TextInv
  <2>4. ReplyInv' /\ PhaseInv'
    BY <1>1, <1>2, <1>7 DEF ReplyInv, PhaseInv, Sending
  <2> QED BY <2>1, <2>2, <2>3, <2>4
<1>8. CASE ok /\ cmd = "BODY" /\ phase' = "send" /\ cmd' = "QUIT" /\ verdict' = "success"
  <2>1. Unread[1].code = 250 /\ verdict = "none"
    BY <1>1, <1>8 DEF Expected, VerdictInv, TypeOK
  <2>2. mailbox # <<>>
    BY <1>1, <1>3, <1>8, <2>1 DEF ReplyInv, NotAgreed
  <2>3. VerdictInv'
    BY <1>1, <1>8, <2>2 DEF VerdictInv, OneMessage, Arrives
  <2>4. AbstractStep
    BY <1>1, <1>8, <2>1, <2>2
       DEF AbstractStep, Submission!Next, Submission!ReportSuccess
  <2> QED BY <1>7, <1>8, <2>3, <2>4 DEF PlaceInv
<1>9. CASE cmd # "QUIT" /\ phase' = "send" /\ cmd' = "QUIT" /\ verdict' = "failure"
  <2>1. verdict = "none"
    BY <1>1, <1>9 DEF VerdictInv, OneMessage, Arrives
  <2>2. VerdictInv'
    BY <1>1, <1>9 DEF VerdictInv, OneMessage, Arrives
  <2>3. AbstractStep
    BY <1>1, <1>9, <2>1 DEF AbstractStep, Submission!Next, Submission!ReportFailure
  <2> QED BY <1>7, <1>9, <2>2, <2>3 DEF PlaceInv
<1> QED BY <1>1, <1>4, <1>5, <1>6, <1>8, <1>9, Judged DEF TypeOK

-----------------------------------------------------------------------------
(* The client's steps. *)

(* Nothing that the client has not looked at comes or goes. *)
LEMMA SameUnread ==
    ASSUME TypeOK, UNCHANGED <<reply, toClient>>
    PROVE  Shrinks(0) /\ Unread' = Unread
<1>1. Len(Unread) \in Nat /\ Unread' = Unread
  BY UnreadType DEF Unread
<1> QED BY <1>1 DEF Shrinks

LEMMA ReadLineStep == ASSUME PlaceInv, ReadLine PROVE PlaceInv' /\ AbstractStep
<1> DEFINE line  == Head(toClient)
           lines == Append(reply, line)
<1>1. /\ phase = "read" /\ toClient # <<>> /\ toClient' = Tail(toClient)
      /\ UNCHANGED <<body, slips, serverVars, toServer>>
      /\ \/ Complete(lines) /\ reply' = <<>> /\ Judge(HasExpectedCode(lines))
         \/ reply' = lines /\ UNCHANGED <<phase, cmd, verdict>>
  BY DEF ReadLine
<1>2. TypeOK /\ reply \in Seq(ReplyLine) /\ toClient \in Seq(ReplyLine)
  BY DEF PlaceInv, TypeOK
<1>3. /\ line = toClient[1] /\ line \in ReplyLine /\ Len(toClient) \in Nat /\ Len(toClient) >= 1
      /\ toClient' \in Seq(ReplyLine) /\ Len(toClient') = Len(toClient) - 1
      /\ \A i \in 1..Len(toClient') : toClient'[i] = toClient[i + 1]
  BY <1>1, <1>2, HeadTailProperties
<1>4. /\ lines \in Seq(ReplyLine) /\ Len(lines) = Len(reply) + 1 /\ Len(reply) \in Nat
      /\ \A i \in 1..Len(reply) : lines[i] = reply[i]
      /\ lines[Len(reply) + 1] = line
  BY <1>2, <1>3, AppendProperties
<1> HIDE DEF line, lines
<1>5. /\ Len(Unread) = Len(reply) + Len(toClient)
      /\ \A i \in 1..Len(Unread) :
            Unread[i] = IF i <= Len(reply) THEN reply[i] ELSE toClient[i - Len(reply)]
  BY <1>2, ConcatProperties DEF Unread
<1>6. Unread[1] = lines[1] /\ Len(Unread) >= 1
  BY <1>3, <1>4, <1>5
<1>7. CASE reply' = lines /\ UNCHANGED <<phase, cmd, verdict>>
  <2>1. TypeOK'
    BY <1>1, <1>2, <1>3, <1>4, <1>7 DEF TypeOK, serverVars
  <2>2. /\ Len(Unread') = Len(lines) + Len(toClient')
        /\ \A i \in 1..Len(Unread') :
              Unread'[i] = IF i <= Len(lines) THEN lines[i] ELSE toClient'[i - Len(lines)]
    <3>1. Unread' = lines \o toClient'
      BY <1>7 DEF Unread
    <3>2. /\ Len(lines \o toClient') = Len(lines) + Len(toClient')
          /\ \A i \in 1..(Len(lines) + Len(toClient')) :
                (lines \o toClient')[i] = IF i <= Len(lines) THEN lines[i]
                                          ELSE toClient'[i - Len(lines)]
      BY <1>3, <1>4, ConcatProperties
    <3> QED BY <3>1, <3>2
  <2>3. Len(Unread') = Len(Unread)
    BY <1>3, <1>4, <1>5, <2>2
  <2>4. ASSUME NEW i \in 1..Len(Unread') PROVE Unread'[i] = Unread[i]
    <3>1. CASE i <= Len(reply)
      BY <1>3, <1>4, <1>5, <2>2, <2>3, <3>1
    <3>2. CASE i = Len(reply) + 1
      BY <1>3, <1>4, <1>5, <2>2, <2>3, <3>2
    <3>3. CASE i > Len(reply) + 1
      <4>1. i - Len(lines) \in 1..Len(toClient') /\ i - Len(lines) + 1 = i - Len(reply)
        BY <1>3, <1>4, <1>5, <2>2, <2>3, <3>3
      <4>2. Unread'[i] = toClient'[i - Len(lines)]
        BY <1>3, <1>4, <2>2, <3>3
      <4>3. Unread[i] = toClient[i - Len(reply)]
        BY <1>3, <1>4, <1>5, <2>3, <3>3
      <4> QED BY <1>3, <4>1, <4>2, <4>3
    <3> QED BY <1>3, <1>4, <1>5, <2>3, <3>1, <3>2, <3>3
  <2>5. Shrinks(0)
    BY <1>3, <1>4, <1>5, <2>3, <2>4 DEF Shrinks
  <2>6. /\ NoCode(354) => NoCode(354)'
        /\ NotAgreed => NotAgreed'
        /\ Late => Late'
    BY <1>2, <2>1, <2>5, ShrinkCodes DEF Codes
  <2>7. /\ WireInv /\ DataInv /\ TextInv /\ ReplyInv /\ VerdictInv /\ PhaseInv
        /\ UNCHANGED <<body, phase, cmd, verdict, server, message, mailbox, toServer>>
    BY <1>1, <1>7 DEF PlaceInv, serverVars
  <2>11. WireInv'
    BY <2>7, SameWire DEF WireInv, BeforeData, Sending
  <2>12. TextInv'
    BY <2>7, SameText DEF TextInv, Sending, Taking
  <2>8. WireInv' /\ TextInv' /\ VerdictInv' /\ PhaseInv'
    BY <2>7, <2>11, <2>12, SameText DEF VerdictInv, PhaseInv, Sending
  <2>9. DataInv' /\ ReplyInv'
    <3>1. /\ mailbox = <<>> /\ cmd = "BODY" /\ server = "command" => Unread' # <<>>
          /\ Unsent(Envelope)' <=> Unsent(Envelope)
          /\ Unsent(LineKinds)' <=> Unsent(LineKinds)
      BY <1>3, <1>4, <2>2, <2>7, SameWire
    <3> QED BY <2>6, <2>7, <3>1, SameText DEF DataInv, ReplyInv, BeforeData, Sending
  <2>10. AbstractStep
    BY <2>7 DEF AbstractStep, Submission!vars
  <2> QED BY <2>1, <2>8, <2>9, <2>10 DEF PlaceInv
<1>8. CASE Complete(lines) /\ reply' = <<>> /\ Judge(HasExpectedCode(lines))
  <2> DEFINE ok == HasExpectedCode(lines)
             m  == Len(reply) + 1
  <2>1. ok \in BOOLEAN /\ (ok => Unread[1].code = Expected[cmd])
    BY <1>4, <1>6 DEF HasExpectedCode
  <2> HIDE DEF ok
  <2>2. Judge(ok)
    BY <1>8 DEF ok
  <2>3. TypeOK'
    BY <1>1, <1>2, <1>3, <1>8, <2>1, <2>2, JudgeTypes DEF TypeOK, serverVars
  <2>4. Unread' = toClient'
    BY <1>3, <1>8, ConcatEmptySeq DEF Unread
  <2>5. ASSUME NEW i \in 1..Len(Unread') PROVE Unread'[i] = Unread[i + m]
    BY <1>3, <1>4, <1>5, <2>4
  <2>6. m \in Nat /\ m >= 1 /\ Shrinks(m)
    BY <1>3, <1>4, <1>5, <2>4, <2>5 DEF Shrinks
  <2> HIDE DEF m
  <2> QED BY <1>1, <1>6, <2>1, <2>2, <2>3, <2>6, JudgeStep
<1> QED BY <1>1, <1>7, <1>8

LEMMA FailureSteps == ASSUME PlaceInv, ReadEnd \/ WriteFail PROVE PlaceInv' /\ AbstractStep
<1>1. /\ phase \in {"send", "read"} /\ Judge(FALSE) /\ (reply' = reply \/ reply' = <<>>)
      /\ phase = "read" => toClient = <<>>
      /\ UNCHANGED <<body, slips, serverVars, toServer, toClient>>
  BY DEF ReadEnd, WriteFail
<1>2. TypeOK /\ reply \in Seq(ReplyLine) /\ toClient \in Seq(ReplyLine)
      /\ (phase = "send" => reply = <<>>)
  BY DEF PlaceInv, TypeOK
<1>3. TypeOK'
  <2>1. phase = "send" => reply' = <<>>
    BY <1>1, <1>2
  <2>2. phase' \in {"send", "ended"} /\ cmd' \in Places
        /\ verdict' \in {"none", "success", "failure"}
    BY <1>1, <1>2, JudgeTypes
  <2>3. reply' = <<>>
    BY <2>1 DEF ReadEnd, WriteFail, PlaceInv, TypeOK
  <2> QED BY <1>1, <1>2, <2>2, <2>3 DEF TypeOK, serverVars
<1>4. \E m \in Nat : Shrinks(m)
  <2>1. CASE reply' = reply
    <3>1. Shrinks(0)
      BY <1>1, <1>2, <2>1, SameUnread
    <3> QED BY <3>1
  <2>2. CASE reply' = <<>> /\ reply # <<>>
    <3>1. Unread' = <<>>
      BY <1>1, <1>2, <2>2, ConcatEmptySeq DEF Unread
    <3>2. Len(Unread) \in Nat /\ Len(Unread') = 0
      BY <1>2, <3>1, UnreadType
    <3>3. Shrinks(0)
      BY <3>2 DEF Shrinks
    <3> QED BY <3>3
  <2> QED BY <1>1, <2>1, <2>2
<1> QED BY <1>1, <1>3, <1>4, JudgeStep

(* A step that writes, or leaves what is on its way to the server, and     *)
(* changes nothing the abstract specification sees.                        *)
LEMMA Connections ==
    ASSUME PlaceInv, Connect \/ ConnectFail \/ BrokenPipe
    PROVE  PlaceInv' /\ AbstractStep
<1>1. /\ TypeOK /\ WireInv /\ DataInv /\ TextInv /\ ReplyInv /\ VerdictInv /\ PhaseInv
      /\ UNCHANGED <<body, slips, cmd, reply, message, mailbox, toServer, toClient>>
  BY DEF PlaceInv, Connect, ConnectFail, BrokenPipe, serverVars
<1>2. /\ (NoCode(354) <=> NoCode(354)') /\ (NotAgreed <=> NotAgreed') /\ (Late <=> Late')
  BY <1>1, SameUnread DEF NoCode, Late, NotAgreed
<1>6. /\ OneMessage' <=> OneMessage
      /\ Unsent(Envelope)' <=> Unsent(Envelope)
      /\ Unsent(LineKinds)' <=> Unsent(LineKinds)
      /\ Arrives(body)' = Arrives(body) /\ Unread' = Unread /\ \A i : Stream(i)' = Stream(i)
  BY <1>1, SameText, SameWire, SameUnread
<1>3. CASE Connect
  <2>1. /\ phase = "start" /\ phase' = "read" /\ server = "off" /\ server' = "greeting"
        /\ cmd = "greeting" /\ verdict' = verdict
    BY <1>1, <1>3 DEF Connect, PhaseInv
  <2>2. TypeOK' /\ WireInv'
    BY <1>1, <1>6, <2>1 DEF TypeOK, WireInv, BeforeData, Sending
  <2>3. DataInv' /\ TextInv' /\ ReplyInv' /\ VerdictInv' /\ PhaseInv'
    BY <1>1, <1>2, <1>6, <2>1
       DEF DataInv, TextInv, ReplyInv, VerdictInv, PhaseInv, BeforeData, Sending
  <2>4. AbstractStep
    BY <1>1, <2>1 DEF AbstractStep, Submission!vars
  <2> QED BY <2>2, <2>3, <2>4 DEF PlaceInv
<1>4. CASE ConnectFail
  <2>1. /\ phase = "start" /\ phase' = "ended" /\ server = "off" /\ server' = server
        /\ cmd = "greeting" /\ verdict' = "failure" /\ verdict = "none"
    BY <1>1, <1>4 DEF ConnectFail, PhaseInv, VerdictInv, serverVars
  <2>2. TypeOK' /\ WireInv'
    BY <1>1, <1>6, <2>1 DEF TypeOK, WireInv, BeforeData, Sending
  <2>3. DataInv' /\ TextInv' /\ ReplyInv' /\ VerdictInv' /\ PhaseInv'
    BY <1>1, <1>2, <1>6, <2>1
       DEF DataInv, TextInv, ReplyInv, VerdictInv, PhaseInv, BeforeData, Sending
  <2>4. AbstractStep
    BY <1>1, <2>1 DEF AbstractStep, Submission!Next, Submission!ReportFailure
  <2> QED BY <2>2, <2>3, <2>4 DEF PlaceInv
<1>5. CASE BrokenPipe
  <2>1. phase = "send" /\ phase' = "killed" /\ UNCHANGED <<server, verdict>>
    BY <1>5 DEF BrokenPipe, serverVars
  <2>6. TypeOK'
    BY <1>1, <2>1 DEF TypeOK
  <2>7. WireInv'
    <3>1. Sending /\ Sending' /\ (BeforeData <=> BeforeData')
      BY <1>1, <2>1 DEF BeforeData, Sending
    <3> QED BY <1>1, <1>6, <2>1, <3>1 DEF WireInv
  <2>2. TypeOK' /\ WireInv'
    BY <2>6, <2>7
  <2>3. DataInv' /\ ReplyInv' /\ VerdictInv' /\ PhaseInv'
    BY <1>1, <1>2, <1>6, <2>1
       DEF DataInv, ReplyInv, VerdictInv, PhaseInv, BeforeData, Sending
  <2>4. TextInv'
    BY <1>1, <1>6, <2>1 DEF TextInv, Sending, Taking
  <2>5. AbstractStep
    BY <1>1, <2>1 DEF AbstractStep, Submission!vars
  <2> QED BY <2>2, <2>3, <2>4, <2>5 DEF PlaceInv
<1> QED BY <1>3, <1>4, <1>5

(* No line of a text is one of the client's commands. *)
LEMMA KindsAre ==
    /\ LineKinds = {"text", "dotted", "dot", "ehlo", "mail", "rcpt", "data", "quit"}
    /\ \A line \in LineKinds \cup {"header"} : line \notin Commands
    /\ Envelope \subseteq Commands /\ "QUIT" \in Commands
<1>1. DOMAIN Reads = {"ehlo", "mail", "rcpt", "data", "quit"}
  BY DEF Reads
<1>2. LineKinds = {"text", "dotted", "dot", "ehlo", "mail", "rcpt", "data", "quit"}
  BY <1>1 DEF LineKinds
<1> QED BY <1>2 DEF Commands, Envelope

(* The message and its end. *)
LEMMA MessageLines ==
    ASSUME body \in Seq(LineKinds)
    PROVE  /\ LinesOf("BODY") \in Seq(LineKinds \cup {"header"})
           /\ Len(LinesOf("BODY")) = Len(body) + 2 /\ Len(body) \in Nat
           /\ LinesOf("BODY")[1] = "header" /\ LinesOf("BODY")[Len(body) + 2] = "dot"
           /\ \A i \in 1..Len(body) : LinesOf("BODY")[i + 1] = body[i]
<1> DEFINE S  == LineKinds \cup {"header"}
           hb == <<"header">> \o body
<1>1. body \in Seq(S) /\ <<"header">> \in Seq(S) /\ <<"dot">> \in Seq(S)
      /\ Len(<<"header">>) = 1 /\ Len(<<"dot">>) = 1
      /\ <<"header">>[1] = "header" /\ <<"dot">>[1] = "dot" /\ Len(body) \in Nat
  BY DEF LineKinds
<1>2. /\ hb \in Seq(S) /\ Len(hb) = Len(body) + 1 /\ hb[1] = "header"
      /\ \A i \in 1..Len(body) : hb[i + 1] = body[i]
  BY <1>1, ConcatProperties
<1> HIDE DEF hb, S
<1>3. LinesOf("BODY") = hb \o <<"dot">>
  BY DEF LinesOf, hb
<1>4. /\ LinesOf("BODY") \in Seq(S) /\ Len(LinesOf("BODY")) = Len(body) + 2
      /\ \A i \in 1..(Len(body) + 2) :
            LinesOf("BODY")[i] = IF i <= Len(body) + 1 THEN hb[i]
                                 ELSE <<"dot">>[i - (Len(body) + 1)]
  <2> DEFINE dot == <<"dot">>
  <2>1. dot \in Seq(S) /\ Len(dot) = 1 /\ LinesOf("BODY") = hb \o dot
    BY <1>1, <1>3
  <2> HIDE DEF dot
  <2>2. /\ hb \o dot \in Seq(S) /\ Len(hb \o dot) = Len(hb) + Len(dot)
        /\ \A i \in 1..(Len(hb) + Len(dot)) :
              (hb \o dot)[i] = IF i <= Len(hb) THEN hb[i] ELSE dot[i - Len(hb)]
    BY <1>2, <2>1, ConcatProperties
  <2>3. Len(hb) + Len(dot) = Len(body) + 2 /\ Len(hb) = Len(body) + 1
    BY <1>1, <1>2, <2>1
  <2> QED BY <2>1, <2>2, <2>3 DEF dot
<1>5. LinesOf("BODY")[1] = "header" /\ LinesOf("BODY")[Len(body) + 2] = "dot"
  BY <1>1, <1>2, <1>4
<1>6. \A i \in 1..Len(body) : LinesOf("BODY")[i + 1] = body[i]
  <2> SUFFICES ASSUME NEW i \in 1..Len(body) PROVE LinesOf("BODY")[i + 1] = body[i]
    OBVIOUS
  <2>1. i + 1 \in 1..(Len(body) + 2) /\ i + 1 <= Len(body) + 1
    BY <1>1
  <2> QED BY <1>2, <1>4, <2>1
<1> QED BY <1>1, <1>4, <1>5, <1>6 DEF S

LEMMA StreamIs ==
    ASSUME body \in Seq(LineKinds)
    PROVE  /\ Stream(1) = "header" /\ Stream(Len(body) + 2) = "dot"
           /\ \A i \in 1..Len(body) : Stream(i + 1) = body[i]
           /\ \A i \in Nat : i > Len(body) + 2 => Stream(i) = "QUIT"
           /\ \A i \in 1..(Len(body) + 2) : Stream(i) \in LineKinds \cup {"header"}
<1>1. /\ Len(LinesOf("BODY")) = Len(body) + 2 /\ Len(body) \in Nat
      /\ LinesOf("BODY") \in Seq(LineKinds \cup {"header"})
      /\ LinesOf("BODY")[1] = "header" /\ LinesOf("BODY")[Len(body) + 2] = "dot"
      /\ \A i \in 1..Len(body) : LinesOf("BODY")[i + 1] = body[i]
  BY MessageLines
<1>2. \A i \in 1..(Len(body) + 2) : Stream(i) = LinesOf("BODY")[i]
  BY <1>1 DEF Stream
<1>3. \A i \in Nat : i > Len(body) + 2 => Stream(i) = "QUIT"
  BY <1>1 DEF Stream
<1>4. \A i \in 1..(Len(body) + 2) : Stream(i) \in LineKinds \cup {"header"}
  BY <1>1, <1>2
<1>5. \A i \in 1..Len(body) : Stream(i + 1) = body[i]
  BY <1>1, <1>2
<1> QED BY <1>1, <1>2, <1>3, <1>4, <1>5

LEMMA WriteStep == ASSUME PlaceInv, Write PROVE PlaceInv' /\ AbstractStep
<1>1. /\ TypeOK /\ WireInv /\ DataInv /\ TextInv /\ ReplyInv /\ VerdictInv /\ PhaseInv
      /\ phase = "send" /\ phase' = "read"
      /\ UNCHANGED <<body, slips, cmd, reply, verdict, server, message, mailbox, toClient>>
      /\ toServer' = IF Connected THEN toServer \o LinesOf(cmd) ELSE toServer
  BY DEF PlaceInv, Write, serverVars
<1>2. /\ (NoCode(354) <=> NoCode(354)') /\ (NotAgreed <=> NotAgreed') /\ (Late <=> Late')
  BY <1>1, SameUnread DEF NoCode, Late, NotAgreed
<1>3. /\ Sending /\ ~Sending' /\ cmd \in Commands /\ verdict \in {"none", "success", "failure"}
      /\ body \in Seq(LineKinds) /\ toServer \in Seq(LineKinds \cup Commands \cup {"header"})
  BY <1>1, BodiesAssumption DEF Sending, PhaseInv, TypeOK, Places
<1>10. Unread' = Unread /\ (OneMessage' <=> OneMessage) /\ Arrives(body)' = Arrives(body)
  BY <1>1, SameUnread, SameText
<1>4. ReplyInv' /\ VerdictInv' /\ PhaseInv' /\ AbstractStep
  BY <1>1, <1>2, <1>3, <1>10
     DEF ReplyInv, VerdictInv, PhaseInv, AbstractStep, Submission!vars
<1>5. ASSUME toServer' \in Seq(LineKinds \cup Commands \cup {"header"}), WireInv', TextInv',
             \/ NoCode(354) /\ server # "data" /\ mailbox = <<>>
             \/ Unsent(Envelope)',
             OneMessage => server = "data" \/ Unsent(LineKinds)'
      PROVE  PlaceInv'
  <2>1. TypeOK'
    BY <1>1, <1>3, <1>5 DEF TypeOK
  <2>2. BeforeData' => BeforeData
    BY <1>1, <1>3 DEF BeforeData
  <2>3. DataInv'
    BY <1>1, <1>2, <1>3, <1>5, <1>10, <2>2 DEF DataInv, BeforeData
  <2> QED BY <1>4, <1>5, <2>1, <2>3 DEF PlaceInv
<1>6. CASE ~Connected
  <2>1. server \in {"off", "closed"} /\ toServer = <<>> /\ toServer' = <<>>
    BY <1>1, <1>6 DEF Connected, WireInv
  <2>2. /\ Len(toServer') = 0 /\ <<>> \in Seq(Envelope \ {"DATA"}) /\ <<>> \in Seq(Envelope)
        /\ toServer' \in Seq(LineKinds \cup Commands \cup {"header"})
    BY <1>3, <2>1
  <2>3. WireInv'
    BY <1>1, <1>3, <2>1, <2>2 DEF WireInv, Unsent
  <2>4. Unsent(Envelope)' /\ Unsent(LineKinds)'
    BY <2>2 DEF Unsent
  <2>5. TextInv'
    BY <1>1, <2>1 DEF TextInv
  <2> QED BY <1>4, <1>5, <2>2, <2>3, <2>4, <2>5
<1>7. CASE Connected /\ cmd \in Envelope
  <2>1. BeforeData /\ toServer \in Seq(Envelope \ {"DATA"})
    BY <1>1, <1>3, <1>7 DEF BeforeData, Envelope, WireInv
  <2>2. toServer' = Append(toServer, cmd)
    <3>1. LinesOf(cmd) = <<cmd>>
      BY <1>7 DEF LinesOf, Envelope
    <3> QED BY <1>1, <1>7, <2>1, <3>1
  <2>3. /\ toServer' \in Seq(Envelope) /\ Len(toServer') = Len(toServer) + 1
        /\ toServer'[Len(toServer')] = cmd /\ Len(toServer) \in Nat
        /\ \A i \in 1..Len(toServer) : toServer'[i] = toServer[i] /\ toServer[i] \in Envelope \ {"DATA"}
    BY <1>7, <2>1, <2>2 DEF Envelope
  <2>4. \A i \in 1..Len(toServer') : i = Len(toServer') \/ i \in 1..Len(toServer)
    BY <2>3
  <2>5. toServer' \in Seq(LineKinds \cup Commands \cup {"header"})
    BY <2>3 DEF Envelope, Commands
  <2>6. server \notin {"off", "closed", "data"} /\ NoCode(354) /\ mailbox = <<>>
    BY <1>1, <1>7, <2>1 DEF Connected, DataInv
  <2>9. Unsent(LineKinds)'
    <3>1. \A i \in 1..Len(toServer') : toServer'[i] \in Commands
      BY <2>3, KindsAre
    <3> QED BY <3>1, KindsAre DEF Unsent
  <2>7. WireInv'
    <3>1. \A i \in 1..Len(toServer') : /\ toServer'[i] # "QUIT"
                                      /\ toServer'[i] = "DATA" => i = Len(toServer')
      BY <1>7, <2>3, <2>4 DEF Envelope
    <3>2. \A i \in 1..Len(toServer') : \A j \in (i + 1)..Len(toServer') : i # Len(toServer')
      BY <2>3
    <3>3. BeforeData' => toServer' \in Seq(Envelope \ {"DATA"})
      <4> SUFFICES ASSUME BeforeData' PROVE toServer' \in Seq(Envelope \ {"DATA"})
        OBVIOUS
      <4>1. cmd \in Envelope \ {"DATA"}
        BY <1>1, <1>3, <1>7 DEF BeforeData, Envelope
      <4> QED BY <2>1, <2>2, <4>1
    <3> QED BY <1>1, <1>3, <1>7, <2>3, <2>6, <2>9, <3>1, <3>2, <3>3 DEF WireInv, Envelope
  <2>8. TextInv'
    BY <1>1, <2>6 DEF TextInv
  <2> QED BY <1>4, <1>5, <2>5, <2>6, <2>7, <2>8, <2>9
<1>8. CASE Connected /\ cmd = "BODY"
  <2>1. toServer = <<>> /\ server = "data" /\ (OneMessage => message = <<>>)
    <3>1. toServer = <<>> /\ server = "data"
      BY <1>1, <1>3, <1>8 DEF WireInv, DataInv, Connected
    <3>2. ASSUME NEW n \in 0..(Len(body) + 1) PROVE ~Taking(n)
      BY <1>3, <3>1 DEF Taking
    <3> QED BY <1>1, <1>8, <3>1, <3>2 DEF TextInv
  <2>2. toServer' = LinesOf("BODY")
    BY <1>1, <1>8, <2>1, MessageLines, <1>3, ConcatEmptySeq
  <2>3. /\ toServer' \in Seq(LineKinds \cup {"header"}) /\ Len(toServer') = Len(body) + 2
        /\ Len(body) \in Nat
    BY <1>3, <2>2, MessageLines
  <2>4. \A i \in 1..Len(toServer') : toServer'[i] \in LineKinds \cup {"header"}
    BY <2>3
  <2>8. \A i \in 1..Len(toServer') : toServer'[i] \notin Commands
    BY <2>4, KindsAre
  <2>9. Unsent(Envelope)'
    BY <2>8, KindsAre DEF Unsent
  <2>5. WireInv'
    <3>1. \A i \in 1..Len(toServer') : toServer'[i] # "QUIT" /\ toServer'[i] # "DATA"
      BY <2>8 DEF Commands
    <3> QED BY <1>1, <1>3, <1>8, <2>1, <2>9, <3>1 DEF WireInv, BeforeData, Sending
  <2>6. TextInv'
    <3> SUFFICES ASSUME OneMessage PROVE TextInv'
      BY <1>10 DEF TextInv
    <3>1. Taking(0)'
      <4>1. Len(message') = 0 /\ Len(body') = Len(body)
        BY <1>1, <2>1
      <4>2. \A i \in 1..Len(toServer') : toServer'[i] = Stream(i)
        BY <2>2, <2>3 DEF Stream
      <4>3. \A i : Stream(i)' = Stream(i)
        BY <1>1 DEF Stream, LinesOf
      <4>4. \A i \in 1..Len(toServer') : i + 0 = i
        OBVIOUS
      <4>5. Len(toServer') + 0 >= Len(body') + 2 /\ 1..0 = {}
        BY <2>3, <4>1
      <4> QED BY <4>1, <4>2, <4>3, <4>4, <4>5 DEF Taking
    <3>2. 0 \in 0..(Len(body') + 1)
      BY <1>1, <2>3
    <3> QED BY <1>1, <1>8, <3>1, <3>2 DEF TextInv
  <2>7. toServer' \in Seq(LineKinds \cup Commands \cup {"header"})
    BY <2>3
  <2> QED BY <1>4, <1>5, <2>1, <2>5, <2>6, <2>7, <2>9
<1>9. CASE Connected /\ cmd = "QUIT"
  <2>1. toServer' = Append(toServer, "QUIT")
    <3>1. LinesOf(cmd) = <<"QUIT">>
      BY <1>9 DEF LinesOf
    <3>2. toServer \o <<"QUIT">> = Append(toServer, "QUIT")
      BY <1>3, AppendIsConcat DEF Commands
    <3> QED BY <1>1, <1>9, <3>1, <3>2
  <2>2. /\ toServer' \in Seq(LineKinds \cup Commands \cup {"header"})
        /\ Len(toServer') = Len(toServer) + 1 /\ toServer'[Len(toServer')] = "QUIT"
        /\ Len(toServer) \in Nat
        /\ \A i \in 1..Len(toServer) : toServer'[i] = toServer[i]
    BY <1>3, <2>1 DEF Commands
  <2>3. \A i \in 1..Len(toServer') : i = Len(toServer') \/ i \in 1..Len(toServer)
    BY <2>2
  <2>4. \A i \in 1..Len(toServer) : toServer[i] # "QUIT"
    BY <1>1, <1>3 DEF WireInv
  <2>6. (Unsent(Envelope) => Unsent(Envelope)') /\ (Unsent(LineKinds) => Unsent(LineKinds)')
    BY <2>2, <2>3, KindsAre DEF Unsent, Envelope
  <2>5. WireInv'
    <3>1. ASSUME NEW i \in 1..Len(toServer'), toServer'[i] = "DATA",
                 NEW j \in (i + 1)..Len(toServer')
          PROVE  toServer'[j] = "QUIT"
      <4>1. i \in 1..Len(toServer) /\ toServer[i] = "DATA"
        BY <2>2, <2>3, <3>1
      <4>2. CASE j = Len(toServer')
        BY <2>2, <4>2
      <4>3. CASE j # Len(toServer')
        <5>1. j \in (i + 1)..Len(toServer) /\ j \in 1..Len(toServer)
          BY <2>2, <4>1, <4>3
        <5> QED BY <1>1, <2>2, <4>1, <5>1 DEF WireInv
      <4> QED BY <4>2, <4>3
    <3>2. \A i \in 1..Len(toServer') : toServer'[i] = "QUIT" => i = Len(toServer')
      BY <2>2, <2>3, <2>4
    <3> QED BY <1>1, <1>3, <1>9, <2>6, <3>1, <3>2 DEF WireInv, BeforeData, Connected
  <2>7. \/ NoCode(354) /\ server # "data" /\ mailbox = <<>>
        \/ Unsent(Envelope)'
    BY <1>1, <2>6 DEF DataInv
  <2>8. TextInv'
    <3> SUFFICES ASSUME OneMessage, server = "data" PROVE TextInv'
      BY <1>1, <1>10 DEF TextInv
    <3>1. ASSUME NEW n \in 0..(Len(body) + 1), Taking(n) PROVE Taking(n)'
      <4>1. /\ Len(toServer) + n >= Len(body) + 2 /\ Len(body) \in Nat /\ n \in Nat
            /\ \A i \in 1..Len(toServer) : toServer[i] = Stream(i + n)
        BY <1>3, <3>1 DEF Taking
      <4>2. \A i \in 1..Len(toServer') : toServer'[i] = Stream(i + n)
        <5>1. Stream(Len(toServer) + 1 + n) = "QUIT"
          BY <1>3, <2>2, <4>1, StreamIs
        <5> QED BY <2>2, <2>3, <4>1, <5>1
      <4>3. Len(toServer') + n >= Len(body) + 2
        BY <2>2, <4>1
      <4>4. \A i : Stream(i)' = Stream(i)
        BY <1>1 DEF Stream, LinesOf
      <4> QED BY <1>1, <3>1, <4>2, <4>3, <4>4 DEF Taking
    <3>2. CASE \E n \in 0..(Len(body) + 1) : Taking(n)
      <4>1. \E n \in 0..(Len(body') + 1) : Taking(n)'
        BY <1>1, <3>1, <3>2
      <4> QED BY <1>1, <1>9, <4>1 DEF TextInv
    <3>3. CASE \A i \in 1..Len(toServer) : toServer[i] = "QUIT"
      <4>1. \A i \in 1..Len(toServer') : toServer'[i] = "QUIT"
        BY <2>2, <2>3, <3>3
      <4> QED BY <1>1, <1>9, <4>1 DEF TextInv
    <3> QED BY <1>1, <1>9, <3>2, <3>3 DEF TextInv
  <2>9. OneMessage => server = "data" \/ Unsent(LineKinds)'
    BY <1>1, <2>6 DEF DataInv
  <2> QED BY <1>4, <1>5, <2>2, <2>5, <2>7, <2>8, <2>9
<1> QED BY <1>3, <1>4, <1>6, <1>7, <1>8, <1>9 DEF Commands, Envelope

-----------------------------------------------------------------------------
(* The server's steps. *)

(* The first line of what is on its way to the server goes. *)
TakesLine == toServer # <<>> /\ toServer' = Tail(toServer)

LEMMA Tails ==
    ASSUME TypeOK, TakesLine
    PROVE  /\ Len(toServer) \in Nat /\ Len(toServer) >= 1 /\ Head(toServer) = toServer[1]
           /\ Len(toServer') = Len(toServer) - 1
           /\ toServer' \in Seq(LineKinds \cup Commands \cup {"header"})
           /\ \A i \in 1..Len(toServer') : i + 1 \in 1..Len(toServer) /\ toServer'[i] = toServer[i + 1]
           /\ Unsent(Envelope) => Unsent(Envelope)'
           /\ Unsent(LineKinds) => Unsent(LineKinds)'
<1>1. toServer \in Seq(LineKinds \cup Commands \cup {"header"})
  BY DEF TypeOK
<1>2. /\ Len(toServer) \in Nat /\ Len(toServer) >= 1 /\ Head(toServer) = toServer[1]
      /\ Len(toServer') = Len(toServer) - 1
      /\ toServer' \in Seq(LineKinds \cup Commands \cup {"header"})
  BY <1>1, HeadTailProperties DEF TakesLine
<1>3. \A i \in 1..Len(toServer') : i + 1 \in 1..Len(toServer) /\ toServer'[i] = toServer[i + 1]
  BY <1>1, <1>2, HeadTailProperties DEF TakesLine
<1>4. (Unsent(Envelope) => Unsent(Envelope)') /\ (Unsent(LineKinds) => Unsent(LineKinds)')
  BY <1>3, KindsAre DEF Unsent, Envelope
<1> QED BY <1>2, <1>3, <1>4

LEMMA TailWire ==
    ASSUME TypeOK, WireInv, TakesLine, UNCHANGED <<cmd, phase>>, server' \notin {"off", "closed"}
    PROVE  WireInv'
<1>1. /\ Len(toServer) \in Nat /\ Len(toServer) >= 1 /\ Head(toServer) = toServer[1]
      /\ Len(toServer') = Len(toServer) - 1
      /\ toServer' \in Seq(LineKinds \cup Commands \cup {"header"})
      /\ \A i \in 1..Len(toServer') : i + 1 \in 1..Len(toServer) /\ toServer'[i] = toServer[i + 1]
      /\ Unsent(Envelope) => Unsent(Envelope)'
  BY Tails
<1>2. (BeforeData <=> BeforeData') /\ (Sending <=> Sending')
  BY DEF BeforeData, Sending
<1>11. Len(toServer) \in Nat /\ Len(toServer') \in Nat /\ Len(toServer') = Len(toServer) - 1
  BY <1>1
<1>10. \A i \in 1..Len(toServer) :
          toServer[i] = "QUIT" => i = Len(toServer) /\ cmd = "QUIT" /\ ~Sending
  BY DEF WireInv
<1>4. ASSUME NEW i \in 1..Len(toServer'), toServer'[i] = "QUIT"
      PROVE  i = Len(toServer') /\ cmd' = "QUIT" /\ ~Sending'
  <2>1. i + 1 \in 1..Len(toServer) /\ toServer[i + 1] = "QUIT"
    BY <1>1, <1>4
  <2>2. i + 1 = Len(toServer) /\ cmd = "QUIT" /\ ~Sending
    BY <1>10, <2>1
  <2>3. i = Len(toServer')
    BY <1>4, <1>11, <2>2
  <2> QED BY <1>2, <2>2, <2>3
<1>5. ASSUME NEW i \in 1..Len(toServer'), toServer'[i] = "DATA",
             NEW j \in (i + 1)..Len(toServer')
      PROVE  toServer'[j] = "QUIT"
  <2>1. /\ j \in 1..Len(toServer') /\ j + 1 \in ((i + 1) + 1)..Len(toServer)
        /\ toServer[i + 1] = "DATA" /\ i + 1 \in 1..Len(toServer)
    BY <1>1, <1>5
  <2>2. toServer[j + 1] = "QUIT"
    BY <2>1 DEF WireInv
  <2> QED BY <1>1, <2>1, <2>2
<1>6. ASSUME NEW S, toServer \in Seq(S) PROVE toServer' \in Seq(S)
  BY <1>6, HeadTailProperties DEF TakesLine
<1>7. BeforeData' => toServer' \in Seq(Envelope \ {"DATA"})
  BY <1>2, <1>6 DEF WireInv, Envelope
<1>8. ASSUME cmd' = "DATA", ~Sending'
      PROVE  /\ toServer' \in Seq(Envelope)
             /\ toServer' # <<>> => toServer'[Len(toServer')] = "DATA"
  <2>1. toServer \in Seq(Envelope) /\ toServer[Len(toServer)] = "DATA"
    BY <1>2, <1>8 DEF WireInv, TakesLine
  <2>2. ASSUME toServer' # <<>> PROVE toServer'[Len(toServer')] = "DATA"
    <3>1. Len(toServer') \in 1..Len(toServer')
      BY <1>1, <2>2
    <3>2. Len(toServer') + 1 = Len(toServer)
      BY <1>1
    <3> QED BY <1>1, <2>1, <3>1, <3>2
  <2> QED BY <1>6, <2>1, <2>2
<1>9. /\ ~(cmd' = "BODY" /\ Sending') /\ (cmd' = "BODY" => Unsent(Envelope)')
      /\ Unsent(Envelope)' \/ Unsent(LineKinds)'
  BY <1>1, <1>2, Tails DEF WireInv
<1> QED BY <1>4, <1>5, <1>7, <1>8, <1>9 DEF WireInv

LEMMA EmptyWire ==
    ASSUME toServer' = <<>>
    PROVE  /\ WireInv' /\ Unsent(Envelope)' /\ Unsent(LineKinds)'
           /\ toServer' \in Seq(LineKinds \cup Commands \cup {"header"})
<1>1. Len(toServer') = 0 /\ \A S : <<>> \in Seq(S)
  OBVIOUS
<1>2. Unsent(Envelope)' /\ Unsent(LineKinds)'
  BY <1>1 DEF Unsent
<1> QED BY <1>1, <1>2 DEF WireInv

LEMMA GreetStep == ASSUME PlaceInv, Greet PROVE PlaceInv' /\ AbstractStep
<1>1. /\ TypeOK /\ WireInv /\ DataInv /\ TextInv /\ ReplyInv /\ VerdictInv /\ PhaseInv
      /\ server = "greeting" /\ Answer({220, 550}, "greeting")
      /\ UNCHANGED <<body, phase, cmd, reply, verdict, message, mailbox, toServer>>
  BY DEF PlaceInv, Greet, clientVars
<1>2. /\ slips' \in 0..MaxSlips /\ toClient' \in Seq(ReplyLine)
      /\ \E code \in {220, 550} :
            Grows(code) /\ server' = Then(code)
  <2>1. {220, 550} \in SUBSET Codes /\ "greeting" \in Places \cup {"junk"}
    BY DEF Codes, Places
  <2> QED BY <1>1, <2>1, Answers
<1>11. PICK code \in {220, 550} : Grows(code) /\ server' = Then(code)
  BY <1>2
<1>3. Grows(code) /\ server' = "command"
  BY <1>11 DEF Then
<1>4. TypeOK'
  BY <1>1, <1>2, <1>3 DEF TypeOK
<1>5. /\ NoCode(354) => NoCode(354)'
      /\ NotAgreed => NotAgreed'
      /\ (Late => Late') /\ Unread' # <<>>
  BY <1>1, <1>3, <1>4, GrowCodes DEF Codes
<1>6. /\ (BeforeData <=> BeforeData') /\ (Sending <=> Sending')
      /\ Unsent(Envelope)' <=> Unsent(Envelope)
      /\ Unsent(LineKinds)' <=> Unsent(LineKinds)
      /\ (OneMessage' <=> OneMessage) /\ Arrives(body)' = Arrives(body)
  BY <1>1, SameWire, SameText DEF BeforeData, Sending
<1>7. WireInv'
  BY <1>1, <1>3, <1>6 DEF WireInv
<1>8. DataInv'
  BY <1>1, <1>3, <1>5, <1>6 DEF DataInv
<1>9. TextInv' /\ ReplyInv' /\ VerdictInv' /\ PhaseInv'
  BY <1>1, <1>3, <1>5, <1>6 DEF TextInv, ReplyInv, VerdictInv, PhaseInv
<1>10. AbstractStep
  BY <1>1 DEF AbstractStep, Submission!vars
<1> QED BY <1>4, <1>7, <1>8, <1>9, <1>10 DEF PlaceInv

(* What answers a command: 250 only one of the envelope before DATA or a   *)
(* line that reads like one, 354 only DATA or such a line; and 221 ends    *)
(* the session.                                                            *)
LEMMA CommandAnswer ==
    ASSUME PlaceInv, TakeCommand
    PROVE  /\ slips' \in 0..MaxSlips /\ toClient' \in Seq(ReplyLine)
           /\ \E code \in {221, 250, 354, 500, 550} :
                 /\ Grows(code) /\ server' = Then(code)
                 /\ toServer' = IF code = 221 THEN <<>> ELSE Tail(toServer)
                 /\ code = 250 => toServer[1] \in (Envelope \ {"DATA"}) \cup LineKinds
                 /\ code = 354 => toServer[1] \in {"DATA"} \cup LineKinds
<1>1. TypeOK /\ reply' = reply /\ toServer # <<>>
  BY DEF PlaceInv, TakeCommand, clientVars
<1>2. Head(toServer) = toServer[1]
  BY <1>1 DEF TypeOK
<1> DEFINE line    == toServer[1]
           command == IF line \in DOMAIN Reads THEN Reads[line] ELSE line
           to      == IF line \in Commands THEN line ELSE "junk"
<1>3. /\ CASE command \in {"EHLO", "MAIL", "RCPT", "DATA"} -> Answer({Agrees(command), 550}, to)
           [] command = "QUIT" -> Answer({221}, to)
           [] OTHER            -> Answer({500}, to)
      /\ toServer' = IF command = "QUIT" THEN <<>> ELSE Tail(toServer)
  BY <1>2 DEF TakeCommand
<1>10. to \in Places \cup {"junk"}
  BY DEF Places
<1>11. line = command \/ line \in LineKinds
  BY DEF LineKinds
<1>4. to \in Places \cup {"junk"} /\ (line = command \/ line \in LineKinds)
  BY <1>10, <1>11
<1> HIDE DEF line, command, to
<1>5. ASSUME NEW codes \in SUBSET Codes, Answer(codes, to)
      PROVE  /\ slips' \in 0..MaxSlips /\ toClient' \in Seq(ReplyLine)
             /\ \E code \in codes : Grows(code) /\ server' = Then(code)
  BY <1>1, <1>4, <1>5, Answers
<1>6. CASE command \in {"EHLO", "MAIL", "RCPT"}
  <2>4. Agrees(command) = 250
    BY <1>6 DEF Agrees
  <2>1. {250, 550} \in SUBSET Codes /\ Answer({250, 550}, to) /\ toServer' = Tail(toServer)
    BY <1>3, <1>6, <2>4 DEF Codes
  <2>2. /\ slips' \in 0..MaxSlips /\ toClient' \in Seq(ReplyLine)
        /\ \E code \in {250, 550} : Grows(code) /\ server' = Then(code)
    BY <1>5, <2>1
  <2>3. line \in (Envelope \ {"DATA"}) \cup LineKinds
    BY <1>4, <1>6 DEF Envelope
  <2> QED BY <2>1, <2>2, <2>3 DEF line
<1>7. CASE command = "DATA"
  <2>4. Agrees(command) = 354 /\ Agrees("DATA") = 354
    BY <1>7 DEF Agrees
  <2>5. Answer({Agrees(command), 550}, to) /\ {Agrees(command), 550} = {354, 550}
    BY <1>3, <1>7, <2>4
  <2>6. Answer({354, 550}, to)
    BY <2>5
  <2>7. {354, 550} \in SUBSET Codes /\ toServer' = Tail(toServer)
    BY <1>3, <1>7 DEF Codes
  <2>1. {354, 550} \in SUBSET Codes /\ Answer({354, 550}, to) /\ toServer' = Tail(toServer)
    BY <2>6, <2>7
  <2>2. /\ slips' \in 0..MaxSlips /\ toClient' \in Seq(ReplyLine)
        /\ \E code \in {354, 550} : Grows(code) /\ server' = Then(code)
    BY <1>5, <2>1
  <2>3. line \in {"DATA"} \cup LineKinds
    BY <1>4, <1>7
  <2> QED BY <2>1, <2>2, <2>3 DEF line
<1>8. CASE command = "QUIT"
  <2>1. {221} \in SUBSET Codes /\ Answer({221}, to) /\ toServer' = <<>>
    BY <1>3, <1>8 DEF Codes
  <2>2. /\ slips' \in 0..MaxSlips /\ toClient' \in Seq(ReplyLine)
        /\ \E code \in {221} : Grows(code) /\ server' = Then(code)
    BY <1>5, <2>1
  <2> QED BY <2>1, <2>2
<1>9. CASE command \notin {"EHLO", "MAIL", "RCPT", "DATA", "QUIT"}
  <2>1. {500} \in SUBSET Codes /\ Answer({500}, to) /\ toServer' = Tail(toServer)
    BY <1>3, <1>9 DEF Codes
  <2>2. /\ slips' \in 0..MaxSlips /\ toClient' \in Seq(ReplyLine)
        /\ \E code \in {500} : Grows(code) /\ server' = Then(code)
    BY <1>5, <2>1
  <2> QED BY <2>1, <2>2
<1> QED BY <1>6, <1>7, <1>8, <1>9

(* A line of the text comes when the commands of the envelope are through, *)
(* and is taken for a command only if another line has ended the text.     *)
LEMMA HiddenLine ==
    ASSUME TypeOK, WireInv, DataInv, toServer # <<>>, toServer[1] \in LineKinds
    PROVE  /\ OneMessage => server = "data"
           /\ Unsent(Envelope) /\ ~BeforeData
           /\ cmd = "QUIT" \/ (cmd = "BODY" /\ ~Sending)
<1>1. 1 \in 1..Len(toServer)
  BY DEF TypeOK
<1>2. ~Unsent(LineKinds)
  BY <1>1 DEF Unsent
<1>3. (OneMessage => server = "data") /\ Unsent(Envelope)
  BY <1>2 DEF DataInv, WireInv
<1>4. toServer[1] \notin Envelope
  BY <1>1, <1>3 DEF Unsent
<1>5. ~BeforeData /\ ~(cmd = "DATA" /\ ~Sending)
  BY <1>1, <1>4 DEF WireInv
<1>6. cmd = "BODY" => ~Sending
  BY DEF WireInv
<1> QED BY <1>3, <1>5, <1>6 DEF BeforeData, TypeOK, Places, Commands

LEMMA TakeCommandStep == ASSUME PlaceInv, TakeCommand PROVE PlaceInv' /\ AbstractStep
<1>1. /\ TypeOK /\ WireInv /\ DataInv /\ TextInv /\ ReplyInv /\ VerdictInv /\ PhaseInv
      /\ server = "command" /\ toServer # <<>> /\ message' = <<>>
      /\ UNCHANGED <<body, phase, cmd, reply, verdict, mailbox>>
  BY DEF PlaceInv, TakeCommand, clientVars
<1>3. slips' \in 0..MaxSlips /\ toClient' \in Seq(ReplyLine)
  BY CommandAnswer
<1>4. PICK code \in {221, 250, 354, 500, 550} :
         /\ Grows(code) /\ server' = Then(code)
         /\ toServer' = IF code = 221 THEN <<>> ELSE Tail(toServer)
         /\ code = 250 => toServer[1] \in (Envelope \ {"DATA"}) \cup LineKinds
         /\ code = 354 => toServer[1] \in {"DATA"} \cup LineKinds
  BY CommandAnswer
<1>5. /\ server' \in {"command", "data", "closed"}
      /\ server' = "data" <=> code = 354
      /\ server' = "closed" <=> code = 221
  BY <1>4 DEF Then
<1>2. code # 221 =>
         /\ TakesLine /\ Len(toServer) \in Nat
         /\ Len(toServer') = Len(toServer) - 1
         /\ \A i \in 1..Len(toServer') : i + 1 \in 1..Len(toServer) /\ toServer'[i] = toServer[i + 1]
  BY <1>1, <1>4, Tails DEF TakesLine
<1>19. /\ toServer' \in Seq(LineKinds \cup Commands \cup {"header"})
       /\ Unsent(Envelope) => Unsent(Envelope)'
       /\ Unsent(LineKinds) => Unsent(LineKinds)'
  <2>1. CASE code = 221
    BY <1>4, <2>1, EmptyWire
  <2>2. CASE code # 221
    BY <1>1, <1>2, <2>2, Tails
  <2> QED BY <2>1, <2>2
<1>6. TypeOK'
  BY <1>1, <1>3, <1>5, <1>19 DEF TypeOK
<1>7. /\ code # 354 => (NoCode(354) => NoCode(354)')
      /\ code # 250 => (Late => Late')
      /\ code # 354 /\ NoCode(354) => Late'
      /\ Unread' # <<>>
      /\ NotAgreed /\ (code # 250 \/ Unread # <<>>) => NotAgreed'
  <2>1. 354 \in Codes /\ 250 \in Codes
    BY DEF Codes
  <2>2. code \in Codes
    BY DEF Codes
  <2> QED BY <1>1, <1>4, <1>6, <2>1, <2>2, GrowCodes
<1>8. /\ (BeforeData <=> BeforeData') /\ (Sending <=> Sending')
      /\ (OneMessage' <=> OneMessage) /\ Arrives(body)' = Arrives(body)
  BY <1>1, SameText DEF BeforeData, Sending
<1>9. WireInv'
  <2>1. CASE code = 221
    BY <1>4, <2>1, EmptyWire
  <2>2. CASE code # 221
    BY <1>1, <1>2, <1>5, <2>2, TailWire
  <2> QED BY <2>1, <2>2
<1>10. 1 \in 1..Len(toServer)
  BY <1>1 DEF TypeOK
<1>11. toServer[1] \in Envelope => ~Unsent(Envelope)
  BY <1>10 DEF Unsent
<1>12. toServer[1] \in Envelope => NoCode(354) /\ mailbox = <<>> /\ cmd # "BODY"
  BY <1>1, <1>11 DEF DataInv, WireInv
<1>13. ASSUME code = 354, toServer[1] = "DATA"
       PROVE  /\ ~BeforeData /\ cmd \in {"DATA", "QUIT"} /\ ~(cmd = "DATA" /\ Sending)
              /\ \A i \in 1..Len(toServer') : toServer'[i] = "QUIT"
              /\ Unsent(Envelope)'
              /\ cmd = "DATA" => toServer' = <<>>
  <2>1. toServer[1] = "DATA" /\ toServer[1] \in Envelope
    BY <1>13 DEF Envelope
  <2>2. ~BeforeData
    <3> SUFFICES ASSUME BeforeData PROVE FALSE
      OBVIOUS
    <3>1. toServer \in Seq(Envelope \ {"DATA"})
      BY <1>1 DEF WireInv
    <3> QED BY <1>10, <2>1, <3>1
  <2>3. cmd \in {"DATA", "QUIT"} /\ ~(cmd = "DATA" /\ Sending)
    BY <1>1, <1>12, <2>1, <2>2 DEF BeforeData, TypeOK, Places, Commands
  <2>4. \A j \in 2..Len(toServer) : toServer[j] = "QUIT"
    BY <1>1, <1>10, <2>1 DEF WireInv
  <2>5. \A i \in 1..Len(toServer') : toServer'[i] = "QUIT"
    <3> SUFFICES ASSUME NEW i \in 1..Len(toServer') PROVE toServer'[i] = "QUIT"
      OBVIOUS
    <3>1. i + 1 \in 2..Len(toServer) /\ toServer'[i] = toServer[i + 1]
      BY <1>2, <1>13
    <3> QED BY <2>4, <3>1
  <2>6. Unsent(Envelope)'
    BY <2>5 DEF Unsent, Envelope
  <2>7. cmd = "DATA" => toServer' = <<>>
    <3> SUFFICES ASSUME cmd = "DATA" PROVE toServer' = <<>>
      OBVIOUS
    <3>1. toServer' \in Seq(Envelope)
      BY <1>1, <1>8, <1>9, <2>3 DEF WireInv
    <3>2. \A i \in 1..Len(toServer') : toServer'[i] # "QUIT"
      BY <3>1 DEF Envelope
    <3>3. Len(toServer') = 0
      BY <1>2, <1>13, <2>5, <3>2
    <3> QED BY <3>1, <3>3
  <2> QED BY <2>2, <2>3, <2>5, <2>6, <2>7
<1>20. toServer[1] \in LineKinds =>
          /\ ~OneMessage /\ Unsent(Envelope) /\ ~BeforeData
          /\ cmd = "QUIT" \/ (cmd = "BODY" /\ ~Sending)
  BY <1>1, HiddenLine
<1>14. DataInv'
  <2>1. CASE code = 354 /\ toServer[1] = "DATA"
    <3>1. server' = "data" /\ mailbox' = <<>>
      BY <1>1, <1>4, <1>5, <1>12, <2>1 DEF Envelope
    <3> QED BY <1>1, <1>8, <1>13, <2>1, <3>1 DEF DataInv
  <2>2. CASE code = 354 /\ toServer[1] \in LineKinds
    <3>1. server' = "data" /\ Unsent(Envelope)' /\ ~OneMessage'
      BY <1>5, <1>8, <1>19, <1>20, <2>2
    <3> QED BY <1>1, <1>8, <1>20, <2>2, <3>1 DEF DataInv
  <2>3. CASE code # 354
    <3>1. (NoCode(354) => NoCode(354)') /\ server' # "data"
      BY <1>5, <1>7, <2>3
    <3>2. cmd = "BODY" /\ Sending => FALSE
      BY <1>1 DEF DataInv
    <3>3. ~NoCode(354) /\ cmd = "DATA" => FALSE
      BY <1>1 DEF DataInv
    <3> QED BY <1>1, <1>8, <1>19, <3>1, <3>2, <3>3 DEF DataInv
  <2> QED BY <1>4, <2>1, <2>2, <2>3
<1>15. TextInv'
  <2>1. CASE code = 354 /\ toServer[1] = "DATA"
    BY <1>1, <1>8, <1>13, <2>1 DEF TextInv
  <2>2. CASE code = 354 /\ toServer[1] \in LineKinds
    BY <1>8, <1>20, <2>2 DEF TextInv
  <2>3. CASE code # 354
    BY <1>5, <2>3 DEF TextInv
  <2> QED BY <1>4, <2>1, <2>2, <2>3
<1>16. ReplyInv'
  <2> SUFFICES ASSUME mailbox = <<>>
               PROVE  /\ cmd \notin {"BODY", "QUIT"} => Late'
                      /\ cmd = "BODY" => NotAgreed'
    BY <1>1, <1>7 DEF ReplyInv
  <2>1. CASE code # 250
    BY <1>1, <1>7, <2>1 DEF ReplyInv
  <2>2. CASE code = 250 /\ toServer[1] \in Envelope \ {"DATA"}
    BY <1>7, <1>12, <2>2
  <2>3. CASE code = 250 /\ toServer[1] \in LineKinds
    <3>1. cmd = "BODY" => NotAgreed /\ Unread # <<>>
      BY <1>1 DEF ReplyInv
    <3> QED BY <1>7, <1>20, <2>3, <3>1
  <2> QED BY <1>4, <2>1, <2>2, <2>3
<1>17. VerdictInv' /\ PhaseInv'
  BY <1>1, <1>5, <1>8 DEF VerdictInv, PhaseInv
<1>18. AbstractStep
  BY <1>1 DEF AbstractStep, Submission!vars
<1> QED BY <1>6, <1>9, <1>14, <1>15, <1>16, <1>17, <1>18 DEF PlaceInv

LEMMA TakeTextStep == ASSUME PlaceInv, TakeText PROVE PlaceInv' /\ AbstractStep
<1>1. /\ TypeOK /\ WireInv /\ DataInv /\ TextInv /\ ReplyInv /\ VerdictInv /\ PhaseInv
      /\ server = "data" /\ server' = server /\ TakesLine /\ Head(toServer) # "dot"
      /\ message' = Append(message, Received(Head(toServer)))
      /\ UNCHANGED <<body, slips, phase, cmd, reply, verdict, mailbox, toClient>>
  BY DEF PlaceInv, TakeText, clientVars, TakesLine
<1>2. /\ Len(toServer) \in Nat /\ Len(toServer) >= 1 /\ Head(toServer) = toServer[1]
      /\ Len(toServer') = Len(toServer) - 1
      /\ toServer' \in Seq(LineKinds \cup Commands \cup {"header"})
      /\ \A i \in 1..Len(toServer') : i + 1 \in 1..Len(toServer) /\ toServer'[i] = toServer[i + 1]
      /\ Unsent(Envelope) => Unsent(Envelope)'
  BY <1>1, Tails
<1>3. 1 \in 1..Len(toServer) /\ toServer # <<>>
  BY <1>1, <1>2 DEF TakesLine
<1>4. /\ message \in Seq(LineKinds \cup Commands \cup {"header", "stripped"})
      /\ body \in Seq(LineKinds) /\ Len(body) \in Nat
  BY <1>1, BodiesAssumption DEF TypeOK
<1>5. toServer[1] \in LineKinds \cup Commands \cup {"header"}
  BY <1>1, <1>3 DEF TypeOK
<1>6. message' = Append(message, Received(toServer[1]))
  BY <1>1, <1>2
<1>7. Received(toServer[1]) \in LineKinds \cup Commands \cup {"header", "stripped"}
  BY <1>5 DEF Received
<1>8. /\ message' \in Seq(LineKinds \cup Commands \cup {"header", "stripped"})
      /\ Len(message) \in Nat /\ Len(message') = Len(message) + 1
      /\ \A i \in 1..Len(message) : message'[i] = message[i]
      /\ message'[Len(message) + 1] = Received(toServer[1])
  BY <1>4, <1>6, <1>7, AppendProperties
<1>9. TypeOK'
  BY <1>1, <1>2, <1>8 DEF TypeOK
<1>10. /\ (NoCode(354) <=> NoCode(354)') /\ (NotAgreed <=> NotAgreed') /\ (Late <=> Late')
       /\ (BeforeData <=> BeforeData') /\ (Sending <=> Sending') /\ Unread' = Unread
       /\ (OneMessage' <=> OneMessage) /\ Arrives(body)' = Arrives(body)
  BY <1>1, SameUnread, SameText DEF NoCode, Late, NotAgreed, BeforeData, Sending
<1>11. WireInv'
  BY <1>1, TailWire
<1>12. DataInv'
  BY <1>1, <1>2, <1>10, Tails DEF DataInv
<1>13. ASSUME NEW n \in 0..(Len(body) + 1), Taking(n)
       PROVE  n + 1 \in 0..(Len(body) + 1) /\ Taking(n + 1)'
  <2>1. /\ n \in Nat /\ Len(toServer) + n >= Len(body) + 2 /\ Len(message) = n
        /\ \A i \in 1..Len(toServer) : toServer[i] = Stream(i + n)
        /\ \A i \in 1..n : Stream(i) # "dot" /\ message[i] = Received(Stream(i))
    BY <1>4, <1>13 DEF Taking
  <2>2. toServer[1] = Stream(n + 1) /\ Stream(n + 1) # "dot"
    <3>1. toServer[1] = Stream(1 + n) /\ 1 + n = n + 1
      BY <1>3, <2>1
    <3> QED BY <1>1, <1>2, <3>1
  <2>3. n + 1 \in 0..(Len(body) + 1)
    <3>1. n + 1 # Len(body) + 2
      BY <1>4, <2>2, StreamIs
    <3> QED BY <1>4, <1>13, <3>1
  <2>4. Len(body') = Len(body) /\ \A i : Stream(i)' = Stream(i)
    BY <1>1 DEF Stream, LinesOf
  <2>5. Len(toServer') + (n + 1) >= Len(body) + 2 /\ Len(message') = n + 1
    BY <1>2, <1>4, <1>8, <2>1
  <2>6. \A i \in 1..Len(toServer') : toServer'[i] = Stream(i + (n + 1))
    <3> SUFFICES ASSUME NEW i \in 1..Len(toServer') PROVE toServer'[i] = Stream(i + (n + 1))
      OBVIOUS
    <3>1. (i + 1) + n = i + (n + 1)
      BY <1>2, <2>1
    <3>2. toServer'[i] = Stream((i + 1) + n)
      BY <1>2, <2>1
    <3> QED BY <3>1, <3>2
  <2>7. \A i \in 1..(n + 1) : Stream(i) # "dot" /\ message'[i] = Received(Stream(i))
    <3> SUFFICES ASSUME NEW i \in 1..(n + 1)
                 PROVE  Stream(i) # "dot" /\ message'[i] = Received(Stream(i))
      OBVIOUS
    <3>1. CASE i = n + 1
      BY <1>8, <2>1, <2>2, <3>1
    <3>2. CASE i # n + 1
      <4>1. i \in 1..n
        BY <2>1, <3>2
      <4> QED BY <1>8, <2>1, <4>1
    <3> QED BY <3>1, <3>2
  <2> QED BY <2>3, <2>4, <2>5, <2>6, <2>7 DEF Taking
<1>14. TextInv'
  <2> SUFFICES ASSUME OneMessage PROVE TextInv'
    BY <1>10 DEF TextInv
  <2>1. CASE cmd \in {"BODY", "QUIT"} /\ \E n \in 0..(Len(body) + 1) : Taking(n)
    <3>1. PICK n \in 0..(Len(body) + 1) : Taking(n)
      BY <2>1
    <3>2. n + 1 \in 0..(Len(body') + 1) /\ Taking(n + 1)'
      BY <1>1, <1>13, <3>1
    <3>3. \E k \in 0..(Len(body') + 1) : Taking(k)'
      BY <3>2
    <3> QED BY <1>1, <2>1, <3>3 DEF TextInv
  <2>2. CASE cmd = "QUIT" /\ \A i \in 1..Len(toServer) : toServer[i] = "QUIT"
    <3>1. \A i \in 1..Len(toServer') : toServer'[i] = "QUIT"
      BY <1>2, <2>2
    <3> QED BY <1>1, <2>2, <3>1 DEF TextInv
  <2> QED BY <1>1, <1>3, <2>1, <2>2 DEF TextInv
<1>15. ReplyInv' /\ VerdictInv' /\ PhaseInv'
  BY <1>1, <1>10 DEF ReplyInv, VerdictInv, PhaseInv
<1>16. AbstractStep
  BY <1>1 DEF AbstractStep, Submission!vars
<1> QED BY <1>9, <1>11, <1>12, <1>14, <1>15, <1>16 DEF PlaceInv

(* A sequence with one element before it. *)
LEMMA OneBefore ==
    ASSUME NEW S, NEW h \in S, NEW r \in Seq(S)
    PROVE  /\ <<h>> \o r \in Seq(S) /\ Len(<<h>> \o r) = Len(r) + 1
           /\ \A i \in 1..(Len(r) + 1) : (<<h>> \o r)[i] = IF i <= 1 THEN h ELSE r[i - 1]
<1>1. <<h>> \in Seq(S) /\ Len(<<h>>) = 1 /\ <<h>>[1] = h /\ Len(r) \in Nat
  OBVIOUS
<1>2. Len(<<h>> \o r) = Len(r) + 1
  BY <1>1, ConcatProperties
<1>3. <<h>> \o r \in Seq(S)
  BY <1>1, ConcatProperties
<1>4. ASSUME NEW i \in 1..(Len(r) + 1)
      PROVE  (<<h>> \o r)[i] = IF i <= 1 THEN h ELSE r[i - 1]
  BY <1>1, <1>4, ConcatProperties
<1> QED BY <1>2, <1>3, <1>4

(* What the server has collected when it meets the dot that is none of the *)
(* text's is the whole of the text.                                        *)
LEMMA MessageArrives ==
    ASSUME body \in Seq(LineKinds), message \in Seq(LineKinds \cup Commands \cup {"header", "stripped"}),
           OneMessage, NEW n \in 0..(Len(body) + 1), Taking(n), Stream(n + 1) = "dot"
    PROVE  n = Len(body) + 1 /\ message = Arrives(body)
<1>1. /\ Stream(1) = "header" /\ Len(body) \in Nat /\ n \in Nat
      /\ \A i \in 1..Len(body) : Stream(i + 1) = body[i]
  BY StreamIs
<1>2. /\ Len(message) = n
      /\ \A i \in 1..n : Stream(i) # "dot" /\ message[i] = Received(Stream(i))
  BY DEF Taking
<1>3. n >= 1
  BY <1>1
<1>4. n = Len(body) + 1
  <2> SUFFICES ASSUME n \in 1..Len(body) PROVE FALSE
    BY <1>1, <1>3
  <2>1. body[n] = "dot"
    BY <1>1
  <2> QED BY <2>1 DEF OneMessage
<1> DEFINE rest == [i \in 1..Len(body) |-> Received(body[i])]
           S    == LineKinds \cup Commands \cup {"header", "stripped"}
<1>7. \A i \in 1..Len(body) : Received(body[i]) \in S
  BY DEF Received
<1>8. rest \in Seq(S) /\ Len(rest) = Len(body)
      /\ \A i \in 1..Len(body) : rest[i] = Received(body[i])
  BY <1>1, <1>7
<1>9. Arrives(body) = <<"header">> \o rest
  BY DEF Arrives
<1> HIDE DEF rest
<1>10. "header" \in S
  OBVIOUS
<1> HIDE DEF S
<1>11. /\ <<"header">> \o rest \in Seq(S) /\ Len(<<"header">> \o rest) = n
       /\ \A i \in 1..n : (<<"header">> \o rest)[i] = IF i <= 1 THEN "header" ELSE rest[i - 1]
  BY <1>4, <1>8, <1>10, OneBefore
<1>12. \A i \in 1..n : (<<"header">> \o rest)[i] = message[i]
  <2> SUFFICES ASSUME NEW i \in 1..n PROVE (<<"header">> \o rest)[i] = message[i]
    OBVIOUS
  <2>1. CASE i = 1
    BY <1>1, <1>2, <1>10, <1>11, <2>1 DEF Received
  <2>2. CASE i # 1
    <3>1. i - 1 \in 1..Len(body) /\ (i - 1) + 1 = i
      BY <1>1, <1>4, <2>2
    <3>2. (<<"header">> \o rest)[i] = rest[i - 1]
      BY <1>1, <1>11, <2>2
    <3>3. Stream(i) = body[i - 1]
      BY <1>1, <3>1
    <3> QED BY <1>2, <1>8, <3>1, <3>2, <3>3
  <2> QED BY <2>1, <2>2
<1>13. message \in Seq(S) /\ Len(message) = n
  BY <1>2 DEF S
<1> QED BY <1>4, <1>9, <1>11, <1>12, <1>13, SeqEqual

LEMMA TakeEndStep == ASSUME PlaceInv, TakeEnd PROVE PlaceInv' /\ AbstractStep
<1>1. /\ TypeOK /\ WireInv /\ DataInv /\ TextInv /\ ReplyInv /\ VerdictInv /\ PhaseInv
      /\ server = "data" /\ TakesLine /\ Head(toServer) = "dot"
      /\ UNCHANGED <<body, phase, cmd, reply, verdict, message>>
  BY DEF PlaceInv, TakeEnd, clientVars, TakesLine
<1>2. /\ Len(toServer) \in Nat /\ Len(toServer) >= 1 /\ Head(toServer) = toServer[1]
      /\ Len(toServer') = Len(toServer) - 1
      /\ toServer' \in Seq(LineKinds \cup Commands \cup {"header"})
      /\ \A i \in 1..Len(toServer') : i + 1 \in 1..Len(toServer) /\ toServer'[i] = toServer[i + 1]
      /\ Unsent(Envelope) => Unsent(Envelope)'
  BY <1>1, Tails
<1>3. /\ 1 \in 1..Len(toServer) /\ toServer # <<>> /\ toServer[1] = "dot"
      /\ body \in Seq(LineKinds) /\ Len(body) \in Nat
  BY <1>1, <1>2, BodiesAssumption DEF TakesLine, TypeOK
<1>4. /\ ~BeforeData /\ Unsent(Envelope)
      /\ cmd = "QUIT" \/ (cmd = "BODY" /\ ~Sending)
  BY <1>1, <1>3, HiddenLine, KindsAre
<1>5. ASSUME OneMessage
      PROVE  message = Arrives(body) /\ mailbox = <<>> /\ Unsent(LineKinds)'
  <2>1. PICK n \in 0..(Len(body) + 1) : Taking(n)
    BY <1>1, <1>3, <1>5 DEF TextInv
  <2>2. Stream(n + 1) = "dot"
    <3>1. toServer[1] = Stream(1 + n) /\ 1 + n = n + 1
      BY <1>3, <2>1 DEF Taking
    <3> QED BY <1>3, <3>1
  <2>3. message \in Seq(LineKinds \cup Commands \cup {"header", "stripped"})
    BY <1>1 DEF TypeOK
  <2>4. n = Len(body) + 1 /\ message = Arrives(body)
    BY <1>3, <1>5, <2>1, <2>2, <2>3, MessageArrives
  <2>5. ASSUME NEW i \in 1..Len(toServer') PROVE toServer'[i] = "QUIT"
    <3>1. i + 1 \in 1..Len(toServer) /\ toServer'[i] = toServer[i + 1]
      BY <1>2
    <3>2. toServer[i + 1] = Stream((i + 1) + n)
      BY <2>1, <3>1 DEF Taking
    <3>3. (i + 1) + n \in Nat /\ (i + 1) + n > Len(body) + 2
      BY <1>2, <1>3, <2>4
    <3> QED BY <1>3, <3>1, <3>2, <3>3, StreamIs
  <2>6. Unsent(LineKinds)'
    BY <2>5, KindsAre DEF Unsent
  <2> QED BY <1>1, <1>5, <2>4, <2>6 DEF DataInv
<1>7. PICK code \in {250, 550} :
         /\ slips' \in 0..MaxSlips /\ toClient' \in Seq(ReplyLine)
         /\ Grows(code) /\ server' = Then(code)
         /\ \/ code = 250 /\ mailbox' = Append(mailbox, message)
            \/ code = 550 /\ mailbox' = mailbox
  <2>1. reply' = reply /\ "BODY" \in Places \cup {"junk"} /\ {250} \in SUBSET Codes
        /\ {550} \in SUBSET Codes
    BY <1>1 DEF Places, Commands, Codes
  <2>2. CASE Answer({250}, "BODY") /\ mailbox' = Append(mailbox, message)
    <3>1. /\ slips' \in 0..MaxSlips /\ toClient' \in Seq(ReplyLine)
          /\ \E code \in {250} : Grows(code) /\ server' = Then(code)
      BY <1>1, <2>1, <2>2, Answers
    <3> QED BY <2>2, <3>1
  <2>3. CASE Answer({550}, "BODY") /\ UNCHANGED mailbox
    <3>1. /\ slips' \in 0..MaxSlips /\ toClient' \in Seq(ReplyLine)
          /\ \E code \in {550} : Grows(code) /\ server' = Then(code)
      BY <1>1, <2>1, <2>3, Answers
    <3> QED BY <2>3, <3>1
  <2> QED BY <2>2, <2>3 DEF TakeEnd
<1>6. /\ mailbox' = mailbox \/ (mailbox' = Append(mailbox, message) /\ mailbox' # <<>>)
      /\ code = 250 => mailbox' # <<>>
  <2> DEFINE S == Seq(LineKinds \cup Commands \cup {"header", "stripped"})
  <2>1. mailbox \in Seq(S) /\ message \in S
    BY <1>1 DEF TypeOK
  <2> HIDE DEF S
  <2>2. Append(mailbox, message) # <<>>
    BY <2>1, AppendProperties
  <2> QED BY <1>7, <2>2
<1>12. /\ Len(Append(mailbox, message)) = Len(mailbox) + 1
       /\ mailbox' \in Seq(Seq(LineKinds \cup Commands \cup {"header", "stripped"}))
  <2> DEFINE S == Seq(LineKinds \cup Commands \cup {"header", "stripped"})
  <2>1. mailbox \in Seq(S) /\ message \in S
    BY <1>1 DEF TypeOK
  <2> HIDE DEF S
  <2>2. Append(mailbox, message) \in Seq(S) /\ Len(Append(mailbox, message)) = Len(mailbox) + 1
    BY <2>1, AppendProperties
  <2> QED BY <1>6, <2>1, <2>2 DEF S
<1>8. server' = "command"
  BY <1>7 DEF Then
<1>9. TypeOK'
  BY <1>1, <1>2, <1>7, <1>8, <1>12 DEF TypeOK
<1>10. WireInv'
  BY <1>1, <1>8, TailWire
<1>11. /\ (BeforeData <=> BeforeData') /\ (Sending <=> Sending')
       /\ (OneMessage' <=> OneMessage) /\ Arrives(body)' = Arrives(body)
  BY <1>1, SameText DEF BeforeData, Sending
<1>13. DataInv'
  BY <1>1, <1>2, <1>4, <1>5, <1>8, <1>11 DEF DataInv
<1>14. TextInv' /\ PhaseInv'
  BY <1>1, <1>8, <1>11 DEF TextInv, PhaseInv
<1>15. ReplyInv'
  <2>1. CASE code = 250
    BY <1>6, <1>7, <1>12, <2>1 DEF ReplyInv
  <2>2. CASE code = 550
    <3>1. (Late => Late') /\ (NotAgreed => NotAgreed') /\ Unread' # <<>>
      BY <1>1, <1>7, <1>9, <2>2, GrowCodes DEF Codes
    <3> QED BY <1>1, <1>7, <2>2, <3>1 DEF ReplyInv
  <2> QED BY <1>7, <2>1, <2>2
<1>16. VerdictInv'
  <2>1. OneMessage => mailbox' \in {<<>>, <<Arrives(body)>>}
    <3>1. OneMessage => Append(mailbox, message) = <<Arrives(body)>>
      BY <1>5
    <3> QED BY <1>5, <1>6, <3>1
  <2>2. verdict = "success" => mailbox' # <<>>
    BY <1>1, <1>6 DEF VerdictInv
  <2> QED BY <1>1, <1>11, <2>1, <2>2 DEF VerdictInv
<1>17. AbstractStep
  <2>1. CASE mailbox' = mailbox
    BY <1>1, <2>1 DEF AbstractStep, Submission!vars
  <2>2. CASE mailbox' = Append(mailbox, message)
    <3>1. Submission!OneMessage => OneMessage
      BY DEF Submission!OneMessage, Submission!HasLine, OneMessage
    <3>2. Submission!Verbatim => Append(mailbox, message) = <<<<"header">> \o body>>
      <4> SUFFICES ASSUME Submission!Verbatim
                   PROVE  Append(mailbox, message) = <<<<"header">> \o body>>
        OBVIOUS
      <4>1. \A i \in 1..Len(body) : body[i] # "dot" /\ Received(body[i]) = body[i]
        BY DEF Submission!Verbatim, Submission!HasLine, Received
      <4>2. [i \in 1..Len(body) |-> Received(body[i])] = body
        BY <1>3, <4>1
      <4>3. OneMessage /\ Arrives(body) = <<"header">> \o body
        BY <4>1, <4>2 DEF OneMessage, Arrives
      <4> QED BY <1>5, <4>3
    <3> QED BY <1>1, <1>5, <1>12, <2>2, <3>1, <3>2
            DEF AbstractStep, Submission!Next, Submission!Take
  <2> QED BY <1>6, <2>1, <2>2
<1> QED BY <1>9, <1>10, <1>13, <1>14, <1>15, <1>16, <1>17 DEF PlaceInv

LEMMA TimeOutStep == ASSUME PlaceInv, TimeOut PROVE PlaceInv' /\ AbstractStep
<1> DEFINE line == [code |-> 421, kind |-> "end", to |-> "timeout"]
<1>1. /\ TypeOK /\ WireInv /\ DataInv /\ TextInv /\ ReplyInv /\ VerdictInv /\ PhaseInv
      /\ server \notin {"off", "closed"} /\ server' = "closed"
      /\ toServer = <<>> /\ toClient' = Append(toClient, line)
      /\ UNCHANGED <<body, slips, phase, cmd, reply, verdict, message, mailbox, toServer>>
  BY DEF PlaceInv, TimeOut, Connected, clientVars
<1>2. line \in ReplyLine /\ line.code = 421
  BY DEF ReplyLine, Codes, Kinds
<1> HIDE DEF line
<1>3. reply \in Seq(ReplyLine) /\ toClient \in Seq(ReplyLine)
  BY <1>1 DEF TypeOK
<1>4. /\ toClient' \in Seq(ReplyLine) /\ Len(toClient') = Len(toClient) + 1
      /\ \A i \in 1..Len(toClient) : toClient'[i] = toClient[i]
      /\ toClient'[Len(toClient) + 1] = line
      /\ Len(reply) \in Nat /\ Len(toClient) \in Nat
  BY <1>1, <1>2, <1>3, AppendProperties
<1>5. /\ Len(Unread) = Len(reply) + Len(toClient)
      /\ \A i \in 1..Len(Unread) :
            Unread[i] = IF i <= Len(reply) THEN reply[i] ELSE toClient[i - Len(reply)]
  BY <1>3, ConcatProperties DEF Unread
<1>6. /\ Len(Unread') = Len(reply) + Len(toClient')
      /\ \A i \in 1..Len(Unread') :
            Unread'[i] = IF i <= Len(reply) THEN reply[i] ELSE toClient'[i - Len(reply)]
  <2>1. Unread' = reply \o toClient'
    BY <1>1 DEF Unread
  <2>2. /\ Len(reply \o toClient') = Len(reply) + Len(toClient')
        /\ \A i \in 1..(Len(reply) + Len(toClient')) :
              (reply \o toClient')[i] = IF i <= Len(reply) THEN reply[i]
                                        ELSE toClient'[i - Len(reply)]
    BY <1>3, <1>4, ConcatProperties
  <2> QED BY <1>4, <2>1, <2>2
<1>7. Grows(421)
  <2>1. Len(Unread') = Len(Unread) + 1 /\ Len(Unread) \in Nat
    BY <1>4, <1>5, <1>6
  <2>2. ASSUME NEW i \in 1..Len(Unread) PROVE Unread'[i] = Unread[i]
    <3>1. CASE i <= Len(reply)
      BY <1>5, <1>6, <2>1, <3>1
    <3>2. CASE ~(i <= Len(reply))
      <4>1. i - Len(reply) \in 1..Len(toClient)
        BY <1>4, <1>5, <2>1, <3>2
      <4> QED BY <1>4, <1>5, <1>6, <2>1, <3>2, <4>1, SMTT(30)
    <3> QED BY <3>1, <3>2
  <2>3. ASSUME NEW i \in 1..Len(Unread'), i > Len(Unread) PROVE Unread'[i].code \in {421, 0}
    <3>1. i - Len(reply) = Len(toClient) + 1 /\ ~(i <= Len(reply))
      <4>1. /\ Len(reply) \in Nat /\ Len(toClient) \in Nat
            /\ Len(Unread) = Len(reply) + Len(toClient)
        BY <1>4, <1>5
      <4>2. i = Len(Unread) + 1
        BY <2>1, <2>3, <4>1
      <4> QED BY <4>1, <4>2
    <3>2. Unread'[i] = line
      BY <1>4, <1>6, <3>1
    <3> QED BY <1>2, <3>2
  <2> QED BY <2>1, <2>2, <2>3 DEF Grows
<1>8. TypeOK'
  BY <1>1, <1>4 DEF TypeOK
<1>9. /\ (NoCode(354) => NoCode(354)') /\ (Late => Late')
      /\ (NotAgreed => NotAgreed') /\ Unread' # <<>>
  BY <1>1, <1>7, <1>8, GrowCodes DEF Codes
<1>10. /\ (BeforeData <=> BeforeData') /\ (Sending <=> Sending')
       /\ (OneMessage' <=> OneMessage) /\ Arrives(body)' = Arrives(body)
  BY <1>1, SameText DEF BeforeData, Sending
<1>11. WireInv' /\ Unsent(Envelope)' /\ Unsent(LineKinds)'
  BY <1>1, EmptyWire
<1>12. DataInv'
  BY <1>1, <1>9, <1>10, <1>11 DEF DataInv
<1>13. TextInv' /\ ReplyInv' /\ VerdictInv' /\ PhaseInv'
  BY <1>1, <1>9, <1>10 DEF TextInv, ReplyInv, VerdictInv, PhaseInv
<1>14. AbstractStep
  BY <1>1 DEF AbstractStep, Submission!vars
<1> QED BY <1>8, <1>11, <1>12, <1>13, <1>14 DEF PlaceInv

LEMMA BreakStep == ASSUME PlaceInv, Break PROVE PlaceInv' /\ AbstractStep
<1>1. /\ TypeOK /\ WireInv /\ DataInv /\ TextInv /\ ReplyInv /\ VerdictInv /\ PhaseInv
      /\ server \notin {"off", "closed"} /\ server' = "closed" /\ toServer' = <<>>
      /\ UNCHANGED <<body, slips, phase, cmd, reply, verdict, message, mailbox>>
  BY DEF PlaceInv, Break, Connected, clientVars
<1>2. reply \in Seq(ReplyLine) /\ toClient \in Seq(ReplyLine) /\ Len(toClient) \in Nat
      /\ Len(reply) \in Nat
  BY <1>1 DEF TypeOK
<1>3. PICK n \in 0..Len(toClient) : toClient' = SubSeq(toClient, 1, n)
  BY DEF Break
<1>4. /\ toClient' \in Seq(ReplyLine) /\ Len(toClient') = n /\ n \in Nat /\ n <= Len(toClient)
      /\ \A i \in 1..n : toClient'[i] = toClient[i]
  BY <1>2, <1>3
<1>5. /\ Len(Unread) = Len(reply) + Len(toClient)
      /\ \A i \in 1..Len(Unread) :
            Unread[i] = IF i <= Len(reply) THEN reply[i] ELSE toClient[i - Len(reply)]
  BY <1>2, ConcatProperties DEF Unread
<1>6. /\ Len(Unread') = Len(reply) + n
      /\ \A i \in 1..Len(Unread') :
            Unread'[i] = IF i <= Len(reply) THEN reply[i] ELSE toClient'[i - Len(reply)]
  <2>1. Unread' = reply \o toClient'
    BY <1>1 DEF Unread
  <2>2. /\ Len(reply \o toClient') = Len(reply) + Len(toClient')
        /\ \A i \in 1..(Len(reply) + Len(toClient')) :
              (reply \o toClient')[i] = IF i <= Len(reply) THEN reply[i]
                                        ELSE toClient'[i - Len(reply)]
    BY <1>2, <1>4, ConcatProperties
  <2> QED BY <1>4, <2>1, <2>2
<1>7. Shrinks(0)
  <2>1. Len(Unread') + 0 <= Len(Unread)
    BY <1>2, <1>4, <1>5, <1>6
  <2>2. ASSUME NEW i \in 1..Len(Unread') PROVE Unread'[i] = Unread[i + 0]
    <3>1. i \in 1..Len(Unread) /\ i + 0 = i
      BY <1>2, <1>4, <1>5, <1>6
    <3>2. CASE i <= Len(reply)
      BY <1>5, <1>6, <3>1, <3>2
    <3>3. CASE ~(i <= Len(reply))
      <4>1. i - Len(reply) \in 1..n
        BY <1>2, <1>4, <1>6, <3>3
      <4> QED BY <1>4, <1>5, <1>6, <3>1, <3>3, <4>1
    <3> QED BY <3>2, <3>3
  <2> QED BY <2>1, <2>2 DEF Shrinks
<1>8. TypeOK'
  <2>1. toServer' \in Seq(LineKinds \cup Commands \cup {"header"})
    BY <1>1
  <2> QED BY <1>1, <1>4, <2>1 DEF TypeOK
<1>9. (NoCode(354) => NoCode(354)') /\ (NotAgreed => NotAgreed') /\ (Late => Late')
  BY <1>1, <1>7, <1>8, ShrinkCodes DEF Codes
<1>10. /\ (BeforeData <=> BeforeData') /\ (Sending <=> Sending')
       /\ (OneMessage' <=> OneMessage) /\ Arrives(body)' = Arrives(body)
  BY <1>1, SameText DEF BeforeData, Sending
<1>11. WireInv' /\ Unsent(Envelope)' /\ Unsent(LineKinds)'
  BY <1>1, EmptyWire
<1>12. DataInv'
  BY <1>1, <1>9, <1>10, <1>11 DEF DataInv
<1>13. TextInv' /\ ReplyInv' /\ VerdictInv' /\ PhaseInv'
  BY <1>1, <1>9, <1>10 DEF TextInv, ReplyInv, VerdictInv, PhaseInv
<1>14. AbstractStep
  BY <1>1 DEF AbstractStep, Submission!vars
<1> QED BY <1>8, <1>11, <1>12, <1>13, <1>14 DEF PlaceInv

-----------------------------------------------------------------------------
LEMMA InitStep == ASSUME Init PROVE PlaceInv /\ Submission!Init
<1>1. /\ body \in Bodies /\ body \in Seq(LineKinds) /\ slips = 0 /\ phase = "start"
      /\ cmd = "greeting" /\ reply = <<>> /\ verdict = "none" /\ server = "off"
      /\ message = <<>> /\ mailbox = <<>> /\ toServer = <<>> /\ toClient = <<>>
  BY BodiesAssumption DEF Init
<1>2. Unread = <<>> /\ Len(Unread) = 0 /\ Len(toServer) = 0
  BY <1>1 DEF Unread
<1>3. NoCode(354) /\ Late /\ Unsent(Envelope) /\ Unsent(LineKinds)
  BY <1>2 DEF NoCode, Late, Unsent
<1>4. TypeOK
  BY <1>1, MaxSlipsAssumption DEF TypeOK, Places
<1>5. WireInv
  BY <1>1, <1>2, <1>3 DEF WireInv, Sending
<1>6. DataInv /\ TextInv /\ ReplyInv /\ VerdictInv /\ PhaseInv
  BY <1>1, <1>3 DEF DataInv, TextInv, ReplyInv, VerdictInv, PhaseInv, Sending
<1>7. Submission!Init
  BY <1>1 DEF Submission!Init, LineKinds
<1> QED BY <1>4, <1>5, <1>6, <1>7 DEF PlaceInv

LEMMA Stuttering == ASSUME PlaceInv, UNCHANGED vars PROVE PlaceInv' /\ AbstractStep
<1>1. UNCHANGED <<body, slips, phase, cmd, reply, verdict, server, message, mailbox,
                  toServer, toClient>>
  BY DEF vars, clientVars, serverVars
<1>6. /\ (OneMessage' <=> OneMessage) /\ Arrives(body)' = Arrives(body) /\ Unread' = Unread
      /\ \A i : Stream(i)' = Stream(i)
      /\ Unsent(Envelope)' <=> Unsent(Envelope)
      /\ Unsent(LineKinds)' <=> Unsent(LineKinds)
  BY <1>1, SameText, SameWire DEF Unread
<1>7. (NoCode(354) <=> NoCode(354)') /\ (NotAgreed <=> NotAgreed') /\ (Late <=> Late')
  BY <1>6 DEF NoCode, NotAgreed, Late
<1>8. (BeforeData <=> BeforeData') /\ (Sending <=> Sending')
  BY <1>1 DEF BeforeData, Sending
<1>2. TypeOK' /\ WireInv'
  BY <1>1, <1>6, <1>8 DEF PlaceInv, TypeOK, WireInv
<1>3. DataInv' /\ ReplyInv'
  BY <1>1, <1>6, <1>7, <1>8 DEF PlaceInv, DataInv, ReplyInv
<1>4. TextInv' /\ VerdictInv' /\ PhaseInv'
  BY <1>1, <1>6, <1>8 DEF PlaceInv, TextInv, VerdictInv, PhaseInv, Taking
<1>5. AbstractStep
  BY <1>1 DEF AbstractStep, Submission!vars
<1> QED BY <1>2, <1>3, <1>4, <1>5 DEF PlaceInv

LEMMA EveryStep == ASSUME PlaceInv, [Next]_vars PROVE PlaceInv' /\ AbstractStep
  BY ReadLineStep, FailureSteps, Connections, WriteStep, GreetStep, TakeCommandStep,
     TakeTextStep, TakeEndStep, TimeOutStep, BreakStep, Stuttering
     DEF Next, ClientStep, ServerStep

-----------------------------------------------------------------------------
(* In step: what the client reads answers the command it waits for. *)

LEMMA StepInit == ASSUME Init PROVE StepInv
<1>1. /\ slips = 0 /\ phase = "start" /\ cmd = "greeting" /\ reply = <<>>
      /\ server = "off" /\ message = <<>> /\ toServer = <<>> /\ toClient = <<>>
  BY DEF Init
<1>2. Len(toClient) = 0 /\ Len(toServer) = 0 /\ Len(message) = 0
  BY <1>1
<1> QED BY <1>1, <1>2 DEF StepInv, AnswerInv, AskInv, CollectInv, LastWordInv, Unsent

LEMMA SameStepInv ==
    ASSUME StepInv,
           UNCHANGED <<body, slips, phase, cmd, reply, server, message, toServer, toClient>>
    PROVE  StepInv'
  BY DEF StepInv, Paced, ByTheBook, OneMessage, AnswerInv, AskInv, CollectInv, Ending,
         LastWordInv, Unread, Unsent

(* The parts of the invariant, where the prover is to see them. *)
LEMMA StepFacts ==
    ASSUME IInv
    PROVE  /\ TypeOK /\ WireInv /\ DataInv /\ PhaseInv
           /\ Paced => AnswerInv /\ AskInv
           /\ slips = 0 => CollectInv
           /\ LastWordInv /\ DotInv
  BY DEF IInv, PlaceInv, StepInv

(* Nothing leads back to the book. *)
LEMMA Paces ==
    ASSUME TypeOK, TypeOK', body' = body, slips' >= slips,
           cmd \in {"BODY", "QUIT"} => cmd' \in {"BODY", "QUIT"}
    PROVE  /\ slips' = 0 => slips = 0
           /\ ByTheBook' => ByTheBook
           /\ Paced' => Paced
<1>1. slips \in Nat /\ slips' \in Nat
  BY MaxSlipsAssumption DEF TypeOK
<1>2. slips' = 0 => slips = 0
  BY <1>1
<1>3. ByTheBook' => ByTheBook
  BY <1>2 DEF ByTheBook, OneMessage
<1> QED BY <1>2, <1>3 DEF Paced

(* What is written to the client when nothing is out of order. *)
LEMMA AnswersInOrder ==
    ASSUME TypeOK, NEW codes \in SUBSET Codes, NEW to \in Places \cup {"junk"},
           Answer(codes, to)
    PROVE  \E code \in codes :
              /\ server' = Then(code) /\ slips' >= slips
              /\ \A i \in 1..Len(toClient') :
                    (i \in 1..Len(toClient) /\ toClient'[i] = toClient[i]) \/ toClient'[i].to = to
              /\ slips' = 0 /\ toClient = <<>> =>
                    /\ toClient' # <<>> /\ toClient'[1].code = code
                    /\ \A i \in 1..Len(toClient') :
                          /\ toClient'[i].to = to
                          /\ toClient'[i].kind = IF i = Len(toClient') THEN "end" ELSE "more"
<1>1. PICK code \in codes, kinds \in UNION {[1..n -> Kinds] : n \in 1..MaxLines} :
         /\ slips' = slips + (IF Orderly(kinds) THEN 0 ELSE 1)
         /\ toClient' = toClient \o ReplyFor(code, to, kinds)
         /\ server' = Then(code)
  BY DEF Answer
<1>2. PICK n \in 1..MaxLines : kinds \in [1..n -> Kinds]
  OBVIOUS
<1> DEFINE R == ReplyFor(code, to, kinds)
<1>3. n \in Nat /\ n >= 1 /\ Len(kinds) = n /\ slips \in Nat
  BY <1>2, MaxLinesAssumption, MaxSlipsAssumption DEF TypeOK
<1>4. R = [i \in 1..n |-> [code |-> IF kinds[i] \in {"more", "end"} THEN code ELSE 0,
                           kind |-> kinds[i], to |-> to]]
  BY <1>3 DEF ReplyFor
<1>5. ASSUME NEW i \in 1..n
      PROVE  [code |-> IF kinds[i] \in {"more", "end"} THEN code ELSE 0,
              kind |-> kinds[i], to |-> to] \in ReplyLine
  BY <1>2 DEF ReplyLine, Codes
<1>6. R \in Seq(ReplyLine) /\ Len(R) = n
  BY <1>3, <1>4, <1>5
<1>7. \A i \in 1..n : /\ R[i].to = to /\ R[i].kind = kinds[i]
                      /\ kinds[i] \in {"more", "end"} => R[i].code = code
  BY <1>4
<1> HIDE DEF R
<1>8. toClient' = toClient \o R /\ toClient \in Seq(ReplyLine)
  BY <1>1 DEF R, TypeOK
<1>9. slips' >= slips /\ (slips' = 0 => Orderly(kinds))
  BY <1>1, <1>3
<1>10. ASSUME NEW i \in 1..Len(toClient')
       PROVE  (i \in 1..Len(toClient) /\ toClient'[i] = toClient[i]) \/ toClient'[i].to = to
  <2>1. /\ Len(toClient') = Len(toClient) + n /\ Len(toClient) \in Nat
        /\ toClient'[i] = IF i <= Len(toClient) THEN toClient[i] ELSE R[i - Len(toClient)]
    <3>1. /\ Len(toClient \o R) = Len(toClient) + Len(R)
          /\ \A j \in 1..(Len(toClient) + Len(R)) :
                (toClient \o R)[j] = IF j <= Len(toClient) THEN toClient[j]
                                     ELSE R[j - Len(toClient)]
      BY <1>6, <1>8, ConcatProperties
    <3>2. Len(toClient) \in Nat
      BY <1>8
    <3> QED BY <1>6, <1>8, <1>10, <3>1, <3>2
  <2>2. CASE i <= Len(toClient)
    BY <2>1, <2>2
  <2>3. CASE ~(i <= Len(toClient))
    <3>1. i - Len(toClient) \in 1..n
      BY <1>3, <2>1, <2>3
    <3> QED BY <1>7, <2>1, <2>3, <3>1
  <2> QED BY <2>2, <2>3
<1>11. ASSUME slips' = 0, toClient = <<>>
       PROVE  /\ toClient' # <<>> /\ toClient'[1].code = code
              /\ \A i \in 1..Len(toClient') :
                    /\ toClient'[i].to = to
                    /\ toClient'[i].kind = IF i = Len(toClient') THEN "end" ELSE "more"
  <2>1. toClient' = R
    BY <1>6, <1>8, <1>11, ConcatEmptySeq
  <2>2. \A i \in 1..n : kinds[i] = IF i = n THEN "end" ELSE "more"
    BY <1>3, <1>9, <1>11 DEF Orderly
  <2> QED BY <1>3, <1>6, <1>7, <2>1, <2>2
<1> QED BY <1>1, <1>9, <1>10, <1>11

-----------------------------------------------------------------------------
(* The client judges a reply or a failure. *)
LEMMA JudgeInStep ==
    ASSUME IInv, TypeOK', NEW ok \in BOOLEAN, Judge(ok), reply' = <<>>,
           UNCHANGED <<body, slips, server, message, toServer>>,
           Paced => /\ toServer = <<>> /\ server # "greeting"
                    /\ cmd = "QUIT" => server \in {"off", "closed"}
                    /\ \A i \in 1..Len(toClient') :
                          toClient'[i].to = "timeout" /\ toClient'[i].kind \in {"more", "end"},
           slips = 0 /\ server = "data" => Ending \/ (ok /\ cmd = "DATA" /\ Unread' = <<>>),
           slips = 0 /\ cmd = "DATA" => Unsent({"DATA"}),
           \A i \in 1..Len(toClient') :
              toClient'[i].to \in {"timeout", "QUIT"} => server = "closed"
    PROVE  StepInv'
<1> USE StepFacts
<1>1. cmd \in Places
  BY DEF TypeOK
<1>2. cmd \in {"BODY", "QUIT"} => cmd' \in {"BODY", "QUIT"}
  BY <1>1, Judged
<1>3. slips' >= slips
  BY MaxSlipsAssumption DEF TypeOK
<1>4. (Paced' => Paced) /\ (ByTheBook' => ByTheBook)
  BY <1>2, <1>3, Paces
<1>5. Paced' => AnswerInv' /\ AskInv'
  <2> SUFFICES ASSUME Paced' PROVE AnswerInv' /\ AskInv'
    OBVIOUS
  <2>1. /\ toServer' = <<>> /\ server' # "greeting" /\ Len(toServer') = 0
        /\ \A i \in 1..Len(toClient') :
              toClient'[i].to = "timeout" /\ toClient'[i].kind \in {"more", "end"}
    BY <1>4
  <2>2. AskInv'
    BY <2>1 DEF AskInv
  <2>3. Len(toClient') \in Nat
    BY DEF TypeOK
  <2>4. AnswerInv'
    BY <2>1, <2>3 DEF AnswerInv
  <2> QED BY <2>2, <2>4
<1>6. slips' = 0 => CollectInv'
  <2> SUFFICES ASSUME slips = 0 PROVE CollectInv'
    OBVIOUS
  <2>1. cmd = "DATA" /\ ok => cmd' = "BODY"
    BY <1>1, Judged
  <2>2. server' = "data" => Ending' \/ (cmd' = "BODY" /\ Unread' = <<>>)
    BY <2>1 DEF Ending, OneMessage
  <2>3. Unsent({"DATA"}) /\ \A i \in 1..Len(message) : message[i] # "QUIT"
    BY DEF CollectInv
  <2>4. Unsent({"DATA"})'
    BY <2>3 DEF Unsent
  <2> QED BY <2>2, <2>3, <2>4 DEF CollectInv
<1>7. LastWordInv'
  <2>1. phase' = "ended" => cmd = "QUIT"
    BY <1>1, Judged
  <2>2. ByTheBook /\ phase' = "ended" => server' \in {"off", "closed"}
    BY <2>1 DEF Paced, ByTheBook, OneMessage
  <2> QED BY <1>4, <2>2 DEF LastWordInv
<1> QED BY <1>5, <1>6, <1>7 DEF StepInv

(* A line is read, and with it perhaps the end of a reply. *)
LEMMA ReadInStep == ASSUME IInv, TypeOK', ReadLine PROVE StepInv'
<1> USE StepFacts
<1> DEFINE line  == Head(toClient)
           lines == Append(reply, line)
<1>1. /\ phase = "read" /\ toClient # <<>> /\ toClient' = Tail(toClient)
      /\ UNCHANGED <<body, slips, server, message, toServer>>
      /\ \/ Complete(lines) /\ reply' = <<>> /\ Judge(HasExpectedCode(lines))
         \/ reply' = lines /\ UNCHANGED <<phase, cmd, verdict>>
  BY DEF ReadLine, serverVars
<1>2. reply \in Seq(ReplyLine) /\ toClient \in Seq(ReplyLine)
  BY DEF TypeOK
<1>3. /\ line = toClient[1] /\ line \in ReplyLine /\ Len(toClient) \in Nat /\ 1 <= Len(toClient)
      /\ toClient' \in Seq(ReplyLine) /\ Len(toClient') = Len(toClient) - 1
      /\ \A i \in 1..Len(toClient') : i + 1 \in 1..Len(toClient) /\ toClient'[i] = toClient[i + 1]
  <2>1. /\ line = toClient[1] /\ line \in ReplyLine /\ Len(toClient) \in Nat
        /\ 1 <= Len(toClient) /\ toClient' \in Seq(ReplyLine)
        /\ Len(toClient') = Len(toClient) - 1
        /\ \A i \in 1..Len(toClient') : toClient'[i] = toClient[i + 1]
    BY <1>1, <1>2, HeadTailProperties
  <2>2. \A i \in 1..Len(toClient') : i + 1 \in 1..Len(toClient)
    BY <2>1
  <2> QED BY <2>1, <2>2
<1>4. /\ lines \in Seq(ReplyLine) /\ Len(lines) = Len(reply) + 1 /\ Len(reply) \in Nat
      /\ \A i \in 1..Len(reply) : lines[i] = reply[i]
      /\ lines[Len(reply) + 1] = line
  BY <1>2, <1>3, AppendProperties
<1>5. Last(lines) = line /\ Head(lines) = lines[1]
  BY <1>4 DEF Last
<1> HIDE DEF line, lines
<1>6. Unread[1] = lines[1] /\ Unread # <<>>
  <2>1. /\ Len(Unread) = Len(reply) + Len(toClient)
        /\ \A i \in 1..Len(Unread) :
              Unread[i] = IF i <= Len(reply) THEN reply[i] ELSE toClient[i - Len(reply)]
    BY <1>2, ConcatProperties DEF Unread
  <2>2. 1 \in 1..Len(Unread)
    BY <1>3, <1>4, <2>1
  <2> QED BY <1>3, <1>4, <2>1, <2>2
<1>7. \A i \in 1..Len(toClient') :
         toClient'[i].to \in {"timeout", "QUIT"} => server = "closed"
  BY <1>3 DEF LastWordInv
<1>8. slips = 0 /\ cmd = "DATA" => Paced
  BY DEF Paced
<1>9. 1 \in 1..Len(toClient)
  BY <1>3
<1>10. slips = 0 /\ server = "data" => Ending \/ (cmd = "DATA" /\ lines[1].code = 354)
  BY <1>6 DEF CollectInv
<1>11. CASE Complete(lines) /\ reply' = <<>> /\ Judge(HasExpectedCode(lines))
  <2>1. Paced => line.kind = "end"
    BY <1>3, <1>5, <1>9, <1>11 DEF AnswerInv, Complete
  <2>2. Paced => \A i \in 1..Len(toClient') :
                    toClient'[i].to = "timeout" /\ toClient'[i].kind \in {"more", "end"}
    <3> SUFFICES ASSUME Paced, NEW i \in 1..Len(toClient')
                 PROVE  toClient'[i].to = "timeout" /\ toClient'[i].kind \in {"more", "end"}
      OBVIOUS
    <3>1. toClient[1].kind = "end" /\ i + 1 \in (1 + 1)..Len(toClient)
      BY <1>3, <2>1
    <3>2. toClient[i + 1].to = "timeout" /\ toClient[i + 1].kind \in {"more", "end"}
      BY <1>3, <1>9, <3>1 DEF AnswerInv
    <3> QED BY <1>3, <3>2
  <2>3. Paced => toServer = <<>> /\ server # "greeting"
    BY <1>1, <1>6 DEF AskInv
  <2>4. Paced /\ cmd = "QUIT" => server \in {"off", "closed"}
    BY <1>9 DEF AnswerInv, LastWordInv
  <2>5. slips = 0 /\ server = "data" => Ending \/ (Unread' = <<>> /\ HasExpectedCode(lines))
    <3> SUFFICES ASSUME slips = 0, server = "data", ~Ending
                 PROVE  Unread' = <<>> /\ HasExpectedCode(lines)
      OBVIOUS
    <3>1. Paced /\ cmd = "DATA" /\ lines[1].code = 354
      BY <1>8, <1>10
    <3>2. Len(toClient') = 0
      <4>1. Len(toClient') \in Nat
        BY <1>3
      <4>2. ~(1 \in 1..Len(toClient'))
        BY <1>7, <2>2, <3>1
      <4> QED BY <4>1, <4>2
    <3>3. toClient' = <<>>
      BY <1>3, <3>2
    <3>4. Unread' = <<>>
      BY <1>11, <3>3 DEF Unread
    <3> QED BY <1>5, <3>1, <3>4 DEF HasExpectedCode, Expected
  <2>6. slips = 0 /\ cmd = "DATA" => Unsent({"DATA"})
    BY <1>8, <2>3 DEF Unsent
  <2>7. HasExpectedCode(lines) \in BOOLEAN
    BY DEF HasExpectedCode
  <2> QED BY <1>1, <1>7, <1>10, <1>11, <2>2, <2>3, <2>4, <2>5, <2>6, <2>7, JudgeInStep
<1>12. CASE reply' = lines /\ UNCHANGED <<phase, cmd, verdict>>
  <2>1. (Paced <=> Paced') /\ (ByTheBook <=> ByTheBook')
    BY <1>1, <1>12 DEF Paced, ByTheBook, OneMessage
  <2>2. Unread' # <<>> /\ Unread'[1] = lines[1]
    <3>1. Unread' = lines \o toClient'
      BY <1>12 DEF Unread
    <3>2. /\ Len(lines \o toClient') = Len(lines) + Len(toClient')
          /\ \A i \in 1..(Len(lines) + Len(toClient')) :
                (lines \o toClient')[i] = IF i <= Len(lines) THEN lines[i]
                                          ELSE toClient'[i - Len(lines)]
      BY <1>3, <1>4, ConcatProperties
    <3>3. 1 \in 1..(Len(lines) + Len(toClient')) /\ 1 <= Len(lines)
      BY <1>3, <1>4
    <3>4. (lines \o toClient')[1] = lines[1] /\ Len(lines \o toClient') # 0
      BY <3>2, <3>3
    <3> QED BY <3>1, <3>4
  <2>3. Paced => AnswerInv'
    <3> SUFFICES ASSUME Paced, NEW i \in 1..Len(toClient')
                 PROVE  /\ toClient'[i].kind \in {"more", "end"}
                        /\ toClient'[i].to = "timeout" \/ toClient'[i].to = cmd
                        /\ toClient'[i].kind = "end" =>
                              \A j \in (i + 1)..Len(toClient') : toClient'[j].to = "timeout"
      BY <1>1, <1>12 DEF AnswerInv
    <3>1. i + 1 \in 1..Len(toClient) /\ toClient'[i] = toClient[i + 1]
      BY <1>3
    <3>2. \A j \in (i + 1)..Len(toClient') :
             j + 1 \in ((i + 1) + 1)..Len(toClient) /\ toClient'[j] = toClient[j + 1]
      BY <1>3
    <3> QED BY <3>1, <3>2 DEF AnswerInv
  <2>4. Paced => AskInv'
    <3>1. Paced => toServer' = <<>> /\ server' # "greeting" /\ Len(toServer') = 0
      BY <1>1, <1>6 DEF AskInv
    <3> QED BY <3>1 DEF AskInv
  <2>5. slips = 0 => CollectInv'
    <3> SUFFICES ASSUME slips = 0 PROVE CollectInv'
      OBVIOUS
    <3>1. (Unsent({"DATA"}) <=> Unsent({"DATA"})') /\ message' = message
      BY <1>1 DEF Unsent
    <3>2. server' = "data" => \/ Ending'
                              \/ /\ cmd' = "DATA" /\ toServer' = <<>>
                                 /\ Unread' # <<>> /\ Unread'[1].code = 354
      BY <1>1, <1>6, <1>10, <1>12, <2>2 DEF CollectInv, Ending, OneMessage
    <3> QED BY <1>12, <3>1, <3>2 DEF CollectInv
  <2>6. LastWordInv'
    BY <1>1, <1>7, <1>12, <2>1 DEF LastWordInv
  <2> QED BY <1>1, <2>1, <2>3, <2>4, <2>5, <2>6 DEF StepInv
<1> QED BY <1>1, <1>11, <1>12

(* A failure: the server is gone, and nothing is on its way to it. *)
LEMMA FailsInStep == ASSUME IInv, TypeOK', WriteFail \/ BrokenPipe \/ ReadEnd PROVE StepInv'
<1> USE StepFacts
<1>1. /\ UNCHANGED <<body, slips, server, message, toServer, toClient>>
      /\ server \in {"off", "closed"} /\ reply' = <<>>
    BY DEF WriteFail, BrokenPipe, ReadEnd, serverVars, Connected, TypeOK
<1>2. toServer = <<>> /\ Len(toServer) = 0 /\ Len(toServer') = 0
  BY <1>1 DEF WireInv
<1>3. \A i \in 1..Len(toClient') : toClient'[i].to \in {"timeout", "QUIT"} => server = "closed"
  BY <1>1 DEF LastWordInv
<1>4. CASE WriteFail \/ ReadEnd
  <2>1. Judge(FALSE)
    BY <1>4 DEF WriteFail, ReadEnd
  <2>2. Paced => \A i \in 1..Len(toClient') :
                    toClient'[i].to = "timeout" /\ toClient'[i].kind \in {"more", "end"}
    <3>1. CASE WriteFail
      BY <1>1, <3>1 DEF AnswerInv, WriteFail
    <3>2. CASE ReadEnd
      <4>1. Len(toClient') = 0
        BY <3>2 DEF ReadEnd
      <4> QED BY <4>1
    <3> QED BY <1>4, <3>1, <3>2
  <2>3. Unsent({"DATA"})
    BY <1>2 DEF Unsent
  <2> QED BY <1>1, <1>2, <1>3, <2>1, <2>2, <2>3, JudgeInStep
<1>5. CASE BrokenPipe
  <2>1. /\ phase = "send" /\ phase' = "killed"
        /\ UNCHANGED <<body, slips, cmd, reply, server, message, toServer, toClient>>
    BY <1>5 DEF BrokenPipe, serverVars
  <2> QED BY <1>1, <2>1 DEF StepInv, Paced, ByTheBook, OneMessage, AnswerInv, AskInv, CollectInv,
                            Ending, LastWordInv, Unread, Unsent
<1> QED BY <1>4, <1>5

LEMMA ConnectsInStep == ASSUME IInv, TypeOK', Connect \/ ConnectFail PROVE StepInv'
<1> USE StepFacts
<1>1. /\ phase = "start" /\ server = "off" /\ cmd = "greeting" /\ reply = <<>> /\ toServer = <<>>
      /\ UNCHANGED <<body, slips, cmd, reply, message, toServer, toClient>>
      /\ \/ phase' = "read" /\ server' = "greeting"
         \/ phase' = "ended" /\ server' = "off"
  BY DEF Connect, ConnectFail, serverVars, PhaseInv, WireInv, TypeOK
<1>2. Len(toServer) = 0 /\ Len(toClient) \in Nat
  BY <1>1 DEF TypeOK
<1>3. Paced => toClient = <<>>
  <2>1. \A i \in 1..Len(toClient) : toClient[i].to # "timeout"
    BY <1>1 DEF LastWordInv
  <2>2. Paced => ~(1 \in 1..Len(toClient))
    BY <1>1, <2>1 DEF AnswerInv
  <2> QED BY <1>2, <2>2 DEF TypeOK
<1>4. (Paced' <=> Paced) /\ (ByTheBook' <=> ByTheBook)
  BY <1>1 DEF Paced, ByTheBook, OneMessage
<1>5. Paced' => AnswerInv' /\ AskInv'
  <2> SUFFICES ASSUME Paced PROVE AnswerInv' /\ AskInv'
    BY <1>4
  <2>1. toClient' = <<>> /\ Len(toClient') = 0 /\ toServer' = <<>>
    BY <1>1, <1>3
  <2> QED BY <1>1, <2>1 DEF AnswerInv, AskInv
<1>6. slips' = 0 => CollectInv'
  BY <1>1, <1>2 DEF CollectInv, Unsent
<1>7. LastWordInv'
  BY <1>1 DEF LastWordInv
<1> QED BY <1>5, <1>6, <1>7 DEF StepInv

(* The text as it is written has one line that ends it. *)
LEMMA TextLines ==
    ASSUME TypeOK
    PROVE  /\ Len(LinesOf("BODY")) = Len(body) + 2
           /\ ByTheBook => \A i \in 1..Len(LinesOf("BODY")) :
                              LinesOf("BODY")[i] = "dot" => i = Len(LinesOf("BODY"))
           /\ \A i \in 1..Len(LinesOf("BODY")) : LinesOf("BODY")[i] # "DATA"
<1> DEFINE T == LineKinds \cup {"header"}
           B == <<"header">> \o body
           E == B \o <<"dot">>
<1>1. body \in Seq(T) /\ Len(body) \in Nat /\ \A i \in 1..Len(body) : body[i] \in LineKinds
  BY BodiesAssumption DEF TypeOK
<1>2. /\ <<"header">> \in Seq(T) /\ Len(<<"header">>) = 1 /\ <<"header">>[1] = "header"
      /\ <<"dot">> \in Seq(T) /\ Len(<<"dot">>) = 1 /\ <<"dot">>[1] = "dot"
  BY DEF LineKinds
<1>3. LinesOf("BODY") = E
  BY DEF LinesOf
<1>4. B \in Seq(T) /\ Len(B) = 1 + Len(body)
      /\ \A i \in 1..(1 + Len(body)) : B[i] = IF i <= 1 THEN <<"header">>[i] ELSE body[i - 1]
  <2> HIDE DEF T
  <2> QED BY <1>1, <1>2, ConcatProperties
<1>5. \A i \in 1..Len(B) : B[i] = "header" \/ \E j \in 1..Len(body) : B[i] = body[j]
  <2> SUFFICES ASSUME NEW i \in 1..Len(B)
               PROVE  B[i] = "header" \/ \E j \in 1..Len(body) : B[i] = body[j]
    OBVIOUS
  <2>1. CASE i = 1
    BY <1>1, <1>2, <1>4, <2>1
  <2>2. CASE i # 1
    <3>1. i - 1 \in 1..Len(body) /\ B[i] = body[i - 1]
      BY <1>1, <1>4, <2>2
    <3> QED BY <3>1
  <2> QED BY <2>1, <2>2
<1> HIDE DEF B
<1>6. /\ Len(E) = Len(B) + 1 /\ Len(B) \in Nat
      /\ \A i \in 1..(Len(B) + 1) : E[i] = IF i <= Len(B) THEN B[i] ELSE <<"dot">>[i - Len(B)]
  <2> HIDE DEF T
  <2> QED BY <1>2, <1>4, ConcatProperties
<1> HIDE DEF E
<1>7. \A i \in 1..Len(E) : (i \in 1..Len(B) /\ E[i] = B[i]) \/ (i = Len(E) /\ E[i] = "dot")
  <2> SUFFICES ASSUME NEW i \in 1..Len(E)
               PROVE  (i \in 1..Len(B) /\ E[i] = B[i]) \/ (i = Len(E) /\ E[i] = "dot")
    OBVIOUS
  <2>1. CASE i <= Len(B)
    BY <1>6, <2>1
  <2>2. CASE ~(i <= Len(B))
    <3>1. i = Len(B) + 1 /\ i - Len(B) = 1
      BY <1>6, <2>2
    <3> QED BY <1>2, <1>6, <2>2, <3>1
  <2> QED BY <2>1, <2>2
<1>8. Len(E) = Len(body) + 2
  BY <1>1, <1>4, <1>6
<1>9. ByTheBook => \A i \in 1..Len(E) : E[i] = "dot" => i = Len(E)
  BY <1>5, <1>7 DEF ByTheBook, OneMessage
<1>10. \A i \in 1..Len(E) : E[i] # "DATA"
  BY <1>1, <1>5, <1>7, KindsAre
<1> QED BY <1>3, <1>8, <1>9, <1>10

(* What is written comes after what is on its way. *)
LEMMA Written ==
    ASSUME TypeOK, Write, Connected
    PROVE  /\ Len(toServer') = Len(toServer) + Len(LinesOf(cmd))
           /\ Len(toServer) \in Nat /\ Len(LinesOf(cmd)) \in Nat
           /\ \A i \in 1..Len(toServer) : i \in 1..Len(toServer') /\ toServer'[i] = toServer[i]
           /\ \A i \in 1..Len(toServer') : i > Len(toServer) =>
                 /\ i - Len(toServer) \in 1..Len(LinesOf(cmd))
                 /\ toServer'[i] = LinesOf(cmd)[i - Len(toServer)]
<1> DEFINE S == LineKinds \cup Places \cup {"header"}
           L == LinesOf(cmd)
<1>1. L \in Seq(S)
  <2>1. CASE cmd = "BODY"
    <3>1. body \in Seq(S)
      BY BodiesAssumption DEF TypeOK
    <3> QED BY <2>1, <3>1 DEF LinesOf, LineKinds
  <2>2. CASE cmd # "BODY"
    <3>1. L = <<cmd>> /\ cmd \in S
      BY <2>2 DEF LinesOf, TypeOK
    <3> QED BY <3>1
  <2> QED BY <2>1, <2>2
<1>2. toServer \in Seq(S) /\ toServer' = toServer \o L
  BY DEF Write, TypeOK, Places
<1> HIDE DEF S, L
<1>3. /\ Len(toServer \o L) = Len(toServer) + Len(L)
      /\ Len(toServer) \in Nat /\ Len(L) \in Nat
      /\ \A i \in 1..(Len(toServer) + Len(L)) :
            (toServer \o L)[i] = IF i <= Len(toServer) THEN toServer[i] ELSE L[i - Len(toServer)]
  BY <1>1, <1>2, ConcatProperties
<1>4. \A i \in 1..Len(toServer) : i \in 1..Len(toServer') /\ toServer'[i] = toServer[i]
  BY <1>2, <1>3
<1>5. ASSUME NEW i \in 1..Len(toServer'), i > Len(toServer)
      PROVE  i - Len(toServer) \in 1..Len(L) /\ toServer'[i] = L[i - Len(toServer)]
  BY <1>2, <1>3, <1>5
<1> QED BY <1>2, <1>3, <1>4, <1>5 DEF L

LEMMA WritesInStep == ASSUME IInv, TypeOK', Write PROVE StepInv'
<1> USE StepFacts
<1>1. /\ phase = "send" /\ phase' = "read" /\ reply = <<>>
      /\ UNCHANGED <<body, slips, cmd, reply, server, message, toClient>>
      /\ toServer' = IF Connected THEN toServer \o LinesOf(cmd) ELSE toServer
      /\ cmd \in Commands
  BY DEF Write, serverVars, TypeOK, PhaseInv, Sending, Places
<1>2. (Paced' <=> Paced) /\ (ByTheBook' <=> ByTheBook) /\ Unread' = Unread
  BY <1>1 DEF Paced, ByTheBook, OneMessage, Unread
<1>3. Len(toClient) \in Nat /\ toClient \in Seq(ReplyLine)
  BY DEF TypeOK
<1>4. Paced => toServer = <<>> /\ (toClient = <<>> \/ server = "closed")
  <2>1. Paced => toServer = <<>>
    BY <1>1 DEF AskInv
  <2>2. Paced /\ 1 \in 1..Len(toClient) => server = "closed"
    BY <1>1 DEF AnswerInv, LastWordInv
  <2> QED BY <1>3, <2>1, <2>2
<1>5. Paced /\ Connected => Unread = <<>>
  BY <1>1, <1>4 DEF Connected, Unread
<1>6. ~Connected => toServer' = <<>> /\ Len(toServer') = 0
  BY <1>1 DEF WireInv, Connected, TypeOK
<1>7. ASSUME cmd # "BODY" PROVE LinesOf(cmd) = <<cmd>>
  BY <1>7 DEF LinesOf
<1>8. slips = 0 /\ server = "data" => Ending \/ (cmd = "BODY" /\ Unread = <<>>)
  BY <1>5 DEF CollectInv, Paced, Connected
<1>9. cmd = "BODY" => server \in {"data", "closed"}
  BY <1>1 DEF DataInv, Sending
<1>10. Paced' => AnswerInv'
  BY <1>1, <1>2 DEF AnswerInv
<1>11. Paced' => AskInv'
  <2> SUFFICES ASSUME Paced PROVE AskInv'
    BY <1>2
  <2>1. CASE ~Connected
    BY <1>1, <1>6, <2>1 DEF AskInv, Connected
  <2>2. CASE Connected /\ cmd = "BODY"
    <3>1. toServer' = LinesOf("BODY")
      <4>1. toServer' = <<>> \o LinesOf("BODY")
        BY <1>1, <1>4, <2>2
      <4>2. LinesOf("BODY") \in Seq(LineKinds \cup {"header"})
        <5>1. body \in Seq(LineKinds \cup {"header"})
          BY BodiesAssumption DEF TypeOK
        <5> QED BY <5>1 DEF LinesOf, LineKinds
      <4> QED BY <4>1, <4>2, ConcatEmptySeq
    <3>2. server' = "data" /\ Unread' = <<>>
      BY <1>1, <1>2, <1>5, <1>9, <2>2 DEF Connected
    <3>3. ByTheBook
      BY <2>2 DEF Paced
    <3>4. \A i \in 1..Len(toServer') : toServer'[i] = "dot" => i = Len(toServer')
      BY <3>1, <3>3, TextLines
    <3> QED BY <1>1, <3>2, <3>4 DEF AskInv
  <2>3. CASE Connected /\ cmd # "BODY"
    <3>1. toServer' = <<cmd>>
      <4>1. toServer' = <<>> \o <<cmd>>
        BY <1>1, <1>4, <1>7, <2>3
      <4>2. <<cmd>> \in Seq(Commands)
        BY <1>1
      <4> QED BY <4>1, <4>2, ConcatEmptySeq
    <3>2. server' # "data" /\ Unread' = <<>> /\ server' # "greeting"
      <4>1. Len(toServer) = 0 /\ slips = 0
        BY <1>4 DEF Paced
      <4> QED BY <1>1, <1>2, <1>5, <1>8, <2>3, <4>1 DEF Paced, AskInv, Ending
    <3> QED BY <1>1, <2>3, <3>1, <3>2 DEF AskInv
  <2> QED BY <2>1, <2>2, <2>3
<1>12. slips' = 0 => CollectInv'
  <2> SUFFICES ASSUME slips = 0 PROVE CollectInv'
    BY <1>1
  <2>1. cmd # "DATA" => Unsent({"DATA"})'
    <3> SUFFICES ASSUME cmd # "DATA" PROVE Unsent({"DATA"})'
      OBVIOUS
    <3>1. Unsent({"DATA"})
      BY DEF CollectInv
    <3>2. CASE ~Connected
      BY <1>6, <3>2 DEF Unsent
    <3>3. CASE Connected
      <4>1. \A i \in 1..Len(LinesOf(cmd)) : LinesOf(cmd)[i] # "DATA"
        BY <3>1, <1>7, TextLines
      <4> SUFFICES ASSUME NEW i \in 1..Len(toServer') PROVE toServer'[i] # "DATA"
        BY DEF Unsent
      <4>2. i \in 1..Len(toServer) \/ i > Len(toServer)
        BY <3>3, Written
      <4> QED BY <3>1, <3>3, <4>1, <4>2, Written DEF Unsent
    <3> QED BY <3>2, <3>3
  <2>2. server' = "data" => Ending' \/ (cmd' = "BODY" /\ Unread' = <<>>)
    <3>1. ASSUME server = "data", Ending PROVE Ending'
      <4>1. PICK j \in 1..Len(toServer) : toServer[j] = "dot"
        BY <3>1 DEF Ending
      <4>2. j \in 1..Len(toServer') /\ toServer'[j] = "dot"
        BY <3>1, <4>1, Written DEF Connected
      <4> QED BY <1>1, <3>1, <4>2 DEF Ending, OneMessage
    <3> QED BY <1>1, <1>2, <1>8, <3>1
  <2> QED BY <1>1, <2>1, <2>2 DEF CollectInv
<1>13. LastWordInv'
  BY <1>1 DEF LastWordInv
<1> QED BY <1>10, <1>11, <1>12, <1>13 DEF StepInv

LEMMA GreetsInStep == ASSUME IInv, TypeOK', Greet PROVE StepInv'
<1> USE StepFacts
<1>1. /\ server = "greeting" /\ Answer({220, 550}, "greeting")
      /\ UNCHANGED <<body, phase, cmd, reply, message, toServer>>
  BY DEF Greet, clientVars
<1>2. {220, 550} \in SUBSET Codes /\ "greeting" \in Places \cup {"junk"}
  BY DEF Codes, Places
<1>3. PICK code \in {220, 550} :
         /\ server' = Then(code) /\ slips' >= slips
         /\ \A i \in 1..Len(toClient') :
               (i \in 1..Len(toClient) /\ toClient'[i] = toClient[i]) \/ toClient'[i].to = "greeting"
         /\ slips' = 0 /\ toClient = <<>> =>
               \A i \in 1..Len(toClient') :
                  /\ toClient'[i].to = "greeting"
                  /\ toClient'[i].kind = IF i = Len(toClient') THEN "end" ELSE "more"
  BY <1>1, <1>2, AnswersInOrder
<1>4. server' = "command"
  BY <1>3 DEF Then
<1>5. (slips' = 0 => slips = 0) /\ (Paced' => Paced) /\ (ByTheBook' => ByTheBook)
  BY <1>1, <1>3, Paces
<1>6. Paced' => AnswerInv' /\ AskInv'
  <2> SUFFICES ASSUME Paced' PROVE AnswerInv' /\ AskInv'
    OBVIOUS
  <2>1. cmd = "greeting" /\ phase = "read" /\ toClient = <<>> /\ toServer = <<>>
    BY <1>1, <1>5 DEF AskInv
  <2>2. slips' = 0 /\ Len(toClient') \in Nat
    BY DEF Paced, TypeOK
  <2>3. \A i \in 1..Len(toClient') :
           /\ toClient'[i].to = cmd /\ toClient'[i].kind \in {"more", "end"}
           /\ toClient'[i].kind = "end" => i = Len(toClient')
    BY <1>3, <2>1, <2>2
  <2>4. AnswerInv'
    BY <1>1, <2>1, <2>2, <2>3 DEF AnswerInv
  <2>5. AskInv'
    BY <1>1, <1>4, <2>1 DEF AskInv
  <2> QED BY <2>4, <2>5
<1>7. slips' = 0 => CollectInv'
  BY <1>1, <1>4, <1>5 DEF CollectInv, Unsent
<1>8. LastWordInv'
  BY <1>1, <1>3, <1>4, <1>5 DEF LastWordInv
<1> QED BY <1>6, <1>7, <1>8 DEF StepInv

LEMMA CommandsInStep == ASSUME IInv, TypeOK', TakeCommand PROVE StepInv'
<1> USE StepFacts
<1>1. /\ server = "command" /\ toServer # <<>> /\ message' = <<>>
      /\ UNCHANGED <<body, phase, cmd, reply>>
      /\ toServer' = Tail(toServer) \/ toServer' = <<>>
  BY DEF TakeCommand, clientVars
<1>2. /\ Len(toServer) \in Nat /\ Len(toServer) >= 1 /\ Head(toServer) = toServer[1]
      /\ Len(toServer) = 1 => toServer' = <<>>
      /\ Unsent({"DATA"}) => Unsent({"DATA"})'
  <2>1. Len(toServer) \in Nat /\ Len(toServer) >= 1 /\ Head(toServer) = toServer[1]
    BY <1>1 DEF TypeOK
  <2>2. CASE toServer' = <<>>
    <3>1. Len(toServer') = 0
      BY <2>2
    <3> QED BY <2>1, <2>2, <3>1 DEF Unsent
  <2>3. CASE TakesLine
    <3>1. /\ Len(toServer') = Len(toServer) - 1 /\ toServer' \in Seq(LineKinds \cup Commands \cup {"header"})
          /\ \A i \in 1..Len(toServer') : i + 1 \in 1..Len(toServer) /\ toServer'[i] = toServer[i + 1]
      BY <2>3, Tails
    <3> QED BY <2>1, <3>1 DEF Unsent
  <2> QED BY <1>1, <2>2, <2>3 DEF TakesLine
<1>3. toServer # <<>> /\ 1 \in 1..Len(toServer)
  BY <1>1, <1>2
<1> DEFINE line    == Head(toServer)
           command == IF line \in DOMAIN Reads THEN Reads[line] ELSE line
<1>15. line \in LineKinds \cup Commands \cup {"header"}
  BY <1>2, <1>3 DEF TypeOK
<1>16. /\ line \in Commands => command = line
       /\ command \in {"EHLO", "MAIL", "RCPT", "DATA", "QUIT"} => line = command \/ line \in LineKinds
  <2>1. DOMAIN Reads \subseteq LineKinds
    BY DEF LineKinds
  <2>2. line \in Commands => line \notin DOMAIN Reads
    BY <2>1, KindsAre
  <2> QED BY <2>1, <2>2
<1> DEFINE to == IF line \in Commands THEN line ELSE "junk"
<1>17. /\ to \in Places \cup {"junk"}
       /\ to = "QUIT" => command = "QUIT"
       /\ line \in Commands \ {"BODY"} => to = line
  BY <1>16 DEF Places, Commands
<1>4. PICK codes \in SUBSET Codes :
         /\ Answer(codes, to)
         /\ 354 \in codes => command = "DATA" /\ toServer' = Tail(toServer)
         /\ command = "QUIT" => codes = {221}
  <2>4. /\ CASE command \in {"EHLO", "MAIL", "RCPT", "DATA"} -> Answer({Agrees(command), 550}, to)
             [] command = "QUIT" -> Answer({221}, to)
             [] OTHER            -> Answer({500}, to)
        /\ toServer' = IF command = "QUIT" THEN <<>> ELSE Tail(toServer)
    BY DEF TakeCommand
  <2> HIDE DEF line, command, to
  <2>1. CASE command \in {"EHLO", "MAIL", "RCPT", "DATA"}
    <3>1. Answer({Agrees(command), 550}, to) /\ toServer' = Tail(toServer)
      BY <2>1, <2>4
    <3>2. /\ {Agrees(command), 550} \in SUBSET Codes
          /\ 354 \in {Agrees(command), 550} => command = "DATA"
      BY <2>1 DEF Agrees, Codes
    <3> QED BY <2>1, <3>1, <3>2
  <2>2. CASE command = "QUIT"
    <3>1. Answer({221}, to) /\ {221} \in SUBSET Codes
      BY <2>2, <2>4 DEF Codes
    <3> QED BY <2>2, <3>1
  <2>3. CASE command \notin {"EHLO", "MAIL", "RCPT", "DATA", "QUIT"}
    <3>1. Answer({500}, to) /\ {500} \in SUBSET Codes
      BY <2>3, <2>4 DEF Codes
    <3> QED BY <2>3, <3>1
  <2> QED BY <2>1, <2>2, <2>3
<1> HIDE DEF to, command
<1>5. PICK code \in codes :
         /\ server' = Then(code) /\ slips' >= slips
         /\ \A i \in 1..Len(toClient') :
               (i \in 1..Len(toClient) /\ toClient'[i] = toClient[i]) \/ toClient'[i].to = to
         /\ slips' = 0 /\ toClient = <<>> =>
               /\ toClient' # <<>> /\ toClient'[1].code = code
               /\ \A i \in 1..Len(toClient') :
                     /\ toClient'[i].to = to
                     /\ toClient'[i].kind = IF i = Len(toClient') THEN "end" ELSE "more"
  BY <1>4, <1>17, AnswersInOrder
<1> HIDE DEF line
<1>6. (slips' = 0 => slips = 0) /\ (Paced' => Paced) /\ (ByTheBook' => ByTheBook)
  BY <1>1, <1>5, Paces
<1>7. server' \in {"command", "data", "closed"} /\ (server' = "data" => code = 354)
  BY <1>5 DEF Then
<1>8. Paced => /\ toServer = <<cmd>> /\ phase = "read" /\ reply = <<>> /\ toClient = <<>>
               /\ line = cmd /\ cmd # "BODY" /\ Len(toServer) = 1
  <2> SUFFICES ASSUME Paced
               PROVE  /\ toServer = <<cmd>> /\ phase = "read" /\ reply = <<>> /\ toClient = <<>>
                      /\ line = cmd /\ cmd # "BODY" /\ Len(toServer) = 1
    OBVIOUS
  <2>1. toServer = <<cmd>> /\ phase = "read" /\ Unread = <<>> /\ cmd # "BODY"
    BY <1>1, <1>3 DEF AskInv
  <2>2. reply = <<>> /\ toClient = <<>>
    <3>1. reply \in Seq(ReplyLine) /\ toClient \in Seq(ReplyLine)
      BY DEF TypeOK
    <3>2. Len(reply) + Len(toClient) = 0 /\ Len(reply) \in Nat /\ Len(toClient) \in Nat
      <4>1. Len(Unread) = Len(reply) + Len(toClient)
        BY <3>1, ConcatProperties DEF Unread
      <4> QED BY <2>1, <3>1, <4>1
    <3>3. Len(reply) = 0 /\ Len(toClient) = 0
      BY <3>2
    <3> QED BY <3>1, <3>3
  <2> QED BY <2>1, <2>2 DEF line
<1>9. Paced => line # "greeting"
  <2>1. cmd = "greeting" => toServer[1] \in Envelope
    BY <1>3 DEF WireInv, BeforeData
  <2> QED BY <1>2, <1>8, <2>1 DEF Envelope, line
<1>10. Paced => to = cmd
  BY <1>8, <1>9, <1>17 DEF TypeOK, Places, Commands
<1>11. slips' = 0 /\ server' = "data" => (Paced /\ cmd = "DATA") \/ Ending'
  <2> SUFFICES ASSUME slips = 0, code = 354 PROVE (Paced /\ cmd = "DATA") \/ Ending'
    BY <1>6, <1>7
  <2>1. command = "DATA" /\ toServer' = Tail(toServer)
    BY <1>4
  <2>2. CASE line = "DATA"
    <3>1. ~Unsent({"DATA"})
      BY <1>2, <1>3, <2>2 DEF Unsent, line
    <3>2. cmd = "DATA"
      BY <3>1 DEF CollectInv
    <3> QED BY <3>2 DEF Paced
  <2>3. CASE line \in LineKinds
    <3>1. toServer[1] \in LineKinds /\ toServer[1] # "dot"
      <4>1. "dot" \notin DOMAIN Reads
        BY DEF Reads
      <4>2. line # "dot"
        BY <2>1, <4>1 DEF command
      <4> QED BY <1>2, <2>3, <4>2 DEF line
    <3>2. ~OneMessage
      BY <1>1, <1>3, <3>1, HiddenLine
    <3>3. PICK j \in 1..Len(toServer) : toServer[j] = "dot"
      BY <1>3, <3>1 DEF DotInv
    <3>4. TakesLine
      BY <1>3, <2>1 DEF TakesLine
    <3>5. /\ Len(toServer') = Len(toServer) - 1
          /\ \A i \in 1..Len(toServer') : toServer'[i] = toServer[i + 1]
      BY <3>4, Tails
    <3>6. j - 1 \in 1..Len(toServer') /\ toServer'[j - 1] = "dot"
      <4>1. j # 1
        BY <3>1, <3>3
      <4>2. j - 1 \in 1..Len(toServer') /\ (j - 1) + 1 = j
        BY <1>2, <3>5, <4>1
      <4> QED BY <3>3, <3>5, <4>2
    <3> QED BY <1>1, <3>2, <3>6 DEF Ending, OneMessage
  <2> QED BY <1>16, <2>1, <2>2, <2>3
<1>12. Paced' => AnswerInv' /\ AskInv'
  <2> SUFFICES ASSUME Paced' PROVE AnswerInv' /\ AskInv'
    OBVIOUS
  <2>1. slips' = 0 /\ Len(toClient') \in Nat
    BY DEF Paced, TypeOK
  <2>2. \A i \in 1..Len(toClient') :
           /\ toClient'[i].to = cmd /\ toClient'[i].kind \in {"more", "end"}
           /\ toClient'[i].kind = "end" => i = Len(toClient')
    BY <1>5, <1>6, <1>8, <1>10, <2>1
  <2>3. AnswerInv'
    BY <1>1, <1>6, <1>8, <2>1, <2>2 DEF AnswerInv
  <2>4. toServer' = <<>> /\ Len(toServer') = 0
    BY <1>2, <1>6, <1>8 DEF TypeOK
  <2>5. AskInv'
    BY <1>7, <2>4 DEF AskInv
  <2> QED BY <2>3, <2>5
<1>13. slips' = 0 => CollectInv'
  <2> SUFFICES ASSUME slips' = 0 PROVE CollectInv'
    OBVIOUS
  <2>1. ASSUME server' = "data", ~Ending'
        PROVE  cmd' = "DATA" /\ toServer' = <<>> /\ Unread' # <<>> /\ Unread'[1].code = 354
    <3>1. Paced /\ cmd = "DATA" /\ code = 354
      BY <1>7, <1>11, <2>1
    <3>2. toClient = <<>> /\ reply' = <<>>
      BY <1>1, <1>8, <3>1
    <3>3. toClient' # <<>> /\ toClient'[1].code = 354
      BY <1>5, <3>1, <3>2
    <3>4. Unread' = toClient'
      <4>1. toClient' \in Seq(ReplyLine)
        BY DEF TypeOK
      <4>2. Unread' = <<>> \o toClient'
        BY <3>2 DEF Unread
      <4> QED BY <4>1, <4>2, ConcatEmptySeq
    <3>5. toServer' = <<>>
      BY <1>2, <1>8, <3>1 DEF TypeOK
    <3> QED BY <1>1, <3>1, <3>3, <3>4, <3>5
  <2>2. Unsent({"DATA"}) => Unsent({"DATA"})'
    BY <1>2
  <2>3. Len(message') = 0
    BY <1>1
  <2> QED BY <1>1, <1>6, <2>1, <2>2, <2>3 DEF CollectInv
<1>14. LastWordInv'
  <2>1. \A i \in 1..Len(toClient) : toClient[i].to \notin {"timeout", "QUIT"}
    BY <1>1 DEF LastWordInv
  <2>2. to = "QUIT" => code = 221
    BY <1>4, <1>17
  <2>3. to = "QUIT" => server' = "closed"
    BY <1>5, <2>2 DEF Then
  <2>4. to # "timeout"
    BY <1>17 DEF Places, Commands
  <2>5. \A i \in 1..Len(toClient') :
           toClient'[i].to \in {"timeout", "QUIT"} => server' = "closed"
    BY <1>5, <2>1, <2>3, <2>4
  <2>6. ~(ByTheBook' /\ phase' = "ended")
    BY <1>1, <1>6 DEF LastWordInv
  <2> QED BY <2>5, <2>6 DEF LastWordInv
<1> QED BY <1>12, <1>13, <1>14 DEF StepInv

LEMMA TextInStep == ASSUME IInv, TypeOK', TakeText PROVE StepInv'
<1> USE StepFacts
<1>1. /\ server = "data" /\ TakesLine
      /\ message' = Append(message, Received(Head(toServer))) /\ Head(toServer) # "dot"
      /\ UNCHANGED <<body, slips, phase, cmd, reply, server, toClient>>
  BY DEF TakeText, TakesLine, clientVars
<1>2. /\ Len(toServer) \in Nat /\ Len(toServer) >= 1 /\ Head(toServer) = toServer[1]
      /\ Len(toServer') = Len(toServer) - 1
      /\ \A i \in 1..Len(toServer') : i + 1 \in 1..Len(toServer) /\ toServer'[i] = toServer[i + 1]
  BY <1>1, Tails
<1>3. (Paced' <=> Paced) /\ (ByTheBook' <=> ByTheBook) /\ Unread' = Unread /\ toServer # <<>>
      /\ 1 \in 1..Len(toServer)
  BY <1>1, <1>2 DEF Paced, ByTheBook, OneMessage, Unread, TakesLine
<1>4. Paced => AnswerInv' /\ AskInv'
  <2>1. Paced => AnswerInv'
    BY <1>1 DEF AnswerInv
  <2>2. ASSUME Paced, NEW i \in 1..Len(toServer'), toServer'[i] = "dot" PROVE i = Len(toServer')
    <3>1. toServer[i + 1] = "dot" /\ i + 1 \in 1..Len(toServer)
      BY <1>2, <2>2
    <3>2. i + 1 = Len(toServer)
      BY <1>1, <2>2, <3>1 DEF AskInv
    <3> QED BY <1>2, <3>2
  <2>3. Paced => AskInv'
    BY <1>1, <1>3, <2>2 DEF AskInv
  <2> QED BY <2>1, <2>3
<1>5. slips = 0 => CollectInv'
  <2> SUFFICES ASSUME slips = 0 PROVE CollectInv'
    OBVIOUS
  <2>1. (cmd = "BODY" /\ Unread = <<>>) \/ Ending
    BY <1>1, <1>3 DEF CollectInv
  <2>2. toServer[1] # "QUIT"
    <3> SUFFICES ASSUME toServer[1] = "QUIT" PROVE FALSE
      OBVIOUS
    <3>1. cmd = "QUIT" /\ Len(toServer) = 1
      BY <1>3 DEF WireInv
    <3>2. ~Ending
      BY <3>1 DEF Ending
    <3> QED BY <2>1, <3>1, <3>2
  <2>5. Ending => Ending'
    <3> SUFFICES ASSUME Ending PROVE Ending'
      OBVIOUS
    <3>1. PICK j \in 1..Len(toServer) : toServer[j] = "dot"
      BY DEF Ending
    <3>2. j # 1
      BY <1>1, <1>2, <3>1
    <3>3. j - 1 \in 1..Len(toServer') /\ (j - 1) + 1 = j
      BY <1>2, <3>2
    <3>4. toServer'[j - 1] = "dot"
      BY <1>2, <3>1, <3>3
    <3> QED BY <1>1, <3>3, <3>4 DEF Ending, OneMessage
  <2>3. cmd # "DATA" => Unsent({"DATA"})'
    BY <1>2 DEF CollectInv, Unsent
  <2>4. \A i \in 1..Len(message') : message'[i] # "QUIT"
    <3> DEFINE S == LineKinds \cup Commands \cup {"header", "stripped"}
               l == Received(Head(toServer))
    <3>1. message \in Seq(S) /\ l \in S /\ l # "QUIT"
      BY <1>2, <1>3, <2>2 DEF TypeOK, Received
    <3>2. \A i \in 1..Len(message) : message[i] # "QUIT"
      BY DEF CollectInv
    <3>3. message' = Append(message, l)
      BY <1>1
    <3> HIDE DEF S, l
    <3>4. /\ Len(Append(message, l)) = Len(message) + 1 /\ Len(message) \in Nat
          /\ \A i \in 1..Len(message) : Append(message, l)[i] = message[i]
          /\ Append(message, l)[Len(message) + 1] = l
      BY <3>1, AppendProperties
    <3> QED BY <3>1, <3>2, <3>3, <3>4
  <2> QED BY <1>1, <1>3, <2>1, <2>3, <2>4, <2>5 DEF CollectInv
<1>6. LastWordInv'
  BY <1>1, <1>3 DEF LastWordInv
<1> QED BY <1>1, <1>3, <1>4, <1>5, <1>6 DEF StepInv

LEMMA EndInStep == ASSUME IInv, TypeOK', TakeEnd PROVE StepInv'
<1> USE StepFacts
<1>1. /\ server = "data" /\ TakesLine /\ Head(toServer) = "dot"
      /\ UNCHANGED <<body, phase, cmd, reply, message>>
  BY DEF TakeEnd, TakesLine, clientVars
<1>2. /\ Len(toServer) \in Nat /\ Len(toServer) >= 1 /\ Head(toServer) = toServer[1]
      /\ Len(toServer') = Len(toServer) - 1
      /\ \A i \in 1..Len(toServer') : i + 1 \in 1..Len(toServer) /\ toServer'[i] = toServer[i + 1]
  BY <1>1, Tails
<1>3. PICK code \in {250, 550} :
         /\ server' = Then(code) /\ slips' >= slips
         /\ \A i \in 1..Len(toClient') :
               (i \in 1..Len(toClient) /\ toClient'[i] = toClient[i]) \/ toClient'[i].to = "BODY"
         /\ slips' = 0 /\ toClient = <<>> =>
               \A i \in 1..Len(toClient') :
                  /\ toClient'[i].to = "BODY"
                  /\ toClient'[i].kind = IF i = Len(toClient') THEN "end" ELSE "more"
  <2>1. {250} \in SUBSET Codes /\ {550} \in SUBSET Codes /\ "BODY" \in Places \cup {"junk"}
    BY DEF Codes, Places, Commands
  <2>2. CASE Answer({250}, "BODY")
    <3>1. \E code \in {250} :
             /\ server' = Then(code) /\ slips' >= slips
             /\ \A i \in 1..Len(toClient') :
                   (i \in 1..Len(toClient) /\ toClient'[i] = toClient[i]) \/ toClient'[i].to = "BODY"
             /\ slips' = 0 /\ toClient = <<>> =>
                   /\ toClient' # <<>> /\ toClient'[1].code = code
                   /\ \A i \in 1..Len(toClient') :
                         /\ toClient'[i].to = "BODY"
                         /\ toClient'[i].kind = IF i = Len(toClient') THEN "end" ELSE "more"
      BY <2>1, <2>2, AnswersInOrder
    <3> QED BY <3>1
  <2>3. CASE Answer({550}, "BODY")
    <3>1. \E code \in {550} :
             /\ server' = Then(code) /\ slips' >= slips
             /\ \A i \in 1..Len(toClient') :
                   (i \in 1..Len(toClient) /\ toClient'[i] = toClient[i]) \/ toClient'[i].to = "BODY"
             /\ slips' = 0 /\ toClient = <<>> =>
                   /\ toClient' # <<>> /\ toClient'[1].code = code
                   /\ \A i \in 1..Len(toClient') :
                         /\ toClient'[i].to = "BODY"
                         /\ toClient'[i].kind = IF i = Len(toClient') THEN "end" ELSE "more"
      BY <2>1, <2>3, AnswersInOrder
    <3> QED BY <3>1
  <2> QED BY <2>2, <2>3 DEF TakeEnd
<1>4. server' = "command" /\ toServer # <<>> /\ 1 \in 1..Len(toServer)
  BY <1>1, <1>2, <1>3 DEF Then, TakesLine
<1>5. (slips' = 0 => slips = 0) /\ (Paced' => Paced) /\ (ByTheBook' => ByTheBook)
  BY <1>1, <1>3, Paces
<1>11. cmd = "QUIT" \/ (cmd = "BODY" /\ ~Sending)
  <2>1. toServer[1] \in LineKinds
    BY <1>1, <1>2 DEF LineKinds
  <2> QED BY <1>4, <2>1, HiddenLine
<1>6. Paced => cmd = "BODY" /\ Unread = <<>>
  <2>1. Paced => ~Ending /\ slips = 0
    BY <1>11 DEF Paced, ByTheBook, Ending
  <2> QED BY <1>1, <1>4, <2>1 DEF CollectInv
<1>7. Paced => toClient = <<>>
  <2> SUFFICES ASSUME Paced PROVE toClient = <<>>
    OBVIOUS
  <2>1. reply \in Seq(ReplyLine) /\ toClient \in Seq(ReplyLine)
    BY DEF TypeOK
  <2>2. Len(Unread) = Len(reply) + Len(toClient)
    BY <2>1, ConcatProperties DEF Unread
  <2>3. Len(reply) \in Nat /\ Len(toClient) \in Nat /\ Len(Unread) = 0
    BY <1>6, <2>1
  <2>4. Len(toClient) = 0
    BY <2>2, <2>3
  <2> QED BY <2>1, <2>4
<1>8. Paced' => AnswerInv' /\ AskInv'
  <2> SUFFICES ASSUME Paced' PROVE AnswerInv' /\ AskInv'
    OBVIOUS
  <2>1. slips' = 0 /\ slips = 0 /\ Len(toClient') \in Nat
    BY <1>5 DEF Paced, TypeOK
  <2>2. phase = "read" /\ Len(toServer) = 1
    BY <1>1, <1>2, <1>4, <1>5 DEF AskInv
  <2>3. \A i \in 1..Len(toClient') :
           /\ toClient'[i].to = cmd /\ toClient'[i].kind \in {"more", "end"}
           /\ toClient'[i].kind = "end" => i = Len(toClient')
    BY <1>3, <1>5, <1>6, <1>7, <2>1
  <2>4. AnswerInv'
    BY <1>1, <2>1, <2>2, <2>3 DEF AnswerInv
  <2>5. toServer' = <<>>
    BY <1>2, <2>2 DEF TypeOK
  <2> QED BY <1>4, <2>4, <2>5 DEF AskInv
<1>9. slips' = 0 => CollectInv'
  <2>1. Unsent({"DATA"}) => Unsent({"DATA"})'
    BY <1>2 DEF Unsent
  <2> QED BY <1>1, <1>4, <1>5, <2>1 DEF CollectInv
<1>10. LastWordInv'
  BY <1>1, <1>3, <1>4, <1>5 DEF LastWordInv
<1> QED BY <1>8, <1>9, <1>10 DEF StepInv

LEMMA TiresInStep == ASSUME IInv, TypeOK', TimeOut PROVE StepInv'
<1> USE StepFacts
<1> DEFINE line == [code |-> 421, kind |-> "end", to |-> "timeout"]
<1>1. /\ server \notin {"off", "closed"} /\ server' = "closed"
      /\ toServer = <<>> /\ toClient' = Append(toClient, line)
      /\ UNCHANGED <<body, slips, phase, cmd, reply, message, toServer>>
  BY DEF TimeOut, Connected, clientVars
<1>2. line \in ReplyLine /\ line.kind = "end" /\ line.to = "timeout"
  BY DEF ReplyLine, Codes, Kinds
<1> HIDE DEF line
<1>3. /\ Len(toClient') = Len(toClient) + 1 /\ Len(toClient) \in Nat
      /\ \A i \in 1..Len(toClient) : toClient'[i] = toClient[i]
      /\ toClient'[Len(toClient) + 1] = line
  BY <1>1, <1>2, AppendProperties DEF TypeOK
<1>4. (Paced' <=> Paced) /\ (ByTheBook' <=> ByTheBook)
  BY <1>1 DEF Paced, ByTheBook, OneMessage
<1>5. Paced => AnswerInv'
  <2> SUFFICES ASSUME Paced, NEW i \in 1..Len(toClient')
               PROVE  /\ toClient'[i].kind \in {"more", "end"}
                      /\ toClient'[i].to = "timeout" \/ (phase = "read" /\ toClient'[i].to = cmd)
                      /\ toClient'[i].kind = "end" =>
                            \A j \in (i + 1)..Len(toClient') : toClient'[j].to = "timeout"
    BY <1>1 DEF AnswerInv
  <2>1. CASE i \in 1..Len(toClient)
    <3>1. toClient'[i] = toClient[i]
      BY <1>3, <2>1
    <3>2. \A j \in (i + 1)..Len(toClient') :
             (j \in (i + 1)..Len(toClient) /\ toClient'[j] = toClient[j]) \/ toClient'[j] = line
      BY <1>3, <2>1
    <3> QED BY <1>2, <2>1, <3>1, <3>2 DEF AnswerInv
  <2>2. CASE i = Len(toClient) + 1
    BY <1>2, <1>3, <2>2
  <2> QED BY <1>3, <2>1, <2>2
<1>6. Paced => AskInv'
  <2>1. Len(toServer') = 0
    BY <1>1
  <2> QED BY <1>1, <2>1 DEF AskInv
<1>7. slips = 0 => CollectInv'
  BY <1>1 DEF CollectInv, Unsent
<1>8. LastWordInv'
  BY <1>1 DEF LastWordInv
<1> QED BY <1>1, <1>4, <1>5, <1>6, <1>7, <1>8 DEF StepInv

LEMMA BreaksInStep == ASSUME IInv, TypeOK', Break PROVE StepInv'
<1> USE StepFacts
<1>1. /\ server' = "closed" /\ toServer' = <<>> /\ Len(toServer') = 0
      /\ UNCHANGED <<body, slips, phase, cmd, reply, message>>
  BY DEF Break, clientVars
<1>2. PICK n \in 0..Len(toClient) : toClient' = SubSeq(toClient, 1, n)
  BY DEF Break
<1>3. /\ Len(toClient') = n /\ n \in Nat /\ n <= Len(toClient) /\ Len(toClient) \in Nat
      /\ \A i \in 1..n : toClient'[i] = toClient[i]
  BY <1>2 DEF TypeOK
<1>4. (Paced' <=> Paced) /\ (ByTheBook' <=> ByTheBook)
  BY <1>1 DEF Paced, ByTheBook, OneMessage
<1>5. Paced => AnswerInv'
  <2> SUFFICES ASSUME Paced, NEW i \in 1..n
               PROVE  /\ toClient'[i].kind \in {"more", "end"}
                      /\ toClient'[i].to = "timeout" \/ (phase = "read" /\ toClient'[i].to = cmd)
                      /\ toClient'[i].kind = "end" =>
                            \A j \in (i + 1)..n : toClient'[j].to = "timeout"
    BY <1>1, <1>3 DEF AnswerInv
  <2>1. toClient'[i] = toClient[i] /\ i \in 1..Len(toClient)
    BY <1>3
  <2>2. \A j \in (i + 1)..n : j \in (i + 1)..Len(toClient) /\ toClient'[j] = toClient[j]
    BY <1>3
  <2> QED BY <2>1, <2>2 DEF AnswerInv
<1>6. AskInv' /\ LastWordInv'
  BY <1>1 DEF AskInv, LastWordInv
<1>7. slips = 0 => CollectInv'
  BY <1>1 DEF CollectInv, Unsent
<1> QED BY <1>1, <1>4, <1>5, <1>6, <1>7 DEF StepInv

(* A text is on its way as a whole, with the dot that ends it.             *)
LEMMA DotStep == ASSUME TypeOK, DotInv, [Next]_vars PROVE DotInv'
<1> DEFINE T == LineKinds \cup {"header"}
<1>1. CASE toServer' = toServer
  BY <1>1 DEF DotInv
<1>2. CASE toServer' = <<>>
  <2>1. Len(toServer') = 0
    BY <1>2
  <2> QED BY <2>1 DEF DotInv
<1>3. CASE TakesLine
  <2>1. /\ Len(toServer) \in Nat /\ Len(toServer') = Len(toServer) - 1
        /\ \A i \in 1..Len(toServer') : i + 1 \in 1..Len(toServer) /\ toServer'[i] = toServer[i + 1]
    BY <1>3, Tails
  <2> SUFFICES ASSUME NEW i \in 1..Len(toServer'), toServer'[i] \in T
               PROVE  \E j \in i..Len(toServer') : toServer'[j] = "dot"
    BY DEF DotInv
  <2>2. PICK j \in (i + 1)..Len(toServer) : toServer[j] = "dot"
    BY <2>1 DEF DotInv
  <2>3. j - 1 \in i..Len(toServer') /\ j - 1 \in 1..Len(toServer') /\ (j - 1) + 1 = j
    BY <2>1
  <2>4. toServer'[j - 1] = "dot"
    BY <2>1, <2>2, <2>3
  <2> QED BY <2>3, <2>4
<1>4. CASE Write /\ Connected
  <2>1. /\ Len(toServer') = Len(toServer) + Len(LinesOf(cmd))
        /\ Len(toServer) \in Nat /\ Len(LinesOf(cmd)) \in Nat
        /\ \A i \in 1..Len(toServer) : i \in 1..Len(toServer') /\ toServer'[i] = toServer[i]
        /\ \A i \in 1..Len(toServer') : i > Len(toServer) =>
              /\ i - Len(toServer) \in 1..Len(LinesOf(cmd))
              /\ toServer'[i] = LinesOf(cmd)[i - Len(toServer)]
    BY <1>4, Written
  <2> SUFFICES ASSUME NEW i \in 1..Len(toServer'), toServer'[i] \in T
               PROVE  \E j \in i..Len(toServer') : toServer'[j] = "dot"
    BY DEF DotInv
  <2>2. CASE i \in 1..Len(toServer)
    <3>1. PICK j \in i..Len(toServer) : toServer[j] = "dot"
      BY <2>1, <2>2 DEF DotInv
    <3>2. j \in 1..Len(toServer) /\ j \in i..Len(toServer')
      BY <2>1, <2>2
    <3>3. toServer'[j] = "dot"
      BY <2>1, <3>1, <3>2
    <3> QED BY <3>2, <3>3
  <2>3. CASE i > Len(toServer)
    <3>1. i - Len(toServer) \in 1..Len(LinesOf(cmd)) /\ LinesOf(cmd)[i - Len(toServer)] \in T
      BY <2>1, <2>3
    <3>2. cmd = "BODY"
      <4> SUFFICES ASSUME cmd # "BODY" PROVE FALSE
        OBVIOUS
      <4>1. LinesOf(cmd) = <<cmd>> /\ Len(LinesOf(cmd)) = 1
        BY DEF LinesOf
      <4>2. i - Len(toServer) = 1
        BY <3>1, <4>1
      <4>3. cmd \in T
        BY <3>1, <4>1, <4>2
      <4> QED BY <4>3, KindsAre DEF TypeOK, Places, Commands
    <3>3. Len(LinesOf(cmd)) = Len(body) + 2 /\ LinesOf(cmd)[Len(body) + 2] = "dot" /\ Len(body) \in Nat
      BY <3>2, MessageLines, BodiesAssumption DEF TypeOK
    <3>4. /\ Len(toServer') \in i..Len(toServer') /\ Len(toServer') \in 1..Len(toServer')
          /\ Len(toServer') > Len(toServer) /\ Len(toServer') - Len(toServer) = Len(body) + 2
      BY <2>1, <3>3
    <3>5. toServer'[Len(toServer')] = "dot"
      BY <2>1, <3>3, <3>4
    <3> QED BY <3>4, <3>5
  <2> QED BY <2>1, <2>2, <2>3
<1>5. toServer' = toServer \/ toServer' = <<>> \/ TakesLine \/ (Write /\ Connected)
  <2>1. CASE ClientStep
    BY <2>1 DEF ClientStep, Connect, ConnectFail, Write, WriteFail, BrokenPipe, ReadLine, ReadEnd
  <2>2. CASE TakeCommand
    BY <2>2 DEF TakeCommand, TakesLine
  <2>3. CASE TakeText \/ TakeEnd \/ Greet \/ TimeOut \/ Break
    BY <2>3 DEF TakeText, TakeEnd, Greet, TimeOut, Break, TakesLine
  <2>4. CASE UNCHANGED vars
    BY <2>4 DEF vars
  <2> QED BY <2>1, <2>2, <2>3, <2>4 DEF Next, ServerStep
<1> QED BY <1>1, <1>2, <1>3, <1>4, <1>5

LEMMA EveryStepInStep == ASSUME IInv, [Next]_vars PROVE IInv'
<1>1. PlaceInv'
  BY EveryStep DEF IInv
<1>2. TypeOK'
  BY <1>1 DEF PlaceInv
<1>3. StepInv'
  <2>1. CASE ClientStep
    BY <1>2, <2>1, ReadInStep, FailsInStep, ConnectsInStep, WritesInStep DEF ClientStep
  <2>2. CASE ServerStep
    BY <1>2, <2>2, GreetsInStep, CommandsInStep, TextInStep, EndInStep, TiresInStep,
       BreaksInStep DEF ServerStep
  <2>3. CASE UNCHANGED vars
    BY <2>3, SameStepInv DEF IInv, vars, clientVars, serverVars
  <2> QED BY <2>1, <2>2, <2>3 DEF Next
<1>4. DotInv'
  BY DotStep DEF IInv, PlaceInv
<1> QED BY <1>1, <1>3, <1>4 DEF IInv

-----------------------------------------------------------------------------
(* Client and server agree on where in the submission they are, and on     *)
(* what is being answered as long as the replies are in order: no line of  *)
(* a message, nothing that a server may write and no way the connection    *)
(* may end leads out of the invariant (smtp_client.cpp:32-73, 150-230).    *)
THEOREM Inductive == Spec => []IInv
<1>1. Init => IInv
  <2>1. Init => DotInv
    BY DEF Init, DotInv
  <2> QED BY <2>1, InitStep, StepInit DEF IInv
<1>2. IInv /\ [Next]_vars => IInv'
  BY EveryStepInStep
<1> QED BY <1>1, <1>2, PTL DEF Spec

(* The dialogue implements the abstract submission: "sent successfully" is *)
(* reported only when the server has taken a message; a text without a     *)
(* line that is a single dot is taken at most once, and as it was given if *)
(* none of its lines begins with a dot, also when they read as commands    *)
(* (smtp_client.cpp:188-212).  The messages are any, replies of any        *)
(* length, and any number of them out of order.                            *)
THEOREM Refinement == Spec => ImplementsMailSubmission
<1>1. Init => Submission!Init
  BY InitStep
<1>2. IInv /\ [Next]_vars => [Submission!Next]_(Submission!vars)
  BY EveryStep DEF IInv, AbstractStep
<1> QED BY <1>1, <1>2, Inductive, PTL DEF Spec, ImplementsMailSubmission, Submission!Spec

(* No line is ever taken for the answer to another command: replies of any *)
(* length are read to their last line and no further, for every message    *)
(* without a line that is a single dot (smtp_client.cpp:32-73).            *)
THEOREM StaysInStep == Spec => []InStep
<1>1. IInv => InStep
  <2>1. ByTheBook => Paced
    BY DEF ByTheBook, Paced
  <2> QED BY <2>1 DEF IInv, StepInv, AnswerInv, InStep
<1> QED BY <1>1, Inductive, PTL

(* QUIT is never taken for a line of the message, whatever the message,    *)
(* and a client that ends has heard the server out                         *)
(* (smtp_client.cpp:100-104, 184, 215-230, 258, 262).                      *)
THEOREM QuitIsHeard == Spec => []QuitEndsSession
<1>1. IInv => QuitEndsSession
  BY DEF IInv, StepInv, CollectInv, LastWordInv, QuitEndsSession
<1> QED BY <1>1, Inductive, PTL

=============================================================================
