---------------------------- MODULE SMTPDialogue ----------------------------
(***************************************************************************)
(* SMTP/smtp_client.cpp: one run of the client against a server that       *)
(* answers, refuses, times out or breaks the connection.  The client reads *)
(* replies line by line and decides from a line alone whether the reply    *)
(* goes on, so that lines are what the two exchange.  The server is        *)
(* modelled from what the client expects of it.                            *)
(***************************************************************************)
EXTENDS Naturals, Sequences, SequencesExt

CONSTANTS
    Bodies,    \* message texts, as sequences of lines
    MaxLines,  \* lines of a reply
    MaxSlips   \* replies not written as the protocol says

(* A line of the text may be what would be a command if the server were    *)
(* not collecting a message: "mail" reads as MAIL, and so on.              *)
Reads     == [ehlo |-> "EHLO", mail |-> "MAIL", rcpt |-> "RCPT", data |-> "DATA", quit |-> "QUIT"]
LineKinds == {"text", "dotted", "dot"} \cup DOMAIN Reads

ASSUME BodiesAssumption   == Bodies \subseteq Seq(LineKinds)
ASSUME MaxLinesAssumption == MaxLines \in Nat \ {0}
ASSUME MaxSlipsAssumption == MaxSlips \in Nat

VARIABLES
    body,      \* argv[5]
    slips,     \* replies the server has not written as the protocol says
    phase,     \* "start", "send", "read", "ended", "killed"
    cmd,       \* the step of the dialogue the client is at
    reply,     \* full_response: the lines read by this receiveResponse()
    verdict,   \* what main() has reported
    server,    \* "off", "greeting", "command", "data", "closed"
    message,   \* the lines the server has collected since DATA
    mailbox,   \* the messages the server has taken
    toServer, toClient   \* lines written and not yet read

clientVars == <<phase, cmd, reply, verdict>>
serverVars == <<server, message, mailbox>>
vars == <<body, slips, clientVars, serverVars, toServer, toClient>>

Commands == {"EHLO", "MAIL", "RCPT", "DATA", "BODY", "QUIT"}
Places   == Commands \cup {"greeting"}

(* The order of sendEmail(), which follows connect(). *)
After == [greeting |-> "EHLO", EHLO |-> "MAIL", MAIL |-> "RCPT",
          RCPT |-> "DATA", DATA |-> "BODY", BODY |-> "QUIT", QUIT |-> "QUIT"]

Expected == [greeting |-> 220, EHLO |-> 250, MAIL |-> 250, RCPT |-> 250,
             DATA |-> 354, BODY |-> 250, QUIT |-> 221]

Codes == {0, 220, 221, 250, 354, 421, 500, 550}

(* A line of a reply.  Kinds: a code and a space, or any sign but '-';     *)
(* a code and '-'; no code; shorter than 4 characters, CRLF included.      *)
(* "to" says what the server answers with it; the client does not see it.  *)
Kinds     == {"end", "more", "text", "short"}
ReplyLine == [code : Codes, kind : Kinds, to : Places \cup {"junk", "timeout"}]

Init ==
    /\ body \in Bodies
    /\ slips = 0
    /\ phase = "start" /\ cmd = "greeting" /\ reply = <<>> /\ verdict = "none"
    /\ server = "off" /\ message = <<>> /\ mailbox = <<>>
    /\ toServer = <<>> /\ toClient = <<>>

-----------------------------------------------------------------------------
(* The server (external). *)

(* What a server writes for one code: lines that announce more and one     *)
(* that does not; when it slips, lines of any kinds.                       *)
Orderly(kinds) == \A i \in 1..Len(kinds) :
                     kinds[i] = IF i = Len(kinds) THEN "end" ELSE "more"

ReplyFor(code, to, kinds) ==
    [i \in 1..Len(kinds) |->
        [code |-> IF kinds[i] \in {"more", "end"} THEN code ELSE 0,
         kind |-> kinds[i], to |-> to]]

Then(code) == IF code = 354 THEN "data" ELSE IF code = 221 THEN "closed" ELSE "command"

Answer(codes, to) ==
    \E code \in codes, kinds \in UNION {[1..n -> Kinds] : n \in 1..MaxLines} :
        /\ slips' = slips + (IF Orderly(kinds) THEN 0 ELSE 1)
        /\ slips' <= MaxSlips
        /\ toClient' = toClient \o ReplyFor(code, to, kinds)
        /\ server' = Then(code)

Agrees(line) == IF line = "DATA" THEN 354 ELSE 250

Greet ==
    /\ server = "greeting"
    /\ Answer({220, 550}, "greeting")
    /\ UNCHANGED <<body, clientVars, message, mailbox, toServer>>

(* A command, be it the client's or a line of a text that has been ended   *)
(* before.                                                                 *)
TakeCommand ==
    /\ server = "command" /\ toServer # <<>>
    /\ message' = <<>>
    /\ LET line    == Head(toServer)
           command == IF line \in DOMAIN Reads THEN Reads[line] ELSE line
           to      == IF line \in Commands THEN line ELSE "junk"
       IN  /\ CASE command \in {"EHLO", "MAIL", "RCPT", "DATA"} ->
                       Answer({Agrees(command), 550}, to)
                [] command = "QUIT" -> Answer({221}, to)
                [] OTHER            -> Answer({500}, to)
           /\ toServer' = IF command = "QUIT" THEN <<>> ELSE Tail(toServer)
    /\ UNCHANGED <<body, clientVars, mailbox>>

(* A dot at the beginning of a longer line is removed. *)
Received(line) == IF line = "dotted" THEN "stripped" ELSE line

TakeText ==
    /\ server = "data" /\ toServer # <<>> /\ Head(toServer) # "dot"
    /\ toServer' = Tail(toServer)
    /\ message' = Append(message, Received(Head(toServer)))
    /\ UNCHANGED <<body, slips, clientVars, server, mailbox, toClient>>

TakeEnd ==
    /\ server = "data" /\ toServer # <<>> /\ Head(toServer) = "dot"
    /\ toServer' = Tail(toServer)
    /\ \/ Answer({250}, "BODY") /\ mailbox' = Append(mailbox, message)
       \/ Answer({550}, "BODY") /\ UNCHANGED mailbox
    /\ UNCHANGED <<body, clientVars, message>>

Connected == server \notin {"off", "closed"}

(* The server tires of waiting and says so. *)
TimeOut ==
    /\ Connected /\ toServer = <<>>
    /\ server' = "closed"
    /\ toClient' = Append(toClient, [code |-> 421, kind |-> "end", to |-> "timeout"])
    /\ UNCHANGED <<body, slips, clientVars, message, mailbox, toServer>>

(* The connection ends anywhere, with the last of what is on its way. *)
Break ==
    /\ Connected
    /\ server' = "closed"
    /\ \E n \in 0..Len(toClient) : toClient' = SubSeq(toClient, 1, n)
    /\ toServer' = <<>>
    /\ UNCHANGED <<body, slips, clientVars, message, mailbox>>

ServerStep == Greet \/ TakeCommand \/ TakeText \/ TakeEnd \/ TimeOut \/ Break

-----------------------------------------------------------------------------
(* The client: what follows a reply. *)

(* Whatever fails, main() reports it, and disconnect() is called: by       *)
(* main(), or by the destructor when the greeting was not 220.             *)
Fail ==
    /\ verdict' = "failure"
    /\ cmd' = "QUIT" /\ phase' = "send"

(* mutant: a client that fails closes the connection without QUIT *)
JudgeWithoutQuit(ok) ==
    CASE cmd = "QUIT" -> phase' = "ended" /\ UNCHANGED <<cmd, verdict>>
      [] cmd # "QUIT" /\ ok ->
            /\ verdict' = IF cmd = "BODY" THEN "success" ELSE verdict
            /\ cmd' = After[cmd] /\ phase' = "send"
      [] OTHER -> verdict' = "failure" /\ phase' = "ended" /\ UNCHANGED cmd

(* mutant: the reply to the message is not looked at *)
JudgeBlindly(ok) ==
    CASE cmd = "QUIT" -> phase' = "ended" /\ UNCHANGED <<cmd, verdict>>
      [] cmd # "QUIT" /\ (ok \/ cmd = "BODY") ->
            /\ verdict' = IF cmd = "BODY" THEN "success" ELSE verdict
            /\ cmd' = After[cmd] /\ phase' = "send"
      [] OTHER -> Fail

Judge(ok) ==
    CASE cmd = "QUIT" -> phase' = "ended" /\ UNCHANGED <<cmd, verdict>>
      [] cmd # "QUIT" /\ ok ->
            /\ verdict' = IF cmd = "BODY" THEN "success" ELSE verdict
            /\ cmd' = After[cmd] /\ phase' = "send"
      [] OTHER -> Fail

-----------------------------------------------------------------------------
(* The client: the steps of connect(), sendEmail() and disconnect(). *)

Connect ==
    /\ phase = "start"
    /\ phase' = "read" /\ server' = "greeting"
    /\ UNCHANGED <<body, slips, cmd, reply, verdict, message, mailbox, toServer, toClient>>

(* No socket, no such host, or nobody listens: sockfd is -1 again. *)
ConnectFail ==
    /\ phase = "start"
    /\ phase' = "ended" /\ verdict' = "failure"
    /\ UNCHANGED <<body, slips, cmd, reply, serverVars, toServer, toClient>>

(* The message and the dot that ends it go out in one write(). *)
LinesOf(c) == IF c = "BODY" THEN <<"header">> \o body \o <<"dot">> ELSE <<c>>

(* write() to a server that has closed the connection may well succeed. *)
Write ==
    /\ phase = "send"
    /\ phase' = "read"
    /\ toServer' = IF Connected THEN toServer \o LinesOf(cmd) ELSE toServer
    /\ UNCHANGED <<body, slips, cmd, reply, verdict, serverVars, toClient>>

WriteFail ==
    /\ phase = "send" /\ ~Connected
    /\ Judge(FALSE)
    /\ UNCHANGED <<body, slips, reply, serverVars, toServer, toClient>>

(* SIGPIPE, which the program leaves at its default. *)
BrokenPipe ==
    /\ phase = "send" /\ ~Connected
    /\ phase' = "killed"
    /\ UNCHANGED <<body, slips, cmd, reply, verdict, serverVars, toServer, toClient>>

(* mutant: a line with a code is the last one *)
CompleteAtCode(lines) ==
    CASE Last(lines).kind \in {"end", "more"} -> TRUE
      [] Last(lines).kind = "text"            -> Len(lines) > 1
      [] OTHER                                -> FALSE

(* response_complete: a line without a code ends a reply it has not begun. *)
Complete(lines) ==
    CASE Last(lines).kind = "end"  -> TRUE
      [] Last(lines).kind = "text" -> Len(lines) > 1
      [] OTHER                     -> FALSE

(* checkResponseCode() compares the first characters of all that was read. *)
HasExpectedCode(lines) == Head(lines).code = Expected[cmd]

(* mutant: what one call has read stays for the next *)
ReadLineAndKeep ==
    /\ phase = "read" /\ toClient # <<>>
    /\ toClient' = Tail(toClient)
    /\ reply' = Append(reply, Head(toClient))
    /\ IF Complete(reply') THEN Judge(HasExpectedCode(reply'))
                           ELSE UNCHANGED <<phase, cmd, verdict>>
    /\ UNCHANGED <<body, slips, serverVars, toServer>>

ReadLine ==
    /\ phase = "read" /\ toClient # <<>>
    /\ toClient' = Tail(toClient)
    /\ LET lines == Append(reply, Head(toClient))
       IN  IF Complete(lines)
             THEN reply' = <<>> /\ Judge(HasExpectedCode(lines))
             ELSE reply' = lines /\ UNCHANGED <<phase, cmd, verdict>>
    /\ UNCHANGED <<body, slips, serverVars, toServer>>

(* mutant: read() that returns 0 is tried again *)
ReadOn == FALSE

(* read() returns 0 or fails: "" is returned, whatever has been read. *)
ReadEnd ==
    /\ phase = "read" /\ toClient = <<>> /\ server = "closed"
    /\ reply' = <<>>
    /\ Judge(FALSE)
    /\ UNCHANGED <<body, slips, serverVars, toServer, toClient>>

ClientStep == \/ Connect \/ ConnectFail \/ Write \/ WriteFail \/ BrokenPipe
              \/ ReadLine \/ ReadEnd

Next == ClientStep \/ ServerStep

Spec == Init /\ [][Next]_vars

(* The client is one process that is scheduled.  Of the server it is       *)
(* assumed that it goes on reading and closes a connection on which        *)
(* nothing more comes, not that it answers.                                *)
FairSpec == Spec /\ WF_vars(ClientStep) /\ WF_vars(ServerStep)

-----------------------------------------------------------------------------
(* Types; receiveResponse() begins and ends with no lines. *)
TypeOK ==
    /\ body \in Bodies /\ slips \in 0..MaxSlips
    /\ phase \in {"start", "send", "read", "ended", "killed"}
    /\ cmd \in Places
    /\ reply \in Seq(ReplyLine) /\ (phase # "read" => reply = <<>>)
    /\ verdict \in {"none", "success", "failure"}
    /\ server \in {"off", "greeting", "command", "data", "closed"}
    /\ message \in Seq(LineKinds \cup Commands \cup {"header", "stripped"})
    /\ mailbox \in Seq(Seq(LineKinds \cup Commands \cup {"header", "stripped"}))
    /\ toServer \in Seq(LineKinds \cup Commands \cup {"header"})
    /\ toClient \in Seq(ReplyLine)

(* No line of the text is the one that ends a message. *)
OneMessage == \A i \in 1..Len(body) : body[i] # "dot"

(* Nor has the server written what the protocol does not say. *)
ByTheBook == slips = 0 /\ OneMessage

(* Client and server stay in step (receiveResponse(), smtp_client.cpp:     *)
(* 32-73, reads each reply to its end and no further): what is unread      *)
(* while the client waits answers the command it waits for, and nothing    *)
(* is unread when it sends the next one.  A server may time out at any     *)
(* time.                                                                   *)
InStep ==
    ByTheBook => \A i \in 1..Len(toClient) :
                    toClient[i].to \in {"timeout"} \cup
                                       (IF phase = "read" THEN {cmd} ELSE {})

(* A client that gives up does so before the server collects a message, so *)
(* that its QUIT is taken for a command and not for a line of the text     *)
(* (sendEmail() leaves on anything but 354, smtp_client.cpp:184, and       *)
(* disconnect() writes QUIT wherever it is); and it ends by itself only    *)
(* when it has heard the server's good-bye or the end of the connection,   *)
(* on every way out (100-104, 215-230, 258, 262).                          *)
QuitEndsSession ==
    /\ slips = 0 => \A i \in 1..Len(message) : message[i] # "QUIT"
    /\ ByTheBook /\ phase = "ended" => server \in {"off", "closed"}

(* The dialogue implements the abstract submission: whatever the server    *)
(* writes or loses, success is reported only when a message was taken; a   *)
(* text without a line that is a single dot is taken at most once, and as  *)
(* it was given if none of its lines begins with a dot, also when they     *)
(* read like commands (smtp_client.cpp:188-212).                           *)
Submission == INSTANCE MailSubmission
ImplementsMailSubmission == Submission!Spec

(* The client has no timeouts (smtp_client.cpp:41): it ends because no     *)
(* server keeps a silent connection for ever, also after a reply whose     *)
(* last line never comes.                                                  *)
Ends == <>(phase \in {"ended", "killed"})

-----------------------------------------------------------------------------
(* The inductive invariant behind the refinement. *)

(* The lines the client has not yet looked at. *)
Unread == reply \o toClient

Envelope == {"EHLO", "MAIL", "RCPT", "DATA"}
Sending  == phase \in {"send", "killed"}

(* DATA has not been sent. *)
BeforeData == cmd \in {"greeting", "EHLO", "MAIL", "RCPT"} \/ (cmd = "DATA" /\ Sending)

Unsent(lines) == \A i \in 1..Len(toServer) : toServer[i] \notin lines
NoCode(code)  == \A i \in 1..Len(Unread) : Unread[i].code # code
Late          == \A i, j \in 1..Len(Unread) :
                    i < j /\ Unread[i].code = 354 => Unread[j].code # 250

(* The first line that the client has not looked at is not a 250. *)
NotAgreed     == Unread # <<>> => Unread[1].code # 250

(* What is on its way to the server, in the order of sendEmail(). *)
WireInv ==
    /\ server \in {"off", "closed"} => toServer = <<>>
    /\ \A i \in 1..Len(toServer) :
          /\ toServer[i] = "QUIT" => i = Len(toServer) /\ cmd = "QUIT" /\ ~Sending
          /\ toServer[i] = "DATA" =>
                \A j \in (i + 1)..Len(toServer) : toServer[j] = "QUIT"
    /\ BeforeData => toServer \in Seq(Envelope \ {"DATA"})
    /\ cmd = "DATA" /\ ~Sending =>
          /\ toServer \in Seq(Envelope)
          /\ toServer # <<>> => toServer[Len(toServer)] = "DATA"
    /\ cmd = "BODY" /\ Sending => toServer = <<>>
    /\ cmd = "BODY" => Unsent(Envelope)
    /\ Unsent(Envelope) \/ Unsent(LineKinds)

(* Until the server takes DATA nothing of the message is asked for or      *)
(* taken; from then on sendEmail() writes no command of the envelope, and  *)
(* none but a line of a text that was ended before can start another       *)
(* message.                                                                *)
DataInv ==
    LET asked == server = "data" \/ ~NoCode(354) \/ mailbox # <<>>
    IN  /\ asked => ~BeforeData /\ Unsent(Envelope)
        /\ mailbox # <<>> => cmd = "QUIT" \/ (cmd = "BODY" /\ ~Sending)
        /\ mailbox # <<>> /\ server = "data" => ~OneMessage
        /\ ~NoCode(354) /\ cmd = "DATA" => server \in {"data", "closed"}
        /\ cmd = "BODY" /\ Sending => server \in {"data", "closed"}
        /\ OneMessage /\ ~Unsent(LineKinds) => server = "data"

(* The message as it is sent, and what may follow it.  The server has      *)
(* taken the first n lines of it as text.                                  *)
Stream(i) == LET lines == LinesOf("BODY")
             IN  IF i <= Len(lines) THEN lines[i] ELSE "QUIT"

Taking(n) ==
    /\ Len(toServer) + n >= Len(body) + 2
    /\ \A i \in 1..Len(toServer) : toServer[i] = Stream(i + n)
    /\ Len(message) = n
    /\ \A i \in 1..n : Stream(i) # "dot" /\ message[i] = Received(Stream(i))

Arrives(lines) == <<"header">> \o [i \in 1..Len(lines) |-> Received(lines[i])]

TextInv ==
    OneMessage /\ server = "data" =>
        \/ cmd \in {"BODY", "QUIT"} /\ \E n \in 0..(Len(body) + 1) : Taking(n)
        \/ /\ cmd = "DATA" \/ (cmd = "BODY" /\ Sending)
           /\ message = <<>> /\ toServer = <<>>
        \/ cmd = "QUIT" /\ \A i \in 1..Len(toServer) : toServer[i] = "QUIT"

(* No 250 comes after the 354 unless a message was taken: what the client  *)
(* reads first after the text is the answer to its first single dot, or    *)
(* what was left of the answer to DATA.                                    *)
ReplyInv ==
    mailbox = <<>> =>
        /\ cmd \notin {"BODY", "QUIT"} => Late
        /\ cmd = "BODY" => NotAgreed
        /\ cmd = "BODY" /\ server = "command" => Unread # <<>>

VerdictInv ==
    /\ verdict # "none" => cmd = "QUIT" \/ phase = "ended"
    /\ cmd = "QUIT" => verdict # "none"
    /\ verdict = "success" => mailbox # <<>>
    /\ OneMessage => mailbox \in {<<>>, <<Arrives(body)>>}

PhaseInv ==
    /\ phase = "start" => server = "off" /\ cmd = "greeting"
    /\ Sending => cmd # "greeting"
    /\ phase \in {"start", "ended"} => cmd \in {"greeting", "QUIT"}

(* Where the two are in the submission, as far as replies that do not      *)
(* answer what was asked allow it (smtp_client.cpp:32-73, 150-212).        *)
PlaceInv == TypeOK /\ WireInv /\ DataInv /\ TextInv /\ ReplyInv /\ VerdictInv /\ PhaseInv

-----------------------------------------------------------------------------
(* The inductive invariant behind InStep and QuitEndsSession. *)

(* No reply has been out of order, and the server has not taken the lines  *)
(* after the one that ended the message for commands.                      *)
Paced == slips = 0 /\ (cmd \in {"BODY", "QUIT"} => ByTheBook)

(* What is unread is one reply to the command, as far as it has come, and  *)
(* perhaps a line that says the server has tired of waiting.               *)
AnswerInv ==
    \A i \in 1..Len(toClient) :
       /\ toClient[i].kind \in {"more", "end"}
       /\ toClient[i].to = "timeout" \/ (phase = "read" /\ toClient[i].to = cmd)
       /\ toClient[i].kind = "end" =>
             \A j \in (i + 1)..Len(toClient) : toClient[j].to = "timeout"

(* Something is on its way to the server only while the client waits and   *)
(* nothing is on its way to the client: one command, or the text.          *)
AskInv ==
    /\ toServer # <<>> => phase = "read" /\ Unread = <<>>
    /\ server = "command" /\ toServer # <<>> => toServer = <<cmd>> /\ cmd # "BODY"
    /\ server = "data" => \A i \in 1..Len(toServer) : toServer[i] = "dot" => i = Len(toServer)
    /\ server = "greeting" =>
          cmd = "greeting" /\ phase = "read" /\ toClient = <<>> /\ toServer = <<>>

(* What is on its way of the text ends with a dot. *)
DotInv ==
    \A i \in 1..Len(toServer) : toServer[i] \in LineKinds \cup {"header"} =>
        \E j \in i..Len(toServer) : toServer[j] = "dot"

(* A text that was ended before goes on, and is still to be ended.         *)
Ending == ~OneMessage /\ \E j \in 1..Len(toServer) : toServer[j] = "dot"

(* While the server collects the message, the client waits to be told so,  *)
(* or sends it, or waits for what becomes of it; or the message is one     *)
(* that the text has started, and a dot to end it is on its way.           *)
CollectInv ==
    /\ server = "data" =>
          \/ cmd = "DATA" /\ toServer = <<>> /\ Unread # <<>> /\ Unread[1].code = 354
          \/ cmd = "BODY" /\ Unread = <<>>
          \/ Ending
    /\ cmd # "DATA" => Unsent({"DATA"})
    /\ \A i \in 1..Len(message) : message[i] # "QUIT"

LastWordInv ==
    /\ \A i \in 1..Len(toClient) : toClient[i].to \in {"timeout", "QUIT"} => server = "closed"
    /\ ByTheBook /\ phase = "ended" => server \in {"off", "closed"}

(* Each line the client reads belongs to the command it waits for          *)
(* (smtp_client.cpp:32-73, 184, 215-230).                                  *)
StepInv ==
    /\ Paced => AnswerInv /\ AskInv
    /\ slips = 0 => CollectInv
    /\ LastWordInv

(* Client and server agree on where in the submission they are, and, as    *)
(* long as the server writes as the protocol says, on which command is     *)
(* being answered.                                                         *)
IInv == PlaceInv /\ DotInv /\ StepInv

=============================================================================
