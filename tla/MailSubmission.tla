--------------------------- MODULE MailSubmission ---------------------------
(***************************************************************************)
(* What SMTP/README.md promises, without commands and replies: the server  *)
(* takes a message at most once, as the text it was given, and the client  *)
(* reports success only when a message has been taken.  The client does    *)
(* nothing about lines that begin with a dot: a message with such a line   *)
(* may lose the dot, and one with a line that is a single dot is cut there *)
(* and followed by whatever the rest of it says, so that the promise is    *)
(* about the others.                                                       *)
(***************************************************************************)
EXTENDS Naturals, Sequences

VARIABLES
    body,     \* the lines of the message
    mailbox,  \* the messages the server has taken
    verdict   \* what the client has reported

vars == <<body, mailbox, verdict>>

HasLine(kinds) == \E i \in 1..Len(body) : body[i] \in kinds
OneMessage     == ~HasLine({"dot"})
Verbatim       == ~HasLine({"dot", "dotted"})

Init ==
    /\ mailbox = <<>>
    /\ verdict = "none"

Take ==
    /\ OneMessage => mailbox = <<>>
    /\ Len(mailbox') = Len(mailbox) + 1
    /\ Verbatim => mailbox' = <<<<"header">> \o body>>
    /\ UNCHANGED <<body, verdict>>

ReportSuccess ==
    /\ verdict = "none" /\ mailbox # <<>>
    /\ verdict' = "success"
    /\ UNCHANGED <<body, mailbox>>

(* An answer that is lost leaves the client in the dark. *)
ReportFailure ==
    /\ verdict = "none"
    /\ verdict' = "failure"
    /\ UNCHANGED <<body, mailbox>>

Next == Take \/ ReportSuccess \/ ReportFailure

Spec == Init /\ [][Next]_vars

=============================================================================
