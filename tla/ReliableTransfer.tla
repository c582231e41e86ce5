-------------------------- MODULE ReliableTransfer --------------------------
(***************************************************************************)
(* What RDTP/README.md promises, without packets: the receiver's output    *)
(* grows by the chunks of the file in order, the receiver ends once it has *)
(* all of them, and only then may a run of the sender report success.      *)
(***************************************************************************)
EXTENDS Integers, Sequences

CONSTANT FileLen                     \* number of chunks in the file

VARIABLES
    delivered, \* the receiver's output
    closed,    \* "open"; "closed" once it is complete; "failed"
    reported   \* what the sender's runs say: "nothing", "success", "failure"

vars == <<delivered, closed, reported>>

Init ==
    /\ delivered = <<>>
    /\ closed = "open"
    /\ reported = "nothing"

Deliver ==
    /\ closed = "open"
    /\ Len(delivered) < FileLen
    /\ delivered' = Append(delivered, Len(delivered))
    /\ UNCHANGED <<closed, reported>>

Close ==
    /\ closed = "open"
    /\ Len(delivered) = FileLen
    /\ closed' = "closed"
    /\ UNCHANGED <<delivered, reported>>

(* The receiver gives up; after Close, its output may be lost with it. *)
Break ==
    /\ closed # "failed"
    /\ closed' = "failed"
    /\ UNCHANGED <<delivered, reported>>

(* A sender may learn of the end only when there has been one. *)
ReportSuccess ==
    /\ reported = "nothing"
    /\ Len(delivered) = FileLen
    /\ closed # "open"
    /\ reported' = "success"
    /\ UNCHANGED <<delivered, closed>>

ReportFailure ==
    /\ reported = "nothing"
    /\ reported' = "failure"
    /\ UNCHANGED <<delivered, closed>>

Retry ==
    /\ reported = "failure"
    /\ reported' = "nothing"
    /\ UNCHANGED <<delivered, closed>>

Next == Deliver \/ Close \/ Break \/ ReportSuccess \/ ReportFailure \/ Retry

Spec == Init /\ [][Next]_vars

=============================================================================
