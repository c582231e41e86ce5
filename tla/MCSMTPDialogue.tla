--------------------------- MODULE MCSMTPDialogue ---------------------------
(* Instances of SMTPDialogue for TLC; the .cfg files hold its constants. *)
EXTENDS SMTPDialogue

(* A line that begins with a dot, and one that reads like a command; and   *)
(* a text that ends early and goes on with a message of its own.           *)
DottedBodies == {<<"dotted">>, <<"quit">>, <<"dot", "data", "text">>}

=============================================================================
