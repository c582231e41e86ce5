------------------------------- MODULE MCRDTP -------------------------------
(* Instances of RDTP for TLC; the .cfg files hold its constants. *)
EXTENDS RDTP

=============================================================================
