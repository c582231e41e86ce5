---------------------------- MODULE MCSumServer ----------------------------
(* Instances of SumServer for TLC; the .cfg files hold its constants. *)
EXTENDS SumServer

============================================================================
