---------------------------- MODULE MCUDPPinger ----------------------------
(* Instances of UDPPinger for TLC. *)
EXTENDS UDPPinger, TLC

ClientSymmetry == Permutations(Clients)

=============================================================================
