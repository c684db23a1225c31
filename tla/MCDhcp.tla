------------------------------- MODULE MCDhcp -------------------------------
(* A small instance of Dhcp. *)
EXTENDS Dhcp, TLC

CONSTANT s1

(* A static lease, between the gateway and the free addresses, for a       *)
(* machine that is not running.                                            *)
OneStaticLease == 2 :> s1

Symmetry == Permutations(Guests)
=============================================================================
