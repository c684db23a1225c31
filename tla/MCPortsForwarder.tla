-------------------------- MODULE MCPortsForwarder --------------------------
(* Small instances of PortsForwarder. *)
EXTENDS PortsForwarder, TLC

CONSTANTS a, b

(* a and b are two ways to write one port, and two socket files; any other *)
(* address stands for itself.                                              *)
TwoSpellings == [k \in Keys |-> IF k[1] # "unix" /\ k[2] = b THEN a ELSE k[2]]

(* Configurations: nothing, a port, and that port under two spellings. *)
Configurations == {{}, {<<"tcp", a>>}, {<<"tcp", a>>, <<"tcp", b>>}}
NothingConfigured == {{}}

Symmetry == Permutations(Listeners) \cup Permutations(Accepted)
=============================================================================
