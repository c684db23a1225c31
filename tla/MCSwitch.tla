------------------------------ MODULE MCSwitch ------------------------------
(* Small instances of Switch. *)
EXTENDS Switch

CONSTANTS c1, m1, m2

(* Every guest has an address of its own. *)
OwnMacs == [c \in Clients |-> IF c = c1 THEN {m1} ELSE {m2}]

(* The guest of c1 reconnects or moves: its address shows up behind the    *)
(* second connection too, beside another guest's.                          *)
MovingMac == [c \in Clients |-> IF c = c1 THEN {m1} ELSE {m1, m2}]
=============================================================================
