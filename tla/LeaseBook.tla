----------------------------- MODULE LeaseBook -----------------------------
(***************************************************************************)
(* What the DHCP service promises, without its messages, its goroutines    *)
(* and the order of its addresses: a run of gvproxy keeps a book of who    *)
(* owns which address.  An owner is entered once and stays for the rest of *)
(* the run, whether anybody hears of it or not; a guest is promised only   *)
(* what the book says it owns, and uses only what it was promised.  A new  *)
(* run starts from the reservations.                                       *)
(***************************************************************************)
EXTENDS Integers

CONSTANTS
  Guests,       \* who may ask for an address
  Addresses,    \* the addresses of the subnet, 0 the network's
  Reserved,     \* Reserved[a]: the owner of a in every run, or Nobody
  Nobody,
  Nothing       \* what a guest without an address uses

VARIABLES
  book,      \* book[a]: the owner of a in this run, or Nobody
  run,       \* the number of the run
  promised,  \* promises that may still reach a guest, of this run or an earlier one
  uses       \* uses[g]: the promise g makes use of, or Nothing

vars == <<book, run, promised, uses>>

Init ==
  /\ book = Reserved
  /\ run = 0
  /\ promised = {}
  /\ uses = [g \in Guests |-> Nothing]

(* The address g owns, or any free one if it owns none, becomes its own;   *)
(* g is promised that address, or never told.                              *)
Assign(g, a) ==
  /\ \/ book[a] = g
     \/ a # 0 /\ book[a] = Nobody /\ \A b \in Addresses : book[b] # g
  /\ book' = [book EXCEPT ![a] = g]
  /\ promised' \in {promised, promised \cup {[mac |-> g, ip |-> a, epoch |-> run]}}
  /\ UNCHANGED <<run, uses>>

Use(g) ==
  /\ \E p \in promised : p.mac = g /\ uses' = [uses EXCEPT ![g] = p]
  /\ UNCHANGED <<book, run, promised>>

Leave(g) ==
  /\ uses' = [uses EXCEPT ![g] = Nothing]
  /\ UNCHANGED <<book, run, promised>>

Lose(p) ==
  /\ promised' = promised \ {p}
  /\ UNCHANGED <<book, run, uses>>

Restart ==
  /\ run' = run + 1
  /\ book' = Reserved
  /\ promised' \subseteq promised
  /\ UNCHANGED uses

Next ==
  \/ \E g \in Guests : Use(g) \/ Leave(g) \/ \E a \in Addresses : Assign(g, a)
  \/ \E p \in promised : Lose(p)
  \/ Restart

Spec == Init /\ [][Next]_vars
=============================================================================
