------------------------------- MODULE IPPool -------------------------------
(***************************************************************************)
(* The address pool of the virtual network, pkg/tap/ip_pool.go, filled by  *)
(* virtualnetwork.New before any guest is served.                          *)
(*                                                                         *)
(* Every operation holds IPPool.lock from its first to its last line, so   *)
(* each is one atomic step.  An address is its host number in the subnet:  *)
(* 0 is the network address, Count - 1 the broadcast address.              *)
(***************************************************************************)
EXTENDS Integers

CONSTANTS
  Macs,          \* hardware addresses, the gateway's included
  NoMac,         \* the address is not a key of IPPool.leases
  Count,         \* cidr.AddressCount(base)
  GatewayIP,     \* configuration.GatewayIP
  GatewayMac,    \* configuration.GatewayMacAddress
  StaticLeases   \* configuration.DHCPStaticLeases: address -> hardware address

Addresses == 0 .. Count - 1

ASSUME PoolAssumption ==
  /\ Count \in Nat
  /\ NoMac \notin Macs
  /\ GatewayIP \in Addresses
  /\ GatewayMac \in Macs
  /\ DOMAIN StaticLeases \subseteq Addresses
  /\ \A a \in DOMAIN StaticLeases : StaticLeases[a] \in Macs

VARIABLE leases   \* IPPool.leases: address -> hardware address or NoMac

(* Mutant of NewPool: the gateway's address is not reserved. *)
NewPoolWithoutGateway ==
  [a \in Addresses |-> IF a \in DOMAIN StaticLeases THEN StaticLeases[a] ELSE NoMac]

(* NewIPPool, then Reserve for the gateway and, over it, for each static   *)
(* lease.  GatewayVirtualIPs are not reserved.                             *)
NewPool ==
  [a \in Addresses |-> IF a \in DOMAIN StaticLeases THEN StaticLeases[a]
                       ELSE IF a = GatewayIP THEN GatewayMac
                       ELSE NoMac]

Held(mac) == {a \in Addresses : leases[a] = mac}

(* Mutant of Free: the loop ends before the last address. *)
FreeButLast == {a \in 1 .. Count - 2 : leases[a] = NoMac}

(* The candidates of the loop, which starts behind the network address and *)
(* runs up to the broadcast address.                                       *)
Free == {a \in 1 .. Count - 1 : leases[a] = NoMac}

(* Mutant of GetOrAssign: the look-up of an earlier lease is left out. *)
GetOrAssignAnew(mac, ip) ==
  /\ ip \in Free
  /\ \A a \in Free : ip <= a
  /\ leases' = [leases EXCEPT ![ip] = mac]

(* Mutant of GetOrAssign: the candidate is not checked against the leases. *)
GetOrAssignUnchecked(mac, ip) ==
  \/ /\ ip \in Held(mac)
     /\ UNCHANGED leases
  \/ /\ Held(mac) = {}
     /\ ip \in 1 .. Count - 1
     /\ \A a \in 1 .. Count - 1 : ip <= a
     /\ leases' = [leases EXCEPT ![ip] = mac]

(* GetOrAssign(mac) returns ip: an address mac has already (the iteration  *)
(* over the map may meet any of them first), else the lowest free one.     *)
GetOrAssign(mac, ip) ==
  \/ /\ ip \in Held(mac)
     /\ UNCHANGED leases
  \/ /\ Held(mac) = {}
     /\ ip \in Free
     /\ \A a \in Free : ip <= a
     /\ leases' = [leases EXCEPT ![ip] = mac]

(* GetOrAssign(mac) returns "cannot find available IP". *)
Exhausted(mac) == Held(mac) = {} /\ Free = {}
=============================================================================
