----------------------------- MODULE DhcpProofs -----------------------------
(***************************************************************************)
(* Proofs about Dhcp over IPPool, for any subnet, any static leases, any   *)
(* number of guests and any number of restarts.                            *)
(***************************************************************************)
EXTENDS Dhcp, TLAPS

(***************************************************************************)
(* The inductive invariant.                                                *)
(***************************************************************************)

(* What the configuration reserves stays in the pool. *)
ReservationsInPool ==
  \A a \in Addresses : NewPool[a] # NoMac => leases[a] = NewPool[a]

(* Several addresses of one owner are reserved addresses. *)
ExtraAddressesReserved ==
  \A a, b \in Addresses :
    (a # b /\ leases[a] = leases[b] /\ leases[a] # NoMac)
      => NewPool[a] = leases[a] /\ NewPool[b] = leases[a]

(* No grant comes from a later run of gvproxy. *)
NoFutureGrants == \A r \in Granted : r.epoch <= epoch

(* What is granted is not in the initial pool for somebody else. *)
OwnersKept == \A r \in Granted : NewPool[r.ip] \in {NoMac, r.mac}

(* Several addresses granted to one guest are in the initial pool. *)
ExtraGrantsReserved ==
  \A r, s \in Granted :
    (r.mac = s.mac /\ r.epoch = s.epoch /\ r.ip # s.ip)
      => \E a, b \in Addresses : a # b /\ NewPool[a] = r.mac /\ NewPool[b] = r.mac

PoolInv == ReservationsInPool /\ ExtraAddressesReserved

GrantInv ==
  /\ NoFutureGrants
  /\ NoAddressConflict
  /\ GrantsAreLeased
  /\ OwnersKept
  /\ ExtraGrantsReserved

IInv == TypeOK /\ PoolInv /\ GrantInv

-----------------------------------------------------------------------------
(* The pool as New leaves it is well typed and has only reservations. *)
LEMMA NewPoolType == NewPool \in [Addresses -> Macs \cup {NoMac}]
  BY PoolAssumption DEF NewPool

(* The initial pool has the configuration's reservations, and no others. *)
LEMMA NewPoolReserved ==
  ASSUME NEW a \in Addresses, NEW mac \in Macs
  PROVE  /\ NewPool[a] = mac => a \in Reservations(mac)
         /\ NewPool[a] = NoMac => a \notin DOMAIN StaticLeases \cup {GatewayIP}
BY PoolAssumption DEF NewPool, Reservations

(* Grants in a well-typed state are well-typed grants. *)
LEMMA GrantedType ==
  ASSUME TypeOK
  PROVE  Granted \subseteq Grants
BY DEF TypeOK, Granted

(* The initial state satisfies the invariant. *)
LEMMA InitIInv == Init => IInv
<1> SUFFICES ASSUME Init PROVE IInv
  OBVIOUS
<1>1. TypeOK
  BY NewPoolType, DhcpAssumption DEF Init, TypeOK, Epochs
<1>2. PoolInv
  BY DEF Init, PoolInv, ReservationsInPool, ExtraAddressesReserved
<1>3. Granted = {}
  BY DEF Init, Granted
<1> QED
  BY <1>1, <1>2, <1>3 DEF IInv, GrantInv, NoFutureGrants, NoAddressConflict, GrantsAreLeased,
     OwnersKept, ExtraGrantsReserved

(* A step that leaves the pool alone and grants nothing new is harmless. *)
LEMMA NoNewGrant ==
  ASSUME IInv, TypeOK', Granted' \subseteq Granted, UNCHANGED <<leases, epoch>>
  PROVE  IInv'
<1>1. PoolInv'
  BY DEF IInv, PoolInv, ReservationsInPool, ExtraAddressesReserved, NewPool
<1>2. GrantInv'
  BY DEF IInv, GrantInv, NoFutureGrants, NoAddressConflict, GrantsAreLeased,
     OwnersKept, ExtraGrantsReserved, NewPool
<1> QED
  BY <1>1, <1>2 DEF IInv

(***************************************************************************)
(* GetOrAssign: the pool keeps its invariant, the address it returns is    *)
(* entered for the caller, was reserved for nobody else, and no entry is   *)
(* taken from anybody.                                                     *)
(***************************************************************************)
LEMMA GetOrAssignCorrect ==
  ASSUME leases \in [Addresses -> Macs \cup {NoMac}], PoolInv,
         NEW mac \in Macs, NEW ip \in Addresses, GetOrAssign(mac, ip)
  PROVE  /\ leases' \in [Addresses -> Macs \cup {NoMac}]
         /\ PoolInv'
         /\ leases'[ip] = mac
         /\ NewPool[ip] \in {NoMac, mac}
         /\ \A a \in Addresses : leases[a] # NoMac => leases'[a] = leases[a]
<1> USE PoolAssumption
<1>1. CASE ip \in Held(mac) /\ UNCHANGED leases
  BY <1>1 DEF Held, PoolInv, ReservationsInPool, ExtraAddressesReserved, NewPool
<1>2. CASE /\ Held(mac) = {}
           /\ ip \in Free
           /\ leases' = [leases EXCEPT ![ip] = mac]
  <2>1. leases[ip] = NoMac /\ \A a \in Addresses : leases[a] # mac
    BY <1>2 DEF Held, Free
  <2>2. ReservationsInPool'
    BY <1>2, <2>1 DEF PoolInv, ReservationsInPool, NewPool
  <2>3. ExtraAddressesReserved'
    BY <1>2, <2>1 DEF PoolInv, ExtraAddressesReserved, NewPool
  <2>4. NewPool[ip] \in {NoMac, mac}
    BY <2>1 DEF PoolInv, ReservationsInPool
  <2> QED
    BY <1>2, <2>1, <2>2, <2>3, <2>4 DEF PoolInv
<1> QED
  BY <1>1, <1>2 DEF GetOrAssign

(* The handler that takes an address from the pool preserves the invariant. *)
LEMMA handlerAssignStep ==
  ASSUME IInv, NEW m \in requests, handlerAssign(m)
  PROVE  IInv'
<1>1. PICK ip \in Addresses :
        /\ GetOrAssign(m.mac, ip)
        /\ handlers' =
             IF m.type \in DOMAIN ReplyType
             THEN handlers \cup
                    {[mac |-> m.mac, ip |-> ip, epoch |-> epoch, type |-> ReplyType[m.type]]}
             ELSE handlers
  BY DEF handlerAssign
<1>2. m \in Requests /\ m.mac \in Guests /\ m.mac \in Macs /\ m.mac # NoMac
  BY PoolAssumption, DhcpAssumption DEF IInv, TypeOK, Requests
<1>3. /\ leases' \in [Addresses -> Macs \cup {NoMac}]
      /\ PoolInv'
      /\ leases'[ip] = m.mac
      /\ NewPool[ip] \in {NoMac, m.mac}
      /\ \A a \in Addresses : leases[a] # NoMac => leases'[a] = leases[a]
  BY <1>1, <1>2, GetOrAssignCorrect DEF IInv, TypeOK
<1> DEFINE New == [mac |-> m.mac, ip |-> ip, epoch |-> epoch, type |-> ReplyType[m.type]]
<1>4. m.type \in DOMAIN ReplyType => New \in Grants
  BY <1>2 DEF IInv, TypeOK, Grants, ReplyType
<1>5. TypeOK'
  BY <1>1, <1>3, <1>4 DEF IInv, TypeOK, handlerAssign
<1>6. Granted' \subseteq Granted \cup {New} /\ Granted \subseteq Grants
  BY <1>1, GrantedType DEF IInv, Granted, handlerAssign
<1>7. /\ New.mac = m.mac
      /\ New.ip = ip
      /\ New.epoch = epoch
      /\ epoch' = epoch
      /\ epoch \in Int
  BY DEF handlerAssign, IInv, TypeOK, Epochs
<1>8. \A r \in Granted : r.epoch = epoch => leases[r.ip] = r.mac /\ leases'[r.ip] = r.mac
  BY <1>3, <1>6, PoolAssumption, DhcpAssumption DEF IInv, GrantInv, GrantsAreLeased, Grants
<1> HIDE DEF New
<1>9. (NoFutureGrants /\ GrantsAreLeased)'
  BY <1>3, <1>6, <1>7, <1>8 DEF IInv, GrantInv, NoFutureGrants, GrantsAreLeased
<1>10. NoAddressConflict'
  BY <1>3, <1>6, <1>7, <1>8 DEF IInv, GrantInv, NoAddressConflict
<1>11. OwnersKept'
  BY <1>3, <1>6, <1>7 DEF IInv, GrantInv, OwnersKept, NewPool
<1>12. ExtraGrantsReserved'
  <2> SUFFICES ASSUME NEW r \in Granted', NEW s \in Granted',
                      r.mac = s.mac, r.epoch = s.epoch, r.ip # s.ip
               PROVE  \E a, b \in Addresses : a # b /\ NewPool[a] = r.mac /\ NewPool[b] = r.mac
    BY DEF ExtraGrantsReserved, NewPool
  <2>1. CASE r \in Granted /\ s \in Granted
    BY <2>1 DEF IInv, GrantInv, ExtraGrantsReserved
  <2>2. CASE r = New \/ s = New
    <3>1. /\ r.ip \in Addresses /\ s.ip \in Addresses
          /\ r.mac = m.mac
          /\ leases'[r.ip] = r.mac /\ leases'[s.ip] = r.mac
      BY <1>3, <1>6, <1>7, <1>8, <2>2 DEF Grants
    <3> QED
      BY <1>2, <1>3, <3>1 DEF PoolInv, ExtraAddressesReserved, NewPool
  <2> QED
    BY <1>6, <2>1, <2>2
<1> QED
  BY <1>3, <1>5, <1>9, <1>10, <1>11, <1>12 DEF IInv, GrantInv

(* A restart preserves the invariant: old grants belong to earlier runs. *)
LEMMA RestartStep ==
  ASSUME IInv, Restart
  PROVE  IInv'
<1>1. TypeOK'
  BY NewPoolType, DhcpAssumption DEF IInv, TypeOK, Restart, Epochs, NewPool
<1>2. PoolInv'
  BY DEF Restart, PoolInv, ReservationsInPool, ExtraAddressesReserved, NewPool
<1>3. Granted' \subseteq Granted /\ epoch' = epoch + 1 /\ epoch \in Int
  BY DEF Restart, Granted, IInv, TypeOK, Epochs
<1>4. \A r \in Granted : r.epoch \in Int /\ r.epoch <= epoch
  BY GrantedType DEF IInv, GrantInv, NoFutureGrants, Grants, Epochs
<1>5. (NoFutureGrants /\ GrantsAreLeased)'
  BY <1>3, <1>4 DEF NoFutureGrants, GrantsAreLeased
<1>6. (NoAddressConflict /\ OwnersKept /\ ExtraGrantsReserved)'
  BY <1>3 DEF IInv, GrantInv, NoAddressConflict, OwnersKept, ExtraGrantsReserved,
     NewPool
<1> QED
  BY <1>1, <1>2, <1>5, <1>6 DEF IInv, GrantInv

(* What the guests do preserves the invariant. *)
LEMMA GuestStep ==
  ASSUME IInv, NEW g \in Guests, Guest(g)
  PROVE  IInv'
<1>1. ASSUME NEW type \in AskTypes, Ask(g, type) PROVE IInv'
  <2>1. TypeOK' /\ Granted' \subseteq Granted
    BY <1>1, DhcpAssumption DEF IInv, TypeOK, Requests, Granted, Ask
  <2> QED
    BY <1>1, <2>1, NoNewGrant DEF Ask
<1>2. CASE Request(g)
  <2>1. TypeOK' /\ Granted' \subseteq Granted
    BY <1>2 DEF IInv, TypeOK, Requests, Granted, Request
  <2> QED
    BY <1>2, <2>1, NoNewGrant DEF Request
<1>3. CASE Bind(g)
  <2>1. PICK r \in replies : bound' = [bound EXCEPT ![g] = r]
    BY <1>3 DEF Bind
  <2>2. TypeOK'
    BY <1>3, <2>1 DEF IInv, TypeOK, Bind
  <2>3. Granted' \subseteq Granted
    BY <1>3, <2>1 DEF IInv, TypeOK, Granted, Bind
  <2> QED
    BY <1>3, <2>2, <2>3, NoNewGrant DEF Bind
<1>4. CASE Leave(g)
  <2>1. TypeOK' /\ Granted' \subseteq Granted
    BY <1>4 DEF IInv, TypeOK, Granted, Leave
  <2> QED
    BY <1>4, <2>1, NoNewGrant DEF Leave
<1> QED
  BY <1>1, <1>2, <1>3, <1>4 DEF Guest

(* Every step preserves the invariant. *)
LEMMA NextIInv == IInv /\ [Next]_vars => IInv'
<1> SUFFICES ASSUME IInv, [Next]_vars PROVE IInv'
  OBVIOUS
<1>1. CASE UNCHANGED vars
  <2>1. TypeOK' /\ Granted' \subseteq Granted
    BY <1>1 DEF IInv, TypeOK, Granted, vars
  <2> QED
    BY <1>1, <2>1, NoNewGrant DEF vars
<1>2. ASSUME NEW m \in requests, handlerExhausted(m) \/ LoseRequest(m) PROVE IInv'
  <2>1. TypeOK' /\ Granted' \subseteq Granted
    BY <1>2 DEF IInv, TypeOK, Granted, handlerExhausted, LoseRequest
  <2> QED
    BY <1>2, <2>1, NoNewGrant DEF handlerExhausted, LoseRequest
<1>3. ASSUME NEW h \in handlers, handlerReply(h) PROVE IInv'
  <2>1. TypeOK' /\ Granted' \subseteq Granted
    BY <1>3 DEF IInv, TypeOK, Granted, handlerReply
  <2> QED
    BY <1>3, <2>1, NoNewGrant DEF handlerReply
<1>4. ASSUME NEW r \in replies, LoseReply(r) PROVE IInv'
  <2>1. TypeOK' /\ Granted' \subseteq Granted
    BY <1>4 DEF IInv, TypeOK, Granted, LoseReply
  <2> QED
    BY <1>4, <2>1, NoNewGrant DEF LoseReply
<1> QED
  BY <1>1, <1>2, <1>3, <1>4, handlerAssignStep, RestartStep, GuestStep DEF Next, handler

(* The inductive invariant holds in every state of every instance. *)
LEMMA InvariantHolds == Spec => []IInv
<1>1. Init => IInv
  BY InitIInv
<1>2. IInv /\ [Next]_vars => IInv'
  BY NextIInv
<1> QED
  BY <1>1, <1>2, PTL DEF Spec

(* Type correctness of the pool, the messages and the guests' leases. *)
THEOREM TypeCorrect == Spec => []TypeOK
<1>1. IInv => TypeOK
  BY DEF IInv
<1> QED
  BY <1>1, InvariantHolds, PTL

(***************************************************************************)
(* No two guests are granted the same address by one run of gvproxy.       *)
(***************************************************************************)
THEOREM AddressesUnique == Spec => []NoAddressConflict
<1>1. IInv => NoAddressConflict
  BY DEF IInv, GrantInv
<1> QED
  BY <1>1, InvariantHolds, PTL

(***************************************************************************)
(* What the running gvproxy has granted stays entered in its pool.         *)
(***************************************************************************)
THEOREM GrantsStayLeased == Spec => []GrantsAreLeased
<1>1. IInv => GrantsAreLeased
  BY DEF IInv, GrantInv
<1> QED
  BY <1>1, InvariantHolds, PTL

(***************************************************************************)
(* Reserved addresses are granted to their owners only.                    *)
(***************************************************************************)
THEOREM ReservationsHonoured == Spec => []ReservedAddressesKept
<1>1. IInv => ReservedAddressesKept
  <2> SUFFICES ASSUME IInv, NEW r \in Granted,
                      r.ip \in DOMAIN StaticLeases \cup {GatewayIP}
               PROVE  r.ip \in Reservations(r.mac)
    BY DEF ReservedAddressesKept
  <2>1. r.ip \in Addresses /\ r.mac \in Macs
    BY GrantedType, DhcpAssumption DEF IInv, Grants
  <2> QED
    BY <2>1, NewPoolReserved DEF IInv, GrantInv, OwnersKept
<1> QED
  BY <1>1, InvariantHolds, PTL

(***************************************************************************)
(* A guest is granted one address, unless it has several reservations.     *)
(***************************************************************************)
THEOREM AddressStable == Spec => []OneAddressPerGuest
<1>1. IInv => OneAddressPerGuest
  <2> SUFFICES ASSUME IInv, NEW r \in Granted, NEW s \in Granted,
                      r.mac = s.mac, r.epoch = s.epoch, r.ip # s.ip
               PROVE  \E a, b \in Reservations(r.mac) : a # b
    BY DEF OneAddressPerGuest
  <2>1. r.mac \in Macs
    BY GrantedType, DhcpAssumption DEF IInv, Grants
  <2>2. PICK a, b \in Addresses : a # b /\ NewPool[a] = r.mac /\ NewPool[b] = r.mac
    BY DEF IInv, GrantInv, ExtraGrantsReserved
  <2> QED
    BY <2>1, <2>2, NewPoolReserved
<1> QED
  BY <1>1, InvariantHolds, PTL

(***************************************************************************)
(* A guest is refused only when the subnet is full of reservations and of  *)
(* leases of different guests.                                             *)
(***************************************************************************)
THEOREM RefusalIsHonest == Spec => []RefusedOnlyWhenFull
<1>1. IInv => RefusedOnlyWhenFull
  <2> SUFFICES ASSUME IInv, NEW g \in Guests, Exhausted(g), NEW a \in 1 .. Count - 1,
                      a \notin Reservations(leases[a])
               PROVE  /\ leases[a] \in Macs \ {g}
                      /\ \A b \in Addresses : b # a => leases[b] # leases[a]
    BY DEF RefusedOnlyWhenFull
  <2>1. a \in Addresses
    BY PoolAssumption DEF Addresses
  <2>2. leases[a] \in Macs \ {g}
    BY <2>1 DEF Exhausted, Free, Held, IInv, TypeOK
  <2>3. NewPool[a] # leases[a]
    BY <2>1, <2>2, NewPoolReserved
  <2> QED
    BY <2>1, <2>2, <2>3, PoolAssumption DEF IInv, PoolInv, ExtraAddressesReserved
<1> QED
  BY <1>1, InvariantHolds, PTL

-----------------------------------------------------------------------------
(* The refinement. *)

(* What is promised, as the lease book sees it. *)
Promised == {Promise(r) : r \in handlers \cup replies}

(* A step that leaves leases, epoch and what guests use alone, and moves   *)
(* or loses one promise at most, is a step of the book or none.            *)
LEMMA LoseOrStutter ==
  ASSUME UNCHANGED <<leases, epoch, bound>>, NEW r,
         Promised' \subseteq Promised, Promised \ {Promise(r)} \subseteq Promised'
  PROVE  [Book!Next]_(Book!vars)
<1>1. CASE Promised' = Promised
  BY <1>1 DEF Promised, Book!vars, Promise
<1>2. CASE Promised' # Promised
  <2>1. Promise(r) \in Promised /\ Promised' = Promised \ {Promise(r)}
    BY <1>2
  <2>2. Book!Lose(Promise(r))
    BY <2>1 DEF Book!Lose, Promised, Promise
  <2> QED
    BY <2>1, <2>2 DEF Book!Next, Promised
<1> QED
  BY <1>1, <1>2

(* The handler that takes an address from the pool enters it in the book. *)
LEMMA AssignRefines ==
  ASSUME IInv, NEW m \in requests, handlerAssign(m)
  PROVE  Book!Next
<1>1. PICK ip \in Addresses :
        /\ GetOrAssign(m.mac, ip)
        /\ handlers' =
             IF m.type \in DOMAIN ReplyType
             THEN handlers \cup
                    {[mac |-> m.mac, ip |-> ip, epoch |-> epoch, type |-> ReplyType[m.type]]}
             ELSE handlers
  BY DEF handlerAssign
<1>2. m.mac \in Guests
  BY DEF IInv, TypeOK, Requests
<1>3. /\ \/ leases[ip] = m.mac
         \/ ip # 0 /\ leases[ip] = NoMac /\ \A b \in Addresses : leases[b] # m.mac
      /\ leases' = [leases EXCEPT ![ip] = m.mac]
  BY <1>1 DEF GetOrAssign, Held, Free, IInv, TypeOK, Addresses
<1>4. Promised' \in {Promised, Promised \cup {[mac |-> m.mac, ip |-> ip, epoch |-> epoch]}}
  <2>1. replies' = replies
    BY DEF handlerAssign
  <2>2. CASE m.type \in DOMAIN ReplyType
    <3> DEFINE New == [mac |-> m.mac, ip |-> ip, epoch |-> epoch, type |-> ReplyType[m.type]]
    <3>1. handlers' \cup replies' = (handlers \cup replies) \cup {New}
      BY <1>1, <2>1, <2>2
    <3>2. Promise(New) = [mac |-> m.mac, ip |-> ip, epoch |-> epoch]
      BY DEF Promise
    <3>3. Promised' = Promised \cup {Promise(New)}
      <4> HIDE DEF New
      <4> QED
        BY <3>1, Zenon DEF Promised, Promise
    <3> QED
      BY <3>2, <3>3
  <2>3. CASE m.type \notin DOMAIN ReplyType
    BY <1>1, <2>1, <2>3 DEF Promised, Promise
  <2> QED
    BY <2>2, <2>3
<1>5. epoch' = epoch /\ bound' = bound
  BY DEF handlerAssign
<1>6. Book!Assign(m.mac, ip)
  BY <1>3, <1>4, <1>5 DEF Book!Assign, Promised, Promise
<1> QED
  BY <1>2, <1>6 DEF Book!Next

(* What a guest does is a use, the end of one, or nothing to the book. *)
LEMMA GuestRefines ==
  ASSUME IInv, NEW g \in Guests, Guest(g)
  PROVE  [Book!Next]_(Book!vars)
<1>1. ASSUME UNCHANGED <<leases, epoch, handlers, replies, bound>> PROVE [Book!Next]_(Book!vars)
  BY <1>1 DEF Book!vars, Promise
<1>2. CASE Bind(g)
  <2>1. PICK r \in replies : r.mac = g /\ bound' = [bound EXCEPT ![g] = r]
    BY <1>2 DEF Bind
  <2>2. UNCHANGED <<leases, epoch, handlers, replies>>
    BY <1>2 DEF Bind
  <2>3. Promise(r).mac = g /\ Promise(r) \in Promised
    BY <2>1 DEF Promise, Promised
  <2>4. [x \in Guests |-> Promise(bound'[x])]
          = [[x \in Guests |-> Promise(bound[x])] EXCEPT ![g] = Promise(r)]
    BY <2>1 DEF IInv, TypeOK
  <2>5. Book!Use(g)
    BY <2>2, <2>3, <2>4 DEF Book!Use, Promised, Promise
  <2> QED
    BY <2>5 DEF Book!Next
<1>3. CASE Leave(g)
  <2>1. [x \in Guests |-> Promise(bound'[x])]
          = [[x \in Guests |-> Promise(bound[x])] EXCEPT ![g] = Promise(None)]
    BY <1>3 DEF Leave, IInv, TypeOK
  <2>2. Book!Leave(g)
    BY <1>3, <2>1 DEF Leave, Book!Leave, Promise, None
  <2> QED
    BY <2>2 DEF Book!Next
<1> QED
  BY <1>1, <1>2, <1>3 DEF Guest, Ask, Request

(* The service implements the lease book, for any subnet, reservations,    *)
(* guests and number of restarts: within a run of gvproxy an address keeps *)
(* the owner it was given, and guests are told of nothing else.            *)
THEOREM BookImplemented == Spec => ImplementsLeaseBook
<1>1. Init => Book!Init
  BY DEF Init, Book!Init, Promise, NewPool
<1>2. IInv /\ [Next]_vars => [Book!Next]_(Book!vars)
  <2> SUFFICES ASSUME IInv, [Next]_vars PROVE [Book!Next]_(Book!vars)
    OBVIOUS
  <2>1. ASSUME NEW m \in requests, handlerExhausted(m) \/ LoseRequest(m)
        PROVE  [Book!Next]_(Book!vars)
    BY <2>1 DEF handlerExhausted, LoseRequest, Book!vars, Promise
  <2>2. ASSUME NEW h \in handlers, handlerReply(h) PROVE [Book!Next]_(Book!vars)
    <3>1. handlers' \cup replies' = handlers \cup replies
      BY <2>2 DEF handlerReply
    <3>2. Promised' = Promised
      BY <3>1, Zenon DEF Promised, Promise
    <3> QED
      BY <2>2, <3>2, LoseOrStutter DEF handlerReply
  <2>3. ASSUME NEW r \in replies, LoseReply(r) PROVE [Book!Next]_(Book!vars)
    <3>1. Promised' \subseteq Promised /\ Promised \ {Promise(r)} \subseteq Promised'
      BY <2>3 DEF LoseReply, Promised
    <3> QED
      BY <2>3, <3>1, LoseOrStutter DEF LoseReply
  <2>4. CASE Restart
    <3>1. Promised' \subseteq Promised
      BY <2>4 DEF Restart, Promised
    <3>2. Book!Restart
      BY <2>4, <3>1 DEF Restart, Book!Restart, Promised, Promise, NewPool
    <3> QED
      BY <3>2 DEF Book!Next
  <2>5. CASE UNCHANGED vars
    BY <2>5 DEF vars, Book!vars, Promise
  <2> QED
    BY <2>1, <2>2, <2>3, <2>4, <2>5, AssignRefines, GuestRefines DEF Next, handler
<1> QED
  BY <1>1, <1>2, InvariantHolds, PTL DEF Spec, ImplementsLeaseBook, Book!Spec
=============================================================================
