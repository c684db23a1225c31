-------------------------------- MODULE Dhcp --------------------------------
(***************************************************************************)
(* The DHCP service of the virtual network: the handler of                 *)
(* pkg/services/dhcp/dhcp.go over the address pool (IPPool), between       *)
(* guests and a network that loses, duplicates and reorders datagrams.     *)
(*                                                                         *)
(* The server library reads the socket and runs the handler for each       *)
(* datagram in a goroutine of its own, so requests overlap: a handler that *)
(* has its address may send the reply long after others have sent theirs.  *)
(* The pool is in memory only: a gvproxy that is restarted starts from the *)
(* configuration again, while the guests keep the addresses they hold.     *)
(*                                                                         *)
(* Messages carry the number of the gvproxy run they belong to (epoch), a  *)
(* history variable that nothing in the code can see.                      *)
(***************************************************************************)
EXTENDS IPPool, FiniteSets

CONSTANTS
  Guests,       \* hardware addresses of the guests, DHCP clients
  AskTypes,     \* what a guest sends unprompted: "discover" or "other"
  MaxEpoch,     \* bound: restarts of gvproxy
  MaxInFlight   \* bound: datagrams under way, in each direction

ASSUME DhcpAssumption ==
  /\ Guests \subseteq Macs
  /\ AskTypes \subseteq {"discover", "other"}
  /\ MaxEpoch \in Nat

VARIABLES
  epoch,       \* number of restarts so far
  requests,    \* datagrams on their way to port 67
  handlers,    \* handler goroutines between GetOrAssign and WriteTo
  replies,     \* datagrams on their way to the guests
  bound        \* bound[g]: the lease guest g is using, or None

vars == <<leases, epoch, requests, handlers, replies, bound>>

None     == [mac |-> NoMac, ip |-> 0, epoch |-> 0, type |-> "none"]
Epochs   == 0 .. MaxEpoch
Requests == [mac : Guests, type : {"discover", "request", "other"}]
Grants   == [mac : Guests, ip : Addresses, epoch : Epochs, type : {"offer", "ack"}]

(* The reply's type, by the type of the message. *)
ReplyType == [discover |-> "offer", request |-> "ack"]

Init ==
  /\ leases = NewPool
  /\ epoch = 0
  /\ requests = {}
  /\ handlers = {}
  /\ replies = {}
  /\ bound = [g \in Guests |-> None]

-----------------------------------------------------------------------------
(* The guests: DHCP clients outside the repository. *)

(* A guest asks: the first message of the exchange, or one that the server *)
(* does not implement (inform, release, decline).                          *)
Ask(g, type) ==
  /\ Cardinality(requests) < MaxInFlight
  /\ requests' = requests \cup {[mac |-> g, type |-> type]}
  /\ UNCHANGED <<leases, epoch, handlers, replies, bound>>

(* An offer is answered with a request; a bound guest renews its lease     *)
(* with a request as well.                                                 *)
Request(g) ==
  /\ Cardinality(requests) < MaxInFlight
  /\ \/ bound[g] # None
     \/ \E r \in replies : r.mac = g /\ r.type = "offer"
  /\ requests' = requests \cup {[mac |-> g, type |-> "request"]}
  /\ UNCHANGED <<leases, epoch, handlers, replies, bound>>

(* An acknowledgement is applied as it arrives, and may arrive again. *)
Bind(g) ==
  /\ \E r \in replies :
       /\ r.mac = g
       /\ r.type = "ack"
       /\ bound' = [bound EXCEPT ![g] = r]
  /\ UNCHANGED <<leases, epoch, requests, handlers, replies>>

(* A guest that is done with its address forgets it and tells nobody. *)
Leave(g) ==
  /\ bound[g] # None
  /\ bound' = [bound EXCEPT ![g] = None]
  /\ UNCHANGED <<leases, epoch, requests, handlers, replies>>

-----------------------------------------------------------------------------
(* The handler. *)

(* Mutant of handlerAssign: the default case does not return. *)
handlerAssignNoReturn(m) ==
  /\ \E ip \in Addresses :
       /\ GetOrAssign(m.mac, ip)
       /\ handlers' = handlers \cup
            {[mac |-> m.mac, ip |-> ip, epoch |-> epoch,
              type |-> IF m.type \in DOMAIN ReplyType THEN ReplyType[m.type] ELSE m.type]}
  /\ UNCHANGED <<epoch, requests, replies, bound>>

(* An address is taken from the pool whatever the type of the message; a   *)
(* type that is neither discover nor request ends the handler after that.  *)
handlerAssign(m) ==
  /\ \E ip \in Addresses :
       /\ GetOrAssign(m.mac, ip)
       /\ handlers' =
            IF m.type \in DOMAIN ReplyType
            THEN handlers \cup
                   {[mac |-> m.mac, ip |-> ip, epoch |-> epoch, type |-> ReplyType[m.type]]}
            ELSE handlers
  /\ UNCHANGED <<epoch, requests, replies, bound>>

(* Mutant of handlerExhausted: an address that its owner does not use any  *)
(* more goes back to the pool.                                             *)
handlerExhaustedReclaims(m) ==
  /\ Exhausted(m.mac)
  /\ \E a \in Addresses \ {r.ip : r \in handlers \cup replies \cup {bound[g] : g \in Guests}} :
       leases' = [leases EXCEPT ![a] = NewPool[a]]
  /\ requests' = requests \ {m}
  /\ UNCHANGED <<epoch, handlers, replies, bound>>

(* "dhcp: cannot assign ip": no reply. *)
handlerExhausted(m) ==
  /\ Exhausted(m.mac)
  /\ requests' = requests \ {m}
  /\ UNCHANGED <<leases, epoch, handlers, replies, bound>>

handlerReply(h) ==
  /\ Cardinality(replies) < MaxInFlight
  /\ handlers' = handlers \ {h}
  /\ replies' = replies \cup {h}
  /\ UNCHANGED <<leases, epoch, requests, bound>>

-----------------------------------------------------------------------------
(* The network, and the process. *)

LoseRequest(m) ==
  /\ requests' = requests \ {m}
  /\ UNCHANGED <<leases, epoch, handlers, replies, bound>>

LoseReply(r) ==
  /\ replies' = replies \ {r}
  /\ UNCHANGED <<leases, epoch, requests, handlers, bound>>

(* gvproxy ends and is started again: virtualnetwork.New builds the pool   *)
(* from the configuration.  What the guests were sent already still        *)
(* reaches them.                                                           *)
Restart ==
  /\ epoch < MaxEpoch
  /\ epoch' = epoch + 1
  /\ leases' = NewPool
  /\ handlers' = {}
  /\ requests' = {}
  /\ UNCHANGED <<replies, bound>>

Guest(g) ==
  \/ \E type \in AskTypes : Ask(g, type)
  \/ Request(g)
  \/ Bind(g)
  \/ Leave(g)

handler(m) == handlerAssign(m) \/ handlerExhausted(m)

Next ==
  \/ \E g \in Guests : Guest(g)
  \/ \E m \in requests : handler(m) \/ LoseRequest(m)
  \/ \E h \in handlers : handlerReply(h)
  \/ \E r \in replies : LoseReply(r)
  \/ Restart

Spec == Init /\ [][Next]_vars

-----------------------------------------------------------------------------
(* Properties. *)

(* Everything the server has granted that somebody may still act on. *)
Granted == handlers \cup replies \cup ({bound[g] : g \in Guests} \ {None})

(* The addresses the configuration gives to mac. *)
Reservations(mac) ==
  {a \in Addresses : IF a \in DOMAIN StaticLeases THEN StaticLeases[a] = mac
                     ELSE a = GatewayIP /\ mac = GatewayMac}

(* Type invariant of the pool, the messages and the guests' leases. *)
TypeOK ==
  /\ leases \in [Addresses -> Macs \cup {NoMac}]
  /\ epoch \in Epochs
  /\ requests \subseteq Requests
  /\ handlers \subseteq Grants
  /\ replies \subseteq Grants
  /\ bound \in [Guests -> Grants \cup {None}]

(***************************************************************************)
(* No two guests are ever granted the same address by the same run of      *)
(* gvproxy, however their exchanges overlap and however late, often or out *)
(* of order the replies arrive.                                            *)
(***************************************************************************)
NoAddressConflict ==
  \A r, s \in Granted : (r.epoch = s.epoch /\ r.ip = s.ip) => r.mac = s.mac

(***************************************************************************)
(* What this run of gvproxy has granted stays entered in its pool, so that *)
(* a guest that renews keeps its address.                                  *)
(***************************************************************************)
GrantsAreLeased ==
  \A r \in Granted : r.epoch = epoch => leases[r.ip] = r.mac

(***************************************************************************)
(* The gateway's address and the addresses of static leases are granted to *)
(* nobody but their owners, in any run of gvproxy.                         *)
(***************************************************************************)
ReservedAddressesKept ==
  \A r \in Granted :
    r.ip \in DOMAIN StaticLeases \cup {GatewayIP} => r.ip \in Reservations(r.mac)

(***************************************************************************)
(* A guest has one address at a time: all that one run of gvproxy grants   *)
(* it is the same address, unless the configuration gives it several.      *)
(***************************************************************************)
OneAddressPerGuest ==
  \A r, s \in Granted :
    (r.mac = s.mac /\ r.epoch = s.epoch /\ r.ip # s.ip)
      => \E a, b \in Reservations(r.mac) : a # b

(***************************************************************************)
(* A guest is refused an address only when the subnet is really full:      *)
(* every address but the network's is reserved, or leased to one of the    *)
(* other guests, a different one each.  No message, repeated, late, lost   *)
(* or of a type that gets no reply, uses up a second address.              *)
(***************************************************************************)
RefusedOnlyWhenFull ==
  \A g \in Guests : Exhausted(g) =>
    \A a \in 1 .. Count - 1 :
      \/ a \in Reservations(leases[a])
      \/ /\ leases[a] \in Macs \ {g}
         /\ \A b \in Addresses : b # a => leases[b] # leases[a]

-----------------------------------------------------------------------------
(* Refinement. *)

(* A grant without the type of the message that carries it. *)
Promise(r) == [mac |-> r.mac, ip |-> r.ip, epoch |-> r.epoch]

Book == INSTANCE LeaseBook WITH
  Reserved <- NewPool,
  Nobody   <- NoMac,
  Nothing  <- Promise(None),
  book     <- leases,
  run      <- epoch,
  promised <- {Promise(r) : r \in handlers \cup replies},
  uses     <- [g \in Guests |-> Promise(bound[g])]

(***************************************************************************)
(* The service implements the lease book: whatever overlaps, is lost, is   *)
(* repeated or arrives late, the owner of an address does not change       *)
(* within a run of gvproxy, and no guest is told or uses anything else.    *)
(***************************************************************************)
ImplementsLeaseBook == Book!Spec
=============================================================================
