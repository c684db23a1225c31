------------------------------- MODULE Switch -------------------------------
(***************************************************************************)
(* The layer-2 switch of gvproxy, pkg/tap/switch.go.                       *)
(*                                                                         *)
(* Every accepted guest connection is served by one goroutine running      *)
(* Switch.Accept: connect, the receive loop rx/rxBuf, and the deferred     *)
(* disconnect.  The gVisor stack transmits through DeliverNetworkPacket,   *)
(* either from goroutines of its own or from inside rxBuf, when it answers *)
(* the packet it is being handed.  All of them run txPkt concurrently.     *)
(*                                                                         *)
(* Granularity.  writeLock and connLock are held over socket writes, so    *)
(* taking them are steps of their own.  The camLock sections neither block *)
(* nor nest another lock: each is one atomic step, as are connect and the  *)
(* deferred disconnect, which hold connLock only for map updates.          *)
(***************************************************************************)
EXTENDS Integers

CONSTANTS
  Clients,         \* one element per call of Accept; a guest that reconnects is a new one
  StreamClients,   \* those whose protocol is a stream read through a bufio.Reader
  HTTPClients,     \* those accepted by a net/http server, through /connect
  GatewayThreads,  \* goroutines of the gVisor stack that transmit on their own
  Macs,            \* unicast addresses of the guests
  GatewayMac,      \* gateway.LinkAddress()
  Broadcast,       \* header.EthernetBroadcastAddress
  SrcMacs,         \* SrcMacs[c]: source addresses of the frames that arrive from c
  MaxConns,        \* bound: connection IDs handed out by connect
  MaxBuffered,     \* bound: whole frames waiting in a bufio.Reader
  None             \* no client, no thread, no frame

Addrs == Macs \cup {GatewayMac}

ASSUME SwitchAssumption ==
  /\ None \notin Clients \cup GatewayThreads
  /\ Clients \cap GatewayThreads = {}
  /\ StreamClients \subseteq Clients
  /\ HTTPClients \subseteq Clients
  /\ GatewayMac \notin Macs
  /\ Broadcast \notin Addrs
  /\ SrcMacs \in [Clients -> SUBSET Addrs]
  /\ MaxConns \in Nat
  /\ MaxBuffered \in Nat

VARIABLES
  nextConnID,  \* Switch.nextConnID
  conns,       \* Switch.conns: connection ID -> client, None when the key is absent
  cam,         \* Switch.cam: address -> connection ID, NoConn when the key is absent
  writeLock,   \* holder of Switch.writeLock
  connLock,    \* holder of Switch.connLock
  id,          \* id[c]: the ID connect returned to c's Accept
  closed,      \* closed[c]: conn.Close() was called on c's socket
  buffered,    \* buffered[c]: whole frames in c's bufio.Reader
  pc,          \* where each goroutine is
  frame,       \* the frame each goroutine is working on
  todo,        \* connection IDs that a txPkt in progress has still to write to
  crashed      \* the process ended: nil protocolImpl of an absent connection, no recovery

vars == <<nextConnID, conns, cam, writeLock, connLock, id, closed, buffered,
          pc, frame, todo, crashed>>

Threads == Clients \cup GatewayThreads
ConnIDs == 0 .. MaxConns - 1
NoConn  == -1
Frames  == [src : Addrs, dst : Addrs \cup {Broadcast}, gw : BOOLEAN]

(* Accept has registered the connection and has not yet cleaned up. *)
Served(c) == pc[c] \notin {"new", "done"}

Init ==
  /\ nextConnID = 0
  /\ conns = [i \in ConnIDs |-> None]
  /\ cam = [m \in Addrs |-> NoConn]
  /\ writeLock = None
  /\ connLock = None
  /\ id = [c \in Clients |-> NoConn]
  /\ closed = [c \in Clients |-> FALSE]
  /\ buffered = [c \in Clients |-> 0]
  /\ pc = [t \in Threads |-> IF t \in Clients THEN "new" ELSE "idle"]
  /\ frame = [t \in Threads |-> None]
  /\ todo = [t \in Threads |-> {}]
  /\ crashed = FALSE

-----------------------------------------------------------------------------
(* Accept: registration, and the deferred disconnect. *)

(* Mutant of connect: the ID is handed out again. *)
connectReusesID(c) ==
  /\ pc[c] = "new"
  /\ connLock = None
  /\ nextConnID < MaxConns
  /\ id' = [id EXCEPT ![c] = nextConnID]
  /\ conns' = [conns EXCEPT ![nextConnID] = c]
  /\ pc' = [pc EXCEPT ![c] = "read"]
  /\ UNCHANGED <<nextConnID, cam, writeLock, connLock, closed, buffered, frame, todo, crashed>>

connect(c) ==
  /\ pc[c] = "new"
  /\ connLock = None
  /\ nextConnID < MaxConns
  /\ id' = [id EXCEPT ![c] = nextConnID]
  /\ nextConnID' = nextConnID + 1
  /\ conns' = [conns EXCEPT ![nextConnID] = c]
  /\ pc' = [pc EXCEPT ![c] = "read"]
  /\ UNCHANGED <<cam, writeLock, connLock, closed, buffered, frame, todo, crashed>>

(* Mutant of disconnect: the whole address table is flushed. *)
disconnectFlushesCam(i, c) ==
  /\ cam' = [m \in Addrs |-> NoConn]
  /\ closed' = [closed EXCEPT ![c] = TRUE]
  /\ conns' = [conns EXCEPT ![i] = None]

(* disconnect(id, conn): forget the addresses of the connection, close it  *)
(* and delete it from the table.                                           *)
disconnect(i, c) ==
  /\ cam' = [m \in Addrs |-> IF cam[m] = i THEN NoConn ELSE cam[m]]
  /\ closed' = [closed EXCEPT ![c] = TRUE]
  /\ conns' = [conns EXCEPT ![i] = None]

(* Mutant of AcceptReturn: nothing is cleaned up after a failed write, which *)
(* has disconnected the peer before.                                       *)
AcceptReturnOnce(c) ==
  /\ pc[c] = "closing"
  /\ connLock = None
  /\ \/ ~closed[c] /\ disconnect(id[c], c)
     \/ closed[c] /\ UNCHANGED <<cam, closed, conns>>
  /\ pc' = [pc EXCEPT ![c] = "done"]
  /\ UNCHANGED <<nextConnID, writeLock, connLock, id, buffered, frame, todo, crashed>>

(* Mutant of AcceptReturn: the deferred function does not take connLock. *)
AcceptReturnUnlocked(c) ==
  /\ pc[c] = "closing"
  /\ disconnect(id[c], c)
  /\ pc' = [pc EXCEPT ![c] = "done"]
  /\ UNCHANGED <<nextConnID, writeLock, connLock, id, buffered, frame, todo, crashed>>

AcceptReturn(c) ==
  /\ pc[c] = "closing"
  /\ connLock = None
  /\ disconnect(id[c], c)
  /\ pc' = [pc EXCEPT ![c] = "done"]
  /\ UNCHANGED <<nextConnID, writeLock, connLock, id, buffered, frame, todo, crashed>>

-----------------------------------------------------------------------------
(* rx, rxStream, rxNonStream: the receive loop. *)

Receive(c, s, d) ==
  /\ frame' = [frame EXCEPT ![c] = [src |-> s, dst |-> d, gw |-> FALSE]]
  /\ pc' = [pc EXCEPT ![c] = "learn"]
  /\ UNCHANGED <<nextConnID, conns, cam, writeLock, connLock, id, closed, todo, crashed>>

(* A read from the open socket; on a stream it may fill the bufio.Reader.  *)
rxRead(c) ==
  /\ pc[c] = "read"
  /\ ~closed[c]
  /\ \E s \in SrcMacs[c], d \in Addrs \cup {Broadcast} : Receive(c, s, d)
  /\ IF buffered[c] > 0
     THEN buffered' = [buffered EXCEPT ![c] = @ - 1]
     ELSE \E n \in 0 .. MaxBuffered :
            /\ n > 0 => c \in StreamClients
            /\ buffered' = [buffered EXCEPT ![c] = n]

(* The socket was closed by a failed txBuf, but the bufio.Reader still     *)
(* holds frames: io.ReadFull returns them without touching the socket.     *)
rxDrain(c) ==
  /\ pc[c] = "read"
  /\ closed[c]
  /\ buffered[c] > 0
  /\ \E s \in SrcMacs[c], d \in Addrs \cup {Broadcast} : Receive(c, s, d)
  /\ buffered' = [buffered EXCEPT ![c] = @ - 1]

rxReturn(c) ==
  /\ pc[c] = "read"
  /\ pc' = [pc EXCEPT ![c] = "closing"]
  /\ UNCHANGED <<nextConnID, conns, cam, writeLock, connLock, id, closed,
                 buffered, frame, todo, crashed>>

(* ctx is done, the peer went away, or the read failed halfway a frame. *)
rxStop(c) == rxReturn(c)

(* Mutant of rxClosed: the loop goes on after a failed read. *)
rxClosedContinues(c) == closed[c] /\ buffered[c] = 0 /\ pc[c] = "read" /\ UNCHANGED vars

(* Reading the closed socket fails: "cannot read size from socket". *)
rxClosed(c) == closed[c] /\ buffered[c] = 0 /\ rxReturn(c)

(* rxBuf, first part: learn the source address under camLock, then pass    *)
(* the frame to tx, or straight to the gateway when it is addressed to it. *)
rxBufLearn(c) ==
  /\ pc[c] = "learn"
  /\ cam' = [cam EXCEPT ![frame[c].src] = id[c]]
  /\ pc' = [pc EXCEPT ![c] = IF frame[c].dst = GatewayMac THEN "deliver" ELSE "lockWrite"]
  /\ UNCHANGED <<nextConnID, conns, writeLock, connLock, id, closed, buffered,
                 frame, todo, crashed>>

(* rxBuf, last part: gateway.DeliverNetworkPacket, no lock held.  The      *)
(* stack consumes the packet, or answers it from this goroutine (at most   *)
(* one answer per packet here; what the forwarders send later comes from   *)
(* the stack's own goroutines, GatewaySend).                               *)
rxBufDeliver(c) ==
  /\ pc[c] = "deliver"
  /\ \/ /\ pc' = [pc EXCEPT ![c] = "read"]
        /\ frame' = [frame EXCEPT ![c] = None]
     \/ \E d \in Macs \cup {Broadcast} :
          /\ pc' = [pc EXCEPT ![c] = "lockWrite"]
          /\ frame' = [frame EXCEPT ![c] = [src |-> GatewayMac, dst |-> d, gw |-> TRUE]]
  /\ UNCHANGED <<nextConnID, conns, cam, writeLock, connLock, id, closed,
                 buffered, todo, crashed>>

-----------------------------------------------------------------------------
(* LinkEndpoint.writePacket from a goroutine of the stack. *)

GatewaySend(g) ==
  /\ pc[g] = "idle"
  /\ \E d \in Macs \cup {Broadcast} :
       frame' = [frame EXCEPT ![g] = [src |-> GatewayMac, dst |-> d, gw |-> TRUE]]
  /\ pc' = [pc EXCEPT ![g] = "lockWrite"]
  /\ UNCHANGED <<nextConnID, conns, cam, writeLock, connLock, id, closed,
                 buffered, todo, crashed>>

-----------------------------------------------------------------------------
(* txPkt and txBuf. *)

txLockWrite(t) ==
  /\ pc[t] = "lockWrite"
  /\ writeLock = None
  /\ writeLock' = t
  /\ pc' = [pc EXCEPT ![t] = "lockConn"]
  /\ UNCHANGED <<nextConnID, conns, cam, connLock, id, closed, buffered, frame,
                 todo, crashed>>

txLockConn(t) ==
  /\ pc[t] = "lockConn"
  /\ connLock = None
  /\ connLock' = t
  /\ pc' = [pc EXCEPT ![t] = "lookup"]
  /\ UNCHANGED <<nextConnID, conns, cam, writeLock, id, closed, buffered, frame,
                 todo, crashed>>

Connected == {i \in ConnIDs : conns[i] # None}

(* Mutant of txLookupBroadcast: the sender is not left out. *)
txLookupBroadcastAll(t) ==
  /\ frame[t].dst = Broadcast
  /\ todo' = [todo EXCEPT ![t] = Connected]
  /\ UNCHANGED crashed

(* A broadcast goes to every connection but the one its source address is  *)
(* learned on; NoConn is the code's srcID = -1, which excludes none.       *)
txLookupBroadcast(t) ==
  /\ frame[t].dst = Broadcast
  /\ todo' = [todo EXCEPT ![t] = Connected \ {cam[frame[t].src]}]
  /\ UNCHANGED crashed

(* Mutant of txLookupUnicast: without the test of ok, an address that was  *)
(* never learned yields the zero ID.                                       *)
txLookupUnicastZero(t) ==
  LET i == IF cam[frame[t].dst] = NoConn THEN 0 ELSE cam[frame[t].dst]
  IN  /\ frame[t].dst # Broadcast
      /\ \/ /\ i \in Connected
            /\ todo' = [todo EXCEPT ![t] = {i}]
            /\ UNCHANGED crashed
         \/ /\ i \notin Connected
            /\ t \notin HTTPClients
            /\ crashed' = TRUE
            /\ UNCHANGED todo

(* Mutant of txLookupUnicast: an address that was never learned is         *)
(* transmitted to.                                                         *)
txLookupUnicastUnlearned(t) ==
  /\ frame[t].dst # Broadcast
  /\ todo' = [todo EXCEPT ![t] = {cam[frame[t].dst]}]
  /\ UNCHANGED crashed

(* A unicast goes to the connection its destination is learned on.  When   *)
(* the table names an ID that is no longer in conns, conns[id] is the zero *)
(* protocolConn and calling its nil protocolImpl panics: the process ends, *)
(* except in a goroutine of net/http (txPanicRecovered).                   *)
txLookupUnicast(t) ==
  LET i == cam[frame[t].dst]
  IN  /\ frame[t].dst # Broadcast
      /\ \/ /\ i = NoConn \/ i \in Connected
            /\ todo' = [todo EXCEPT ![t] = {i} \ {NoConn}]
            /\ UNCHANGED crashed
         \/ /\ i # NoConn
            /\ i \notin Connected
            /\ t \notin HTTPClients
            /\ crashed' = TRUE
            /\ UNCHANGED todo

txLookup(t) ==
  /\ pc[t] = "lookup"
  /\ txLookupBroadcast(t) \/ txLookupUnicast(t)
  /\ pc' = [pc EXCEPT ![t] = "write"]
  /\ UNCHANGED <<nextConnID, conns, cam, writeLock, connLock, id, closed,
                 buffered, frame>>

(* The same panic below the handler of /connect: the deferred unlocks of   *)
(* txPkt run, then the deferred disconnect of the sender's own Accept, and *)
(* net/http recovers.  (Locks the stack may hold when it is the one that   *)
(* transmits from rxBuf are not modelled.)                                 *)
txPanicRecovered(c) ==
  /\ pc[c] = "lookup"
  /\ frame[c].dst # Broadcast
  /\ cam[frame[c].dst] \notin Connected \cup {NoConn}
  /\ connLock' = None
  /\ writeLock' = None
  /\ pc' = [pc EXCEPT ![c] = "closing"]
  /\ frame' = [frame EXCEPT ![c] = None]
  /\ UNCHANGED <<nextConnID, conns, cam, id, closed, buffered, todo, crashed>>

txBufWrite(t, i) ==
  /\ pc[t] = "write"
  /\ i \in todo[t]
  /\ todo' = [todo EXCEPT ![t] = @ \ {i}]
  /\ UNCHANGED <<nextConnID, conns, cam, writeLock, connLock, id, closed,
                 buffered, pc, frame, crashed>>

(* A failed write disconnects the peer and ends the whole transmission:    *)
(* the connections a broadcast had not reached yet do not get the frame.   *)
txBufFail(t, i) ==
  /\ pc[t] = "write"
  /\ i \in todo[t]
  /\ disconnect(i, conns[i])
  /\ todo' = [todo EXCEPT ![t] = {}]
  /\ UNCHANGED <<nextConnID, writeLock, connLock, id, buffered, pc, frame, crashed>>

(* Mutant of AfterTx: rxBuf returns after tx, broadcasts included. *)
AfterTxReturns(t) == IF t \in GatewayThreads THEN "idle" ELSE "read"

(* txPkt returns through its deferred unlocks, to rxBuf or to the stack.   *)
AfterTx(t) ==
  IF t \in GatewayThreads THEN "idle"
  ELSE IF frame[t].dst = Broadcast /\ ~frame[t].gw THEN "deliver"
  ELSE "read"


txReturn(t) ==
  /\ pc[t] = "write"
  /\ todo[t] = {}
  /\ connLock' = None
  /\ writeLock' = None
  /\ pc' = [pc EXCEPT ![t] = AfterTx(t)]
  /\ frame' = [frame EXCEPT ![t] = IF AfterTx(t) = "deliver" THEN @ ELSE None]
  /\ UNCHANGED <<nextConnID, conns, cam, id, closed, buffered, todo, crashed>>

-----------------------------------------------------------------------------
tx(t) ==
  \/ txLockWrite(t)
  \/ txLockConn(t)
  \/ txLookup(t)
  \/ \E i \in ConnIDs : txBufWrite(t, i) \/ txBufFail(t, i)
  \/ txReturn(t)

Accept(c) ==
  \/ connect(c)
  \/ rxRead(c)
  \/ rxDrain(c)
  \/ rxStop(c)
  \/ rxClosed(c)
  \/ rxBufLearn(c)
  \/ rxBufDeliver(c)
  \/ AcceptReturn(c)

Running ==
  \/ \E c \in Clients : Accept(c)
  \/ \E g \in GatewayThreads : GatewaySend(g)
  \/ \E t \in Threads : tx(t)
  \/ \E c \in HTTPClients : txPanicRecovered(c)

(* The process is gone after a nil dereference that nobody recovers from. *)
Halted == crashed /\ UNCHANGED vars

Next == (~crashed /\ Running) \/ Halted

Spec == Init /\ [][Next]_vars

(***************************************************************************)
(* Fairness.  Go's mutexes hand over to a waiter after 1ms at the latest   *)
(* (starvation mode), so a goroutine that waits for a lock that is         *)
(* released again and again gets it: strong fairness.  Everything else a   *)
(* goroutine does between two blocking calls is weakly fair.  Nothing      *)
(* obliges a guest to send, to leave, to connect or to read: the code sets *)
(* no write deadline, so a write to a guest that has stopped reading may   *)
(* last for ever.                                                          *)
(***************************************************************************)
Fairness ==
  /\ \A c \in Clients :
       /\ WF_vars(~crashed /\ (rxDrain(c) \/ rxClosed(c) \/ rxBufLearn(c) \/ rxBufDeliver(c)))
       /\ SF_vars(~crashed /\ AcceptReturn(c))
  /\ \A t \in Threads :
       /\ SF_vars(~crashed /\ (txLockWrite(t) \/ txLockConn(t)))
       /\ WF_vars(~crashed /\ (txLookup(t) \/ txReturn(t)))
  /\ \A c \in HTTPClients : WF_vars(~crashed /\ txPanicRecovered(c))

FairSpec == Spec /\ Fairness

-----------------------------------------------------------------------------
(* Properties. *)

TxPcs  == {"lockWrite", "lockConn", "lookup", "write"}
RxPcs  == {"new", "read", "learn", "deliver", "closing", "done"}

(* Type invariant of the switch's tables, locks and goroutines. *)
TypeOK ==
  /\ nextConnID \in 0 .. MaxConns
  /\ conns \in [ConnIDs -> Clients \cup {None}]
  /\ cam \in [Addrs -> ConnIDs \cup {NoConn}]
  /\ writeLock \in Threads \cup {None}
  /\ connLock \in Threads \cup {None}
  /\ id \in [Clients -> ConnIDs \cup {NoConn}]
  /\ closed \in [Clients -> BOOLEAN]
  /\ buffered \in [Clients -> 0 .. MaxBuffered]
  /\ pc \in [Threads -> TxPcs \cup RxPcs \cup {"idle"}]
  /\ \A g \in GatewayThreads : pc[g] \in TxPcs \cup {"idle"}
  /\ \A c \in Clients : pc[c] # "idle"
  /\ frame \in [Threads -> Frames \cup {None}]
  /\ \A t \in Threads : pc[t] \in TxPcs \cup {"learn", "deliver"} => frame[t] \in Frames
  /\ todo \in [Threads -> SUBSET ConnIDs]
  /\ crashed \in BOOLEAN

(***************************************************************************)
(* The connection table and the goroutines agree: a connection that is     *)
(* being served and was not dropped by a failed write is in conns under    *)
(* the ID its Accept holds, and every entry of conns is such a connection. *)
(* The second disconnect of a dropped connection, from the deferred        *)
(* function of Accept, therefore never hits somebody else's entry.         *)
(***************************************************************************)
ConnTableMatchesGoroutines ==
  /\ \A c \in Clients :
       (Served(c) /\ ~closed[c]) => (id[c] \in ConnIDs /\ conns[id[c]] = c)
  /\ \A i \in Connected :
       Served(conns[i]) /\ ~closed[conns[i]] /\ id[conns[i]] = i

(***************************************************************************)
(* An address stays learned on a connection no longer than the Accept of   *)
(* that connection runs, although rxBuf learns without connLock and can    *)
(* relearn an address on a connection txBuf has just dropped.              *)
(***************************************************************************)
CamPointsToServedConn ==
  \A m \in Addrs : cam[m] # NoConn => \E c \in Clients : Served(c) /\ id[c] = cam[m]

(***************************************************************************)
(* While txPkt iterates over the connections, none of them disappears: the *)
(* IDs it has still to write to are all in conns.                          *)
(***************************************************************************)
TxTargetsConnected ==
  \A t \in Threads : todo[t] \subseteq Connected

(***************************************************************************)
(* A broadcast is not written back to the connection it came from, unless  *)
(* its source address is in use behind another connection as well (which   *)
(* may have relearned it between rxBuf's update and txPkt's lookup).       *)
(***************************************************************************)
NoBroadcastEcho ==
  \A c \in Clients :
    (pc[c] = "write" /\ ~frame[c].gw /\ frame[c].dst = Broadcast /\ id[c] \in todo[c])
      => \E d \in Clients \ {c} : frame[c].src \in SrcMacs[d]

(***************************************************************************)
(* txPkt can meet a connection ID without a connection, and so panic, only *)
(* while a connection dropped by a failed write is still being received    *)
(* from: without write errors the process does not panic.                  *)
(***************************************************************************)
PanicNeedsDroppedConn ==
  crashed => \E c \in Clients : closed[c] /\ Served(c)

(***************************************************************************)
(* A connection that fails costs that connection and not the process:      *)
(* Accept logs "cannot receive packets from ..., disconnecting", and       *)
(* DeliverNetworkPacket and rxBuf log the error of tx.  It does not hold   *)
(* of the code: rxBuf can learn an address on a connection that txBuf has  *)
(* just deleted, and the next unicast to it dereferences nil.              *)
(***************************************************************************)
NeverPanics == ~crashed

(***************************************************************************)
(* A learned address is forgotten only in the step that takes its own      *)
(* connection out of the table (or finishes the Accept of a connection     *)
(* that had already been taken out).                                       *)
(***************************************************************************)
CamForgetsOnlyDeparted ==
  [][\A m \in Addrs :
       (cam[m] # NoConn /\ cam'[m] = NoConn) => conns'[cam[m]] = None]_vars

(* Every write ends, well or with an error: connLock admits one writer at  *)
(* a time, so it is enough that there is none again and again.             *)
WritesEnd == []<>(crashed \/ \A t \in Threads : pc[t] # "write")

(***************************************************************************)
(* Once a failed write has dropped a connection, its Accept returns, so    *)
(* that the addresses it may have relearned do not linger; unless a guest  *)
(* that has stopped reading blocks a write, which blocks its disconnect.   *)
(***************************************************************************)
DroppedConnFinishes ==
  WritesEnd => \A c \in Clients : closed[c] ~> (pc[c] = "done" \/ crashed)

(***************************************************************************)
(* A broadcast reaches the gateway whatever happens to its transmission to *)
(* the other guests, and whoever else is transmitting, unless one of these *)
(* transmissions is blocked for ever.                                      *)
(***************************************************************************)
GatewayGetsItsFrames ==
  WritesEnd =>
    \A c \in Clients :
      (pc[c] = "learn" /\ frame[c].dst = Broadcast) ~> (pc[c] = "deliver" \/ crashed)

(* A goroutine is in the middle of a frame, or of its disconnect. *)
Busy == TxPcs \cup {"learn", "deliver", "closing"}

=============================================================================
