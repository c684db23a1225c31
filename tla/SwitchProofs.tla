---------------------------- MODULE SwitchProofs ----------------------------
(***************************************************************************)
(* Proofs about Switch, for any number of connections, threads of the      *)
(* stack, addresses and connection IDs.                                    *)
(***************************************************************************)
EXTENDS Switch, TLAPS

(***************************************************************************)
(* The inductive invariant: the properties themselves, and what they need. *)
(***************************************************************************)

(* Connection IDs are handed out once, in order, to registered clients. *)
IdsOK ==
  /\ \A c \in Clients : (pc[c] = "new" <=> id[c] = NoConn)
  /\ \A c \in Clients : pc[c] = "new" => ~closed[c]
  /\ \A c \in Clients : id[c] < nextConnID
  /\ \A c, d \in Clients : (id[c] = id[d] /\ id[c] # NoConn) => c = d

(* The holders of the two locks are the threads inside txPkt. *)
LocksOK ==
  \A t \in Threads :
    /\ writeLock = t <=> pc[t] \in {"lockConn", "lookup", "write"}
    /\ connLock = t <=> pc[t] \in {"lookup", "write"}

(* Only a thread that is writing has connections to write to. *)
TodoOK == \A t \in Threads : pc[t] # "write" => todo[t] = {}

(* A frame that rxBuf has read carries an address of its client. *)
FramesOK ==
  \A c \in Clients :
    /\ pc[c] = "learn" => ~frame[c].gw
    /\ (pc[c] \in TxPcs \cup {"learn", "deliver"} /\ ~frame[c].gw)
         => frame[c].src \in SrcMacs[c]

(* Between rxBuf's learning and txPkt's look-up, the source address stays  *)
(* learned on the connection, unless the connection is dropped or another  *)
(* one uses the address too.                                               *)
EchoOK ==
  \A c \in Clients :
    (pc[c] \in {"lockWrite", "lockConn", "lookup"} /\ ~frame[c].gw)
      => \/ cam[frame[c].src] = id[c]
         \/ closed[c]
         \/ \E d \in Clients \ {c} : frame[c].src \in SrcMacs[d]

IInv ==
  /\ TypeOK
  /\ IdsOK
  /\ ConnTableMatchesGoroutines
  /\ CamPointsToServedConn
  /\ LocksOK
  /\ TodoOK
  /\ TxTargetsConnected
  /\ FramesOK
  /\ EchoOK
  /\ NoBroadcastEcho
  /\ PanicNeedsDroppedConn

-----------------------------------------------------------------------------
(* connect preserves the invariant. *)
LEMMA connectStep ==
  ASSUME IInv, ~crashed, NEW c \in Clients, connect(c)
  PROVE  IInv'
<1>1. TypeOK'
  BY SwitchAssumption DEF IInv, TypeOK, TxPcs, RxPcs, Frames, Addrs, connect, Threads,
     ConnIDs, NoConn
<1>2. IdsOK'
  BY SwitchAssumption DEF IInv, TypeOK, IdsOK, connect, Threads, ConnIDs, NoConn
<1>3. ConnTableMatchesGoroutines'
  BY SwitchAssumption DEF IInv, TypeOK, IdsOK, ConnTableMatchesGoroutines, Connected,
     Served, connect, Threads, ConnIDs, NoConn
<1>4. CamPointsToServedConn'
  BY DEF IInv, TypeOK, CamPointsToServedConn, Served, IdsOK, connect, Threads, NoConn
<1>5. LocksOK' /\ TodoOK' /\ TxTargetsConnected'
  BY SwitchAssumption DEF IInv, TypeOK, LocksOK, TodoOK, TxTargetsConnected, Connected,
     connect, Threads, ConnIDs, NoConn
<1>6. FramesOK' /\ EchoOK' /\ NoBroadcastEcho' /\ PanicNeedsDroppedConn'
  BY SwitchAssumption DEF IInv, TypeOK, FramesOK, TxPcs, Frames, IdsOK, EchoOK,
     NoBroadcastEcho, PanicNeedsDroppedConn, connect, Threads, ConnIDs, NoConn
<1> QED
  BY <1>1, <1>2, <1>3, <1>4, <1>5, <1>6 DEF IInv

(* AcceptReturn preserves the invariant. *)
LEMMA AcceptReturnStep ==
  ASSUME IInv, ~crashed, NEW c \in Clients, AcceptReturn(c)
  PROVE  IInv'
<1>1. TypeOK'
  BY SwitchAssumption DEF IInv, TypeOK, TxPcs, RxPcs, Frames, Addrs, AcceptReturn,
     disconnect, Threads, ConnIDs, NoConn
<1>2. IdsOK' /\ ConnTableMatchesGoroutines' /\ CamPointsToServedConn'
  BY SwitchAssumption DEF IInv, TypeOK, IdsOK, ConnTableMatchesGoroutines, Connected,
     Served, CamPointsToServedConn, AcceptReturn, disconnect, Threads, ConnIDs, NoConn
<1>3. LocksOK' /\ TodoOK' /\ TxTargetsConnected'
  BY SwitchAssumption DEF IInv, TypeOK, LocksOK, TodoOK, TxTargetsConnected, Connected,
     AcceptReturn, disconnect, Threads, ConnIDs, NoConn
<1>4. FramesOK' /\ EchoOK' /\ NoBroadcastEcho' /\ PanicNeedsDroppedConn'
  BY SwitchAssumption DEF IInv, TypeOK, FramesOK, TxPcs, Frames, IdsOK, EchoOK,
     NoBroadcastEcho, PanicNeedsDroppedConn, AcceptReturn, disconnect, Threads, ConnIDs,
     NoConn
<1> QED
  BY <1>1, <1>2, <1>3, <1>4 DEF IInv

(* rxRead preserves the invariant. *)
LEMMA rxReadStep ==
  ASSUME IInv, ~crashed, NEW c \in Clients, rxRead(c)
  PROVE  IInv'
<1>1. TypeOK'
  <2>1. PICK s \in SrcMacs[c], d \in Addrs \cup {Broadcast} : Receive(c, s, d)
    BY DEF rxRead
  <2>2. [src |-> s, dst |-> d, gw |-> FALSE] \in Frames
    BY SwitchAssumption DEF Frames
  <2>3. buffered' \in [Clients -> 0 .. MaxBuffered]
    BY SwitchAssumption DEF IInv, TypeOK, rxRead
  <2> QED
    BY <2>1, <2>2, <2>3, SwitchAssumption DEF IInv, TypeOK, TxPcs, RxPcs, Receive,
       Threads
<1>2. IdsOK' /\ ConnTableMatchesGoroutines' /\ CamPointsToServedConn'
  BY SwitchAssumption DEF IInv, TypeOK, IdsOK, ConnTableMatchesGoroutines, Connected,
     Served, CamPointsToServedConn, rxRead, Receive, Threads, ConnIDs, NoConn
<1>3. LocksOK' /\ TodoOK' /\ TxTargetsConnected'
  BY SwitchAssumption DEF IInv, TypeOK, LocksOK, TodoOK, TxTargetsConnected, Connected,
     rxRead, Receive, Threads, ConnIDs, NoConn
<1>4. FramesOK' /\ EchoOK' /\ NoBroadcastEcho' /\ PanicNeedsDroppedConn'
  BY SwitchAssumption DEF IInv, TypeOK, FramesOK, TxPcs, Frames, IdsOK, EchoOK,
     NoBroadcastEcho, PanicNeedsDroppedConn, rxRead, Receive, Threads, ConnIDs, NoConn
<1> QED
  BY <1>1, <1>2, <1>3, <1>4 DEF IInv

(* rxDrain preserves the invariant. *)
LEMMA rxDrainStep ==
  ASSUME IInv, ~crashed, NEW c \in Clients, rxDrain(c)
  PROVE  IInv'
<1>1. TypeOK'
  <2>1. PICK s \in SrcMacs[c], d \in Addrs \cup {Broadcast} : Receive(c, s, d)
    BY DEF rxDrain
  <2>2. [src |-> s, dst |-> d, gw |-> FALSE] \in Frames
    BY SwitchAssumption DEF Frames
  <2>3. buffered' \in [Clients -> 0 .. MaxBuffered]
    BY SwitchAssumption DEF IInv, TypeOK, rxDrain
  <2> QED
    BY <2>1, <2>2, <2>3, SwitchAssumption DEF IInv, TypeOK, TxPcs, RxPcs, Receive,
       Threads
<1>2. IdsOK' /\ ConnTableMatchesGoroutines' /\ CamPointsToServedConn'
  BY SwitchAssumption DEF IInv, TypeOK, IdsOK, ConnTableMatchesGoroutines, Connected,
     Served, CamPointsToServedConn, rxDrain, Receive, Threads, ConnIDs, NoConn
<1>3. LocksOK' /\ TodoOK' /\ TxTargetsConnected'
  BY SwitchAssumption DEF IInv, TypeOK, LocksOK, TodoOK, TxTargetsConnected, Connected,
     rxDrain, Receive, Threads, ConnIDs, NoConn
<1>4. FramesOK' /\ EchoOK' /\ NoBroadcastEcho' /\ PanicNeedsDroppedConn'
  BY SwitchAssumption DEF IInv, TypeOK, FramesOK, TxPcs, Frames, IdsOK, EchoOK,
     NoBroadcastEcho, PanicNeedsDroppedConn, rxDrain, Receive, Threads, ConnIDs, NoConn
<1> QED
  BY <1>1, <1>2, <1>3, <1>4 DEF IInv

(* rxReturn preserves the invariant. *)
LEMMA rxReturnStep ==
  ASSUME IInv, ~crashed, NEW c \in Clients, rxReturn(c)
  PROVE  IInv'
<1>1. TypeOK'
  BY SwitchAssumption DEF IInv, TypeOK, TxPcs, RxPcs, Frames, Addrs, rxReturn, Threads,
     ConnIDs, NoConn
<1>2. IdsOK' /\ ConnTableMatchesGoroutines' /\ CamPointsToServedConn'
  BY SwitchAssumption DEF IInv, TypeOK, IdsOK, ConnTableMatchesGoroutines, Connected,
     Served, CamPointsToServedConn, rxReturn, Threads, ConnIDs, NoConn
<1>3. LocksOK' /\ TodoOK' /\ TxTargetsConnected'
  BY SwitchAssumption DEF IInv, TypeOK, LocksOK, TodoOK, TxTargetsConnected, Connected,
     rxReturn, Threads, ConnIDs, NoConn
<1>4. FramesOK' /\ EchoOK' /\ NoBroadcastEcho' /\ PanicNeedsDroppedConn'
  BY SwitchAssumption DEF IInv, TypeOK, FramesOK, TxPcs, Frames, IdsOK, EchoOK,
     NoBroadcastEcho, PanicNeedsDroppedConn, rxReturn, Threads, ConnIDs, NoConn
<1> QED
  BY <1>1, <1>2, <1>3, <1>4 DEF IInv

(* rxBufLearn preserves the invariant. *)
LEMMA rxBufLearnStep ==
  ASSUME IInv, ~crashed, NEW c \in Clients, rxBufLearn(c)
  PROVE  IInv'
<1>1. TypeOK'
  BY SwitchAssumption DEF IInv, TypeOK, TxPcs, RxPcs, Frames, Addrs, rxBufLearn,
     Threads, ConnIDs, NoConn
<1>2. IdsOK' /\ ConnTableMatchesGoroutines' /\ CamPointsToServedConn'
  BY SwitchAssumption DEF IInv, TypeOK, IdsOK, ConnTableMatchesGoroutines, Connected,
     Served, CamPointsToServedConn, rxBufLearn, Threads, ConnIDs, NoConn
<1>3. LocksOK' /\ TodoOK' /\ TxTargetsConnected'
  BY SwitchAssumption DEF IInv, TypeOK, LocksOK, TodoOK, TxTargetsConnected, Connected,
     rxBufLearn, Threads, ConnIDs, NoConn
<1>4. FramesOK' /\ EchoOK' /\ NoBroadcastEcho' /\ PanicNeedsDroppedConn'
  BY SwitchAssumption DEF IInv, TypeOK, FramesOK, TxPcs, Frames, IdsOK, EchoOK,
     NoBroadcastEcho, PanicNeedsDroppedConn, rxBufLearn, Threads, ConnIDs, NoConn
<1> QED
  BY <1>1, <1>2, <1>3, <1>4 DEF IInv

(* rxBufDeliver preserves the invariant. *)
LEMMA rxBufDeliverStep ==
  ASSUME IInv, ~crashed, NEW c \in Clients, rxBufDeliver(c)
  PROVE  IInv'
<1>0. PICK p, f :
        /\ pc' = [pc EXCEPT ![c] = p]
        /\ frame' = [frame EXCEPT ![c] = f]
        /\ \/ p = "read" /\ f = None
           \/ p = "lockWrite" /\ f \in Frames /\ f.gw
  <2>1. CASE /\ pc' = [pc EXCEPT ![c] = "read"]
             /\ frame' = [frame EXCEPT ![c] = None]
    BY <2>1
  <2>2. CASE \E d \in Macs \cup {Broadcast} :
               /\ pc' = [pc EXCEPT ![c] = "lockWrite"]
               /\ frame' = [frame EXCEPT ![c] = [src |-> GatewayMac, dst |-> d, gw |-> TRUE]]
    <3>1. PICK d \in Macs \cup {Broadcast} :
               /\ pc' = [pc EXCEPT ![c] = "lockWrite"]
               /\ frame' = [frame EXCEPT ![c] = [src |-> GatewayMac, dst |-> d, gw |-> TRUE]]
      BY <2>2
    <3>2. [src |-> GatewayMac, dst |-> d, gw |-> TRUE] \in Frames
      BY DEF Frames, Addrs
    <3> WITNESS "lockWrite", [src |-> GatewayMac, dst |-> d, gw |-> TRUE]
    <3> QED
      BY <3>1, <3>2
  <2> QED
    BY <2>1, <2>2 DEF rxBufDeliver
<1>1. TypeOK'
  BY <1>0, SwitchAssumption DEF IInv, TypeOK, TxPcs, RxPcs, Frames, Addrs, rxBufDeliver,
     Threads, ConnIDs, NoConn
<1>2. ConnTableMatchesGoroutines'
  BY <1>0, SwitchAssumption DEF IInv, TypeOK, IdsOK, ConnTableMatchesGoroutines,
     Connected, Served, rxBufDeliver, Threads, ConnIDs, NoConn
<1>3. CamPointsToServedConn'
  BY <1>0, SwitchAssumption DEF IInv, TypeOK, IdsOK, CamPointsToServedConn, Served,
     rxBufDeliver, Threads, ConnIDs, NoConn
<1>4. IdsOK'
  BY SwitchAssumption DEF IInv, TypeOK, IdsOK, rxBufDeliver, Threads, ConnIDs, NoConn
<1>5. LocksOK' /\ TodoOK' /\ TxTargetsConnected'
  BY SwitchAssumption DEF IInv, TypeOK, LocksOK, TodoOK, TxTargetsConnected, Connected,
     rxBufDeliver, Threads, ConnIDs, NoConn
<1>6. EchoOK'
  BY <1>0, SwitchAssumption DEF IInv, TypeOK, IdsOK, FramesOK, EchoOK, Frames, TxPcs,
     rxBufDeliver, Threads, ConnIDs, NoConn
<1>7. NoBroadcastEcho'
  BY <1>0, SwitchAssumption DEF IInv, TypeOK, NoBroadcastEcho, rxBufDeliver, Threads,
     ConnIDs, NoConn
<1>8. FramesOK' /\ PanicNeedsDroppedConn'
  BY SwitchAssumption DEF IInv, TypeOK, FramesOK, TxPcs, Frames, PanicNeedsDroppedConn,
     rxBufDeliver, Threads, ConnIDs, NoConn
<1> QED
  BY <1>1, <1>2, <1>3, <1>4, <1>5, <1>6, <1>7, <1>8 DEF IInv

(* GatewaySend preserves the invariant. *)
LEMMA GatewaySendStep ==
  ASSUME IInv, ~crashed, NEW g \in GatewayThreads, GatewaySend(g)
  PROVE  IInv'
<1>1. TypeOK'
  BY SwitchAssumption DEF IInv, TypeOK, TxPcs, RxPcs, Frames, Addrs, GatewaySend,
     Threads, ConnIDs, NoConn
<1>2. IdsOK' /\ ConnTableMatchesGoroutines' /\ CamPointsToServedConn'
  BY SwitchAssumption DEF IInv, TypeOK, IdsOK, ConnTableMatchesGoroutines, Connected,
     Served, CamPointsToServedConn, GatewaySend, Threads, ConnIDs, NoConn
<1>3. LocksOK' /\ TodoOK' /\ TxTargetsConnected'
  BY SwitchAssumption DEF IInv, TypeOK, LocksOK, TodoOK, TxTargetsConnected, Connected,
     GatewaySend, Threads, ConnIDs, NoConn
<1>4. FramesOK' /\ EchoOK' /\ NoBroadcastEcho' /\ PanicNeedsDroppedConn'
  BY SwitchAssumption DEF IInv, TypeOK, FramesOK, TxPcs, Frames, IdsOK, EchoOK,
     NoBroadcastEcho, PanicNeedsDroppedConn, GatewaySend, Threads, ConnIDs, NoConn
<1> QED
  BY <1>1, <1>2, <1>3, <1>4 DEF IInv

(* txLockWrite preserves the invariant. *)
LEMMA txLockWriteStep ==
  ASSUME IInv, ~crashed, NEW t \in Threads, txLockWrite(t)
  PROVE  IInv'
<1>1. TypeOK'
  BY SwitchAssumption DEF IInv, TypeOK, TxPcs, RxPcs, Frames, Addrs, txLockWrite,
     Threads, ConnIDs, NoConn
<1>2. IdsOK' /\ ConnTableMatchesGoroutines' /\ CamPointsToServedConn'
  BY SwitchAssumption DEF IInv, TypeOK, IdsOK, ConnTableMatchesGoroutines, Connected,
     Served, CamPointsToServedConn, txLockWrite, Threads, ConnIDs, NoConn
<1>3. LocksOK' /\ TodoOK' /\ TxTargetsConnected'
  BY SwitchAssumption DEF IInv, TypeOK, LocksOK, TodoOK, TxTargetsConnected, Connected,
     txLockWrite, Threads, ConnIDs, NoConn
<1>4. FramesOK' /\ EchoOK' /\ NoBroadcastEcho' /\ PanicNeedsDroppedConn'
  BY SwitchAssumption DEF IInv, TypeOK, FramesOK, TxPcs, Frames, IdsOK, EchoOK,
     NoBroadcastEcho, PanicNeedsDroppedConn, txLockWrite, Threads, ConnIDs, NoConn
<1> QED
  BY <1>1, <1>2, <1>3, <1>4 DEF IInv

(* txLockConn preserves the invariant. *)
LEMMA txLockConnStep ==
  ASSUME IInv, ~crashed, NEW t \in Threads, txLockConn(t)
  PROVE  IInv'
<1>1. TypeOK'
  BY SwitchAssumption DEF IInv, TypeOK, TxPcs, RxPcs, Frames, Addrs, txLockConn,
     Threads, ConnIDs, NoConn
<1>2. IdsOK' /\ ConnTableMatchesGoroutines' /\ CamPointsToServedConn'
  BY SwitchAssumption DEF IInv, TypeOK, IdsOK, ConnTableMatchesGoroutines, Connected,
     Served, CamPointsToServedConn, txLockConn, Threads, ConnIDs, NoConn
<1>3. LocksOK' /\ TodoOK' /\ TxTargetsConnected'
  BY SwitchAssumption DEF IInv, TypeOK, LocksOK, TodoOK, TxTargetsConnected, Connected,
     txLockConn, Threads, ConnIDs, NoConn
<1>4. FramesOK' /\ EchoOK' /\ NoBroadcastEcho' /\ PanicNeedsDroppedConn'
  BY SwitchAssumption DEF IInv, TypeOK, FramesOK, TxPcs, Frames, IdsOK, EchoOK,
     NoBroadcastEcho, PanicNeedsDroppedConn, txLockConn, Threads, ConnIDs, NoConn
<1> QED
  BY <1>1, <1>2, <1>3, <1>4 DEF IInv

(* txLookup preserves the invariant. *)
LEMMA txLookupStep ==
  ASSUME IInv, ~crashed, NEW t \in Threads, txLookup(t)
  PROVE  IInv'
<1>0. /\ frame[t] \in Frames
      /\ \A i \in Connected : i \in ConnIDs /\ i # NoConn
  BY DEF IInv, TypeOK, txLookup, TxPcs, Connected, ConnIDs, NoConn
<1>a. PICK S \in SUBSET Connected :
        /\ todo' = [todo EXCEPT ![t] = S]
        /\ frame[t].dst = Broadcast => cam[frame[t].src] \notin S
  <2>1. CASE txLookupBroadcast(t)
    <3> WITNESS Connected \ {cam[frame[t].src]} \in SUBSET Connected
    <3> QED
      BY <2>1 DEF txLookupBroadcast
  <2>2. CASE txLookupUnicast(t) /\ UNCHANGED crashed
    BY <2>2 DEF txLookupUnicast, IInv, TodoOK, TypeOK, txLookup
  <2>3. CASE txLookupUnicast(t) /\ UNCHANGED todo
    <3>1. todo' = [todo EXCEPT ![t] = {}]
      BY <2>3 DEF IInv, TypeOK, TodoOK, txLookup
    <3> QED
      BY <2>3, <3>1 DEF txLookupUnicast
  <2> QED
    BY <2>1, <2>2, <2>3 DEF txLookup, txLookupUnicast
<1>b. crashed' => \E c \in Clients : closed[c] /\ Served(c)
  <2>1. SUFFICES ASSUME crashed'
                 PROVE  \E c \in Clients : closed[c] /\ Served(c)
    OBVIOUS
  <2>2. /\ frame[t].dst \in Addrs
        /\ cam[frame[t].dst] # NoConn
        /\ cam[frame[t].dst] \notin Connected
    BY <1>0, <2>1 DEF txLookup, txLookupBroadcast, txLookupUnicast, Frames
  <2>3. PICK c \in Clients : Served(c) /\ id[c] = cam[frame[t].dst]
    BY <2>2 DEF IInv, CamPointsToServedConn
  <2>4. closed[c]
    BY <2>2, <2>3, SwitchAssumption DEF IInv, ConnTableMatchesGoroutines, Connected
  <2> QED
    BY <2>3, <2>4
<1>1. TypeOK'
  BY <1>0, <1>a, SwitchAssumption DEF IInv, TypeOK, TxPcs, RxPcs, txLookup,
     txLookupBroadcast, txLookupUnicast, Threads, ConnIDs, NoConn
<1>2. IdsOK' /\ ConnTableMatchesGoroutines' /\ CamPointsToServedConn'
  BY SwitchAssumption DEF IInv, TypeOK, IdsOK, ConnTableMatchesGoroutines, Connected,
     Served, CamPointsToServedConn, txLookup, txLookupBroadcast, txLookupUnicast,
     Threads, ConnIDs, NoConn
<1>3. TxTargetsConnected'
  BY <1>a DEF IInv, TypeOK, TxTargetsConnected, Connected, txLookup
<1>4. LocksOK' /\ TodoOK'
  BY SwitchAssumption DEF IInv, TypeOK, LocksOK, TodoOK, txLookup, txLookupBroadcast,
     txLookupUnicast, Threads, ConnIDs, NoConn
<1>5. NoBroadcastEcho'
  <2> SUFFICES ASSUME NEW c \in Clients,
                      pc'[c] = "write", ~frame'[c].gw, frame'[c].dst = Broadcast, id'[c] \in todo'[c]
               PROVE  \E d \in Clients \ {c} : frame[c].src \in SrcMacs[d]
    BY DEF NoBroadcastEcho, txLookup
  <2>1. CASE c # t
    BY <2>1, <1>a DEF IInv, TypeOK, NoBroadcastEcho, Threads, txLookup
  <2>2. CASE c = t
    <3>1. id[c] \in Connected /\ cam[frame[c].src] # id[c]
      BY <2>2, <1>a DEF IInv, TypeOK, Threads, txLookup
    <3>2. ~closed[c]
      BY <3>1, <1>0 DEF IInv, IdsOK, TypeOK, ConnTableMatchesGoroutines, Connected
    <3> QED
      BY <2>2, <3>1, <3>2 DEF IInv, EchoOK, txLookup
  <2> QED
    BY <2>1, <2>2
<1>6. PanicNeedsDroppedConn'
  BY <1>b DEF IInv, TypeOK, PanicNeedsDroppedConn, Served, txLookup, Threads
<1>7. FramesOK' /\ EchoOK'
  BY SwitchAssumption DEF IInv, TypeOK, FramesOK, TxPcs, Frames, IdsOK, EchoOK,
     txLookup, txLookupBroadcast, txLookupUnicast, Threads, ConnIDs, NoConn
<1> QED
  BY <1>1, <1>2, <1>3, <1>4, <1>5, <1>6, <1>7 DEF IInv

(* txPanicRecovered preserves the invariant. *)
LEMMA txPanicRecoveredStep ==
  ASSUME IInv, ~crashed, NEW t \in HTTPClients, txPanicRecovered(t)
  PROVE  IInv'
<1>1. TypeOK'
  BY SwitchAssumption DEF IInv, TypeOK, TxPcs, RxPcs, Frames, Addrs, txPanicRecovered,
     Threads, ConnIDs, NoConn
<1>2. IdsOK' /\ ConnTableMatchesGoroutines' /\ CamPointsToServedConn'
  BY SwitchAssumption DEF IInv, TypeOK, IdsOK, ConnTableMatchesGoroutines, Connected,
     Served, CamPointsToServedConn, txPanicRecovered, Threads, ConnIDs, NoConn
<1>3. LocksOK' /\ TodoOK' /\ TxTargetsConnected'
  BY SwitchAssumption DEF IInv, TypeOK, LocksOK, TodoOK, TxTargetsConnected, Connected,
     txPanicRecovered, Threads, ConnIDs, NoConn
<1>4. FramesOK' /\ EchoOK' /\ NoBroadcastEcho' /\ PanicNeedsDroppedConn'
  BY SwitchAssumption DEF IInv, TypeOK, FramesOK, TxPcs, Frames, IdsOK, EchoOK,
     NoBroadcastEcho, PanicNeedsDroppedConn, txPanicRecovered, Threads, ConnIDs, NoConn
<1> QED
  BY <1>1, <1>2, <1>3, <1>4 DEF IInv

(* txBufWrite preserves the invariant. *)
LEMMA txBufWriteStep ==
  ASSUME IInv, ~crashed, NEW t \in Threads, NEW i \in ConnIDs, txBufWrite(t, i)
  PROVE  IInv'
<1>1. TypeOK'
  BY SwitchAssumption DEF IInv, TypeOK, TxPcs, RxPcs, Frames, Addrs, txBufWrite,
     Threads, ConnIDs, NoConn
<1>2. IdsOK' /\ ConnTableMatchesGoroutines' /\ CamPointsToServedConn'
  BY SwitchAssumption DEF IInv, TypeOK, IdsOK, ConnTableMatchesGoroutines, Connected,
     Served, CamPointsToServedConn, txBufWrite, Threads, ConnIDs, NoConn
<1>3. LocksOK' /\ TodoOK' /\ TxTargetsConnected'
  BY SwitchAssumption DEF IInv, TypeOK, LocksOK, TodoOK, TxTargetsConnected, Connected,
     txBufWrite, Threads, ConnIDs, NoConn
<1>4. FramesOK' /\ EchoOK' /\ NoBroadcastEcho' /\ PanicNeedsDroppedConn'
  BY SwitchAssumption DEF IInv, TypeOK, FramesOK, TxPcs, Frames, IdsOK, EchoOK,
     NoBroadcastEcho, PanicNeedsDroppedConn, txBufWrite, Threads, ConnIDs, NoConn
<1> QED
  BY <1>1, <1>2, <1>3, <1>4 DEF IInv

(* txBufFail preserves the invariant. *)
LEMMA txBufFailStep ==
  ASSUME IInv, ~crashed, NEW t \in Threads, NEW i \in ConnIDs, txBufFail(t, i)
  PROVE  IInv'
<1>0. /\ conns[i] \in Clients
      /\ id[conns[i]] = i
      /\ pc[conns[i]] \notin {"new", "done"}
  BY DEF IInv, TypeOK, TxTargetsConnected, ConnTableMatchesGoroutines, Connected,
     Served, txBufFail
<1>1. TypeOK'
  BY SwitchAssumption DEF IInv, TypeOK, TxPcs, RxPcs, Frames, Addrs, txBufFail,
     disconnect, Threads, ConnIDs, NoConn
<1>2. IdsOK'
  BY <1>0 DEF IInv, TypeOK, IdsOK, txBufFail, disconnect
<1>3. ConnTableMatchesGoroutines' /\ CamPointsToServedConn'
  BY SwitchAssumption DEF IInv, TypeOK, IdsOK, ConnTableMatchesGoroutines, Connected,
     Served, CamPointsToServedConn, txBufFail, disconnect, Threads, ConnIDs, NoConn
<1>4. LocksOK' /\ TodoOK' /\ TxTargetsConnected'
  BY SwitchAssumption DEF IInv, TypeOK, LocksOK, TodoOK, TxTargetsConnected, Connected,
     txBufFail, disconnect, Threads, ConnIDs, NoConn
<1>5. EchoOK'
  <2> SUFFICES ASSUME NEW c \in Clients, ~frame[c].gw,
                      pc[c] \in {"lockWrite", "lockConn", "lookup"}
               PROVE  \/ cam'[frame[c].src] = id[c]
                      \/ closed'[c]
                      \/ \E d \in Clients \ {c} : frame[c].src \in SrcMacs[d]
    BY DEF EchoOK, txBufFail
  <2>1. frame[c].src \in Addrs
    BY DEF IInv, TypeOK, TxPcs, Threads, Frames
  <2>2. CASE cam[frame[c].src] = id[c] /\ id[c] = i
    <3>1. conns[i] = c
      BY <1>0, <2>2 DEF IInv, IdsOK, ConnIDs, NoConn
    <3> QED
      BY <3>1 DEF IInv, TypeOK, txBufFail, disconnect
  <2>3. CASE cam[frame[c].src] = id[c] /\ id[c] # i
    BY <2>1, <2>3 DEF txBufFail, disconnect
  <2>4. CASE closed[c]
    BY <2>4 DEF IInv, TypeOK, txBufFail, disconnect
  <2> QED
    BY <2>2, <2>3, <2>4 DEF IInv, EchoOK
<1>6. FramesOK' /\ NoBroadcastEcho' /\ PanicNeedsDroppedConn'
  BY SwitchAssumption DEF IInv, TypeOK, FramesOK, TxPcs, Frames, NoBroadcastEcho,
     PanicNeedsDroppedConn, txBufFail, disconnect, Threads, ConnIDs, NoConn
<1> QED
  BY <1>1, <1>2, <1>3, <1>4, <1>5, <1>6 DEF IInv

(* txReturn preserves the invariant. *)
LEMMA txReturnStep ==
  ASSUME IInv, ~crashed, NEW t \in Threads, txReturn(t)
  PROVE  IInv'
<1>1. TypeOK'
  BY SwitchAssumption DEF IInv, TypeOK, TxPcs, RxPcs, Frames, Addrs, txReturn, AfterTx,
     Threads, ConnIDs, NoConn
<1>2. IdsOK' /\ ConnTableMatchesGoroutines' /\ CamPointsToServedConn'
  BY SwitchAssumption DEF IInv, TypeOK, IdsOK, ConnTableMatchesGoroutines, Connected,
     Served, CamPointsToServedConn, txReturn, AfterTx, Threads, ConnIDs, NoConn
<1>3. LocksOK' /\ TodoOK' /\ TxTargetsConnected'
  BY SwitchAssumption DEF IInv, TypeOK, LocksOK, TodoOK, TxTargetsConnected, Connected,
     txReturn, AfterTx, Threads, ConnIDs, NoConn
<1>4. FramesOK' /\ EchoOK' /\ NoBroadcastEcho' /\ PanicNeedsDroppedConn'
  BY SwitchAssumption DEF IInv, TypeOK, FramesOK, TxPcs, Frames, IdsOK, EchoOK,
     NoBroadcastEcho, PanicNeedsDroppedConn, txReturn, AfterTx, Threads, ConnIDs, NoConn
<1> QED
  BY <1>1, <1>2, <1>3, <1>4 DEF IInv

-----------------------------------------------------------------------------
(* The initial state satisfies the invariant. *)
LEMMA InitIInv == Init => IInv
<1> SUFFICES ASSUME Init PROVE IInv
  OBVIOUS
<1>1. TypeOK
  <2>1. /\ nextConnID \in 0 .. MaxConns
        /\ buffered \in [Clients -> 0 .. MaxBuffered]
    BY SwitchAssumption DEF Init
  <2>2. /\ conns \in [ConnIDs -> Clients \cup {None}]
        /\ cam \in [Addrs -> ConnIDs \cup {NoConn}]
        /\ id \in [Clients -> ConnIDs \cup {NoConn}]
        /\ closed \in [Clients -> BOOLEAN]
        /\ frame \in [Threads -> Frames \cup {None}]
        /\ todo \in [Threads -> SUBSET ConnIDs]
        /\ writeLock \in Threads \cup {None}
        /\ connLock \in Threads \cup {None}
        /\ crashed \in BOOLEAN
    BY DEF Init
  <2>3. /\ pc \in [Threads -> TxPcs \cup RxPcs \cup {"idle"}]
        /\ \A g \in GatewayThreads : pc[g] = "idle"
        /\ \A c \in Clients : pc[c] = "new"
    BY SwitchAssumption DEF Init, TxPcs, RxPcs, Threads
  <2> QED
    BY <2>1, <2>2, <2>3 DEF TypeOK, TxPcs, Threads
<1>2. IdsOK /\ ConnTableMatchesGoroutines /\ CamPointsToServedConn
  BY SwitchAssumption DEF Init, IdsOK, ConnTableMatchesGoroutines,
     CamPointsToServedConn,
     Connected, Served, Threads, ConnIDs, NoConn
<1>3. LocksOK /\ TodoOK /\ TxTargetsConnected
  BY SwitchAssumption DEF Init, LocksOK, TodoOK, TxTargetsConnected, Threads
<1>4. FramesOK /\ EchoOK /\ NoBroadcastEcho /\ PanicNeedsDroppedConn
  BY SwitchAssumption DEF Init, FramesOK, EchoOK, NoBroadcastEcho,
     PanicNeedsDroppedConn,
     TxPcs, Threads
<1> QED
  BY <1>1, <1>2, <1>3, <1>4 DEF IInv

(* Every step of the switch preserves the invariant. *)
LEMMA NextIInv == IInv /\ [Next]_vars => IInv'
<1> SUFFICES ASSUME IInv, [Next]_vars PROVE IInv'
  OBVIOUS
<1>1. CASE UNCHANGED vars
  BY <1>1 DEF vars, IInv, TypeOK, IdsOK, ConnTableMatchesGoroutines,
     CamPointsToServedConn,
     LocksOK, TodoOK, TxTargetsConnected, FramesOK, EchoOK, NoBroadcastEcho,
     PanicNeedsDroppedConn, Connected, Served
<1>2. ASSUME ~crashed, NEW c \in Clients, Accept(c) PROVE IInv'
  BY <1>2, connectStep, rxReadStep, rxDrainStep, rxReturnStep, rxBufLearnStep,
     rxBufDeliverStep, AcceptReturnStep DEF Accept, rxStop, rxClosed
<1>3. ASSUME ~crashed, NEW t \in Threads, tx(t) PROVE IInv'
  BY <1>3, txLockWriteStep, txLockConnStep, txLookupStep, txBufWriteStep, txBufFailStep,
     txReturnStep DEF tx
<1> QED
  BY <1>1, <1>2, <1>3, GatewaySendStep, txPanicRecoveredStep DEF Next, Running, Halted

(***************************************************************************)
(* The inductive invariant holds in every state of every instance.         *)
(***************************************************************************)
LEMMA InvariantHolds == Spec => []IInv
<1>1. Init => IInv
  BY InitIInv
<1>2. IInv /\ [Next]_vars => IInv'
  BY NextIInv
<1> QED
  BY <1>1, <1>2, PTL DEF Spec

(* Type correctness of the switch's tables, locks and goroutines. *)
THEOREM TypeCorrect == Spec => []TypeOK
<1>1. IInv => TypeOK
  BY DEF IInv
<1> QED
  BY <1>1, InvariantHolds, PTL

(***************************************************************************)
(* The connection table always agrees with the running Accepts, so that    *)
(* the second disconnect of a dropped connection is harmless.              *)
(***************************************************************************)
THEOREM ConnTableCorrect == Spec => []ConnTableMatchesGoroutines
<1>1. IInv => ConnTableMatchesGoroutines
  BY DEF IInv
<1> QED
  BY <1>1, InvariantHolds, PTL

(***************************************************************************)
(* An address is learned only on connections whose Accept has not returned. *)
(***************************************************************************)
THEOREM CamCorrect == Spec => []CamPointsToServedConn
<1>1. IInv => CamPointsToServedConn
  BY DEF IInv
<1> QED
  BY <1>1, InvariantHolds, PTL

(***************************************************************************)
(* txPkt never writes to a connection that is not in the table.            *)
(***************************************************************************)
THEOREM TxTargetsCorrect == Spec => []TxTargetsConnected
<1>1. IInv => TxTargetsConnected
  BY DEF IInv
<1> QED
  BY <1>1, InvariantHolds, PTL

(***************************************************************************)
(* A broadcast does not come back to its sender, unless its source address *)
(* is in use behind a second connection.                                   *)
(***************************************************************************)
THEOREM NoEcho == Spec => []NoBroadcastEcho
<1>1. IInv => NoBroadcastEcho
  BY DEF IInv
<1> QED
  BY <1>1, InvariantHolds, PTL

(***************************************************************************)
(* The panic of txPkt needs a connection that a failed write has dropped   *)
(* and that is still being received from.                                  *)
(***************************************************************************)
THEOREM PanicOnlyByDroppedConn == Spec => []PanicNeedsDroppedConn
<1>1. IInv => PanicNeedsDroppedConn
  BY DEF IInv
<1> QED
  BY <1>1, InvariantHolds, PTL

(***************************************************************************)
(* A learned address is forgotten only with its own connection.            *)
(***************************************************************************)
THEOREM ForgetsOnlyDeparted == Spec => CamForgetsOnlyDeparted
<1> DEFINE Forgets == \A m \in Addrs :
             (cam[m] # NoConn /\ cam'[m] = NoConn) => conns'[cam[m]] = None
<1>1. ASSUME IInv, NEW i \in ConnIDs, NEW c, disconnect(i, c)
      PROVE  Forgets
  BY <1>1 DEF IInv, TypeOK, disconnect
<1>2. ASSUME IInv, UNCHANGED cam
      PROVE  Forgets
  BY <1>2
<1>3. ASSUME IInv, NEW c \in Clients, Accept(c)
      PROVE  Forgets
  <2>1. CASE AcceptReturn(c)
    <3>1. id[c] \in ConnIDs
      BY <1>3, <2>1 DEF IInv, TypeOK, IdsOK, AcceptReturn
    <3> QED
      BY <1>1, <1>3, <2>1, <3>1 DEF AcceptReturn
  <2>2. CASE rxBufLearn(c)
    <3>1. id[c] # NoConn
      BY <1>3, <2>2 DEF IInv, IdsOK, rxBufLearn
    <3> QED
      BY <1>3, <2>2, <3>1 DEF IInv, TypeOK, rxBufLearn
  <2>3. CASE ~AcceptReturn(c) /\ ~rxBufLearn(c)
    <3>1. UNCHANGED cam
      BY <1>3, <2>3 DEF Accept, connect, rxRead, rxDrain, Receive, rxStop, rxClosed,
         rxReturn, rxBufDeliver
    <3> QED
      BY <1>2, <1>3, <3>1
  <2> QED
    BY <2>1, <2>2, <2>3
<1>4. ASSUME IInv, NEW t \in Threads, tx(t)
      PROVE  Forgets
  <2>1. ASSUME NEW i \in ConnIDs, txBufFail(t, i)
        PROVE  Forgets
    BY <1>1, <1>4, <2>1 DEF txBufFail
  <2>2. CASE UNCHANGED cam
    BY <1>2, <1>4, <2>2
  <2> QED
    BY <1>4, <2>1, <2>2 DEF tx, txLockWrite, txLockConn, txLookup, txBufWrite, txReturn
<1>5. IInv /\ [Next]_vars => [Forgets]_vars
  <2> SUFFICES ASSUME IInv, Next PROVE Forgets
    OBVIOUS
  <2> HIDE DEF Forgets
  <2>1. ASSUME NEW g \in GatewayThreads, GatewaySend(g) PROVE Forgets
    BY <1>2, <2>1 DEF GatewaySend
  <2>2. ASSUME NEW c \in HTTPClients, txPanicRecovered(c) PROVE Forgets
    BY <1>2, <2>2 DEF txPanicRecovered
  <2>3. CASE Halted
    BY <1>2, <2>3 DEF Halted, vars
  <2> QED
    BY <1>3, <1>4, <2>1, <2>2, <2>3 DEF Next, Running
<1> QED
  BY <1>5, InvariantHolds, PTL DEF Spec, CamForgetsOnlyDeparted
=============================================================================
