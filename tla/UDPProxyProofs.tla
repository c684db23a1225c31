--------------------------- MODULE UDPProxyProofs ---------------------------
(***************************************************************************)
(* Proofs about UDPProxy, for any number of clients and connections, and   *)
(* for both uses of the proxy.                                             *)
(***************************************************************************)
EXTENDS UDPProxy, TLAPS

(***************************************************************************)
(* The inductive invariant: the two properties, and the life of a          *)
(* connection.  A connection is dialled together with its replyLoop and    *)
(* for a client; until Close has run, only its replyLoop closes it, as the *)
(* last thing it does.                                                     *)
(***************************************************************************)
ConnLife ==
  \A k \in Conns :
    /\ conn[k] = "unused" <=> reply[k] = "none"
    /\ reply[k] # "none" => owner[k] \in Peers
    /\ conn[k] = "closed" => (reply[k] = "done" \/ close = "done")

(* Run starts with the listener. *)
RunNeedsListener == listener = "none" => run = "none"

IInv == TypeOK /\ RunNeedsListener /\ TableMatchesReplyLoops /\ NoOrphanConn /\ ConnLife

(* The initial state satisfies the invariant. *)
LEMMA InitIInv == Init => IInv
BY UDPProxyAssumption DEF Init, IInv, TypeOK, RunNeedsListener, TableMatchesReplyLoops,
   NoOrphanConn, ConnLife, Looping

(* Run preserves the invariant. *)
LEMMA RunStep ==
  ASSUME IInv, Run
  PROVE  IInv'
<1> USE UDPProxyAssumption DEF IInv, TypeOK, RunNeedsListener, TableMatchesReplyLoops,
        NoOrphanConn, ConnLife, Looping
<1>1. ASSUME NEW p \in Peers, RunRead(p) PROVE IInv'
  BY <1>1 DEF RunRead
<1>2. CASE RunStop
  BY <1>2 DEF RunStop
<1>3. CASE RunReadFails \/ RunHit
  BY <1>3 DEF RunReadFails, RunHit
<1>4. ASSUME NEW k \in Conns, RunDial(k) PROVE IInv'
  <2>1. TypeOK'
    BY <1>4 DEF RunDial
  <2>2. TableMatchesReplyLoops'
    BY <1>4 DEF RunDial
  <2>3. NoOrphanConn' /\ ConnLife' /\ RunNeedsListener'
    BY <1>4 DEF RunDial
  <2> QED
    BY <2>1, <2>2, <2>3
<1>5. CASE RunDialFails
  BY <1>5 DEF RunDialFails
<1>6. CASE RunWrite
  BY <1>6 DEF RunWrite
<1> QED
  BY <1>1, <1>2, <1>3, <1>4, <1>5, <1>6 DEF Run

(* A replyLoop preserves the invariant. *)
LEMMA replyLoopStep ==
  ASSUME IInv, NEW k \in Conns, replyLoop(k)
  PROVE  IInv'
<1> USE UDPProxyAssumption DEF IInv, TypeOK, RunNeedsListener, TableMatchesReplyLoops,
        NoOrphanConn, ConnLife, Looping
<1>1. CASE replyRead(k)
  BY <1>1 DEF replyRead
<1>2. CASE replyReadFails(k)
  BY <1>2 DEF replyReadFails
<1>3. CASE replyWrite(k)
  BY <1>3 DEF replyWrite
<1>4. CASE replyDelete(k)
  <2>1. owner[k] \in Peers /\ table[owner[k]] = k
    BY <1>4 DEF replyDelete
  <2>2. TypeOK'
    BY <1>4, <2>1 DEF replyDelete
  <2>3. TableMatchesReplyLoops'
    BY <1>4, <2>1 DEF replyDelete
  <2>4. NoOrphanConn' /\ ConnLife' /\ RunNeedsListener'
    BY <1>4, <2>1 DEF replyDelete
  <2> QED
    BY <2>2, <2>3, <2>4
<1>5. CASE replyClose(k)
  BY <1>5 DEF replyClose
<1> QED
  BY <1>1, <1>2, <1>3, <1>4, <1>5 DEF replyLoop

(* Close preserves the invariant. *)
LEMMA CloseStep ==
  ASSUME IInv, Close
  PROVE  IInv'
<1> USE UDPProxyAssumption DEF IInv, TypeOK, RunNeedsListener, TableMatchesReplyLoops,
        NoOrphanConn, ConnLife, Looping
<1>1. CASE CloseListener
  BY <1>1 DEF CloseListener
<1>2. CASE CloseConns
  BY <1>2 DEF CloseConns
<1> QED
  BY <1>1, <1>2 DEF Close

(* Every step preserves the invariant. *)
LEMMA NextIInv == IInv /\ [Next]_vars => IInv'
<1> SUFFICES ASSUME IInv, [Next]_vars PROVE IInv'
  OBVIOUS
<1>1. ASSUME UDP \/ \E p \in Peers : Arrive(p) PROVE IInv'
  BY <1>1, UDPProxyAssumption DEF Arrive, UDP, IInv, TypeOK, RunNeedsListener, TableMatchesReplyLoops,
     NoOrphanConn, ConnLife, Looping
<1>2. CASE UNCHANGED vars
  BY <1>2 DEF vars, IInv, TypeOK, RunNeedsListener, TableMatchesReplyLoops,
     NoOrphanConn, ConnLife, Looping
<1> QED
  BY <1>1, <1>2, RunStep, replyLoopStep, CloseStep DEF Next

(* The inductive invariant holds in every state of every instance. *)
LEMMA InvariantHolds == Spec => []IInv
<1>1. Init => IInv
  BY InitIInv
<1>2. IInv /\ [Next]_vars => IInv'
  BY NextIInv
<1> QED
  BY <1>1, <1>2, PTL DEF Spec

(* Type correctness of the proxy. *)
THEOREM TypeCorrect == Spec => []TypeOK
<1>1. IInv => TypeOK
  BY DEF IInv
<1> QED
  BY <1>1, InvariantHolds, PTL

(***************************************************************************)
(* The table agrees with the replyLoops: the unconditional delete at the   *)
(* end of a replyLoop only ever removes that replyLoop's own connection.   *)
(***************************************************************************)
THEOREM TableCorrect == Spec => []TableMatchesReplyLoops
<1>1. IInv => TableMatchesReplyLoops
  BY DEF IInv
<1> QED
  BY <1>1, InvariantHolds, PTL

(***************************************************************************)
(* An open backend connection always has a replyLoop that will close it.   *)
(***************************************************************************)
THEOREM NoOrphans == Spec => []NoOrphanConn
<1>1. IInv => NoOrphanConn
  BY DEF IInv
<1> QED
  BY <1>1, InvariantHolds, PTL

(***************************************************************************)
(* A connection that is closed between Run's look-up and its write is no   *)
(* longer the one its client's next datagram finds, unless Close has run.  *)
(***************************************************************************)
THEOREM LostDatagram == Spec => []LostDatagramIsLast
<1>1. IInv => LostDatagramIsLast
  <2> SUFFICES ASSUME IInv, run = "write", conn[runConn] # "open", table[from] = runConn
               PROVE  close = "done"
    BY DEF LostDatagramIsLast
  <2>1. from \in Peers /\ runConn \in Conns /\ runConn # None
    BY DEF IInv, TypeOK
  <2>2. reply[runConn] \in Looping
    BY <2>1 DEF IInv, TableMatchesReplyLoops
  <2> QED
    BY <2>1, <2>2 DEF IInv, TypeOK, ConnLife, Looping
<1> QED
  BY <1>1, InvariantHolds, PTL
=============================================================================
