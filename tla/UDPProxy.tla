------------------------------ MODULE UDPProxy ------------------------------
(***************************************************************************)
(* The UDP proxy, pkg/services/forwarder/udp_proxy.go: a listener, one     *)
(* backend connection per client address, and a goroutine per backend      *)
(* connection that copies replies back.                                    *)
(*                                                                         *)
(* It is used in two ways.  PortsForwarder.Expose puts it behind a socket  *)
(* of the host and closes it on Unexpose.  The forwarder of udp.go creates *)
(* one for the first datagram of a flow out of the virtual network, on an  *)
(* endpoint of the stack whose reads time out (autoStoppingListener), and  *)
(* never calls Close.                                                      *)
(*                                                                         *)
(* connTrackLock is held for map operations and for a dial that does not   *)
(* block: each section is one atomic step.  Time is abstract: a read       *)
(* deadline may pass whenever its read has nothing to return.              *)
(***************************************************************************)
EXTENDS Integers

CONSTANTS
  Peers,      \* client addresses, the keys of connTrackTable
  Conns,      \* backend connections (bound: one element per successful dial)
  Uses,       \* of "expose" (the proxy of Expose) and "flow" (the proxy of udp.go)
  FlowPeer,   \* the client of a flow: the endpoint of the stack is connected to it
  None        \* no connection, no client

ASSUME UDPProxyAssumption ==
  /\ None \notin Peers
  /\ None \notin Conns
  /\ Uses \subseteq {"expose", "flow"}
  /\ FlowPeer \in Peers

VARIABLES
  listener,   \* "none" before the first datagram of a flow, "open", "closed"
  pending,    \* clients with a datagram in the listener's receive queue
  table,      \* connTrackTable: client -> backend connection, None when absent
  conn,       \* conn[k]: "unused", "open" or "closed"
  owner,      \* owner[k]: the client that replyLoop k answers
  reply,      \* where the goroutine replyLoop of k is
  run,        \* where Run is; "stopped" and "failed" are its two ends
  from,       \* the client whose datagram Run is forwarding
  runConn,    \* the connection Run looked up for it, used after the unlock
  close       \* where Close is, "never" for a flow: nobody calls it

vars == <<listener, pending, table, conn, owner, reply, run, from, runConn, close>>

Flow  == close = "never"
Ended == run \in {"stopped", "failed"}

Init ==
  /\ \/ "expose" \in Uses /\ listener = "open" /\ run = "read" /\ close = "none"
     \/ "flow" \in Uses /\ listener = "none" /\ run = "none" /\ close = "never"
  /\ pending = {}
  /\ table = [p \in Peers |-> None]
  /\ conn = [k \in Conns |-> "unused"]
  /\ owner = [k \in Conns |-> None]
  /\ reply = [k \in Conns |-> "none"]
  /\ from = None
  /\ runConn = None

-----------------------------------------------------------------------------
(* Datagrams from the clients. *)

Arrive(p) ==
  /\ listener = "open"
  /\ Flow => p = FlowPeer
  /\ pending' = pending \cup {p}
  /\ UNCHANGED <<listener, table, conn, owner, reply, run, from, runConn, close>>

(* udp.go: the stack has no endpoint for the flow, so the datagram goes to *)
(* the forwarder, which creates the endpoint and starts Run.  Link-local   *)
(* and broadcast destinations never get here; translation by the NAT table *)
(* only changes what the dialer dials.                                     *)
UDP ==
  /\ listener = "none"
  /\ listener' = "open"
  /\ pending' = {FlowPeer}
  /\ run' = "read"
  /\ UNCHANGED <<table, conn, owner, reply, from, runConn, close>>

-----------------------------------------------------------------------------
(* Run. *)

RunRead(p) ==
  /\ run = "read"
  /\ listener = "open"
  /\ p \in pending
  /\ pending' = pending \ {p}
  /\ from' = p
  /\ run' = "lookup"
  /\ UNCHANGED <<listener, table, conn, owner, reply, runConn, close>>

(* ReadFrom fails as it is meant to: the listener is closed, or its        *)
(* deadline has passed.                                                    *)
RunStop ==
  /\ run = "read"
  /\ listener = "closed" \/ (Flow /\ pending = {})
  /\ run' = "stopped"
  /\ UNCHANGED <<listener, pending, table, conn, owner, reply, from, runConn, close>>

(* ReadFrom fails on an open listener for another reason: "Stopping udp    *)
(* proxy".  Nobody closes the listener or takes the proxy off the list.    *)
RunReadFails ==
  /\ run = "read"
  /\ listener = "open"
  /\ run' = "failed"
  /\ UNCHANGED <<listener, pending, table, conn, owner, reply, from, runConn, close>>

RunHit ==
  /\ run = "lookup"
  /\ table[from] # None
  /\ runConn' = table[from]
  /\ run' = "write"
  /\ UNCHANGED <<listener, pending, table, conn, owner, reply, from, close>>

(* Mutant of RunDial: a connection is dialled for every datagram. *)
RunDialAlways(k) ==
  /\ run = "lookup"
  /\ conn[k] = "unused"
  /\ conn' = [conn EXCEPT ![k] = "open"]
  /\ owner' = [owner EXCEPT ![k] = from]
  /\ reply' = [reply EXCEPT ![k] = "read"]
  /\ table' = [table EXCEPT ![from] = k]
  /\ runConn' = k
  /\ run' = "write"
  /\ UNCHANGED <<listener, pending, from, close>>

(* A miss: dial, enter the connection and start its replyLoop. *)
RunDial(k) ==
  /\ run = "lookup"
  /\ table[from] = None
  /\ conn[k] = "unused"
  /\ conn' = [conn EXCEPT ![k] = "open"]
  /\ owner' = [owner EXCEPT ![k] = from]
  /\ reply' = [reply EXCEPT ![k] = "read"]
  /\ table' = [table EXCEPT ![from] = k]
  /\ runConn' = k
  /\ run' = "write"
  /\ UNCHANGED <<listener, pending, from, close>>

(* Mutant of RunDialFails: the loop goes on to the write. *)
RunDialFailsWrites ==
  /\ run = "lookup"
  /\ table[from] = None
  /\ run' = "write"
  /\ UNCHANGED <<listener, pending, table, conn, owner, reply, from, runConn, close>>

(* Mutant of RunDialFails: the loop ends. *)
RunDialFailsBreaks ==
  /\ run = "lookup"
  /\ table[from] = None
  /\ from' = None
  /\ run' = "stopped"
  /\ UNCHANGED <<listener, pending, table, conn, owner, reply, runConn, close>>

(* The dial fails and the datagram is dropped. *)
RunDialFails ==
  /\ run = "lookup"
  /\ table[from] = None
  /\ from' = None
  /\ run' = "read"
  /\ UNCHANGED <<listener, pending, table, conn, owner, reply, runConn, close>>

(* The datagram is written to the connection that was looked up, which     *)
(* replyLoop or Close may have closed since: then it is logged and lost.   *)
RunWrite ==
  /\ run = "write"
  /\ run' = "read"
  /\ from' = None
  /\ runConn' = None
  /\ UNCHANGED <<listener, pending, table, conn, owner, reply, close>>

-----------------------------------------------------------------------------
(* replyLoop.  ECONNREFUSED is ignored and the read repeated under the     *)
(* same deadline: no step.                                                 *)

replyRead(k) ==
  /\ reply[k] = "read"
  /\ conn[k] = "open"
  /\ reply' = [reply EXCEPT ![k] = "write"]
  /\ UNCHANGED <<listener, pending, table, conn, owner, run, from, runConn, close>>

(* Mutant of replyReadFails: every error is ignored, as ECONNREFUSED is. *)
replyReadFailsAgain(k) == reply[k] = "read" /\ UNCHANGED vars

(* The deadline passes, or the connection was closed under the read. *)
replyReadFails(k) ==
  /\ reply[k] = "read"
  /\ reply' = [reply EXCEPT ![k] = "delete"]
  /\ UNCHANGED <<listener, pending, table, conn, owner, run, from, runConn, close>>

(* WriteTo the client: fails once the listener is closed, and may fail on  *)
(* an open one.                                                            *)
replyWrite(k) ==
  /\ reply[k] = "write"
  /\ \/ /\ listener = "open"
        /\ reply' = [reply EXCEPT ![k] = "read"]
     \/ reply' = [reply EXCEPT ![k] = "delete"]
  /\ UNCHANGED <<listener, pending, table, conn, owner, run, from, runConn, close>>

(* Mutant of replyDelete: the entry stays. *)
replyDeleteForgotten(k) ==
  /\ reply[k] = "delete"
  /\ reply' = [reply EXCEPT ![k] = "close"]
  /\ UNCHANGED <<listener, pending, table, conn, owner, run, from, runConn, close>>

(* The deferred function, under connTrackLock: the client's entry goes,    *)
(* whichever connection it names.                                          *)
replyDelete(k) ==
  /\ reply[k] = "delete"
  /\ table' = [table EXCEPT ![owner[k]] = None]
  /\ reply' = [reply EXCEPT ![k] = "close"]
  /\ UNCHANGED <<listener, pending, conn, owner, run, from, runConn, close>>

(* Mutant of replyClose: the connection is not closed. *)
replyCloseForgotten(k) ==
  /\ reply[k] = "close"
  /\ reply' = [reply EXCEPT ![k] = "done"]
  /\ UNCHANGED <<listener, pending, table, conn, owner, run, from, runConn, close>>

replyClose(k) ==
  /\ reply[k] = "close"
  /\ conn' = [conn EXCEPT ![k] = "closed"]
  /\ reply' = [reply EXCEPT ![k] = "done"]
  /\ UNCHANGED <<listener, pending, table, owner, run, from, runConn, close>>

-----------------------------------------------------------------------------
(* Close. *)

(* Mutant of CloseListener: only the connections are closed. *)
CloseListenerSkipped ==
  /\ close = "none"
  /\ close' = "conns"
  /\ UNCHANGED <<listener, pending, table, conn, owner, reply, run, from, runConn>>

(* What waits in the receive queue goes with the listener. *)
CloseListener ==
  /\ close = "none"
  /\ listener' = "closed"
  /\ pending' = {}
  /\ close' = "conns"
  /\ UNCHANGED <<table, conn, owner, reply, run, from, runConn>>

(* Every connection of the table is closed; the entries stay. *)
CloseConns ==
  /\ close = "conns"
  /\ conn' = [k \in Conns |-> IF \E p \in Peers : table[p] = k THEN "closed" ELSE conn[k]]
  /\ close' = "done"
  /\ UNCHANGED <<listener, pending, table, owner, reply, run, from, runConn>>

-----------------------------------------------------------------------------
Run ==
  \/ \E p \in Peers : RunRead(p)
  \/ RunStop
  \/ RunReadFails
  \/ RunHit
  \/ \E k \in Conns : RunDial(k)
  \/ RunDialFails
  \/ RunWrite

replyLoop(k) ==
  \/ replyRead(k)
  \/ replyReadFails(k)
  \/ replyWrite(k)
  \/ replyDelete(k)
  \/ replyClose(k)

Close == CloseListener \/ CloseConns

Next ==
  \/ \E p \in Peers : Arrive(p)
  \/ UDP
  \/ Run
  \/ \E k \in Conns : replyLoop(k)
  \/ Close

Spec == Init /\ [][Next]_vars

(***************************************************************************)
(* Fairness.  Goroutines run: Run takes what is in the queue and finishes  *)
(* what it has read, each client in turn; a Close that has begun ends.  A  *)
(* replyLoop returns when its connection is closed under its read, or when *)
(* the deadline passes, which it does unless the backend answers or Run,   *)
(* still running, pushes it back.  Nobody has to send or to call Close,    *)
(* and no read has to fail.                                                *)
(***************************************************************************)
Fairness ==
  /\ \A p \in Peers : SF_vars(RunRead(p))
  /\ WF_vars(RunStop \/ RunHit \/ RunDialFails \/ RunWrite \/ \E k \in Conns : RunDial(k))
  /\ \A k \in Conns :
       /\ WF_vars((conn[k] = "closed" \/ Ended) /\ replyReadFails(k))
       /\ WF_vars(replyWrite(k) \/ replyDelete(k) \/ replyClose(k))
  /\ WF_vars(CloseConns)

FairSpec == Spec /\ Fairness

-----------------------------------------------------------------------------
(* Properties. *)

Looping == {"read", "write", "delete"}

(* Type invariant of the proxy. *)
TypeOK ==
  /\ listener \in {"none", "open", "closed"}
  /\ pending \subseteq Peers
  /\ table \in [Peers -> Conns \cup {None}]
  /\ conn \in [Conns -> {"unused", "open", "closed"}]
  /\ owner \in [Conns -> Peers \cup {None}]
  /\ reply \in [Conns -> {"none", "close", "done"} \cup Looping]
  /\ run \in {"none", "read", "lookup", "write", "stopped", "failed"}
  /\ from \in Peers \cup {None}
  /\ from # None <=> run \in {"lookup", "write"}
  /\ runConn \in Conns \cup {None}
  /\ runConn # None <=> run = "write"
  /\ close \in {"never", "none", "conns", "done"}

(***************************************************************************)
(* The table and the goroutines agree: an entry names a connection whose   *)
(* replyLoop runs for that very client, and a replyLoop that has not yet   *)
(* deleted its entry finds its own connection there.  So the unconditional *)
(* delete of replyLoop never removes the connection of a newer flow, and a *)
(* client never has two replyLoops competing for its entry.                *)
(***************************************************************************)
TableMatchesReplyLoops ==
  /\ \A p \in Peers : table[p] # None => (owner[table[p]] = p /\ reply[table[p]] \in Looping)
  /\ \A k \in Conns : reply[k] \in Looping => table[owner[k]] = k

(***************************************************************************)
(* No backend connection outlives its goroutine, or exists without one:    *)
(* an open connection always has somebody who will close it.               *)
(***************************************************************************)
NoOrphanConn ==
  \A k \in Conns : conn[k] = "open" => reply[k] \in Looping \cup {"close"}

(***************************************************************************)
(* Run uses a connection after it has released connTrackLock.  When it has *)
(* been closed by then, the client's entry no longer names it (unless the  *)
(* proxy itself is being closed): the datagram is lost, but the client's   *)
(* next one gets a new connection instead of the dead one.                 *)
(***************************************************************************)
LostDatagramIsLast ==
  (run = "write" /\ conn[runConn] # "open") => (table[from] # runConn \/ close = "done")

(***************************************************************************)
(* Close releases everything: once it has returned, Run stops (unless a    *)
(* failed read had ended it before), and every connection is closed, the   *)
(* one included that Run may have dialled after Close went over the table. *)
(***************************************************************************)
CloseReleasesAll ==
  close = "done" ~> (Ended /\ \A k \in Conns : conn[k] # "open"
                                    /\ reply[k] \in {"none", "done"})

(***************************************************************************)
(* When a flow has stopped, its backend connection is closed in the end,   *)
(* unless the backend is still answering: nothing is kept for a flow that  *)
(* is silent in both directions.                                           *)
(***************************************************************************)
SilentFlowReleased ==
  \A k \in Conns :
    (Ended /\ conn[k] = "open") ~> (conn[k] = "closed" \/ reply[k] = "write")

(***************************************************************************)
(* A datagram that the listener of Expose has queued is read, or goes with *)
(* the listener, whatever becomes of the datagrams before it (no backend,  *)
(* a connection closed under the write).  The one thing that ends it is a  *)
(* read that fails: Run is not started again while the proxy stays listed. *)
(***************************************************************************)
ExposedDatagramRead ==
  \A p \in Peers : (~Flow /\ p \in pending) ~> (p \notin pending \/ run = "failed")

(***************************************************************************)
(* A datagram that the listener of a flow has queued is read: "UDPProxy    *)
(* ... handles UDP datagrams".  It does not hold of the code: once Run has *)
(* stopped for want of traffic, with no read having failed otherwise, the  *)
(* endpoint stays registered with the stack and swallows the rest.         *)
(***************************************************************************)
FlowDatagramRead ==
  (Flow /\ FlowPeer \in pending) ~> (FlowPeer \notin pending \/ run = "failed")
=============================================================================
