------------------------ MODULE PortsForwarderProofs ------------------------
(***************************************************************************)
(* Proofs about PortsForwarder, for any addresses, any configuration and   *)
(* any number of proxies and connections.                                  *)
(***************************************************************************)
EXTENDS PortsForwarder, TLAPS

(***************************************************************************)
(* Every unix socket is exposed under one spelling of its path: what the   *)
(* part of TableMatchesListeners about socket files assumes.               *)
(***************************************************************************)
OneSpellingPerSocket ==
  \A j, k \in Keys :
    (j[1] = "unix" /\ k[1] = "unix" /\ OSAddr[j] = OSAddr[k]) => j = k

(***************************************************************************)
(* A listener that has been opened knows its key; one that has not been    *)
(* opened has left no trace.                                               *)
(***************************************************************************)
ListenerLife ==
  \A l \in Listeners :
    /\ state[l] # "unused" => bound[l] \in Keys
    /\ state[l] = "unused" =>
         /\ unexposing # l
         /\ \A a \in Accepted : dial[l][a] = "none"

(* Every entry leads to a listener that listens for it. *)
EntriesListen ==
  \A k \in Keys : proxies[k] # None =>
    state[proxies[k]] = "listening" /\ bound[proxies[k]] = k

(* The socket file of an entry leads to its listener, or an Expose that    *)
(* failed has taken it away.                                               *)
FilesLead ==
  \A k \in Keys :
    (proxies[k] # None /\ k[1] = "unix") =>
      \/ file[OSAddr[k]] = proxies[k]
      \/ file[OSAddr[k]] = None /\ proxies[k] \in unlinked

(* Every listener on a port with a number can be unexposed. *)
PortsRegistered ==
  \A l \in Listeners :
    (state[l] = "listening" /\ bound[l][1] # "unix" /\ ~Ephemeral(bound[l]))
      => CanBeUnexposed(l)

(***************************************************************************)
(* While Unexpose closes a listener, the entry is gone and no other can    *)
(* take its place, since proxiesLock is held.                              *)
(***************************************************************************)
UnexposingHasNoEntry ==
  unexposing # None => state[unexposing] = "listening" /\ proxies[bound[unexposing]] = None

(***************************************************************************)
(* connLock is held exactly by the connection that is creating or using    *)
(* sshForward, and nobody else changes a forward that does not exist yet.  *)
(***************************************************************************)
DialLocked ==
  \A l \in Listeners, a \in Accepted :
    /\ dial[l][a] \in {"creating", "tunnelling"} <=> connLock[l] = a
    /\ dial[l][a] = "creating" => tunnel[l] = "nil"

(* Cleanup leaves no SSH connection; what is there has been opened since. *)
CleanedUp ==
  \A l \in Listeners :
    ((state[l] = "closed" \/ unexposing = l) /\ live[l] > 0) => late[l]

TableInv == ListenerLife /\ EntriesListen /\ PortsRegistered /\ UnexposingHasNoEntry
SshInv   == DialLocked /\ OneTunnelPerProxy /\ CleanedUp
IInv     == TypeOK /\ TableInv /\ SshInv

-----------------------------------------------------------------------------
(* The initial states satisfy the invariant. *)
LEMMA InitIInv == Init => IInv /\ FilesLead
<1> SUFFICES ASSUME Init PROVE IInv /\ FilesLead
  OBVIOUS
<1> USE PortsAssumption DEF Init
<1>1. TypeOK
  <2>1. forwards \subseteq Keys
    BY DEF Keys
  <2> QED
    BY <2>1 DEF TypeOK
<1>2. TableInv /\ FilesLead
  BY DEF TableInv, ListenerLife, EntriesListen, PortsRegistered, UnexposingHasNoEntry, FilesLead, Keys
<1>3. SshInv
  BY DEF SshInv, DialLocked, OneTunnelPerProxy, CleanedUp
<1> QED
  BY <1>1, <1>2, <1>3 DEF IInv

(***************************************************************************)
(* Expose preserves the invariant.  A port that is listened on cannot be   *)
(* listened on again, so the entry that is written was empty, but for unix *)
(* sockets and port 0.                                                     *)
(***************************************************************************)
LEMMA ExposeStep ==
  ASSUME IInv, NEW p \in Protocols, NEW local \in Locals, NEW t \in BOOLEAN, NEW l \in Listeners,
         Expose(p, local, t, l), forwards' \subseteq forwards, failed' \in BOOLEAN
  PROVE  IInv'
<1> DEFINE k == <<p, local>>
<1> USE PortsAssumption
<1>1. k \in Keys /\ k[1] = p /\ k \in Locals \cup Keys
  BY DEF Keys
<1>2. /\ state' = [state EXCEPT ![l] = "listening"]
      /\ bound' = [bound EXCEPT ![l] = k]
      /\ proxies' = [proxies EXCEPT ![k] = l]
      /\ ssh' = [ssh EXCEPT ![l] = t]
      /\ file' = IF p = "unix" THEN [file EXCEPT ![OSAddr[k]] = l] ELSE file
      /\ UNCHANGED <<unexposing, unlinked, sshVars>>
      /\ state[l] = "unused" /\ unexposing = None
      /\ Available(p, local)
  BY DEF Expose, key
<1>3. OSAddr[k] \in Paths
  BY <1>1 DEF Paths
<1> HIDE DEF k
<1>4. TypeOK'
  BY <1>1, <1>2, <1>3 DEF IInv, TypeOK, sshVars
<1>5. ListenerLife'
  BY <1>1, <1>2 DEF IInv, TypeOK, TableInv, ListenerLife, sshVars, Keys
<1>6. EntriesListen'
  <2> SUFFICES ASSUME NEW j \in Keys, proxies'[j] # None
               PROVE  state'[proxies'[j]] = "listening" /\ bound'[proxies'[j]] = j
    BY DEF EntriesListen
  <2>1. CASE j = k
    BY <1>1, <1>2, <2>1 DEF IInv, TypeOK
  <2>2. CASE j # k
    <3>1. proxies'[j] = proxies[j] /\ proxies[j] \in Listeners
      BY <1>1, <1>2, <2>2 DEF IInv, TypeOK
    <3>2. state[proxies[j]] = "listening" /\ bound[proxies[j]] = j
      BY <3>1 DEF IInv, TableInv, EntriesListen
    <3> QED
      BY <1>2, <3>1, <3>2 DEF IInv, TypeOK
  <2> QED
    BY <2>1, <2>2
<1>7. PortsRegistered'
  <2> SUFFICES ASSUME NEW m \in Listeners, state'[m] = "listening", bound'[m][1] # "unix",
                      ~Ephemeral(bound'[m])
               PROVE  proxies'[bound'[m]] = m
    BY DEF PortsRegistered, CanBeUnexposed, Ephemeral
  <2>1. CASE m = l
    BY <1>1, <1>2, <2>1 DEF IInv, TypeOK
  <2>2. CASE m # l
    <3>1. state[m] = "listening" /\ bound'[m] = bound[m]
      BY <1>2, <2>2 DEF IInv, TypeOK
    <3>2. proxies[bound[m]] = m
      BY <1>2, <3>1 DEF IInv, TableInv, PortsRegistered, CanBeUnexposed
    <3>3. bound[m] # k
      BY <1>1, <1>2, <3>1 DEF Available, k
    <3> QED
      BY <1>1, <1>2, <3>1, <3>2, <3>3 DEF IInv, TypeOK
  <2> QED
    BY <2>1, <2>2
<1>8. UnexposingHasNoEntry' /\ SshInv'
  BY <1>2 DEF IInv, TypeOK, UnexposingHasNoEntry, SshInv, DialLocked, OneTunnelPerProxy,
     CleanedUp, sshVars
<1> QED
  BY <1>4, <1>5, <1>6, <1>7, <1>8 DEF IInv, TableInv

(* An Expose that fails preserves the invariant: only a file is gone. *)
LEMMA ExposeFailsStep ==
  ASSUME IInv, NEW p \in Protocols, NEW local \in Locals, ExposeFails(p, local), UNCHANGED newVars
  PROVE  IInv'
<1> DEFINE path == OSAddr[<<p, local>>]
<1> USE PortsAssumption
<1>1. /\ file' = [file EXCEPT ![path] = None]
      /\ unlinked' = unlinked \cup {file[path]}
      /\ file[path] # None
      /\ UNCHANGED <<proxies, unexposing, state, bound, ssh, sshVars, newVars>>
  BY DEF ExposeFails
<1>2. path \in Paths
  BY DEF Paths, Keys
<1> HIDE DEF path
<1>3. file[path] \in Listeners
  BY <1>1, <1>2 DEF IInv, TypeOK
<1>4. TypeOK'
  BY <1>1, <1>3 DEF IInv, TypeOK, sshVars, newVars
<1>5. TableInv'
  BY <1>1 DEF IInv, TableInv, ListenerLife, EntriesListen, PortsRegistered, CanBeUnexposed, Ephemeral,
     UnexposingHasNoEntry, Ephemeral, sshVars
<1>6. SshInv'
  BY <1>1 DEF IInv, SshInv, DialLocked, OneTunnelPerProxy, CleanedUp, sshVars
<1> QED
  BY <1>4, <1>5, <1>6 DEF IInv

(* Unexpose preserves the invariant, up to the closing of the listener. *)
LEMMA UnexposeStep ==
  ASSUME IInv, NEW p \in Protocols, NEW local \in Locals, Unexpose(p, local), UNCHANGED newVars
  PROVE  IInv'
<1> DEFINE k == <<p, local>>
           l == proxies[k]
<1> USE PortsAssumption
<1>1. k \in Keys
  BY DEF Keys
<1>2. /\ unexposing = None
      /\ l # None
      /\ proxies' = [proxies EXCEPT ![k] = None]
      /\ unexposing' = l
      /\ tunnel' = [tunnel EXCEPT ![l] = IF @ = "up" THEN "down" ELSE @]
      /\ live' = [live EXCEPT ![l] = IF tunnel[l] = "up" THEN @ - 1 ELSE @]
      /\ UNCHANGED <<state, bound, file, unlinked, ssh, connLock, dial, late, forwards, failed>>
  BY DEF Unexpose, key, osVars, newVars
<1> HIDE DEF k
<1>3. l \in Listeners /\ state[l] = "listening" /\ bound[l] = k
  BY <1>1, <1>2 DEF IInv, TypeOK, TableInv, EntriesListen
<1> HIDE DEF l
<1>4. live'[l] = 0 /\ tunnel'[l] # "up" /\ (tunnel'[l] = "nil" <=> tunnel[l] = "nil")
  BY <1>2, <1>3 DEF IInv, TypeOK, SshInv, OneTunnelPerProxy
<1>5. \A m \in Listeners : m # l => live'[m] = live[m] /\ tunnel'[m] = tunnel[m]
  BY <1>2, <1>3 DEF IInv, TypeOK
<1>6. tunnel' \in [Listeners -> {"nil", "up", "down"}] /\ live' \in [Listeners -> Nat]
  <2>1. \A m \in Listeners : tunnel'[m] \in {"nil", "up", "down"} /\ live'[m] \in Nat
    BY <1>2, <1>3, <1>4, <1>5 DEF IInv, TypeOK
  <2> QED
    BY <1>2, <2>1 DEF IInv, TypeOK
<1>7. TypeOK'
  BY <1>1, <1>2, <1>3, <1>6 DEF IInv, TypeOK
<1>8. ListenerLife' /\ EntriesListen' /\ UnexposingHasNoEntry'
  BY <1>1, <1>2, <1>3 DEF IInv, TypeOK, TableInv, ListenerLife, EntriesListen, UnexposingHasNoEntry
<1>9. PortsRegistered'
  <2> SUFFICES ASSUME NEW m \in Listeners, state[m] = "listening", bound[m][1] # "unix",
                      ~Ephemeral(bound[m])
               PROVE  proxies'[bound[m]] = m \/ unexposing' = m
    BY <1>2 DEF PortsRegistered, CanBeUnexposed, Ephemeral
  <2>1. proxies[bound[m]] = m
    BY <1>2 DEF IInv, TypeOK, TableInv, PortsRegistered, CanBeUnexposed
  <2>2. CASE bound[m] = k
    BY <1>2, <2>1, <2>2 DEF l
  <2>3. CASE bound[m] # k
    BY <1>1, <1>2, <2>1, <2>3 DEF IInv, TypeOK
  <2> QED
    BY <2>2, <2>3
<1>10. SshInv'
  <2>1. DialLocked'
    BY <1>2, <1>4, <1>5 DEF IInv, SshInv, DialLocked
  <2>2. OneTunnelPerProxy'
    BY <1>4, <1>5 DEF IInv, SshInv, OneTunnelPerProxy
  <2>3. CleanedUp'
    BY <1>2, <1>3, <1>4, <1>5 DEF IInv, SshInv, CleanedUp
  <2> QED
    BY <2>1, <2>2, <2>3 DEF SshInv
<1> QED
  BY <1>7, <1>8, <1>9, <1>10 DEF IInv, TableInv

(* The closing of the listener preserves the invariant. *)
LEMMA UnexposeListenerStep ==
  ASSUME IInv, NEW l \in Listeners, UnexposeListener(l), UNCHANGED newVars
  PROVE  IInv'
<1> USE PortsAssumption
<1>1. /\ unexposing = l /\ unexposing' = None
      /\ state' = [state EXCEPT ![l] = "closed"]
      /\ file' = IF bound[l][1] = "unix" THEN [file EXCEPT ![OSAddr[bound[l]]] = None] ELSE file
      /\ UNCHANGED <<proxies, bound, unlinked, ssh, tunnel, live, connLock, dial, late, forwards, failed>>
  BY DEF UnexposeListener, sshVars, newVars
<1>2. state[l] = "listening" /\ proxies[bound[l]] = None
  BY <1>1 DEF IInv, TypeOK, TableInv, UnexposingHasNoEntry
<1>3. TypeOK'
  BY <1>1 DEF IInv, TypeOK
<1>4. ListenerLife' /\ UnexposingHasNoEntry'
  BY <1>1, <1>2 DEF IInv, TypeOK, TableInv, ListenerLife, UnexposingHasNoEntry
<1>5. EntriesListen'
  BY <1>1, <1>2 DEF IInv, TypeOK, TableInv, EntriesListen
<1>6. PortsRegistered'
  BY <1>1 DEF IInv, TypeOK, TableInv, PortsRegistered, CanBeUnexposed, Ephemeral
<1>7. SshInv'
  BY <1>1 DEF IInv, TypeOK, SshInv, DialLocked, OneTunnelPerProxy, CleanedUp
<1> QED
  BY <1>3, <1>4, <1>5, <1>6, <1>7 DEF IInv, TableInv

(* What the connections of a proxy do leaves table and listeners alone. *)
LEMMA TableInvKept ==
  ASSUME IInv, NEW l \in Listeners, state[l] # "unused", UNCHANGED <<proxies, unexposing, osVars>>,
         dial' \in [Listeners -> [Accepted ->
                     {"none", "accepted", "creating", "tunnelling", "connected"}]],
         \A m \in Listeners : m # l => dial'[m] = dial[m]
  PROVE  TableInv'
<1>1. ListenerLife'
  <2>1. ASSUME NEW m \in Listeners, state[m] = "unused", NEW a \in Accepted
        PROVE  dial'[m][a] = "none"
    <3>1. m # l
      BY <2>1
    <3> QED
      BY <2>1, <3>1 DEF IInv, TableInv, ListenerLife
  <2> QED
    BY <2>1 DEF IInv, TableInv, ListenerLife, osVars
<1>2. EntriesListen' /\ UnexposingHasNoEntry'
  BY DEF IInv, TableInv, EntriesListen, UnexposingHasNoEntry, osVars
<1>3. PortsRegistered'
  BY DEF IInv, TableInv, PortsRegistered, CanBeUnexposed, Ephemeral, osVars
<1> QED
  BY <1>1, <1>2, <1>3 DEF TableInv

(* So does a connection that leaves the tunnel alone too, and keeps connLock as it should. *)
LEMMA DialStep ==
  ASSUME IInv, NEW l \in Listeners, NEW a \in Accepted, state[l] # "unused",
         NEW step \in {"none", "accepted", "creating", "tunnelling", "connected"},
         dial' = [dial EXCEPT ![l][a] = step],
         UNCHANGED <<proxies, unexposing, osVars, tunnel, live, late, newVars>>,
         \/ /\ dial[l][a] \notin {"creating", "tunnelling"}
            /\ step \notin {"creating", "tunnelling"}
            /\ UNCHANGED connLock
         \/ /\ connLock[l] = None
            /\ step \in {"creating", "tunnelling"}
            /\ step = "creating" => tunnel[l] = "nil"
            /\ connLock' = [connLock EXCEPT ![l] = a]
         \/ /\ connLock[l] = a
            /\ step \notin {"creating", "tunnelling"}
            /\ connLock' = [connLock EXCEPT ![l] = None]
  PROVE  IInv'
<1> USE PortsAssumption
<1>1. /\ dial' \in [Listeners -> [Accepted ->
                     {"none", "accepted", "creating", "tunnelling", "connected"}]]
      /\ dial'[l][a] = step
      /\ \A m \in Listeners, b \in Accepted : (m # l \/ b # a) => dial'[m][b] = dial[m][b]
      /\ \A m \in Listeners : m # l => dial'[m] = dial[m]
  BY DEF IInv, TypeOK
<1>2. TypeOK'
  <2>1. connLock' \in [Listeners -> Accepted \cup {None}]
    BY DEF IInv, TypeOK
  <2> QED
    BY <1>1, <2>1 DEF IInv, TypeOK, osVars, newVars
<1>3. TableInv'
  BY <1>1, TableInvKept
<1>4. DialLocked'
  <2> SUFFICES ASSUME NEW m \in Listeners, NEW b \in Accepted
               PROVE  /\ dial'[m][b] \in {"creating", "tunnelling"} <=> connLock'[m] = b
                      /\ dial'[m][b] = "creating" => tunnel'[m] = "nil"
    BY DEF DialLocked
  <2>1. CASE m # l
    BY <1>1, <2>1 DEF IInv, TypeOK, SshInv, DialLocked
  <2>2. CASE m = l /\ b # a
    BY <1>1, <2>2 DEF IInv, TypeOK, SshInv, DialLocked
  <2>3. CASE m = l /\ b = a
    BY <1>1, <2>3 DEF IInv, TypeOK, SshInv, DialLocked
  <2> QED
    BY <2>1, <2>2, <2>3
<1>5. OneTunnelPerProxy' /\ CleanedUp'
  BY DEF IInv, SshInv, OneTunnelPerProxy, CleanedUp, osVars
<1> QED
  BY <1>2, <1>3, <1>4, <1>5 DEF IInv, SshInv

(***************************************************************************)
(* Opening a tunnel preserves the invariant, provided none is up: what     *)
(* connLock is for.                                                        *)
(***************************************************************************)
LEMMA OpenTunnelStep ==
  ASSUME IInv, NEW l \in Listeners, NEW a \in Accepted,
         dial[l][a] \in {"creating", "tunnelling"}, tunnel[l] # "up", OpenTunnel(l),
         \/ dial' = [dial EXCEPT ![l][a] = "tunnelling"] /\ UNCHANGED connLock
         \/ /\ dial' = [dial EXCEPT ![l][a] = "connected"]
            /\ connLock' = [connLock EXCEPT ![l] = None],
         UNCHANGED <<proxies, unexposing, osVars, newVars>>
  PROVE  IInv'
<1> USE PortsAssumption
<1>1. connLock[l] = a /\ state[l] # "unused"
  BY DEF IInv, TableInv, ListenerLife, SshInv, DialLocked
<1>2. /\ dial' \in [Listeners -> [Accepted ->
                     {"none", "accepted", "creating", "tunnelling", "connected"}]]
      /\ dial'[l][a] \in {"tunnelling", "connected"}
      /\ \A m \in Listeners, b \in Accepted : (m # l \/ b # a) => dial'[m][b] = dial[m][b]
      /\ \A m \in Listeners : m # l => dial'[m] = dial[m]
  <2>1. CASE dial' = [dial EXCEPT ![l][a] = "tunnelling"]
    BY <2>1 DEF IInv, TypeOK
  <2>2. CASE dial' = [dial EXCEPT ![l][a] = "connected"]
    BY <2>2 DEF IInv, TypeOK
  <2> QED
    BY <2>1, <2>2
<1>3. /\ connLock' \in [Listeners -> Accepted \cup {None}]
      /\ dial'[l][a] = "tunnelling" <=> connLock'[l] = a
      /\ \A b \in Accepted : b # a => connLock'[l] # b
      /\ \A m \in Listeners : m # l => connLock'[m] = connLock[m]
  <2>1. CASE dial' = [dial EXCEPT ![l][a] = "tunnelling"] /\ UNCHANGED connLock
    BY <1>1, <2>1 DEF IInv, TypeOK
  <2>2. CASE /\ dial' = [dial EXCEPT ![l][a] = "connected"]
             /\ connLock' = [connLock EXCEPT ![l] = None]
    BY <2>2 DEF IInv, TypeOK
  <2> QED
    BY <2>1, <2>2
<1>4. /\ tunnel' = [tunnel EXCEPT ![l] = "up"]
      /\ live' = [live EXCEPT ![l] = @ + 1]
      /\ late' = [late EXCEPT ![l] = @ \/ unexposing = l \/ state[l] = "closed"]
  BY DEF OpenTunnel
<1>5. TypeOK'
  BY <1>2, <1>3, <1>4 DEF IInv, TypeOK, osVars, newVars
<1>6. TableInv'
  BY <1>1, <1>2, TableInvKept
<1>7. DialLocked'
  <2> SUFFICES ASSUME NEW m \in Listeners, NEW b \in Accepted
               PROVE  /\ dial'[m][b] \in {"creating", "tunnelling"} <=> connLock'[m] = b
                      /\ dial'[m][b] = "creating" => tunnel'[m] = "nil"
    BY DEF DialLocked
  <2>1. CASE m # l
    BY <1>2, <1>3, <1>4, <2>1 DEF IInv, TypeOK, SshInv, DialLocked
  <2>2. CASE m = l /\ b # a
    BY <1>1, <1>2, <1>3, <1>4, <2>2 DEF IInv, TypeOK, SshInv, DialLocked
  <2>3. CASE m = l /\ b = a
    BY <1>2, <1>3, <2>3
  <2> QED
    BY <2>1, <2>2, <2>3
<1>8. OneTunnelPerProxy'
  <2>1. live[l] = 0
    BY DEF IInv, SshInv, OneTunnelPerProxy
  <2>2. live'[l] = 1 /\ tunnel'[l] = "up"
    BY <1>4, <2>1 DEF IInv, TypeOK
  <2>3. \A m \in Listeners : m # l => live'[m] = live[m] /\ tunnel'[m] = tunnel[m]
    BY <1>4 DEF IInv, TypeOK
  <2> QED
    BY <2>2, <2>3 DEF IInv, SshInv, OneTunnelPerProxy
<1>9. CleanedUp'
  <2> SUFFICES ASSUME NEW m \in Listeners, state[m] = "closed" \/ unexposing = m, live'[m] > 0
               PROVE  late'[m]
    BY DEF CleanedUp, osVars
  <2> QED
    BY <1>4 DEF IInv, TypeOK, SshInv, CleanedUp
<1> QED
  BY <1>5, <1>6, <1>7, <1>8, <1>9 DEF IInv, SshInv

(* Everything a connection does preserves the invariant. *)
LEMMA ConnectionStep ==
  ASSUME IInv, NEW l \in Listeners, NEW a \in Accepted, UNCHANGED newVars,
         Accept(l, a) \/ dialFn(l, a) \/ Disconnect(l, a)
  PROVE  IInv'
<1> USE PortsAssumption
<1>1. dial[l][a] # "none" => state[l] # "unused"
  BY DEF IInv, TableInv, ListenerLife
<1>2. dial[l][a] \in {"creating", "tunnelling"} <=> connLock[l] = a
  BY DEF IInv, SshInv, DialLocked
<1>3. CASE Accept(l, a)
  BY <1>3, DialStep DEF Accept
<1>4. CASE dialFnLock(l, a)
  BY <1>1, <1>4, DialStep DEF dialFnLock
<1>5. CASE dialFnCreate(l, a)
  <2>1. tunnel[l] = "nil"
    BY <1>5 DEF dialFnCreate, IInv, SshInv, DialLocked
  <2> QED
    BY <1>5, <2>1, OpenTunnelStep DEF dialFnCreate
<1>6. CASE Tunnel(l, a)
  <2>1. CASE tunnel[l] = "up"
    BY <1>1, <1>2, <1>6, <2>1, DialStep DEF Tunnel
  <2>2. CASE tunnel[l] = "down" /\ OpenTunnel(l)
    BY <1>6, <2>2, OpenTunnelStep DEF Tunnel
  <2> QED
    BY <1>6, <2>1, <2>2 DEF Tunnel
<1>7. CASE dialFnFails(l, a)
  BY <1>1, <1>2, <1>7, DialStep DEF dialFnFails
<1>8. CASE Disconnect(l, a)
  BY <1>1, <1>8, DialStep DEF Disconnect
<1> QED
  BY <1>3, <1>4, <1>5, <1>6, <1>7, <1>8 DEF dialFn

(* A tunnel that breaks preserves the invariant. *)
LEMMA TunnelBreaksStep ==
  ASSUME IInv, NEW l \in Listeners, TunnelBreaks(l), UNCHANGED newVars
  PROVE  IInv'
<1> USE PortsAssumption
<1>1. /\ tunnel' = [tunnel EXCEPT ![l] = "down"] /\ live' = [live EXCEPT ![l] = @ - 1]
      /\ live[l] = 1 /\ tunnel[l] = "up"
      /\ UNCHANGED <<proxies, unexposing, osVars, connLock, dial, late, newVars>>
  BY DEF TunnelBreaks, IInv, SshInv, OneTunnelPerProxy
<1>2. TypeOK'
  BY <1>1 DEF IInv, TypeOK, osVars, newVars
<1>3. TableInv'
  BY <1>1 DEF IInv, TableInv, ListenerLife, EntriesListen, PortsRegistered, CanBeUnexposed, Ephemeral,
     UnexposingHasNoEntry, osVars
<1>4. DialLocked'
  BY <1>1 DEF IInv, TypeOK, SshInv, DialLocked
<1>5. OneTunnelPerProxy' /\ CleanedUp'
  BY <1>1 DEF IInv, TypeOK, SshInv, OneTunnelPerProxy, CleanedUp, osVars
<1> QED
  BY <1>2, <1>3, <1>4, <1>5 DEF IInv, SshInv

(* A configured forward, exposed or not, preserves the invariant. *)
LEMMA forwardHostVMStep ==
  ASSUME IInv, NEW k \in forwards, forwardHostVM(k)
  PROVE  IInv'
<1>1. k[1] \in Protocols /\ k[2] \in Locals
  BY DEF IInv, TypeOK, Keys
<1>2. ASSUME NEW l \in Listeners, Expose(k[1], k[2], FALSE, l),
             forwards' = forwards \ {k}, UNCHANGED failed
      PROVE  IInv'
  BY <1>1, <1>2, ExposeStep DEF IInv, TypeOK
<1>3. ASSUME failed' = TRUE, UNCHANGED <<proxies, unexposing, osVars, sshVars, forwards>>
      PROVE  IInv'
  <2>1. TypeOK'
    BY <1>3 DEF IInv, TypeOK, osVars, sshVars
  <2>2. TableInv'
    BY <1>3 DEF IInv, TableInv, ListenerLife, EntriesListen, PortsRegistered, CanBeUnexposed, Ephemeral,
       UnexposingHasNoEntry, osVars, sshVars
  <2>3. SshInv'
    BY <1>3 DEF IInv, SshInv, DialLocked, OneTunnelPerProxy, CleanedUp, osVars, sshVars
  <2> QED
    BY <2>1, <2>2, <2>3 DEF IInv
<1> QED
  BY <1>2, <1>3 DEF forwardHostVM

(* A request preserves the invariant. *)
LEMMA MuxStep ==
  ASSUME IInv, Mux, UNCHANGED newVars
  PROVE  IInv'
<1>1. PICK p \in Protocols \cup (IF "tcp" \in Protocols THEN {""} ELSE {}), local \in Locals :
        \/ Unexpose(Protocol(p), local)
        \/ ExposeFails(Protocol(p), local)
        \/ \E tunnelled \in BOOLEAN, l \in Listeners : Expose(Protocol(p), local, tunnelled, l)
  BY DEF Mux
<1>2. Protocol(p) \in Protocols
  BY PortsAssumption DEF Protocol
<1>3. forwards' \subseteq forwards /\ failed' \in BOOLEAN
  BY DEF newVars, IInv, TypeOK
<1> QED
  BY <1>1, <1>2, <1>3, UnexposeStep, ExposeStep, ExposeFailsStep

(* Every step preserves the invariant. *)
LEMMA NextIInv == IInv /\ [Next]_vars => IInv'
<1> SUFFICES ASSUME IInv, [Next]_vars PROVE IInv'
  OBVIOUS
<1>1. CASE UNCHANGED vars
  <2>1. TypeOK'
    BY <1>1 DEF vars, newVars, osVars, sshVars, IInv, TypeOK
  <2>2. TableInv'
    BY <1>1 DEF vars, newVars, osVars, sshVars, IInv, TableInv, ListenerLife, EntriesListen,
       PortsRegistered, CanBeUnexposed, UnexposingHasNoEntry
  <2>3. SshInv'
    BY <1>1 DEF vars, newVars, osVars, sshVars, IInv, SshInv, DialLocked, OneTunnelPerProxy, CleanedUp
  <2> QED
    BY <2>1, <2>2, <2>3 DEF IInv
<1> QED
  BY <1>1, forwardHostVMStep, MuxStep, UnexposeListenerStep, TunnelBreaksStep, ConnectionStep
     DEF Next, Serving

(* The inductive invariant holds in every state of every instance. *)
LEMMA InvariantHolds == Spec => []IInv
<1>1. Init => IInv
  BY InitIInv
<1>2. IInv /\ [Next]_vars => IInv'
  BY NextIInv
<1> QED
  BY <1>1, <1>2, PTL DEF Spec

(* Type correctness of the table, the listeners and the tunnels. *)
THEOREM TypeCorrect == Spec => []TypeOK
<1>1. IInv => TypeOK
  BY DEF IInv
<1> QED
  BY <1>1, InvariantHolds, PTL

(***************************************************************************)
(* A proxy has one SSH connection at most, and dialFn knows of it.         *)
(***************************************************************************)
THEOREM TunnelUnique == Spec => []OneTunnelPerProxy
<1>1. IInv => OneTunnelPerProxy
  BY DEF IInv, SshInv
<1> QED
  BY <1>1, InvariantHolds, PTL

(***************************************************************************)
(* Unexpose takes the SSH connection down with the proxy, unless one is    *)
(* opened after its cleanup has run.                                       *)
(***************************************************************************)
THEOREM TunnelEnds == Spec => []TunnelEndsWithProxy
<1>1. IInv => TunnelEndsWithProxy
  BY DEF IInv, SshInv, CleanedUp, TunnelEndsWithProxy
<1> QED
  BY <1>1, InvariantHolds, PTL

-----------------------------------------------------------------------------
(* Socket files. *)

(* A step that changes neither the table nor the files. *)
LEMMA FilesKept ==
  ASSUME FilesLead, UNCHANGED <<proxies, file, unlinked>>
  PROVE  FilesLead'
BY DEF FilesLead

(***************************************************************************)
(* Every step keeps the socket file of an entry: Expose replaces it        *)
(* together with the entry, and the listener that Unexpose closes removes  *)
(* a file that leads to no entry any more.                                 *)
(***************************************************************************)
LEMMA NextFilesLead ==
  ASSUME OneSpellingPerSocket, IInv, FilesLead, [Next]_vars
  PROVE  FilesLead'
<1> USE PortsAssumption
<1>1. ASSUME NEW p \in Protocols, NEW local \in Locals, NEW t \in BOOLEAN, NEW l \in Listeners,
             Expose(p, local, t, l)
      PROVE  FilesLead'
  <2> DEFINE k == <<p, local>>
  <2>1. k \in Keys /\ k[1] = p /\ OSAddr[k] \in Paths
    BY DEF Keys, Paths
  <2>2. /\ proxies' = [proxies EXCEPT ![k] = l]
        /\ file' = IF p = "unix" THEN [file EXCEPT ![OSAddr[k]] = l] ELSE file
        /\ UNCHANGED unlinked
    BY <1>1 DEF Expose, key
  <2> HIDE DEF k
  <2> SUFFICES ASSUME NEW j \in Keys, proxies'[j] # None, j[1] = "unix"
               PROVE  \/ file'[OSAddr[j]] = proxies'[j]
                      \/ file'[OSAddr[j]] = None /\ proxies'[j] \in unlinked'
    BY DEF FilesLead
  <2>3. CASE j = k
    BY <2>1, <2>2, <2>3 DEF IInv, TypeOK
  <2>4. CASE j # k
    <3>1. /\ proxies'[j] = proxies[j]
          /\ \/ file[OSAddr[j]] = proxies[j]
             \/ file[OSAddr[j]] = None /\ proxies[j] \in unlinked
      BY <2>1, <2>2, <2>4 DEF IInv, TypeOK, FilesLead
    <3>2. p = "unix" => OSAddr[j] # OSAddr[k]
      BY <2>1, <2>4 DEF OneSpellingPerSocket
    <3> QED
      BY <2>1, <2>2, <3>1, <3>2 DEF IInv, TypeOK
  <2> QED
    BY <2>3, <2>4
<1>2. ASSUME NEW p \in Protocols, NEW local \in Locals, Unexpose(p, local)
      PROVE  FilesLead'
  BY <1>2 DEF Unexpose, key, osVars, IInv, TypeOK, FilesLead, Keys
<1>3. ASSUME NEW l \in Listeners, UnexposeListener(l)
      PROVE  FilesLead'
  <2>1. state[l] = "listening" /\ proxies[bound[l]] = None /\ bound[l] \in Keys
    BY <1>3 DEF UnexposeListener, IInv, TableInv, ListenerLife, UnexposingHasNoEntry
  <2> SUFFICES ASSUME NEW j \in Keys, proxies[j] # None, j[1] = "unix"
               PROVE  \/ file'[OSAddr[j]] = proxies[j]
                      \/ file'[OSAddr[j]] = None /\ proxies[j] \in unlinked
    BY <1>3 DEF FilesLead, UnexposeListener
  <2>2. bound[l][1] = "unix" => OSAddr[j] # OSAddr[bound[l]]
    BY <2>1 DEF OneSpellingPerSocket
  <2>3. OSAddr[j] \in Paths
    BY DEF Paths
  <2> QED
    BY <1>3, <2>2, <2>3 DEF UnexposeListener, IInv, TypeOK, FilesLead
<1>a. ASSUME NEW p \in Protocols, NEW local \in Locals, ExposeFails(p, local)
      PROVE  FilesLead'
  <2> DEFINE path == OSAddr[<<p, local>>]
  <2>1. /\ file' = [file EXCEPT ![path] = None]
        /\ unlinked' = unlinked \cup {file[path]}
        /\ UNCHANGED proxies
    BY <1>a DEF ExposeFails
  <2> HIDE DEF path
  <2> SUFFICES ASSUME NEW j \in Keys, proxies[j] # None, j[1] = "unix"
               PROVE  \/ file'[OSAddr[j]] = proxies[j]
                      \/ file'[OSAddr[j]] = None /\ proxies[j] \in unlinked'
    BY <2>1 DEF FilesLead
  <2>2. OSAddr[j] \in Paths
    BY DEF Paths
  <2> QED
    BY <2>1, <2>2 DEF IInv, TypeOK, FilesLead
<1>4. ASSUME NEW k \in forwards, forwardHostVM(k)
      PROVE  FilesLead'
  <2>1. k[1] \in Protocols /\ k[2] \in Locals
    BY DEF IInv, TypeOK, Keys
  <2> QED
    BY <1>1, <1>4, <2>1, FilesKept DEF forwardHostVM, osVars
<1>5. CASE Mux
  <2>1. PICK p \in Protocols \cup (IF "tcp" \in Protocols THEN {""} ELSE {}), local \in Locals :
          \/ Unexpose(Protocol(p), local)
          \/ ExposeFails(Protocol(p), local)
          \/ \E tunnelled \in BOOLEAN, l \in Listeners : Expose(Protocol(p), local, tunnelled, l)
    BY <1>5 DEF Mux
  <2>2. Protocol(p) \in Protocols
    BY DEF Protocol
  <2> QED
    BY <1>1, <1>2, <1>a, <2>1, <2>2
<1>6. ASSUME NEW l \in Listeners,
             \/ TunnelBreaks(l)
             \/ \E a \in Accepted : Accept(l, a) \/ dialFn(l, a) \/ Disconnect(l, a)
      PROVE  FilesLead'
  BY <1>6, FilesKept DEF TunnelBreaks, Accept, dialFn, dialFnLock, dialFnCreate, Tunnel,
     dialFnFails, Disconnect, osVars
<1>7. CASE UNCHANGED vars
  BY <1>7, FilesKept DEF vars, osVars
<1> QED
  BY <1>3, <1>4, <1>5, <1>6, <1>7 DEF Next, Serving

(***************************************************************************)
(* Every proxy of the table is being served under its own key, but for a   *)
(* socket file that a failed Expose took away, and every port that was     *)
(* asked for by number and is listened on can be unexposed.                *)
(***************************************************************************)
THEOREM TableCorrect ==
  ASSUME OneSpellingPerSocket
  PROVE  Spec => []TableMatchesListeners
<1>1. Init => FilesLead
  BY InitIInv
<1>2. IInv /\ FilesLead /\ [Next]_vars => FilesLead'
  BY NextFilesLead
<1>3. IInv /\ FilesLead => TableMatchesListeners
  BY DEF IInv, TableInv, EntriesListen, PortsRegistered, FilesLead, TableMatchesListeners
<1> QED
  BY <1>1, <1>2, <1>3, InvariantHolds, PTL DEF Spec
=============================================================================
