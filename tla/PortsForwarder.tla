--------------------------- MODULE PortsForwarder ---------------------------
(***************************************************************************)
(* Port forwarding from the host into the virtual network,                 *)
(* pkg/services/forwarder/ports.go: the table of proxies behind the HTTP   *)
(* calls /expose and /unexpose, the listeners of the operating system that *)
(* they open and close, and the SSH tunnel that a unix-to-unix proxy       *)
(* creates on its first connection (pkg/sshclient).                        *)
(*                                                                         *)
(* proxiesLock serialises Expose and Unexpose.  The connections of a proxy *)
(* run beside them: dialFn holds connLock while it creates or re-creates   *)
(* the tunnel, but the cleanup of Unexpose does not take connLock, and it  *)
(* runs before the listener is closed.                                     *)
(*                                                                         *)
(* Before the Mux is served, virtualnetwork.New exposes what the           *)
(* configuration forwards; an error ends the process.                      *)
(***************************************************************************)
EXTENDS Integers, FiniteSets

CONSTANTS
  Locals,      \* local addresses, as written in the requests
  OSAddr,      \* OSAddr[p, a]: the port or path that a stands for
  PortZero,    \* local addresses with port 0: the operating system picks a free port
  Protocols,   \* of "tcp", "udp", "unix"
  Forwards,    \* configuration.Forwards: the possible sets of keys, all of tcp or udp
  Listeners,   \* bound: one element per successful listen
  Accepted,    \* bound: connections accepted by one listener
  None

Keys  == Protocols \X Locals
Paths == {OSAddr[k] : k \in Keys}

ASSUME PortsAssumption ==
  /\ Protocols \subseteq {"tcp", "udp", "unix"}
  /\ Locals \cap Keys = {}
  /\ None \notin Listeners \cup Accepted
  /\ DOMAIN OSAddr = Keys
  /\ PortZero \subseteq Locals
  /\ \A c \in Forwards : c \subseteq (Protocols \ {"unix"}) \X Locals

VARIABLES
  proxies,     \* PortsForwarder.proxies: string -> listener of the proxy, None when absent
  unexposing,  \* the listener whose proxy Unexpose is closing, with proxiesLock held
  state,       \* state[l]: "unused", "listening" or "closed"
  bound,       \* bound[l]: the key l was opened for
  file,        \* file[path]: the listener behind a unix socket file
  unlinked,    \* history: listeners whose socket file went in an Expose that failed
  ssh,         \* ssh[l]: the remote of l is an ssh-tunnel
  tunnel,      \* tunnel[l]: sshForward: "nil", "up" or "down"
  live,        \* live[l]: SSH connections that l's proxy has opened and not closed
  connLock,    \* connLock[l]: the connection that is inside dialFn
  dial,        \* dial[l][a]: where connection a of l is
  late,        \* late[l]: history: a tunnel was opened after cleanup had run
  forwards,    \* the configured forwards that New has still to expose
  failed       \* New has returned an error, and the process ends

newVars == <<forwards, failed>>
osVars  == <<state, bound, file, unlinked, ssh>>
sshVars == <<tunnel, live, connLock, dial, late>>
vars    == <<proxies, unexposing, osVars, sshVars, newVars>>

(* Mutant of key: the protocol is left out. *)
keyWithoutProtocol(protocol, local) == <<CHOOSE p \in Protocols : TRUE, local>>

(* The key under which a proxy is stored. *)
key(protocol, local) == <<protocol, local>>

Init ==
  /\ proxies = [s \in Locals \cup Keys |-> None]
  /\ unexposing = None
  /\ state = [l \in Listeners |-> "unused"]
  /\ bound = [l \in Listeners |-> None]
  /\ file = [f \in Paths |-> None]
  /\ unlinked = {}
  /\ ssh = [l \in Listeners |-> FALSE]
  /\ tunnel = [l \in Listeners |-> "nil"]
  /\ live = [l \in Listeners |-> 0]
  /\ connLock = [l \in Listeners |-> None]
  /\ dial = [l \in Listeners |-> [a \in Accepted |-> "none"]]
  /\ late = [l \in Listeners |-> FALSE]
  /\ forwards \in Forwards
  /\ failed = FALSE

-----------------------------------------------------------------------------
(* Expose. *)

(* The operating system picks the port: any number of listeners fit. *)
Ephemeral(k) == k[1] # "unix" /\ k[2] \in PortZero

(* net.Listen fails on a port that somebody listens on, however either of  *)
(* them writes it.  The listener of a unix proxy removes the socket file   *)
(* first, so it never conflicts.                                           *)
Available(protocol, local) ==
  \/ protocol = "unix"
  \/ Ephemeral(<<protocol, local>>)
  \/ \A l \in Listeners :
       (state[l] = "listening" /\ ~Ephemeral(bound[l])) =>
         ~(bound[l][1] = protocol /\ OSAddr[bound[l]] = OSAddr[<<protocol, local>>])

Expose(protocol, local, tunnelled, l) ==
  /\ unexposing = None
  /\ proxies[local] = None      \* else "proxy already running"
  /\ Available(protocol, local)
  /\ tunnelled => protocol = "unix"
  /\ state[l] = "unused"
  /\ state' = [state EXCEPT ![l] = "listening"]
  /\ bound' = [bound EXCEPT ![l] = <<protocol, local>>]
  /\ ssh' = [ssh EXCEPT ![l] = tunnelled]
  /\ file' = IF protocol = "unix" THEN [file EXCEPT ![OSAddr[<<protocol, local>>]] = l] ELSE file
  /\ proxies' = [proxies EXCEPT ![key(protocol, local)] = l]
  /\ UNCHANGED <<unexposing, unlinked, sshVars>>

(* Any listen may fail, and Expose with it, for want of a free port, of    *)
(* descriptors or of permissions.  Only a unix listen leaves a trace then: *)
(* the socket file, which may be that of a proxy that is running, is gone. *)
ExposeFails(protocol, local) ==
  LET path == OSAddr[<<protocol, local>>]
  IN  /\ protocol = "unix"
      /\ unexposing = None
      /\ proxies[local] = None
      /\ file[path] # None
      /\ file' = [file EXCEPT ![path] = None]
      /\ unlinked' = unlinked \cup {file[path]}
      /\ UNCHANGED <<proxies, unexposing, state, bound, ssh, sshVars>>

(* New exposes a configured forward, in the order in which the iteration   *)
(* over the map meets it, or fails at it, because the port is taken or for *)
(* any other reason.                                                       *)
forwardHostVM(k) ==
  /\ k \in forwards
  /\ ~failed
  /\ \/ /\ \E l \in Listeners : Expose(k[1], k[2], FALSE, l)
        /\ forwards' = forwards \ {k}
        /\ UNCHANGED failed
     \/ /\ failed' = TRUE
        /\ UNCHANGED <<proxies, unexposing, osVars, sshVars, forwards>>

-----------------------------------------------------------------------------
(* Unexpose: the entry is deleted, then underlying.Close() runs cleanup    *)
(* and closes the listener.                                                *)

(* Mutant of Unexpose: cleanup is not called. *)
UnexposeWithoutCleanup(protocol, local) ==
  LET l == proxies[key(protocol, local)]
  IN  /\ unexposing = None
      /\ l # None
      /\ proxies' = [proxies EXCEPT ![key(protocol, local)] = None]
      /\ unexposing' = l
      /\ UNCHANGED <<osVars, sshVars>>

Unexpose(protocol, local) ==
  LET l == proxies[key(protocol, local)]
  IN  /\ unexposing = None
      /\ l # None               \* else "proxy not found"
      /\ proxies' = [proxies EXCEPT ![key(protocol, local)] = None]
      /\ unexposing' = l
      /\ tunnel' = [tunnel EXCEPT ![l] = IF @ = "up" THEN "down" ELSE @]
      /\ live' = [live EXCEPT ![l] = IF tunnel[l] = "up" THEN @ - 1 ELSE @]
      /\ UNCHANGED <<osVars, connLock, dial, late>>

(* Closing a unix listener removes the file at its path. *)
UnexposeListener(l) ==
  /\ unexposing = l
  /\ unexposing' = None
  /\ state' = [state EXCEPT ![l] = "closed"]
  /\ file' = IF bound[l][1] = "unix" THEN [file EXCEPT ![OSAddr[bound[l]]] = None] ELSE file
  /\ UNCHANGED <<proxies, bound, unlinked, ssh, sshVars>>

-----------------------------------------------------------------------------
(* Connections of a unix proxy over SSH: dialFn. *)

Accept(l, a) ==
  /\ state[l] = "listening"
  /\ ssh[l]
  /\ dial[l][a] = "none"
  /\ \E p \in Paths : file[p] = l
  /\ dial' = [dial EXCEPT ![l][a] = "accepted"]
  /\ UNCHANGED <<proxies, unexposing, osVars, tunnel, live, connLock, late>>

(* Mutant of dialFnLock: connLock is not taken. *)
dialFnUnlocked(l, a) ==
  /\ dial[l][a] = "accepted"
  /\ dial' = [dial EXCEPT ![l][a] = IF tunnel[l] = "nil" THEN "creating" ELSE "tunnelling"]
  /\ UNCHANGED <<proxies, unexposing, osVars, tunnel, live, connLock, late>>

(* connLock is taken and sshForward tested. *)
dialFnLock(l, a) ==
  /\ dial[l][a] = "accepted"
  /\ connLock[l] = None
  /\ connLock' = [connLock EXCEPT ![l] = a]
  /\ dial' = [dial EXCEPT ![l][a] = IF tunnel[l] = "nil" THEN "creating" ELSE "tunnelling"]
  /\ UNCHANGED <<proxies, unexposing, osVars, tunnel, live, late>>

(* A new SSH connection; late if cleanup has run already. *)
OpenTunnel(l) ==
  /\ tunnel' = [tunnel EXCEPT ![l] = "up"]
  /\ live' = [live EXCEPT ![l] = @ + 1]
  /\ late' = [late EXCEPT ![l] = @ \/ unexposing = l \/ state[l] = "closed"]

(* CreateSSHForwardPassphrase succeeds, and Tunnel comes next. *)
dialFnCreate(l, a) ==
  /\ dial[l][a] = "creating"
  /\ OpenTunnel(l)
  /\ dial' = [dial EXCEPT ![l][a] = "tunnelling"]
  /\ UNCHANGED <<proxies, unexposing, osVars, connLock>>

(* connectForward: a tunnel that is down is connected again, whoever       *)
(* closed it.                                                              *)
Tunnel(l, a) ==
  /\ dial[l][a] = "tunnelling"
  /\ \/ tunnel[l] = "up" /\ UNCHANGED <<tunnel, live, late>>
     \/ tunnel[l] = "down" /\ OpenTunnel(l)
  /\ dial' = [dial EXCEPT ![l][a] = "connected"]
  /\ connLock' = [connLock EXCEPT ![l] = None]
  /\ UNCHANGED <<proxies, unexposing, osVars>>

(* The SSH server does not answer, or the dial's time is up. *)
dialFnFails(l, a) ==
  /\ dial[l][a] \in {"creating", "tunnelling"}
  /\ dial' = [dial EXCEPT ![l][a] = "none"]
  /\ connLock' = [connLock EXCEPT ![l] = None]
  /\ UNCHANGED <<proxies, unexposing, osVars, tunnel, live, late>>

Disconnect(l, a) ==
  /\ dial[l][a] = "connected"
  /\ dial' = [dial EXCEPT ![l][a] = "none"]
  /\ UNCHANGED <<proxies, unexposing, osVars, tunnel, live, connLock, late>>

(* The SSH connection breaks. *)
TunnelBreaks(l) ==
  /\ tunnel[l] = "up"
  /\ tunnel' = [tunnel EXCEPT ![l] = "down"]
  /\ live' = [live EXCEPT ![l] = @ - 1]
  /\ UNCHANGED <<proxies, unexposing, osVars, connLock, dial, late>>

-----------------------------------------------------------------------------
dialFn(l, a) ==
  \/ dialFnLock(l, a)
  \/ dialFnCreate(l, a)
  \/ Tunnel(l, a)
  \/ dialFnFails(l, a)

(* The requests that come in through the Mux; an empty protocol is tcp. *)
Protocol(p) == IF p = "" THEN "tcp" ELSE p
Mux ==
  \E p \in Protocols \cup (IF "tcp" \in Protocols THEN {""} ELSE {}), local \in Locals :
    \/ Unexpose(Protocol(p), local)
    \/ ExposeFails(Protocol(p), local)
    \/ \E tunnelled \in BOOLEAN, l \in Listeners : Expose(Protocol(p), local, tunnelled, l)

Serving ==
  \/ Mux
  \/ \E l \in Listeners :
       \/ UnexposeListener(l)
       \/ TunnelBreaks(l)
       \/ \E a \in Accepted : Accept(l, a) \/ dialFn(l, a) \/ Disconnect(l, a)

Next ==
  \/ \E k \in forwards : forwardHostVM(k)
  \/ forwards = {} /\ Serving /\ UNCHANGED newVars

Spec == Init /\ [][Next]_vars

-----------------------------------------------------------------------------
(* Properties. *)

(* Type invariant of the proxies, the listeners and the tunnels. *)
TypeOK ==
  /\ proxies \in [Locals \cup Keys -> Listeners \cup {None}]
  /\ unexposing \in Listeners \cup {None}
  /\ state \in [Listeners -> {"unused", "listening", "closed"}]
  /\ bound \in [Listeners -> Keys \cup {None}]
  /\ file \in [Paths -> Listeners \cup {None}]
  /\ unlinked \subseteq Listeners
  /\ ssh \in [Listeners -> BOOLEAN]
  /\ tunnel \in [Listeners -> {"nil", "up", "down"}]
  /\ live \in [Listeners -> Nat]
  /\ connLock \in [Listeners -> Accepted \cup {None}]
  /\ dial \in [Listeners -> [Accepted ->
                 {"none", "accepted", "creating", "tunnelling", "connected"}]]
  /\ late \in [Listeners -> BOOLEAN]
  /\ forwards \subseteq Keys
  /\ failed \in BOOLEAN

CanBeUnexposed(l) == proxies[bound[l]] = l \/ unexposing = l

(***************************************************************************)
(* The table of proxies, as /all reports it, and the listeners agree.      *)
(* Every proxy is being served: its listener listens for that very         *)
(* protocol and address, and the socket file of a unix proxy leads to it,  *)
(* or an Expose of the same socket that failed has taken the file away (as *)
(* long as nobody exposes one socket file under two spellings of its       *)
(* path).  Every port that was asked for by number and is listened on can  *)
(* be unexposed, although Expose never refuses a proxy that is running     *)
(* already: the second listen fails, also when the port is written in      *)
(* another way.                                                            *)
(***************************************************************************)
TableMatchesListeners ==
  /\ \A k \in Keys : proxies[k] # None =>
       /\ state[proxies[k]] = "listening"
       /\ bound[proxies[k]] = k
       /\ k[1] = "unix" =>
            \/ file[OSAddr[k]] = proxies[k]
            \/ file[OSAddr[k]] = None /\ proxies[k] \in unlinked
  /\ \A l \in Listeners :
       (state[l] = "listening" /\ bound[l][1] # "unix" /\ ~Ephemeral(bound[l]))
         => CanBeUnexposed(l)

(***************************************************************************)
(* Every listener can be unexposed, those of unix sockets and of port 0    *)
(* included, since Expose refuses a second proxy with "proxy already       *)
(* running".  It does not hold of the code: the test looks for the bare    *)
(* local address, and the entries are stored under protocol and address.   *)
(***************************************************************************)
EveryListenerIsRegistered ==
  \A l \in Listeners : state[l] = "listening" => CanBeUnexposed(l)

(***************************************************************************)
(* A proxy has one SSH connection at most, however many of its clients     *)
(* connect at once and however often it breaks, and dialFn knows of it.    *)
(***************************************************************************)
OneTunnelPerProxy ==
  \A l \in Listeners : live[l] = IF tunnel[l] = "up" THEN 1 ELSE 0

(***************************************************************************)
(* Unexpose takes the SSH connection down with the proxy, unless a client  *)
(* that was let in before the listener was closed makes dialFn open one    *)
(* after cleanup has run.                                                  *)
(***************************************************************************)
TunnelEndsWithProxy ==
  \A l \in Listeners : (state[l] = "closed" /\ live[l] > 0) => late[l]
=============================================================================
