----------------------------- MODULE Lifecycle -----------------------------
(***************************************************************************)
(* The life of a gvproxy process, cmd/gvproxy/main.go: main and run, the   *)
(* goroutines of the errgroup, the context that ends them, and the files   *)
(* the process leaves in the file system; and the life of a win-sshproxy   *)
(* process, cmd/win-sshproxy/main.go, which forwards pipes and sockets     *)
(* with the same SSH client and nothing else.                              *)
(*                                                                         *)
(* A goroutine of the group that returns an error cancels the context, and *)
(* so does a signal.  main waits for all goroutines of the group, removes  *)
(* the pid file and exits.  What decides whether it gets there is who      *)
(* closes the socket a goroutine is blocked on.                            *)
(*                                                                         *)
(* run starts services one after the other.  A service is of one kind:     *)
(*   "http"        the control endpoints and the gateway's port 80         *)
(*   "debug"       the statistics logger                                   *)
(*   "vpnkit"      listen-vpnkit, any number of guests                     *)
(*   "qemu"        listen-qemu or listen-bess, one guest each              *)
(*   "vfkit"       listen-vfkit, one guest on the listening socket itself  *)
(*   "stdio"       listen-stdio, one guest                                 *)
(*   "forward"     forward-sock, given as a path                           *)
(*   "forwardURL"  forward-sock, given as a URL                            *)
(*   "proxy"       a forward of win-sshproxy                               *)
(***************************************************************************)
EXTENDS Integers, Sequences

CONSTANTS
  Configurations,  \* sequences of kinds, in the order in which run starts them
  MaxGuests        \* bound: guests connected through vpnkit at a time

Kinds == {"http", "debug", "vpnkit", "qemu", "vfkit", "stdio", "forward", "forwardURL",
          "proxy"}

Forwards == {"forward", "forwardURL", "proxy"}

(* What gvproxy's main refuses: two of vpnkit, qemu and bess at the same   *)
(* time.  A win-sshproxy has forwards, at least one, and nothing else.     *)
Valid(c) ==
  /\ \A i, j \in DOMAIN c : {c[i], c[j]} \subseteq {"vpnkit", "qemu"} => i = j
  /\ (\E i \in DOMAIN c : c[i] = "proxy") => \A i \in DOMAIN c : c[i] = "proxy"

ASSUME LifecycleAssumption ==
  /\ \A c \in Configurations : c \in Seq(Kinds) /\ Valid(c)
  /\ MaxGuests \in Nat

VARIABLES
  services,   \* the configuration of this process
  main,       \* "wait" in groupErrs.Wait, "return" behind it, "exited"
  pidFile,    \* the pid file exists (of win-sshproxy: the thread id file)
  ctxDone,    \* the context is cancelled
  failed,     \* the group has an error
  signalled,  \* a signal is in sigChan
  catcher,    \* the goroutine that waits for a signal: "wait" or "done"
  run,        \* "new" in virtualnetwork.New, "running" behind it, "done"
  started,    \* how many services run has started
  listener,   \* listener[i]: "none", "open" or "closed"
  file,       \* file[i]: the socket file exists
  closer,     \* closer[i]: the goroutine that closes on cancellation: "none", "wait", "done"
  server,     \* server[i]: where the serving goroutine is; "none" before, "done" after
  guests      \* goroutines that serve a guest of vpnkit

process == <<services, main, pidFile, signalled, catcher>>
vars    == <<process, ctxDone, failed, run, started, listener, file, closer, server, guests>>

Services == DOMAIN services

(* The process is a win-sshproxy. *)
WinSSHProxy == \E i \in Services : services[i] = "proxy"

Init ==
  /\ services \in Configurations
  /\ main = "wait"
  /\ pidFile = TRUE
  /\ ctxDone = FALSE
  /\ failed = FALSE
  /\ signalled = FALSE
  /\ catcher = "wait"
  /\ run = IF WinSSHProxy THEN "running" ELSE "new"
  /\ started = 0
  /\ listener = [i \in Services |-> "none"]
  /\ file = [i \in Services |-> FALSE]
  /\ closer = [i \in Services |-> "none"]
  /\ server = [i \in Services |-> "none"]
  /\ guests = 0

(* A goroutine of the group returns, with or without an error. *)
Returns(err) ==
  /\ failed' = (failed \/ err)
  /\ ctxDone' = (ctxDone \/ err)

-----------------------------------------------------------------------------
(* main. *)

Signal ==
  /\ signalled' = TRUE
  /\ UNCHANGED <<services, main, pidFile, catcher, ctxDone, failed, run, started,
                 listener, file, closer, server, guests>>

(* The second goroutine of main: a signal, or the end of the context. *)
Catch ==
  /\ ~WinSSHProxy
  /\ catcher = "wait"
  /\ \/ signalled /\ signalled' = FALSE /\ Returns(TRUE)
     \/ ctxDone /\ UNCHANGED signalled /\ Returns(FALSE)
  /\ catcher' = "done"
  /\ UNCHANGED <<services, main, pidFile, run, started, listener, file, closer, server, guests>>

(* The goroutine of win-sshproxy that waits for WM_QUIT, and cancels. *)
CatchQuit ==
  /\ WinSSHProxy
  /\ catcher = "wait"
  /\ signalled
  /\ signalled' = FALSE
  /\ ctxDone' = TRUE
  /\ catcher' = "done"
  /\ UNCHANGED <<services, main, pidFile, failed, run, started, listener, file, closer, server, guests>>

(* A forward's closer, and the catcher of win-sshproxy, are started with   *)
(* go, not in the group; win-sshproxy sets its proxies up before it waits. *)
GroupDone ==
  /\ WinSSHProxy \/ catcher = "done"
  /\ run = "done"
  /\ guests = 0
  /\ \A i \in Services :
       /\ server[i] \in {"none", "done"}
       /\ services[i] \notin Forwards => closer[i] # "wait"

(* Mutant of mainWait: run itself is not in the group. *)
mainWaitWithoutRun ==
  /\ main = "wait"
  /\ catcher = "done"
  /\ guests = 0
  /\ \A i \in Services :
       /\ server[i] \in {"none", "done"}
       /\ services[i] \notin Forwards => closer[i] # "wait"
  /\ main' = "return"
  /\ UNCHANGED <<services, pidFile, signalled, catcher, ctxDone, failed, run, started,
                 listener, file, closer, server, guests>>

mainWait ==
  /\ main = "wait"
  /\ GroupDone
  /\ main' = "return"
  /\ UNCHANGED <<services, pidFile, signalled, catcher, ctxDone, failed, run, started,
                 listener, file, closer, server, guests>>

(* The deferred functions: the pid file is removed and the process ends.   *)
(* Its status is 0 whatever has failed: the argument of the deferred       *)
(* os.Exit is evaluated when it is deferred, before exitCode is set.       *)
(* win-sshproxy removes nothing.                                           *)
mainExit ==
  /\ main = "return"
  /\ main' = "exited"
  /\ pidFile' = WinSSHProxy
  /\ UNCHANGED <<services, signalled, catcher, ctxDone, failed, run, started,
                 listener, file, closer, server, guests>>

-----------------------------------------------------------------------------
(* run. *)

HasListener(k) == k \in {"http", "vpnkit", "qemu", "vfkit"}
HasCloser(k)   == k \in {"http", "qemu", "vfkit"}

FirstStep ==
  [http |-> "serve", debug |-> "sleep", vpnkit |-> "check", qemu |-> "accept",
   vfkit |-> "accept", stdio |-> "rx", forward |-> "listen", forwardURL |-> "listen",
   proxy |-> "listen"]

(* virtualnetwork.New: the address pool, the link endpoint and the switch, *)
(* the capture file, the stack, the servers and the configured forwards,   *)
(* or the error of any of them.  The goroutines of the servers are not in  *)
(* the group.                                                              *)
runNew ==
  /\ run = "new"
  /\ \/ run' = "running" /\ UNCHANGED <<ctxDone, failed>>
     \/ run' = "done" /\ Returns(TRUE)
  /\ UNCHANGED <<process, started, listener, file, closer, server, guests>>

(* The next service: its listener is opened, its goroutines are started.   *)
StartNext ==
  LET i == started + 1
      k == services[i]
  IN  /\ run = "running"
      /\ started < Len(services)
      /\ started' = i
      /\ listener' = [listener EXCEPT ![i] = IF HasListener(k) THEN "open" ELSE @]
      /\ file' = [file EXCEPT ![i] = HasListener(k)]
      /\ closer' = [closer EXCEPT ![i] = IF HasCloser(k) THEN "wait" ELSE @]
      /\ server' = [server EXCEPT ![i] = FirstStep[k]]
      /\ UNCHANGED <<process, ctxDone, failed, run, guests>>

(* The services of gvproxy.  The context is not looked at. *)
runStart == ~WinSSHProxy /\ StartNext

(* An address cannot be listened on, a URL cannot be parsed. *)
runFails ==
  /\ ~WinSSHProxy
  /\ run = "running"
  /\ started < Len(services)
  /\ services[started + 1] \notin {"debug", "stdio", "forward"}
  /\ run' = "done"
  /\ Returns(TRUE)
  /\ UNCHANGED <<process, started, listener, file, closer, server, guests>>

(* Mutant of setupProxies: a URL that cannot be parsed is skipped. *)
setupProxiesSkips ==
  /\ WinSSHProxy
  /\ \/ StartNext
     \/ /\ run = "running"
        /\ started < Len(services)
        /\ started' = started + 1
        /\ UNCHANGED <<process, ctxDone, failed, run, listener, file, closer, server, guests>>

(* The proxies of win-sshproxy.  The error of a URL that cannot be parsed  *)
(* is dropped by the caller: what has been started is served.              *)
setupProxies ==
  /\ WinSSHProxy
  /\ \/ StartNext
     \/ /\ run = "running"
        /\ started < Len(services)
        /\ run' = "done"
        /\ UNCHANGED <<process, ctxDone, failed, started, listener, file, closer, server, guests>>

runReturns ==
  /\ run = "running"
  /\ started = Len(services)
  /\ run' = "done"
  /\ UNCHANGED <<process, ctxDone, failed, started, listener, file, closer, server, guests>>

-----------------------------------------------------------------------------
(* The goroutines that close a listener when the context ends. *)

(* Mutant of Close: the listener of qemu is not closed. *)
CloseNotQemu(i) ==
  /\ closer[i] = "wait"
  /\ ctxDone
  /\ closer' = [closer EXCEPT ![i] = "done"]
  /\ listener' = [listener EXCEPT ![i] = IF services[i] = "qemu" THEN @ ELSE "closed"]
  /\ file' = [file EXCEPT ![i] = services[i] = "vfkit"]
  /\ Returns(services[i] \in {"qemu", "vfkit"})
  /\ UNCHANGED <<process, run, started, server, guests>>

(* Closing a unix listener removes its file; closing a unixgram socket     *)
(* does not.  The os.Remove behind it is given the flag's URL, finds no    *)
(* such file and makes the goroutine return an error.                      *)
Close(i) ==
  /\ closer[i] = "wait"
  /\ ctxDone
  /\ closer' = [closer EXCEPT ![i] = "done"]
  /\ listener' = [listener EXCEPT ![i] = "closed"]
  /\ file' = [file EXCEPT ![i] = services[i] = "vfkit"]
  /\ Returns(services[i] \in {"qemu", "vfkit"})
  /\ UNCHANGED <<process, run, started, server, guests>>

-----------------------------------------------------------------------------
(* The serving goroutines. *)

Goto(i, step) == server' = [server EXCEPT ![i] = step]

others == <<process, run, started, listener, closer, guests>>

(* Steps that leave everything but server[i] alone. *)
Step(i, step) == Goto(i, step) /\ UNCHANGED <<others, ctxDone, failed, file>>
Return(i, err) == Goto(i, "done") /\ Returns(err) /\ UNCHANGED <<others, file>>

(* httpServe: Serve returns an error once the listener is closed. *)
httpServe(i) ==
  /\ server[i] = "serve"
  /\ listener[i] = "closed"
  /\ Return(i, TRUE)

debugLog(i) ==
  /\ server[i] = "sleep"
  /\ ctxDone
  /\ Return(i, FALSE)

(* vpnkit: the context is looked at before each Accept; nobody closes the  *)
(* listener.                                                               *)
vpnkitLoop(i) ==
  /\ server[i] = "check"
  /\ IF ctxDone THEN Return(i, FALSE) ELSE Step(i, "vpnAccept")

(* A guest, or an error of Accept, which is logged; the loop goes on. *)
vpnkitAccept(i) ==
  /\ server[i] = "vpnAccept"
  /\ \/ guests < MaxGuests /\ guests' = guests + 1
     \/ UNCHANGED guests
  /\ Goto(i, "check")
  /\ UNCHANGED <<process, run, started, listener, closer, ctxDone, failed, file>>

(* Mutant of AcceptVpnKit: the group is told twice that it is done. *)
AcceptVpnKitTwice ==
  /\ guests > 0
  /\ guests' = guests - 2
  /\ UNCHANGED <<process, ctxDone, failed, run, started, listener, file, closer, server>>

(* AcceptVpnKit returns nil when its guest is gone, and only then. *)
AcceptVpnKit ==
  /\ guests > 0
  /\ guests' = guests - 1
  /\ UNCHANGED <<process, ctxDone, failed, run, started, listener, file, closer, server>>

(* qemu, bess and vfkit: the one guest connects, or the listener is closed *)
(* (or the magic is wrong, vfkit).                                         *)
accept(i) ==
  /\ server[i] = "accept"
  /\ \/ listener[i] = "open" /\ Step(i, "rx")
     \/ listener[i] = "closed" /\ Return(i, TRUE)
     \/ services[i] = "vfkit" /\ Return(i, TRUE)

(* The receive loop of the switch looks at the context before each read.   *)
rx(i) ==
  /\ server[i] = "rx"
  /\ IF ctxDone THEN Return(i, FALSE) ELSE Step(i, "read")

(* A frame, or the end of the guest.  The socket of vfkit is the one that  *)
(* is closed on cancellation; the accepted connection of qemu is not.      *)
Frame(i) ==
  /\ server[i] = "read"
  /\ services[i] = "vfkit" => listener[i] = "open"
  /\ Step(i, "process")

(* rxBuf returns, when the frame has been written to the other guests. *)
rxBuf(i) ==
  /\ server[i] = "process"
  /\ Step(i, "rx")

GuestLeaves(i) ==
  /\ server[i] = "read"
  /\ Return(i, TRUE)

readClosed(i) ==
  /\ server[i] = "read"
  /\ services[i] = "vfkit"
  /\ listener[i] = "closed"
  /\ Return(i, TRUE)

-----------------------------------------------------------------------------
(* The forwards: CreateSSHForward, then AcceptAndTunnel again and again.   *)

(* Mutant of forwardReturn: the deferred os.Remove is left out. *)
forwardReturnKeepsFile(i, err) ==
  /\ Goto(i, "done")
  /\ Returns(err)
  /\ UNCHANGED <<others, file>>

(* The deferred os.Remove: a URL names no file, and win-sshproxy has none. *)
forwardReturn(i, err) ==
  /\ Goto(i, "done")
  /\ Returns(err)
  /\ file' = [file EXCEPT ![i] = @ /\ services[i] # "forward"]
  /\ UNCHANGED others

listenUnix(i) ==
  /\ server[i] = "listen"
  /\ \/ /\ listener' = [listener EXCEPT ![i] = "open"]
        /\ file' = [file EXCEPT ![i] = TRUE]
        /\ Goto(i, "connect")
        /\ UNCHANGED <<process, run, started, closer, guests, ctxDone, failed>>
     \/ forwardReturn(i, TRUE)

(* initialConnection gives up after 60 attempts, or when the context ends; *)
(* cancelled before its first attempt, it still makes one.  On failure the *)
(* listener stays open.                                                    *)
initialConnection(i) ==
  /\ server[i] = "connect"
  /\ Step(i, "handshake") \/ forwardReturn(i, TRUE)

(* CreateBastion: the SSH handshake has no time limit.  The goroutine that *)
(* closes the forward is started behind it.                                *)
CreateBastion(i) ==
  /\ server[i] = "handshake"
  /\ \/ /\ closer' = [closer EXCEPT ![i] = "wait"]
        /\ Goto(i, "loop")
        /\ UNCHANGED <<process, run, started, listener, guests, ctxDone, failed, file>>
     \/ forwardReturn(i, TRUE)

forwardLoop(i) ==
  /\ server[i] = "loop"
  /\ IF ctxDone THEN forwardReturn(i, FALSE) ELSE Step(i, "acceptUnix")

acceptConnection(i) ==
  /\ server[i] = "acceptUnix"
  /\ \/ listener[i] = "open" /\ Step(i, "tunnel")
     \/ listener[i] = "closed" /\ Step(i, "loop")

(* connectForward: a channel of the SSH connection is opened, or fails, at *)
(* the latest when the closer has closed the connection; a connection that *)
(* is lost is made again, with another handshake.  A connection made again *)
(* behind the closer is closed by nobody.                                  *)
connectForward(i) ==
  \/ server[i] = "tunnel" /\ (Step(i, "loop") \/ (~ctxDone /\ Step(i, "rehandshake")))
  \/ /\ server[i] = "rehandshake"
     /\ Step(i, "loop") \/ Step(i, IF closer[i] = "done" THEN "unclosed" ELSE "tunnel")
  \/ server[i] = "unclosed" /\ Step(i, "loop")

-----------------------------------------------------------------------------
Serve(i) ==
  \/ Close(i)
  \/ httpServe(i)
  \/ debugLog(i)
  \/ vpnkitLoop(i)
  \/ vpnkitAccept(i)
  \/ accept(i)
  \/ rx(i)
  \/ Frame(i)
  \/ rxBuf(i)
  \/ GuestLeaves(i)
  \/ readClosed(i)
  \/ listenUnix(i)
  \/ initialConnection(i)
  \/ CreateBastion(i)
  \/ forwardLoop(i)
  \/ acceptConnection(i)
  \/ connectForward(i)

Running ==
  \/ Signal
  \/ Catch
  \/ CatchQuit
  \/ mainWait
  \/ mainExit
  \/ runNew
  \/ runStart
  \/ runFails
  \/ setupProxies
  \/ runReturns
  \/ AcceptVpnKit
  \/ \E i \in Services : Serve(i)

(* Nothing runs once the process has exited. *)
Exited == main = "exited" /\ UNCHANGED vars

Next == (main # "exited" /\ Running) \/ Exited

Spec == Init /\ [][Next]_vars

(***************************************************************************)
(* Fairness.  Goroutines run, closed sockets fail their readers, dialling  *)
(* is limited by its timeouts.  No peer has to connect, to send, to read,  *)
(* to answer a handshake or to leave, and nobody has to send a signal.     *)
(***************************************************************************)
Fairness ==
  /\ WF_vars(Catch \/ CatchQuit)
  /\ WF_vars(mainWait)
  /\ WF_vars(mainExit)
  /\ WF_vars(runNew \/ runStart \/ runFails \/ setupProxies \/ runReturns)
  /\ \A i \in UNION {DOMAIN c : c \in Configurations} :
       /\ WF_vars(i \in Services /\ main # "exited" /\ Close(i))
       /\ WF_vars(i \in Services /\ main # "exited" /\
                    \/ httpServe(i)
                    \/ debugLog(i)
                    \/ vpnkitLoop(i)
                    \/ listener[i] = "closed" /\ (accept(i) \/ readClosed(i))
                    \/ rx(i)
                    \/ listenUnix(i)
                    \/ initialConnection(i)
                    \/ forwardLoop(i)
                    \/ listener[i] = "closed" /\ acceptConnection(i)
                    \/ closer[i] = "done" /\ server[i] = "tunnel" /\ connectForward(i))

FairSpec == Spec /\ Fairness

-----------------------------------------------------------------------------
(* Properties. *)

GuestSteps   == {"accept", "rx", "read", "process"}
ForwardSteps == {"listen", "connect", "handshake", "loop", "acceptUnix", "tunnel",
                 "rehandshake", "unclosed"}

(* Type invariant of the process and its goroutines. *)
TypeOK ==
  /\ services \in Configurations
  /\ main \in {"wait", "return", "exited"}
  /\ pidFile \in BOOLEAN
  /\ ctxDone \in BOOLEAN
  /\ failed \in BOOLEAN
  /\ signalled \in BOOLEAN
  /\ catcher \in {"wait", "done"}
  /\ run \in {"new", "running", "done"}
  /\ started \in 0 .. Len(services)
  /\ listener \in [Services -> {"none", "open", "closed"}]
  /\ file \in [Services -> BOOLEAN]
  /\ closer \in [Services -> {"none", "wait", "done"}]
  /\ server \in [Services -> {"none", "serve", "sleep", "check", "vpnAccept", "done"}
                              \cup GuestSteps \cup ForwardSteps]
  /\ guests \in Nat

(***************************************************************************)
(* A process that has exited leaves no pid file and no socket file behind, *)
(* whichever goroutine failed first and however far run had come, except   *)
(* for the sockets of vpnkit, which nobody closes, of vfkit, which closing *)
(* does not remove, and of forwards given as URLs, which may be cut off    *)
(* before their closer has run.  win-sshproxy leaves its thread id file,   *)
(* and its sockets where their closer was cut off.                         *)
(***************************************************************************)
ExitCleansUp ==
  main = "exited" =>
    /\ ~pidFile \/ WinSSHProxy
    /\ \A i \in Services :
         file[i] => services[i] \in {"vpnkit", "vfkit", "forwardURL", "proxy"}

(***************************************************************************)
(* Wait returns once: when main has left it, no goroutine of the group is  *)
(* running, and none is started any more (errgroup's Go must not be called *)
(* then), although run and the vpnkit loop add goroutines at any time.     *)
(***************************************************************************)
GroupEndsForGood == main # "wait" => GroupDone

(***************************************************************************)
(* Neither program ends by itself: Wait returns only behind a signal or an *)
(* error, whatever the guests and the SSH servers do and however many      *)
(* services have ended.  The exception is a win-sshproxy whose first proxy *)
(* cannot be set up: nobody looks at the error, the group is empty, and it *)
(* exits as if it had been told to.                                        *)
(***************************************************************************)
WaitEndsOnCancel == main # "wait" => ctxDone \/ (WinSSHProxy /\ started = 0)

(* A guest is connected or does not read, or an SSH server has the next word. *)
PeerConnected ==
  \/ guests > 0
  \/ \E i \in Services :
       \/ server[i] = "read" /\ services[i] # "vfkit"
       \/ server[i] = "process"
       \/ server[i] \in {"handshake", "rehandshake", "unclosed"}

(***************************************************************************)
(* Once the context has ended, by a signal or by the failure of any part,  *)
(* the process exits, unless a peer that is still connected, or the accept *)
(* loop of vpnkit, keeps it.                                               *)
(***************************************************************************)
ShutdownCompletes ==
  ctxDone ~> (\/ main = "exited"
              \/ PeerConnected
              \/ \E i \in Services : server[i] = "vpnAccept")

(***************************************************************************)
(* "Catch signals so exits are graceful and defers can run": a signal ends *)
(* the process when no peer is connected.  It does not hold of the code    *)
(* with listen-vpnkit: nobody closes that listener, and its Accept waits   *)
(* for one more guest.                                                     *)
(***************************************************************************)
SignalEndsProcess ==
  signalled ~> (main = "exited" \/ PeerConnected)
=============================================================================
