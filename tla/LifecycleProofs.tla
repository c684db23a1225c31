-------------------------- MODULE LifecycleProofs --------------------------
(***************************************************************************)
(* Proofs about Lifecycle, for every set of command lines of gvproxy and   *)
(* of win-sshproxy and any number of guests.                               *)
(***************************************************************************)
EXTENDS Lifecycle, TLAPS

(* A goroutine of service i is where its kind lets it be. *)
StepsFit ==
  \A i \in Services :
    server[i] \notin {"none", "done"} => (server[i] \in ForwardSteps <=> services[i] \in Forwards)

(* A socket file that has to go is still somebody's duty: the closer's, or *)
(* that of the deferred os.Remove of a forward.                            *)
FilesOwned ==
  \A i \in Services :
    /\ file[i] /\ services[i] \in {"http", "qemu"} => closer[i] = "wait"
    /\ file[i] /\ services[i] = "forward" => server[i] \notin {"none", "done"}
    /\ services[i] \in {"debug", "stdio"} => ~file[i]

PidFileGone == main = "exited" => ~pidFile \/ WinSSHProxy

IInv == TypeOK /\ StepsFit /\ FilesOwned /\ PidFileGone /\ GroupEndsForGood

-----------------------------------------------------------------------------
(* The type invariant. *)

(* A command line is a finite sequence of kinds. *)
LEMMA ConfigurationIsSeq ==
  ASSUME NEW c \in Configurations
  PROVE  /\ Len(c) \in Nat
         /\ DOMAIN c = 1 .. Len(c)
         /\ \A i \in DOMAIN c : c[i] \in Kinds
<1>1. c \in Seq(Kinds)
  BY LifecycleAssumption
<1> QED
  BY <1>1

(* The initial states are of the type. *)
LEMMA TypeInit == Init => TypeOK
<1> SUFFICES ASSUME Init PROVE TypeOK
  OBVIOUS
<1>1. services \in Configurations
  BY DEF Init
<1>2. Len(services) \in Nat
  BY <1>1, ConfigurationIsSeq
<1>3. started \in 0 .. Len(services) /\ guests \in Nat
  BY <1>2 DEF Init
<1> QED
  BY <1>1, <1>3 DEF Init, TypeOK, Services, GuestSteps, ForwardSteps

(* Every step preserves the type. *)
LEMMA TypeStep == TypeOK /\ [Next]_vars => TypeOK'
<1> SUFFICES ASSUME TypeOK, [Next]_vars PROVE TypeOK'
  OBVIOUS
<1> USE DEF TypeOK, Services, GuestSteps, ForwardSteps
<1>0. /\ Len(services) \in Nat
      /\ Services = 1 .. Len(services)
      /\ \A i \in Services : services[i] \in Kinds
  BY ConfigurationIsSeq
<1>1. CASE Signal
  BY <1>1 DEF Signal
<1>2. CASE Catch \/ CatchQuit
  BY <1>2 DEF Catch, CatchQuit, Returns
<1>3. CASE mainWait
  BY <1>3 DEF mainWait
<1>4. CASE mainExit
  BY <1>4 DEF mainExit, WinSSHProxy
<1>5. CASE StartNext
  <2> DEFINE j == started + 1
  <2>0. started \in 0 .. Len(services) /\ started < Len(services) /\ started' = j
    BY <1>5 DEF StartNext
  <2>1. j \in Services /\ started' = j /\ services[j] \in Kinds
    <3> HIDE DEF TypeOK, Services
    <3> QED
      BY <2>0, <1>0
  <2>2. FirstStep[services[j]] \in {"serve", "sleep", "check", "accept", "rx", "listen"}
    BY <2>1 DEF FirstStep, Kinds
  <2>3. HasListener(services[j]) \in BOOLEAN
    BY DEF HasListener
  <2> QED
    BY <1>5, <2>1, <2>2, <2>3, Zenon, SMT DEF StartNext, process
<1>6. CASE runNew \/ runFails \/ (setupProxies /\ ~StartNext)
  BY <1>6 DEF runNew, runFails, setupProxies, Returns, WinSSHProxy, process
<1>7. CASE runReturns
  BY <1>7 DEF runReturns, process
<1>8. CASE AcceptVpnKit
  BY <1>8 DEF AcceptVpnKit, process
<1>9. ASSUME NEW i \in Services, Serve(i) PROVE TypeOK'
  <2> USE DEF process, others, Goto, Step, Return, Returns
  <2>1. CASE Close(i)
    BY <2>1 DEF Close
  <2>2. CASE httpServe(i)
    BY <2>2 DEF httpServe
  <2>3. CASE debugLog(i)
    BY <2>3 DEF debugLog
  <2>4. CASE vpnkitLoop(i)
    BY <2>4 DEF vpnkitLoop
  <2>5. CASE vpnkitAccept(i)
    BY <2>5, LifecycleAssumption DEF vpnkitAccept
  <2>6. CASE accept(i)
    BY <2>6 DEF accept
  <2>7. CASE rx(i)
    BY <2>7 DEF rx
  <2>8. CASE Frame(i) \/ rxBuf(i)
    BY <2>8 DEF Frame, rxBuf
  <2>9. CASE GuestLeaves(i)
    BY <2>9 DEF GuestLeaves
  <2>10. CASE readClosed(i)
    BY <2>10 DEF readClosed
  <2>11. CASE listenUnix(i)
    BY <2>11 DEF listenUnix, forwardReturn
  <2>12. CASE initialConnection(i)
    BY <2>12 DEF initialConnection, forwardReturn
  <2>13. CASE CreateBastion(i)
    <3> HIDE DEF GuestSteps
    <3> QED
      BY <2>13 DEF CreateBastion, forwardReturn
  <2>14. CASE forwardLoop(i)
    BY <2>14 DEF forwardLoop, forwardReturn
  <2>15. CASE acceptConnection(i)
    BY <2>15 DEF acceptConnection
  <2>16. CASE connectForward(i)
    BY <2>16 DEF connectForward
  <2> QED
    BY <1>9, <2>1, <2>2, <2>3, <2>4, <2>5, <2>6, <2>7, <2>8, <2>9, <2>10, <2>11,
       <2>12, <2>13, <2>14, <2>15, <2>16 DEF Serve
<1>10. CASE UNCHANGED vars
  BY <1>10 DEF vars, process
<1> QED
  BY <1>1, <1>2, <1>3, <1>4, <1>5, <1>6, <1>7, <1>8, <1>9, <1>10 DEF Next, Running, Exited, runStart, setupProxies

(* The process and its goroutines stay in the states the code gives them.  *)
THEOREM TypeCorrect == Spec => []TypeOK
  BY TypeInit, TypeStep, PTL DEF Spec

-----------------------------------------------------------------------------
(* What the group and the deferred functions leave behind. *)

(* The initial states satisfy the invariant. *)
LEMMA InitIInv == Init => IInv
  BY TypeInit DEF Init, IInv, StepsFit, FilesOwned, PidFileGone, GroupEndsForGood, GroupDone, Services

(* The goroutines of a service preserve the invariant: nobody moves once   *)
(* main has left the group, but the closer of a forward.                   *)
LEMMA ServeStep ==
  ASSUME IInv, TypeOK', NEW i \in Services, Serve(i)
  PROVE  IInv'
<1> USE DEF process, others, Goto, Step, Return, Returns, forwardReturn, Services, WinSSHProxy
<1>1. CASE Close(i)
  <2>1. StepsFit' /\ PidFileGone'
    BY <1>1 DEF Close, IInv, StepsFit, PidFileGone
  <2>2. FilesOwned'
    BY <1>1 DEF Close, IInv, TypeOK, FilesOwned
  <2>3. GroupEndsForGood'
    BY <1>1 DEF Close, IInv, TypeOK, GroupEndsForGood, GroupDone
  <2> QED
    BY <2>1, <2>2, <2>3 DEF IInv
<1>2. CASE ~Close(i)
  <2>1. main = "wait" /\ UNCHANGED <<services, main, pidFile>>
    BY <1>2 DEF Serve, IInv, GroupEndsForGood, GroupDone, httpServe, debugLog, vpnkitLoop,
       vpnkitAccept, accept, rx, Frame, rxBuf, GuestLeaves, readClosed, listenUnix, initialConnection,
       CreateBastion, forwardLoop, acceptConnection, connectForward
  <2>2. PidFileGone' /\ GroupEndsForGood'
    BY <2>1 DEF PidFileGone, GroupEndsForGood
  <2>3. CASE server[i] \notin ForwardSteps
    <3>1. /\ UNCHANGED <<file, closer>>
          /\ server[i] \notin {"none", "done"}
          /\ \E step \in {"done", "check", "vpnAccept", "rx", "read", "process"} :
               server' = [server EXCEPT ![i] = step]
      BY <1>2, <2>3 DEF Serve, ForwardSteps, httpServe, debugLog, vpnkitLoop,
         vpnkitAccept, accept, rx, Frame, rxBuf, GuestLeaves, readClosed, listenUnix, initialConnection,
         CreateBastion, forwardLoop, acceptConnection, connectForward
    <3>2. StepsFit'
      BY <2>1, <2>3, <3>1 DEF IInv, TypeOK, StepsFit, ForwardSteps
    <3>3. FilesOwned'
      BY <2>1, <2>3, <3>1 DEF IInv, TypeOK, StepsFit, FilesOwned, Forwards
    <3> QED
      BY <2>2, <3>2, <3>3 DEF IInv
  <2>4. CASE server[i] \in ForwardSteps
    <3>1. services[i] \in Forwards
      BY <2>4 DEF IInv, StepsFit, ForwardSteps
    <3>2. /\ \E step \in ForwardSteps \cup {"done"} : server' = [server EXCEPT ![i] = step]
          /\ \A j \in Services \ {i} : file'[j] = file[j] /\ closer'[j] = closer[j]
          /\ server'[i] = "done" => ~file'[i] \/ services[i] # "forward"
      BY <1>2, <2>4, <3>1 DEF IInv, TypeOK, Serve, Forwards, ForwardSteps, httpServe, debugLog,
         vpnkitLoop, vpnkitAccept, accept, rx, Frame, rxBuf, GuestLeaves, readClosed, listenUnix,
         initialConnection, CreateBastion, forwardLoop, acceptConnection, connectForward
    <3>3. StepsFit'
      BY <2>1, <3>1, <3>2 DEF IInv, TypeOK, StepsFit
    <3>4. FilesOwned'
      BY <2>1, <3>1, <3>2 DEF IInv, TypeOK, FilesOwned, Forwards, ForwardSteps
    <3> QED
      BY <2>2, <3>3, <3>4 DEF IInv
  <2> QED
    BY <2>3, <2>4
<1> QED
  BY <1>1, <1>2

(* Every step preserves the invariant. *)
LEMMA NextIInv == IInv /\ [Next]_vars => IInv'
<1> SUFFICES ASSUME IInv, [Next]_vars PROVE IInv'
  OBVIOUS
<1> USE DEF Services, WinSSHProxy
<1>0. TypeOK'
  BY TypeStep DEF IInv
<1>1. CASE Signal
  BY <1>0, <1>1 DEF Signal, IInv, StepsFit, FilesOwned, PidFileGone, GroupEndsForGood, GroupDone
<1>2. CASE Catch \/ CatchQuit
  BY <1>0, <1>2 DEF Catch, CatchQuit, Returns, IInv, StepsFit, FilesOwned, PidFileGone, GroupEndsForGood,
     GroupDone
<1>3. CASE mainWait
  BY <1>0, <1>3 DEF mainWait, IInv, StepsFit, FilesOwned, PidFileGone, GroupEndsForGood, GroupDone
<1>4. CASE mainExit
  BY <1>0, <1>4 DEF mainExit, IInv, StepsFit, FilesOwned, PidFileGone, GroupEndsForGood, GroupDone
<1>5. CASE StartNext
  <2> DEFINE j == started + 1
  <2>0. /\ Len(services) \in Nat
        /\ Services = 1 .. Len(services)
        /\ \A i \in Services : services[i] \in Kinds
    BY ConfigurationIsSeq DEF IInv, TypeOK
  <2>1. j \in Services /\ services[j] \in Kinds
    BY <1>5, <2>0 DEF StartNext, IInv, TypeOK
  <2>2. main = "wait" /\ UNCHANGED <<services, main, pidFile>>
    BY <1>5 DEF StartNext, process, IInv, GroupEndsForGood, GroupDone
  <2>3. StepsFit'
    BY <1>5, <2>1, <2>2 DEF StartNext, IInv, TypeOK, StepsFit, FirstStep, Kinds, Forwards, ForwardSteps
  <2>4. FilesOwned'
    BY <1>5, <2>1, <2>2 DEF StartNext, IInv, TypeOK, FilesOwned, HasListener, HasCloser, FirstStep, Kinds
  <2>5. PidFileGone' /\ GroupEndsForGood'
    BY <2>2 DEF PidFileGone, GroupEndsForGood
  <2> QED
    BY <1>0, <2>3, <2>4, <2>5 DEF IInv
<1>6. CASE runNew \/ runFails \/ (setupProxies /\ ~StartNext)
  BY <1>0, <1>6 DEF runNew, runFails, setupProxies, Returns, process, IInv, StepsFit, FilesOwned, PidFileGone,
     GroupEndsForGood, GroupDone
<1>7. CASE runReturns
  BY <1>0, <1>7 DEF runReturns, process, IInv, StepsFit, FilesOwned, PidFileGone,
     GroupEndsForGood, GroupDone
<1>8. CASE AcceptVpnKit
  BY <1>0, <1>8 DEF AcceptVpnKit, process, IInv, StepsFit, FilesOwned, PidFileGone,
     GroupEndsForGood, GroupDone
<1>9. ASSUME NEW i \in Services, Serve(i) PROVE IInv'
  BY <1>0, <1>9, ServeStep
<1>10. CASE UNCHANGED vars
  BY <1>0, <1>10 DEF vars, process, IInv, StepsFit, FilesOwned, PidFileGone, GroupEndsForGood,
     GroupDone
<1> QED
  BY <1>1, <1>2, <1>3, <1>4, <1>5, <1>6, <1>7, <1>8, <1>9, <1>10 DEF Next, Running, Exited, runStart, setupProxies

(* The invariant holds in every reachable state. *)
LEMMA Invariance == Spec => []IInv
  BY InitIInv, NextIInv, PTL DEF Spec

(* main leaves groupErrs.Wait for good: no goroutine of the group is       *)
(* running or is started behind it.                                        *)
THEOREM GroupCorrect == Spec => []GroupEndsForGood
  BY Invariance, PTL DEF IInv

(* An exited process has removed its pid file and the socket files of its  *)
(* http, qemu, bess and path forward listeners.                            *)
THEOREM CleanExit == Spec => []ExitCleansUp
<1>1. IInv => ExitCleansUp
  <2> SUFFICES ASSUME IInv, main = "exited", NEW i \in Services, file[i],
                      services[i] \notin {"vpnkit", "vfkit", "forwardURL", "proxy"}
               PROVE  FALSE
    BY DEF IInv, ExitCleansUp, PidFileGone
  <2>1. services[i] \in {"http", "qemu", "forward", "debug", "stdio"}
    BY ConfigurationIsSeq DEF IInv, TypeOK, Services, Kinds
  <2>2. GroupDone
    BY DEF IInv, GroupEndsForGood
  <2> QED
    BY <2>1, <2>2 DEF IInv, FilesOwned, GroupDone, Forwards
<1> QED
  BY <1>1, Invariance, PTL

-----------------------------------------------------------------------------
(* Nobody leaves the group before the context ends. *)

(* A catcher that has ended has cancelled, or has seen the context end. *)
CaughtIsDone == catcher = "done" => ctxDone

(* A proxy that was started and has ended has seen the context end, or has *)
(* ended it with its error.                                                *)
ProxiesEndOnCancel ==
  \A i \in Services :
    services[i] = "proxy" /\ i <= started /\ server[i] \in {"none", "done"} => ctxDone

EndInv == IInv /\ CaughtIsDone /\ ProxiesEndOnCancel

(* Every step preserves the invariant: once cancelled, the context stays   *)
(* so, and a goroutine that ends before has an error to return.            *)
LEMMA NextEndInv == EndInv /\ [Next]_vars => EndInv'
<1> SUFFICES ASSUME EndInv, [Next]_vars PROVE EndInv'
  OBVIOUS
<1> USE DEF Services
<1>0. IInv'
  BY NextIInv DEF EndInv
<1>1. ctxDone => ctxDone'
  <2> USE DEF process, others, Goto, Step, Return, Returns, forwardReturn
  <2>1. ASSUME NEW i \in Services, Serve(i) PROVE ctxDone => ctxDone'
    BY <2>1 DEF Serve, Close, httpServe, debugLog, vpnkitLoop, vpnkitAccept, accept, rx, Frame, rxBuf,
       GuestLeaves, readClosed, listenUnix, initialConnection, CreateBastion, forwardLoop,
       acceptConnection, connectForward
  <2> QED
    BY <2>1 DEF Next, Running, Exited, vars, Signal, Catch, CatchQuit, mainWait, mainExit, runNew,
       StartNext, runStart, runFails, setupProxies, runReturns, AcceptVpnKit
<1>2. CASE ctxDone
  BY <1>0, <1>1, <1>2 DEF EndInv, CaughtIsDone, ProxiesEndOnCancel
<1>3. CASE ~ctxDone /\ \E i \in Services : Serve(i)
  <2>1. PICK i \in Services : Serve(i)
    BY <1>3
  <2>2. /\ UNCHANGED <<services, started, catcher>>
        /\ \A j \in Services \ {i} : server'[j] = server[j]
        /\ server'[i] \in {"none", "done"} => services[i] # "proxy" \/ ctxDone'
    <3> USE DEF process, others, Goto, Step, Return, Returns, forwardReturn, EndInv, IInv, TypeOK
    <3>1. ~Close(i)
      BY <1>3 DEF Close
    <3>2. CASE server[i] \in ForwardSteps
      BY <1>3, <2>1, <3>1, <3>2 DEF Serve, ForwardSteps, httpServe, debugLog, vpnkitLoop,
         vpnkitAccept, accept, rx, Frame, rxBuf, GuestLeaves, readClosed, listenUnix, initialConnection,
         CreateBastion, forwardLoop, acceptConnection, connectForward
    <3>3. CASE server[i] \notin ForwardSteps
      <4>1. server[i] \notin {"none", "done"} /\ UNCHANGED <<services, started, catcher>>
            /\ \A j \in Services \ {i} : server'[j] = server[j]
        BY <2>1, <3>1, <3>3 DEF Serve, ForwardSteps, httpServe, debugLog, vpnkitLoop,
           vpnkitAccept, accept, rx, Frame, rxBuf, GuestLeaves, readClosed, listenUnix,
           initialConnection, CreateBastion, forwardLoop, acceptConnection, connectForward
      <4> QED
        BY <3>3, <4>1 DEF StepsFit, Forwards
    <3> QED
      BY <3>2, <3>3
  <2> QED
    BY <1>0, <1>3, <2>2 DEF EndInv, CaughtIsDone, ProxiesEndOnCancel
<1>4. CASE ~ctxDone /\ StartNext
  <2>0. /\ Len(services) \in Nat
        /\ Services = 1 .. Len(services)
        /\ \A i \in Services : services[i] \in Kinds
    BY ConfigurationIsSeq DEF EndInv, IInv, TypeOK
  <2>1. started + 1 \in Services /\ services[started + 1] \in Kinds
    BY <1>4, <2>0 DEF StartNext, EndInv, IInv, TypeOK
  <2>2. FirstStep[services[started + 1]] \notin {"none", "done"}
    BY <2>1 DEF FirstStep, Kinds
  <2>3. \A i \in Services : i \in Nat
    BY <2>0
  <2> QED
    BY <1>0, <1>4, <2>1, <2>2, <2>3 DEF StartNext, process, EndInv, IInv, TypeOK, CaughtIsDone,
       ProxiesEndOnCancel
<1>5. CASE ~ctxDone /\ (Catch \/ CatchQuit)
  BY <1>0, <1>5 DEF Catch, CatchQuit, Returns, EndInv, IInv, TypeOK, CaughtIsDone, ProxiesEndOnCancel
<1>6. CASE \/ Signal \/ mainWait \/ mainExit \/ runNew \/ runFails \/ runReturns \/ AcceptVpnKit
           \/ setupProxies /\ ~StartNext
  <2>1. UNCHANGED <<services, started, catcher, server>>
    BY <1>6 DEF Signal, mainWait, mainExit, runNew, runFails, setupProxies, runReturns,
       AcceptVpnKit, process
  <2> QED
    BY <1>0, <1>1, <2>1 DEF EndInv, CaughtIsDone, ProxiesEndOnCancel
<1>7. CASE UNCHANGED vars
  BY <1>0, <1>7 DEF vars, process, EndInv, CaughtIsDone, ProxiesEndOnCancel
<1> QED
  BY <1>2, <1>3, <1>4, <1>5, <1>6, <1>7 DEF Next, Running, Exited, runStart, setupProxies

(* Wait returns behind a signal or an error only, but for a win-sshproxy   *)
(* that could not set up its first proxy.                                  *)
THEOREM EndsOnCancel == Spec => []WaitEndsOnCancel
<1>1. Init => EndInv
  <2> SUFFICES ASSUME Init PROVE EndInv
    OBVIOUS
  <2>1. IInv
    BY InitIInv
  <2>2. \A i \in Services : i \in Nat \ {0}
    BY <2>1, ConfigurationIsSeq DEF IInv, TypeOK, Services
  <2> QED
    BY <2>1, <2>2 DEF Init, EndInv, CaughtIsDone, ProxiesEndOnCancel
<1>2. EndInv => WaitEndsOnCancel
  <2> SUFFICES ASSUME EndInv, main # "wait", ~ctxDone PROVE WinSSHProxy /\ started = 0
    BY DEF WaitEndsOnCancel
  <2>1. GroupDone /\ catcher # "done"
    BY DEF EndInv, IInv, GroupEndsForGood, CaughtIsDone
  <2>2. WinSSHProxy
    BY <2>1 DEF GroupDone
  <2>3. \A i \in Services : services[i] = "proxy" /\ i \in Nat
    BY <2>2, ConfigurationIsSeq, LifecycleAssumption DEF EndInv, IInv, TypeOK, Valid, WinSSHProxy, Services
  <2>4. \A i \in Services : ~(i <= started)
    BY <2>1, <2>3 DEF GroupDone, EndInv, ProxiesEndOnCancel
  <2> QED
    BY <2>2, <2>4, ConfigurationIsSeq DEF EndInv, IInv, TypeOK, Services
<1> QED
  BY <1>1, <1>2, NextEndInv, PTL DEF Spec
=============================================================================
