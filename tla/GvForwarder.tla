---------------------------- MODULE GvForwarder ----------------------------
(***************************************************************************)
(* gvforwarder, the process that connects a tap device of a Linux guest to *)
(* gvproxy (cmd/vm/main_linux.go), together with the part of gvproxy that  *)
(* it talks to: the HTTP handler of /connect, which takes the connection   *)
(* over from the HTTP server (virtualnetwork/mux.go), or the standard      *)
(* input of a gvproxy that it starts itself (net/stdio), and the receive   *)
(* and transmit side of the switch.                                        *)
(*                                                                         *)
(* A session is one call of run: it dials, opens the tap device, copies    *)
(* frames with two goroutines, beside the DHCP client, and ends with the   *)
(* first error that any of the three puts into errCh.  main then starts    *)
(* the next session, while goroutines of the last may still be running.    *)
(*                                                                         *)
(* A connection is a stream of bytes each way; a frame is a sequence of    *)
(* bytes behind a size header.  unread and untapped are the same streams   *)
(* as frames; a stream from which something else was read is garbled.      *)
(***************************************************************************)
EXTENDS Framing

CONSTANTS
  MTU,           \* the flag -mtu of gvforwarder
  HeaderBytes,   \* bytes of an Ethernet header, 14 in the code
  GuestFrames,   \* frames that tap.Read returns, as long as its buffer at most
  HostFrames,    \* frames the switch sends to this guest
  Protocols,     \* values of gvproxy's configuration.Protocol
  MaxSessions,   \* bound: successful calls of Dial
  MaxFrames      \* bound: frames sent both ways and failed reads of an open tap device, together

ASSUME GvForwarderAssumption ==
  /\ MTU \in Nat /\ MTU + HeaderBytes < SizeLimit("hyperkit")
  /\ HeaderBytes \in Nat \ {0}
  /\ GuestFrames \subseteq Seq(Bytes)
  /\ \A f \in GuestFrames : HeaderBytes <= Len(f) /\ Len(f) <= MTU + HeaderBytes
  /\ HostFrames \subseteq Seq(Bytes)
  /\ \A f \in HostFrames : HeaderBytes <= Len(f)
  /\ Protocols \subseteq StreamProtocols
  /\ MaxSessions \in Nat /\ MaxFrames \in Nat

Sessions   == 1 .. MaxSessions
Goroutines == {"tx", "rx", "dhcp"}
Request    == Base   \* the POST request: no byte of a frame

VARIABLES
  tapPreexists,  \* the flag -preexisting of gvforwarder
  scheme,    \* of the URL in its flag -url: "vsock", which stands for "unix" too, or "stdio"
  protocol,  \* what gvproxy passes to Accept: its configuration, or the default for stdio
  main,      \* "start", "dial", "tap", "wait", "sleep", "stopped", "crashed"
  session,   \* the last session that was dialled
  go,        \* go[s][g]: "none", "run", "blocked" on errCh, "done"
  errCh,     \* errCh[s]: errors in the channel of session s, of capacity one
  conn, tap, \* conn[s], tap[s]: the guest's ends: "none", "open", "closed"
  up, down,  \* up[s], down[s]: bytes on their way to gvproxy and to the guest
  host,      \* host[s]: "none", "request", "accept", "rx", "stuck", "closed"
  lost,      \* lost[s]: bytes stayed in the buffer of the HTTP server
  wedged,    \* a goroutine of the switch is dead with camLock taken
  frames,    \* frames sent and reads failed so far
  unread,    \* unread[s]: the frames of up[s]
  upGarbled, \* upGarbled[s]: the switch has read something else from up[s]
  untapped, downGarbled,  \* the same for down[s] and the tap device
  longest    \* longest[s]: the longest frame the switch has sent to session s

flags        == <<tapPreexists, scheme, protocol>>
hostStreams  == <<up, lost, unread, upGarbled>>
guestStreams == <<down, untapped, downGarbled, longest>>
streams      == <<hostStreams, guestStreams>>
process      == <<flags, main, session>>
goroutines   == <<go, errCh>>
ends         == <<conn, tap, host>>
vars         == <<process, goroutines, ends, wedged, frames, streams>>

Init ==
  /\ tapPreexists \in BOOLEAN
  /\ scheme \in {"vsock", "stdio"}
  /\ protocol \in IF scheme = "stdio" THEN {"hyperkit"} ELSE Protocols
  /\ main = "start"
  /\ session = 0
  /\ go = [s \in Sessions |-> [g \in Goroutines |-> "none"]]
  /\ errCh = [s \in Sessions |-> 0]
  /\ conn = [s \in Sessions |-> "none"]
  /\ tap = [s \in Sessions |-> "none"]
  /\ up = [s \in Sessions |-> <<>>]
  /\ down = [s \in Sessions |-> <<>>]
  /\ host = [s \in Sessions |-> "none"]
  /\ lost = [s \in Sessions |-> FALSE]
  /\ wedged = FALSE
  /\ frames = 0
  /\ unread = [s \in Sessions |-> <<>>]
  /\ upGarbled = [s \in Sessions |-> FALSE]
  /\ untapped = [s \in Sessions |-> <<>>]
  /\ downGarbled = [s \in Sessions |-> FALSE]
  /\ longest = [s \in Sessions |-> 0]

Drop(stream, n) == SubSeq(stream, n + 1, Len(stream))

-----------------------------------------------------------------------------
(* The ends of a connection.  What has not been read when an end is closed *)
(* is never read.                                                          *)

guestCloses ==
  /\ conn' = [conn EXCEPT ![session] = "closed"]
  /\ tap' = [tap EXCEPT ![session] = "closed"]
  /\ down' = [down EXCEPT ![session] = <<>>]
  /\ untapped' = [untapped EXCEPT ![session] = <<>>]
  /\ downGarbled' = [downGarbled EXCEPT ![session] = FALSE]
  /\ longest' = [longest EXCEPT ![session] = 0]

hostCloses(S) ==
  /\ host' = [s \in Sessions |-> IF s \in S THEN "closed" ELSE host[s]]
  /\ up' = [s \in Sessions |-> IF s \in S THEN <<>> ELSE up[s]]
  /\ lost' = [s \in Sessions |-> s \notin S /\ lost[s]]
  /\ unread' = [s \in Sessions |-> IF s \in S THEN <<>> ELSE unread[s]]
  /\ upGarbled' = [s \in Sessions |-> s \notin S /\ upGarbled[s]]

-----------------------------------------------------------------------------
(* main and run. *)

(* main ends at once if the guest has another network interface. *)
mainStart ==
  /\ main = "start"
  /\ main' \in {"dial", "stopped"}
  /\ UNCHANGED <<flags, session, goroutines, ends, wedged, frames, streams>>

dialled == <<flags, go, errCh, tap, wedged, frames, lost, unread, upGarbled, guestStreams>>

(* A connection by vsock or unix socket; run writes the request to it. *)
Dial ==
  /\ main = "dial"
  /\ scheme = "vsock"
  /\ session < MaxSessions
  /\ session' = session + 1
  /\ conn' = [conn EXCEPT ![session'] = "open"]
  /\ up' = [up EXCEPT ![session'] = <<Request>>]
  /\ host' = [host EXCEPT ![session'] = "request"]
  /\ main' = "tap"
  /\ UNCHANGED dialled

(* The other end of the connection is a new gvproxy process. *)
stdioDial ==
  /\ main = "dial"
  /\ scheme = "stdio"
  /\ session < MaxSessions
  /\ session' = session + 1
  /\ conn' = [conn EXCEPT ![session'] = "open"]
  /\ host' = [host EXCEPT ![session'] = "accept"]
  /\ main' = "tap"
  /\ UNCHANGED <<dialled, up>>

(* Nothing answers, or the request cannot be written. *)
DialFails ==
  /\ main = "dial"
  /\ main' = "sleep"
  /\ UNCHANGED <<dialled, session, conn, up, host>>

(* run returns: the deferred functions close the tap device and the        *)
(* connection; closing a connection over standard input kills the peer.    *)
runReturns ==
  /\ guestCloses
  /\ hostCloses(IF scheme = "stdio" THEN {session} ELSE {})
  /\ main' = "sleep"

(* Mutant of openTap: the DHCP client is started on a preconfigured        *)
(* interface too.                                                          *)
openTapAlwaysDhcp ==
  /\ main = "tap"
  /\ go' = [go EXCEPT ![session] = [g \in Goroutines |-> "run"]]
  /\ tap' = [tap EXCEPT ![session] = "open"]
  /\ main' = "wait"
  /\ UNCHANGED <<flags, session, errCh, conn, host, wedged, frames, streams>>

(* water.New and linkUp succeed and the goroutines start, or one fails. *)
openTap ==
  /\ main = "tap"
  /\ \/ /\ go' = [go EXCEPT ![session] =
              [g \in Goroutines |-> IF g = "dhcp" /\ tapPreexists THEN "done" ELSE "run"]]
        /\ tap' = [tap EXCEPT ![session] = "open"]
        /\ main' = "wait"
        /\ UNCHANGED <<conn, host, streams>>
     \/ runReturns /\ UNCHANGED go
  /\ UNCHANGED <<flags, session, errCh, wedged, frames>>

(* Mutant of receiveError: the deferred tap.Close is missing. *)
receiveErrorLeavesTap ==
  /\ main = "wait"
  /\ errCh[session] = 1
  /\ errCh' = [errCh EXCEPT ![session] = 0]
  /\ conn' = [conn EXCEPT ![session] = "closed"]
  /\ main' = "sleep"
  /\ UNCHANGED <<flags, session, go, tap, host, wedged, frames, streams>>

(* return <-errCh *)
receiveError ==
  /\ main = "wait"
  /\ errCh[session] = 1
  /\ errCh' = [errCh EXCEPT ![session] = 0]
  /\ runReturns
  /\ UNCHANGED <<flags, session, go, wedged, frames>>

Sleep ==
  /\ main = "sleep"
  /\ main' = "dial"
  /\ UNCHANGED <<flags, session, goroutines, ends, wedged, frames, streams>>

-----------------------------------------------------------------------------
(* The goroutines of a session. *)

(* errCh <- err, and return; the send blocks while the channel is full. *)
Fail(s, g) ==
  /\ errCh' = [errCh EXCEPT ![s] = 1]
  /\ go' = [go EXCEPT ![s][g] = IF errCh[s] = 0 THEN "done" ELSE "blocked"]

Unblock(s, g) ==
  /\ go[s][g] = "blocked"
  /\ errCh[s] = 0
  /\ Fail(s, g)
  /\ UNCHANGED <<process, ends, wedged, frames, streams>>

(* The DHCP client may run for ever. *)
dhcp(s) ==
  /\ go[s]["dhcp"] = "run"
  /\ \/ go' = [go EXCEPT ![s]["dhcp"] = "done"] /\ UNCHANGED errCh
     \/ Fail(s, "dhcp")
  /\ UNCHANGED <<process, ends, wedged, frames, streams>>

(* Mutant of rxBytes: the size in the header leaves the Ethernet header out. *)
rxBytesPayloadSize(f) == Write("hyperkit", Len(f) - HeaderBytes) \o f

(* What rx writes for a frame. *)
rxBytes(f) == Write("hyperkit", Len(f)) \o f

(* A frame from the tap device is written to the connection. *)
rx(s) ==
  /\ go[s]["rx"] = "run"
  /\ tap[s] = "open"
  /\ host[s] # "closed"
  /\ frames < MaxFrames
  /\ frames' = frames + 1
  /\ \E f \in GuestFrames :
       /\ up' = [up EXCEPT ![s] = @ \o rxBytes(f)]
       /\ unread' = [unread EXCEPT ![s] = Append(@, f)]
  /\ UNCHANGED <<process, goroutines, ends, wedged, lost, upGarbled, guestStreams>>

(* Reading from a closed device fails at once; writing to a connection     *)
(* that gvproxy has closed fails sooner or later, when a frame comes; and  *)
(* an open device may fail.                                                *)
rxFails(s) ==
  /\ go[s]["rx"] = "run"
  /\ \/ /\ tap[s] = "closed" \/ host[s] = "closed"
        /\ UNCHANGED frames
     \/ /\ tap[s] = "open"
        /\ frames < MaxFrames
        /\ frames' = frames + 1
  /\ Fail(s, "rx")
  /\ UNCHANGED <<process, ends, wedged, streams>>

(* Mutant of txBuf: the buffer has no room for the Ethernet header. *)
txBufWithoutHeader == MTU

(* The size of tx's buffer. *)
txBuf == MTU + HeaderBytes

(* The next frame of a stream: its header has arrived, its size, its end,  *)
(* all of it has arrived, and the frame itself.                            *)
Header(p, stream)   == Len(stream) >= Buf(p)
Size(p, stream)     == Read(p, SubSeq(stream, 1, Buf(p)))
End(p, stream)      == Buf(p) + Size(p, stream)
Complete(p, stream) == Header(p, stream) /\ Len(stream) >= End(p, stream)
Frame(p, stream)    == SubSeq(stream, Buf(p) + 1, End(p, stream))

(* The frame that is read is the first of those that were sent. *)
Matches(queue, f) == queue # <<>> /\ f = Head(queue)

(* A complete frame is written to the tap device, which takes nothing      *)
(* shorter than an Ethernet header and may fail.                           *)
tx(s) ==
  /\ go[s]["tx"] = "run"
  /\ conn[s] = "open"
  /\ Complete("hyperkit", down[s])
  /\ Size("hyperkit", down[s]) <= txBuf
  /\ \/ Size("hyperkit", down[s]) >= HeaderBytes /\ UNCHANGED <<goroutines>>
     \/ Fail(s, "tx")
  /\ down' = [down EXCEPT ![s] = Drop(@, End("hyperkit", @))]
  /\ downGarbled' = [downGarbled EXCEPT ![s] =
                       @ \/ ~Matches(untapped[s], Frame("hyperkit", down[s]))]
  /\ untapped' = [untapped EXCEPT ![s] = Drop(@, 1)]
  /\ UNCHANGED <<process, ends, wedged, frames, hostStreams, longest>>

(* buf[:size] beyond the buffer ends the whole process. *)
txPanics(s) ==
  /\ go[s]["tx"] = "run"
  /\ Header("hyperkit", down[s])
  /\ Size("hyperkit", down[s]) > txBuf
  /\ main' = "crashed"
  /\ go' = [r \in Sessions |-> [g \in Goroutines |-> "done"]]
  /\ conn' = [conn EXCEPT ![session] = "closed"]
  /\ tap' = [tap EXCEPT ![session] = "closed"]
  /\ UNCHANGED <<flags, session, errCh, host, wedged, frames, streams>>

(* ReadFull fails: the connection is closed on this side, or by gvproxy,   *)
(* which may also reset it before everything has been read.                *)
txFails(s) ==
  /\ go[s]["tx"] = "run"
  /\ conn[s] = "closed" \/ host[s] = "closed"
  /\ Fail(s, "tx")
  /\ UNCHANGED <<process, ends, wedged, frames, streams>>

-----------------------------------------------------------------------------
(* gvproxy. *)

(* The handler of /connect hijacks the connection and passes it on without *)
(* the HTTP server's reader: what that had read behind the request is      *)
(* lost.                                                                   *)
ConnectHandler(s) ==
  /\ host[s] = "request"
  /\ \E n \in 0 .. Len(up[s]) - 1 :
       /\ lost' = [lost EXCEPT ![s] = n > 0]
       /\ up' = [up EXCEPT ![s] = Drop(@, 1 + n)]
  /\ host' = [host EXCEPT ![s] = "accept"]
  /\ UNCHANGED <<process, goroutines, conn, tap, wedged, frames, unread, upGarbled, guestStreams>>

(* Accept registers the connection, under connLock. *)
Accept(s) ==
  /\ host[s] = "accept"
  /\ ~wedged
  /\ host' = [host EXCEPT ![s] = "rx"]
  /\ UNCHANGED <<process, goroutines, conn, tap, wedged, frames, streams>>

(* Mutant of rxStream: the receive loop waits for a byte too many. *)
rxStreamWaits(s) ==
  /\ host[s] = "rx"
  /\ ~wedged
  /\ Complete(protocol, up[s])
  /\ Len(up[s]) > End(protocol, up[s])
  /\ up' = [up EXCEPT ![s] = Drop(@, End(protocol, @))]
  /\ unread' = [unread EXCEPT ![s] = Drop(@, 1)]
  /\ UNCHANGED <<process, goroutines, ends, wedged, frames, lost, upGarbled, guestStreams>>

(* rxStream and rxBuf.  A frame that is too short for its addresses panics *)
(* between Lock and Unlock of camLock; the deferred disconnect then waits  *)
(* for that lock for ever, with connLock taken, and the switch is stuck.   *)
rxStream(s) ==
  /\ host[s] = "rx"
  /\ ~wedged
  /\ Complete(protocol, up[s])
  /\ wedged' = (Size(protocol, up[s]) < HeaderBytes)
  /\ host' = [host EXCEPT ![s] = IF wedged' THEN "stuck" ELSE @]
  /\ up' = [up EXCEPT ![s] = Drop(@, End(protocol, @))]
  /\ upGarbled' = [upGarbled EXCEPT ![s] =
                     @ \/ ~Matches(unread[s], Frame(protocol, up[s]))]
  /\ unread' = [unread EXCEPT ![s] = Drop(@, 1)]
  /\ UNCHANGED <<process, goroutines, conn, tap, frames, lost, guestStreams>>

(* The guest has closed or reset the connection. *)
rxEnds(s) ==
  /\ host[s] = "rx"
  /\ ~wedged
  /\ conn[s] = "closed"
  /\ hostCloses({s})
  /\ UNCHANGED <<process, goroutines, conn, tap, wedged, frames, guestStreams>>

(* Mutant of txBytes: the size is appended to the frame. *)
txBytesSizeLast(f) == f \o Write(protocol, Len(f))

(* What txBuf writes for a frame. *)
txBytes(f) == Write(protocol, Len(f)) \o f

(* txPkt and txBuf: a frame for this guest. *)
txPkt(s) ==
  /\ host[s] = "rx"
  /\ ~wedged
  /\ conn[s] = "open"
  /\ frames < MaxFrames
  /\ frames' = frames + 1
  /\ \E f \in HostFrames :
       /\ down' = [down EXCEPT ![s] = @ \o txBytes(f)]
       /\ untapped' = [untapped EXCEPT ![s] = Append(@, f)]
       /\ longest' = [longest EXCEPT ![s] = IF Len(f) > @ THEN Len(f) ELSE @]
  /\ UNCHANGED <<process, goroutines, ends, wedged, hostStreams, downGarbled>>

(* A write that fails drops the guest. *)
txBufFails(s) ==
  /\ host[s] = "rx"
  /\ ~wedged
  /\ hostCloses({s})
  /\ UNCHANGED <<process, goroutines, conn, tap, wedged, frames, guestStreams>>

(* gvproxy ends, and with it all its connections; it may be started again. *)
hostExits ==
  /\ \E s \in Sessions : host[s] \notin {"none", "closed"}
  /\ hostCloses({s \in Sessions : host[s] # "none"})
  /\ wedged' = FALSE
  /\ UNCHANGED <<process, goroutines, conn, tap, frames, guestStreams>>

-----------------------------------------------------------------------------
Guest(s) ==
  \/ \E g \in Goroutines : Unblock(s, g)
  \/ dhcp(s)
  \/ rx(s)
  \/ rxFails(s)
  \/ tx(s)
  \/ txPanics(s)
  \/ txFails(s)

Host(s) ==
  \/ ConnectHandler(s)
  \/ Accept(s)
  \/ rxStream(s)
  \/ rxEnds(s)
  \/ txPkt(s)
  \/ txBufFails(s)

Next ==
  \/ mainStart
  \/ Dial
  \/ stdioDial
  \/ DialFails
  \/ openTap
  \/ receiveError
  \/ Sleep
  \/ hostExits
  \/ \E s \in Sessions : Guest(s) \/ Host(s)

Spec == Init /\ [][Next]_vars

(***************************************************************************)
(* Fairness.  Goroutines of both processes run, and bytes that are written *)
(* arrive.  The kernel need not send, the DHCP client need not end, and    *)
(* gvproxy need not answer a call of Dial.                                 *)
(***************************************************************************)
Fairness ==
  /\ WF_vars(openTap \/ receiveError)
  /\ \A s \in Sessions :
       /\ WF_vars((tap[s] = "closed" /\ rxFails(s)) \/ Unblock(s, "rx"))
       /\ WF_vars(tx(s) \/ txPanics(s) \/ txFails(s) \/ Unblock(s, "tx"))
       /\ WF_vars(ConnectHandler(s) \/ Accept(s) \/ rxStream(s) \/ rxEnds(s))

FairSpec == Spec /\ Fairness

-----------------------------------------------------------------------------
(* Properties. *)

(* Type invariant of both processes and the streams between them. *)
TypeOK ==
  /\ tapPreexists \in BOOLEAN
  /\ scheme \in {"vsock", "stdio"}
  /\ protocol \in StreamProtocols
  /\ main \in {"start", "dial", "tap", "wait", "sleep", "stopped", "crashed"}
  /\ session \in 0 .. MaxSessions
  /\ go \in [Sessions -> [Goroutines -> {"none", "run", "blocked", "done"}]]
  /\ errCh \in [Sessions -> 0 .. 1]
  /\ conn \in [Sessions -> {"none", "open", "closed"}]
  /\ tap \in [Sessions -> {"none", "open", "closed"}]
  /\ up \in [Sessions -> Seq(Bytes \cup {Request})]
  /\ down \in [Sessions -> Seq(Bytes)]
  /\ host \in [Sessions -> {"none", "request", "accept", "rx", "stuck", "closed"}]
  /\ lost \in [Sessions -> BOOLEAN]
  /\ wedged \in BOOLEAN
  /\ frames \in 0 .. MaxFrames
  /\ unread \in [Sessions -> Seq(GuestFrames)]
  /\ untapped \in [Sessions -> Seq(HostFrames)]
  /\ upGarbled \in [Sessions -> BOOLEAN]
  /\ downGarbled \in [Sessions -> BOOLEAN]
  /\ longest \in [Sessions -> Nat]

(* run has returned: nobody receives from errCh[s] any more. *)
Over(s) == s < session \/ (s = session /\ main \in {"dial", "sleep"})

Leaked(s) == {g \in Goroutines : Over(s) /\ errCh[s] = 1 /\ go[s][g] = "blocked"}

(***************************************************************************)
(* What a session that is over leaves behind for ever: of the up to three  *)
(* goroutines that report, the first is heard, the second fits into errCh, *)
(* and only a third can stay blocked; without the DHCP client none does.   *)
(***************************************************************************)
LeakBound ==
  \A s \in Sessions :
    /\ \A g, h \in Leaked(s) : g = h
    /\ tapPreexists => Leaked(s) = {}

(***************************************************************************)
(* Frames arrive whole and in order.  The switch reads what the guest has  *)
(* sent as long as both ends use the same header and the HTTP server had   *)
(* read no byte behind the request; the tap device gets what the switch    *)
(* has sent unless one of the frames was too long for the size in the      *)
(* header.                                                                 *)
(***************************************************************************)
FramesArriveWhole ==
  \A s \in Sessions :
    /\ upGarbled[s] => protocol = "qemu" \/ lost[s]
    /\ downGarbled[s] => protocol = "qemu" \/ longest[s] >= SizeLimit("hyperkit")

(***************************************************************************)
(* Only a stream that is out of step makes a guest's frame too short and   *)
(* so blocks the switch for everybody: bytes were lost when the connection *)
(* was taken over, or the two ends use different headers.                  *)
(***************************************************************************)
WedgedOnlyOutOfStep ==
  wedged => protocol = "qemu" \/ \E s \in Sessions : host[s] = "stuck" /\ lost[s]

(***************************************************************************)
(* gvforwarder panics only if the switch has sent it a frame that exceeds  *)
(* its own MTU, or with another header.                                    *)
(***************************************************************************)
PanicsOnlyOnOversize ==
  main = "crashed" => protocol = "qemu" \/ \E s \in Sessions : longest[s] > MTU + HeaderBytes

(***************************************************************************)
(* A session whose connection gvproxy has closed ends, also when the guest *)
(* has nothing to send, and the goroutines that copied its frames do not   *)
(* stay behind in a read from its connection or its tap device.            *)
(***************************************************************************)
LossEndsSession ==
  \A s \in Sessions :
    (session = s /\ host[s] = "closed") ~>
      \/ Over(s) /\ go[s]["rx"] # "run" /\ go[s]["tx"] # "run"
      \/ main = "crashed"

(***************************************************************************)
(* What the guest has sent is read by the switch, unless the connection    *)
(* ends, its stream is out of step, or the switch is stuck.                *)
(***************************************************************************)
SentFramesArrive ==
  \A s \in Sessions :
    (protocol = "hyperkit" /\ unread[s] # <<>>) ~>
      (unread[s] = <<>> \/ lost[s] \/ wedged)
=============================================================================
