----------------------------- MODULE SrtSession -----------------------------
(***************************************************************************)
(* The SRT session (plugin/srt-session.cpp): a connector thread that       *)
(* creates a socket, connects it, watches it and starts over when it       *)
(* breaks; start() and stop() on the control thread; send_ts() on the      *)
(* output's worker thread.  The threads share the socket handle            *)
(* (socket_mutex), the status (status_mutex) and the atomics stop and      *)
(* connected_.  One action is one critical section, one access to an       *)
(* atomic, or one call of libsrt.                                          *)
(*                                                                         *)
(* libsrt is external: sockets are numbered as they are created (handles   *)
(* are not reused), and the connection behind the current one comes up     *)
(* and breaks by itself.                                                   *)
(***************************************************************************)
EXTENDS Integers

CONSTANTS
  MaxSockets,   \* bound: sockets created
  MaxSessions   \* bound: SrtSession objects, one per start of the output

ASSUME SrtSessionAssumption == MaxSockets \in Nat /\ MaxSessions \in Nat

VARIABLES
  ctl,          \* control thread: where start/wait_connected/stop is
  stop,         \* Impl::stop
  socket,       \* Impl::socket, 0 for SRT_INVALID_SOCK
  connected,    \* SrtSession::connected_
  status,       \* Impl::session_status
  engineState,  \* Engine::session_state
  pc,           \* connector thread
  after,        \* connector: where it goes on after set_status
  next,         \* connector: where it goes on after close_socket
  mine,         \* connector: local variable socket
  ever,         \* connector: ever_connected
  established,  \* libsrt: the connection of socket mine is up
  calls,        \* send_ts and sample_stats in progress, connected_ seen true
  io,           \* libsrt is inside transport_send or transport_receive
  sentOn,       \* history: socket that took the last datagram of the session
  toldFor,      \* history: socket at the last Reconnecting report
  created,      \* history: sockets created
  closed,       \* history: sockets passed to srt_close
  closedAgain,  \* history: some socket was passed to srt_close twice
  sessions,     \* history: sessions started
  opened        \* history: wait_connected has accepted the session

ctlVars  == <<ctl, stop, sessions, opened>>
sockVars == <<socket, closed, closedAgain>>
connVars == <<pc, after, next, mine, ever, created>>
repVars  == <<status, engineState, toldFor>>
sendVars == <<calls, sentOn, io>>

vars == <<ctl, stop, socket, connected, status, engineState, pc, after, next,
          mine, ever, established, calls, io, sentOn, toldFor, created, closed,
          closedAgain, sessions, opened>>

-----------------------------------------------------------------------------
Statuses == {"Idle", "Connecting", "Connected", "Reconnecting", "Fatal", "Stopped"}

Labels == {"none", "top", "resolve", "create", "publish", "check", "options",
           "attempt", "handshake", "report", "monitor", "lost", "mirror",
           "close", "wait", "ended"}

FlagTypes ==
  /\ stop \in BOOLEAN /\ connected \in BOOLEAN /\ ever \in BOOLEAN
  /\ opened \in BOOLEAN /\ established \in BOOLEAN /\ io \in BOOLEAN
  /\ closedAgain \in BOOLEAN

(* Every variable has its type, the published handle is the connector's     *)
(* own, and a send is in progress only while the output is up: the session  *)
(* is destroyed after stop(), so a later send would use freed memory.       *)
TypeOK ==
  /\ FlagTypes
  /\ ctl \in {"idle", "waiting", "up", "stop", "close", "join", "mirror"}
  /\ status \in Statuses /\ engineState \in Statuses
  /\ pc \in Labels /\ after \in Labels /\ next \in Labels
  /\ created \in Nat /\ sessions \in Nat
  /\ mine \in 0 .. created /\ socket \in {0, mine}
  /\ sentOn \in 0 .. created /\ toldFor \in 0 .. created
  /\ closed \in SUBSET (1 .. created)
  /\ calls \in SUBSET {"send", "sample"} /\ (calls # {} => ctl = "up")

Init ==
  /\ ctl = "idle" /\ stop = FALSE /\ socket = 0 /\ connected = FALSE
  /\ status = "Idle" /\ engineState = "Idle"
  /\ pc = "none" /\ after = "none" /\ next = "none" /\ mine = 0 /\ ever = FALSE
  /\ established = FALSE /\ calls = {} /\ io = FALSE /\ sentOn = 0 /\ toldFor = 0
  /\ created = 0 /\ closed = {} /\ closedAgain = FALSE /\ sessions = 0
  /\ opened = FALSE

-----------------------------------------------------------------------------
(* Mutant: srt_close does not wait for the transport callback. *)
ChannelBusy == TRUE

(* srt_close ends in CChannel::close of the libsrt fork, which waits for    *)
(* the transport callbacks in progress (at most 10 ms each).                *)
ChannelIdle == ~io

(* srt_close on a handle. *)
SrtClose(s) ==
  /\ ChannelIdle
  /\ closed' = closed \union {s}
  /\ closedAgain' = (closedAgain \/ s \in closed)

(* Mutant: close_socket does not look whether the handle is still the       *)
(* session's.                                                               *)
CloseUnclaimed(s) == socket' = 0 /\ SrtClose(s)

(* Mutant: the handle is dropped without srt_close. *)
DropHandle(s) == socket' = 0 /\ UNCHANGED <<closed, closedAgain>>

(* close_socket(session, s): claim the handle, then close it. *)
CloseSocket(s) ==
  IF s # 0 /\ socket = s
    THEN socket' = 0 /\ SrtClose(s)
    ELSE UNCHANGED sockVars

(* close_current_socket(session). *)
CloseCurrentSocket ==
  IF socket # 0
    THEN socket' = 0 /\ SrtClose(socket)
    ELSE UNCHANGED sockVars

-----------------------------------------------------------------------------
(* Control thread. *)

(* A new session; start() reports Connecting and creates the connector.     *)
Start ==
  /\ ctl = "idle" /\ sessions < MaxSessions
  /\ sessions' = sessions + 1
  /\ ctl' = "waiting"
  /\ stop' = FALSE /\ socket' = 0 /\ connected' = FALSE
  /\ status' = "Connecting" /\ engineState' = "Connecting"
  /\ pc' = "top" /\ ever' = FALSE /\ mine' = 0
  /\ sentOn' = 0 /\ toldFor' = 0
  /\ UNCHANGED <<after, next, established, calls, io, created, closed,
                 closedAgain, opened>>

(* start() rejects the settings or cannot create the thread.                *)
StartFails ==
  /\ ctl = "idle" /\ sessions < MaxSessions
  /\ sessions' = sessions + 1
  /\ ctl' = "stop"
  /\ stop' \in BOOLEAN /\ socket' = 0 /\ connected' = FALSE
  /\ status' = "Fatal" /\ engineState' = "Fatal"
  /\ UNCHANGED <<connVars, established, sendVars, toldFor, closed, closedAgain,
                 opened>>

(* wait_connected returns true, or false on Fatal or after five seconds.    *)
WaitConnected ==
  /\ ctl = "waiting"
  /\ opened' = (status = "Connected")
  /\ ctl' = IF status = "Connected" THEN "up" ELSE "stop"
  /\ UNCHANGED <<stop, sessions, sockVars, connVars, repVars, connected,
                 established, sendVars>>

(* Mutant: the session is stopped before the worker is joined. *)
WorkerNotJoined == TRUE

(* stop_abr_worker and stop_worker have joined the callers of sample_stats  *)
(* and send_ts.                                                             *)
WorkerJoined == calls = {}

(* srtla_output_stop destroys the session after stop_worker. *)
StopRequested ==
  /\ ctl = "up" /\ WorkerJoined
  /\ ctl' = "stop"
  /\ UNCHANGED <<stop, sessions, opened, sockVars, connVars, repVars, connected,
                 established, sendVars>>

StopFlag ==
  /\ ctl = "stop"
  /\ ctl' = "close"
  /\ stop' = TRUE
  /\ UNCHANGED <<sessions, opened, sockVars, connVars, repVars, connected, established,
                 sendVars>>

StopClose ==
  /\ ctl = "close"
  /\ ctl' = "join"
  /\ CloseCurrentSocket
  /\ established' = FALSE
  /\ UNCHANGED <<stop, sessions, opened, connVars, repVars, connected, sendVars>>

(* Mutant: stop() does not join the connector. *)
NotJoined == TRUE

(* connector.join() returns, or there is no thread to join. *)
Joined == pc \in {"none", "ended"}

(* stop() reports Stopped, first to the output, then to the engine.         *)
StopJoin ==
  /\ ctl = "join" /\ Joined
  /\ ctl' = "mirror"
  /\ connected' = FALSE
  /\ status' = "Stopped"
  /\ opened' = FALSE
  /\ UNCHANGED <<stop, sessions, sockVars, connVars, engineState, toldFor,
                 established, sendVars>>

StopMirror ==
  /\ ctl = "mirror"
  /\ ctl' = "idle"
  /\ engineState' = status
  /\ pc' = "none"
  /\ UNCHANGED <<stop, sessions, opened, sockVars, after, next, mine, ever, created,
                 status, toldFor, connected, established, sendVars>>

-----------------------------------------------------------------------------
(* Connector thread. *)

GoTo(l) == pc' = l /\ UNCHANGED <<after, next, mine, ever, created>>

(* set_status: the status and the callback, then (Mirror) the engine.       *)
Report(s, l) ==
  /\ status' = s
  /\ toldFor' = IF s = "Reconnecting" THEN mine ELSE toldFor
  /\ pc' = "mirror" /\ after' = l
  /\ UNCHANGED <<engineState, mine, ever, created>>

Mirror ==
  /\ pc = "mirror"
  /\ engineState' = status
  /\ GoTo(after)
  /\ UNCHANGED <<ctlVars, sockVars, status, toldFor, connected, established,
                 sendVars>>

(* Mutant: a failed attempt is reported as if it were the first one. *)
AlwaysConnecting == "Connecting"

(* What a failed attempt reports. *)
Retrying == IF ever THEN "Reconnecting" ELSE "Connecting"

(* Mutant: the loop does not look at stop. *)
LoopNeverEnds == FALSE

LoopEnds == stop

(* The head of the loop. *)
LoopTop ==
  /\ pc = "top"
  /\ GoTo(IF LoopEnds THEN "ended" ELSE "resolve")
  /\ UNCHANGED <<ctlVars, sockVars, repVars, connected, established, sendVars>>

ResolveFails ==
  /\ pc = "resolve"
  /\ \/ ever /\ Report("Reconnecting", "wait") /\ UNCHANGED next
     \/ ~ever /\ GoTo("wait") /\ UNCHANGED repVars
  /\ UNCHANGED <<ctlVars, sockVars, connected, established, sendVars>>

Resolve ==
  /\ pc = "resolve"
  /\ GoTo("create")
  /\ UNCHANGED <<ctlVars, sockVars, repVars, connected, established, sendVars>>

CreateFails ==
  /\ pc = "create"
  /\ Report("Fatal", "ended")
  /\ UNCHANGED <<ctlVars, sockVars, next, connected, established, sendVars>>

Create ==
  /\ pc = "create" /\ created < MaxSockets
  /\ created' = created + 1
  /\ mine' = created + 1
  /\ established' = FALSE
  /\ pc' = "publish"
  /\ UNCHANGED <<ctlVars, sockVars, repVars, after, next, ever, connected, sendVars>>

Publish ==
  /\ pc = "publish"
  /\ socket' = mine
  /\ GoTo("check")
  /\ UNCHANGED <<ctlVars, closed, closedAgain, repVars, connected, established,
                 sendVars>>

(* stop() may have run before the handle was published.                     *)
CheckStop ==
  /\ pc = "check"
  /\ \/ stop /\ pc' = "close" /\ next' = "ended"
     \/ ~stop /\ pc' = "options" /\ UNCHANGED next
  /\ UNCHANGED <<ctlVars, sockVars, repVars, after, mine, ever, created,
                 connected, established, sendVars>>

(* An option or the transport is refused, as it is when stop() has closed   *)
(* the socket.                                                              *)
OptionsFail ==
  /\ pc = "options"
  /\ Report("Fatal", "close") /\ next' = "ended"
  /\ UNCHANGED <<ctlVars, sockVars, connected, established, sendVars>>

Options ==
  /\ pc = "options" /\ mine \notin closed
  /\ GoTo("attempt")
  /\ UNCHANGED <<ctlVars, sockVars, repVars, connected, established, sendVars>>

(* srt_bind or srt_connect fails. *)
AttemptFails ==
  /\ pc = "attempt"
  /\ Report(Retrying, "close") /\ next' = "wait"
  /\ UNCHANGED <<ctlVars, sockVars, connected, established, sendVars>>

Attempt ==
  /\ pc = "attempt" /\ mine \notin closed
  /\ GoTo("handshake")
  /\ UNCHANGED <<ctlVars, sockVars, repVars, connected, established, sendVars>>

(* The handshake fails, takes more than five seconds or stop is requested.  *)
HandshakeFails ==
  /\ pc = "handshake"
  /\ Report(Retrying, "close") /\ next' = "top"
  /\ UNCHANGED <<ctlVars, sockVars, connected, established, sendVars>>

(* The handshake is seen complete; connected_ first, then (Connected) the   *)
(* status.                                                                  *)
Handshake ==
  /\ pc = "handshake" /\ established
  /\ connected' = TRUE
  /\ ever' = TRUE
  /\ pc' = "report"
  /\ UNCHANGED <<ctlVars, sockVars, repVars, after, next, mine, created,
                 established, sendVars>>

Connected ==
  /\ pc = "report"
  /\ Report("Connected", "monitor")
  /\ UNCHANGED <<ctlVars, sockVars, next, connected, established, sendVars>>

(* Mutant: a broken connection is not reported. *)
LostSilently == TRUE

(* stop() does not want the loss reported. *)
LossIsExpected == stop

(* The monitor loop ends: the socket broke or stop is requested.            *)
MonitorEnds ==
  /\ pc = "monitor" /\ (stop \/ ~established)
  /\ connected' = FALSE
  /\ GoTo("lost")
  /\ UNCHANGED <<ctlVars, sockVars, repVars, established, sendVars>>

Lost ==
  /\ pc = "lost"
  /\ \/ ~LossIsExpected /\ Report("Reconnecting", "close")
     \/ /\ LossIsExpected
        /\ pc' = "close"
        /\ UNCHANGED <<after, mine, ever, created, repVars>>
  /\ next' = "wait"
  /\ UNCHANGED <<ctlVars, sockVars, connected, established, sendVars>>

(* close_socket, then the back-off, the head of the loop or the end.        *)
Close ==
  /\ pc = "close"
  /\ CloseSocket(mine)
  /\ established' = FALSE
  /\ GoTo(next)
  /\ UNCHANGED <<ctlVars, repVars, connected, sendVars>>

(* The back-off of 1, 2 or 5 seconds is over, or stop cut it short.         *)
Wait ==
  /\ pc = "wait"
  /\ GoTo("top")
  /\ UNCHANGED <<ctlVars, sockVars, repVars, connected, established, sendVars>>

-----------------------------------------------------------------------------
(* libsrt: the connection comes up, or breaks. *)
Establish ==
  /\ pc = "handshake" /\ mine \notin closed /\ ~established
  /\ established' = TRUE
  /\ UNCHANGED <<ctlVars, sockVars, connVars, repVars, connected, sendVars>>

Break ==
  /\ established
  /\ established' = FALSE
  /\ UNCHANGED <<ctlVars, sockVars, connVars, repVars, connected, sendVars>>

(* libsrt's threads use the transport of an open socket: transport_send and *)
(* transport_receive find stop or the engine in Impl, and return.           *)
TransportBegin ==
  /\ ~io /\ socket = mine /\ mine # 0
  /\ pc \in {"handshake", "report", "monitor", "lost", "mirror", "close"}
  /\ io' = TRUE
  /\ UNCHANGED <<ctlVars, sockVars, connVars, repVars, connected, established,
                 calls, sentOn>>

TransportEnd ==
  /\ io
  /\ io' = FALSE
  /\ UNCHANGED <<ctlVars, sockVars, connVars, repVars, connected, established,
                 calls, sentOn>>

(* Worker threads: send_ts and sample_stats test connected_, then take the  *)
(* lock and use the handle.  libsrt may refuse the datagram even on an      *)
(* established connection.                                                  *)
CallBegin(c) ==
  /\ ctl = "up" /\ c \notin calls /\ connected
  /\ calls' = calls \union {c}
  /\ UNCHANGED <<ctlVars, sockVars, connVars, repVars, connected, established,
                 sentOn, io>>

Send ==
  /\ "send" \in calls
  /\ calls' = calls \ {"send"}
  /\ \/ socket # 0 /\ established /\ sentOn' = socket
     \/ UNCHANGED sentOn
  /\ UNCHANGED <<ctlVars, sockVars, connVars, repVars, connected, established, io>>

SampleStats ==
  /\ "sample" \in calls
  /\ calls' = calls \ {"sample"}
  /\ UNCHANGED <<ctlVars, sockVars, connVars, repVars, connected, established,
                 sentOn, io>>

-----------------------------------------------------------------------------
Control == WaitConnected \/ StopFlag \/ StopClose \/ StopJoin \/ StopMirror

Connector ==
  \/ LoopTop \/ ResolveFails \/ Resolve \/ CreateFails \/ Create \/ Publish
  \/ CheckStop \/ OptionsFail \/ Options \/ AttemptFails \/ Attempt
  \/ HandshakeFails \/ Handshake \/ Connected \/ MonitorEnds \/ Lost \/ Close
  \/ Wait \/ Mirror

Next ==
  \/ Start \/ StartFails \/ StopRequested \/ Control
  \/ Connector
  \/ Establish \/ Break
  \/ TransportBegin \/ TransportEnd
  \/ \E c \in {"send", "sample"} : CallBegin(c)
  \/ Send \/ SampleStats

Spec == Init /\ [][Next]_vars

(* Threads are scheduled, library calls return (srt_close although libsrt   *)
(* calls back again and again: it closes the channel first), and the output *)
(* eventually stops waiting for a connection (five seconds).  The user need *)
(* not stop, and the network need not come up or break.                     *)
Fairness ==
  /\ WF_vars(Control) /\ WF_vars(Connector)
  /\ WF_vars(Send) /\ WF_vars(SampleStats) /\ WF_vars(TransportEnd)
  /\ SF_vars(StopClose) /\ SF_vars(Close)

FairSpec == Spec /\ Fairness

-----------------------------------------------------------------------------
(* "Stop and the connector thread cannot both pass the same handle to       *)
(* libsrt" (lines 66-69): no socket is closed twice, and the handle that    *)
(* send_ts and sample_stats use under the lock is never a closed one.       *)
ClosedOnce ==
  /\ ~closedAgain
  /\ socket # 0 => socket \notin closed

(* No socket is lost: whenever no session runs, every socket that was ever  *)
(* created has been closed, wherever stop() met the connector; and while    *)
(* one runs at most the connector's own socket is open.                     *)
NoSocketLeak ==
  /\ (1 .. created) \ closed \subseteq {mine}
  /\ ctl = "idle" => closed = 1 .. created

(* Media never moves to another connection behind the output's back: if two *)
(* datagrams of a session go out on different sockets, Reconnecting was     *)
(* reported in between, so the queue was cleared and a keyframe demanded.   *)
(* send_ts tests connected_ before it locks, and may act on a stale value.  *)
ToldBeforeResume ==
  [][sentOn # 0 /\ sentOn' \notin {0, sentOn} => toldFor >= sentOn]_vars

(* Stopped is the last word (lines 423-433): once stop() has reported it,   *)
(* no late report of the connector follows, to the output or to the engine, *)
(* until another session is started.                                        *)
StoppedIsFinal ==
  [][status = "Stopped" =>
       \/ status' = "Stopped" /\ engineState' \in {engineState, "Stopped"}
       \/ sessions' = sessions + 1]_vars

(* "An established stream reconnects indefinitely" (lines 366-368), as far  *)
(* as the network goes: the connector ends only by stop() or after a Fatal  *)
(* report; Fatal is reported where a socket cannot be created or set up     *)
(* (lines 284-333, also of an established stream) and never for a name that *)
(* does not resolve, an attempt that fails or a connection that breaks; and *)
(* an established stream is never reported as Connecting again.             *)
ReconnectsIndefinitely ==
  [][/\ pc # "ended" /\ pc' = "ended" => stop \/ status = "Fatal"
     /\ status # "Fatal" /\ status' = "Fatal" =>
          pc \in {"create", "options"} \/ ctl = "idle"
     /\ ever /\ status # "Connecting" /\ status' = "Connecting" =>
          sessions' # sessions]_vars

(* What the output can tell of the session. *)
Visible ==
  IF ~opened THEN "off"
  ELSE IF connected THEN "up"
  ELSE IF status = "Connected" THEN "down"
  ELSE IF status = "Reconnecting" /\ pc = "mirror" THEN "mark"
  ELSE "wait"

Contract == INSTANCE SessionContract WITH sess <- Visible

(* The session implements its contract, which the media path is built on:   *)
(* after wait_connected every loss is reported before the session resumes,  *)
(* stop() never returns inside a callback, and nothing else is visible.     *)
KeepsContract == Contract!Spec

(* "Impl (the opaque context) is therefore safe to free after stop()"       *)
(* (lines 240-246): a callback of libsrt never runs for a closed socket,    *)
(* nor after stop() has begun its final report.                             *)
CallbacksEnd == io => mine \notin closed /\ ctl \notin {"mirror", "idle"}

(* A datagram is accepted only when the contract allows it, although        *)
(* send_ts tests connected_ before it takes the lock (lines 463-471).       *)
SendsWhenAllowed ==
  "send" \in calls /\ socket # 0 /\ established => Contract!MaySucceed

(* stop() returns, whatever the connector is doing.                         *)
StopReturns == ctl \in {"stop", "close", "join", "mirror"} ~> ctl = "idle"
=============================================================================
