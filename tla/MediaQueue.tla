----------------------------- MODULE MediaQueue -----------------------------
(***************************************************************************)
(* The media path of the OBS output (plugin/srtla-output.cpp): encoded     *)
(* packets are muxed to MPEG-TS datagrams, the datagrams pass through the  *)
(* bounded, keyframe-aware queue, and a worker thread hands them to the    *)
(* SRT session.                                                            *)
(*                                                                         *)
(* Four threads share the queue.  One action is one region that runs       *)
(* without another thread being able to interfere: a section of            *)
(* queue_mutex, or one access to an atomic.                                *)
(*                                                                         *)
(*   control    srtla_output_start / srtla_output_stop            ctl      *)
(*   encoder    srtla_output_encoded_packet, enqueue_datagram     encPc    *)
(*   worker     the thread of start_worker                        wkPc     *)
(*   connector  on_session_status, called by the SRT session      sess     *)
(*                                                                         *)
(* The session is known by its contract (SessionContract), which           *)
(* SrtSession implements.                                                  *)
(***************************************************************************)
EXTENDS Integers, Sequences

CONSTANTS
  MaxQueueBytes,     \* max_queue_bytes, 8 MiB in the code
  MaxQueueDuration,  \* max_queue_duration, two seconds of 90 kHz ticks
  Sizes,             \* the sizes a datagram can have
  Reorder,           \* how far a presentation time may run ahead of decoding
  MaxPackets,        \* bound: encoded packets delivered by OBS
  MaxDatagrams,      \* bound: datagrams the muxer may still emit
  MaxReconnects,     \* bound: "Reconnecting" reports of the session
  MaxRuns            \* bound: successful starts of the output

ASSUME MediaQueueAssumption ==
  /\ MaxQueueBytes \in Nat
  /\ MaxQueueDuration \in Nat
  /\ Sizes \subseteq Nat \ {0}
  /\ Reorder \in Nat
  /\ MaxPackets \in Nat
  /\ MaxDatagrams \in Nat
  /\ MaxReconnects \in Nat
  /\ MaxRuns \in Nat

VARIABLES
  ctl,               \* where the start/stop thread is
  running,           \* SrtlaOutput::running
  workerStop,        \* SrtlaOutput::worker_stop
  queue,             \* SrtlaOutput::queue
  queueBytes,        \* SrtlaOutput::queue_bytes
  totalBytes,        \* SrtlaOutput::total_bytes
  dropUntilKeyframe, \* SrtlaOutput::drop_until_keyframe
  needsMuxerReset,   \* SrtlaOutput::needs_muxer_reset
  encPc,             \* where the encoder callback is
  encKey,            \* encoder_packet::keyframe of the packet in hand
  encPts,            \* its presentation time
  encDgram,          \* the datagram being passed to enqueue_datagram
  opener,            \* history: what the next datagram opens (see Openers)
  muxHealthy,        \* MpegTsAvformatSink::healthy_
  rejected,          \* history: a healthy muxer rejected a packet of this run
  wkPc,              \* where the worker thread is
  wkItem,            \* the datagram the worker popped
  sess,              \* the SRT session, as far as the queue can tell
  seq,               \* history: last position used in the emitted stream
  clock,             \* history: number of packets delivered (decode order)
  epoch,             \* history: number of Reconnecting reports handled
  runs,              \* history: number of starts
  lastSent,          \* history: position the receiver has reached: that of the
                     \* last datagram sent, or where the run began
  sentEpoch          \* history: value of epoch when it did

ctlVars  == <<ctl, running, workerStop, runs>>
flagVars == <<dropUntilKeyframe, needsMuxerReset>>
qVars    == <<queue, queueBytes, totalBytes>>
muxVars  == <<opener, muxHealthy, rejected>>
encVars  == <<encPc, encKey, encPts, encDgram, muxVars, seq, clock>>
wkVars   == <<wkPc, wkItem, lastSent, sentEpoch>>
sessVars == <<sess, epoch>>

vars == <<ctl, running, workerStop, queue, queueBytes, totalBytes,
          dropUntilKeyframe, needsMuxerReset, encPc, encKey, encPts, encDgram,
          opener, muxHealthy, rejected, wkPc, wkItem, sess, seq, clock, epoch, runs,
          lastSent, sentEpoch>>

-----------------------------------------------------------------------------
(* The SRT session, as its contract describes it. *)
Session == INSTANCE SessionContract

(* A muxer section starts with PAT and PMT.  Until its first datagram has   *)
(* come out, the section is                                                 *)
(*   "new"     that of a new muxer, no packet yet                           *)
(*   "delta"   that of a new muxer whose first packet was no keyframe       *)
(*   "key"     one that a keyframe packet began                             *)
(*   "stolen"  one that a delta began, taking a reset that was asked for    *)
(*             between its test of needs_muxer_reset and its exchange       *)
(* and "none" means that it has come out.                                   *)
Openers == {"new", "delta", "key", "stolen", "none"}

(* A QueuedTsDatagram.  size, key and pts are the code's fields; key is the *)
(* flag of the packet that was being written, whosever bytes the datagram   *)
(* carries.  seq is its position in the muxer's output, opens the section   *)
(* it is the first datagram of, off is total_bytes when it was accepted and *)
(* epoch the reconnects seen by then.                                       *)
Datagram == [seq: Nat, off: Nat, size: Nat, key: BOOLEAN, opens: Openers,
             pts: Int, epoch: Nat]

NoDatagram == [seq |-> 0, off |-> 0, size |-> 0, key |-> FALSE,
               opens |-> "none", pts |-> 0, epoch |-> 0]

FlagTypes ==
  /\ running \in BOOLEAN
  /\ workerStop \in BOOLEAN
  /\ dropUntilKeyframe \in BOOLEAN
  /\ needsMuxerReset \in BOOLEAN
  /\ encKey \in BOOLEAN
  /\ muxHealthy \in BOOLEAN
  /\ rejected \in BOOLEAN

PcTypes ==
  /\ ctl \in {"stopped", "starting", "primed", "running", "ending", "joining"}
  /\ encPc \in {"idle", "checked", "write", "enqueue", "enqueueTail"}
  /\ wkPc \in {"off", "wait", "popped", "sending", "failed", "mark"}
  /\ opener \in Openers
  /\ Session!SessionTypes

DataTypes ==
  /\ queue \in Seq(Datagram)
  /\ encDgram \in Datagram
  /\ wkItem \in Datagram
  /\ queueBytes \in Nat
  /\ totalBytes \in Nat
  /\ encPts \in Int
  /\ seq \in Nat
  /\ clock \in Nat
  /\ epoch \in Nat
  /\ runs \in Nat
  /\ lastSent \in Nat
  /\ sentEpoch \in Nat

(* Every variable has its type; in particular queue_bytes, an unsigned      *)
(* 64-bit counter that the worker decreases, never goes below zero.         *)
TypeOK == FlagTypes /\ PcTypes /\ DataTypes

(* The output as srtla_output_create leaves it. *)
Init ==
  /\ ctl = "stopped" /\ running = FALSE /\ workerStop = FALSE
  /\ queue = <<>> /\ queueBytes = 0 /\ totalBytes = 0
  /\ dropUntilKeyframe = FALSE /\ needsMuxerReset = FALSE
  /\ encPc = "idle" /\ encKey = FALSE /\ encPts = 0 /\ encDgram = NoDatagram
  /\ opener = "new" /\ muxHealthy = TRUE /\ rejected = FALSE
  /\ wkPc = "off" /\ wkItem = NoDatagram
  /\ Session!Init
  /\ seq = 0 /\ clock = 0 /\ epoch = 0 /\ runs = 0
  /\ lastSent = 0 /\ sentEpoch = 0

-----------------------------------------------------------------------------
(* Control thread: srtla_output_start. *)

(* The session is created and reports Connected within five seconds. *)
StartSession ==
  /\ ctl = "stopped" /\ runs < MaxRuns
  /\ ctl' = "starting" /\ runs' = runs + 1
  /\ Session!Open
  /\ UNCHANGED <<running, workerStop, epoch, qVars, flagVars, encVars, wkVars>>

(* The queue section of start: the deque is cleared, queue_bytes is not. *)
StartQueue ==
  /\ ctl = "starting"
  /\ ctl' = "primed"
  /\ queue' = <<>>
  /\ dropUntilKeyframe' = FALSE
  /\ needsMuxerReset' = FALSE
  /\ workerStop' = FALSE
  /\ UNCHANGED <<running, runs, queueBytes, totalBytes, encVars, wkVars, sessVars>>

(* A new muxer, running = true, the worker thread, and OBS capture.  The    *)
(* stream of this run begins where the muxer's output has come to.          *)
StartRun ==
  /\ ctl = "primed"
  /\ ctl' = "running"
  /\ running' = TRUE
  /\ workerStop' = FALSE
  /\ wkPc' = "wait"
  /\ opener' = "new"
  /\ muxHealthy' = TRUE
  /\ rejected' = FALSE
  /\ lastSent' = seq
  /\ UNCHANGED <<runs, qVars, flagVars, encPc, encKey, encPts, encDgram, seq,
                 clock, wkItem, sentEpoch, sessVars>>

(* An error return of start before capture: the session is destroyed, which *)
(* waits for a status callback in progress.                                 *)
StartFail ==
  /\ ctl \in {"starting", "primed"}
  /\ ctl' = "stopped"
  /\ Session!Close
  /\ UNCHANGED <<running, workerStop, runs, epoch, qVars, flagVars, encVars, wkVars>>

(* Control thread: srtla_output_stop, and the teardown of a start that      *)
(* fails after running became true.                                         *)
StopBegin ==
  /\ ctl = "running"
  /\ ctl' = "ending"
  /\ running' = FALSE
  /\ UNCHANGED <<workerStop, runs, qVars, flagVars, encVars, wkVars, sessVars>>

(* Mutant: end() does not wait for OBS's end-capture thread (wait_end_). *)
CaptureNotAwaited == TRUE

(* OutputCaptureLifecycle::end returns once OBS has joined the thread that  *)
(* ends data capture: no encoder callback is in progress any more.          *)
CaptureEnded == encPc = "idle"

(* capture_lifecycle->end(), then the critical section of stop_worker. *)
StopWorker ==
  /\ ctl = "ending"
  /\ CaptureEnded
  /\ ctl' = "joining"
  /\ workerStop' = TRUE
  /\ queue' = <<>> /\ queueBytes' = 0
  /\ UNCHANGED <<running, runs, totalBytes, flagVars, encVars, wkVars, sessVars>>

(* The worker is joined, the session is destroyed (its connector thread is  *)
(* joined), the muxer is released and the queue is cleared once more.       *)
StopFinish ==
  /\ ctl = "joining"
  /\ wkPc = "off"
  /\ ctl' = "stopped"
  /\ Session!Close
  /\ queue' = <<>> /\ queueBytes' = 0
  /\ UNCHANGED <<running, workerStop, runs, epoch, totalBytes, flagVars,
                 encVars, wkVars>>

-----------------------------------------------------------------------------
(* Connector thread.  The session is up, goes down (connected_ = false),    *)
(* reports Reconnecting once or more often, and comes up again.             *)
Disconnect ==
  /\ epoch < MaxReconnects
  /\ Session!Drop
  /\ UNCHANGED <<epoch, ctlVars, qVars, flagVars, encVars, wkVars>>

(* Mutant: the status callback keeps what is queued. *)
KeepQueued == UNCHANGED <<queue, queueBytes>>

DiscardQueued == queue' = <<>> /\ queueBytes' = 0

(* on_session_status(Reconnecting), its queue_mutex section. *)
ReconnectingClear ==
  /\ sess = "down" \/ epoch < MaxReconnects
  /\ Session!Report
  /\ epoch' = epoch + 1
  /\ DiscardQueued
  /\ dropUntilKeyframe' = TRUE
  /\ UNCHANGED <<ctlVars, totalBytes, needsMuxerReset, encVars, wkVars>>

(* on_session_status(Reconnecting), after the section. *)
ReconnectingMark ==
  /\ Session!Reported
  /\ needsMuxerReset' = TRUE
  /\ UNCHANGED <<ctlVars, qVars, dropUntilKeyframe, epoch, encVars, wkVars>>

Reconnected ==
  /\ Session!Resume
  /\ UNCHANGED <<epoch, ctlVars, qVars, flagVars, encVars, wkVars>>

-----------------------------------------------------------------------------
(* Encoder thread.  OBS delivers packets one at a time.                     *)

(* The encoder callback goes on at pc; its locals are gone once it returns. *)
GoOn(pc) ==
  /\ encPc' = pc
  /\ encKey' = (encKey /\ pc # "idle")
  /\ encPts' = IF pc = "idle" THEN 0 ELSE encPts

(* Entry of srtla_output_encoded_packet: after a reconnect a delta packet   *)
(* is refused (its place in the stream is lost), others go on.              *)
EncodedPacket(key, pts) ==
  /\ encPc = "idle" /\ running /\ clock < MaxPackets
  /\ clock' = clock + 1
  /\ \/ /\ needsMuxerReset /\ ~key
        /\ seq' = seq + 1
        /\ UNCHANGED <<encPc, encKey, encPts>>
     \/ /\ ~needsMuxerReset \/ key
        /\ encPc' = "checked" /\ encKey' = key /\ encPts' = pts
        /\ UNCHANGED seq
  /\ UNCHANGED <<ctlVars, qVars, flagVars, encDgram, muxVars, wkVars, sessVars>>

(* needs_muxer_reset.exchange(false), and muxer->reset() if it was set,     *)
(* which discards what the muxer still holds.  The test at the entry and    *)
(* this exchange are two accesses: a delta may get here with the flag set.  *)
ApplyReset ==
  /\ encPc = "checked"
  /\ encPc' = "write"
  /\ needsMuxerReset' = FALSE
  /\ \/ /\ needsMuxerReset
        /\ opener' = IF encKey THEN "key" ELSE "stolen"
        /\ muxHealthy' = TRUE
        /\ seq' \in {seq, seq + 1}
     \/ /\ ~needsMuxerReset
        /\ opener' = IF opener # "new" THEN opener
                     ELSE IF encKey THEN "key" ELSE "delta"
        /\ UNCHANGED <<muxHealthy, seq>>
  /\ UNCHANGED <<ctlVars, qVars, dropUntilKeyframe, encKey, encPts, encDgram,
                 rejected, clock, wkVars, sessVars>>

(* emit_datagrams: the muxer hands out a datagram.  Datagrams written while *)
(* the packet is in av_interleaved_write_frame carry its keyframe flag; the *)
(* one that flush() emits last carries FALSE (current_keyframe_ was reset). *)
(* libavformat interleaves, so the bytes may be those of an earlier packet. *)
(* enqueue_datagram first tests running, outside the lock.                  *)
EmitDatagram(size, tail) ==
  /\ encPc = "write" /\ muxHealthy /\ seq < MaxDatagrams
  /\ seq' = seq + 1
  /\ opener' = "none"
  /\ \/ /\ running
        /\ GoOn(IF tail THEN "enqueueTail" ELSE "enqueue")
        /\ encDgram' = [seq |-> seq + 1, off |-> 0, size |-> size,
                        key |-> encKey /\ ~tail, opens |-> opener,
                        pts |-> encPts, epoch |-> 0]
     \/ /\ ~running
        /\ GoOn(IF tail THEN "idle" ELSE "write")
        /\ UNCHANGED encDgram
  /\ UNCHANGED <<ctlVars, qVars, flagVars, muxHealthy, rejected, clock, wkVars,
                 sessVars>>

(* flush() had nothing pending: the callback returns. *)
PacketDone ==
  /\ encPc = "write" /\ muxHealthy
  /\ GoOn("idle")
  /\ UNCHANGED <<ctlVars, qVars, flagVars, encDgram, muxVars, seq, clock, wkVars,
                 sessVars>>

(* The muxer rejects the packet (an invalid one leaves it healthy), or      *)
(* flush() leaves it unhealthy; the callback reports a fatal error and      *)
(* returns.  The packet is lost.                                            *)
MuxerFails ==
  /\ encPc = "write"
  /\ GoOn("idle")
  /\ muxHealthy' \in {FALSE, muxHealthy}
  /\ rejected' = (rejected \/ muxHealthy')
  /\ seq' = seq + 1
  /\ UNCHANGED <<ctlVars, qVars, flagVars, encDgram, opener,
                 clock, wkVars, sessVars>>

(* Mutant: deltas are accepted during a drop phase. *)
RefusesNothing(d) == FALSE

(* While the queue waits for a keyframe, everything else is dropped. *)
Refuses(d) == dropUntilKeyframe /\ ~d.key

(* Mutant: the size of the new datagram is left out of the test. *)
OverflowsLate(q, bytes, d) ==
  \/ bytes > MaxQueueBytes
  \/ (IF q = <<>> THEN 0 ELSE d.pts - q[1].pts) > MaxQueueDuration

(* The byte and duration limits, the latter against the oldest datagram. *)
Overflows(q, bytes, d) ==
  \/ bytes + d.size > MaxQueueBytes
  \/ (IF q = <<>> THEN 0 ELSE d.pts - q[1].pts) > MaxQueueDuration

(* The queue_mutex section of enqueue_datagram: refuse; or overflow and     *)
(* start a drop phase; or accept, a keyframe ending a drop phase and        *)
(* replacing what is queued.                                                *)
Enqueue ==
  LET d       == [encDgram EXCEPT !.off = totalBytes, !.epoch = epoch]
      restart == dropUntilKeyframe /\ d.key
      q       == IF restart THEN <<>> ELSE queue
      bytes   == IF restart THEN 0 ELSE queueBytes
  IN
  /\ encPc \in {"enqueue", "enqueueTail"}
  /\ GoOn(IF encPc = "enqueueTail" THEN "idle" ELSE "write")
  /\ encDgram' = NoDatagram
  /\ \/ /\ Refuses(d)
        /\ UNCHANGED <<qVars, flagVars>>
     \/ /\ ~Refuses(d)
        /\ Overflows(q, bytes, d)
        /\ queue' = q /\ queueBytes' = bytes
        /\ dropUntilKeyframe' = TRUE
        /\ needsMuxerReset' = TRUE
        /\ UNCHANGED totalBytes
     \/ /\ ~Refuses(d)
        /\ ~Overflows(q, bytes, d)
        /\ queue' = Append(q, d)
        /\ queueBytes' = bytes + d.size
        /\ totalBytes' = totalBytes + d.size
        /\ dropUntilKeyframe' = (dropUntilKeyframe /\ ~d.key)
        /\ UNCHANGED needsMuxerReset
  /\ UNCHANGED <<ctlVars, muxVars, seq, clock, wkVars, sessVars>>

-----------------------------------------------------------------------------
(* Worker thread of start_worker. *)

(* Mutant: the worker takes the size off twice. *)
PoppedTwice(bytes, d) == bytes - 2 * d.size

Popped(bytes, d) == bytes - d.size

WorkerPop ==
  /\ wkPc = "wait" /\ queue # <<>>
  /\ wkPc' = "popped"
  /\ wkItem' = Head(queue)
  /\ queue' = Tail(queue)
  /\ queueBytes' = Popped(queueBytes, Head(queue))
  /\ UNCHANGED <<ctlVars, totalBytes, flagVars, encVars, lastSent, sentEpoch,
                 sessVars>>

(* Mutant: the wait does not look at worker_stop. *)
WorkerNeverExits == FALSE

WorkerMayExit == queue = <<>> /\ workerStop

WorkerExit ==
  /\ wkPc = "wait" /\ WorkerMayExit
  /\ wkPc' = "off"
  /\ UNCHANGED <<ctlVars, qVars, flagVars, encVars, wkItem, lastSent, sentEpoch,
                 sessVars>>

(* session->send_ts() outside the lock tests connected_ first. *)
SendCheck ==
  /\ wkPc = "popped" /\ Session!MayBegin
  /\ wkPc' = "sending"
  /\ UNCHANGED <<ctlVars, qVars, flagVars, encVars, wkItem, lastSent, sentEpoch,
                 sessVars>>

(* The socket may be another one by the time it is used. *)
SendOk ==
  /\ wkPc = "sending" /\ Session!MaySucceed
  /\ wkPc' = "wait"
  /\ wkItem' = NoDatagram
  /\ lastSent' = wkItem.seq
  /\ sentEpoch' = epoch
  /\ UNCHANGED <<ctlVars, qVars, flagVars, encVars, sessVars>>

(* Not connected, or srt_sendmsg refuses. *)
SendFails ==
  /\ \/ wkPc = "sending"
     \/ wkPc = "popped" /\ ~Session!MayBegin
  /\ wkPc' = "failed"
  /\ wkItem' = NoDatagram
  /\ UNCHANGED <<ctlVars, qVars, flagVars, encVars, lastSent, sentEpoch, sessVars>>

(* The critical section of the failure path. *)
FailureClear ==
  /\ wkPc = "failed"
  /\ \/ /\ workerStop
        /\ wkPc' = "off"
        /\ UNCHANGED <<queue, queueBytes, dropUntilKeyframe>>
     \/ /\ ~workerStop
        /\ wkPc' = "mark"
        /\ queue' = <<>> /\ queueBytes' = 0
        /\ dropUntilKeyframe' = TRUE
  /\ UNCHANGED <<ctlVars, totalBytes, needsMuxerReset, encVars, wkItem, lastSent,
                 sentEpoch, sessVars>>

FailureMark ==
  /\ wkPc = "mark"
  /\ wkPc' = "wait"
  /\ needsMuxerReset' = TRUE
  /\ UNCHANGED <<ctlVars, qVars, dropUntilKeyframe, encVars, wkItem, lastSent,
                 sentEpoch, sessVars>>

-----------------------------------------------------------------------------
Control   == StopWorker \/ StopFinish
Connector == ReconnectingMark
Encoder   == ApplyReset \/ PacketDone \/ Enqueue
Worker    ==
  WorkerPop \/ WorkerExit \/ SendCheck \/ SendFails \/ FailureClear \/ FailureMark

Next ==
  \/ StartSession \/ StartQueue \/ StartRun \/ StartFail
  \/ StopBegin \/ StopWorker \/ StopFinish
  \/ Disconnect \/ ReconnectingClear \/ ReconnectingMark \/ Reconnected
  \/ \E key \in BOOLEAN, pts \in clock + 1 .. clock + 1 + Reorder :
        EncodedPacket(key, pts)
  \/ ApplyReset
  \/ \E size \in Sizes, tail \in BOOLEAN : EmitDatagram(size, tail)
  \/ PacketDone \/ MuxerFails \/ Enqueue
  \/ WorkerPop \/ WorkerExit \/ SendCheck \/ SendOk \/ SendFails \/ FailureClear \/ FailureMark

Spec == Init /\ [][Next]_vars

(* Threads are scheduled: a callback, a worker iteration and a stop that    *)
(* can go on do go on.  Nothing forces OBS to deliver packets, the user to  *)
(* start or stop, or the network to fail or recover.                        *)
Fairness ==
  /\ WF_vars(Control)
  /\ WF_vars(Connector)
  /\ WF_vars(Encoder \/ MuxerFails)
  /\ WF_vars(Worker)

FairSpec == Spec /\ Fairness

-----------------------------------------------------------------------------
(* The queue's books balance: the queued datagrams are consecutive pieces   *)
(* of the accepted bytes, the last one ends at total_bytes, and queue_bytes *)
(* is what they hold - in every interleaving, across reconnects, overflow,  *)
(* failed sends and restarts (start never resets queue_bytes, lines         *)
(* 910-916).  A wrong count makes "queue_bytes -=" wrap around.             *)
QueueLedger ==
  /\ \A i \in 1 .. Len(queue) :
        queue[i].size > 0 /\ queue[i].off + queue[i].size <= totalBytes
  /\ \A i \in 1 .. Len(queue) - 1 :
        queue[i + 1].off = queue[i].off + queue[i].size
  /\ queue = <<>> => queueBytes = 0
  /\ queue # <<>> =>
        /\ queue[Len(queue)].off + queue[Len(queue)].size = totalBytes
        /\ queueBytes = totalBytes - queue[1].off

(* The "bounded two-second queue contract" (lines 599-600, 643-645): the    *)
(* queue never exceeds its byte limit, and never spans more than the        *)
(* duration limit plus the encoder's reordering distance.                   *)
QueueBounded ==
  /\ queueBytes <= MaxQueueBytes
  /\ \A i \in 1 .. Len(queue) : \A j \in 1 .. i :
        queue[i].pts - queue[j].pts <= MaxQueueDuration + Reorder

(* What the receiver gets has no hole that a delta follows silently: a      *)
(* datagram the session accepts is the successor of what was sent before it *)
(* in this run, or it is tagged as keyframe, or it opens, with PAT and PMT, *)
(* a section that a keyframe packet began.  Two exceptions the code makes:  *)
(* a delta that passed the test of needs_muxer_reset (line 984) before the  *)
(* flag was set opens a section itself; and nothing is said once a healthy  *)
(* muxer has rejected a packet, when the fatal stop is on its way.  key is  *)
(* the tag that enqueue_datagram sees: libavformat may have put the bytes   *)
(* of an earlier packet under it.                                           *)
NoSplice ==
  [][SendOk /\ ~rejected =>
       \/ wkItem.seq = lastSent + 1
       \/ wkItem.key
       \/ wkItem.opens \in {"key", "stolen"}]_vars

(* "After a reconnect, stale media is discarded" (README.md:34-35), as far  *)
(* as the code can promise it: after a Reconnecting report at most one      *)
(* datagram queued before the report - the one the worker had in hand - is  *)
(* still sent, and it is the first one.                                     *)
StaleAtMostOne ==
  [][SendOk /\ wkItem.epoch < epoch => sentEpoch < epoch]_vars

(* srtla_output_stop always returns: the encoder callback, the worker and   *)
(* the connector it waits for all come to an end.                           *)
StopCompletes == ctl \in {"ending", "joining"} ~> ctl = "stopped"

(* "MPEG-TS resumes with fresh tables at the next keyframe" (README.md:35): *)
(* the datagram that ends a drop phase opens a freshly reset section.       *)
ResumeWithFreshTables ==
  [][dropUntilKeyframe /\ ~dropUntilKeyframe' /\ ctl = "running"
       => queue'[Len(queue')].opens # "none"]_vars
=============================================================================
