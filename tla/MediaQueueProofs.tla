-------------------------- MODULE MediaQueueProofs --------------------------
(***************************************************************************)
(* Safety of the media queue for every queue limit, datagram size, number  *)
(* of packets, reconnects and restarts.                                    *)
(***************************************************************************)
EXTENDS MediaQueue, SequenceTheorems, TLAPS

(* Which threads are at rest in which phase of start and stop.  Start does *)
(* not reset queue_bytes, so the books are right after a restart only      *)
(* because a stopped output has an empty queue and nobody left to fill it. *)
Phases ==
  /\ running => ctl = "running"
  /\ ctl \in {"stopped", "starting", "primed", "joining"} => encPc = "idle"
  /\ ctl \in {"stopped", "starting", "primed"} => wkPc = "off" /\ queue = <<>>

(* Presentation times follow the decode clock to within Reorder. *)
Ordered ==
  /\ \A i \in 1 .. Len(queue) : queue[i].pts <= clock + Reorder
  /\ \A i \in 1 .. Len(queue) : \A j \in 1 .. i :
        queue[j].pts <= queue[i].pts + Reorder
  /\ encPc # "idle" => encPts \in clock .. clock + Reorder
  /\ encPc \in {"enqueue", "enqueueTail"} =>
        encDgram.pts = encPts /\ encDgram.size > 0

(* Everything queued was queued after the last Reconnecting report, and a  *)
(* stale datagram in the worker's hand is the first one sent after it.     *)
Current ==
  /\ \A i \in 1 .. Len(queue) : queue[i].epoch = epoch
  /\ sentEpoch <= epoch
  /\ wkPc \in {"popped", "sending"} /\ wkItem.epoch < epoch => sentEpoch < epoch

(* A datagram may be sent after number n of the muxer's output. *)
Follows(d, n) == d.seq = n + 1 \/ d.key \/ d.opens \in {"key", "stolen"}

(* The datagram that the worker holds or sent last, and the one that was    *)
(* taken in last.                                                           *)
InHand == wkPc \in {"popped", "sending"}
Taken == IF InHand THEN wkItem.seq ELSE lastSent
Latest == IF queue = <<>> THEN Taken ELSE queue[Len(queue)].seq

(* NoSplice all the way from the muxer to the session.  After a failed send *)
(* there is a hole until the queue is cleared; a drop phase makes one,      *)
(* which only a datagram tagged as keyframe closes; and where the encoder   *)
(* has lost its place the next datagram opens a section after a reset, or   *)
(* the muxer is broken or about to be reset.                                *)
Continuous ==
  /\ encPc \in {"enqueue", "enqueueTail"} => encDgram.seq = seq
  /\ ~rejected /\ wkPc \notin {"failed", "off"} =>
       /\ InHand => Follows(wkItem, lastSent)
       /\ queue # <<>> => Follows(queue[1], Taken)
       /\ \A i \in 1 .. Len(queue) - 1 : Follows(queue[i + 1], queue[i].seq)
       /\ ~dropUntilKeyframe =>
            /\ encPc \in {"enqueue", "enqueueTail"} => Follows(encDgram, Latest)
            /\ running /\ encPc \in {"idle", "checked", "write"} =>
                 \/ Latest = seq \/ opener \in {"key", "stolen"} \/ ~muxHealthy
                 \/ needsMuxerReset /\ encPc # "write"

IInv == TypeOK /\ Phases /\ QueueLedger /\ QueueBounded /\ Ordered /\ Current

-----------------------------------------------------------------------------
(* NoDatagram is a datagram, so that the idle registers have their type. *)
LEMMA NoDatagramType == NoDatagram \in Datagram
BY DEF NoDatagram, Datagram, Openers

(* The fields of a datagram. *)
LEMMA FieldTypes ==
  ASSUME NEW d \in Datagram
  PROVE  /\ d.size \in Nat /\ d.off \in Nat /\ d.pts \in Int
         /\ d.epoch \in Nat /\ d.seq \in Nat /\ d.key \in BOOLEAN
BY DEF Datagram

(* The fields of the datagrams of a queue. *)
LEMMA ElementTypes ==
  ASSUME NEW q \in Seq(Datagram)
  PROVE  \A i \in 1 .. Len(q) : /\ q[i].size \in Nat /\ q[i].off \in Nat
                                /\ q[i].pts \in Int /\ q[i].epoch \in Nat
<1> TAKE i \in 1 .. Len(q)
<1>1. q[i] \in Datagram
  BY ElementOfSeq
<1> QED
  BY <1>1, FieldTypes

(* What popping the front of a queue leaves. *)
LEMMA PopFacts ==
  ASSUME NEW q \in Seq(Datagram), q # <<>>
  PROVE  /\ Head(q) \in Datagram /\ Head(q) = q[1]
         /\ Tail(q) \in Seq(Datagram)
         /\ Len(q) \in Nat /\ Len(q) >= 1
         /\ Len(Tail(q)) = Len(q) - 1
         /\ \A i \in 1 .. Len(Tail(q)) : Tail(q)[i] = q[i + 1]
<1>1. /\ Head(q) \in Datagram /\ Tail(q) \in Seq(Datagram)
      /\ Len(Tail(q)) = Len(q) - 1
      /\ \A i \in 1 .. Len(Tail(q)) : Tail(q)[i] = q[i + 1]
  BY HeadTailProperties
<1>2. Len(q) \in Nat /\ Len(q) >= 1
  BY LenProperties, EmptySeq
<1>3. Head(q) = q[1]
  OBVIOUS
<1> QED
  BY <1>1, <1>2, <1>3

(* What accepting a datagram makes of a queue. *)
LEMMA PushFacts ==
  ASSUME NEW q \in Seq(Datagram), NEW d \in Datagram
  PROVE  /\ Append(q, d) \in Seq(Datagram)
         /\ Append(q, d) # <<>>
         /\ Len(q) \in Nat
         /\ Len(Append(q, d)) = Len(q) + 1
         /\ \A i \in 1 .. Len(q) : Append(q, d)[i] = q[i]
         /\ Append(q, d)[Len(q) + 1] = d
BY AppendProperties

(* The invariant holds initially. *)
LEMMA InitIInv == Init => IInv
<1> SUFFICES ASSUME Init PROVE IInv
  OBVIOUS
<1> USE MediaQueueAssumption DEF Init, Session!Init
<1>1. FlagTypes
  BY DEF FlagTypes
<1>2. PcTypes
  BY DEF PcTypes, Openers, Session!SessionTypes
<1>3. DataTypes
  BY NoDatagramType, EmptySeq DEF DataTypes
<1>4. Phases /\ QueueLedger /\ QueueBounded /\ Ordered /\ Current
  BY EmptySeq DEF Phases, QueueLedger, QueueBounded, Ordered, Current
<1> QED
  BY <1>1, <1>2, <1>3, <1>4 DEF IInv, TypeOK

(* Every step preserves the invariant. *)
LEMMA NextIInv == IInv /\ [Next]_vars => IInv'
<1> SUFFICES ASSUME IInv, [Next]_vars PROVE IInv'
  OBVIOUS
<1> USE MediaQueueAssumption
<1> USE DEF IInv, TypeOK, ctlVars, flagVars, qVars, muxVars, encVars, wkVars,
        sessVars
<1>1. CASE StartSession
  <2>1. FlagTypes' /\ PcTypes'
    <3>1. FlagTypes'
      BY <1>1 DEF StartSession, FlagTypes
    <3>2. PcTypes'
      BY <1>1 DEF StartSession, PcTypes, Session!SessionTypes, Session!Open
    <3> QED
      BY <3>1, <3>2
  <2>2. DataTypes'
    BY <1>1 DEF StartSession, DataTypes
  <2>3. Phases' /\ QueueLedger' /\ QueueBounded'
    BY <1>1 DEF StartSession, DataTypes, Phases, QueueLedger, QueueBounded
  <2>4. Ordered' /\ Current'
    BY <1>1 DEF StartSession, DataTypes, Ordered, Current
  <2> QED
    BY <2>1, <2>2, <2>3, <2>4
<1>2. CASE StartQueue
  <2>1. FlagTypes' /\ PcTypes'
    <3>1. FlagTypes'
      BY <1>2 DEF StartQueue, FlagTypes
    <3>2. PcTypes'
      BY <1>2 DEF StartQueue, PcTypes, Session!SessionTypes
    <3> QED
      BY <3>1, <3>2
  <2>2. DataTypes'
    BY <1>2, EmptySeq DEF StartQueue, DataTypes
  <2>3. Phases' /\ QueueLedger' /\ QueueBounded'
    BY <1>2, EmptySeq DEF StartQueue, DataTypes, Phases, QueueLedger, QueueBounded
  <2>4. Ordered' /\ Current'
    BY <1>2, EmptySeq DEF StartQueue, DataTypes, Ordered, Current
  <2> QED
    BY <2>1, <2>2, <2>3, <2>4
<1>3. CASE StartRun
  <2>1. FlagTypes' /\ PcTypes'
    <3>1. FlagTypes'
      BY <1>3 DEF StartRun, FlagTypes
    <3>2. PcTypes'
      BY <1>3 DEF StartRun, PcTypes, Openers, Session!SessionTypes
    <3> QED
      BY <3>1, <3>2
  <2>2. DataTypes'
    BY <1>3 DEF StartRun, DataTypes
  <2>3. Phases' /\ QueueLedger' /\ QueueBounded'
    BY <1>3 DEF StartRun, DataTypes, Phases, QueueLedger, QueueBounded
  <2>4. Ordered' /\ Current'
    BY <1>3 DEF StartRun, DataTypes, Ordered, Current
  <2> QED
    BY <2>1, <2>2, <2>3, <2>4
<1>4. CASE StartFail
  <2>1. FlagTypes' /\ PcTypes'
    <3>1. FlagTypes'
      BY <1>4 DEF StartFail, FlagTypes
    <3>2. PcTypes'
      BY <1>4 DEF StartFail, PcTypes, Session!SessionTypes, Session!Close
    <3> QED
      BY <3>1, <3>2
  <2>2. DataTypes'
    BY <1>4 DEF StartFail, DataTypes
  <2>3. Phases' /\ QueueLedger' /\ QueueBounded'
    BY <1>4 DEF StartFail, DataTypes, Phases, QueueLedger, QueueBounded
  <2>4. Ordered' /\ Current'
    BY <1>4 DEF StartFail, DataTypes, Ordered, Current
  <2> QED
    BY <2>1, <2>2, <2>3, <2>4
<1>5. CASE StopBegin
  <2>1. FlagTypes' /\ PcTypes'
    <3>1. FlagTypes'
      BY <1>5 DEF StopBegin, FlagTypes
    <3>2. PcTypes'
      BY <1>5 DEF StopBegin, PcTypes, Session!SessionTypes
    <3> QED
      BY <3>1, <3>2
  <2>2. DataTypes'
    BY <1>5 DEF StopBegin, DataTypes
  <2>3. Phases' /\ QueueLedger' /\ QueueBounded'
    BY <1>5 DEF StopBegin, DataTypes, Phases, QueueLedger, QueueBounded
  <2>4. Ordered' /\ Current'
    BY <1>5 DEF StopBegin, DataTypes, Ordered, Current
  <2> QED
    BY <2>1, <2>2, <2>3, <2>4
<1>6. CASE StopWorker
  <2>1. FlagTypes' /\ PcTypes'
    <3>1. FlagTypes'
      BY <1>6 DEF StopWorker, FlagTypes, CaptureEnded
    <3>2. PcTypes'
      BY <1>6 DEF StopWorker, PcTypes, CaptureEnded, Session!SessionTypes
    <3> QED
      BY <3>1, <3>2
  <2>2. DataTypes'
    BY <1>6, EmptySeq DEF StopWorker, DataTypes, CaptureEnded
  <2>3. Phases' /\ QueueLedger' /\ QueueBounded'
    BY <1>6, EmptySeq DEF StopWorker, DataTypes, Phases, QueueLedger, QueueBounded, CaptureEnded
  <2>4. Ordered' /\ Current'
    BY <1>6, EmptySeq DEF StopWorker, DataTypes, Ordered, Current, CaptureEnded
  <2> QED
    BY <2>1, <2>2, <2>3, <2>4
<1>7. CASE StopFinish
  <2>1. FlagTypes' /\ PcTypes'
    <3>1. FlagTypes'
      BY <1>7 DEF StopFinish, FlagTypes
    <3>2. PcTypes'
      BY <1>7 DEF StopFinish, PcTypes, Session!SessionTypes, Session!Close
    <3> QED
      BY <3>1, <3>2
  <2>2. DataTypes'
    BY <1>7, EmptySeq DEF StopFinish, DataTypes
  <2>3. Phases' /\ QueueLedger' /\ QueueBounded'
    BY <1>7, EmptySeq DEF StopFinish, DataTypes, Phases, QueueLedger, QueueBounded
  <2>4. Ordered' /\ Current'
    BY <1>7, EmptySeq DEF StopFinish, DataTypes, Ordered, Current
  <2> QED
    BY <2>1, <2>2, <2>3, <2>4
<1>8. CASE Disconnect
  <2>1. FlagTypes' /\ PcTypes'
    <3>1. FlagTypes'
      BY <1>8 DEF Disconnect, FlagTypes
    <3>2. PcTypes'
      BY <1>8 DEF Disconnect, PcTypes, Session!SessionTypes, Session!Drop
    <3> QED
      BY <3>1, <3>2
  <2>2. DataTypes'
    BY <1>8 DEF Disconnect, DataTypes
  <2>3. Phases' /\ QueueLedger' /\ QueueBounded'
    BY <1>8 DEF Disconnect, DataTypes, Phases, QueueLedger, QueueBounded
  <2>4. Ordered' /\ Current'
    BY <1>8 DEF Disconnect, DataTypes, Ordered, Current
  <2> QED
    BY <2>1, <2>2, <2>3, <2>4
<1>9. CASE ReconnectingClear
  <2>1. FlagTypes' /\ PcTypes'
    <3>1. FlagTypes'
      BY <1>9 DEF ReconnectingClear, FlagTypes, DiscardQueued
    <3>2. PcTypes'
      BY <1>9 DEF ReconnectingClear, PcTypes, DiscardQueued,
         Session!SessionTypes, Session!Report
    <3> QED
      BY <3>1, <3>2
  <2>2. DataTypes'
    BY <1>9, EmptySeq DEF ReconnectingClear, DataTypes, DiscardQueued
  <2>3. Phases' /\ QueueLedger' /\ QueueBounded'
    BY <1>9, EmptySeq DEF ReconnectingClear, DataTypes, Phases, QueueLedger, QueueBounded, DiscardQueued
  <2>4. Ordered' /\ Current'
    BY <1>9, EmptySeq DEF ReconnectingClear, DataTypes, Ordered, Current, DiscardQueued
  <2> QED
    BY <2>1, <2>2, <2>3, <2>4
<1>10. CASE ReconnectingMark
  <2>1. FlagTypes' /\ PcTypes'
    <3>1. FlagTypes'
      BY <1>10 DEF ReconnectingMark, FlagTypes
    <3>2. PcTypes'
      BY <1>10 DEF ReconnectingMark, PcTypes, Session!SessionTypes, Session!Reported
    <3> QED
      BY <3>1, <3>2
  <2>2. DataTypes'
    BY <1>10 DEF ReconnectingMark, DataTypes
  <2>3. Phases' /\ QueueLedger' /\ QueueBounded'
    BY <1>10 DEF ReconnectingMark, DataTypes, Phases, QueueLedger, QueueBounded
  <2>4. Ordered' /\ Current'
    BY <1>10 DEF ReconnectingMark, DataTypes, Ordered, Current
  <2> QED
    BY <2>1, <2>2, <2>3, <2>4
<1>11. CASE Reconnected
  <2>1. FlagTypes' /\ PcTypes'
    <3>1. FlagTypes'
      BY <1>11 DEF Reconnected, FlagTypes
    <3>2. PcTypes'
      BY <1>11 DEF Reconnected, PcTypes, Session!SessionTypes, Session!Resume
    <3> QED
      BY <3>1, <3>2
  <2>2. DataTypes'
    BY <1>11 DEF Reconnected, DataTypes
  <2>3. Phases' /\ QueueLedger' /\ QueueBounded'
    BY <1>11 DEF Reconnected, DataTypes, Phases, QueueLedger, QueueBounded
  <2>4. Ordered' /\ Current'
    BY <1>11 DEF Reconnected, DataTypes, Ordered, Current
  <2> QED
    BY <2>1, <2>2, <2>3, <2>4
<1>12. CASE \E key \in BOOLEAN, pts \in clock + 1 .. clock + 1 + Reorder :
             EncodedPacket(key, pts)
  <2> PICK key \in BOOLEAN, pts \in clock + 1 .. clock + 1 + Reorder :
           EncodedPacket(key, pts)
    BY <1>12
  <2>1. FlagTypes' /\ PcTypes'
    <3>1. FlagTypes'
      BY DEF EncodedPacket, FlagTypes
    <3>2. PcTypes'
      BY DEF EncodedPacket, PcTypes, Session!SessionTypes
    <3> QED
      BY <3>1, <3>2
  <2>2. DataTypes'
    BY ElementTypes DEF EncodedPacket, DataTypes
  <2>3. Phases' /\ QueueLedger' /\ QueueBounded'
    BY ElementTypes DEF EncodedPacket, DataTypes, Phases, QueueLedger, QueueBounded
  <2>4. Ordered' /\ Current'
    BY ElementTypes DEF EncodedPacket, DataTypes, Ordered, Current
  <2> QED
    BY <2>1, <2>2, <2>3, <2>4
<1>13. CASE ApplyReset
  <2>1. FlagTypes' /\ PcTypes'
    <3>1. FlagTypes'
      BY <1>13 DEF ApplyReset, FlagTypes
    <3>2. PcTypes'
      BY <1>13 DEF ApplyReset, PcTypes, Openers, Session!SessionTypes
    <3> QED
      BY <3>1, <3>2
  <2>2. DataTypes'
    BY <1>13 DEF ApplyReset, DataTypes
  <2>3. Phases' /\ QueueLedger' /\ QueueBounded'
    BY <1>13 DEF ApplyReset, DataTypes, Phases, QueueLedger, QueueBounded
  <2>4. Ordered' /\ Current'
    BY <1>13 DEF ApplyReset, DataTypes, Ordered, Current
  <2> QED
    BY <2>1, <2>2, <2>3, <2>4
<1>14. CASE \E size \in Sizes, tail \in BOOLEAN : EmitDatagram(size, tail)
  <2> PICK size \in Sizes, tail \in BOOLEAN : EmitDatagram(size, tail)
    BY <1>14
  <2>1. FlagTypes'
    BY DEF EmitDatagram, GoOn, FlagTypes
  <2>2. PcTypes'
    BY DEF EmitDatagram, GoOn, PcTypes, Openers, Session!SessionTypes
  <2>3. size \in Nat /\ size > 0
    OBVIOUS
  <2>4. encDgram' \in Datagram
    <3>1. CASE ~running
      BY <3>1 DEF EmitDatagram, DataTypes
    <3>2. CASE running
      <4>1. encDgram' = [seq |-> seq + 1, off |-> 0, size |-> size,
                         key |-> encKey /\ ~tail, opens |-> opener,
                         pts |-> encPts, epoch |-> 0]
        BY <3>2 DEF EmitDatagram
      <4>2. seq + 1 \in Nat /\ encPts \in Int
        BY DEF DataTypes
      <4>3. (encKey /\ ~tail) \in BOOLEAN /\ opener \in Openers
        BY DEF FlagTypes, PcTypes
      <4> QED
        BY <2>3, <4>1, <4>2, <4>3 DEF Datagram
    <3> QED
      BY <3>1, <3>2 DEF FlagTypes
  <2>5. DataTypes'
    BY <2>4 DEF EmitDatagram, GoOn, DataTypes
  <2>6. Phases' /\ QueueLedger' /\ QueueBounded'
    BY DEF EmitDatagram, GoOn, Phases, QueueLedger, QueueBounded
  <2>7. Ordered' /\ Current'
    BY <2>3 DEF EmitDatagram, GoOn, Ordered, Current, DataTypes
  <2> QED
    BY <2>1, <2>2, <2>5, <2>6, <2>7
<1>15. CASE PacketDone
  <2>1. FlagTypes' /\ PcTypes'
    <3>1. FlagTypes'
      BY <1>15 DEF PacketDone, FlagTypes, GoOn
    <3>2. PcTypes'
      BY <1>15 DEF PacketDone, PcTypes, GoOn, Session!SessionTypes
    <3> QED
      BY <3>1, <3>2
  <2>2. DataTypes'
    BY <1>15 DEF PacketDone, DataTypes, GoOn
  <2>3. Phases' /\ QueueLedger' /\ QueueBounded'
    BY <1>15 DEF PacketDone, DataTypes, Phases, QueueLedger, QueueBounded, GoOn
  <2>4. Ordered' /\ Current'
    BY <1>15 DEF PacketDone, DataTypes, Ordered, Current, GoOn
  <2> QED
    BY <2>1, <2>2, <2>3, <2>4
<1>16. CASE MuxerFails
  <2>1. FlagTypes' /\ PcTypes'
    <3>1. FlagTypes'
      BY <1>16 DEF MuxerFails, FlagTypes, GoOn
    <3>2. PcTypes'
      BY <1>16 DEF MuxerFails, PcTypes, GoOn, Session!SessionTypes
    <3> QED
      BY <3>1, <3>2
  <2>2. DataTypes'
    BY <1>16 DEF MuxerFails, DataTypes, GoOn
  <2>3. Phases' /\ QueueLedger' /\ QueueBounded'
    BY <1>16 DEF MuxerFails, DataTypes, Phases, QueueLedger, QueueBounded, GoOn
  <2>4. Ordered' /\ Current'
    BY <1>16 DEF MuxerFails, DataTypes, Ordered, Current, GoOn
  <2> QED
    BY <2>1, <2>2, <2>3, <2>4
<1>17. CASE Enqueue
  <2> DEFINE d       == [encDgram EXCEPT !.off = totalBytes, !.epoch = epoch]
             restart == dropUntilKeyframe /\ d.key
             q       == IF restart THEN <<>> ELSE queue
             bytes   == IF restart THEN 0 ELSE queueBytes
  <2>1. /\ d \in Datagram /\ d.off = totalBytes /\ d.epoch = epoch
        /\ d.size = encDgram.size /\ d.pts = encDgram.pts /\ d.key = encDgram.key
        /\ d.size \in Nat /\ d.pts \in Int /\ d.key \in BOOLEAN
    BY DEF DataTypes, Datagram
  <2>2. d.size > 0 /\ d.pts = encPts /\ encPts \in clock .. clock + Reorder
    BY <1>17, <2>1 DEF Enqueue, Ordered
  <2>3. q \in Seq(Datagram) /\ bytes \in Nat /\ (q = queue \/ q = <<>>)
    BY EmptySeq DEF DataTypes
  <2>4. \A i \in 1 .. Len(q) : /\ q[i].size \in Nat /\ q[i].off \in Nat
                               /\ q[i].pts \in Int /\ q[i].epoch \in Nat
    BY <2>3, ElementTypes
  <2>5. /\ UNCHANGED <<clock, epoch, sentEpoch, wkPc, wkItem>>
        /\ encDgram' = NoDatagram /\ encPc' \in {"idle", "write"}
        /\ encPc' = "write" => encPts' = encPts
    BY <1>17 DEF Enqueue, GoOn
  <2>6. /\ (q = <<>> => bytes = 0)
        /\ bytes <= MaxQueueBytes
    BY DEF QueueLedger, QueueBounded
  <2>7. \/ queue' = queue /\ queueBytes' = queueBytes /\ totalBytes' = totalBytes
        \/ queue' = q /\ queueBytes' = bytes /\ totalBytes' = totalBytes
        \/ /\ ~Overflows(q, bytes, d)
           /\ queue' = Append(q, d)
           /\ queueBytes' = bytes + d.size
           /\ totalBytes' = totalBytes + d.size
    BY <1>17 DEF Enqueue
  <2>8. FlagTypes'
    BY <1>17, <2>1 DEF Enqueue, GoOn, FlagTypes
  <2>9. PcTypes'
    BY <1>17 DEF Enqueue, GoOn, PcTypes, Session!SessionTypes
  <2>10. Phases'
    BY <1>17 DEF Enqueue, GoOn, Phases
  <2>11. (q = queue /\ bytes = queueBytes) \/ (q = <<>> /\ bytes = 0)
    OBVIOUS
  <2> HIDE DEF d, restart, q, bytes
  <2>12. CASE /\ totalBytes' = totalBytes
              /\ \/ queue' = queue /\ queueBytes' = queueBytes
                 \/ queue' = <<>> /\ queueBytes' = 0
    <3>1. queue' \in Seq(Datagram) /\ queueBytes' \in Nat
      <4>1. /\ queue \in Seq(Datagram) /\ queueBytes \in Nat
            /\ <<>> \in Seq(Datagram)
        BY EmptySeq DEF DataTypes
      <4>2. CASE queue' = queue /\ queueBytes' = queueBytes
        BY <4>1, <4>2
      <4>3. CASE queue' = <<>> /\ queueBytes' = 0
        BY <4>1, <4>3
      <4> QED
        BY <2>12, <4>2, <4>3
    <3>2. DataTypes'
      BY <1>17, <2>5, <2>12, <3>1, NoDatagramType DEF Enqueue, GoOn, DataTypes
    <3>3. QueueLedger' /\ QueueBounded'
      <4>1. CASE queue' = queue /\ queueBytes' = queueBytes
        BY <2>12, <4>1 DEF QueueLedger, QueueBounded
      <4>2. CASE queue' = <<>> /\ queueBytes' = 0
        <5>1. Len(queue') = 0
          BY <4>2, EmptySeq
        <5>2. QueueLedger'
          BY <4>2, <5>1 DEF QueueLedger
        <5>3. QueueBounded'
          BY <4>2, <5>1 DEF QueueBounded
        <5> QED
          BY <5>2, <5>3
      <4> QED
        BY <2>12, <4>1, <4>2
    <3>4. Ordered' /\ Current'
      BY <2>2, <2>5, <2>12, EmptySeq DEF Ordered, Current
    <3> QED
      BY <2>8, <2>9, <2>10, <3>2, <3>3, <3>4
  <2>13. CASE /\ ~Overflows(q, bytes, d)
              /\ queue' = Append(q, d)
              /\ queueBytes' = bytes + d.size
              /\ totalBytes' = totalBytes + d.size
    <3>1. /\ queue' \in Seq(Datagram) /\ queue' # <<>>
          /\ Len(q) \in Nat /\ Len(queue') = Len(q) + 1
          /\ \A i \in 1 .. Len(q) : queue'[i] = q[i]
          /\ queue'[Len(q) + 1] = d
      BY <2>1, <2>3, <2>13, PushFacts
    <3>2. totalBytes \in Nat /\ clock \in Nat /\ epoch \in Nat
      BY DEF DataTypes
    <3>3. DataTypes'
      <4>1. queueBytes' \in Nat /\ totalBytes' \in Nat /\ encDgram' \in Datagram
        BY <2>1, <2>3, <2>5, <2>13, <3>2, NoDatagramType
      <4> QED
        BY <1>17, <3>1, <4>1 DEF Enqueue, GoOn, DataTypes
    <3>4. q = <<>> <=> Len(q) = 0
      BY <2>3, EmptySeq
    <3>5. QueueLedger'
      <4>1. /\ \A i \in 1 .. Len(q) :
                  q[i].size > 0 /\ q[i].off + q[i].size <= totalBytes
            /\ \A i \in 1 .. Len(q) - 1 : q[i + 1].off = q[i].off + q[i].size
            /\ q # <<>> => /\ q[Len(q)].off + q[Len(q)].size = totalBytes
                           /\ bytes = totalBytes - q[1].off
        BY <2>11, EmptySeq DEF QueueLedger
      <4>2. \A i \in 1 .. Len(queue') :
              /\ queue'[i].size > 0
              /\ queue'[i].off + queue'[i].size <= totalBytes'
        <5> TAKE i \in 1 .. Len(queue')
        <5>1. CASE i \in 1 .. Len(q)
          BY <2>1, <2>4, <2>13, <3>1, <3>2, <4>1, <5>1
        <5>2. CASE i = Len(q) + 1
          BY <2>1, <2>2, <2>13, <3>1, <3>2, <5>2
        <5> QED
          BY <3>1, <5>1, <5>2
      <4>3. \A i \in 1 .. Len(queue') - 1 :
              queue'[i + 1].off = queue'[i].off + queue'[i].size
        <5> TAKE i \in 1 .. Len(queue') - 1
        <5>1. CASE i < Len(q)
          BY <3>1, <4>1, <5>1
        <5>2. CASE i = Len(q)
          BY <2>1, <3>1, <3>4, <4>1, <5>2
        <5> QED
          BY <3>1, <5>1, <5>2
      <4>4. queueBytes' = totalBytes' - queue'[1].off
        <5>1. CASE Len(q) = 0
          BY <2>1, <2>6, <2>13, <3>1, <3>2, <3>4, <5>1
        <5>2. CASE Len(q) > 0
          BY <2>1, <2>4, <2>13, <3>1, <3>2, <3>4, <4>1, <5>2
        <5> QED
          BY <3>1, <5>1, <5>2
      <4> QED
        BY <2>1, <2>13, <3>1, <4>2, <4>3, <4>4 DEF QueueLedger
    <3>6. QueueBounded'
      <4>1. bytes + d.size <= MaxQueueBytes
        BY <2>1, <2>3, <2>13 DEF Overflows
      <4>2. q # <<>> => d.pts - q[1].pts <= MaxQueueDuration
        BY <2>1, <2>3, <2>4, <2>13, <3>1, <3>4 DEF Overflows
      <4>3. /\ \A i \in 1 .. Len(q) : \A j \in 1 .. i :
                 q[i].pts - q[j].pts <= MaxQueueDuration + Reorder
            /\ \A j \in 1 .. Len(q) : q[1].pts <= q[j].pts + Reorder
        BY <2>11, <3>1, EmptySeq DEF QueueBounded, Ordered
      <4>4. \A j \in 1 .. Len(q) : d.pts - q[j].pts <= MaxQueueDuration + Reorder
        <5> TAKE j \in 1 .. Len(q)
        <5>1. /\ 1 \in 1 .. Len(q) /\ q # <<>>
              /\ q[1].pts \in Int /\ q[j].pts \in Int /\ d.pts \in Int
          BY <2>1, <2>4, <3>1, <3>4
        <5>2. d.pts - q[1].pts <= MaxQueueDuration /\ q[1].pts <= q[j].pts + Reorder
          BY <4>2, <4>3, <5>1
        <5> QED
          BY <5>1, <5>2
      <4>5. \A i \in 1 .. Len(queue') : \A j \in 1 .. i :
              queue'[i].pts - queue'[j].pts <= MaxQueueDuration + Reorder
        BY <2>1, <2>4, <3>1, <4>3, <4>4
      <4> QED
        BY <2>13, <4>1, <4>5 DEF QueueBounded
    <3>7. Ordered'
      <4>1. /\ \A i \in 1 .. Len(q) : q[i].pts <= clock + Reorder
            /\ \A i \in 1 .. Len(q) : \A j \in 1 .. i :
                 q[j].pts <= q[i].pts + Reorder
        BY <2>11, EmptySeq DEF Ordered
      <4>2. d.pts >= clock /\ d.pts <= clock + Reorder
        BY <2>2, <3>2
      <4>3. \A i \in 1 .. Len(queue') : queue'[i].pts <= clock + Reorder
        BY <3>1, <4>1, <4>2
      <4>4. \A i \in 1 .. Len(queue') : \A j \in 1 .. i :
              queue'[j].pts <= queue'[i].pts + Reorder
        <5> TAKE i \in 1 .. Len(queue')
        <5> TAKE j \in 1 .. i
        <5>1. CASE i \in 1 .. Len(q)
          BY <3>1, <4>1, <5>1
        <5>2. CASE i = Len(q) + 1 /\ j \in 1 .. Len(q)
          BY <2>1, <2>4, <3>1, <3>2, <4>1, <4>2, <5>2
        <5>3. CASE i = Len(q) + 1 /\ j = i
          BY <2>1, <3>1, <5>3
        <5> QED
          BY <3>1, <5>1, <5>2, <5>3
      <4> QED
        BY <2>2, <2>5, <4>3, <4>4 DEF Ordered
    <3>8. Current'
      BY <2>1, <2>5, <2>11, <3>1, EmptySeq DEF Current
    <3> QED
      BY <2>8, <2>9, <2>10, <3>3, <3>5, <3>6, <3>7, <3>8
  <2> QED
    BY <2>7, <2>11, <2>12, <2>13
<1>18. CASE WorkerPop
  <2>1. FlagTypes' /\ PcTypes'
    BY <1>18 DEF WorkerPop, FlagTypes, PcTypes, Session!SessionTypes
  <2>2. /\ queue \in Seq(Datagram) /\ queue # <<>>
        /\ wkItem' = Head(queue) /\ queue' = Tail(queue)
        /\ queueBytes' = queueBytes - Head(queue).size
    BY <1>18 DEF WorkerPop, Popped, DataTypes
  <2>3. /\ Head(queue) \in Datagram /\ Head(queue) = queue[1]
        /\ queue' \in Seq(Datagram)
        /\ Len(queue) \in Nat /\ Len(queue) >= 1
        /\ Len(queue') = Len(queue) - 1
        /\ \A i \in 1 .. Len(queue') : queue'[i] = queue[i + 1]
    BY <2>2, PopFacts
  <2>4. \A i \in 1 .. Len(queue) : /\ queue[i].size \in Nat
                                   /\ queue[i].off \in Nat
                                   /\ queue[i].pts \in Int
                                   /\ queue[i].epoch \in Nat
    BY <2>2, ElementTypes
  <2>5. QueueLedger'
    <3>1. CASE Len(queue) = 1
      <4>1. queue' = <<>>
        BY <2>3, <3>1, EmptySeq
      <4>2. queueBytes' = 0
        BY <2>2, <2>3, <2>4, <3>1 DEF QueueLedger, DataTypes
      <4> QED
        BY <4>1, <4>2, EmptySeq DEF QueueLedger
    <3>2. CASE Len(queue) > 1
      <4>1. /\ queue' # <<>> /\ queue'[1] = queue[2]
            /\ queue'[Len(queue')] = queue[Len(queue)]
        BY <2>3, <3>2, EmptySeq
      <4>2. totalBytes' = totalBytes /\ totalBytes \in Nat
        BY <1>18 DEF WorkerPop, DataTypes
      <4>3. queueBytes' = totalBytes - queue[2].off
        BY <2>2, <2>3, <2>4, <3>2, <4>2 DEF QueueLedger, DataTypes
      <4>4. \A i \in 1 .. Len(queue') :
              /\ queue'[i].size > 0
              /\ queue'[i].off + queue'[i].size <= totalBytes
        BY <2>2, <2>3, <2>4 DEF QueueLedger
      <4>5. \A i \in 1 .. Len(queue') - 1 :
              queue'[i + 1].off = queue'[i].off + queue'[i].size
        BY <2>2, <2>3, <2>4 DEF QueueLedger
      <4>6. queue[Len(queue)].off + queue[Len(queue)].size = totalBytes
        BY <2>2 DEF QueueLedger
      <4> QED
        BY <4>1, <4>2, <4>3, <4>4, <4>5, <4>6 DEF QueueLedger
    <3> QED
      BY <2>3, <3>1, <3>2
  <2>6. queueBytes' \in Nat
    BY <2>2, <2>3, <2>4 DEF QueueLedger, DataTypes
  <2>7. DataTypes'
    BY <1>18, <2>2, <2>3, <2>6 DEF WorkerPop, DataTypes
  <2>8. QueueBounded'
    BY <1>18, <2>2, <2>3, <2>4, <2>6 DEF WorkerPop, QueueBounded, DataTypes
  <2>9. Phases' /\ Ordered' /\ Current'
    BY <1>18, <2>2, <2>3, <2>4 DEF WorkerPop, Phases, Ordered, Current, DataTypes
  <2> QED
    BY <2>1, <2>5, <2>7, <2>8, <2>9
<1>19. CASE WorkerExit
  <2>1. FlagTypes' /\ PcTypes'
    <3>1. FlagTypes'
      BY <1>19 DEF WorkerExit, FlagTypes
    <3>2. PcTypes'
      BY <1>19 DEF WorkerExit, PcTypes, Session!SessionTypes
    <3> QED
      BY <3>1, <3>2
  <2>2. DataTypes'
    BY <1>19 DEF WorkerExit, DataTypes
  <2>3. Phases' /\ QueueLedger' /\ QueueBounded'
    BY <1>19 DEF WorkerExit, DataTypes, Phases, QueueLedger, QueueBounded
  <2>4. Ordered' /\ Current'
    BY <1>19 DEF WorkerExit, DataTypes, Ordered, Current
  <2> QED
    BY <2>1, <2>2, <2>3, <2>4
<1>20. CASE SendOk
  <2>1. FlagTypes' /\ PcTypes'
    <3>1. FlagTypes'
      BY <1>20 DEF SendOk, FlagTypes
    <3>2. PcTypes'
      BY <1>20 DEF SendOk, PcTypes, Session!SessionTypes
    <3> QED
      BY <3>1, <3>2
  <2>2. DataTypes'
    BY <1>20, NoDatagramType, FieldTypes DEF SendOk, DataTypes
  <2>3. Phases' /\ QueueLedger' /\ QueueBounded'
    BY <1>20, NoDatagramType, FieldTypes DEF SendOk, DataTypes, Phases, QueueLedger, QueueBounded
  <2>4. Ordered' /\ Current'
    BY <1>20, NoDatagramType, FieldTypes DEF SendOk, DataTypes, Ordered, Current
  <2> QED
    BY <2>1, <2>2, <2>3, <2>4
<1>21. CASE SendFails
  <2>1. FlagTypes' /\ PcTypes'
    <3>1. FlagTypes'
      BY <1>21 DEF SendFails, FlagTypes
    <3>2. PcTypes'
      BY <1>21 DEF SendFails, PcTypes, Session!SessionTypes
    <3> QED
      BY <3>1, <3>2
  <2>2. DataTypes'
    BY <1>21, NoDatagramType DEF SendFails, DataTypes
  <2>3. Phases' /\ QueueLedger' /\ QueueBounded'
    BY <1>21, NoDatagramType DEF SendFails, DataTypes, Phases, QueueLedger, QueueBounded
  <2>4. Ordered' /\ Current'
    BY <1>21, NoDatagramType DEF SendFails, DataTypes, Ordered, Current
  <2> QED
    BY <2>1, <2>2, <2>3, <2>4
<1>22. CASE FailureClear
  <2>1. FlagTypes'
    BY <1>22 DEF FailureClear, FlagTypes
  <2>2. PcTypes'
    BY <1>22 DEF FailureClear, PcTypes, Session!SessionTypes
  <2>3. \/ queue' = queue /\ queueBytes' = queueBytes
        \/ queue' = <<>> /\ queueBytes' = 0
    BY <1>22 DEF FailureClear
  <2>4. DataTypes'
    <3>1. <<>> \in Seq(Datagram)
      BY EmptySeq
    <3>2. queue' \in Seq(Datagram) /\ queueBytes' \in Nat
      <4>1. queue \in Seq(Datagram) /\ queueBytes \in Nat
        BY DEF DataTypes
      <4>2. CASE queue' = queue /\ queueBytes' = queueBytes
        BY <4>1, <4>2
      <4>3. CASE queue' = <<>> /\ queueBytes' = 0
        BY <3>1, <4>1, <4>3
      <4> QED
        BY <2>3, <4>2, <4>3
    <3> QED
      BY <1>22, <3>2 DEF FailureClear, DataTypes
  <2>5. Phases' /\ QueueLedger' /\ QueueBounded'
    BY <1>22, <2>3, EmptySeq
       DEF FailureClear, DataTypes, Phases, QueueLedger, QueueBounded
  <2>6. Ordered' /\ Current'
    BY <1>22, <2>3, EmptySeq DEF FailureClear, DataTypes, Ordered, Current
  <2> QED
    BY <2>1, <2>2, <2>4, <2>5, <2>6
<1>23. CASE FailureMark
  <2>1. FlagTypes' /\ PcTypes'
    <3>1. FlagTypes'
      BY <1>23 DEF FailureMark, FlagTypes
    <3>2. PcTypes'
      BY <1>23 DEF FailureMark, PcTypes, Session!SessionTypes
    <3> QED
      BY <3>1, <3>2
  <2>2. DataTypes'
    BY <1>23 DEF FailureMark, DataTypes
  <2>3. Phases' /\ QueueLedger' /\ QueueBounded'
    BY <1>23 DEF FailureMark, DataTypes, Phases, QueueLedger, QueueBounded
  <2>4. Ordered' /\ Current'
    BY <1>23 DEF FailureMark, DataTypes, Ordered, Current
  <2> QED
    BY <2>1, <2>2, <2>3, <2>4
<1>24. CASE SendCheck
  <2>1. FlagTypes' /\ PcTypes'
    <3>1. FlagTypes'
      BY <1>24 DEF SendCheck, FlagTypes
    <3>2. PcTypes'
      BY <1>24 DEF SendCheck, PcTypes, Session!SessionTypes
    <3> QED
      BY <3>1, <3>2
  <2>2. DataTypes'
    BY <1>24 DEF SendCheck, DataTypes
  <2>3. Phases' /\ QueueLedger' /\ QueueBounded'
    BY <1>24 DEF SendCheck, DataTypes, Phases, QueueLedger, QueueBounded
  <2>4. Ordered' /\ Current'
    BY <1>24 DEF SendCheck, DataTypes, Ordered, Current
  <2> QED
    BY <2>1, <2>2, <2>3, <2>4
<1>25. CASE UNCHANGED vars
  BY <1>25 DEF vars, FlagTypes, PcTypes, Session!SessionTypes, DataTypes, Phases, QueueLedger,
     QueueBounded, Ordered, Current
<1> QED
  BY <1>1, <1>2, <1>3, <1>4, <1>5, <1>6, <1>7, <1>8, <1>9, <1>10, <1>11, <1>12, <1>13, <1>14, <1>15, <1>16, <1>17, <1>18, <1>19, <1>20, <1>21, <1>22, <1>23, <1>24, <1>25 DEF Next

(* IInv is an invariant of the media path. *)
LEMMA IInvInvariant == Spec => []IInv
<1>1. Init => IInv
  BY InitIInv
<1>2. IInv /\ [Next]_vars => IInv'
  BY NextIInv
<1> QED
  BY <1>1, <1>2, PTL DEF Spec

-----------------------------------------------------------------------------
(* Every variable keeps its type; queue_bytes, which the worker decreases   *)
(* by the size of what it pops, never goes below zero (it is unsigned).     *)
THEOREM TypeCorrect == Spec => []TypeOK
<1>1. IInv => TypeOK
  BY DEF IInv
<1> QED
  BY <1>1, IInvInvariant, PTL

(* The queue's books balance in every interleaving of encoder, worker,      *)
(* connector and start/stop, although start does not reset queue_bytes.     *)
THEOREM LedgerCorrect == Spec => []QueueLedger
<1>1. IInv => QueueLedger
  BY DEF IInv
<1> QED
  BY <1>1, IInvInvariant, PTL

(* The queue respects its byte limit, and its duration limit up to the      *)
(* encoder's reordering distance.                                           *)
THEOREM BoundCorrect == Spec => []QueueBounded
<1>1. IInv => QueueBounded
  BY DEF IInv
<1> QED
  BY <1>1, IInvInvariant, PTL

(* After a Reconnecting report at most one datagram that was queued before  *)
(* it reaches the session: the one the worker already held.                 *)
THEOREM StaleCorrect == Spec => StaleAtMostOne
<1> DEFINE Fresh == SendOk /\ wkItem.epoch < epoch => sentEpoch < epoch
<1>1. IInv /\ [Next]_vars => [Fresh]_vars
  BY DEF IInv, Current, SendOk
<1> QED
  BY <1>1, IInvInvariant, PTL DEF Spec, StaleAtMostOne

-----------------------------------------------------------------------------
(* Steps that touch neither the stream nor the encoder's place in it. *)
LEMMA SameStream ==
  ASSUME Continuous,
         UNCHANGED <<encPc, encDgram, seq, rejected, wkPc, wkItem, lastSent, queue,
                     dropUntilKeyframe, running, opener, muxHealthy>>,
         needsMuxerReset => needsMuxerReset'
  PROVE  Continuous'
BY DEF Continuous, InHand, Taken, Latest, Follows

(* An empty queue in a drop phase has nothing to continue. *)
LEMMA Discarded ==
  ASSUME Continuous, queue' = <<>>, dropUntilKeyframe' = TRUE,
         UNCHANGED <<encPc, encDgram, seq, rejected, wkItem, lastSent>>,
         wkPc' = wkPc \/ (wkPc = "failed" /\ wkPc' = "mark")
  PROVE  Continuous'
BY EmptySeq DEF Continuous, InHand, Taken, Follows

(* Steps of the output without a running encoder callback. *)
LEMMA ControlContinuous ==
  ASSUME IInv, Continuous,
         StartSession \/ StartQueue \/ StartRun \/ StartFail \/ StopBegin
           \/ StopWorker \/ StopFinish
  PROVE  Continuous'
<1> USE DEF ctlVars, flagVars, qVars, muxVars, encVars, wkVars, sessVars
<1>1. CASE StartSession \/ StartFail
  BY <1>1, SameStream DEF StartSession, StartFail
<1>2. CASE StartQueue
  BY <1>2 DEF StartQueue, IInv, Phases, Continuous
<1>3. CASE StartRun
  <2>1. queue = <<>> /\ encPc = "idle"
    BY <1>3 DEF StartRun, IInv, Phases
  <2> QED
    BY <1>3, <2>1, EmptySeq DEF StartRun, Continuous, InHand, Taken, Latest
<1>4. CASE StopBegin
  BY <1>4 DEF StopBegin, Continuous, InHand, Taken, Latest, Follows
<1>5. CASE StopWorker
  <2>1. encPc = "idle" /\ ~running
    BY <1>5 DEF StopWorker, CaptureEnded, IInv, Phases
  <2> QED
    BY <1>5, <2>1, EmptySeq DEF StopWorker, Continuous, InHand, Follows
<1>6. CASE StopFinish
  BY <1>6 DEF StopFinish, IInv, Phases, Continuous
<1> QED
  BY <1>1, <1>2, <1>3, <1>4, <1>5, <1>6

(* Steps of the connector. *)
LEMMA ConnectorContinuous ==
  ASSUME Continuous,
         Disconnect \/ ReconnectingClear \/ ReconnectingMark \/ Reconnected
  PROVE  Continuous'
<1> USE DEF ctlVars, flagVars, qVars, muxVars, encVars, wkVars
<1>1. CASE ReconnectingClear
  BY <1>1, Discarded DEF ReconnectingClear, DiscardQueued
<1>2. CASE Disconnect \/ ReconnectingMark \/ Reconnected
  BY <1>2, SameStream DEF Disconnect, ReconnectingMark, Reconnected
<1> QED
  BY <1>1, <1>2

(* Steps of the encoder callback outside the queue's lock: where a packet   *)
(* or a datagram is lost, no delta can follow it.                           *)
LEMMA EncoderContinuous ==
  ASSUME IInv, Continuous,
         \/ \E key \in BOOLEAN, pts \in clock + 1 .. clock + 1 + Reorder :
               EncodedPacket(key, pts)
         \/ ApplyReset \/ PacketDone \/ MuxerFails
         \/ \E size \in Sizes, tail \in BOOLEAN : EmitDatagram(size, tail)
  PROVE  Continuous'
<1> USE DEF ctlVars, flagVars, qVars, muxVars, wkVars
<1>1. CASE \E key \in BOOLEAN, pts \in clock + 1 .. clock + 1 + Reorder :
             EncodedPacket(key, pts)
  BY <1>1 DEF EncodedPacket, Continuous, InHand, Taken, Latest, Follows
<1>2. CASE ApplyReset
  BY <1>2 DEF ApplyReset, Continuous, InHand, Taken, Latest, Follows
<1>3. CASE PacketDone
  BY <1>3 DEF PacketDone, GoOn, Continuous, InHand, Taken, Latest, Follows
<1>4. CASE MuxerFails
  BY <1>4 DEF MuxerFails, GoOn, Continuous, InHand, Taken, Latest, Follows
<1>5. CASE \E size \in Sizes, tail \in BOOLEAN : EmitDatagram(size, tail)
  BY <1>5 DEF EmitDatagram, GoOn, Continuous, InHand, Taken, Latest, Follows
<1> QED
  BY <1>1, <1>2, <1>3, <1>4, <1>5

(* Steps of the worker. *)
LEMMA WorkerContinuous ==
  ASSUME IInv, Continuous,
         WorkerPop \/ WorkerExit \/ SendCheck \/ SendOk \/ SendFails
           \/ FailureClear \/ FailureMark
  PROVE  Continuous'
<1> USE DEF ctlVars, flagVars, qVars, muxVars, encVars, sessVars
<1>1. CASE WorkerPop
  <2>1. /\ wkPc = "wait" /\ wkPc' = "popped" /\ queue # <<>>
        /\ wkItem' = queue[1] /\ Len(queue) \in Nat /\ Len(queue) >= 1
        /\ queue' \in Seq(Datagram) /\ Len(queue') = Len(queue) - 1
        /\ \A i \in 1 .. Len(queue') : queue'[i] = queue[i + 1]
    BY <1>1, PopFacts DEF WorkerPop, IInv, TypeOK, DataTypes
  <2>2. UNCHANGED <<encPc, encDgram, seq, rejected, lastSent, dropUntilKeyframe,
                    needsMuxerReset, running, opener, muxHealthy>>
    BY <1>1 DEF WorkerPop
  <2>3. queue' = <<>> <=> Len(queue) = 1
    BY <2>1, EmptySeq
  <2>4. Latest' = Latest
    BY <2>1, <2>2, <2>3 DEF Latest, Taken, InHand
  <2>5. Taken = lastSent /\ Taken' = queue[1].seq
    BY <2>1 DEF Taken, InHand
  <2>6. CASE ~rejected
    <3>1. Follows(wkItem', lastSent')
      BY <2>1, <2>2, <2>5, <2>6 DEF Continuous
    <3>2. queue' # <<>> => Follows(queue'[1], Taken')
      BY <2>1, <2>3, <2>5, <2>6 DEF Continuous
    <3>3. \A i \in 1 .. Len(queue') - 1 : Follows(queue'[i + 1], queue'[i].seq)
      BY <2>1, <2>6 DEF Continuous
    <3>4. InHand'
      BY <2>1 DEF InHand
    <3>5. ~dropUntilKeyframe =>
            /\ encPc \in {"enqueue", "enqueueTail"} => Follows(encDgram, Latest')
            /\ running /\ encPc \in {"idle", "checked", "write"} =>
                 \/ Latest' = seq \/ opener \in {"key", "stolen"} \/ ~muxHealthy
                 \/ needsMuxerReset /\ encPc # "write"
      BY <2>1, <2>4, <2>6 DEF Continuous
    <3> QED
      BY <2>2, <3>1, <3>2, <3>3, <3>4, <3>5 DEF Continuous
  <2> QED
    BY <2>2, <2>6 DEF Continuous
<1>2. CASE WorkerExit \/ SendFails
  BY <1>2 DEF WorkerExit, SendFails, Continuous
<1>3. CASE SendCheck
  BY <1>3 DEF SendCheck, Continuous, InHand, Taken, Latest, Follows
<1>4. CASE SendOk
  BY <1>4 DEF SendOk, Continuous, InHand, Taken, Latest, Follows
<1>5. CASE FailureClear
  <2>1. CASE workerStop
    BY <1>5, <2>1 DEF FailureClear, Continuous
  <2>2. CASE ~workerStop
    BY <1>5, <2>2, Discarded DEF FailureClear
  <2> QED
    BY <2>1, <2>2
<1>6. CASE FailureMark
  BY <1>6 DEF FailureMark, Continuous, InHand, Taken, Latest, Follows
<1> QED
  BY <1>1, <1>2, <1>3, <1>4, <1>5, <1>6

(* enqueue_datagram: what it accepts follows, what it drops starts a drop   *)
(* phase.                                                                   *)
LEMMA EnqueueContinuous ==
  ASSUME IInv, Continuous, Enqueue
  PROVE  Continuous'
<1> USE DEF ctlVars, flagVars, qVars, muxVars, wkVars
<1> DEFINE d       == [encDgram EXCEPT !.off = totalBytes, !.epoch = epoch]
           restart == dropUntilKeyframe /\ d.key
           q       == IF restart THEN <<>> ELSE queue
           bytes   == IF restart THEN 0 ELSE queueBytes
<1>1. /\ encPc \in {"enqueue", "enqueueTail"} /\ encPc' \in {"idle", "write"}
      /\ UNCHANGED <<seq, rejected, wkPc, wkItem, lastSent, running, opener,
                     muxHealthy>>
  BY DEF Enqueue, GoOn
<1>2. /\ d \in Datagram /\ d.seq = encDgram.seq /\ d.key = encDgram.key
      /\ d.opens = encDgram.opens /\ queue \in Seq(Datagram)
  BY DEF IInv, TypeOK, DataTypes, Datagram
<1>3. d.seq = seq
  BY <1>1, <1>2 DEF Continuous
<1>4. \/ Refuses(d) /\ UNCHANGED <<queue, dropUntilKeyframe>>
      \/ queue' = q /\ dropUntilKeyframe' = TRUE
      \/ /\ ~Refuses(d) /\ queue' = Append(q, d)
         /\ dropUntilKeyframe' = (dropUntilKeyframe /\ ~d.key)
  BY DEF Enqueue
<1>5. encPc' \notin {"enqueue", "enqueueTail"} /\ Taken' = Taken /\ InHand' = InHand
  BY <1>1 DEF Taken, InHand
<1>6. q = <<>> \/ q = queue
  OBVIOUS
<1> HIDE DEF d, restart, q, bytes
<1>7. CASE rejected \/ wkPc \in {"failed", "off"}
  BY <1>1, <1>5, <1>7 DEF Continuous
<1>8. CASE ~rejected /\ wkPc \notin {"failed", "off"}
  <2>1. /\ InHand => Follows(wkItem, lastSent)
        /\ queue # <<>> => Follows(queue[1], Taken)
        /\ \A i \in 1 .. Len(queue) - 1 : Follows(queue[i + 1], queue[i].seq)
    BY <1>8 DEF Continuous
  <2>2. /\ q \in Seq(Datagram) /\ Len(q) \in Nat
        /\ q # <<>> => Follows(q[1], Taken)
        /\ \A i \in 1 .. Len(q) - 1 : Follows(q[i + 1], q[i].seq)
    <3>1. CASE q = <<>>
      BY <3>1, EmptySeq
    <3>2. CASE q = queue
      BY <1>2, <2>1, <3>2, LenProperties
    <3> QED
      BY <1>6, <3>1, <3>2
  <2>3. CASE (queue' = queue \/ queue' = q) /\ dropUntilKeyframe'
    BY <1>1, <1>5, <2>1, <2>2, <2>3 DEF Continuous
  <2>4. CASE ~Refuses(d) /\ queue' = Append(q, d)
    <3>1. /\ queue' # <<>> /\ Len(queue') = Len(q) + 1
          /\ \A i \in 1 .. Len(q) : queue'[i] = q[i]
          /\ queue'[Len(q) + 1] = d
      BY <1>2, <2>2, <2>4, PushFacts
    <3>2. Latest' = seq
      BY <1>3, <3>1 DEF Latest
    <3>3. Follows(d, IF q = <<>> THEN Taken ELSE q[Len(q)].seq)
      <4>1. CASE d.key
        BY <4>1 DEF Follows
      <4>2. CASE ~d.key
        <5>1. ~dropUntilKeyframe /\ q = queue
          BY <2>4, <4>2 DEF Refuses, restart, q
        <5>2. Follows(encDgram, Latest)
          BY <1>1, <1>8, <5>1 DEF Continuous
        <5> QED
          BY <1>2, <5>1, <5>2 DEF Follows, Latest
      <4> QED
        BY <4>1, <4>2
    <3>4. Follows(queue'[1], Taken')
      <4>1. CASE q = <<>>
        BY <1>5, <3>1, <3>3, <4>1, EmptySeq
      <4>2. CASE q # <<>>
        <5>1. 1 \in 1 .. Len(q)
          BY <2>2, <4>2, EmptySeq
        <5> QED
          BY <1>5, <2>2, <3>1, <4>2, <5>1
      <4> QED
        BY <4>1, <4>2
    <3>5. \A i \in 1 .. Len(queue') - 1 : Follows(queue'[i + 1], queue'[i].seq)
      <4> TAKE i \in 1 .. Len(queue') - 1
      <4>1. CASE i = Len(q)
        <5>1. q # <<>> /\ queue'[i] = q[i] /\ queue'[i + 1] = d
          BY <2>2, <3>1, <4>1, EmptySeq
        <5> QED
          BY <3>3, <4>1, <5>1
      <4>2. CASE i # Len(q)
        BY <2>2, <3>1, <4>2
      <4> QED
        BY <4>1, <4>2
    <3> QED
      BY <1>1, <1>5, <2>1, <3>2, <3>4, <3>5 DEF Continuous
  <2> QED
    BY <1>4, <2>3, <2>4 DEF Refuses
<1> QED
  BY <1>7, <1>8

(* The stream is continuous in this sense from the muxer to the session. *)
LEMMA ContinuousInvariant == Spec => []Continuous
<1>1. Init => Continuous
  BY EmptySeq DEF Init, Continuous
<1>2. IInv /\ Continuous /\ [Next]_vars => Continuous'
  <2> SUFFICES ASSUME IInv, Continuous, [Next]_vars PROVE Continuous'
    OBVIOUS
  <2>1. CASE Enqueue
    BY <2>1, EnqueueContinuous
  <2>2. CASE UNCHANGED vars
    BY <2>2, SameStream DEF vars
  <2> QED
    BY <2>1, <2>2, ControlContinuous, ConnectorContinuous, EncoderContinuous,
       WorkerContinuous DEF Next
<1> QED
  BY <1>1, <1>2, IInvInvariant, PTL DEF Spec

(* Whatever is dropped, discarded, refused or lost on the way, a datagram   *)
(* that the session accepts continues what was sent before it, is tagged as *)
(* keyframe, or opens a section that a keyframe began - except the one that *)
(* a delta opens by taking a reset asked for after its own test of          *)
(* needs_muxer_reset, and until a healthy muxer rejects a packet.           *)
THEOREM SpliceCorrect == Spec => NoSplice
<1> DEFINE Spliced == SendOk /\ ~rejected =>
                        \/ wkItem.seq = lastSent + 1
                        \/ wkItem.key
                        \/ wkItem.opens \in {"key", "stolen"}
<1>1. Continuous /\ [Next]_vars => [Spliced]_vars
  BY DEF Continuous, InHand, Follows, SendOk
<1> QED
  BY <1>1, ContinuousInvariant, PTL DEF Spec, NoSplice
=============================================================================
