------------------------------ MODULE TsMuxer ------------------------------
(***************************************************************************)
(* The MPEG-TS sink (plugin/mpegts-avformat-sink.cpp): encoded packets go  *)
(* into libavformat, the transport stream comes back through an AVIO       *)
(* callback and is cut into datagrams.  Everything runs on the encoder     *)
(* thread, except the destructor, which runs on the UI thread after the    *)
(* capture has ended.  The keyframe flag and time stamp that a datagram is *)
(* given are modelled in MediaQueue.                                       *)
(*                                                                         *)
(* A unit stands for the smallest piece of transport stream that the       *)
(* properties tell apart.  libavformat is external: it holds packets back  *)
(* to interleave the streams by time stamp, makes some number of units of  *)
(* each, and calls the write callback with any part of what it has         *)
(* buffered.                                                               *)
(***************************************************************************)
EXTENDS Naturals, Sequences, SequencesExt

CONSTANTS
  DatagramSize,  \* TS_DATAGRAM_SIZE, in units
  MaxUnits,      \* bound: units that a packet is muxed to
  HasAudio,      \* the output has an audio encoder
  MaxPackets,    \* bound: packets delivered by OBS
  MaxSections    \* bound: format contexts created

ASSUME MuxerAssumption ==
  /\ DatagramSize \in Nat \ {0} /\ MaxUnits \in Nat \ {0}
  /\ HasAudio \in BOOLEAN /\ MaxPackets \in Nat /\ MaxSections \in Nat

VARIABLES
  running,   \* SrtlaOutput::running, tested by the datagram callback
  healthy,   \* healthy_
  started,   \* header_written_: a format context exists
  held,      \* streams of the packets that libavformat holds back
  avio,      \* units in the AVIO buffer
  pending,   \* pending_, in units
  pc,        \* "idle", or "written" between write() and flush()
  section,   \* history: format contexts created so far
  made,      \* history: units produced in this context
  packets,   \* history: packets delivered
  sent,      \* history: datagrams that the callback let through
  fence      \* history: contexts and datagrams before the last reset

contextVars == <<held, avio, pending>>
vars == <<running, healthy, started, held, avio, pending, pc, section, made,
          packets, sent, fence>>

Streams == IF HasAudio THEN {"video", "audio"} ELSE {"video"}
Unit == [section: Nat, no: Nat]
Datagram == Seq(Unit)

FlagTypes == running \in BOOLEAN /\ healthy \in BOOLEAN /\ started \in BOOLEAN

TypeOK ==
  /\ FlagTypes
  /\ held \in Seq(Streams) /\ avio \in Seq(Unit) /\ pending \in Seq(Unit)
  /\ Len(pending) < DatagramSize
  /\ pc \in {"idle", "written"}
  /\ section \in Nat /\ made \in Nat /\ packets \in Nat
  /\ sent \in Seq(Datagram) /\ fence \in [section: Nat, sent: Nat]

Init ==
  /\ running = TRUE /\ healthy = TRUE /\ started = FALSE
  /\ held = <<>> /\ avio = <<>> /\ pending = <<>>
  /\ pc = "idle" /\ section = 0 /\ made = 0 /\ packets = 0
  /\ sent = <<>> /\ fence = [section |-> 0, sent |-> 0]

-----------------------------------------------------------------------------
(* libavformat *)

(* av_interleaved_write_frame hands out packets as long as every stream has *)
(* one; OBS delivers them in the order of their time stamps.                *)
AllStreams(q) == \A s \in Streams : \E i \in 1 .. Len(q) : q[i] = s
Released(q) == {k \in 0 .. Len(q) : ~AllStreams(SubSeq(q, k + 1, Len(q)))}

(* The numbers of units that k packets may be muxed to. *)
Muxed(k) == k .. k * MaxUnits

(* The next n units of a context. *)
UnitsOf(n, sec, from) == [i \in 1 .. n |-> [section |-> sec, no |-> from + i]]

-----------------------------------------------------------------------------
(* write_callback and emit_datagrams *)

(* Mutant: the loop runs while there is more than one datagram. *)
CountMore(buf) == IF buf = <<>> THEN 0 ELSE (Len(buf) - 1) \div DatagramSize

Count(buf) == Len(buf) \div DatagramSize

(* The full datagrams at the front of buf, and what is left of it. *)
Full(buf) ==
  [i \in 1 .. Count(buf) |->
     SubSeq(buf, (i - 1) * DatagramSize + 1, i * DatagramSize)]
Rest(buf) == SubSeq(buf, Count(buf) * DatagramSize + 1, Len(buf))

(* Mutant: flush() leaves the partial datagram. *)
NoPartial(buf) == <<>>

(* emit_datagrams(true) adds the rest as a shorter datagram. *)
Partial(buf) == IF Rest(buf) = <<>> THEN <<>> ELSE <<Rest(buf)>>

(* The callback of the output is enqueue_datagram, which tests running. *)
Deliver(datagrams) == sent' = IF running THEN sent \o datagrams ELSE sent

-----------------------------------------------------------------------------
(* write() creates the context if there is none (ensure_started,            *)
(* create_streams, write_header), then write_packet: the packet goes to     *)
(* libavformat, which releases some and calls back with part of its buffer. *)
Mux(stream, ok) ==
  LET q == Append(held, stream)
      sec == IF started THEN section ELSE section + 1
      first == IF started THEN made ELSE 0
  IN
  /\ pc = "idle" /\ running /\ healthy /\ packets < MaxPackets
  /\ started \/ section < MaxSections
  /\ packets' = packets + 1
  /\ started' = TRUE /\ section' = sec
  /\ \E k \in IF ok THEN Released(q) ELSE 0 .. Len(q) : \E n \in Muxed(k) :
        LET all == avio \o UnitsOf(n, sec, first)
        IN  /\ held' = SubSeq(q, k + 1, Len(q))
            /\ made' = first + n
            /\ \E j \in 0 .. Len(all) :
                  LET buf == pending \o SubSeq(all, 1, j)
                  IN  /\ avio' = SubSeq(all, j + 1, Len(all))
                      /\ pending' = Rest(buf)
                      /\ Deliver(Full(buf))
  /\ healthy' = ok
  /\ pc' = IF ok THEN "written" ELSE "idle"
  /\ UNCHANGED <<running, fence>>

(* A packet of a stream that the context does not have, or no memory for    *)
(* it: write() fails, the sink stays healthy.                               *)
Reject ==
  /\ pc = "idle" /\ running /\ healthy /\ packets < MaxPackets
  /\ started \/ section < MaxSections
  /\ packets' = packets + 1
  /\ started' = TRUE
  /\ section' = IF started THEN section ELSE section + 1
  /\ made' = IF started THEN made ELSE 0
  /\ UNCHANGED <<running, healthy, contextVars, pc, sent, fence>>

(* Mutant: destroy_context leaves the buffers as they are. *)
ContextKept == UNCHANGED contextVars

ContextCleared == held' = <<>> /\ avio' = <<>> /\ pending' = <<>>

(* ensure_started fails: the context it began is destroyed; no trailer, as  *)
(* no header was written.                                                   *)
StartFails ==
  /\ pc = "idle" /\ running /\ healthy /\ ~started /\ packets < MaxPackets
  /\ packets' = packets + 1
  /\ healthy' = FALSE
  /\ ContextCleared
  /\ UNCHANGED <<running, started, pc, section, made, sent, fence>>

(* flush(): the AVIO buffer and pending_ are emptied. *)
Flush ==
  /\ pc = "written"
  /\ pc' = "idle"
  /\ LET buf == pending \o avio
     IN  Deliver(Full(buf) \o Partial(buf))
         /\ pending' = IF Partial(buf) = <<>> THEN Rest(buf) ELSE <<>>
  /\ avio' = <<>>
  /\ UNCHANGED <<running, healthy, started, held, section, made, packets, fence>>

(* av_write_trailer still muxes what libavformat holds of the context. *)
WriteTrailer ==
  \E n \in Muxed(Len(held)) :
    LET buf == pending \o avio \o UnitsOf(n, section, made)
    IN  Deliver(IF started THEN Full(buf) ELSE <<>>)

(* Mutant: reset() destroys the context with its default argument. *)
ResetWithTrailer == WriteTrailer

(* destroy_context(false) writes nothing. *)
ResetSilently == UNCHANGED sent

(* reset(), before a keyframe is written after a reconnect or an overflow,  *)
(* also of a sink that has failed.                                          *)
Reset ==
  /\ pc = "idle" /\ running
  /\ ResetSilently
  /\ ContextCleared
  /\ healthy' = TRUE /\ started' = FALSE
  /\ fence' = [section |-> section, sent |-> Len(sent)]
  /\ UNCHANGED <<running, pc, section, made, packets>>

(* The output stops; no callback of the encoder is in progress. *)
Stop ==
  /\ pc = "idle" /\ running
  /\ running' = FALSE
  /\ UNCHANGED <<healthy, started, contextVars, pc, section, made, packets, sent,
                 fence>>

(* The destructor writes the trailer while running is false; the next start *)
(* makes a new sink and sets running.                                       *)
Restart ==
  /\ ~running
  /\ WriteTrailer
  /\ running' = TRUE
  /\ ContextCleared
  /\ healthy' = TRUE /\ started' = FALSE
  /\ fence' = [section |-> section, sent |-> Len(sent)]
  /\ UNCHANGED <<pc, section, made, packets>>

Next ==
  \/ \E stream \in Streams, ok \in BOOLEAN : Mux(stream, ok)
  \/ Reject \/ StartFails \/ Flush \/ Reset \/ Stop \/ Restart

Spec == Init /\ [][Next]_vars

-----------------------------------------------------------------------------
(* The unit before the j-th of datagram i. *)
NoUnit == [section |-> 0, no |-> 0]
Before(s, i, j) ==
  IF j > 1 THEN s[i][j - 1] ELSE IF i > 1 THEN Last(s[i - 1]) ELSE NoUnit

(* Unit u comes right after unit v, or begins a context and a datagram. *)
Succeeds(u, v, j) ==
  IF u.section = v.section THEN u.no = v.no + 1
  ELSE u.section > v.section /\ u.no = 1 /\ j = 1

(* Datagrams of one to DatagramSize units each, which form such a stream. *)
Intact(s) ==
  \A i \in 1 .. Len(s) :
    /\ Len(s[i]) \in 1 .. DatagramSize
    /\ \A j \in 1 .. Len(s[i]) : Succeeds(s[i][j], Before(s, i, j), j)

(* The datagrams are the transport stream: every one has between one and    *)
(* DatagramSize units, and the units of a context appear once, in order,    *)
(* without a gap, however libavformat calls back; nothing of an older       *)
(* context is mixed in.                                                     *)
StreamIntact == Intact(sent)

(* "Do not write an old context's trailer into the new transport queue"     *)
(* (reset()), and the destructor's trailer does not get there either: what  *)
(* is sent after a reset or a restart comes from a context made after it.   *)
NewContextOnly ==
  \A i \in fence.sent + 1 .. Len(sent) :
    \A j \in 1 .. Len(sent[i]) : sent[i][j].section > fence.section

(* "A smaller final datagram bounds latency when the stream is idle"        *)
(* (srtla_output_encoded_packet): once a packet has been handled, a healthy *)
(* sink has handed out all that libavformat produced for this run.          *)
NothingStuck ==
  pc = "idle" /\ healthy /\ running /\ started =>
    /\ avio = <<>> /\ pending = <<>>
    /\ made > 0 =>
         /\ sent # <<>>
         /\ Last(Last(sent)) = [section |-> section, no |-> made]
=============================================================================
