--------------------------- MODULE TsMuxerProofs ---------------------------
(***************************************************************************)
(* The datagrams are the transport stream, for any size of a datagram and  *)
(* any number of packets and contexts.                                     *)
(***************************************************************************)
EXTENDS TsMuxer, SequenceTheorems, TLAPS

(* The units of b are those of context sec that follow number base. *)
Run(b, sec, base) ==
  \A i \in 1 .. Len(b) : b[i] = [section |-> sec, no |-> base + i]

(* The last unit of a sequence of datagrams. *)
LastUnit(s) == IF s = <<>> THEN NoUnit ELSE Last(Last(s))

(* The number of the last unit of this context that is no longer buffered. *)
Gone == made - (Len(pending) + Len(avio))

(* What is buffered is the end of this context's units; *)
Buffered ==
  /\ started => /\ Len(pending) + Len(avio) <= made
                /\ Run(pending, section, Gone)
                /\ Run(avio, section, Gone + Len(pending))
  /\ ~started => held = <<>> /\ avio = <<>> /\ pending = <<>>

(* what was sent ends where it begins, or in an older context. *)
Joined ==
  /\ LastUnit(sent).section <= section
  /\ started => IF Gone > 0
                THEN LastUnit(sent) = [section |-> section, no |-> Gone]
                ELSE LastUnit(sent).section < section

(* Contexts made before and after the last reset. *)
Fenced ==
  /\ fence.section <= section /\ fence.sent <= Len(sent)
  /\ started => fence.section < section

(* A packet is flushed by a running, healthy sink; then nothing is left. *)
Flushed ==
  /\ pc = "written" => running /\ healthy /\ started
  /\ pc = "idle" /\ healthy /\ running /\ started => avio = <<>> /\ pending = <<>>

MInv == TypeOK /\ StreamIntact /\ NewContextOnly /\ Buffered /\ Joined /\ Fenced
        /\ Flushed

-----------------------------------------------------------------------------
(* A sequence cut into datagrams of full size but for the last one, which   *)
(* hold the units of context sec that follow number base, total of them.    *)
Chunks(out, sec, base, total) ==
  /\ out \in Seq(Datagram)
  /\ \A i \in 1 .. Len(out) :
       /\ Len(out[i]) \in 1 .. DatagramSize
       /\ i < Len(out) => Len(out[i]) = DatagramSize
       /\ Run(out[i], sec, base + (i - 1) * DatagramSize)
  /\ IF out = <<>> THEN total = 0
     ELSE total = (Len(out) - 1) * DatagramSize + Len(out[Len(out)])

LEMMA CountFacts ==
  ASSUME NEW b \in Seq(Unit)
  PROVE  /\ Count(b) \in Nat /\ Count(b) * DatagramSize \in Nat
         /\ Count(b) * DatagramSize <= Len(b)
         /\ Len(b) < Count(b) * DatagramSize + DatagramSize
<1>1. Len(b) \in Nat
  BY LenProperties
<1> QED
  BY <1>1, MuxerAssumption DEF Count

(* Runs one after the other are one run. *)
LEMMA RunConcat ==
  ASSUME NEW a \in Seq(Unit), NEW b \in Seq(Unit), NEW sec, NEW base \in Nat,
         Run(a, sec, base), Run(b, sec, base + Len(a))
  PROVE  /\ a \o b \in Seq(Unit) /\ Len(a \o b) = Len(a) + Len(b)
         /\ Run(a \o b, sec, base)
<1>1. /\ a \o b \in Seq(Unit) /\ Len(a) \in Nat /\ Len(b) \in Nat
      /\ Len(a \o b) = Len(a) + Len(b)
      /\ \A i \in 1 .. Len(a) : (a \o b)[i] = a[i]
      /\ \A i \in 1 .. Len(b) : (a \o b)[i + Len(a)] = b[i]
  OBVIOUS
<1>2. ASSUME NEW i \in 1 .. Len(a \o b)
      PROVE  (a \o b)[i] = [section |-> sec, no |-> base + i]
  <2>1. CASE i <= Len(a)
    BY <1>1, <2>1 DEF Run
  <2>2. CASE i > Len(a)
    <3>1. i - Len(a) \in 1 .. Len(b) /\ i = (i - Len(a)) + Len(a)
      BY <1>1, <2>2
    <3>2. (a \o b)[i] = b[i - Len(a)]
      BY <1>1, <3>1
    <3>3. b[i - Len(a)] = [section |-> sec, no |-> base + Len(a) + (i - Len(a))]
      BY <3>1 DEF Run
    <3>4. base + Len(a) + (i - Len(a)) = base + i
      BY <1>1
    <3> QED
      BY <3>2, <3>3, <3>4
  <2> QED
    BY <1>1, <2>1, <2>2
<1> QED
  BY <1>1, <1>2 DEF Run

(* A part of a run is a run. *)
LEMMA RunPart ==
  ASSUME NEW b \in Seq(Unit), NEW sec, NEW base \in Nat, Run(b, sec, base),
         NEW m \in 0 .. Len(b), NEW n \in m .. Len(b)
  PROVE  /\ SubSeq(b, m + 1, n) \in Seq(Unit)
         /\ Len(SubSeq(b, m + 1, n)) = n - m
         /\ Run(SubSeq(b, m + 1, n), sec, base + m)
<1> DEFINE s == SubSeq(b, m + 1, n)
<1>1. Len(b) \in Nat /\ m \in Nat /\ n \in Nat /\ m <= n /\ n <= Len(b)
  BY LenProperties
<1>2. /\ s \in Seq(Unit) /\ Len(s) = n - m
      /\ \A i \in 1 .. n - m : s[i] = b[m + i]
  BY <1>1, SubSeqProperties
<1> HIDE DEF s
<1>3. ASSUME NEW i \in 1 .. Len(s)
      PROVE  s[i] = [section |-> sec, no |-> (base + m) + i]
  <2>1. s[i] = b[m + i] /\ m + i \in 1 .. Len(b)
    BY <1>1, <1>2
  <2>2. b[m + i] = [section |-> sec, no |-> base + (m + i)]
    BY <2>1 DEF Run
  <2>3. base + (m + i) = (base + m) + i
    BY <1>1, <1>2
  <2> QED
    BY <2>1, <2>2, <2>3
<1>4. Run(s, sec, base + m)
  BY <1>3 DEF Run
<1> QED
  BY <1>2, <1>4 DEF s

(* What emit_datagrams leaves in pending_. *)
LEMMA RestFacts ==
  ASSUME NEW b \in Seq(Unit), NEW sec, NEW base \in Nat, Run(b, sec, base)
  PROVE  /\ Rest(b) \in Seq(Unit)
         /\ Len(Rest(b)) = Len(b) - Count(b) * DatagramSize
         /\ Run(Rest(b), sec, base + Count(b) * DatagramSize)
<1>1. Len(b) \in Nat
  BY LenProperties
<1>2. Count(b) * DatagramSize \in 0 .. Len(b)
  BY <1>1, CountFacts
<1>3. Len(b) \in Count(b) * DatagramSize .. Len(b)
  BY <1>1, <1>2
<1> QED
  BY <1>2, <1>3, RunPart DEF Rest

(* emit_datagrams(false) cuts a run into full datagrams. *)
LEMMA FullFacts ==
  ASSUME NEW b \in Seq(Unit), NEW sec, NEW base \in Nat, Run(b, sec, base)
  PROVE  /\ Chunks(Full(b), sec, base, Count(b) * DatagramSize)
         /\ Len(Full(b)) = Count(b)
         /\ \A i \in 1 .. Count(b) : Len(Full(b)[i]) = DatagramSize
<1> DEFINE D == DatagramSize
           c == Count(b)
           out == Full(b)
<1>1. D \in Nat /\ D > 0
  BY MuxerAssumption
<1>2. c \in Nat /\ c * D \in Nat /\ c * D <= Len(b) /\ Len(b) \in Nat
  BY CountFacts, LenProperties
<1> HIDE DEF D, c
<1>3. ASSUME NEW i \in 1 .. c
      PROVE  LET d == SubSeq(b, (i - 1) * D + 1, i * D) IN
             d \in Seq(Unit) /\ Len(d) = D /\ Run(d, sec, base + (i - 1) * D)
  <2>1. (i - 1) * D \in Nat /\ i * D \in Nat /\ i * D = (i - 1) * D + D
    BY <1>1, <1>2
  <2>2. i * D <= c * D
    BY <1>1, <1>2
  <2>3. (i - 1) * D \in 0 .. Len(b) /\ i * D \in (i - 1) * D .. Len(b)
    BY <1>1, <1>2, <2>1, <2>2
  <2> DEFINE m == (i - 1) * D
             e == i * D
  <2>4. m \in 0 .. Len(b) /\ e \in m .. Len(b) /\ e - m = D
    BY <1>1, <2>1, <2>3
  <2> HIDE DEF m, e
  <2>5. LET d == SubSeq(b, m + 1, e) IN
        d \in Seq(Unit) /\ Len(d) = D /\ Run(d, sec, base + m)
    BY <2>4, RunPart
  <2> QED
    BY <2>5 DEF m, e
<1>4. out = [i \in 1 .. c |-> SubSeq(b, (i - 1) * D + 1, i * D)]
  BY DEF Full, c, D
<1> HIDE DEF out
<1>5. out \in Seq(Datagram) /\ Len(out) = c
  <2>1. \A i \in 1 .. c : SubSeq(b, (i - 1) * D + 1, i * D) \in Datagram
    BY <1>3 DEF Datagram
  <2> QED
    BY <1>2, <1>4, <2>1
<1>6. \A i \in 1 .. c : Len(out[i]) = D /\ Run(out[i], sec, base + (i - 1) * D)
  BY <1>3, <1>4
<1>7. IF out = <<>> THEN c * D = 0 ELSE c * D = (Len(out) - 1) * D + Len(out[Len(out)])
  <2>1. out = <<>> => c = 0
    BY <1>5
  <2>2. out # <<>> => c > 0
    BY <1>2, <1>5, EmptySeq
  <2>3. c > 0 => Len(out[c]) = D /\ c * D = (c - 1) * D + D
    BY <1>1, <1>2, <1>6
  <2> QED
    BY <1>1, <1>5, <2>1, <2>2, <2>3
<1>8. Chunks(out, sec, base, c * D)
  BY <1>1, <1>5, <1>6, <1>7 DEF Chunks, D
<1> QED
  BY <1>5, <1>6, <1>8 DEF out, c, D

(* flush() sends all of a run. *)
LEMMA FlushFacts ==
  ASSUME NEW b \in Seq(Unit), NEW sec, NEW base \in Nat, Run(b, sec, base)
  PROVE  Chunks(Full(b) \o Partial(b), sec, base, Len(b))
<1> DEFINE D == DatagramSize
           c == Count(b)
           full == Full(b)
           rest == Rest(b)
           out == full \o Partial(b)
<1>1. D \in Nat /\ D > 0 /\ Len(b) \in Nat
  BY MuxerAssumption, LenProperties
<1>2. c \in Nat /\ c * D \in Nat /\ c * D <= Len(b) /\ Len(b) < c * D + D
  BY CountFacts
<1>3. /\ Chunks(full, sec, base, c * D) /\ Len(full) = c
      /\ \A i \in 1 .. c : Len(full[i]) = D
  BY FullFacts
<1>4. /\ rest \in Seq(Unit) /\ Len(rest) = Len(b) - c * D
      /\ Run(rest, sec, base + c * D)
  BY RestFacts
<1>5. full \in Seq(Datagram)
  BY <1>3 DEF Chunks
<1> HIDE DEF D, c, full, rest
<1>6. CASE rest = <<>>
  <2>1. out = full
    BY <1>5, <1>6 DEF Partial, rest
  <2>2. Len(b) = c * D
    BY <1>1, <1>2, <1>4, <1>6, EmptySeq
  <2> QED
    BY <1>3, <2>1, <2>2 DEF full
<1>7. CASE rest # <<>>
  <2>1. Len(rest) \in 1 .. D
    BY <1>1, <1>2, <1>4, <1>7, EmptySeq, LenProperties
  <2>2. out = full \o <<rest>>
    BY <1>7 DEF Partial, rest
  <2> HIDE DEF out
  <2>3. /\ out \in Seq(Datagram) /\ Len(out) = c + 1
        /\ \A i \in 1 .. c : out[i] = full[i]
        /\ out[c + 1] = rest
    <3>1. rest \in Datagram
      BY <1>4 DEF Datagram
    <3>2. <<rest>> \in Seq(Datagram) /\ Len(<<rest>>) = 1 /\ <<rest>>[1] = rest
      BY <3>1
    <3> QED
      BY <1>2, <1>3, <1>5, <2>2, <3>2
  <2>4. ASSUME NEW i \in 1 .. Len(out)
        PROVE  /\ Len(out[i]) \in 1 .. D /\ (i < Len(out) => Len(out[i]) = D)
               /\ Run(out[i], sec, base + (i - 1) * D)
    <3>1. CASE i = c + 1
      BY <1>2, <1>4, <2>1, <2>3, <3>1
    <3>2. CASE i \in 1 .. c
      BY <1>1, <1>3, <2>3, <3>2 DEF Chunks, D
    <3> QED
      BY <1>2, <2>3, <3>1, <3>2
  <2>5. out # <<>> /\ Len(b) = (Len(out) - 1) * D + Len(out[Len(out)])
    BY <1>1, <1>2, <1>4, <2>3
  <2>6. Chunks(out, sec, base, Len(b))
    BY <2>3, <2>4, <2>5 DEF Chunks, D
  <2> QED
    BY <2>6 DEF out, full
<1> QED
  BY <1>6, <1>7

(* Datagrams that continue the stream leave it intact. *)
LEMMA Emission ==
  ASSUME NEW s \in Seq(Datagram), Intact(s), NEW out, NEW sec \in Nat,
         NEW base \in Nat, NEW total, Chunks(out, sec, base, total),
         IF base > 0 THEN LastUnit(s) = [section |-> sec, no |-> base]
                     ELSE LastUnit(s).section < sec,
         LastUnit(s).section \in Nat
  PROVE  /\ s \o out \in Seq(Datagram) /\ Intact(s \o out)
         /\ LastUnit(s \o out) = IF out = <<>> THEN LastUnit(s)
                                 ELSE [section |-> sec, no |-> base + total]
<1> DEFINE D == DatagramSize
           r == s \o out
           n == Len(s)
<1>1. D \in Nat /\ D > 0 /\ n \in Nat
  BY MuxerAssumption, LenProperties
<1>2. /\ out \in Seq(Datagram) /\ Len(out) \in Nat
      /\ \A i \in 1 .. Len(out) :
           /\ out[i] \in Seq(Unit) /\ Len(out[i]) \in 1 .. D
           /\ i < Len(out) => Len(out[i]) = D
           /\ \A j \in 1 .. Len(out[i]) :
                out[i][j] = [section |-> sec, no |-> base + (i - 1) * D + j]
  BY DEF Chunks, Run, Datagram
<1>3. /\ r \in Seq(Datagram) /\ Len(r) = n + Len(out)
      /\ \A i \in 1 .. n : r[i] = s[i]
      /\ \A i \in 1 .. Len(out) : r[i + n] = out[i]
  BY <1>2
<1> HIDE DEF r, n, D
<1>4. ASSUME NEW i \in 1 .. Len(r)
      PROVE  /\ Len(r[i]) \in 1 .. D
             /\ \A j \in 1 .. Len(r[i]) : Succeeds(r[i][j], Before(r, i, j), j)
  <2>1. CASE i <= n
    <3>1. i \in 1 .. n /\ r[i] = s[i] /\ (i > 1 => r[i - 1] = s[i - 1])
      BY <1>1, <1>3, <2>1
    <3>2. \A j \in 1 .. Len(r[i]) : Before(r, i, j) = Before(s, i, j)
      BY <3>1 DEF Before
    <3> QED
      BY <3>1, <3>2 DEF Intact, n, D
  <2>2. CASE i > n
    <3> DEFINE k == i - n
    <3>1. k \in 1 .. Len(out) /\ i = k + n
      BY <1>1, <1>2, <1>3, <2>2
    <3>2. r[i] = out[k] /\ (k > 1 => r[i - 1] = out[k - 1])
      <4>1. r[i] = out[k]
        BY <1>3, <3>1
      <4>2. k > 1 => k - 1 \in 1 .. Len(out) /\ i - 1 = (k - 1) + n
        BY <1>1, <1>2, <3>1
      <4> QED
        BY <1>3, <4>1, <4>2
    <3> HIDE DEF k
    <3>3. Len(r[i]) \in 1 .. D
      BY <1>2, <3>1, <3>2
    <3>4. ASSUME NEW j \in 1 .. Len(r[i])
          PROVE  Succeeds(r[i][j], Before(r, i, j), j)
      <4> DEFINE u == r[i][j]
                 v == Before(r, i, j)
      <4>1. u = [section |-> sec, no |-> base + (k - 1) * D + j]
        BY <1>2, <3>1, <3>2
      <4>2. CASE j > 1
        <5>1. j - 1 \in 1 .. Len(out[k])
          BY <1>1, <1>2, <3>1, <3>2, <4>2
        <5>2. v = [section |-> sec, no |-> base + (k - 1) * D + (j - 1)]
          BY <1>2, <3>1, <3>2, <4>2, <5>1 DEF Before
        <5> DEFINE m == (k - 1) * D
        <5>3. base + m + j = (base + m + (j - 1)) + 1
          <6>1. m \in Nat /\ j \in Nat
            BY <1>1, <1>2, <3>1, <3>3
          <6> HIDE DEF m
          <6> QED
            BY <6>1
        <5> QED
          BY <4>1, <5>2, <5>3 DEF Succeeds
      <4>3. CASE j = 1 /\ k > 1
        <5>1. /\ k - 1 \in 1 .. Len(out) /\ k - 1 < Len(out)
              /\ Len(out[k - 1]) = D /\ D \in 1 .. D
          BY <1>1, <1>2, <3>1, <4>3
        <5>2. v = out[k - 1][D]
          BY <1>1, <3>1, <3>2, <4>3, <5>1 DEF Before, Last
        <5>3. v = [section |-> sec, no |-> base + ((k - 1) - 1) * D + D]
          BY <1>2, <5>1, <5>2
        <5>4. base + (k - 1) * D + j = (base + ((k - 1) - 1) * D + D) + 1
          BY <1>1, <3>1, <4>3
        <5> QED
          BY <4>1, <5>3, <5>4 DEF Succeeds
      <4>4. CASE j = 1 /\ k = 1
        <5>1. v = LastUnit(s)
          <6>1. CASE n = 0
            BY <1>1, <3>1, <4>4, <6>1, EmptySeq DEF Before, LastUnit, n
          <6>2. CASE n > 0
            <7>1. s # <<>> /\ i = n + 1 /\ n \in 1 .. n /\ r[i - 1] = s[n]
              BY <1>1, <1>3, <3>1, <4>4, <6>2, EmptySeq DEF n
            <7> QED
              BY <1>1, <4>4, <6>2, <7>1 DEF Before, LastUnit, Last, n
          <6> QED
            BY <1>1, <6>1, <6>2
        <5>2. u = [section |-> sec, no |-> base + 1]
          BY <1>1, <4>1, <4>4
        <5>3. CASE base > 0
          BY <5>1, <5>2, <5>3 DEF Succeeds
        <5>4. CASE base = 0
          <6>1. v.section < sec /\ v.section \in Nat
            BY <5>1, <5>4
          <6>2. u.section = sec /\ u.no = 1
            BY <5>2, <5>4
          <6> HIDE DEF u, v
          <6>3. Succeeds(u, v, j)
            BY <4>4, <6>1, <6>2 DEF Succeeds
          <6> QED
            BY <6>3 DEF u, v
        <5> QED
          BY <5>3, <5>4
      <4> QED
        BY <3>1, <4>2, <4>3, <4>4, <1>2, <3>2
    <3> QED
      BY <3>3, <3>4
  <2> QED
    BY <1>1, <1>3, <2>1, <2>2
<1>5. Intact(r)
  BY <1>4 DEF Intact, D
<1>6. LastUnit(r) = IF out = <<>> THEN LastUnit(s)
                    ELSE [section |-> sec, no |-> base + total]
  <2>1. CASE out = <<>>
    BY <2>1 DEF r
  <2>2. CASE out # <<>>
    <3> DEFINE k == Len(out)
    <3>1. k \in 1 .. Len(out) /\ total = (k - 1) * D + Len(out[k])
      BY <1>2, <2>2, EmptySeq DEF Chunks, D
    <3>2. r # <<>> /\ r[Len(r)] = out[k]
      BY <1>1, <1>2, <1>3, <3>1
    <3>3. Last(Last(r)) = out[k][Len(out[k])]
      BY <3>2 DEF Last
    <3>4. Len(out[k]) \in 1 .. Len(out[k]) /\ Len(out[k]) \in Nat
      BY <1>1, <1>2, <3>1
    <3>5. out[k][Len(out[k])] =
            [section |-> sec, no |-> base + (k - 1) * D + Len(out[k])]
      BY <1>2, <3>1, <3>4
    <3>6. base + (k - 1) * D + Len(out[k]) = base + total
      <4> DEFINE m == (k - 1) * D
                 x == Len(out[k])
      <4>1. m \in Nat /\ x \in Nat
        BY <1>1, <3>1, <3>4
      <4>2. total = m + x
        BY <3>1
      <4> HIDE DEF m, x
      <4>3. base + m + x = base + total
        BY <4>1, <4>2
      <4> QED
        BY <4>3 DEF m, x
    <3> QED
      BY <2>2, <3>2, <3>3, <3>5, <3>6 DEF LastUnit
  <2> QED
    BY <2>1, <2>2
<1> QED
  BY <1>3, <1>5, <1>6 DEF r

(* The last unit that was sent is one of a context that was made. *)
LEMMA LastUnitSection ==
  ASSUME NEW s \in Seq(Datagram), Intact(s)
  PROVE  LastUnit(s).section \in Nat
<1>1. CASE s = <<>>
  BY <1>1 DEF LastUnit, NoUnit
<1>2. CASE s # <<>>
  <2>1. Len(s) \in 1 .. Len(s) /\ s[Len(s)] \in Datagram
    BY <1>2, EmptySeq, LenProperties, ElementOfSeq
  <2> DEFINE d == s[Len(s)]
  <2>2. d \in Seq(Unit) /\ Len(d) \in 1 .. DatagramSize
    BY <2>1 DEF Intact, Datagram
  <2> HIDE DEF d
  <2>3. Len(d) \in 1 .. Len(d)
    BY <2>2, MuxerAssumption
  <2>4. d[Len(d)] \in Unit
    BY <2>2, <2>3, ElementOfSeq
  <2>5. LastUnit(s) = d[Len(d)]
    BY <1>2 DEF LastUnit, Last, d
  <2> QED
    BY <2>4, <2>5 DEF Unit
<1> QED
  BY <1>1, <1>2

(* The callback lets through datagrams that continue the stream. *)
LEMMA Delivery ==
  ASSUME TypeOK, StreamIntact, NewContextOnly, NEW out, NEW sec \in Nat,
         NEW base \in Nat, NEW total \in Nat, Chunks(out, sec, base, total),
         IF base > 0 THEN LastUnit(sent) = [section |-> sec, no |-> base]
                     ELSE LastUnit(sent).section < sec,
         fence.section < sec, fence.sent <= Len(sent),
         sent' = sent \o out, fence' = fence
  PROVE  /\ sent' \in Seq(Datagram) /\ StreamIntact' /\ NewContextOnly'
         /\ fence.sent <= Len(sent') /\ LastUnit(sent').section <= sec
         /\ IF base + total > 0
            THEN LastUnit(sent') = [section |-> sec, no |-> base + total]
            ELSE LastUnit(sent').section < sec
<1>1. /\ sent \in Seq(Datagram) /\ Intact(sent)
      /\ fence.section \in Nat /\ fence.sent \in Nat
  BY DEF TypeOK, StreamIntact
<1>2. LastUnit(sent).section \in Nat
  BY <1>1, LastUnitSection
<1>3. /\ sent' \in Seq(Datagram) /\ Intact(sent')
      /\ LastUnit(sent') = IF out = <<>> THEN LastUnit(sent)
                           ELSE [section |-> sec, no |-> base + total]
  BY <1>1, <1>2, Emission
<1>4. StreamIntact'
  BY <1>3 DEF StreamIntact
<1>5. /\ out \in Seq(Datagram) /\ Len(out) \in Nat /\ Len(sent) \in Nat
      /\ Len(sent') = Len(sent) + Len(out)
      /\ \A i \in 1 .. Len(sent) : sent'[i] = sent[i]
      /\ \A i \in 1 .. Len(out) : sent'[i + Len(sent)] = out[i]
  <2>1. out \in Seq(Datagram)
    BY DEF Chunks
  <2> QED
    BY <1>1, <2>1
<1>6. NewContextOnly'
  <2> SUFFICES ASSUME NEW i \in fence.sent + 1 .. Len(sent'),
                      NEW j \in 1 .. Len(sent'[i])
               PROVE  sent'[i][j].section > fence.section
    BY DEF NewContextOnly
  <2>1. CASE i <= Len(sent)
    <3>1. i \in fence.sent + 1 .. Len(sent) /\ sent'[i] = sent[i]
      BY <1>1, <1>5, <2>1
    <3> QED
      BY <3>1 DEF NewContextOnly
  <2>2. CASE i > Len(sent)
    <3> DEFINE k == i - Len(sent)
    <3>1. k \in 1 .. Len(out) /\ i = k + Len(sent)
      BY <1>1, <1>5, <2>2
    <3>2. sent'[i] = out[k]
      BY <1>5, <3>1
    <3> HIDE DEF k
    <3>3. out[k][j].section = sec
      <4> DEFINE m == base + (k - 1) * DatagramSize
      <4>1. Run(out[k], sec, m)
        BY <3>1 DEF Chunks
      <4> HIDE DEF m
      <4>2. out[k][j] = [section |-> sec, no |-> m + j]
        BY <3>2, <4>1 DEF Run
      <4> QED
        BY <4>2
    <3> QED
      BY <1>1, <3>2, <3>3
  <2> QED
    BY <1>1, <1>5, <2>1, <2>2
<1>7. out = <<>> => total = 0
  BY DEF Chunks
<1>8. out # <<>> => total > 0
  <2> SUFFICES ASSUME out # <<>> PROVE total > 0
    OBVIOUS
  <2> DEFINE k == Len(out)
             m == (k - 1) * DatagramSize
             x == Len(out[k])
  <2>1. k \in 1 .. Len(out)
    BY <1>5, EmptySeq
  <2>2. total = m + x /\ x \in 1 .. DatagramSize
    BY <2>1 DEF Chunks
  <2>3. m \in Nat
    <3>1. k - 1 \in Nat /\ DatagramSize \in Nat
      BY <1>5, <2>1, MuxerAssumption
    <3> QED
      BY <3>1
  <2> HIDE DEF m, x
  <2> QED
    BY <2>2, <2>3, MuxerAssumption
<1>9. CASE out = <<>>
  BY <1>2, <1>3, <1>4, <1>5, <1>6, <1>7, <1>9
<1>10. CASE out # <<>>
  <2>1. LastUnit(sent') = [section |-> sec, no |-> base + total]
    BY <1>3, <1>10
  <2>2. LastUnit(sent').section <= sec
    BY <2>1
  <2>3. base + total > 0
    BY <1>8, <1>10
  <2>4. fence.sent <= Len(sent')
    BY <1>1, <1>5
  <2> QED
    BY <1>3, <1>4, <1>6, <2>1, <2>2, <2>3, <2>4
<1> QED
  BY <1>9, <1>10

(* The units of a packet continue their context. *)
LEMMA UnitsFacts ==
  ASSUME NEW n \in Nat, NEW sec \in Nat, NEW from \in Nat
  PROVE  /\ UnitsOf(n, sec, from) \in Seq(Unit) /\ Len(UnitsOf(n, sec, from)) = n
         /\ Run(UnitsOf(n, sec, from), sec, from)
<1>1. \A i \in 1 .. n : [section |-> sec, no |-> from + i] \in Unit
  BY DEF Unit
<1>2. UnitsOf(n, sec, from) \in Seq(Unit) /\ Len(UnitsOf(n, sec, from)) = n
  BY <1>1 DEF UnitsOf
<1> QED
  BY <1>2 DEF Run, UnitsOf

-----------------------------------------------------------------------------
(* The flags stay Boolean. *)
LEMMA FlagStep ==
  ASSUME TypeOK, Next
  PROVE  FlagTypes'
<1> USE DEF TypeOK, FlagTypes
<1>1. CASE \E stream \in Streams, ok \in BOOLEAN : Mux(stream, ok)
  BY <1>1, Zenon DEF Mux
<1>2. CASE Reject
  BY <1>2, Zenon DEF Reject
<1>3. CASE StartFails
  BY <1>3, Zenon DEF StartFails
<1>4. CASE Flush
  BY <1>4, Zenon DEF Flush
<1>5. CASE Reset
  BY <1>5, Zenon DEF Reset
<1>6. CASE Stop
  BY <1>6, Zenon DEF Stop
<1>7. CASE Restart
  BY <1>7, Zenon DEF Restart
<1> QED
  BY <1>1, <1>2, <1>3, <1>4, <1>5, <1>6, <1>7 DEF Next

(* A packet is muxed: what libavformat hands out is cut into datagrams. *)
LEMMA MuxStep ==
  ASSUME TypeOK, StreamIntact, NewContextOnly, Buffered, Joined, Fenced, Flushed,
         FlagTypes', NEW stream \in Streams, NEW ok \in BOOLEAN, Mux(stream, ok)
  PROVE  /\ TypeOK' /\ StreamIntact' /\ NewContextOnly' /\ Buffered' /\ Joined'
         /\ Fenced' /\ Flushed'
<1> DEFINE q == Append(held, stream)
           sec == IF started THEN section ELSE section + 1
           first == IF started THEN made ELSE 0
           base == IF started THEN Gone ELSE 0
           D == DatagramSize
<1>1. /\ held \in Seq(Streams) /\ avio \in Seq(Unit) /\ pending \in Seq(Unit)
      /\ section \in Nat /\ made \in Nat /\ packets \in Nat
      /\ sent \in Seq(Datagram) /\ fence \in [section: Nat, sent: Nat]
  BY DEF TypeOK
<1>2. Len(pending) \in Nat /\ Len(avio) \in Nat /\ D \in Nat /\ D > 0
  BY <1>1, LenProperties, MuxerAssumption
<1>3. /\ sec \in Nat /\ first \in Nat /\ base \in Nat
      /\ first = base + Len(pending) + Len(avio)
      /\ Run(pending, sec, base) /\ Run(avio, sec, base + Len(pending))
  <2>1. CASE started
    <3>1. Gone \in Nat /\ made = Gone + Len(pending) + Len(avio)
      BY <1>1, <1>2, <2>1 DEF Buffered, Gone
    <3> QED
      BY <1>1, <2>1, <3>1 DEF Buffered
  <2>2. CASE ~started
    <3>1. /\ pending = <<>> /\ avio = <<>> /\ Len(pending) = 0 /\ Len(avio) = 0
      BY <2>2, EmptySeq DEF Buffered
    <3> QED
      BY <1>1, <2>2, <3>1 DEF Run
  <2> QED
    BY <2>1, <2>2
<1>4. IF base > 0 THEN LastUnit(sent) = [section |-> sec, no |-> base]
                  ELSE LastUnit(sent).section < sec
  <2>1. CASE started
    BY <2>1 DEF Joined
  <2>2. CASE ~started
    <3>1. LastUnit(sent).section \in Nat
      BY <1>1, LastUnitSection DEF StreamIntact
    <3> QED
      BY <1>1, <2>2, <3>1 DEF Joined
  <2> QED
    BY <2>1, <2>2
<1>5. fence.section < sec /\ fence.sent <= Len(sent)
  BY <1>1 DEF Fenced
<1>6. PICK k \in IF ok THEN Released(q) ELSE 0 .. Len(q) : \E n \in Muxed(k) :
        LET all == avio \o UnitsOf(n, sec, first)
        IN  /\ held' = SubSeq(q, k + 1, Len(q))
            /\ made' = first + n
            /\ \E j \in 0 .. Len(all) :
                  LET buf == pending \o SubSeq(all, 1, j)
                  IN  /\ avio' = SubSeq(all, j + 1, Len(all))
                      /\ pending' = Rest(buf)
                      /\ Deliver(Full(buf))
  BY DEF Mux
<1>7. PICK n \in Muxed(k) :
        LET all == avio \o UnitsOf(n, sec, first)
        IN  /\ held' = SubSeq(q, k + 1, Len(q))
            /\ made' = first + n
            /\ \E j \in 0 .. Len(all) :
                  LET buf == pending \o SubSeq(all, 1, j)
                  IN  /\ avio' = SubSeq(all, j + 1, Len(all))
                      /\ pending' = Rest(buf)
                      /\ Deliver(Full(buf))
  BY <1>6
<1> DEFINE units == UnitsOf(n, sec, first)
           all == avio \o units
<1>8. PICK j \in 0 .. Len(all) :
        LET buf == pending \o SubSeq(all, 1, j)
        IN  /\ avio' = SubSeq(all, j + 1, Len(all))
            /\ pending' = Rest(buf)
            /\ Deliver(Full(buf))
  BY <1>7
<1> DEFINE buf == pending \o SubSeq(all, 1, j)
<1>9. /\ held' = SubSeq(q, k + 1, Len(q)) /\ made' = first + n
      /\ avio' = SubSeq(all, j + 1, Len(all)) /\ pending' = Rest(buf)
      /\ sent' = sent \o Full(buf) /\ started' = TRUE /\ section' = sec
      /\ packets' = packets + 1 /\ fence' = fence /\ running /\ running' = running
      /\ healthy' = ok /\ pc' = IF ok THEN "written" ELSE "idle"
  <2>1. running /\ Deliver(Full(buf))
    BY <1>8 DEF Mux
  <2>2. sent' = sent \o Full(buf)
    BY <2>1 DEF Deliver
  <2> QED
    BY <1>7, <1>8, <2>1, <2>2 DEF Mux
<1>10. q \in Seq(Streams) /\ Len(q) \in Nat /\ k \in 0 .. Len(q)
  <2>1. q \in Seq(Streams)
    BY <1>1, AppendProperties
  <2> HIDE DEF q
  <2> QED
    BY <1>6, <2>1, LenProperties DEF Released
<1>11. n \in Nat
  BY <1>7, <1>10, MuxerAssumption DEF Muxed
<1>12. held' \in Seq(Streams)
  <2> HIDE DEF q
  <2> QED
    BY <1>9, <1>10
<1> HIDE DEF q, sec, first, base, D
<1>13. units \in Seq(Unit) /\ Len(units) = n /\ Run(units, sec, first)
  BY <1>3, <1>11, UnitsFacts
<1> HIDE DEF units
<1>14. /\ all \in Seq(Unit) /\ Len(all) = Len(avio) + n
       /\ Run(all, sec, base + Len(pending))
  <2>1. base + Len(pending) \in Nat /\ first = (base + Len(pending)) + Len(avio)
    BY <1>2, <1>3
  <2>2. Run(units, sec, (base + Len(pending)) + Len(avio))
    BY <1>13, <2>1
  <2> QED
    BY <1>1, <1>3, <1>13, <2>1, <2>2, RunConcat
<1> HIDE DEF all
<1>15. j \in Nat /\ j <= Len(all) /\ Len(all) \in Nat
  BY <1>2, <1>8, <1>11, <1>14
<1>16. /\ SubSeq(all, 1, j) \in Seq(Unit) /\ Len(SubSeq(all, 1, j)) = j
       /\ Run(SubSeq(all, 1, j), sec, base + Len(pending))
  <2>1. 0 \in 0 .. Len(all) /\ j \in 0 .. Len(all) /\ base + Len(pending) \in Nat
    BY <1>2, <1>3, <1>15
  <2>2. /\ SubSeq(all, 0 + 1, j) \in Seq(Unit) /\ Len(SubSeq(all, 0 + 1, j)) = j - 0
        /\ Run(SubSeq(all, 0 + 1, j), sec, (base + Len(pending)) + 0)
    BY <1>14, <2>1, RunPart
  <2> QED
    BY <1>15, <2>1, <2>2
<1>17. /\ buf \in Seq(Unit) /\ Len(buf) = Len(pending) + j
       /\ Run(buf, sec, base)
  BY <1>1, <1>3, <1>16, RunConcat
<1> HIDE DEF buf
<1>18. /\ avio' \in Seq(Unit) /\ Len(avio') = Len(all) - j
       /\ Run(avio', sec, base + Len(pending) + j)
  <2>1. Len(all) \in j .. Len(all) /\ base + Len(pending) \in Nat
    BY <1>2, <1>3, <1>15
  <2> QED
    BY <1>8, <1>9, <1>14, <2>1, RunPart
<1> DEFINE cut == Count(buf) * D
<1>19. cut \in Nat /\ cut <= Len(buf) /\ Len(buf) < cut + D
  BY <1>17, CountFacts DEF D
<1>20. /\ pending' \in Seq(Unit) /\ Len(pending') = Len(buf) - cut
       /\ Run(pending', sec, base + cut)
  BY <1>3, <1>9, <1>17, RestFacts DEF D
<1>21. Chunks(Full(buf), sec, base, cut)
  BY <1>3, <1>17, FullFacts DEF D
<1> HIDE DEF cut
<1>22. /\ sent' \in Seq(Datagram) /\ StreamIntact' /\ NewContextOnly'
       /\ fence.sent <= Len(sent') /\ LastUnit(sent').section <= sec
       /\ IF base + cut > 0
          THEN LastUnit(sent') = [section |-> sec, no |-> base + cut]
          ELSE LastUnit(sent').section < sec
  BY <1>3, <1>4, <1>5, <1>9, <1>19, <1>21, Delivery
<1>23. Gone' = base + cut /\ Len(pending') + Len(avio') <= made'
  <2>1. /\ Len(pending') = Len(pending) + j - cut
        /\ Len(avio') = Len(avio) + n - j
        /\ made' = base + Len(pending) + Len(avio) + n
    <3>1. Len(pending') = Len(pending) + j - cut
      BY <1>2, <1>15, <1>17, <1>19, <1>20
    <3>2. Len(avio') = Len(avio) + n - j
      BY <1>2, <1>11, <1>14, <1>15, <1>18
    <3>3. made' = base + Len(pending) + Len(avio) + n
      BY <1>3, <1>9
    <3> QED
      BY <3>1, <3>2, <3>3
  <2>2. j <= Len(avio) + n /\ cut <= Len(pending) + j
    BY <1>14, <1>15, <1>17, <1>19
  <2> QED
    BY <1>2, <1>3, <1>11, <1>15, <1>19, <2>1, <2>2 DEF Gone
<1>24. Len(pending') < D /\ (base + cut) + Len(pending') = base + Len(pending) + j
  BY <1>2, <1>3, <1>15, <1>17, <1>19, <1>20
<1>25. TypeOK'
  <2>1. pc' \in {"idle", "written"} /\ packets' \in Nat /\ made' \in Nat
    BY <1>1, <1>3, <1>9, <1>11
  <2> QED
    BY <1>1, <1>3, <1>9, <1>12, <1>18, <1>20, <1>22, <1>24, <2>1 DEF TypeOK, D
<1>26. Buffered'
  BY <1>9, <1>18, <1>20, <1>23, <1>24 DEF Buffered
<1>27. Joined'
  BY <1>9, <1>22, <1>23 DEF Joined
<1>28. Fenced'
  BY <1>1, <1>3, <1>5, <1>9, <1>22 DEF Fenced
<1>29. Flushed'
  BY <1>9 DEF Flushed
<1> QED
  BY <1>22, <1>25, <1>26, <1>27, <1>28, <1>29

(* flush() after a packet: nothing of this context is left behind. *)
LEMMA FlushStep ==
  ASSUME TypeOK, StreamIntact, NewContextOnly, Buffered, Joined, Fenced, Flushed,
         FlagTypes', Flush
  PROVE  /\ TypeOK' /\ StreamIntact' /\ NewContextOnly' /\ Buffered' /\ Joined'
         /\ Fenced' /\ Flushed'
<1> DEFINE buf == pending \o avio
           out == Full(buf) \o Partial(buf)
<1>1. /\ avio \in Seq(Unit) /\ pending \in Seq(Unit) /\ section \in Nat
      /\ made \in Nat /\ fence \in [section: Nat, sent: Nat]
      /\ DatagramSize \in Nat /\ DatagramSize > 0
  BY MuxerAssumption DEF TypeOK
<1>2. Len(pending) \in Nat /\ Len(avio) \in Nat
  BY <1>1, LenProperties
<1>3. running /\ started
  BY DEF Flush, Flushed
<1>4. /\ Gone \in Nat /\ made = Gone + (Len(pending) + Len(avio))
      /\ Run(pending, section, Gone) /\ Run(avio, section, Gone + Len(pending))
  BY <1>1, <1>2, <1>3 DEF Buffered, Gone
<1>5. /\ buf \in Seq(Unit) /\ Len(buf) = Len(pending) + Len(avio)
      /\ Run(buf, section, Gone)
  BY <1>1, <1>4, RunConcat
<1>6. /\ sent' = sent \o out /\ avio' = <<>> /\ pc' = "idle"
      /\ pending' = IF Partial(buf) = <<>> THEN Rest(buf) ELSE <<>>
      /\ UNCHANGED <<running, healthy, started, held, section, made, packets, fence>>
  BY <1>3 DEF Flush, Deliver
<1> HIDE DEF buf
<1>7. pending' = <<>>
  BY <1>6 DEF Partial
<1>8. Chunks(out, section, Gone, Len(buf))
  BY <1>1, <1>4, <1>5, FlushFacts
<1> HIDE DEF out
<1>9. /\ IF Gone > 0 THEN LastUnit(sent) = [section |-> section, no |-> Gone]
                      ELSE LastUnit(sent).section < section
      /\ fence.section < section /\ fence.sent <= Len(sent)
  BY <1>3 DEF Joined, Fenced
<1>10. Len(buf) \in Nat /\ Gone + Len(buf) = made
  BY <1>2, <1>4, <1>5
<1>11. /\ sent' \in Seq(Datagram) /\ StreamIntact' /\ NewContextOnly'
       /\ fence.sent <= Len(sent') /\ LastUnit(sent').section <= section
       /\ IF Gone + Len(buf) > 0
          THEN LastUnit(sent') = [section |-> section, no |-> Gone + Len(buf)]
          ELSE LastUnit(sent').section < section
  BY <1>1, <1>4, <1>6, <1>8, <1>9, <1>10, Delivery
<1>12. Len(pending') = 0 /\ Len(avio') = 0 /\ <<>> \in Seq(Unit)
  BY <1>6, <1>7, EmptySeq
<1>13. Gone' = made
  <2>1. Gone' = made' - (Len(pending') + Len(avio'))
    BY DEF Gone
  <2>2. made' = made
    BY <1>6
  <2> QED
    BY <1>1, <1>12, <2>1, <2>2
<1>14. TypeOK'
  BY <1>1, <1>6, <1>7, <1>11, <1>12 DEF TypeOK
<1>15. Buffered'
  BY <1>1, <1>3, <1>6, <1>7, <1>12 DEF Buffered, Run
<1>16. Joined'
  BY <1>6, <1>10, <1>11, <1>13 DEF Joined
<1>17. Fenced'
  BY <1>6, <1>11 DEF Fenced
<1>18. Flushed'
  BY <1>6, <1>7 DEF Flushed
<1> QED
  BY <1>11, <1>14, <1>15, <1>16, <1>17, <1>18

(* Steps that clear the context, or leave it, and send nothing. *)
LEMMA SilentStep ==
  ASSUME TypeOK, StreamIntact, NewContextOnly, Buffered, Joined, Fenced, Flushed,
         FlagTypes', Reject \/ StartFails \/ Reset \/ Stop \/ Restart
  PROVE  /\ TypeOK' /\ StreamIntact' /\ NewContextOnly' /\ Buffered' /\ Joined'
         /\ Fenced' /\ Flushed'
<1>1. /\ held \in Seq(Streams) /\ avio \in Seq(Unit) /\ pending \in Seq(Unit)
      /\ section \in Nat /\ made \in Nat /\ packets \in Nat
      /\ sent \in Seq(Datagram) /\ fence \in [section: Nat, sent: Nat]
      /\ Len(sent) \in Nat /\ DatagramSize \in Nat /\ DatagramSize > 0
  BY MuxerAssumption, LenProperties DEF TypeOK
<1>2. LastUnit(sent).section \in Nat
  BY <1>1, LastUnitSection DEF StreamIntact
<1>3. /\ <<>> \in Seq(Streams) /\ <<>> \in Seq(Unit) /\ Len(<<>>) = 0
  BY EmptySeq
<1>4. sent' = sent
  <2>1. CASE Restart
    BY <2>1 DEF Restart, WriteTrailer, Deliver
  <2> QED
    BY <2>1 DEF Reject, StartFails, Reset, ResetSilently, Stop
<1>5. StreamIntact'
  BY <1>4 DEF StreamIntact
<1>6. CASE Reject
  <2>1. CASE started
    <3>1. /\ UNCHANGED <<running, healthy, held, avio, pending, pc, sent, fence,
                         section, made>>
          /\ started' = TRUE /\ packets' = packets + 1
      BY <1>6, <2>1 DEF Reject, contextVars
    <3>2. TypeOK'
      BY <1>1, <3>1 DEF TypeOK
    <3>3. NewContextOnly' /\ Fenced'
      BY <2>1, <3>1 DEF NewContextOnly, Fenced
    <3>4. Buffered' /\ Joined'
      BY <2>1, <3>1 DEF Buffered, Joined, Gone
    <3>5. Flushed'
      BY <2>1, <3>1 DEF Flushed
    <3> QED
      BY <1>5, <3>2, <3>3, <3>4, <3>5
  <2>2. CASE ~started
    <3>1. /\ UNCHANGED <<running, healthy, held, avio, pending, pc, sent, fence>>
          /\ section' = section + 1 /\ made' = 0
          /\ started' = TRUE /\ packets' = packets + 1 /\ pc = "idle"
      BY <1>6, <2>2 DEF Reject, contextVars
    <3>2. held = <<>> /\ avio = <<>> /\ pending = <<>>
      BY <2>2 DEF Buffered
    <3>3. TypeOK'
      BY <1>1, <3>1 DEF TypeOK
    <3>4. NewContextOnly' /\ Fenced'
      BY <1>1, <3>1 DEF NewContextOnly, Fenced
    <3>5. Gone' = 0
      <4>1. Gone' = made' - (Len(pending') + Len(avio'))
        BY DEF Gone
      <4>2. Len(pending') = 0 /\ Len(avio') = 0 /\ made' = 0
        BY <1>3, <3>1, <3>2
      <4> QED
        BY <4>1, <4>2
    <3>6. Buffered'
      BY <1>3, <3>1, <3>2 DEF Buffered, Run
    <3>7. Joined'
      BY <1>1, <1>2, <3>1, <3>5 DEF Joined
    <3>8. Flushed'
      BY <3>1, <3>2 DEF Flushed
    <3> QED
      BY <1>5, <3>3, <3>4, <3>6, <3>7, <3>8
  <2> QED
    BY <2>1, <2>2
<1>7. CASE StartFails
  <2>1. /\ ~started /\ ~started' /\ pc = "idle" /\ pc' = "idle" /\ ~healthy'
        /\ held' = <<>> /\ avio' = <<>> /\ pending' = <<>>
        /\ UNCHANGED <<section, made, sent, fence>> /\ packets' = packets + 1
    BY <1>7 DEF StartFails, ContextCleared
  <2>2. TypeOK'
    BY <1>1, <1>3, <2>1 DEF TypeOK
  <2>3. NewContextOnly' /\ Fenced' /\ Joined'
    BY <2>1 DEF NewContextOnly, Fenced, Joined
  <2>4. Buffered' /\ Flushed'
    BY <2>1 DEF Buffered, Flushed
  <2> QED
    BY <1>5, <2>2, <2>3, <2>4
<1>8. CASE Reset \/ Restart
  <2>1. pc = "idle"
    BY <1>8 DEF Reset, Restart, TypeOK, Flushed
  <2>2. /\ ~started' /\ pc' = pc
        /\ held' = <<>> /\ avio' = <<>> /\ pending' = <<>>
        /\ fence' = [section |-> section, sent |-> Len(sent)]
        /\ UNCHANGED <<section, made, packets>>
    BY <1>8 DEF Reset, Restart, ContextCleared
  <2>3. TypeOK'
    BY <1>1, <1>3, <1>4, <2>1, <2>2 DEF TypeOK
  <2>4. NewContextOnly'
    <3>1. fence'.sent + 1 .. Len(sent') = {}
      BY <1>1, <1>4, <2>2
    <3> QED
      BY <3>1 DEF NewContextOnly
  <2>5. Fenced' /\ Joined'
    BY <1>1, <1>4, <2>2 DEF Fenced, Joined
  <2>6. Buffered' /\ Flushed'
    BY <2>1, <2>2 DEF Buffered, Flushed
  <2> QED
    BY <1>5, <2>3, <2>4, <2>5, <2>6
<1>9. CASE Stop
  <2>1. /\ UNCHANGED <<healthy, started, held, avio, pending, pc, section, made,
                       packets, sent, fence>>
        /\ ~running' /\ pc = "idle"
    BY <1>9 DEF Stop, contextVars
  <2>2. TypeOK'
    BY <2>1 DEF TypeOK
  <2>3. NewContextOnly' /\ Fenced' /\ Joined'
    BY <2>1 DEF NewContextOnly, Fenced, Joined, Gone
  <2>4. Buffered' /\ Flushed'
    BY <2>1 DEF Buffered, Flushed, Gone
  <2> QED
    BY <1>5, <2>2, <2>3, <2>4
<1> QED
  BY <1>6, <1>7, <1>8, <1>9

-----------------------------------------------------------------------------
LEMMA InitMInv == Init => MInv
<1> SUFFICES ASSUME Init PROVE MInv
  OBVIOUS
<1>1. /\ held = <<>> /\ avio = <<>> /\ pending = <<>> /\ sent = <<>>
      /\ pc = "idle" /\ section = 0 /\ made = 0 /\ packets = 0
      /\ fence = [section |-> 0, sent |-> 0] /\ ~started
  BY DEF Init
<1>2. FlagTypes
  BY Zenon DEF Init, FlagTypes
<1>3. /\ <<>> \in Seq(Streams) /\ <<>> \in Seq(Unit) /\ <<>> \in Seq(Datagram)
      /\ Len(<<>>) = 0
  BY EmptySeq
<1>4. TypeOK
  BY <1>1, <1>2, <1>3, MuxerAssumption DEF TypeOK
<1>5. 1 .. Len(sent) = {} /\ fence.sent + 1 .. Len(sent) = {}
  BY <1>1, <1>3
<1>6. StreamIntact /\ NewContextOnly
  BY <1>5 DEF StreamIntact, Intact, NewContextOnly
<1>7. Buffered /\ Flushed
  BY <1>1 DEF Buffered, Flushed
<1>8. Joined
  BY <1>1 DEF Joined, LastUnit, NoUnit
<1>9. Fenced
  BY <1>1, <1>3 DEF Fenced
<1> QED
  BY <1>4, <1>6, <1>7, <1>8, <1>9 DEF MInv

LEMMA NextMInv == MInv /\ [Next]_vars => MInv'
<1> SUFFICES ASSUME MInv, [Next]_vars PROVE MInv'
  OBVIOUS
<1>1. TypeOK /\ StreamIntact /\ NewContextOnly /\ Buffered /\ Joined /\ Fenced
      /\ Flushed
  BY DEF MInv
<1>2. CASE \E stream \in Streams, ok \in BOOLEAN : Mux(stream, ok)
  <2>1. FlagTypes'
    BY <1>1, <1>2, FlagStep DEF Next
  <2> QED
    BY <1>1, <1>2, <2>1, MuxStep DEF MInv
<1>3. CASE Flush
  <2>1. FlagTypes'
    BY <1>1, <1>3, FlagStep DEF Next
  <2> QED
    BY <1>1, <1>3, <2>1, FlushStep DEF MInv
<1>4. CASE Reject \/ StartFails \/ Reset \/ Stop \/ Restart
  <2>1. FlagTypes'
    BY <1>1, <1>4, FlagStep DEF Next
  <2> QED
    BY <1>1, <1>4, <2>1, SilentStep DEF MInv
<1>5. CASE UNCHANGED vars
  <2>1. FlagTypes'
    BY <1>1, <1>5, Zenon DEF TypeOK, FlagTypes, vars
  <2>2. TypeOK'
    BY <1>1, <1>5, <2>1 DEF TypeOK, vars
  <2>3. StreamIntact' /\ NewContextOnly' /\ Fenced' /\ Flushed'
    BY <1>1, <1>5 DEF StreamIntact, NewContextOnly, Fenced, Flushed, vars
  <2>4. Buffered' /\ Joined'
    BY <1>1, <1>5 DEF Buffered, Joined, Gone, vars
  <2> QED
    BY <2>2, <2>3, <2>4 DEF MInv
<1> QED
  BY <1>2, <1>3, <1>4, <1>5 DEF Next

LEMMA MInvInvariant == Spec => []MInv
BY InitMInv, NextMInv, PTL DEF Spec

(* The sink's buffers and what it sent have their types, and pending_ never *)
(* holds a full datagram between two calls.                                 *)
THEOREM MuxerTypeCorrect == Spec => []TypeOK
<1>1. MInv => TypeOK
  BY DEF MInv
<1> QED
  BY <1>1, MInvInvariant, PTL

(* The datagrams are the transport stream: no unit is lost, repeated,       *)
(* reordered or mixed with another context, whatever the size of a datagram *)
(* and however libavformat calls back.                                      *)
THEOREM StreamCorrect == Spec => []StreamIntact
<1>1. MInv => StreamIntact
  BY DEF MInv
<1> QED
  BY <1>1, MInvInvariant, PTL

(* After a reset or a restart nothing of an older context is sent. *)
THEOREM NewContextCorrect == Spec => []NewContextOnly
<1>1. MInv => NewContextOnly
  BY DEF MInv
<1> QED
  BY <1>1, MInvInvariant, PTL

(* Once a packet has been handled, a healthy sink has sent all that         *)
(* libavformat made of its context.                                         *)
THEOREM NothingStuckCorrect == Spec => []NothingStuck
<1>1. MInv => NothingStuck
  <2> SUFFICES ASSUME MInv, pc = "idle", healthy, running, started
               PROVE  /\ avio = <<>> /\ pending = <<>>
                      /\ made > 0 =>
                           /\ sent # <<>>
                           /\ Last(Last(sent)) = [section |-> section, no |-> made]
    BY DEF NothingStuck
  <2>1. avio = <<>> /\ pending = <<>>
    BY DEF MInv, Flushed
  <2>2. made \in Nat /\ section \in Nat /\ fence.section \in Nat
    BY DEF MInv, TypeOK
  <2>3. Gone = made
    BY <2>1, <2>2, EmptySeq DEF Gone
  <2>4. made > 0 => LastUnit(sent) = [section |-> section, no |-> made]
    BY <2>3 DEF MInv, Joined
  <2>5. made > 0 => sent # <<>>
    <3>1. sent = <<>> => LastUnit(sent).no = 0
      BY DEF LastUnit, NoUnit
    <3> QED
      BY <2>2, <2>4, <3>1
  <2> QED
    BY <2>1, <2>4, <2>5 DEF LastUnit
<1> QED
  BY <1>1, MInvInvariant, PTL
=============================================================================
