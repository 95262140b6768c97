---------------------------- MODULE SessionProofs ----------------------------
(* What exec and open-pty share: the types of a session, and the way of a  *)
(* frame from the channel through the writer task to the client, for every *)
(* bound of the channel.  ExecProofs and PtyProofs build on it.            *)
EXTENDS Session, SequenceTheorems, TLAPS

-----------------------------------------------------------------------------
(* Sequences.                                                              *)

LEMMA EmptyIsSeq ==
  ASSUME NEW S, NEW q, q = <<>>
  PROVE  q \in Seq(S) /\ Len(q) = 0
OBVIOUS

LEMMA ConcatOne ==
  ASSUME NEW S, NEW a \in Seq(S), NEW b \in Seq(S), Len(b) = 1
  PROVE  /\ Len(a) \in Nat /\ Len(a \o b) = Len(a) + 1
         /\ \A i \in 1..Len(a) : (a \o b)[i] = a[i]
         /\ (a \o b)[Len(a) + 1] = b[1]
<1>1. Len(a) \in Nat
  OBVIOUS
<1>2. /\ Len(a \o b) = Len(a) + Len(b)
      /\ \A i \in 1..(Len(a) + Len(b)) :
            (a \o b)[i] = IF i <= Len(a) THEN a[i] ELSE b[i - Len(a)]
  BY ConcatProperties, Zenon
<1>3. Len(a) + 1 \in 1..(Len(a) + Len(b)) /\ ~(Len(a) + 1 <= Len(a)) /\ Len(a) + 1 - Len(a) = 1
  BY <1>1
<1>4. (a \o b)[Len(a) + 1] = b[1]
  BY <1>2, <1>3
<1>5. Len(a \o b) = Len(a) + 1 /\ \A i \in 1..Len(a) : (a \o b)[i] = a[i]
  BY <1>1, <1>2
<1> QED
  BY <1>1, <1>4, <1>5

LEMMA ConcatPrefix ==
  ASSUME NEW S, NEW a \in Seq(S), NEW b \in Seq(S)
  PROVE  /\ a \o b \in Seq(S) /\ Len(a) \in Nat /\ Len(b) \in Nat
         /\ Len(a \o b) = Len(a) + Len(b)
         /\ \A i \in 1..Len(a) : (a \o b)[i] = a[i]
<1>1. Len(a) \in Nat /\ Len(b) \in Nat
  OBVIOUS
<1>2. /\ a \o b \in Seq(S)
      /\ Len(a \o b) = Len(a) + Len(b)
      /\ \A i \in 1..(Len(a) + Len(b)) :
            (a \o b)[i] = IF i <= Len(a) THEN a[i] ELSE b[i - Len(a)]
  BY ConcatProperties, Zenon
<1> QED
  BY <1>1, <1>2

LEMMA HeadAndTail ==
  ASSUME NEW S, NEW a \in Seq(S), a # <<>>
  PROVE  <<Head(a)>> \o Tail(a) = a /\ <<Head(a)>> \in Seq(S) /\ Tail(a) \in Seq(S)
<1>1. Head(a) = a[1] /\ Head(a) \in S /\ Len(a) \in Nat \ {0} /\ Tail(a) \in Seq(S)
  OBVIOUS
<1>2. SubSeq(a, 1, Len(a)) = <<a[1]>> \o SubSeq(a, 1 + 1, Len(a))
  <2>1. 1 \in 1..Len(a) /\ Len(a) \in 1..Len(a)
    BY <1>1
  <2> QED
    BY <2>1, SubSeqRecursiveFirst, Zenon
<1>3. SubSeq(a, 1, Len(a)) = a /\ Tail(a) = SubSeq(a, 2, Len(a))
  BY SubSeqFull, TailIsSubSeq, Zenon
<1>4. a = <<a[1]>> \o Tail(a)
  BY <1>2, <1>3
<1> QED
  BY <1>1, <1>4

-----------------------------------------------------------------------------
(* Types: what each operation leaves alone, and what it changes.           *)

LEMMA Bounds == CHANNEL_BOUND \in Nat /\ RecvCap \in Nat
BY SessionAssumption

LEMMA TransportSame == TransportTypeOK /\ UNCHANGED transportVars => TransportTypeOK'
BY DEF TransportTypeOK, transportVars

LEMMA OutboundSame == OutboundTypeOK /\ UNCHANGED outboundVars => OutboundTypeOK'
BY DEF OutboundTypeOK, outboundVars

LEMMA PumpSame == PumpTypeOK /\ UNCHANGED pumpVars => PumpTypeOK'
BY DEF PumpTypeOK, pumpVars

LEMMA FrameType ==
  /\ [type |-> "EXIT", n |-> 0] \in OutFrames
  /\ [type |-> "ERROR", n |-> 0] \in OutFrames
  /\ \A s \in Streams, k \in Nat : [type |-> s, n |-> k] \in OutFrames
BY DEF OutFrames

LEMMA ReadFrameType ==
  ASSUME TransportTypeOK, NEW r, ReadFrame(r), UNCHANGED <<up, link>>
  PROVE  TransportTypeOK'
<1>1. (inbox # <<>> /\ inbox' = Tail(inbox)) \/ inbox' = inbox
  BY DEF ReadFrame
<1> QED
  BY <1>1, SessionAssumption DEF TransportTypeOK

LEMMA SendType ==
  ASSUME OutboundTypeOK, NEW f \in OutFrames, Send(f), UNCHANGED <<writer, hand, wire>>
  PROVE  OutboundTypeOK'
<1>1. chan' \in Seq(OutFrames) /\ Len(chan') <= CHANNEL_BOUND
  <2>1. chan \in Seq(OutFrames) /\ Len(chan) <= CHANNEL_BOUND
    BY DEF OutboundTypeOK
  <2> QED
    BY <2>1, SessionAssumption DEF Send
<1> QED
  BY <1>1 DEF OutboundTypeOK

LEMMA SessionTypeInit == SessionInit => SessionTypeOK /\ pc = "request"
<1> SUFFICES ASSUME SessionInit
             PROVE  SessionTypeOK /\ pc = "request"
  OBVIOUS
<1>1. TransportTypeOK
  <2>1. inbox \in Seq(InFrames) /\ Len(inbox) = 0
    BY EmptyIsSeq DEF SessionInit
  <2>2. up = "open" /\ link = "reading"
    BY DEF SessionInit
  <2> QED
    BY <2>1, <2>2, Bounds DEF TransportTypeOK
<1>2. OutboundTypeOK
  <2>1. \A q \in {chan, hand, wire} : q \in Seq(OutFrames) /\ Len(q) = 0
    BY EmptyIsSeq DEF SessionInit
  <2>2. writer = "recv"
    BY DEF SessionInit
  <2> QED
    BY <2>1, <2>2, Bounds DEF OutboundTypeOK
<1>3. PumpTypeOK /\ fired \in BOOLEAN /\ pc = "request"
  BY DEF SessionInit, PumpTypeOK
<1> QED
  BY <1>1, <1>2, <1>3 DEF SessionTypeOK

LEMMA ClientType ==
  ASSUME SessionTypeOK, Client
  PROVE  SessionTypeOK' /\ UNCHANGED pc
<1>1. TransportTypeOK'
  <2>1. inbox' \in Seq(InFrames) /\ Len(inbox') <= RecvCap
    <3>1. inbox \in Seq(InFrames) /\ Len(inbox) <= RecvCap
      BY DEF SessionTypeOK, TransportTypeOK
    <3>2. CASE ClientSend
      <4>1. PICK f \in InFrames : inbox' = Append(inbox, f)
        BY <3>2, SessionAssumption DEF ClientSend
      <4>2. Len(inbox) < RecvCap
        BY <3>2 DEF ClientSend
      <4> QED
        BY <3>1, <4>1, <4>2, SessionAssumption
    <3>3. CASE ~ClientSend
      <4>1. inbox' = inbox \/ inbox' = <<>>
        BY <3>3 DEF Client, ClientHalfClose, ClientDrop, ClientVanish, ClientPace
      <4>2. inbox' = <<>> => inbox' \in Seq(InFrames) /\ Len(inbox') = 0
        BY EmptyIsSeq
      <4> QED
        BY <3>1, <4>1, <4>2, Bounds
    <3> QED
      BY <3>2, <3>3
  <2>2. /\ up' \in {"open", "eof", "error", "silent"}
        /\ link' \in {"reading", "stalled", "reset"}
    BY DEF SessionTypeOK, TransportTypeOK, Client, ClientSend, ClientHalfClose, ClientDrop,
           ClientVanish, ClientPace
  <2> QED
    BY <2>1, <2>2 DEF TransportTypeOK
<1>2. OutboundTypeOK' /\ PumpTypeOK' /\ UNCHANGED <<fired, pc>>
  BY OutboundSame, PumpSame DEF Client, SessionTypeOK
<1> QED
  BY <1>1, <1>2 DEF SessionTypeOK

LEMMA WriterType ==
  ASSUME SessionTypeOK, Writer
  PROVE  SessionTypeOK' /\ UNCHANGED pc
<1>1. TransportTypeOK' /\ PumpTypeOK' /\ UNCHANGED pc
  BY TransportSame, PumpSame DEF Writer, SessionTypeOK
<1>2. fired' \in BOOLEAN
  BY DEF Writer, WriterCancelled, WriterRecv, WriteFrame, WriterFinish, SessionTypeOK
<1>3. OutboundTypeOK'
  <2>1. OutboundTypeOK
    BY DEF SessionTypeOK
  <2>2. CASE WriterGone /\ wire' = wire
    <3>1. chan' \in Seq(OutFrames) /\ Len(chan') = 0 /\ hand' \in Seq(OutFrames) /\ Len(hand') = 0
      BY <2>2, EmptyIsSeq DEF WriterGone
    <3>2. writer' = "gone" /\ wire' \in Seq(OutFrames)
      BY <2>1, <2>2 DEF WriterGone, OutboundTypeOK
    <3> QED
      BY <3>1, <3>2, Bounds DEF OutboundTypeOK
  <2>3. CASE WriterRecv
    <3>1. chan \in Seq(OutFrames) /\ chan # <<>> /\ Len(chan) <= CHANNEL_BOUND
      BY <2>1, <2>3 DEF OutboundTypeOK, WriterRecv
    <3>2. chan' = Tail(chan) /\ hand' = <<Head(chan)>> /\ writer' = "write" /\ wire' = wire
      BY <2>3 DEF WriterRecv
    <3>3. chan' \in Seq(OutFrames) /\ Len(chan') <= CHANNEL_BOUND
      BY <3>1, <3>2, Bounds
    <3>4. hand' \in Seq(OutFrames) /\ Len(hand') = 1
      BY <3>1, <3>2
    <3> QED
      BY <2>1, <3>2, <3>3, <3>4 DEF OutboundTypeOK
  <2>4. CASE wire' = wire \o hand /\ hand' = <<>> /\ writer' = "recv" /\ chan' = chan
    <3>1. wire' \in Seq(OutFrames)
      BY <2>1, <2>4 DEF OutboundTypeOK
    <3>2. hand' \in Seq(OutFrames) /\ Len(hand') = 0
      BY <2>4, EmptyIsSeq
    <3> QED
      BY <2>1, <2>4, <3>1, <3>2 DEF OutboundTypeOK
  <2> QED
    BY <2>2, <2>3, <2>4 DEF Writer, WriterCancelled, WriteFrame, WriterFinish
<1> QED
  BY <1>1, <1>2, <1>3 DEF SessionTypeOK

LEMMA DriveType ==
  ASSUME SessionTypeOK, Drive
  PROVE  SessionTypeOK' /\ pc' \in {"error", "join", "done"}
<1>1. PumpTypeOK' /\ UNCHANGED <<up, link, writer, hand, wire, fired>>
  BY PumpSame DEF Drive, SessionTypeOK
<1>2. pc' \in {"error", "join", "done"}
  BY DEF Drive, NoRequest, BadRequest, SendError, JoinWriter
<1>3. TransportTypeOK'
  <2>1. TransportTypeOK
    BY DEF SessionTypeOK
  <2>2. (\E r : ReadFrame(r)) \/ inbox' = inbox
    BY DEF Drive, NoRequest, BadRequest, SendError, JoinWriter
  <2>3. CASE \E r : ReadFrame(r)
    BY <1>1, <2>1, <2>3, ReadFrameType
  <2>4. CASE inbox' = inbox
    BY <1>1, <2>1, <2>4, TransportSame DEF transportVars
  <2> QED
    BY <2>2, <2>3, <2>4
<1>4. OutboundTypeOK'
  <2>1. OutboundTypeOK
    BY DEF SessionTypeOK
  <2>2. Send([type |-> "ERROR", n |-> 0]) \/ chan' = chan
    BY DEF Drive, SendError, JoinWriter
  <2>3. CASE Send([type |-> "ERROR", n |-> 0])
    BY <1>1, <2>1, <2>3, FrameType, SendType
  <2>4. CASE chan' = chan
    BY <1>1, <2>1, <2>4, OutboundSame DEF outboundVars
  <2> QED
    BY <2>2, <2>3, <2>4
<1> QED
  BY <1>1, <1>2, <1>3, <1>4 DEF SessionTypeOK

-----------------------------------------------------------------------------
(* Every frame on its way, from the client back to the channel.            *)

Queued == (wire \o hand) \o chan

LEMMA QueuedType ==
  ASSUME OutboundTypeOK
  PROVE  /\ Queued \in Seq(OutFrames) /\ Len(wire) \in Nat /\ Len(Queued) \in Nat
         /\ Len(Queued) = Len(wire) + Len(hand) + Len(chan)
         /\ Len(wire) <= Len(Queued)
         /\ \A i \in 1..Len(wire) : Queued[i] = wire[i]
         /\ Len(hand) = 1 => /\ Len(wire) + 1 \in 1..Len(Queued)
                             /\ Queued[Len(wire) + 1] = hand[1]
<1>1. wire \in Seq(OutFrames) /\ hand \in Seq(OutFrames) /\ chan \in Seq(OutFrames)
  BY DEF OutboundTypeOK
<1>2. /\ wire \o hand \in Seq(OutFrames) /\ Len(wire) \in Nat /\ Len(hand) \in Nat
      /\ Len(wire \o hand) = Len(wire) + Len(hand)
      /\ \A i \in 1..Len(wire) : (wire \o hand)[i] = wire[i]
  BY <1>1, ConcatPrefix
<1>3. /\ Queued \in Seq(OutFrames) /\ Len(chan) \in Nat
      /\ Len(Queued) = Len(wire \o hand) + Len(chan)
      /\ \A i \in 1..Len(wire \o hand) : Queued[i] = (wire \o hand)[i]
  BY <1>1, <1>2, ConcatPrefix DEF Queued
<1>4. ASSUME Len(hand) = 1
      PROVE  (wire \o hand)[Len(wire) + 1] = hand[1]
  BY <1>1, <1>4, ConcatOne
<1> QED
  BY <1>2, <1>3, <1>4

WireFirst ==
  /\ Len(wire) \in Nat /\ Len(Queued) \in Nat /\ Len(wire) <= Len(Queued)
  /\ \A i \in 1..Len(wire) : Queued[i] = wire[i]

LEMMA WireIsFirst == OutboundTypeOK => WireFirst
BY QueuedType DEF WireFirst

LEMMA QueuedSend ==
  ASSUME OutboundTypeOK, NEW f \in OutFrames, Send(f), UNCHANGED <<hand, wire>>
  PROVE  \/ writer = "gone" /\ Queued' = Queued
         \/ writer # "gone" /\ Queued' = Append(Queued, f)
<1>1. wire \in Seq(OutFrames) /\ hand \in Seq(OutFrames) /\ chan \in Seq(OutFrames)
  BY DEF OutboundTypeOK
<1>2. CASE writer = "gone" /\ UNCHANGED chan
  BY <1>2 DEF Queued
<1>3. CASE writer # "gone" /\ chan' = Append(chan, f)
  <2>1. wire \o hand \in Seq(OutFrames) /\ <<f>> \in Seq(OutFrames)
    BY <1>1
  <2>2. Append(chan, f) = chan \o <<f>>
    BY <1>1, AppendIsConcat
  <2>3. (wire \o hand) \o (chan \o <<f>>) = ((wire \o hand) \o chan) \o <<f>>
    BY <1>1, <2>1, ConcatAssociative
  <2>4. Queued \in Seq(OutFrames)
    BY QueuedType
  <2>5. Queued \o <<f>> = Append(Queued, f)
    BY <2>4, AppendIsConcat
  <2> QED
    BY <1>3, <2>2, <2>3, <2>5 DEF Queued
<1> QED
  BY <1>2, <1>3 DEF Send

\* The writer task only moves the border between wire and channel, or goes and
\* takes all that is not on the wire with it.
LEMMA QueuedWriter ==
  ASSUME OutboundTypeOK, Writer
  PROVE  \/ writer' = "gone" /\ Queued' = wire' /\ wire' = wire
         \/ writer # "gone" /\ writer' # "gone" /\ Queued' = Queued /\ wire' = wire
         \/ /\ writer = "write" /\ writer' # "gone" /\ Queued' = Queued
            /\ wire' = wire \o hand
<1>1. wire \in Seq(OutFrames) /\ hand \in Seq(OutFrames) /\ chan \in Seq(OutFrames)
  BY DEF OutboundTypeOK
<1>2. CASE WriterGone /\ wire' = wire
  <2>1. hand' = <<>> /\ chan' = <<>> /\ writer' = "gone"
    BY <1>2 DEF WriterGone
  <2>2. (wire \o <<>>) \o <<>> = wire
    BY <1>1, ConcatEmptySeq
  <2> QED
    BY <1>2, <2>1, <2>2 DEF Queued
<1>3. CASE WriterRecv
  <2>1. /\ writer = "recv" /\ writer' = "write" /\ wire' = wire
        /\ chan # <<>> /\ hand' = <<Head(chan)>> /\ chan' = Tail(chan)
    BY <1>3 DEF WriterRecv
  <2>2. hand = <<>>
    <3>1. Len(hand) = 0
      BY <2>1 DEF OutboundTypeOK
    <3> QED
      BY <1>1, <3>1
  <2>3. /\ <<Head(chan)>> \o Tail(chan) = chan
        /\ <<Head(chan)>> \in Seq(OutFrames) /\ Tail(chan) \in Seq(OutFrames)
    BY <1>1, <2>1, HeadAndTail
  <2>4. (wire \o <<Head(chan)>>) \o Tail(chan) = wire \o chan
    BY <1>1, <2>3, ConcatAssociative
  <2>5. wire \o <<>> = wire
    BY <1>1, ConcatEmptySeq
  <2> QED
    BY <2>1, <2>2, <2>4, <2>5 DEF Queued
<1>4. CASE writer = "write" /\ writer' = "recv" /\ wire' = wire \o hand /\ hand' = <<>>
           /\ chan' = chan
  <2>1. (wire \o hand) \o <<>> = wire \o hand
    BY <1>1, ConcatPrefix, ConcatEmptySeq
  <2> QED
    BY <1>4, <2>1 DEF Queued
<1> QED
  BY <1>2, <1>3, <1>4 DEF Writer, WriterCancelled, WriteFrame, WriterFinish

-----------------------------------------------------------------------------
(* The chunks of a stream on their way: numbered without a gap and in order*)

InOrder(q, s) ==
  \A i, j \in 1..Len(q) : i < j /\ q[i].type = s /\ q[j].type = s => q[i].n < q[j].n

Covers(q, s, k) ==
  /\ \A i \in 1..Len(q) : q[i].type = s => q[i].n \in 1..k
  /\ \A n \in 1..k : \E i \in 1..Len(q) : q[i].type = s /\ q[i].n = n

LEMMA AppendAt ==
  ASSUME NEW q \in Seq(OutFrames), NEW f \in OutFrames
  PROVE  /\ Append(q, f) \in Seq(OutFrames) /\ Len(q) \in Nat
         /\ Len(Append(q, f)) = Len(q) + 1
         /\ \A i \in 1..Len(q) : Append(q, f)[i] = q[i]
         /\ Append(q, f)[Len(q) + 1] = f
OBVIOUS

LEMMA AppendChunk ==
  ASSUME NEW q \in Seq(OutFrames), NEW s \in Streams, NEW k \in Nat,
         InOrder(q, s), Covers(q, s, k)
  PROVE  LET p == Append(q, [type |-> s, n |-> k + 1])
         IN  InOrder(p, s) /\ Covers(p, s, k + 1)
<1> DEFINE f == [type |-> s, n |-> k + 1]
           p == Append(q, f)
<1>1. f \in OutFrames /\ f.type = s /\ f.n = k + 1
  BY FrameType
<1> HIDE DEF f
<1>2. /\ Len(q) \in Nat /\ Len(p) = Len(q) + 1
      /\ \A i \in 1..Len(q) : p[i] = q[i]
      /\ p[Len(q) + 1] = f
  BY <1>1, AppendAt
<1> HIDE DEF p
<1>3. \A i \in 1..Len(p) : i \in 1..Len(q) \/ i = Len(q) + 1
  BY <1>2
<1>4. \A i \in 1..Len(q) : i \in 1..Len(p)
  BY <1>2
<1>5. InOrder(p, s)
  <2> SUFFICES ASSUME NEW i \in 1..Len(p), NEW j \in 1..Len(p), i < j,
                      p[i].type = s, p[j].type = s
               PROVE  p[i].n < p[j].n
    BY DEF InOrder
  <2>1. i \in 1..Len(q)
    BY <1>2
  <2>2. CASE j \in 1..Len(q)
    BY <1>2, <2>1, <2>2 DEF InOrder
  <2>3. CASE j = Len(q) + 1
    <3>1. p[i].n \in 1..k
      BY <1>2, <2>1 DEF Covers
    <3>2. p[j].n = k + 1
      BY <1>1, <1>2, <2>3
    <3> QED
      BY <3>1, <3>2
  <2> QED
    BY <1>3, <2>2, <2>3
<1>6. Covers(p, s, k + 1)
  <2>1. ASSUME NEW i \in 1..Len(p), p[i].type = s
        PROVE  p[i].n \in 1..(k + 1)
    <3>1. CASE i \in 1..Len(q)
      <4>1. p[i].n \in 1..k
        BY <1>2, <2>1, <3>1 DEF Covers
      <4> QED
        BY <4>1
    <3>2. CASE i = Len(q) + 1
      <4>1. p[i].n = k + 1
        BY <1>1, <1>2, <3>2
      <4> QED
        BY <4>1
    <3> QED
      BY <1>3, <3>1, <3>2
  <2>2. ASSUME NEW n \in 1..(k + 1)
        PROVE  \E i \in 1..Len(p) : p[i].type = s /\ p[i].n = n
    <3>1. CASE n \in 1..k
      <4>1. PICK i \in 1..Len(q) : q[i].type = s /\ q[i].n = n
        BY <3>1 DEF Covers
      <4> QED
        BY <1>2, <1>4, <4>1
    <3>2. CASE n = k + 1
      <4>1. Len(q) + 1 \in 1..Len(p)
        BY <1>2
      <4> QED
        BY <1>1, <1>2, <3>2, <4>1
    <3> QED
      BY <3>1, <3>2
  <2> QED
    BY <2>1, <2>2 DEF Covers
<1> QED
  BY <1>5, <1>6 DEF p, f

LEMMA AppendOther ==
  ASSUME NEW q \in Seq(OutFrames), NEW s \in Streams, NEW k \in Nat, NEW f \in OutFrames,
         f.type # s, InOrder(q, s), Covers(q, s, k)
  PROVE  InOrder(Append(q, f), s) /\ Covers(Append(q, f), s, k)
<1> DEFINE p == Append(q, f)
<1>1. /\ Len(q) \in Nat /\ Len(p) = Len(q) + 1
      /\ \A i \in 1..Len(q) : p[i] = q[i]
      /\ p[Len(q) + 1] = f
  BY AppendAt
<1> HIDE DEF p
<1>2. \A i \in 1..Len(p) : p[i].type = s => i \in 1..Len(q) /\ p[i] = q[i]
  <2> SUFFICES ASSUME NEW i \in 1..Len(p), p[i].type = s
               PROVE  i \in 1..Len(q)
    BY <1>1
  <2>1. i # Len(q) + 1
    BY <1>1
  <2> QED
    BY <1>1, <2>1
<1>3. \A i \in 1..Len(q) : i \in 1..Len(p) /\ p[i] = q[i]
  BY <1>1
<1>4. InOrder(p, s)
  BY <1>2 DEF InOrder
<1>5. Covers(p, s, k)
  <2>1. ASSUME NEW n \in 1..k
        PROVE  \E i \in 1..Len(p) : p[i].type = s /\ p[i].n = n
    <3>1. PICK i \in 1..Len(q) : q[i].type = s /\ q[i].n = n
      BY DEF Covers
    <3> QED
      BY <1>3, <3>1
  <2> QED
    BY <1>2, <2>1 DEF Covers
<1> QED
  BY <1>4, <1>5 DEF p

-----------------------------------------------------------------------------
(* The invariants of the outbound path, and what each kind of step does to *)
(* them.                                                                   *)

\* A terminal frame, wherever it is on its way, is the last one; it is queued
\* by the step into join.
TerminalInv ==
  \A i \in 1..Len(Queued) : Terminal(Queued[i]) =>
    i = Len(Queued) /\ Queued[i].n = 0 /\ pc \in {"join", "done"}

\* The first k chunks of s, and no others, are on their way: all that the task
\* has read, but for the one it is about to send.
Passed(s, k) ==
  /\ Covers(Queued, s, k)
  /\ pump[s] = "send" => k = taken[s] - 1
  /\ pump[s] \in {"none", "read", "finished"} => k = taken[s]

StreamInv ==
  /\ \A s \in Streams : taken[s] <= produced[s]
  /\ writer # "gone" =>
       \A s \in Streams : InOrder(Queued, s) /\ \E k \in 0..taken[s] : Passed(s, k)

WayInv == TerminalInv /\ StreamInv

LEMMA WayInit == SessionInit => WayInv
<1> SUFFICES ASSUME SessionInit
             PROVE  WayInv
  OBVIOUS
<1>1. SessionTypeOK
  BY SessionTypeInit
<1>2. Len(Queued) = 0
  <2>1. Len(wire) = 0 /\ Len(hand) = 0 /\ Len(chan) = 0
    BY EmptyIsSeq DEF SessionInit
  <2>2. OutboundTypeOK
    BY <1>1 DEF SessionTypeOK
  <2> QED
    BY <2>1, <2>2, QueuedType
<1>3. 1..Len(Queued) = {} /\ 1..0 = {}
  BY <1>2
<1>4. TerminalInv
  BY <1>3 DEF TerminalInv
<1>5. ASSUME NEW s \in Streams
      PROVE  /\ taken[s] = 0 /\ produced[s] = 0 /\ InOrder(Queued, s)
             /\ Passed(s, 0)
  <2>1. taken[s] = 0 /\ produced[s] = 0 /\ pump[s] = "none"
    BY DEF SessionInit
  <2> QED
    BY <1>3, <2>1 DEF InOrder, Passed, Covers
<1>6. StreamInv
  BY <1>5 DEF StreamInv
<1> QED
  BY <1>4, <1>6 DEF WayInv

\* The writer only moves frames along, or drops what is not on the wire.
LEMMA WayWriter ==
  ASSUME SessionTypeOK, WayInv, Writer
  PROVE  WayInv'
<1>0. OutboundTypeOK /\ TerminalInv /\ StreamInv /\ UNCHANGED <<pump, produced, taken, pc>>
  BY DEF SessionTypeOK, WayInv, Writer, pumpVars
<1>1. CASE writer' = "gone" /\ Queued' = wire' /\ wire' = wire
  <2>1. /\ Len(wire) \in Nat /\ Len(Queued) \in Nat /\ Len(wire) <= Len(Queued)
        /\ \A i \in 1..Len(wire) : Queued[i] = wire[i]
        /\ Queued \in Seq(OutFrames) /\ wire \in Seq(OutFrames)
    BY <1>0, QueuedType DEF OutboundTypeOK
  <2>2. Queued' = wire
    BY <1>1
  <2>3. ASSUME NEW i \in 1..Len(wire), Terminal(wire[i])
        PROVE  i = Len(wire) /\ wire[i].n = 0 /\ pc \in {"join", "done"}
    <3>1. i \in 1..Len(Queued) /\ Queued[i] = wire[i]
      BY <2>1
    <3>2. i = Len(Queued) /\ Queued[i].n = 0 /\ pc \in {"join", "done"}
      BY <1>0, <2>3, <3>1 DEF TerminalInv
    <3> QED
      BY <2>1, <3>1, <3>2
  <2>4. TerminalInv'
    BY <1>0, <2>2, <2>3 DEF TerminalInv, Terminal
  <2> QED
    BY <1>0, <1>1, <2>4 DEF StreamInv, WayInv
<1>2. CASE writer # "gone" /\ writer' # "gone" /\ Queued' = Queued
  BY <1>0, <1>2 DEF WayInv, TerminalInv, StreamInv, Passed, Terminal
<1> QED
  BY <1>0, <1>1, <1>2, QueuedWriter

\* A task sends the chunk it has read; a task that finds the receiver gone
\* drops it, and the one of open-pty then ends.
LEMMA WayChunk ==
  ASSUME SessionTypeOK, WayInv, NEW s \in Streams, pump[s] = "send",
         Send([type |-> s, n |-> taken[s]]), UNCHANGED <<writer, hand, wire, pc, produced, taken>>,
         NEW p \in {"read", "finished"}, pump' = [pump EXCEPT ![s] = p],
         pc \notin {"join", "done"}
  PROVE  WayInv'
<1> DEFINE f == [type |-> s, n |-> taken[s]]
<1>0. OutboundTypeOK /\ PumpTypeOK /\ TerminalInv /\ StreamInv
  BY DEF SessionTypeOK, WayInv
<1>1. f \in OutFrames /\ f.type = s /\ f.n = taken[s] /\ ~Terminal(f) /\ taken[s] \in Nat
  BY <1>0, FrameType DEF PumpTypeOK, Terminal, Streams
<1>2. Send(f)
  OBVIOUS
<1> HIDE DEF f
<1>3. /\ pump'[s] = p /\ \A r \in Streams : r # s => pump'[r] = pump[r]
  BY <1>0 DEF PumpTypeOK
<1>4. CASE writer = "gone" /\ Queued' = Queued
  BY <1>0, <1>4 DEF WayInv, TerminalInv, StreamInv, Terminal
<1>5. CASE writer # "gone" /\ Queued' = Append(Queued, f)
  <2>1. /\ Queued \in Seq(OutFrames) /\ Len(Queued) \in Nat /\ Len(Queued') = Len(Queued) + 1
        /\ \A i \in 1..Len(Queued) : Queued'[i] = Queued[i]
        /\ Queued'[Len(Queued) + 1] = f
    BY <1>0, <1>1, <1>5, QueuedType, AppendAt
  <2>2. \A i \in 1..Len(Queued) : ~Terminal(Queued[i])
    BY <1>0 DEF TerminalInv
  <2>3. \A i \in 1..Len(Queued') : i \in 1..Len(Queued) \/ i = Len(Queued) + 1
    BY <2>1
  <2>4. \A i \in 1..Len(Queued') : ~Terminal(Queued'[i])
    BY <1>1, <2>1, <2>2, <2>3
  <2>5. TerminalInv'
    BY <2>4 DEF TerminalInv, Terminal
  <2>6. ASSUME NEW r \in Streams
        PROVE  InOrder(Queued, r)' /\ \E k \in 0..taken[r]' : Passed(r, k)'
    <3>1. PICK k \in 0..taken[r] : Passed(r, k)
      BY <1>0, <1>5 DEF StreamInv
    <3>2. InOrder(Queued, r) /\ Covers(Queued, r, k) /\ k \in Nat /\ taken[r] \in Nat
      BY <1>0, <1>5, <3>1 DEF StreamInv, Passed, PumpTypeOK
    <3>3. CASE r = s
      <4>1. k + 1 = taken[s]
        BY <1>1, <3>1, <3>2, <3>3 DEF Passed
      <4>2. f = [type |-> s, n |-> k + 1]
        BY <4>1 DEF f
      <4>3. InOrder(Queued', s) /\ Covers(Queued', s, k + 1)
        BY <1>5, <2>1, <3>2, <3>3, <4>2, AppendChunk
      <4>4. pump'[s] \in {"read", "finished"} /\ taken' = taken
        BY <1>3
      <4>5. Passed(s, taken[s])'
        BY <4>1, <4>3, <4>4 DEF Passed
      <4>6. taken[s] \in 0..taken[s]
        BY <1>1
      <4> QED
        BY <3>3, <4>1, <4>3, <4>4, <4>5, <4>6
    <3>4. CASE r # s
      <4>1. f.type # r
        BY <1>1, <3>4
      <4>2. InOrder(Queued', r) /\ Covers(Queued', r, k)
        BY <1>1, <1>5, <2>1, <3>2, <4>1, AppendOther
      <4>3. Passed(r, k)'
        BY <1>3, <3>1, <3>4, <4>2 DEF Passed
      <4> QED
        BY <4>2, <4>3
    <3> QED
      BY <3>3, <3>4
  <2>7. StreamInv'
    BY <1>0, <2>6 DEF StreamInv
  <2> QED
    BY <2>5, <2>7 DEF WayInv
<1> QED
  BY <1>0, <1>1, <1>2, <1>4, <1>5, QueuedSend

\* send(EXIT) and send_error, the steps into join.
LEMMA WayTerminal ==
  ASSUME SessionTypeOK, WayInv, NEW t \in {"EXIT", "ERROR"}, Send([type |-> t, n |-> 0]),
         UNCHANGED <<writer, hand, wire, pumpVars>>,
         pc \notin {"join", "done"}, pc' = "join"
  PROVE  WayInv'
<1> DEFINE f == [type |-> t, n |-> 0]
<1>0. OutboundTypeOK /\ PumpTypeOK /\ TerminalInv /\ StreamInv /\ UNCHANGED <<pump, produced, taken>>
  BY DEF SessionTypeOK, WayInv, pumpVars
<1>1. f \in OutFrames /\ f.n = 0 /\ \A s \in Streams : f.type # s
  BY FrameType DEF Streams
<1>2. Send(f)
  OBVIOUS
<1> HIDE DEF f
<1>3. \A i \in 1..Len(Queued) : ~Terminal(Queued[i])
  BY <1>0 DEF TerminalInv
<1>4. CASE writer = "gone" /\ Queued' = Queued
  BY <1>0, <1>3, <1>4 DEF WayInv, TerminalInv, StreamInv, Terminal
<1>5. CASE writer # "gone" /\ Queued' = Append(Queued, f)
  <2>1. /\ Queued \in Seq(OutFrames) /\ Len(Queued) \in Nat /\ Len(Queued') = Len(Queued) + 1
        /\ \A i \in 1..Len(Queued) : Queued'[i] = Queued[i]
        /\ Queued'[Len(Queued) + 1] = f
    BY <1>0, <1>1, <1>5, QueuedType, AppendAt
  <2>2. \A i \in 1..Len(Queued') : i \in 1..Len(Queued) \/ i = Len(Queued) + 1
    BY <2>1
  <2>3. \A i \in 1..Len(Queued') :
          Terminal(Queued'[i]) => i = Len(Queued') /\ Queued'[i].n = 0
    BY <1>1, <1>3, <2>1, <2>2
  <2>4. TerminalInv'
    BY <2>3 DEF TerminalInv, Terminal
  <2>5. ASSUME NEW s \in Streams
        PROVE  InOrder(Queued, s)' /\ \E k \in 0..taken[s]' : Passed(s, k)'
    <3>1. PICK k \in 0..taken[s] : Passed(s, k)
      BY <1>0, <1>5 DEF StreamInv
    <3>2. InOrder(Queued, s) /\ Covers(Queued, s, k) /\ k \in Nat
      BY <1>0, <1>5, <3>1 DEF StreamInv, Passed, PumpTypeOK
    <3>3. InOrder(Queued', s) /\ Covers(Queued', s, k)
      BY <1>1, <1>5, <2>1, <3>2, AppendOther
    <3>4. Passed(s, k)'
      BY <1>0, <3>1, <3>3 DEF Passed
    <3> QED
      BY <1>0, <3>3, <3>4
  <2>6. StreamInv'
    BY <1>0, <2>5 DEF StreamInv
  <2> QED
    BY <2>4, <2>6 DEF WayInv
<1> QED
  BY <1>0, <1>1, <1>2, <1>4, <1>5, QueuedSend

\* A task reads the next chunk of its pipe.
LEMMA WayTaken ==
  ASSUME SessionTypeOK, WayInv, NEW s \in Streams, pump[s] = "read", taken[s] < produced[s],
         taken' = [taken EXCEPT ![s] = @ + 1], pump' = [pump EXCEPT ![s] = "send"],
         UNCHANGED <<outboundVars, pc, produced>>
  PROVE  WayInv'
<1>0. /\ PumpTypeOK /\ TerminalInv /\ StreamInv /\ UNCHANGED <<writer, wire, hand, chan>>
      /\ Queued' = Queued
  BY DEF SessionTypeOK, WayInv, outboundVars, Queued
<1>1. /\ \A r \in Streams : taken[r] \in Nat /\ produced[r] \in Nat
      /\ taken'[s] = taken[s] + 1 /\ pump'[s] = "send"
      /\ \A r \in Streams : r # s => taken'[r] = taken[r] /\ pump'[r] = pump[r]
  BY <1>0 DEF PumpTypeOK
<1>2. TerminalInv'
  BY <1>0 DEF TerminalInv, Terminal
<1>3. ASSUME NEW r \in Streams
      PROVE  taken'[r] <= produced'[r]
  BY <1>0, <1>1 DEF StreamInv
<1>4. ASSUME NEW r \in Streams, writer # "gone"
      PROVE  InOrder(Queued, r)' /\ \E k \in 0..taken[r]' : Passed(r, k)'
  <2>1. PICK k \in 0..taken[r] : Passed(r, k)
    BY <1>0, <1>4 DEF StreamInv
  <2>2. InOrder(Queued', r) /\ Covers(Queued', r, k)
    BY <1>0, <1>4, <2>1 DEF StreamInv, Passed
  <2>3. CASE r = s
    <3>1. k = taken[s]
      BY <2>1, <2>3 DEF Passed
    <3>2. k \in 0..taken'[s] /\ k = taken'[s] - 1
      BY <1>1, <3>1
    <3> QED
      BY <1>1, <2>2, <2>3, <3>2 DEF Passed
  <2>4. CASE r # s
    BY <1>1, <2>1, <2>2, <2>4 DEF Passed
  <2> QED
    BY <2>3, <2>4
<1>5. StreamInv'
  BY <1>0, <1>3, <1>4 DEF StreamInv
<1> QED
  BY <1>2, <1>5 DEF WayInv

\* Every other step: the command may write, a task may start, end at the end of
\* its pipe, or be aborted.
LEMMA WayOther ==
  ASSUME SessionTypeOK, WayInv, UNCHANGED <<outboundVars, taken>>, PumpTypeOK',
         \A s \in Streams : produced'[s] >= produced[s],
         \A s \in Streams : \/ pump'[s] = pump[s] \/ pump'[s] = "aborted"
                             \/ {pump[s], pump'[s]} \subseteq {"none", "read", "finished"},
         pc \in {"join", "done"} => pc' \in {"join", "done"}
  PROVE  WayInv'
<1>0. /\ PumpTypeOK /\ TerminalInv /\ StreamInv /\ UNCHANGED <<writer, wire, hand, chan, taken>>
      /\ Queued' = Queued
  BY DEF SessionTypeOK, WayInv, outboundVars, Queued
<1>1. TerminalInv'
  BY <1>0 DEF TerminalInv, Terminal
<1>2. ASSUME NEW s \in Streams
      PROVE  taken'[s] <= produced'[s]
  <2>1. taken[s] \in Nat /\ produced[s] \in Nat /\ produced'[s] \in Nat /\ taken[s] <= produced[s]
    BY <1>0 DEF StreamInv, PumpTypeOK
  <2> QED
    BY <1>0, <2>1
<1>3. ASSUME NEW s \in Streams, writer # "gone"
      PROVE  InOrder(Queued, s)' /\ \E k \in 0..taken[s]' : Passed(s, k)'
  <2>1. PICK k \in 0..taken[s] : Passed(s, k)
    BY <1>0, <1>3 DEF StreamInv
  <2>2. InOrder(Queued', s) /\ Covers(Queued', s, k)
    BY <1>0, <1>3, <2>1 DEF StreamInv, Passed
  <2>3. Passed(s, k)'
    BY <1>0, <2>1, <2>2 DEF Passed
  <2> QED
    BY <1>0, <2>2, <2>3
<1>4. StreamInv'
  BY <1>0, <1>2, <1>3 DEF StreamInv
<1> QED
  BY <1>1, <1>4 DEF WayInv

-----------------------------------------------------------------------------
(* Refinement: the abstract output stream sees the writer deliver chunk    *)
(* after chunk, and the terminal frame at the end.                         *)

LEMMA CoversGot ==
  ASSUME NEW s \in Streams, NEW k \in Nat, wire \in Seq(OutFrames), Covers(wire, s, k)
  PROVE  Output!Got(s) = 1..k
<1>1. DOMAIN wire = 1..Len(wire)
  OBVIOUS
<1> QED
  BY <1>1 DEF Output!Got, Covers

\* Before the frame in place m, the chunks of its stream are all there, up to
\* the one it carries.
LEMMA CoversBefore ==
  ASSUME NEW q \in Seq(OutFrames), NEW s \in Streams, NEW k \in Nat,
         InOrder(q, s), Covers(q, s, k), NEW m \in 1..Len(q), q[m].type = s
  PROVE  /\ q[m].n \in 1..k
         /\ \A i \in 1..(m - 1) : q[i].type = s => q[i].n \in 1..(q[m].n - 1)
         /\ \A n \in 1..(q[m].n - 1) : \E i \in 1..(m - 1) : q[i].type = s /\ q[i].n = n
<1>0. Len(q) \in Nat /\ m \in Nat /\ \A i \in 1..(m - 1) : i \in 1..Len(q) /\ i < m
  OBVIOUS
<1>1. q[m].n \in 1..k
  BY DEF Covers
<1>2. ASSUME NEW i \in 1..(m - 1), q[i].type = s
      PROVE  q[i].n \in 1..(q[m].n - 1)
  <2>1. i \in 1..Len(q) /\ i < m
    BY <1>0
  <2>2. q[i].n < q[m].n
    BY <1>2, <2>1 DEF InOrder
  <2>3. q[i].n \in 1..k
    BY <1>2, <2>1 DEF Covers
  <2> QED
    BY <1>1, <2>2, <2>3
<1>3. ASSUME NEW n \in 1..(q[m].n - 1)
      PROVE  \E i \in 1..(m - 1) : q[i].type = s /\ q[i].n = n
  <2>1. n \in 1..k /\ n < q[m].n
    BY <1>1
  <2>2. PICK i \in 1..Len(q) : q[i].type = s /\ q[i].n = n
    BY <2>1 DEF Covers
  <2>3. ~(m < i)
    <3> SUFFICES ASSUME m < i
                 PROVE  FALSE
      OBVIOUS
    <3>1. q[m].n < q[i].n
      BY <2>2 DEF InOrder
    <3> QED
      BY <1>1, <2>1, <2>2, <3>1
  <2>4. i # m
    BY <1>1, <2>1, <2>2
  <2>5. i \in 1..(m - 1)
    BY <1>0, <2>3, <2>4
  <2> QED
    BY <2>2, <2>5
<1> QED
  BY <1>1, <1>2, <1>3

LEMMA OutputWriter ==
  ASSUME SessionTypeOK, WayInv, Writer
  PROVE  [Output!Next]_(Output!vars)
<1>0. /\ OutboundTypeOK /\ PumpTypeOK /\ TerminalInv /\ StreamInv
      /\ UNCHANGED <<pump, produced, taken, pc>>
  BY DEF SessionTypeOK, WayInv, Writer, pumpVars
<1>1. CASE wire' = wire
  BY <1>0, <1>1 DEF Output!vars
<1>2. CASE writer = "write" /\ wire' = wire \o hand
  <2> DEFINE m == Len(wire) + 1
             f == Queued[m]
  <2>1. /\ wire \in Seq(OutFrames) /\ hand \in Seq(OutFrames) /\ Len(hand) = 1
    BY <1>0, <1>2 DEF OutboundTypeOK
  <2>2. /\ Queued \in Seq(OutFrames) /\ Len(wire) \in Nat /\ Len(Queued) \in Nat
        /\ m \in 1..Len(Queued) /\ f = hand[1]
        /\ \A i \in 1..Len(wire) : Queued[i] = wire[i]
        /\ \A i \in 1..Len(wire) : i \in 1..Len(Queued)
    <3>1. /\ Queued \in Seq(OutFrames) /\ Len(wire) \in Nat /\ Len(Queued) \in Nat
          /\ Len(wire) <= Len(Queued) /\ m \in 1..Len(Queued) /\ f = hand[1]
          /\ \A i \in 1..Len(wire) : Queued[i] = wire[i]
          /\ wire \in Seq(OutFrames)
      BY <1>0, <2>1, QueuedType DEF OutboundTypeOK
    <3>2. \A i \in 1..Len(wire) : i \in 1..Len(Queued)
      <4>1. Len(wire) \in Nat /\ Len(Queued) \in Nat /\ Len(wire) <= Len(Queued)
        BY <3>1
      <4> QED
        BY <4>1
    <3> QED
      BY <3>1, <3>2, Zenon
  <2>3. wire' = Append(wire, f) /\ f \in OutFrames
    <3>1. hand = <<hand[1]>> /\ hand[1] \in OutFrames
      <4>1. hand[1] \in OutFrames /\ <<hand[1]>> \in Seq(OutFrames)
        BY <2>1
      <4>2. Len(<<hand[1]>>) = Len(hand) /\ \A i \in 1..Len(hand) : hand[i] = <<hand[1]>>[i]
        BY <2>1
      <4> QED
        BY <2>1, <4>1, <4>2, SeqEqual
    <3>2. Append(wire, hand[1]) = wire \o <<hand[1]>>
      BY <2>1, <3>1, AppendIsConcat
    <3> QED
      BY <1>2, <2>2, <3>1, <3>2
  <2>4. m - 1 = Len(wire) /\ m \in Nat /\ DOMAIN wire = 1..Len(wire)
    BY <2>1, <2>2
  <2>5. Output!Open
    <3> SUFFICES ASSUME NEW i \in 1..Len(wire)
                 PROVE  wire[i].type \in Streams
      BY <2>4 DEF Output!Open
    <3>1. i \in 1..Len(Queued) /\ Queued[i] = wire[i] /\ wire[i] \in OutFrames
      BY <2>1, <2>2
    <3>2. i # Len(Queued)
      BY <2>2
    <3>3. ~Terminal(wire[i])
      BY <1>0, <3>1, <3>2 DEF TerminalInv
    <3> QED
      BY <3>1, <3>3 DEF Terminal, OutFrames
  <2>6. CASE f.type \in Streams
    <3> DEFINE s == f.type
    <3>0. f = [type |-> s, n |-> f.n]
      BY <2>3 DEF OutFrames
    <3>1. PICK k \in 0..taken[s] : Passed(s, k)
      BY <1>0, <1>2, <2>6 DEF StreamInv
    <3>2. /\ k \in Nat /\ k <= produced[s] /\ produced[s] \in Nat
          /\ InOrder(Queued, s) /\ Covers(Queued, s, k)
      <4>1. /\ taken[s] \in Nat /\ produced[s] \in Nat /\ taken[s] <= produced[s]
            /\ InOrder(Queued, s) /\ Covers(Queued, s, k)
        BY <1>0, <1>2, <2>6, <3>1 DEF StreamInv, Passed, PumpTypeOK
      <4> QED
        BY <4>1
    <3> HIDE DEF s, f, m
    <3>3. f.type = s /\ Queued[m] = f
      BY DEF s, f
    <3>4. /\ f.n \in 1..k
          /\ \A i \in 1..(m - 1) : Queued[i].type = s => Queued[i].n \in 1..(f.n - 1)
          /\ \A n \in 1..(f.n - 1) :
                \E i \in 1..(m - 1) : Queued[i].type = s /\ Queued[i].n = n
      BY <2>2, <2>6, <3>2, <3>3, CoversBefore
    <3>5. Covers(wire, s, f.n - 1)
      BY <2>2, <2>4, <3>4 DEF Covers
    <3>6. f.n - 1 \in Nat /\ f.n \in 1..produced[s]
      BY <3>2, <3>4
    <3>7. Output!Got(s) = 1..(f.n - 1)
      BY <2>1, <2>6, <3>3, <3>5, <3>6, CoversGot
    <3>8. Output!Deliver(s)
      BY <1>0, <2>3, <2>5, <3>0, <3>6, <3>7 DEF Output!Deliver
    <3> QED
      BY <2>6, <3>3, <3>8 DEF Output!Next
  <2>7. CASE f.type \notin Streams
    <3>1. Terminal(f) /\ f.type \in {"EXIT", "ERROR"}
      BY <2>3, <2>7 DEF Terminal, OutFrames
    <3>2. f.n = 0
      BY <1>0, <2>2, <3>1 DEF TerminalInv
    <3>3. f = [type |-> f.type, n |-> 0]
      BY <2>3, <3>2 DEF OutFrames
    <3>4. Output!Finish(f.type)
      BY <1>0, <2>3, <2>5, <3>3 DEF Output!Finish
    <3> QED
      BY <3>1, <3>4 DEF Output!Next
  <2> QED
    BY <2>6, <2>7
<1> QED
  BY <1>0, <1>1, <1>2, QueuedWriter

\* Every other step leaves the wire alone; it may be the command that writes.
LEMMA OutputOther ==
  ASSUME wire' = wire,
         \/ produced' = produced
         \/ \E s \in Streams : produced' = [produced EXCEPT ![s] = @ + 1]
  PROVE  [Output!Next]_(Output!vars)
BY DEF Output!Next, Output!Produce, Output!vars

LEMMA OutputInit == SessionInit => Output!Init
BY DEF SessionInit, Output!Init

\* A write is the only step that lengthens the wire, and it is biased to cancel.
LEMMA WriterSilenced == Writer => (fired => wire' = wire)
BY DEF Writer, WriterCancelled, WriterRecv, WriteFrame, WriterFinish

LEMMA WayTerminalLast == OutboundTypeOK /\ TerminalInv => TerminalLast
<1> SUFFICES ASSUME OutboundTypeOK, TerminalInv, NEW i \in 1..Len(wire), Terminal(wire[i])
             PROVE  i = Len(wire)
  BY DEF TerminalLast
<1>1. /\ Len(wire) \in Nat /\ Len(Queued) \in Nat /\ Len(wire) <= Len(Queued)
      /\ Queued[i] = wire[i] /\ Queued \in Seq(OutFrames) /\ wire \in Seq(OutFrames)
  BY QueuedType DEF OutboundTypeOK
<1>2. i \in 1..Len(Queued)
  BY <1>1
<1>3. i = Len(Queued)
  BY <1>1, <1>2 DEF TerminalInv
<1> QED
  BY <1>1, <1>3

\* Until the session is at join, nothing terminal is on the wire.
LEMMA NoTerminalYet ==
  ASSUME OutboundTypeOK, TerminalInv, pc \notin {"join", "done"}
  PROVE  \A i \in 1..Len(wire) : ~Terminal(wire[i])
<1> SUFFICES ASSUME NEW i \in 1..Len(wire)
             PROVE  ~Terminal(wire[i])
  OBVIOUS
<1>1. /\ Len(wire) \in Nat /\ Len(Queued) \in Nat /\ Len(wire) <= Len(Queued)
      /\ Queued[i] = wire[i] /\ Queued \in Seq(OutFrames) /\ wire \in Seq(OutFrames)
  BY QueuedType DEF OutboundTypeOK
<1>2. i \in 1..Len(Queued)
  BY <1>1
<1> QED
  BY <1>1, <1>2 DEF TerminalInv
=============================================================================
