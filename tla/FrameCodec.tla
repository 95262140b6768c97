----------------------------- MODULE FrameCodec -----------------------------
(***************************************************************************)
(* The framing at the level of bytes: read_frame and write_frame of the    *)
(* agent (src/src/frame.rs) against those of its clients (guest_cmd.py,    *)
(* ssh_gateway.py), in one direction of one connection.  A frame is a type *)
(* byte, the length of its payload in LenDigits big-endian digits to the   *)
(* base Base, and the payload.  Writes reach the transport byte by byte    *)
(* and may be abandoned at any byte; reads take what is there.             *)
(***************************************************************************)
EXTENDS Naturals, Sequences

CONSTANTS
  Base, LenDigits,       \* 256 and 4 in the code
  MAX_FRAME_LEN, MIN_INBOUND_FRAME_LEN, DEFAULT_MAX_INBOUND_FRAME_LEN,
  RequestedCaps,         \* values of GUESTHOPPER_MAX_FRAME_LEN
  PipeCap,               \* bytes the transport holds
  Types, Lengths, Fill,  \* frames to write: type, length, byte of the payload
  MaxFrames

HeaderLen == 1 + LenDigits

\* A length, and what is left of it after each division by the base.
Quotients(n) ==
  LET q[i \in 1..HeaderLen] == IF i = 1 THEN n ELSE q[i - 1] \div Base
  IN  q

\* LenDigits digits are enough for it.
Fits(n) == Quotients(n)[HeaderLen] = 0

ASSUME CodecAssumption ==
  /\ Base \in Nat \ {0, 1} /\ LenDigits \in Nat \ {0}
  /\ MAX_FRAME_LEN \in Nat /\ Fits(MAX_FRAME_LEN)
  /\ DEFAULT_MAX_INBOUND_FRAME_LEN \in MIN_INBOUND_FRAME_LEN..MAX_FRAME_LEN
  /\ MIN_INBOUND_FRAME_LEN \in Nat /\ RequestedCaps \subseteq Nat
  /\ PipeCap \in Nat \ {0} /\ MaxFrames \in Nat
  /\ Types \subseteq 0..(Base - 1) /\ Fill \in 0..(Base - 1) /\ Lengths \subseteq Nat

VARIABLES
  writer,  \* "agent", "guest_cmd" or "ssh"
  reader,  \* the other end
  cap,     \* the agent's inbound cap
  sent,    \* frames of which every byte is on the transport or beyond
  cur,     \* the frame being written: <<>> or <<f>>
  left,    \* its bytes that are not on the transport yet
  pipe,    \* bytes on the transport
  up,      \* "open", "eof" or "reset"
  hdr,     \* the header of the frame being read: <<>> until it is complete
  buf,     \* what read_exact has got so far, of the header or of the payload
  alloc,   \* the largest payload buffer the reader allocated
  rcvd,    \* frames read
  end      \* "reading", or what read_frame ended with: "none" or "err"

writeVars == <<sent, cur, left>>
readVars  == <<hdr, buf, alloc, rcvd, end>>
vars == <<writer, reader, cap, writeVars, pipe, up, readVars>>

Frames == {[type |-> t, payload |-> [i \in 1..n |-> Fill]] : t \in Types, n \in Lengths}

clamp_inbound(v) ==
  IF v < MIN_INBOUND_FRAME_LEN THEN MIN_INBOUND_FRAME_LEN
  ELSE IF v > MAX_FRAME_LEN THEN MAX_FRAME_LEN ELSE v

Clients == {"guest_cmd", "ssh"}

Init ==
  /\ \/ writer = "agent" /\ reader \in Clients
     \/ writer \in Clients /\ reader = "agent"
  /\ cap \in {DEFAULT_MAX_INBOUND_FRAME_LEN} \cup {clamp_inbound(v) : v \in RequestedCaps}
  /\ sent = <<>> /\ cur = <<>> /\ left = <<>> /\ pipe = <<>> /\ up = "open"
  /\ hdr = <<>> /\ buf = <<>> /\ alloc = 0 /\ rcvd = <<>> /\ end = "reading"

-----------------------------------------------------------------------------
(* The writing end.                                                        *)

\* (len as u32).to_be_bytes(): the remainders of the divisions, the last one
\* first; what does not fit is truncated.
Digits(n) == [i \in 1..LenDigits |-> Quotients(n)[HeaderLen - i] % Base]

Encode(f) == <<f.type>> \o Digits(Len(f.payload)) \o f.payload

\* Mutant: the agent writes what does not fit its length field.
AcceptsAny(n) == TRUE

\* What write_frame refuses is not written at all.  struct.pack of guest_cmd
\* raises only for what does not fit the field.
Accepts(n) ==
  IF writer = "guest_cmd" THEN Fits(n) ELSE n <= MAX_FRAME_LEN

WriteFrame ==
  /\ up = "open" /\ cur = <<>> /\ Len(sent) < MaxFrames
  /\ \E f \in Frames :
       /\ Accepts(Len(f.payload))
       /\ cur' = <<f>> /\ left' = Encode(f)
  /\ UNCHANGED <<sent, pipe, up>>

\* write_all puts one more byte on the transport.
WriteByte ==
  /\ up = "open" /\ left # <<>> /\ Len(pipe) < PipeCap
  /\ pipe' = Append(pipe, Head(left)) /\ left' = Tail(left)
  /\ IF Len(left) = 1 THEN sent' = sent \o cur /\ cur' = <<>> ELSE UNCHANGED <<sent, cur>>
  /\ UNCHANGED up

\* The writer closes: between frames, or inside one whose write was dropped
\* (cancel), timed out or died with its process.  Nothing is written after it.
WriterStops == up = "open" /\ up' = "eof" /\ UNCHANGED <<writeVars, pipe>>

TransportReset == up # "reset" /\ up' = "reset" /\ pipe' = <<>> /\ UNCHANGED writeVars

Writer ==
  /\ end = "reading" /\ (WriteFrame \/ WriteByte \/ WriterStops \/ TransportReset)
  /\ UNCHANGED <<writer, reader, cap, readVars>>

-----------------------------------------------------------------------------
(* The reading end.                                                        *)

\* u32::from_be_bytes of the digits of a header.
Decode(h) ==
  LET value[i \in 1..HeaderLen] == IF i = 1 THEN 0 ELSE value[i - 1] * Base + h[i]
  IN  value[HeaderLen]

Limit == IF reader = "agent" THEN cap ELSE MAX_FRAME_LEN

Needed == IF hdr = <<>> THEN HeaderLen ELSE Decode(hdr)

\* One read of read_exact takes all that is there, up to what is missing.
Taken == IF Len(pipe) < Needed - Len(buf) THEN Len(pipe) ELSE Needed - Len(buf)

Got == buf \o SubSeq(pipe, 1, Taken)

Deliver(t, p) == rcvd' = Append(rcvd, [type |-> t, payload |-> p]) /\ UNCHANGED end

\* Mutant: the cap itself is refused.
HeaderReadStrict ==
  LET len == Decode(Got)
  IN  /\ buf' = <<>>
      /\ \/ len >= Limit /\ end' = "err" /\ UNCHANGED <<hdr, alloc, rcvd>>
         \/ /\ len < Limit /\ alloc' = (IF len > alloc THEN len ELSE alloc)
            /\ IF len = 0 THEN Deliver(Got[1], <<>>) /\ UNCHANGED hdr
                          ELSE hdr' = Got /\ UNCHANGED <<rcvd, end>>

\* Mutant: the buffer is allocated before its length is checked.
HeaderReadEager ==
  LET len == Decode(Got)
  IN  /\ buf' = <<>> /\ alloc' = (IF len > alloc THEN len ELSE alloc)
      /\ \/ len > Limit /\ end' = "err" /\ UNCHANGED <<hdr, rcvd>>
         \/ /\ len <= Limit
            /\ IF len = 0 THEN Deliver(Got[1], <<>>) /\ UNCHANGED hdr
                          ELSE hdr' = Got /\ UNCHANGED <<rcvd, end>>

\* The header is complete: check the length, allocate, and read the payload,
\* if there is one.
HeaderRead ==
  LET len == Decode(Got)
  IN  /\ buf' = <<>>
      /\ \/ len > Limit /\ end' = "err" /\ UNCHANGED <<hdr, alloc, rcvd>>
         \/ /\ len <= Limit /\ alloc' = (IF len > alloc THEN len ELSE alloc)
            /\ IF len = 0 THEN Deliver(Got[1], <<>>) /\ UNCHANGED hdr
                          ELSE hdr' = Got /\ UNCHANGED <<rcvd, end>>

ReadBytes ==
  /\ pipe # <<>>
  /\ pipe' = SubSeq(pipe, Taken + 1, Len(pipe))
  /\ \/ Len(Got) < Needed /\ buf' = Got /\ UNCHANGED <<hdr, alloc, rcvd, end>>
     \/ Len(Got) = Needed /\ hdr = <<>> /\ HeaderRead
     \/ /\ Len(Got) = Needed /\ hdr # <<>>
        /\ Deliver(hdr[1], Got) /\ hdr' = <<>> /\ buf' = <<>> /\ UNCHANGED alloc

\* Mutant: every end of stream is a clean one.
EofAlwaysClean == "none"

\* End of stream: clean before a frame; inside a payload an error; inside a
\* header an error to guest_cmd only.
EofResult ==
  IF hdr # <<>> \/ (buf # <<>> /\ reader = "guest_cmd") THEN "err" ELSE "none"

ReadEnds ==
  /\ pipe = <<>> /\ up # "open"
  /\ end' = IF up = "reset" THEN "err" ELSE EofResult
  /\ UNCHANGED <<hdr, buf, alloc, rcvd, pipe>>

Reader ==
  /\ end = "reading" /\ (ReadBytes \/ ReadEnds)
  /\ UNCHANGED <<writer, reader, cap, writeVars, up>>

Done == end # "reading" /\ UNCHANGED vars

Next == Writer \/ Reader \/ Done

\* A reader reads; nothing is assumed of the writer and the transport.
Spec == Init /\ [][Next]_vars
FairSpec == Spec /\ WF_vars(Reader)

-----------------------------------------------------------------------------
\* No length a peer announces makes the reader allocate more than its cap, and
\* the agent's cap stays between its floor and the ceiling whatever the
\* environment asks for (clamp_inbound, the check before vec![0; len]).
AllocBounded ==
  /\ alloc <= Limit
  /\ cap \in MIN_INBOUND_FRAME_LEN..MAX_FRAME_LEN

\* read_frame fails only for cause: the connection was reset, a frame was cut
\* off, or the next frame really is longer than the reader takes; a frame of
\* exactly the cap is not.
ErrJustified ==
  end = "err" =>
    \/ up = "reset"
    \/ up = "eof" /\ cur # <<>>
    \/ LET next == (sent \o cur)[Len(rcvd) + 1]
       IN  Len(next.payload) > Limit

\* A frame cut off inside its payload is never taken for the end of the
\* stream.  One cut off inside its header is, by the agent and by
\* ssh_gateway.py (Ok(None), although the doc of read_frame has it for "a clean
\* EOF at a frame boundary"), but not by guest_cmd.py.
CutNoticed ==
  end = "none" =>
    \A i \in 1..Len(cur) :
      Len(Encode(cur[i])) - Len(left) <= IF reader = "guest_cmd" THEN 0 ELSE LenDigits

\* The abstract channel, on the same variables.
Channel == INSTANCE FrameChannel

\* Any of the writers and any of the readers together implement it: what is
\* read is what was written completely, in order, once and unchanged, whatever
\* its length, and the end of the stream hides none of it.
ImplementsFrameChannel == Channel!Spec
=============================================================================
