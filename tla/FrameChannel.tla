---------------------------- MODULE FrameChannel ----------------------------
(***************************************************************************)
(* What the framing promises to its two ends: the frames that were written *)
(* completely are read in order, each once and unchanged; a reader that is *)
(* told of the end has read every one of them; and a frame that was        *)
(* written is read, unless the reader fails.                               *)
(***************************************************************************)
EXTENDS Naturals, Sequences

CONSTANT Frames

VARIABLES
  sent,   \* frames written completely
  rcvd,   \* frames read
  end     \* "reading", or what ended it: "none" (end of stream) or "err"

vars == <<sent, rcvd, end>>

Init == sent = <<>> /\ rcvd = <<>> /\ end = "reading"

Write ==
  /\ \E f \in Frames : sent' = Append(sent, f)
  /\ UNCHANGED <<rcvd, end>>

Read ==
  /\ end = "reading" /\ Len(rcvd) < Len(sent)
  /\ rcvd' = Append(rcvd, sent[Len(rcvd) + 1])
  /\ UNCHANGED <<sent, end>>

Finish == end = "reading" /\ rcvd = sent /\ end' = "none" /\ UNCHANGED <<sent, rcvd>>

Fail == end = "reading" /\ end' = "err" /\ UNCHANGED <<sent, rcvd>>

Next == Write \/ Read \/ Finish \/ Fail

\* The reader may wait as long as nothing is there for it.
Fairness == WF_vars(Len(rcvd) < Len(sent) /\ (Read \/ Fail))

Safety == Init /\ [][Next]_vars
Spec == Safety /\ Fairness
=============================================================================
