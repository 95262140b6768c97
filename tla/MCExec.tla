------------------------------- MODULE MCExec -------------------------------
(* Instances of ExecSession for TLC: how much the command may write.       *)
EXTENDS ExecSession

OutputUpTo(out, err) == [s \in Streams |-> IF s = "STDOUT" THEN out ELSE err]

Silent    == OutputUpTo(0, 0)
TwoChunks == OutputUpTo(2, 0)
BothPipes == OutputUpTo(2, 1)
=============================================================================
