------------------------------- MODULE Session -------------------------------
(***************************************************************************)
(* What every session of the guest agent has in common (src/src/session.rs *)
(* run_session, drive): the transport to the client, the bounded outbound  *)
(* channel with its single writer task, the `cancel` signal, the reading   *)
(* of the REQUEST, and the join of the writer at the end.  The verbs       *)
(* (ExecSession, PtySession) extend this module.                           *)
(*                                                                         *)
(* The agent runs on a current_thread tokio runtime, so a step here is     *)
(* what one task does between two awaits; tasks interleave in any order.   *)
(* Durations are abstracted: a timer may lapse whenever it is armed and    *)
(* what it bounds has not happened, and an armed timer that stays armed    *)
(* does lapse (the fairness conditions of the verbs).                      *)
(***************************************************************************)
EXTENDS Naturals, Sequences

CONSTANTS
  CHANNEL_BOUND,   \* capacity of the outbound channel, in frames
  RecvCap,         \* frames the transport holds between client and agent
  ClientFrames     \* types of the frames the client sends

\* "BAD" is any frame on which read_frame fails: over the inbound cap, or cut
\* off inside its payload.
InFrames == {"REQUEST", "STDIN", "STDIN_EOF", "PING", "RESIZE", "BAD"}

ASSUME SessionAssumption ==
  /\ CHANNEL_BOUND \in Nat \ {0}
  /\ RecvCap \in Nat \ {0}
  /\ ClientFrames \subseteq InFrames

VARIABLES
  inbox,      \* frames the client sent and the agent has not read
  up,         \* client -> agent half: "open", "eof", "error" or "silent"
  link,       \* agent -> client half: "reading", "stalled" or "reset"
  chan,       \* the mpsc channel
  writer,     \* writer task: "recv", "write" or "gone" (receiver dropped)
  hand,       \* the frame being written: <<>> or <<f>>
  wire,       \* every frame written completely to the client, in order
  fired,      \* Cancel.fired
  pc,         \* where the session task is
  pump,       \* the output tasks: "none", "read", "send", "finished", "aborted"
  produced,   \* chunks the command has written to each of its streams
  taken       \* chunks the output task has read from each stream

transportVars == <<inbox, up, link>>
outboundVars  == <<chan, writer, hand, wire>>
pumpVars      == <<pump, produced, taken>>
sessionVars   == <<transportVars, outboundVars, pumpVars, fired, pc>>

Streams == {"STDOUT", "STDERR"}

\* n numbers the chunks of a stream; it is 0 in an EXIT or ERROR frame.
OutFrames == [type : Streams \cup {"EXIT", "ERROR"}, n : Nat]

Terminal(f) == f.type \in {"EXIT", "ERROR"}

TransportTypeOK ==
  /\ inbox \in Seq(InFrames) /\ Len(inbox) <= RecvCap
  /\ up \in {"open", "eof", "error", "silent"}
  /\ link \in {"reading", "stalled", "reset"}

OutboundTypeOK ==
  /\ chan \in Seq(OutFrames) /\ Len(chan) <= CHANNEL_BOUND
  /\ writer \in {"recv", "write", "gone"}
  /\ hand \in Seq(OutFrames) /\ Len(hand) = (IF writer = "write" THEN 1 ELSE 0)
  /\ wire \in Seq(OutFrames)

PumpTypeOK ==
  /\ pump \in [Streams -> {"none", "read", "send", "finished", "aborted"}]
  /\ produced \in [Streams -> Nat]
  /\ taken \in [Streams -> Nat]

SessionTypeOK ==
  TransportTypeOK /\ OutboundTypeOK /\ PumpTypeOK /\ fired \in BOOLEAN

SessionInit ==
  /\ inbox = <<>> /\ up = "open" /\ link = "reading"
  /\ chan = <<>> /\ writer = "recv" /\ hand = <<>> /\ wire = <<>>
  /\ fired = FALSE /\ pc = "request"
  /\ pump = [s \in Streams |-> "none"]
  /\ produced = [s \in Streams |-> 0]
  /\ taken = [s \in Streams |-> 0]

-----------------------------------------------------------------------------
(* The client and the vsock transport, as the agent meets them.            *)

\* What is sent while the session does not read is seen only when it reads
\* again, if ever, so it is left out.
ClientSend ==
  /\ up = "open" /\ Len(inbox) < RecvCap
  /\ pc \in {"request", "run"}
  /\ \E f \in ClientFrames : inbox' = Append(inbox, f)
  /\ UNCHANGED <<up, link>>

\* The client shuts its write half down and keeps reading.
ClientHalfClose ==
  /\ up = "open" /\ up' = "eof"
  /\ UNCHANGED <<inbox, link>>

\* The connection closes or is reset: unread frames may be lost with it.
ClientDrop ==
  /\ up \in {"open", "eof"} /\ link # "reset"
  /\ up' \in {"eof", "error"} /\ link' = "reset"
  /\ inbox' = inbox \/ inbox' = <<>>

\* The client dies and the transport surfaces neither EOF nor error.
ClientVanish ==
  /\ up = "open"
  /\ up' = "silent" /\ link' = "stalled"
  /\ UNCHANGED inbox

\* A client that is alive stops reading (our send buffer fills), or reads on.
ClientPace ==
  /\ up \in {"open", "eof"}
  /\ \/ link = "reading" /\ link' = "stalled"
     \/ link = "stalled" /\ link' = "reading"
  /\ UNCHANGED <<inbox, up>>

Client ==
  /\ \/ ClientSend \/ ClientHalfClose \/ ClientDrop \/ ClientVanish \/ ClientPace
  /\ UNCHANGED <<outboundVars, pumpVars, fired, pc>>

\* timeout(idle_timeout, read_frame(reader)) resolves to r.
ReadFrame(r) ==
  \/ /\ inbox # <<>>
     /\ r = IF Head(inbox) = "BAD" THEN "err" ELSE Head(inbox)
     /\ inbox' = Tail(inbox)
  \/ /\ inbox = <<>>
     /\ r = CASE up = "eof" -> "none" [] up = "error" -> "err" [] OTHER -> "elapsed"
     /\ UNCHANGED inbox

-----------------------------------------------------------------------------
(* The writer task.  Both of its selects are biased to cancel.             *)

WriterGone == writer' = "gone" /\ chan' = <<>> /\ hand' = <<>>

WriterCancelled ==
  /\ writer # "gone" /\ fired
  /\ WriterGone
  /\ UNCHANGED <<wire, fired>>

WriterRecv ==
  /\ writer = "recv" /\ ~fired /\ chan # <<>>
  /\ writer' = "write" /\ hand' = <<Head(chan)>> /\ chan' = Tail(chan)
  /\ UNCHANGED <<wire, fired>>

\* Mutant: the select around write_frame is not biased to cancel.
WriteFrameUnbiased ==
  /\ writer = "write"
  /\ \/ /\ link = "reading"
        /\ wire' = wire \o hand /\ hand' = <<>> /\ writer' = "recv"
        /\ UNCHANGED <<chan, fired>>
     \/ /\ link # "reading"
        /\ fired' = TRUE /\ WriterGone /\ UNCHANGED wire

\* The frame in hand is written; or the write errs, or stalls beyond
\* write_timeout, and the writer fires cancel.
WriteFrame ==
  /\ writer = "write" /\ ~fired
  /\ \/ /\ link = "reading"
        /\ wire' = wire \o hand /\ hand' = <<>> /\ writer' = "recv"
        /\ UNCHANGED <<chan, fired>>
     \/ /\ link # "reading"
        /\ fired' = TRUE /\ WriterGone /\ UNCHANGED wire

\* rx.recv() yields None: the channel is empty and every sender is dropped.
SendersDropped ==
  /\ pc = "join"
  /\ \A s \in Streams : pump[s] \notin {"read", "send"}

WriterFinish ==
  /\ writer = "recv" /\ ~fired /\ chan = <<>> /\ SendersDropped
  /\ WriterGone
  /\ UNCHANGED <<wire, fired>>

Writer ==
  /\ \/ WriterCancelled \/ WriterRecv \/ WriteFrame \/ WriterFinish
  /\ UNCHANGED <<transportVars, pumpVars, pc>>

-----------------------------------------------------------------------------
(* The session task outside the verbs.                                     *)

\* Mutant: an unbounded channel.
SendUnbounded(f) ==
  \/ writer # "gone" /\ chan' = Append(chan, f)
  \/ writer = "gone" /\ UNCHANGED chan

\* send(tx, ...): waits for room; a closed receiver just drops the frame.
Send(f) ==
  \/ writer # "gone" /\ Len(chan) < CHANNEL_BOUND /\ chan' = Append(chan, f)
  \/ writer = "gone" /\ UNCHANGED chan

\* (code, reason) of the EXIT frame.
exit_fields(st, override) ==
  CASE st = "err"    -> <<"-1", "error">>
    [] st = "code"   -> <<"code", IF override = "" THEN "exited" ELSE override>>
    [] st = "signal" -> <<"128+signal", IF override = "" THEN "signaled" ELSE override>>

\* The first read of drive: no REQUEST in time or a clean EOF end the session
\* without a word, everything that is not a request for a known verb in valid
\* JSON ends it with an ERROR frame.
NoRequest ==
  /\ pc = "request"
  /\ \/ ReadFrame("elapsed") \/ ReadFrame("none")
  /\ pc' = "join"

BadRequest ==
  /\ pc = "request"
  /\ \E r \in InFrames \cup {"err"} : ReadFrame(r)
  /\ pc' = "error"

\* send_error, then drop(tx).
SendError ==
  /\ pc = "error"
  /\ Send([type |-> "ERROR", n |-> 0])
  /\ pc' = "join"
  /\ UNCHANGED inbox

\* writer_task.await
JoinWriter ==
  /\ pc = "join" /\ writer = "gone"
  /\ pc' = "done"
  /\ UNCHANGED <<inbox, chan>>

Drive ==
  /\ \/ (NoRequest \/ BadRequest) /\ UNCHANGED chan
     \/ SendError
     \/ JoinWriter
  /\ UNCHANGED <<up, link, writer, hand, wire, fired, pumpVars>>

-----------------------------------------------------------------------------
(* What both verbs promise of the frames a client receives.                *)

\* EXIT or ERROR is the last frame a client ever receives, and it comes once,
\* although the output tasks still run beside the verb when the child has
\* ended (the bounded drain and abort of out_task and err_task before
\* send(EXIT)).
TerminalLast ==
  \A i \in 1..Len(wire) : Terminal(wire[i]) => i = Len(wire)

\* The abstract output stream, which is what a client sees on the wire.
Output == INSTANCE OutputStream WITH
  out <- wire, Terminals <- {"EXIT", "ERROR"}

\* A session implements it: what reaches the client of a stream is an unbroken
\* prefix of what the command wrote to it, in order, and the terminal frame
\* comes once and last, whatever is aborted or torn down (pump, out_task, the
\* single writer task).
ImplementsOutputStream == Output!Spec

\* Once cancel fires, not one more frame is written to the peer: both selects
\* of the writer task are biased to cancel.
CancelSilencesWire == [][fired => wire' = wire]_sessionVars
=============================================================================
