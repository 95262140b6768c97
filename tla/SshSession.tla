----------------------------- MODULE SshSession -----------------------------
(***************************************************************************)
(* One SSH session of ssh_gateway.py (VsockShellSession): the callbacks    *)
(* asyncssh makes, and the tasks _run (with _pump_outbound in it),         *)
(* _pump_inbound and _keepalive, which interleave at their awaits.         *)
(* A task that was cancelled takes no further step but its finally.        *)
(* asyncssh, the SSH client and the guest are the environment.             *)
(***************************************************************************)
EXTENDS Naturals, Sequences, FiniteSets

CONSTANTS
  INBOUND_HIGH_WATER, INBOUND_LOW_WATER,
  Window,              \* data events asyncssh holds while reading is paused
  OutHigh, OutLow,     \* water marks of asyncssh's buffer to the client
  UpCap,               \* frames the vsock writer takes before drain() waits
  MaxResize,           \* most window changes in the queue
  MaxDown              \* most frames of output on their way

ASSUME SshAssumption ==
  /\ INBOUND_HIGH_WATER \in Nat /\ INBOUND_LOW_WATER \in Nat
  /\ INBOUND_LOW_WATER < INBOUND_HIGH_WATER
  /\ Window \in Nat /\ UpCap \in Nat
  /\ OutHigh \in Nat /\ OutLow \in 0..OutHigh
  /\ MaxResize \in Nat /\ MaxDown \in Nat

VARIABLES
  run,      \* _run: "connect", "hello" (the OK line), "request" (its drain),
            \* "live" (in _pump_outbound), "over" or "raised"
  inb,      \* _pump_inbound: "none", "get", "drain" or "over"
  keep,     \* _keepalive: "none", "sleep", "drain" or "over"
  cancel,   \* the tasks that were cancelled and have not noticed
  inbound,  \* _inbound: sequence of "data", "resize" and "eof"
  paused,   \* _reading_paused
  writer,   \* _writer: "none", "open" or "closed"
  chan,     \* "open", "exited" or "lost"
  status,   \* the status passed to chan.exit: "none", "code" (of the EXIT
            \* frame), "zero" or "one"
  held,     \* what asyncssh keeps back while reading is paused
  eof,      \* the client has sent EOF
  buf,      \* frames of output in asyncssh's buffer to the client
  flowing,  \* _write_resumed is set
  guest,    \* "silent", "ok" or "refused" (the answer to CONNECT),
            \* "session", "over" (it reads no more), "gone" or "reset"
  up, down, \* frames to the guest it has not read; frames to the gateway
  exited    \* the guest has sent EXIT

taskVars  == <<run, inb, keep, cancel, writer>>
queueVars == <<inbound, paused, held>>
chanVars  == <<chan, status>>
outVars   == <<buf, flowing>>
guestVars == <<guest, down, exited>>
vars == <<taskVars, queueVars, chanVars, outVars, guestVars, up, eof>>

\* session_started: the task exists, nothing has been enqueued.
Init ==
  /\ run = "connect" /\ inb = "none" /\ keep = "none" /\ cancel = {}
  /\ inbound = <<>> /\ paused = FALSE /\ held = <<>>
  /\ writer = "none" /\ chan = "open" /\ status = "none"
  /\ eof = FALSE
  /\ buf = 0 /\ flowing = TRUE
  /\ guest = "silent" /\ up = 0 /\ down = <<>> /\ exited = FALSE

GuestGone == guest \in {"gone", "reset"}

Alive(t) == t \notin cancel

Pumps == (IF inb \in {"none", "over"} THEN {} ELSE {"inb"}) \cup
         (IF keep \in {"none", "over"} THEN {} ELSE {"keep"})

-----------------------------------------------------------------------------
(* The SSH client, and the callbacks.                                      *)

\* Mutant: the mark is never looked at.
enqueueUnmarked(item) ==
  /\ inbound' = Append(inbound, item)
  /\ UNCHANGED <<paused, held>>

\* _enqueue: at the high-water mark reading is paused.
enqueue(item) ==
  /\ inbound' = Append(inbound, item)
  /\ paused' = (paused \/ Len(inbound') >= INBOUND_HIGH_WATER)
  /\ UNCHANGED held

\* Data and EOF are kept back while reading is paused, as far as the channel's
\* window goes; a window change is not.
Receive(item) ==
  \/ ~paused /\ enqueue(item)
  \/ /\ paused /\ Len(held) < Window
     /\ held' = Append(held, item) /\ UNCHANGED <<inbound, paused>>

data_received == ~eof /\ Receive("data") /\ UNCHANGED eof

eof_received == ~eof /\ Receive("eof") /\ eof' = TRUE

terminal_size_changed ==
  /\ Len(SelectSeq(inbound, LAMBDA e : e = "resize")) < MaxResize
  /\ enqueue("resize") /\ UNCHANGED eof

Input ==
  /\ chan # "lost" /\ (data_received \/ eof_received \/ terminal_size_changed)
  /\ UNCHANGED <<taskVars, chanVars, outVars, guestVars, up>>

\* Called by asyncssh below the low-water mark and above the high-water mark
\* of its buffer to the client.
resume_writing == IF buf' <= OutLow THEN flowing' = TRUE ELSE UNCHANGED flowing

pause_writing == IF buf' > OutHigh THEN flowing' = FALSE ELSE UNCHANGED flowing

\* The client takes output.
Take ==
  /\ chan # "lost" /\ buf > 0 /\ buf' = buf - 1 /\ resume_writing
  /\ UNCHANGED <<taskVars, queueVars, chanVars, guestVars, up, eof>>

\* Mutant: the vsock is left to the tasks.
connection_lostOpen ==
  /\ chan # "lost" /\ chan' = "lost"
  /\ cancel' = cancel \cup Pumps \cup (IF run \in {"over", "raised"} THEN {} ELSE {"run"})
  /\ UNCHANGED writer

\* connection_lost: the client is gone; every task is cancelled.
connection_lost ==
  /\ chan # "lost" /\ chan' = "lost"
  /\ cancel' = cancel \cup Pumps \cup (IF run \in {"over", "raised"} THEN {} ELSE {"run"})
  /\ writer' = IF writer = "open" THEN "closed" ELSE writer

Lost ==
  /\ connection_lost
  /\ UNCHANGED <<run, inb, keep, queueVars, status, outVars, guestVars, up, eof>>

-----------------------------------------------------------------------------
(* The guest: the transport's answer, and then one session.                *)

GuestAnswers ==
  /\ guest = "silent" /\ run = "hello" /\ guest' \in {"ok", "refused"}
  /\ UNCHANGED <<up, down, exited>>

GuestReads ==
  /\ guest = "session" /\ up > 0 /\ up' = up - 1
  /\ UNCHANGED <<guest, down, exited>>

GuestOutput ==
  /\ guest = "session" /\ Len(down) < MaxDown
  /\ down' = Append(down, "OUT") /\ UNCHANGED <<guest, up, exited>>

\* The terminal frame; "BAD" is an EXIT without an integer code.
GuestEnds ==
  /\ guest = "session" /\ guest' = "over"
  /\ \E f \in {"EXIT", "ERROR", "BAD"} : down' = Append(down, f) /\ exited' = (f = "EXIT")
  /\ UNCHANGED up

\* It closes the connection, which frames it has not read turn into a reset;
\* a reader that failed hands out nothing it had buffered.  Or it just ends.
GuestCloses ==
  /\ ~GuestGone
  /\ \/ (guest = "over" => up = 0) /\ guest' = "gone" /\ UNCHANGED down
     \/ up > 0 /\ guest' = "reset" /\ down' \in {down, <<>>}
  /\ UNCHANGED <<up, exited>>

Guest ==
  /\ writer # "none"
  /\ GuestAnswers \/ GuestReads \/ GuestOutput \/ GuestEnds \/ GuestCloses
  /\ UNCHANGED <<taskVars, queueVars, chanVars, outVars, eof>>

-----------------------------------------------------------------------------
(* _run.                                                                   *)

\* writer.write, which never waits; drain() is over when the frames fit or the
\* guest is gone, and then it may raise.
WriteFrame == up' = IF GuestGone THEN up ELSE up + 1

Drained == up <= UpCap \/ GuestGone

Exit(s) == chan' = "exited" /\ status' = s

connect ==
  /\ run = "connect"
  /\ \/ writer' = "open" /\ run' = "hello" /\ UNCHANGED chanVars
     \/ run' = "over" /\ Exit("one") /\ UNCHANGED writer
  /\ UNCHANGED <<inb, keep, cancel, queueVars, outVars, guest, up>>

\* The line that answers CONNECT.  When it is not OK the vsock stays open until
\* the client has closed the channel; when drain or readline raises, the task
\* is gone and the channel stays open.
hello ==
  /\ run = "hello"
  /\ \/ /\ guest = "ok" /\ run' = "request" /\ WriteFrame /\ guest' = "session"
        /\ UNCHANGED chanVars
     \/ /\ guest = "refused" \/ GuestGone
        /\ \/ run' = "over" /\ Exit("one")
           \/ run' = "raised" /\ UNCHANGED chanVars
        /\ UNCHANGED <<guest, up>>
  /\ UNCHANGED <<inb, keep, cancel, writer, queueVars, outVars>>

\* The REQUEST is out: the pumps are started.
request ==
  /\ run = "request" /\ Drained
  /\ \/ run' = "live" /\ inb' = "get" /\ keep' = "sleep"
     \/ GuestGone /\ run' = "raised" /\ UNCHANGED <<inb, keep>>
  /\ UNCHANGED <<cancel, writer, queueVars, chanVars, outVars, guest, up>>

\* Mutant: the siblings are left alone.
FinallySiblings == writer' = "closed" /\ run' = "over" /\ UNCHANGED cancel

\* The finally of _run.
Finally == cancel' = (cancel \ {"run"}) \cup Pumps /\ writer' = "closed" /\ run' = "over"

\* Mutant: what has been waiting for the client is not waited for.
OutReadyAlways == TRUE

\* _pump_outbound reads a frame only while the client keeps up.
OutReady == flowing

\* read_frame: the next frame, or the end of the stream, clean or not.
OutFrame(f) ==
  \/ down # <<>> /\ f = Head(down) /\ down' = Tail(down)
  \/ down = <<>> /\ GuestGone /\ f = "END" /\ UNCHANGED down

\* Mutant: an end without EXIT is an EXIT.
StatusLenient(f) == IF f = "ERROR" THEN "one" ELSE "code"

\* The status the client is told; a stream that ends without EXIT, in the
\* middle of a frame too, is a success to it.
Status(f) == CASE f = "EXIT" -> "code" [] f = "ERROR" -> "one" [] OTHER -> "zero"

pump_outbound ==
  /\ run = "live" /\ OutReady
  /\ \E f \in {"OUT", "EXIT", "ERROR", "BAD", "END"} :
       /\ OutFrame(f)
       /\ \/ /\ f = "OUT" /\ buf' = buf + 1 /\ pause_writing
             /\ UNCHANGED <<run, cancel, writer, chanVars>>
          \/ f # "OUT" /\ Exit(Status(f)) /\ Finally /\ UNCHANGED outVars
  /\ UNCHANGED <<inb, keep, queueVars, guest, up>>

\* CancelledError, in _pump_outbound or before it.
run_cancelled ==
  /\ IF run = "live" THEN Finally
     ELSE cancel' = cancel \ {"run"} /\ run' = "over" /\ UNCHANGED writer
  /\ UNCHANGED <<inb, keep, queueVars, chanVars, outVars, down, guest, up>>

RunStep ==
  /\ \/ Alive("run") /\ (((connect \/ hello \/ request) /\ UNCHANGED down) \/ pump_outbound)
     \/ ~Alive("run") /\ run_cancelled
  /\ UNCHANGED <<exited, eof>>

-----------------------------------------------------------------------------
(* _pump_inbound and _keepalive.                                           *)

\* Mutant: off by one.
BelowLowWaterStrict(q) == Len(q) < INBOUND_LOW_WATER

BelowLowWater(q) == Len(q) <= INBOUND_LOW_WATER

\* Takes an event and writes its frame.  resume_reading delivers what was kept
\* back at once, to an _enqueue that still sees _reading_paused.
pump_inbound_get ==
  /\ inb = "get" /\ inbound # <<>> /\ inb' = "drain" /\ WriteFrame
  /\ IF paused /\ BelowLowWater(Tail(inbound))
     THEN paused' = FALSE /\ held' = <<>> /\ inbound' = Tail(inbound) \o held
     ELSE inbound' = Tail(inbound) /\ UNCHANGED <<paused, held>>

pump_inbound_drain ==
  /\ inb = "drain" /\ Drained
  /\ inb' = "get" \/ (GuestGone /\ inb' = "over")
  /\ UNCHANGED <<queueVars, up>>

InbStep ==
  /\ \/ Alive("inb") /\ (pump_inbound_get \/ pump_inbound_drain) /\ UNCHANGED cancel
     \/ ~Alive("inb") /\ inb' = "over" /\ cancel' = cancel \ {"inb"} /\ UNCHANGED <<queueVars, up>>
  /\ UNCHANGED <<run, keep, writer, chanVars, outVars, guestVars, eof>>

\* Mutant: no drain.
keepaliveUndrained ==
  keep = "sleep" /\ WriteFrame /\ up < UpCap + 5 /\ UNCHANGED keep

\* A PING every PING_INTERVAL_S.
keepalive ==
  \/ keep = "sleep" /\ keep' = "drain" /\ WriteFrame
  \/ keep = "drain" /\ Drained /\ (keep' = "sleep" \/ (GuestGone /\ keep' = "over")) /\ UNCHANGED up

KeepStep ==
  /\ \/ Alive("keep") /\ keepalive /\ UNCHANGED cancel
     \/ ~Alive("keep") /\ keep' = "over" /\ cancel' = cancel \ {"keep"} /\ UNCHANGED up
  /\ UNCHANGED <<run, inb, writer, queueVars, chanVars, outVars, guestVars, eof>>

-----------------------------------------------------------------------------
TasksOver == run \in {"over", "raised"} /\ Pumps = {}

Done == chan = "lost" /\ TasksOver /\ UNCHANGED vars

Next == Input \/ Take \/ Lost \/ Guest \/ RunStep \/ InbStep \/ KeepStep \/ Done

Spec == Init /\ [][Next]_vars

\* The event loop runs every task that can run, and one that drain() has woken
\* stays woken though another task fills the writer again (SF).  Nothing is
\* assumed of the client or of the guest.
FairSpec == Spec /\ WF_vars(RunStep) /\ SF_vars(InbStep) /\ WF_vars(KeepStep)

-----------------------------------------------------------------------------
\* The tasks, the queue and the buffers.  The vsock takes no more than one
\* frame of each task beyond what drain() waits for (write_frame).
TypeOK ==
  /\ run \in {"connect", "hello", "request", "live", "over", "raised"}
  /\ inb \in {"none", "get", "drain", "over"} /\ keep \in {"none", "sleep", "drain", "over"}
  /\ cancel \subseteq {"run", "inb", "keep"}
  /\ inbound \in Seq({"data", "resize", "eof"}) /\ held \in Seq({"data", "eof"})
  /\ paused \in BOOLEAN /\ flowing \in BOOLEAN
  /\ (chan = "open" => status = "none")
  /\ up \in 0..(UpCap + 2)

\* The places in q of what a pause holds back.
Others(q) == {i \in DOMAIN q : q[i] # "resize"}

\* The queue is bounded whatever the client sends, window changes apart, which
\* no pause holds back: the high-water mark, or what a resume hands over at
\* once and the one event that pauses again (_enqueue, _pump_inbound).
InboundBounded ==
  LET most == INBOUND_LOW_WATER + Window + 1 IN
  Cardinality(Others(inbound)) <= IF most > INBOUND_HIGH_WATER THEN most ELSE INBOUND_HIGH_WATER

\* The buffer to a client that does not read holds at most one frame beyond
\* its high-water mark (_write_resumed).
OutboundBounded == buf <= OutHigh + 1

\* The guest's session is never left unattended: while it runs and the vsock is
\* open, _run is there to close it and the pumps run, whichever await the
\* client's departure or an exception hits (connection_lost, the finally).
SessionAttended ==
  guest = "session" /\ writer = "open" =>
    /\ run \in {"request", "live"}
    /\ run = "live" => inb # "over" /\ keep # "over"

\* The client is told the exit code of the command only when the guest sent
\* it and nothing is left behind; and an EXIT that was sent is what it is told,
\* unless frames nobody read, a PING say, turned the close into a reset.
ExitTruthful ==
  /\ status = "code" => exited /\ down = <<>>
  /\ exited /\ status # "none" => status = "code" \/ guest = "reset"

-----------------------------------------------------------------------------
\* When the client leaves, at whatever await the tasks are, they all end and
\* the vsock is closed, which hangs up the shell in the guest.
LostEnds == (chan = "lost") ~> (TasksOver /\ writer # "open")

\* When the guest goes away from a running session the client gets an exit
\* status and the tasks end, unless the client has stopped reading.
GuestEndsSession ==
  (GuestGone /\ run = "live") ~> ((TasksOver /\ writer = "closed") \/ ~flowing)

\* While the guest reads, nothing the client sent is held back for good: reading
\* is not left paused with nobody to resume it.
InputArrives ==
  WF_vars(GuestReads /\ UNCHANGED <<taskVars, queueVars, chanVars, outVars, eof>>) =>
    ((run = "live" /\ held # <<>>) ~> (held = <<>> \/ run # "live" \/ guest # "session"))
=============================================================================
