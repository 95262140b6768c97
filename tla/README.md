# guesthopper in TLA+

Specifications of the guest command channel: the agent that runs inside a
rehosted firmware guest (`src/src/*.rs`) and its host-side clients
(`guest_cmd.py`, `telnet_gateway.py`, `ssh_gateway.py`).
Paths below are relative to the repository's parent, as in `PROJECT.json`.

## 1. Inventory

The host connects to the agent over vsock, one connection per session. It sends
one REQUEST frame; the agent runs a command on pipes (`exec`) or a shell on a pty
(`open-pty`), streams STDOUT/STDERR frames back, forwards STDIN frames, and ends
with one EXIT frame (or one ERROR frame). The agent is one process on a
`current_thread` tokio runtime: its tasks interleave only at awaits; two
operations run on blocking threads (`openpty`, the console warning).

| component | state | operations | talks to |
|---|---|---|---|
| accept loop (`main.rs`) | session semaphore, listener | acquire a permit, accept, spawn the session, drop the permit on error | kernel backlog, session tasks |
| session (`session.rs` run_session, drive) | bounded mpsc channel, writer task, `Cancel` | read REQUEST with a timeout, dispatch, send ERROR, drop the sender, join the writer | client, verbs |
| `Cancel` | a flag and a `Notify` | fire, wait | writer task, verb, stdin forwarder |
| exec (`session.rs`) | child, two pumps, stdin forwarder, deadline | spawn, pump, forward, kill the group, reap, drain, EXIT | child, channel, client |
| open-pty (`session.rs`) | master/slave descriptors, shell, out_task, input_task | openpty, set-up, pump, forward, resize, hang up, reap, drain, EXIT | shell, kernel tty, channel, client |
| frame codec (`frame.rs`) | process-wide inbound cap | read_frame, write_frame, clamp | transport |
| guest_cmd (`guest_cmd.py`) | collected output, terminal mode | handshake, collect until EXIT, interactive shell, PING on idle | agent, user |
| telnet gateway | telnet parser state, one bridge per client | feed, negotiate, bridge, PING on idle | agent, TCP client |
| ssh gateway | event queue, pause flags, three tasks | callbacks, inbound/outbound pump, PING timer, teardown | agent, asyncssh |
| startup, portal call, packaging | - | - | - |

What is hard here, and what would make each part correct:

* **Teardown against dead, silent or stalled clients.** Every session must end,
  since it holds one of `max_sessions` permits: clean EOF, reset, silent death,
  a client that pings but never reads, a child that never reads its stdin, a
  child in uninterruptible sleep, a grandchild that keeps the pipes open.
* **Order and completeness of output.** EXIT is last; nothing is reordered,
  repeated or dropped in the middle; nothing follows a cancel.
* **Truthfulness of EXIT.** The reason tells who ended the command.
* **Nothing left behind.** No live unsignalled command; every descriptor closed
  once on every error path; the pty master in no child's hands.
* **No lost wake-up** between fire and wait.
* **Permits conserved** over accept errors and session ends.
* **Keepalive contract.** Silence of a live client is never taken for its death, and
  no dead client is kept, though one task both reads the frames and writes input to
  a command that may not take it.
* **Codec.** What was written is read, in order and unchanged, for lengths on both
  sides of every cap and of the width of the length field; a frame that was cut
  off is noticed.
* **Clients.** The exit code is reported only if the agent sent it, and is reported
  if it was; what is typed arrives, however its bytes are cut into chunks; each
  client ends when its peer does.
* **SSH bridge.** Callbacks and three tasks share a queue and a writer: pauses are
  always resumed, queues are bounded, and whichever await the client's departure
  hits, no guest session is left behind.

`PROJECT.json` lists each hazard at its line with the properties aimed at it.

## 2. Modules

| module | models | extends |
|---|---|---|
| `Session` | what both verbs share: transport and client, channel, writer task, REQUEST, join | - |
| `ExecSession` | exec, its child, pumps, stdin forwarder, select, kill, reap, drain | `Session` |
| `MCExec` | amounts of output for TLC | `ExecSession` |
| `PtySession` | open_pty, descriptors, hangup | `Session` |
| `Cancel` | fire and wait, one atomic access per step | - |
| `Agent` | the accept loop | - |
| `Keepalive` | idle_timeout against PING, in ticks | - |
| `FrameCodec` | both ends of the framing, byte by byte | - |
| `TelnetInbound` | the telnet parser, as operators | - |
| `SelectClient` | the three clients that are a select() loop: exec, shell, telnet | `TelnetInbound` |
| `MCClient` | what the user may enter, for TLC | `SelectClient` |
| `SshSession` | VsockShellSession: callbacks and three tasks | - |
| `OutputStream`, `Latch`, `FrameChannel` | abstract specifications | - |
| `SessionProofs` | lemmas on what both verbs share | `Session` |
| `ExecProofs`, `PtyProofs` | theorems on the two verbs | `ExecSession`, `PtySession`, `SessionProofs` |
| `AgentProofs` | theorems on the accept loop and on `Cancel` | `Agent`, `Cancel` |
| `KeepaliveProofs`, `CodecProofs`, `ClientProofs`, `SshProofs` | theorems | `Keepalive`, `FrameCodec`, `SelectClient`, `SshSession` |

### The agent

**Session.** A step is what one task does between two awaits. `inbox`, `up` and
`link` are the transport: frames not yet read, whether the client's half is open,
ended, failed or silent, and whether the client takes what is written. A frame
the agent receives is its type; "BAD" is any frame on which `read_frame` fails. A
frame it sends is its type and the number of the chunk, so that order and gaps
are visible. `chan`, `writer`, `hand`, `wire` follow a frame from the mpsc channel
through the writer task to the client. The select of the writer is biased, so all
its other steps require `~fired`. `up = "open"` with an empty inbox makes
`ReadFrame` resolve to "elapsed": any idle period may turn out too long.

**ExecSession.** `pc` is the session task: `request`, `run` (the select), `reap`
(the bounded wait after a kill), `drainOut`, `drainErr`, `exit`, `error`, `join`,
`done`. The forwarder is part of the select, which polls cancel first. Child and
background process are environment: they write, read or close stdin, fork, exit,
wedge in state D. `wait()` yields the status of a child that has ended, or an error
when the child was reaped behind the agent's back. A background process in the group dies with the group; one that
called `setsid` ("escaped") does not, and keeps the pipes open.

**PtySession.** Every step between `openpty` and the select that can fail on its
own is an action with its error path. `fds` is what the agent has open, `am` the
clones of the Arc that owns the master, `badClose` records a close of what is not
open. The select is unbiased, except that an input task that ended has won it.
`OtherSpawn` is the fork of another session while `openpty` is on its thread;
`inherited` is who got the master. Of the three dups any may fail (`DupSlave`,
`DupFailed`). The shell may close the terminal it was given and run on (`tty`); what
it or a job opens again is `jobs`. A write to a terminal nobody has open may fail
with EIO (`write_all_fd`).

**Cancel.** `notified` is the set of woken futures; `notify_waiters` wakes only
registered ones. A future may be dropped by its select at any time.

**Agent.** A session is a connection whose task lives.

**Keepalive.** `TimerDriven` tells ssh_gateway's timer from the select() loop of the
two others, `Chatty` whether the command writes. `transit` are the frames the agent
has not read, with their ages; `reader` is the task that reads a frame (`Receive`)
and then, for STDIN, writes it to the command before it reads again (`WriteDone`,
`WriteFails`), each bounded by `idle_timeout` on its own clock (`IdleElapsed`). `Tick` is
blocked by what is due now.

Durations are otherwise abstracted: an armed timer may lapse at any time while
what it bounds has not happened.

**FrameCodec.** One direction of one connection; `writer` and `reader` say which
implementations meet (the agent against `guest_cmd.py`, whose functions the telnet
gateway imports, or against `ssh_gateway.py`, both ways). A length is written in
`LenDigits` digits to the base `Base`, the remainders of as many divisions
(`Quotients`), with the truncation of `as u32`, and read back from the first digit on
(`Decode`). It `Fits` when nothing is left after the last division. The reader takes
whatever part of the header or payload is there, and the writer may stop,
or the transport be reset, at any byte. `alloc` is the largest buffer the reader
asked for. `cap` is what GUESTHOPPER_MAX_FRAME_LEN becomes by `clamp_inbound`.

### The clients

**SelectClient.** `pc` follows one turn of the loop: `select`, then `ping`, or
`stdin` and `sock` for what was found readable. `kind` chooses the handlers. The
agent is an environment that keeps what `Session` promises (output, one terminal
frame, the end) or dies, and whose close becomes a reset when frames are unread
(`unread`). The user's input is a sequence of tokens, each with its bytes (`enc`) and
what they mean (`meant`): the meaning, taken from the telnet RFCs and written down
beside the bytes, is the reference the parser is checked against, for every way of
cutting the bytes into chunks.

**TelnetInbound.** One operator per state of the parser. A byte is named for what it
means (IAC, SB, NAWS, ...). A window dimension has `DimBytes` bytes.

**SshSession.** `run`, `inb` and `keep` are the awaits the three tasks are at, `cancel`
the tasks with a cancellation pending, which is delivered at their next step.
`inbound`, `paused` and `held` are `_inbound`, `_reading_paused` and what asyncssh keeps
back; `buf` and `flowing` the other direction. `resume_reading` hands over all that was
kept back at once, while `_reading_paused` is still set, as asyncssh does. `run =
"raised"` is a `_run` that died of an exception before its try.

### Abstract specifications

* `OutputStream`: of each stream the chunks in order and without a gap, then at most
  one terminal frame and nothing after it. `Session` instantiates it on `wire` and
  `produced` (`ImplementsOutputStream`), for both verbs.
* `Latch`: set once and for good; a wait returns only when it is set, and then does.
  `Cancel` implements it with `set` = the stored flag (`ImplementsLatch`, liveness
  included).
* `FrameChannel`: a FIFO of frames with an end. `FrameCodec` implements it on its own
  `sent`, `rcvd` and `end` (`ImplementsFrameChannel`): only a frame written to its
  last byte may be read, the end hides none, and what was written is read or the
  reader fails.

## 3. Runs

| run | question | result |
|---|---|---|
| `exec_output` | the output stream, EXIT after what was drained, silence after cancel | holds |
| `exec_teardown` | nothing left running, truthful EXIT; a lost client ends the session, but for one case | holds |
| `exec_ends` | deadline, cancel, exit end the session | holds |
| `exec_orphan` | a lost client ends the session in every case | **violated** |
| `pty_session` | descriptors closed once, master kept from the shell, no shell abandoned or taken from a live client, the output stream, the end of the session | holds |
| `cancel_safe` | no lost wake-up, a latch | holds |
| `agent_loop` | permits conserved, backlog drains | holds |
| `keepalive_timer` | a client that pings from a timer is cut off only for input that is not taken, a dead one is caught in bounded time | holds |
| `keepalive_starved` | a client that pings when select() times out is kept | **violated** |
| `frame_codec` | a FIFO of frames, bounded allocation, errors only for cause, cuts noticed | holds |
| `select_client` | exit codes true and not lost, input forwarded as meant, the client ends | holds |
| `ssh_session` | both buffers bounded, no stuck pause, no session unattended, exit status true, both ends end the bridge | holds |

The violated runs are disagreements between code and comments:

1. `exec_orphan`. A STDIN frame meets a child that closed its stdin; `stdin_task`
   ends without firing cancel (`session.rs:413`). Later the client dies: nobody
   reads the transport, a silent command writes nothing, and without a deadline
   nothing ends the session.
2. `keepalive_starved`. `guest_cmd.py` and `telnet_gateway.py` send PING only
   when `select()` times out, so output that keeps arriving suppresses PING and
   the agent cancels a client that is reading it.

Other behaviour that the models contain, and that the properties are careful not to
deny:

* the drain grace (`session.rs:514`) also cuts off a pump that waits behind a slow
  client: EXIT "exited" then follows a truncated output, still an unbroken prefix;
* the master is close-on-exec only after the session's task has resumed
  (`session.rs:589`), so a child of another session can inherit it: `MasterPrivate`
  is about the session's own shell, and `PtyEnds` shows that the session ends anyway;
* a live client whose input the command has not taken for `idle_timeout` is cut off,
  PING or not, which the comment at `session.rs:405` intends (`LiveClientKept`);
* a dead client is noticed only after the frames it left have been read and written:
  TLC finds runs that need all of the `(Backlog + 2) * idle_timeout` ticks
  `DeadClientCaught` allows; after EPIPE it is not noticed at all (`exec_orphan`);
* a shell that runs on but has closed its terminal is hung up at the next key when
  the write fails with EIO, with its client connected (`session.rs:755`, `:780`);
  `LiveShellKept` excepts a shell that has let go of its terminal;
* a key typed just after the shell ended makes the write to the terminal fail, and
  EXIT may say "disconnected" to a client that is connected (`LiveShellKept` is about
  the kill only);
* a header cut in its middle is a clean end to the agent and to `ssh_gateway.py`
  (`CutNoticed`), though the doc of `read_frame` has that for a frame boundary;
* `run_shell` and the SSH gateway report 0 for a stream that ends without EXIT, the
  SSH gateway also after a reset (`ResultTruthful`, `ExitTruthful`);
* frames the agent has not read, a PING is enough, make its close a reset that can
  lose EXIT (`ExitSurvives`, `ExitTruthful` except exactly this);
* open-pty ignores STDIN_EOF: a shell client whose stdin ended waits on;
* an escaped 0xFF is appended to the telnet accumulator without the check of its
  cap; within a chunk, window sizes are forwarded before the data;
* an exception in the SSH handshake leaves the channel open with nobody behind it
  (`run = "raised"`; the guest has no session then), window changes are queued
  without a bound, and while the client does not read the guest's end is unnoticed.

**Bounds.** `CHANNEL_BOUND = 1` and `RecvCap = 1` are the tightest queues: every
case of a full queue, a blocked producer and a blocked session happens with them;
a larger channel only delays these cases. `MaxOut` counts chunks: two of STDOUT
are the least that show a gap or a wrong order, one of STDERR competes with them
for the channel; reasons and kills need no output (`Silent`), the EXIT frame alone
fills the channel. `StdinCap = 1` fills the child's pipe at once. PING and RESIZE
change nothing in the agent but the idle timer, which may lapse at any time, so the
runs of the verbs leave them out. Two firers and two waiters, four connections for
two permits leave room for every overlap. An interval of 3, a delay of 4 and a timeout
of 9 ticks are the tightest but one that `KeepaliveAssumption` admits, and a backlog of
two frames has a STDIN frame written while another or a PING waits behind it.

`frame_codec` scales the field down, not the structure: three binary digits hold 0
to 7, `MAX_FRAME_LEN` is 5, the default cap 3 and its floor 1, and lengths run over
all of 0..6 and 9, so that every cap is met exactly, by one below and by one above, and
9 would wrap to 1 in the field. Two frames show an order, and a transport of three
bytes is shorter than a header. `select_client` has two events, tokens or frames of
output, of up to six bytes each: a token cut anywhere with another one behind it,
or output with input; `UpCap = 2` is full after REQUEST and one frame. A cap of 3 bytes for
subnegotiations is the least that holds a window size with one-byte dimensions.
`ssh_session` has the high-water mark at 2, the low at 0 and a window of 2, so a pause, a
hand-over that reaches the mark again and a second pause all happen; one frame in the
writer makes every second writer wait in `drain()`. Window changes and output are
capped at one (`MaxResize`, `MaxDown`), which the model needs and the code does not
have.

Deadlock is checked everywhere; the end of a session is an explicit stuttering step
(`Done`).

**Fairness.** Weak fairness of every task's step: the runtime polls what is ready,
and a timer that stays armed lapses. `SIGKILL` takes a child that is not wedged.
`pty_session` assumes also that `openpty` returns, which the code does not bound. No
step of the client, of the command, or of the kernel's HUP edge is assumed fair.
`agent_loop` assumes strong fairness of accept (its errors are transient) and that
sessions end. The latter is an assumption on users and commands, not a result: the
liveness properties of the verbs have a session end after its client is gone, its
deadline, a cancel or the exit of its command, but an uncapped command whose client
stays connected runs as long as it likes, and the session of `exec_orphan` does not
end. `BacklogDrains` says that permits are not worn out, so that the backlog moves
whenever sessions do end. `frame_codec` assumes a reader that reads,
`select_client` a client that runs, neither anything of the other side: a socket call
either returns or times out. In `ssh_session` the event loop runs every task that is
ready; `_pump_inbound` has strong fairness, since a task that `drain()` has woken stays
in the ready queue although `_keepalive` may fill the writer again before it runs.
`InputArrives` carries its own hypothesis, a guest that keeps reading.

## 4. Proofs

All for every value of the constants that satisfies the named assumptions.

* `SessionProofs` (`SessionAssumption`) has no theorem of its own but the invariant both
  verbs share, `WayInv`, about `Queued`, the frames in wire, hand and channel in the
  order in which they will be written. `TerminalInv` says that a terminal frame is
  the last of them: `TerminalLast` alone speaks of the wire, and a terminal frame
  behind which something is queued would break it two steps later. `StreamInv` says
  that the chunks of each stream in `Queued` are numbered without a gap, and with
  what the pump holds are all it has taken, unless the writer is gone. Each
  operation of `Session` keeps it; the verbs show that no pump can append behind
  their terminal frame.
* `ExecProofs` (`ExecAssumption`): `TypeCorrect`, `TerminalIsLast`, `ExitFollowsOutput`,
  `NothingIsLeftRunning`, `ReasonIsTruthful`, `CancelSilences`, `ExecImplementsOutput`.
  The inductive invariant `ExecInv` adds to `TypeOK` and `WayInv` five parts. `Phases`
  ties the pc to what has been set up and stopped: no pump runs once its drain is
  over. `KillInv` links SIGKILL, teardown and what is left alive. `ReasonInv` links
  the wait status, the way the child died and the teardown, and says that a session
  torn down by cancel has no terminal frame on the wire and, since the writer is
  silenced, never will. `FinishedInv` has that a pump finishes only when nobody can
  write to its pipe, `ExitInv` that with EXIT all a finished pump took is on the wire.
* `PtyProofs` (`PtyAssumption`): `TypeCorrect`, `FdsAreClosedOnce`, `ShellIsAccounted`,
  `MasterIsPrivate`, `LiveShellIsKept`, `PtyTerminalIsLast`, `PtyCancelSilences`,
  `PtyImplementsOutput`. `FdInv` gives for every pc the descriptors that are open and
  the holders of the master, which depends on whether the output task lives
  (`OutInv`). `CloexecInv` has that the master is close-on-exec when the shell is
  forked, `KillInv` that no signal is sent before the select is left and that a
  shell let go of has been sent one. `HupInv` has what may cause a hangup: the
  input task ends only with an excuse (cancel, a client that is gone or breaks the
  protocol, a shell that has ended by itself or closed its terminal), and an excuse
  does not go away.
* `AgentProofs` (`AgentAssumption`), the accept loop: `AgentTypeCorrect`,
  `PermitsAreConserved`, `SessionsAreBounded`. The invariant adds that a connection is
  in one place at a time, so that accept really adds one session. `Cancel` (the names
  of its specification carry a prefix, so that both can be extended):
  `CancelNoLostWakeup`. The invariant adds that a call of `fire` that has begun has
  stored the flag: a waiter goes to sleep only after a re-check that found no flag,
  hence before any `fire` has returned. `CancelIsALatch` is the safety part of the
  refinement: every step is a step of `Latch` or leaves its variables alone.
* `KeepaliveProofs` (`KeepaliveAssumption`: interval and delay together are below the
  timeout, the backlog holds a frame): `KeepaliveIsInductive` and from it
  `LiveClientIsKept`, for a client that pings from a timer or a command that writes
  nothing, and `DeadClientIsCaught`, for both kinds and any command. The clocks alone
  are not inductive. `LiveRecent` ties the open read to the client: it has lasted no
  longer than the client's own wait if nothing is under way, else no longer than an
  interval and the age of the oldest frame. `DeadRecent` is an account of the time
  since the death: a frame that may still be under way is at least that old, so a read
  costs no time while frames wait that have arrived; each frame that was read pays for
  one write (`Spent`), and the last read has its own clock.
* `SshProofs` (`SshAssumption`): `SshTypeCorrect`, `OutboundIsBounded`,
  `InboundIsBounded`, `SessionIsAttended`, `ExitIsTruthful`. The invariant `SshInv` has
  these parts, and `ExitTruthful` itself. `Tasks`
  says which tasks exist at which stage, that no cancellation is pending while the
  vsock is open, and that behind a closed one every task is over or cancelled.
  `Upward` counts the frames of the tasks that wait in `drain()`, which is what bounds
  the writer. `Buffer` has that a buffer beyond its mark has cleared `flowing`.
  `Downward` has that a terminal frame is the last one on its way, so that what is
  behind EXIT is nothing. `Queues` is the types of the queues. `Bounds` has that the
  queue is below its bound while reading is not paused, and that asyncssh keeps back
  no more than its window: the hand-over on resume, which re-enters `_enqueue` while
  `_reading_paused` is still set, then stays within the bound.
* `CodecProofs` (`CodecAssumption`: two or more values of a byte, at least one length
  digit, `MAX_FRAME_LEN` fits the digits, the default cap is between floor and ceiling):
  `AllocIsBounded`, `ErrIsJustified`, `CutIsNoticed`, `CodecIsAChannel`. `RoundTrip` is that the
  digits of a length that fits, read back, are the length, by induction over the
  digits; `FitsBelow` that all up to `MAX_FRAME_LEN` fit. `HeaderFound` and `PayloadFound`: in any
  stream of bytes that begins with a frame, the first `HeaderLen` bytes tell its type and
  length, and so many bytes behind them are its payload. The three properties speak of
  the end of the reading and are not inductive: that an error has a cause rests on the
  reader never having lost the boundary between frames. `CodecInv` says that (`Aligned`):
  what the reader holds, what is on the transport and what is left to write are
  together the stream of the frames not read yet; with `BegunFit` (nothing is begun whose
  length the digits do not hold), `LeftOfCur` (a frame being written has bytes left, so
  the reader cannot have all of it), `ReadPosition` (`read_exact` has less than it needs) and
  `RcvdIsPrefix`. A stream is described from the back, each one as the first frame and
  the stream of the others, so that neither writing nor reading a frame needs an
  induction. `CodecIsAChannel` is the safety part of the refinement: a step is the end of a
  write, a read, a failure or the end of the channel, or leaves its variables alone.
* `ClientProofs` (`ClientAssumption`, `TelnetAssumption`, `TokensAssumption`):
  `ClientTypeCorrect`, `ResultIsTruthful`, `ExitIsReported`, `TypedIsForwarded`. About the
  parser: what a byte yields depends on the parser alone and is appended to what was
  yielded before (`StepIsJoin`), so feeding two chunks one after the other yields
  what feeding them at once does (`FeedCut`, by induction over the bytes). About
  the loop: `LoopInv` (stdin is watched until STDIN_EOF), `StreamInv` (only the last
  frame on its way is not output, EXIT has all the output before it and stays until
  it is read or a reset overtakes it) and `ForwardInv`: what was forwarded, joined with
  what the unread bytes will yield, is what the user meant. `TokensAssumption` is that
  each token, fed alone and at once to a fresh parser, yields what it stands for; TLC
  evaluates it for the tokens of `MCClient`. The theorem adds every sequence of tokens
  and every way of cutting it. That well-formed tokens are so is proved too:
  `KeysAreRead` for every sequence of bytes with its 0xFF doubled, `SizesAreRead` for
  every NAWS report and every `DimBytes`, `OptionsAreAnswered` for a negotiation. The
  induction is over the bytes sent; within a subnegotiation it needs the report to
  be below the cap, which is why `TelnetAssumption` has one more than two dimensions.

The inductions over bytes and digits use induction for a set rather than for an
operator (`SetInduction`, `Induction`), and the existence of a recursive function is
proved the same way (`RunExists`, `EscapesExist`, `IterationExists`). Lemmas about functions on 0..n are kept apart from sequences, since the
encoding of `Len` for the SMT solver takes every function for one on 1..n.

Only model-checked: everything about liveness (fairness is beyond the prover), also
the liveness parts of `ImplementsLatch` and `ImplementsFrameChannel`; and what a malformed
telnet token (a subnegotiation that is too long, or ends without SE) yields. Every invariant and every action property of a passing run is
also a theorem.

## 5. Not modelled

Left out: the settings of the startup other than the inbound cap (they are the
constants), the portal call (one system call whose result is ignored), packaging, the
wording of messages, window sizes inside the agent, the console warning, `shlex`; on
the host the discovery of the socket, the command line, the terminal's raw mode,
`telnet_escape`, and the set-up of the SSH server before `session_started`. The SIGWINCH
handler of `run_shell` is modelled between the calls of its loop, not inside a
`sendall`. `drain()` is that of Python since 3.10.7, which admits two waiters.
