---------------------------- MODULE ExecSession ----------------------------
(***************************************************************************)
(* The exec verb (src/src/session.rs: exec, pump, exit_fields, kill_group):*)
(* a shell command on pipes, two output pumps, host STDIN forwarded to it, *)
(* and one biased select over cancel, the deadline, the child's exit and   *)
(* the forwarding.  The child is the environment: it writes, reads, exits, *)
(* forks, or wedges in uninterruptible sleep as it likes.                  *)
(***************************************************************************)
EXTENDS Session

CONSTANTS
  MaxOut,           \* most chunks the command writes to each of its streams
  StdinCap,         \* chunks the child's stdin pipe holds
  DefaultDeadline,  \* whether the agent has a default cap (main.rs, cli)
  BgKinds           \* background processes the command may leave behind

ASSUME ExecAssumption ==
  /\ MaxOut \in [Streams -> Nat]
  /\ StdinCap \in Nat \ {0}
  /\ DefaultDeadline \in BOOLEAN
  /\ BgKinds \subseteq {"group", "escaped"}

VARIABLES
  stdin,       \* stdin_task: "none", "read", "write", "done", or "retired"
               \* when it ended because the child closed its stdin
  cstdin,      \* the agent still holds the write end of the child's stdin
  childStdin,  \* the child still holds the read end
  fed,         \* chunks in the child's stdin pipe
  capped,      \* a deadline is armed
  child,       \* "none", "running", "wedged" (state D), "zombie" or "reaped"
  death,       \* how the child ended: "none", "code", "signal" or "agent"
  signalled,   \* the agent sent SIGKILL to the child's process group
  bg,          \* a background process on the child's output pipes, in the
               \* child's group or in a session of its own ("escaped")
  status,      \* what waiting for the child gave: "none", "code", "signal", "err"
  teardown,    \* reason_override: "", "disconnected" or "timeout"
  report       \* code and reason of the EXIT frame

childVars == <<childStdin, fed, child, death, bg>>
waitVars  == <<capped, signalled, status, teardown, report>>
execVars  == <<stdin, cstdin, childVars, waitVars>>
vars      == <<sessionVars, execVars>>

Alive == child \in {"running", "wedged"}

ExecPcs == {"request", "run", "reap", "drainOut", "drainErr", "exit", "error",
            "join", "done"}
ExitCodes == {"none", "code", "128+signal", "-1"}
ExitReasons == {"none", "exited", "signaled", "timeout", "disconnected", "error"}

ChildTypeOK ==
  /\ childStdin \in BOOLEAN
  /\ fed \in 0..StdinCap
  /\ child \in {"none", "running", "wedged", "zombie", "reaped"}
  /\ death \in {"none", "code", "signal", "agent"}
  /\ bg \in {"none", "group", "escaped"}

WaitTypeOK ==
  /\ capped \in BOOLEAN /\ signalled \in BOOLEAN
  /\ status \in {"none", "code", "signal", "err"}
  /\ teardown \in {"", "disconnected", "timeout"}
  /\ report \in ExitCodes \X ExitReasons

StdinTypeOK ==
  /\ stdin \in {"none", "read", "write", "done", "retired"}
  /\ cstdin \in BOOLEAN

TypeOK ==
  /\ SessionTypeOK
  /\ pc \in ExecPcs
  /\ ChildTypeOK /\ WaitTypeOK /\ StdinTypeOK

Init ==
  /\ SessionInit
  /\ stdin = "none" /\ cstdin = FALSE /\ childStdin = FALSE /\ fed = 0
  /\ capped = FALSE /\ child = "none" /\ death = "none" /\ signalled = FALSE
  /\ bg = "none" /\ status = "none" /\ teardown = ""
  /\ report = <<"none", "none">>

-----------------------------------------------------------------------------
(* The command.                                                            *)

ChildWrite(s) ==
  /\ child = "running" \/ bg # "none"
  /\ produced[s] < MaxOut[s]
  /\ produced' = [produced EXCEPT ![s] = @ + 1]
  /\ UNCHANGED <<pump, taken, childVars>>

\* The child's own doing; a SIGKILL that is pending lets it do nothing more.
ChildActs ==
  /\ child = "running" /\ ~signalled
  /\ \/ /\ fed > 0 /\ childStdin /\ fed' = fed - 1
        /\ UNCHANGED <<childStdin, child, death, bg>>
     \/ /\ childStdin /\ childStdin' = FALSE
        /\ UNCHANGED <<fed, child, death, bg>>
     \/ /\ bg = "none" /\ bg' \in BgKinds
        /\ UNCHANGED <<childStdin, fed, child, death>>
     \/ /\ child' = "zombie" /\ death' \in {"code", "signal"}
        /\ UNCHANGED <<childStdin, fed, bg>>
  /\ UNCHANGED pumpVars

\* An emulated driver parks the child in state D, or lets go of it.
ChildWedges ==
  /\ \/ child = "running" /\ child' = "wedged"
     \/ child = "wedged" /\ child' = "running"
  /\ UNCHANGED <<pumpVars, childStdin, fed, death, bg>>

\* SIGKILL takes a child that is not wedged.
ChildDies ==
  /\ child = "running" /\ signalled
  /\ child' = "zombie" /\ death' = "agent"
  /\ UNCHANGED <<pumpVars, childStdin, fed, bg>>

BackgroundExits ==
  /\ bg # "none" /\ bg' = "none"
  /\ UNCHANGED <<pumpVars, childStdin, fed, child, death>>

Command ==
  /\ pc # "done"
  /\ \/ \E s \in Streams : ChildWrite(s)
     \/ ChildActs \/ ChildWedges \/ ChildDies \/ BackgroundExits
  /\ UNCHANGED <<transportVars, outboundVars, fired, pc, stdin, cstdin, waitVars>>

-----------------------------------------------------------------------------
(* pump, one task per stream.                                              *)

PipeEOF(s) == ~Alive /\ bg = "none" /\ taken[s] = produced[s]

\* Mutant: the pump ends with the child instead of at the end of the pipe.
PumpReadUntilExit(s) ==
  /\ pump[s] = "read"
  /\ \/ /\ taken[s] < produced[s]
        /\ taken' = [taken EXCEPT ![s] = @ + 1]
        /\ pump' = [pump EXCEPT ![s] = "send"]
     \/ /\ ~Alive
        /\ pump' = [pump EXCEPT ![s] = "finished"]
        /\ UNCHANGED taken
  /\ UNCHANGED chan

PumpRead(s) ==
  /\ pump[s] = "read"
  /\ \/ /\ taken[s] < produced[s]
        /\ taken' = [taken EXCEPT ![s] = @ + 1]
        /\ pump' = [pump EXCEPT ![s] = "send"]
     \/ /\ PipeEOF(s)
        /\ pump' = [pump EXCEPT ![s] = "finished"]
        /\ UNCHANGED taken
  /\ UNCHANGED chan

\* Mutant: a full channel drops the frame (try_send) instead of holding the
\* pump back.
PumpSendLossy(s) ==
  /\ pump[s] = "send"
  /\ Send([type |-> s, n |-> taken[s]]) \/ UNCHANGED chan
  /\ pump' = [pump EXCEPT ![s] = "read"]
  /\ UNCHANGED taken

PumpSend(s) ==
  /\ pump[s] = "send"
  /\ Send([type |-> s, n |-> taken[s]])
  /\ pump' = [pump EXCEPT ![s] = "read"]
  /\ UNCHANGED taken

Pump(s) ==
  /\ PumpRead(s) \/ PumpSend(s)
  /\ UNCHANGED <<transportVars, writer, hand, wire, fired, pc, produced, execVars>>

-----------------------------------------------------------------------------
(* exec, up to its select.                                                 *)

\* The deadline of the request: absent, an explicit 0, seconds, or a value
\* try_from_secs_f64 refuses.
EffectiveDeadline(d) ==
  CASE d = "absent" -> DefaultDeadline [] d = "zero" -> FALSE [] d = "secs" -> TRUE

ExecRefused ==
  /\ pc' = "error"
  /\ UNCHANGED <<pump, childVars, stdin, cstdin, capped>>

Spawn(d) ==
  /\ capped' = EffectiveDeadline(d)
  /\ child' = "running" /\ childStdin' = TRUE
  /\ stdin' = "read" /\ cstdin' = TRUE
  /\ pump' = [s \in Streams |-> "read"]
  /\ pc' = "run"
  /\ UNCHANGED <<fed, death, bg>>

Exec ==
  /\ pc = "request" /\ ReadFrame("REQUEST")
  /\ \/ ExecRefused      \* an invalid deadline, or spawn() failed
     \/ \E d \in {"absent", "zero", "secs"} : Spawn(d)
  /\ UNCHANGED <<up, link, outboundVars, fired, produced, taken,
                 signalled, status, teardown, report>>

-----------------------------------------------------------------------------
(* stdin_task.  Its outer select polls cancel first, so it moves only while*)
(* cancel has not fired, and it is dropped when the select is left.        *)

\* Mutant: a transport EOF only ends the forwarding and fires nothing.
StdinReadQuietEOF ==
  /\ stdin = "read"
  /\ \E r \in InFrames \cup {"elapsed", "none", "err"} :
       /\ ReadFrame(r)
       /\ stdin' = CASE r \in {"elapsed", "none", "err"} -> "done"
                     [] r = "STDIN" /\ cstdin -> "write"
                     [] OTHER -> "read"
       /\ cstdin' = (cstdin /\ r # "STDIN_EOF")
       /\ fired' = (r \in {"elapsed", "err"})
  /\ UNCHANGED fed

StdinRead ==
  /\ stdin = "read"
  /\ \E r \in InFrames \cup {"elapsed", "none", "err"} :
       /\ ReadFrame(r)
       /\ stdin' = CASE r \in {"elapsed", "none", "err"} -> "done"
                     [] r = "STDIN" /\ cstdin -> "write"
                     [] OTHER -> "read"
       /\ cstdin' = (cstdin /\ r # "STDIN_EOF")
       /\ fired' = (r \in {"elapsed", "none", "err"})
  /\ UNCHANGED fed

\* write_all: the pipe takes the chunk, or has no reader (EPIPE), or stays
\* full for idle_timeout.
StdinWrite ==
  /\ stdin = "write"
  /\ \/ /\ childStdin /\ fed < StdinCap
        /\ fed' = fed + 1 /\ stdin' = "read" /\ UNCHANGED fired
     \/ /\ ~childStdin \/ ~Alive
        /\ stdin' = "retired" /\ UNCHANGED <<fed, fired>>
     \/ /\ childStdin /\ fed = StdinCap
        /\ stdin' = "done" /\ fired' = TRUE /\ UNCHANGED fed
  /\ UNCHANGED <<inbox, cstdin>>

StdinTask ==
  /\ pc = "run" /\ ~fired
  /\ StdinRead \/ StdinWrite
  /\ UNCHANGED <<up, link, outboundVars, pumpVars, pc, childStdin, child, death, bg,
                 waitVars>>

-----------------------------------------------------------------------------
(* The select of exec and what follows it.                                 *)

\* SIGKILL to the whole group; the child dies of it when it can.
KillGroup ==
  /\ signalled' = TRUE
  /\ bg' = IF bg = "group" THEN "none" ELSE bg

\* Mutant: cancel leaves the child to itself.
CancelArmNoKill ==
  /\ pc = "run" /\ fired
  /\ teardown' = "disconnected" /\ pc' = "reap"
  /\ UNCHANGED <<child, status, signalled, bg>>

CancelArm ==
  /\ pc = "run" /\ fired
  /\ KillGroup /\ teardown' = "disconnected" /\ pc' = "reap"
  /\ UNCHANGED <<child, status>>

\* Mutant: the deadline kill reports no reason of its own.
DeadlineArmNoReason ==
  /\ pc = "run" /\ ~fired /\ capped
  /\ KillGroup /\ teardown' = "" /\ pc' = "reap"
  /\ UNCHANGED <<child, status>>

DeadlineArm ==
  /\ pc = "run" /\ ~fired /\ capped
  /\ KillGroup /\ teardown' = "timeout" /\ pc' = "reap"
  /\ UNCHANGED <<child, status>>

\* wait() resolves for a child that has ended: with its status, or with an error
\* when somebody else has reaped it (a kernel told to ignore SIGCHLD, ECHILD).
Waited ==
  /\ child = "zombie" /\ child' = "reaped"
  /\ status' \in {IF death = "code" THEN "code" ELSE "signal", "err"}
  /\ pc' = "drainOut"
  /\ UNCHANGED <<signalled, bg, teardown>>

WaitArm == pc = "run" /\ ~fired /\ Waited

Reap == pc = "reap" /\ Waited

\* Mutant: the wait after a kill has no bound.
ReapLapseNever == FALSE /\ UNCHANGED <<child, status, pc, signalled, bg, teardown>>

ReapLapse ==
  /\ pc = "reap" /\ Alive
  /\ status' = "err" /\ pc' = "drainOut"
  /\ UNCHANGED <<child, signalled, bg, teardown>>

Select ==
  /\ CancelArm \/ DeadlineArm \/ WaitArm \/ Reap \/ ReapLapse
  /\ UNCHANGED <<transportVars, outboundVars, pumpVars, fired, stdin, cstdin,
                 childStdin, fed, death, capped, report>>

\* Mutant: a pump that outlives the grace is left running.
DrainTaskNoAbort(s) == UNCHANGED pump

\* timeout(grace, task): the task has ended, or the grace lapses and it is
\* aborted wherever it is, waiting for a pipe that a background process keeps
\* open, for room in the channel behind a slow client, or for its turn.
DrainTask(s) ==
  \/ pump[s] = "finished" /\ UNCHANGED pump
  \/ pump[s] # "finished" /\ pump' = [pump EXCEPT ![s] = "aborted"]

Drain ==
  /\ \/ pc = "drainOut" /\ DrainTask("STDOUT") /\ pc' = "drainErr"
     \/ pc = "drainErr" /\ DrainTask("STDERR") /\ pc' = "exit"
  /\ UNCHANGED <<transportVars, outboundVars, fired, produced, taken, execVars>>

SendExit ==
  /\ pc = "exit"
  /\ Send([type |-> "EXIT", n |-> 0])
  /\ report' = exit_fields(status, teardown)
  /\ pc' = "join"
  /\ UNCHANGED <<transportVars, writer, hand, wire, fired, pumpVars, stdin, cstdin,
                 childVars, capped, signalled, status, teardown>>

Done == pc = "done" /\ UNCHANGED vars

Next ==
  \/ Client /\ pc # "done" /\ UNCHANGED execVars
  \/ Command
  \/ Writer /\ UNCHANGED execVars
  \/ \E s \in Streams : Pump(s)
  \/ Drive /\ UNCHANGED execVars
  \/ Exec
  \/ StdinTask
  \/ Select
  \/ Drain
  \/ SendExit
  \/ Done

\* Every task the runtime can poll is polled, every timer that stays armed
\* lapses, and the kernel delivers SIGKILL.  Nothing is assumed of the client
\* or of what the command does on its own.
Fairness ==
  /\ WF_vars(Writer /\ UNCHANGED execVars)
  /\ \A s \in Streams : WF_vars(Pump(s))
  /\ WF_vars((Drive /\ UNCHANGED execVars) \/ Select \/ Drain \/ SendExit)
  /\ WF_vars(StdinTask)
  /\ WF_vars(Command /\ ChildDies)

Spec == Init /\ [][Next]_vars
FairSpec == Spec /\ Fairness

-----------------------------------------------------------------------------
(* Safety.                                                                 *)

\* An EXIT that the client sees follows the whole output of every stream whose
\* pump was not cut off by the drain grace.
ExitAfterOutput ==
  (\E i \in 1..Len(wire) : wire[i].type = "EXIT") =>
    \A s \in Streams : pump[s] = "finished" => Output!Got(s) = 1..produced[s]

\* exec never leaves a command behind that it has not signalled, and a
\* teardown (cancel or deadline) takes the background processes of the
\* command's group with it (kill_group, process_group(0)).
NothingLeftRunning ==
  pc \in {"drainOut", "drainErr", "exit", "join", "done"} =>
    /\ Alive => signalled /\ status = "err"
    /\ teardown # "" => bg # "group"

\* The reason a client reads in EXIT is the true one: a command the agent
\* killed is never reported as ended by itself, "timeout" only where a
\* deadline was armed, "error" only for a child that is gone or was killed, and
\* "disconnected" never reaches a client, since the same cancel silences
\* the writer (exit_fields, the arms of the select).
ReasonTruthful ==
  (\E i \in 1..Len(wire) : wire[i].type = "EXIT") =>
    /\ report[2] \in {"exited", "signaled"} => death # "agent" /\ ~signalled
    /\ report[2] = "exited" => report[1] = "code" /\ death = "code"
    /\ report[2] = "timeout" => capped /\ signalled
    /\ report[2] = "error" => (Alive => signalled) /\ report[1] = "-1"
    /\ report[2] # "disconnected"

-----------------------------------------------------------------------------
(* Liveness, under FairSpec.                                               *)

\* A command that is killed at its deadline, cancelled, or ends by itself ends
\* the session, and gives its permit back: even when the child is wedged in
\* state D, a background process keeps the pipes, the client does not read, or
\* every queue is full.
CommandEnds ==
  (fired \/ child = "zombie" \/ (pc = "run" /\ capped)) ~> (pc = "done")

\* A client that is gone ends the session, deadline or not, as long as the
\* stdin reader has not been retired by a child that closed its stdin.
DisconnectEnds == (up # "open") ~> (pc = "done" \/ stdin = "retired")

\* The same without the exception, as the comments of exec have it: "a client
\* that half-closes stdin and then dies is still caught".
DisconnectAlwaysEnds == (up # "open") ~> (pc = "done")
=============================================================================
