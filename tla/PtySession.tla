----------------------------- MODULE PtySession -----------------------------
(***************************************************************************)
(* The open-pty verb (src/src/session.rs: open_pty, hangup, reap_bounded): *)
(* a shell on a pty, with the file descriptors the agent opens, hands over *)
(* and closes on every path, the output and input tasks on the master, an  *)
(* UNBIASED select over the input task, the shell's exit and cancel, and   *)
(* the hangup that escalates from SIGHUP to SIGKILL.  The only output      *)
(* stream is STDOUT.  Two pieces of data are left out, on which no other   *)
(* state depends: the window size (set_winsize), and what the EXIT frame   *)
(* says, which exit_fields computes as for exec.                           *)
(***************************************************************************)
EXTENDS Session

CONSTANTS
  MaxOut,        \* most chunks the shell writes to its terminal
  StdinCap,      \* chunks the terminal's input queue holds
  OtherSessions  \* whether another session may spawn its child meanwhile

ASSUME PtyAssumption ==
  /\ MaxOut \in Nat
  /\ StdinCap \in Nat \ {0}
  /\ OtherSessions \in BOOLEAN

VARIABLES
  fds,        \* agent's open descriptors: "master", "slave" and its three dups
  am,         \* clones of the Arc that owns the master: "session", "out"
  badClose,   \* a descriptor was closed that was not open
  cloexec,    \* the master is close-on-exec
  inherited,  \* children that got the master at fork: "shell", "other"
  input,      \* input_task: "none", "read", "write" or "done"
  fed,        \* chunks in the terminal's input queue
  child,      \* the shell: "none", "running", "wedged", "zombie" or "reaped"
  death,      \* "none", "own", or "agent" (our SIGHUP or SIGKILL)
  hup,        \* the agent sent SIGHUP
  signalled,  \* the agent sent SIGKILL
  tty,        \* the shell still has the slave it was given open: it may close
              \* it and run on (exec prog </dev/null >/dev/null 2>&1)
  jobs        \* a job of the shell, or a descriptor it opened anew (/dev/tty),
              \* has the slave open

fdVars    == <<fds, am, badClose, cloexec, inherited>>
shellVars == <<fed, child, death, tty, jobs>>
waitVars  == <<hup, signalled>>
ptyVars   == <<fdVars, input, shellVars, waitVars>>
vars      == <<sessionVars, ptyVars>>

Alive == child \in {"running", "wedged"}

Dups == {"d0", "d1", "d2"}

PtyPcs == {"request", "openpty", "opened", "cloexec", "dupped", "spawned", "failReap",
           "failClose", "run", "hangup", "reap", "drain", "exit", "error", "join", "done"}

FdTypeOK ==
  /\ fds \subseteq {"master", "slave"} \cup Dups
  /\ am \subseteq {"session", "out"}
  /\ badClose \in BOOLEAN /\ cloexec \in BOOLEAN
  /\ inherited \subseteq {"shell", "other"}

ShellTypeOK ==
  /\ fed \in 0..StdinCap
  /\ child \in {"none", "running", "wedged", "zombie", "reaped"}
  /\ death \in {"none", "own", "agent"}
  /\ tty \in BOOLEAN /\ jobs \in BOOLEAN /\ hup \in BOOLEAN /\ signalled \in BOOLEAN

TypeOK ==
  /\ SessionTypeOK
  /\ pc \in PtyPcs
  /\ input \in {"none", "read", "write", "done"}
  /\ FdTypeOK /\ ShellTypeOK

Init ==
  /\ SessionInit
  /\ fds = {} /\ am = {} /\ badClose = FALSE /\ cloexec = FALSE /\ inherited = {}
  /\ input = "none" /\ fed = 0
  /\ child = "none" /\ death = "none" /\ hup = FALSE /\ signalled = FALSE
  /\ tty = TRUE /\ jobs = FALSE

\* libc::close of each of the descriptors in F.
Close(F) ==
  /\ fds' = fds \ F
  /\ badClose' = (badClose \/ ~(F \subseteq fds))

-----------------------------------------------------------------------------
(* The shell and its jobs.                                                 *)

ShellWrites ==
  /\ (child = "running" /\ tty) \/ jobs
  /\ produced["STDOUT"] < MaxOut
  /\ produced' = [produced EXCEPT !["STDOUT"] = @ + 1]
  /\ UNCHANGED shellVars

\* What the shell does on its own, until a SIGKILL is pending.
ShellActs ==
  /\ child = "running" /\ ~signalled
  /\ \/ /\ fed > 0 /\ (tty \/ jobs) /\ fed' = fed - 1
        /\ UNCHANGED <<child, death, tty, jobs>>
     \/ tty /\ tty' = FALSE /\ UNCHANGED <<fed, child, death, jobs>>
     \/ ~jobs /\ jobs' = TRUE /\ UNCHANGED <<fed, child, death, tty>>
     \/ child' = "zombie" /\ death' = "own" /\ UNCHANGED <<fed, tty, jobs>>
     \/ hup /\ child' = "zombie" /\ death' = "agent" /\ UNCHANGED <<fed, tty, jobs>>
  /\ UNCHANGED produced

ShellWedges ==
  /\ \/ child = "running" /\ child' = "wedged"
     \/ child = "wedged" /\ child' = "running"
  /\ UNCHANGED <<produced, fed, death, tty, jobs>>

ShellDies ==
  /\ child = "running" /\ signalled
  /\ child' = "zombie" /\ death' = "agent"
  /\ UNCHANGED <<produced, fed, tty, jobs>>

JobEnds ==
  /\ jobs /\ jobs' = FALSE
  /\ UNCHANGED <<produced, fed, child, death, tty>>

Shell ==
  /\ pc # "done"
  /\ ShellWrites \/ ShellActs \/ ShellWedges \/ ShellDies \/ JobEnds
  /\ UNCHANGED <<transportVars, outboundVars, pump, taken, fired, pc, fdVars, input,
                 waitVars>>

-----------------------------------------------------------------------------
(* open_pty, up to its select.  openpty runs on a blocking thread; what    *)
(* follows it runs without an await, so no other session forks meanwhile.  *)

Request ==
  /\ pc = "request" /\ ReadFrame("REQUEST")
  /\ pc' = "openpty"
  /\ UNCHANGED <<pump, ptyVars>>

OpenPty ==
  /\ pc = "openpty"
  /\ \/ pc' = "error" /\ UNCHANGED fds
     \/ pc' = "opened" /\ fds' = {"master", "slave"}
  /\ UNCHANGED <<inbox, pump, am, badClose, cloexec, inherited, input, shellVars, waitVars>>

\* Another session's child is forked after openpty returned and before this
\* session's task resumes.
OtherSpawn ==
  /\ OtherSessions /\ pc = "opened"
  /\ inherited' = inherited \cup {"other"}
  /\ UNCHANGED <<inbox, pc, pump, fds, am, badClose, cloexec, input, shellVars, waitVars>>

\* Mutant: the flag is set on the status flags (F_SETFL) and has no effect.
set_cloexecIneffective == UNCHANGED cloexec

set_cloexec == cloexec' = TRUE

SetCloexec ==
  /\ pc = "opened"
  /\ \/ pc' = "error" /\ Close({"master", "slave"}) /\ UNCHANGED cloexec
     \/ pc' = "cloexec" /\ set_cloexec /\ UNCHANGED <<fds, badClose>>
  /\ UNCHANGED <<inbox, pump, am, inherited, input, shellVars, waitVars>>

\* Three dups of the slave, of which any may fail.
DupSlave ==
  /\ pc = "cloexec" /\ pc' = "dupped"
  /\ \E D \in SUBSET Dups : fds' = fds \cup D
  /\ UNCHANGED <<inbox, pump, am, badClose, cloexec, inherited, input, shellVars, waitVars>>

\* When one did, those that were opened are closed, and both ends of the pty.
DupFailed ==
  /\ pc = "dupped" /\ ~(Dups \subseteq fds)
  /\ Close((Dups \cap fds) \cup {"master", "slave"})
  /\ pc' = "error"
  /\ UNCHANGED <<inbox, pump, am, cloexec, inherited, input, shellVars, waitVars>>

\* spawn, then drop(cmd), which owns the dups, and close(slave).
SpawnShell ==
  /\ pc = "dupped" /\ Dups \subseteq fds
  /\ \/ /\ pc' = "error" /\ Close({"master", "slave"} \cup Dups)
        /\ UNCHANGED <<inherited, child>>
     \/ /\ pc' = "spawned" /\ child' = "running" /\ Close({"slave"} \cup Dups)
        /\ inherited' = inherited \cup (IF cloexec THEN {} ELSE {"shell"})
  /\ UNCHANGED <<inbox, pump, am, cloexec, input, fed, death, tty, jobs, waitVars>>

\* Mutant: a failed set_nonblocking is left without closing the master.
RegisterMasterLeak ==
  /\ pc = "spawned"
  /\ \/ pc' = "failReap" /\ signalled' = TRUE /\ UNCHANGED <<fds, am, input, pump>>
     \/ /\ pc' = "run" /\ am' = {"session", "out"} /\ input' = "read"
        /\ pump' = [pump EXCEPT !["STDOUT"] = "read"]
        /\ UNCHANGED <<fds, signalled>>
  /\ UNCHANGED <<inbox, badClose, cloexec, inherited, shellVars, hup>>

\* set_nonblocking fails (the master is still a raw fd, to be closed once the
\* shell is reaped), or AsyncFd::new does (its OwnedFd is dropped, which closes
\* the master at once): kill_group, then reap_bounded.
RegisterMaster ==
  /\ pc = "spawned"
  /\ \/ /\ pc' = "failClose" /\ signalled' = TRUE
        /\ UNCHANGED <<fds, badClose, am, input, pump>>
     \/ /\ pc' = "failReap" /\ signalled' = TRUE
        /\ Close({"master"})
        /\ UNCHANGED <<am, input, pump>>
     \/ /\ pc' = "run" /\ am' = {"session", "out"} /\ input' = "read"
        /\ pump' = [pump EXCEPT !["STDOUT"] = "read"]
        /\ UNCHANGED <<fds, badClose, signalled>>
  /\ UNCHANGED <<inbox, cloexec, inherited, shellVars, hup>>

\* wait() resolves for a shell that has ended.
Waited == child = "zombie" /\ child' = "reaped"

\* The wait after SIGKILL is bounded by REAP_GRACE.
reap_bounded == Waited \/ (Alive /\ UNCHANGED child)

FailReap ==
  /\ \/ pc = "failClose" /\ Close({"master"})
     \/ pc = "failReap" /\ UNCHANGED <<fds, badClose>>
  /\ reap_bounded
  /\ pc' = "error"
  /\ UNCHANGED <<inbox, pump, am, cloexec, inherited, input, fed, death, tty, jobs,
                 waitVars>>

Setup ==
  /\ \/ Request \/ OpenPty \/ OtherSpawn \/ SetCloexec \/ DupSlave \/ DupFailed
     \/ SpawnShell \/ RegisterMaster \/ FailReap
  /\ UNCHANGED <<up, link, outboundVars, fired, produced, taken>>

-----------------------------------------------------------------------------
(* out_task and input_task.                                                *)

\* Nobody has the slave open: the shell has ended, or lives on without it.
SlaveClosed == ~(Alive /\ tty) /\ ~jobs /\ "other" \notin inherited

\* A task drops its clone of the Arc; the last one closes the master.
DropMaster(t) ==
  /\ am' = am \ {t}
  /\ fds' = IF am \subseteq {t} THEN fds \ {"master"} ELSE fds

OutRead ==
  /\ pump["STDOUT"] = "read" /\ taken["STDOUT"] < produced["STDOUT"]
  /\ taken' = [taken EXCEPT !["STDOUT"] = @ + 1]
  /\ pump' = [pump EXCEPT !["STDOUT"] = "send"]
  /\ UNCHANGED <<chan, am, fds>>

\* Mutant: a chunk is dropped when the channel has no room.
OutSendLossy ==
  /\ pump["STDOUT"] = "send"
  /\ Send([type |-> "STDOUT", n |-> taken["STDOUT"]]) \/ UNCHANGED chan
  /\ pump' = [pump EXCEPT !["STDOUT"] = "read"]
  /\ UNCHANGED <<taken, am, fds>>

\* Unlike pump, out_task stops when the receiver is gone.
OutSend ==
  /\ pump["STDOUT"] = "send"
  /\ Send([type |-> "STDOUT", n |-> taken["STDOUT"]])
  /\ pump' = [pump EXCEPT !["STDOUT"] = IF writer = "gone" THEN "finished" ELSE "read"]
  /\ IF writer = "gone" THEN DropMaster("out") ELSE UNCHANGED <<am, fds>>
  /\ UNCHANGED taken

\* EIO once the slave is closed everywhere; the readiness edge for it may
\* never come, so this step is never forced.
OutHup ==
  /\ pump["STDOUT"] = "read" /\ SlaveClosed /\ taken["STDOUT"] = produced["STDOUT"]
  /\ pump' = [pump EXCEPT !["STDOUT"] = "finished"]
  /\ DropMaster("out")
  /\ UNCHANGED <<chan, taken>>

outTaskUnchanged ==
  UNCHANGED <<transportVars, writer, hand, wire, fired, pc, produced, badClose, cloexec,
              inherited, input, shellVars, waitVars>>

OutTask == (OutRead \/ OutSend) /\ outTaskUnchanged

OutTaskHup == OutHup /\ outTaskUnchanged

\* Mutant: the lapse of idle_timeout is taken for liveness.
InputReadPatient ==
  /\ input = "read"
  /\ \E r \in InFrames \cup {"none", "err"} :
       /\ ReadFrame(r)
       /\ input' = CASE r \in {"none", "err"} -> "done"
                     [] r = "STDIN" -> "write"
                     [] OTHER -> "read"
  /\ UNCHANGED <<fed, fired>>

\* RESIZE, PING and STDIN_EOF leave nothing but a fresh idle timer.
InputRead ==
  /\ input = "read"
  /\ \E r \in InFrames \cup {"elapsed", "none", "err"} :
       /\ ReadFrame(r)
       /\ input' = CASE r \in {"elapsed", "none", "err"} -> "done"
                     [] r = "STDIN" -> "write"
                     [] OTHER -> "read"
       /\ fired' = (fired \/ r = "elapsed")
  /\ UNCHANGED fed

\* Mutant: a full input queue (EAGAIN) is an error.
write_all_fdEagain ==
  \/ fed < StdinCap /\ fed' = fed + 1 /\ input' = "read"
  \/ (SlaveClosed \/ fed = StdinCap) /\ input' = "done" /\ UNCHANGED fed

\* The queue takes the chunk, or, when nobody has the slave open, the write may
\* fail (EIO).
write_all_fd ==
  \/ fed < StdinCap /\ fed' = fed + 1 /\ input' = "read"
  \/ SlaveClosed /\ input' = "done" /\ UNCHANGED fed

\* Biased to cancel; a queue that stays full for idle_timeout fires it.
InputWrite ==
  /\ input = "write"
  /\ \/ fired /\ input' = "done" /\ UNCHANGED <<fed, fired>>
     \/ ~fired /\ write_all_fd /\ UNCHANGED fired
     \/ /\ ~fired /\ fed = StdinCap
        /\ input' = "done" /\ fired' = TRUE /\ UNCHANGED fed
  /\ UNCHANGED inbox

InputTask ==
  /\ pc = "run"
  /\ InputRead \/ InputWrite
  /\ UNCHANGED <<up, link, outboundVars, pumpVars, pc, fdVars, child, death, tty,
                 jobs, waitVars>>

-----------------------------------------------------------------------------
(* The select, the hangup and the end.                                     *)

HangUp ==
  /\ hup' = TRUE /\ pc' = "hangup"
  /\ UNCHANGED <<child, signalled>>

InputArm == pc = "run" /\ input = "done" /\ HangUp

CancelArm == pc = "run" /\ fired /\ HangUp

\* The shell ends by itself, or within two seconds of the SIGHUP.  An input
\* task that has ended has already won the select.
WaitArm ==
  /\ \/ pc = "run" /\ input # "done"
     \/ pc = "hangup"
  /\ Waited
  /\ pc' = "drain" /\ UNCHANGED waitVars

\* Mutant: the hangup gives up on a shell that ignores SIGHUP.
EscalateNever ==
  /\ pc = "hangup" /\ Alive
  /\ pc' = "drain"
  /\ UNCHANGED <<child, waitVars>>

Escalate ==
  /\ pc = "hangup" /\ Alive
  /\ signalled' = TRUE /\ pc' = "reap"
  /\ UNCHANGED <<child, hup>>

Reap ==
  /\ pc = "reap" /\ reap_bounded
  /\ pc' = "drain" /\ UNCHANGED waitVars

Select ==
  /\ InputArm \/ CancelArm \/ WaitArm \/ Escalate \/ Reap
  /\ UNCHANGED <<transportVars, outboundVars, pumpVars, fired, fdVars, input, fed, death,
                 tty, jobs>>

Drain ==
  /\ pc = "drain" /\ pc' = "exit"
  /\ \/ pump["STDOUT"] = "finished" /\ UNCHANGED <<pump, am, fds>>
     \/ /\ pump["STDOUT"] # "finished"
        /\ pump' = [pump EXCEPT !["STDOUT"] = "aborted"] /\ DropMaster("out")
  /\ UNCHANGED <<transportVars, outboundVars, fired, produced, taken, badClose, cloexec,
                 inherited, input, shellVars, waitVars>>

\* send(EXIT) and the return, which drops the session's clone of the master.
SendExit ==
  /\ pc = "exit"
  /\ Send([type |-> "EXIT", n |-> 0])
  /\ DropMaster("session")
  /\ pc' = "join"
  /\ UNCHANGED <<transportVars, writer, hand, wire, fired, pumpVars, badClose, cloexec,
                 inherited, input, shellVars, waitVars>>

Done == pc = "done" /\ UNCHANGED vars

Next ==
  \/ Client /\ pc # "done" /\ UNCHANGED ptyVars
  \/ Shell
  \/ Writer /\ UNCHANGED ptyVars
  \/ Drive /\ UNCHANGED ptyVars
  \/ Setup
  \/ OutTask
  \/ OutTaskHup
  \/ InputTask
  \/ Select
  \/ Drain
  \/ SendExit
  \/ Done

\* As in ExecSession: tasks that can run do, armed timers lapse, SIGKILL is
\* delivered, and openpty returns.  No step of the client or of the shell's
\* own will is assumed, nor the readiness edge behind OutTaskHup.
Fairness ==
  /\ WF_vars(Writer /\ UNCHANGED ptyVars)
  /\ WF_vars((Drive /\ UNCHANGED ptyVars) \/ Setup \/ Select \/ Drain \/ SendExit)
  /\ WF_vars(OutTask)
  /\ WF_vars(InputTask)
  /\ WF_vars(Shell /\ ShellDies)

Spec == Init /\ [][Next]_vars
FairSpec == Spec /\ Fairness

-----------------------------------------------------------------------------
(* Safety.                                                                 *)

\* Whatever fails on the way, every descriptor open_pty opened is closed
\* exactly once: none is left when the session is over, and none is closed
\* that is not open (a number another session may have been given since).
FdsClosedOnce ==
  /\ ~badClose
  /\ pc \in {"join", "done"} => fds = {} /\ am = {}

\* The agent lets go of no shell that is alive unless it has sent SIGKILL:
\* hangup escalates, and the two failures after the spawn kill the group.
ShellAccounted ==
  pc \in {"drain", "exit", "error", "join", "done"} => (Alive => signalled)

\* The shell never holds the master of its own terminal (set_cloexec "so the
\* child never gets it"), on whichever path it was spawned; the only child that
\* ever does is one that another session forks while openpty is on its thread.
MasterPrivate == inherited \subseteq {"other"}

\* The agent takes no live shell away from a client that is connected, keeps
\* to the protocol and was not cancelled: "Either the shell exits on its own,
\* or the host disconnects".  In particular a frame that means nothing here (a
\* STDIN_EOF, a second REQUEST), a full input queue, or a key that arrives when
\* the shell has just ended, hangs nothing up that lives.  The exception is a
\* shell that has at some time let go of its terminal: a key typed meanwhile may
\* fail with EIO, which ends input_task and so hangs up a shell that runs.
LiveShellKept ==
  hup /\ up = "open" /\ ~fired /\ "BAD" \notin ClientFrames /\ tty =>
    death # "agent"

-----------------------------------------------------------------------------
(* Liveness, under FairSpec.                                               *)

\* A session whose client is gone, that is cancelled, or whose shell has ended
\* comes to its end: even when the shell is wedged or ignores SIGHUP, a
\* background job keeps the terminal open, the master never reports EIO, or
\* the client does not read.
PtyEnds == (up # "open" \/ fired \/ child = "zombie") ~> (pc = "done")
=============================================================================
