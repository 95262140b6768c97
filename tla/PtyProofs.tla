------------------------------ MODULE PtyProofs ------------------------------
(* Invariants of the open-pty verb, for every bound of its queues, every   *)
(* amount of output and every behaviour of client, shell and other         *)
(* sessions.                                                               *)
EXTENDS PtySession, SessionProofs

-----------------------------------------------------------------------------
(* Types: what each operation leaves alone, and what it changes.           *)

LEMMA StdinBound == StdinCap \in Nat
BY PtyAssumption

LEMMA FdSame == FdTypeOK /\ UNCHANGED fdVars => FdTypeOK'
BY DEF FdTypeOK, fdVars

LEMMA ShellSame == ShellTypeOK /\ UNCHANGED <<shellVars, waitVars>> => ShellTypeOK'
BY DEF ShellTypeOK, shellVars, waitVars

LEMMA PtySame ==
  ASSUME TypeOK, UNCHANGED ptyVars
  PROVE  FdTypeOK' /\ ShellTypeOK' /\ UNCHANGED input
BY FdSame, ShellSame DEF TypeOK, ptyVars

LEMMA DropMasterType ==
  ASSUME FdTypeOK, NEW t \in {"session", "out"},
         DropMaster(t) \/ UNCHANGED <<am, fds>>, UNCHANGED <<badClose, cloexec, inherited>>
  PROVE  FdTypeOK'
BY DEF FdTypeOK, DropMaster

LEMMA TypeInit == Init => TypeOK
<1> SUFFICES ASSUME Init
             PROVE  TypeOK
  OBVIOUS
<1>1. SessionTypeOK /\ pc \in PtyPcs
  BY SessionTypeInit DEF Init, PtyPcs
<1>2. FdTypeOK /\ input = "none"
  BY DEF Init, FdTypeOK
<1>3. ShellTypeOK
  <2>1. fed = 0
    BY DEF Init
  <2>2. fed \in 0..StdinCap
    BY <2>1, StdinBound
  <2> QED
    BY <2>2 DEF Init, ShellTypeOK
<1> QED
  BY <1>1, <1>2, <1>3 DEF TypeOK

LEMMA ShellType ==
  ASSUME TypeOK, Shell
  PROVE  TypeOK'
<1>0. PumpTypeOK /\ ShellTypeOK /\ fed \in 0..StdinCap
  BY DEF TypeOK, SessionTypeOK, ShellTypeOK
<1>1. TransportTypeOK' /\ OutboundTypeOK' /\ FdTypeOK' /\ UNCHANGED <<fired, pc, input>>
  BY TransportSame, OutboundSame, FdSame DEF Shell, TypeOK, SessionTypeOK
<1>2. PumpTypeOK'
  BY <1>0 DEF Shell, ShellWrites, ShellActs, ShellWedges, ShellDies, JobEnds, PumpTypeOK, Streams
<1>3. ShellTypeOK'
  <2>1. fed' \in 0..StdinCap
    <3>1. fed' = fed \/ (fed > 0 /\ fed' = fed - 1)
      BY DEF Shell, ShellWrites, ShellActs, ShellWedges, ShellDies, JobEnds, shellVars
    <3> QED
      BY <1>0, <3>1, StdinBound
  <2>2. UNCHANGED <<hup, signalled>>
    BY DEF Shell, waitVars
  <2>3. /\ child' \in {child, "running", "wedged", "zombie"} /\ death' \in {death, "own", "agent"}
        /\ tty' \in {tty, FALSE} /\ jobs' \in {jobs, TRUE, FALSE}
    BY DEF Shell, ShellWrites, ShellActs, ShellWedges, ShellDies, JobEnds, shellVars
  <2> QED
    BY <1>0, <2>1, <2>2, <2>3 DEF ShellTypeOK
<1> QED
  BY <1>1, <1>2, <1>3 DEF TypeOK, SessionTypeOK

LEMMA SetupType ==
  ASSUME TypeOK, Setup
  PROVE  TypeOK'
<1>0. TransportTypeOK /\ OutboundTypeOK /\ PumpTypeOK /\ FdTypeOK /\ ShellTypeOK
  BY DEF TypeOK, SessionTypeOK
<1>1. UNCHANGED <<up, link, outboundVars, fired, produced, taken>>
  BY DEF Setup
<1>2. TransportTypeOK'
  <2>1. ReadFrame("REQUEST") \/ inbox' = inbox
    BY DEF Setup, Request, OpenPty, OtherSpawn, SetCloexec, DupSlave, DupFailed,
           SpawnShell, RegisterMaster, FailReap
  <2> QED
    BY <1>0, <1>1, <2>1, ReadFrameType, TransportSame DEF transportVars
<1>3. OutboundTypeOK' /\ fired' \in BOOLEAN
  BY <1>0, <1>1, OutboundSame DEF TypeOK, SessionTypeOK
<1>4. PumpTypeOK'
  <2>1. pump' = pump \/ pump' = [pump EXCEPT !["STDOUT"] = "read"]
    BY DEF Setup, Request, OpenPty, OtherSpawn, SetCloexec, DupSlave, DupFailed,
           SpawnShell, RegisterMaster, FailReap
  <2> QED
    BY <1>0, <1>1, <2>1 DEF PumpTypeOK, Streams
<1>5. pc' \in PtyPcs /\ input' \in {input, "read"}
  BY DEF Setup, Request, OpenPty, OtherSpawn, SetCloexec, DupSlave, DupFailed, SpawnShell,
         RegisterMaster, FailReap, PtyPcs, ptyVars
<1>6. FdTypeOK'
  <2>1. CASE Request \/ OpenPty \/ OtherSpawn
    BY <1>0, <2>1 DEF Request, OpenPty, OtherSpawn, ptyVars, fdVars, FdTypeOK
  <2>2. CASE SetCloexec \/ DupSlave \/ DupFailed
    BY <1>0, <2>2 DEF SetCloexec, set_cloexec, DupSlave, DupFailed, Close, FdTypeOK
  <2>3. CASE SpawnShell
    BY <1>0, <2>3 DEF SpawnShell, Close, FdTypeOK
  <2>4. CASE RegisterMaster \/ FailReap
    BY <1>0, <2>4 DEF RegisterMaster, FailReap, Close, FdTypeOK
  <2> QED
    BY <2>1, <2>2, <2>3, <2>4 DEF Setup
<1>7. ShellTypeOK'
  <2>1. /\ UNCHANGED <<fed, death, tty, jobs, hup>>
        /\ child' \in {child, "running", "reaped"} /\ signalled' \in {signalled, TRUE}
    BY DEF Setup, Request, OpenPty, OtherSpawn, SetCloexec, DupSlave, DupFailed, SpawnShell,
           RegisterMaster, FailReap, reap_bounded, Waited, ptyVars, shellVars, waitVars
  <2> QED
    BY <1>0, <2>1 DEF ShellTypeOK
<1> QED
  BY <1>2, <1>3, <1>4, <1>5, <1>6, <1>7 DEF TypeOK, SessionTypeOK

LEMMA OutTaskType ==
  ASSUME TypeOK, OutTask \/ OutTaskHup
  PROVE  TypeOK'
<1>0. TransportTypeOK /\ OutboundTypeOK /\ PumpTypeOK /\ FdTypeOK /\ ShellTypeOK
  BY DEF TypeOK, SessionTypeOK
<1>1. UNCHANGED <<transportVars, writer, hand, wire, fired, pc, produced, badClose, cloexec,
                  inherited, input, shellVars, waitVars>>
  BY DEF OutTask, OutTaskHup, outTaskUnchanged
<1>2. TransportTypeOK' /\ ShellTypeOK' /\ fired' \in BOOLEAN
  BY <1>0, <1>1, TransportSame, ShellSame DEF TypeOK, SessionTypeOK
<1>3. OutboundTypeOK'
  <2>1. CASE OutSend
    <3>1. [type |-> "STDOUT", n |-> taken["STDOUT"]] \in OutFrames
      BY <1>0, FrameType DEF PumpTypeOK, Streams
    <3> QED
      BY <1>0, <1>1, <2>1, <3>1, SendType DEF OutSend
  <2>2. CASE UNCHANGED chan
    BY <1>0, <1>1, <2>2, OutboundSame DEF outboundVars
  <2> QED
    BY <2>1, <2>2 DEF OutTask, OutTaskHup, OutRead, OutHup
<1>4. PumpTypeOK'
  BY <1>0, <1>1 DEF OutTask, OutTaskHup, OutRead, OutSend, OutHup, PumpTypeOK, Streams
<1>5. FdTypeOK'
  <2>1. DropMaster("out") \/ UNCHANGED <<am, fds>>
    BY DEF OutTask, OutTaskHup, OutRead, OutSend, OutHup
  <2> QED
    BY <1>0, <1>1, <2>1, DropMasterType
<1> QED
  BY <1>1, <1>2, <1>3, <1>4, <1>5 DEF TypeOK, SessionTypeOK

LEMMA InputTaskType ==
  ASSUME TypeOK, InputTask
  PROVE  TypeOK'
<1>1. UNCHANGED <<up, link, outboundVars, pumpVars, pc, fdVars, child, death, tty, jobs, waitVars>>
  BY DEF InputTask
<1>2. OutboundTypeOK' /\ PumpTypeOK' /\ FdTypeOK' /\ pc' \in PtyPcs
  BY <1>1, OutboundSame, PumpSame, FdSame DEF TypeOK, SessionTypeOK
<1>3. TransportTypeOK'
  <2>1. TransportTypeOK
    BY DEF TypeOK, SessionTypeOK
  <2>2. (\E r : ReadFrame(r)) \/ inbox' = inbox
    BY DEF InputTask, InputRead, InputWrite
  <2>3. CASE \E r : ReadFrame(r)
    BY <1>1, <2>1, <2>3, ReadFrameType
  <2>4. CASE inbox' = inbox
    BY <1>1, <2>1, <2>4, TransportSame DEF transportVars
  <2> QED
    BY <2>2, <2>3, <2>4
<1>4. ShellTypeOK'
  <2>1. fed \in 0..StdinCap /\ (fed' = fed \/ (fed < StdinCap /\ fed' = fed + 1))
    BY DEF InputTask, InputRead, InputWrite, write_all_fd, TypeOK, ShellTypeOK
  <2>2. fed' \in 0..StdinCap
    BY <2>1, StdinBound
  <2> QED
    BY <1>1, <2>2 DEF TypeOK, ShellTypeOK, waitVars
<1>5. input' \in {"none", "read", "write", "done"} /\ fired' \in BOOLEAN
  <2>1. CASE InputRead
    BY <2>1 DEF InputRead
  <2>2. CASE InputWrite
    BY <2>2 DEF InputWrite, write_all_fd, TypeOK, SessionTypeOK
  <2> QED
    BY <2>1, <2>2 DEF InputTask
<1> QED
  BY <1>2, <1>3, <1>4, <1>5 DEF TypeOK, SessionTypeOK

LEMMA SelectType ==
  ASSUME TypeOK, Select
  PROVE  TypeOK'
<1>1. UNCHANGED <<transportVars, outboundVars, pumpVars, fired, fdVars, input, fed, death, tty, jobs>>
  BY DEF Select
<1>2. /\ TransportTypeOK' /\ OutboundTypeOK' /\ PumpTypeOK' /\ FdTypeOK' /\ fired' \in BOOLEAN
      /\ input' \in {"none", "read", "write", "done"}
  BY <1>1, TransportSame, OutboundSame, PumpSame, FdSame DEF TypeOK, SessionTypeOK
<1>3. pc' \in PtyPcs
  BY DEF Select, InputArm, CancelArm, HangUp, WaitArm, Escalate, Reap, PtyPcs
<1>4. /\ child' \in {child, "reaped"} /\ hup' \in {hup, TRUE} /\ signalled' \in {signalled, TRUE}
  BY DEF Select, InputArm, CancelArm, HangUp, WaitArm, Escalate, Reap, reap_bounded, Waited,
         waitVars
<1>5. ShellTypeOK'
  BY <1>1, <1>4 DEF TypeOK, ShellTypeOK
<1> QED
  BY <1>2, <1>3, <1>5 DEF TypeOK, SessionTypeOK

LEMMA EndType ==
  ASSUME TypeOK, Drain \/ SendExit
  PROVE  TypeOK'
<1>0. TransportTypeOK /\ OutboundTypeOK /\ PumpTypeOK /\ FdTypeOK /\ ShellTypeOK
  BY DEF TypeOK, SessionTypeOK
<1>1. /\ UNCHANGED <<transportVars, writer, hand, wire, fired, produced, taken, badClose, cloexec,
                     inherited, input, shellVars, waitVars>>
      /\ pc' \in {"exit", "join"}
  BY DEF Drain, SendExit, outboundVars, pumpVars
<1>2. TransportTypeOK' /\ ShellTypeOK' /\ fired' \in BOOLEAN /\ pc' \in PtyPcs
  BY <1>0, <1>1, TransportSame, ShellSame DEF TypeOK, SessionTypeOK, PtyPcs
<1>3. OutboundTypeOK'
  <2>1. CASE SendExit
    BY <1>0, <1>1, <2>1, FrameType, SendType DEF SendExit
  <2>2. CASE Drain
    BY <1>0, <2>2, OutboundSame DEF Drain
  <2> QED
    BY <2>1, <2>2
<1>4. PumpTypeOK'
  BY <1>0, <1>1 DEF Drain, SendExit, PumpTypeOK, pumpVars, Streams
<1>5. FdTypeOK'
  <2>1. DropMaster("out") \/ DropMaster("session") \/ UNCHANGED <<am, fds>>
    BY DEF Drain, SendExit
  <2> QED
    BY <1>0, <1>1, <2>1, DropMasterType
<1> QED
  BY <1>1, <1>2, <1>3, <1>4, <1>5 DEF TypeOK, SessionTypeOK

LEMMA TypeStep ==
  ASSUME TypeOK, [Next]_vars
  PROVE  TypeOK'
<1>1. CASE (Client \/ Writer \/ Drive) /\ UNCHANGED ptyVars
  <2>1. SessionTypeOK' /\ pc' \in {pc, "error", "join", "done"}
    BY <1>1, ClientType, WriterType, DriveType DEF TypeOK
  <2> QED
    BY <1>1, <2>1, PtySame DEF TypeOK, PtyPcs
<1>2. CASE UNCHANGED vars
  <2>1. UNCHANGED <<transportVars, outboundVars, pumpVars, fired, pc, ptyVars>>
    BY <1>2 DEF vars, sessionVars
  <2> QED
    BY <2>1, TransportSame, OutboundSame, PumpSame, PtySame DEF TypeOK, SessionTypeOK
<1> QED
  BY <1>1, <1>2, ShellType, SetupType, OutTaskType, InputTaskType, SelectType, EndType
     DEF Next, Done

-----------------------------------------------------------------------------
(* The inductive invariant.                                                *)

BeforeSpawn == {"request", "openpty", "opened", "cloexec", "dupped"}
Running     == {"run", "hangup", "reap", "drain"}
Ending      == {"error", "join", "done"}

OutRuns == pump["STDOUT"] \in {"read", "send"}

\* Which descriptors are open, and who holds the master, at each point of
\* open_pty: the tasks share it only between RegisterMaster and SendExit.
FdInv ==
  /\ ~badClose
  /\ pc \in {"request", "openpty", "failReap"} \cup Ending => fds = {} /\ am = {}
  /\ pc \in {"opened", "cloexec"} => fds = {"master", "slave"} /\ am = {}
  /\ pc = "dupped" => {"master", "slave"} \subseteq fds /\ am = {}
  /\ pc \in {"spawned", "failClose"} => fds = {"master"} /\ am = {}
  /\ pc \in Running => /\ fds = {"master"}
                       /\ am = IF OutRuns THEN {"session", "out"} ELSE {"session"}
  /\ pc = "exit" => fds = {"master"} /\ am = {"session"}

\* The output task lives from RegisterMaster to Drain.
OutInv ==
  /\ pump["STDERR"] = "none"
  /\ pc \in BeforeSpawn \cup {"spawned", "failReap", "failClose", "error"} =>
       pump["STDOUT"] = "none"
  /\ pc \in Running => pump["STDOUT"] \in {"read", "send", "finished"}
  /\ pc \in {"exit", "join", "done"} => ~OutRuns

\* By the time the shell is forked the master is close-on-exec.
CloexecInv ==
  /\ pc \in {"cloexec", "dupped"} => cloexec
  /\ inherited \subseteq {"other"}

\* A shell that the session is done with is dead, or SIGKILL has been sent; and
\* no signal has been sent before the select is left.
KillInv ==
  /\ pc \in BeforeSpawn => child = "none"
  /\ pc \in {"spawned", "run"} => child # "none"
  /\ pc \in {"failReap", "failClose", "reap"} => signalled
  /\ pc \in {"drain", "exit"} \cup Ending => (Alive => signalled)
  /\ pc \in BeforeSpawn \cup {"spawned", "run"} => ~signalled
  /\ pc \in BeforeSpawn \cup {"spawned", "failReap", "failClose", "run"} => ~hup
  /\ death = "agent" => hup \/ signalled

\* What excuses a hangup: cancel, a client that is gone or breaks the protocol,
\* a shell that let go of its terminal, or one that had already ended by itself.
Excused ==
  \/ fired \/ up # "open" \/ "BAD" \in ClientFrames \/ ~tty
  \/ child \in {"zombie", "reaped"} /\ death # "agent"

HupInv ==
  /\ inbox \in Seq(ClientFrames)
  /\ pc \in BeforeSpawn \cup {"spawned", "failReap", "failClose"} => input = "none"
  /\ hup \/ input = "done" => Excused

PtyInv == TypeOK /\ WayInv /\ FdInv /\ OutInv /\ CloexecInv /\ KillInv /\ HupInv

LEMMA InvInit == Init => PtyInv
<1> SUFFICES ASSUME Init
             PROVE  PtyInv
  OBVIOUS
<1>1. TypeOK /\ WayInv
  BY TypeInit, WayInit DEF Init
<1>2. FdInv /\ OutInv /\ CloexecInv /\ KillInv
  BY DEF Init, SessionInit, FdInv, OutInv, CloexecInv, KillInv, BeforeSpawn, Running, Ending,
         OutRuns, Alive, Streams
<1>3. HupInv
  <2>1. inbox \in Seq(ClientFrames)
    BY EmptyIsSeq DEF Init, SessionInit
  <2> QED
    BY <2>1 DEF Init, HupInv
<1> QED
  BY <1>1, <1>2, <1>3 DEF PtyInv

(* FdInv and OutInv are preserved: each step of the session task moves the *)
(* descriptors from one phase to the next, and only the output task, while *)
(* it runs, drops a reference beside it.                                   *)

LEMMA FdSameStep ==
  ASSUME FdInv, OutInv, UNCHANGED <<pc, pump, fds, am, badClose>>
  PROVE  FdInv' /\ OutInv'
BY DEF FdInv, OutInv, OutRuns

\* A session that has ended before its verb began, or that is over.
LEMMA FdDrive ==
  ASSUME FdInv, OutInv, Drive, UNCHANGED ptyVars
  PROVE  FdInv' /\ OutInv'
<1>1. UNCHANGED <<fds, am, badClose, pump>>
  BY DEF Drive, ptyVars, fdVars, pumpVars
<1>2. pc \in {"request", "error", "join"} /\ pc' \in Ending
  BY DEF Drive, NoRequest, BadRequest, SendError, JoinWriter, Ending
<1>3. fds = {} /\ am = {} /\ ~badClose /\ pump["STDERR"] = "none" /\ ~OutRuns
      /\ (pc' = "error" => pump["STDOUT"] = "none")
  BY <1>2 DEF FdInv, OutInv, Ending, OutRuns, BeforeSpawn, Drive, NoRequest, BadRequest,
              SendError, JoinWriter
<1>4. pc' \notin BeforeSpawn \cup Running
      /\ pc' \notin {"request", "openpty", "opened", "cloexec", "dupped", "spawned", "failReap",
                      "failClose", "exit"}
  BY <1>2 DEF Ending, BeforeSpawn, Running
<1> QED
  BY <1>1, <1>2, <1>3, <1>4 DEF FdInv, OutInv, OutRuns

LEMMA FdSetup ==
  ASSUME TypeOK, FdInv, OutInv, Setup
  PROVE  FdInv' /\ OutInv'
<1> USE DEF FdInv, OutInv, OutRuns, BeforeSpawn, Running, Ending
<1>0. pump \in [Streams -> {"none", "read", "send", "finished", "aborted"}]
  BY DEF TypeOK, SessionTypeOK, PumpTypeOK
<1>1. CASE Request
  BY <1>1 DEF Request, ptyVars, fdVars
<1>2. CASE OpenPty
  BY <1>2 DEF OpenPty
<1>3. CASE OtherSpawn
  BY <1>3 DEF OtherSpawn
<1>4. CASE SetCloexec
  <2>1. pc = "opened" /\ fds = {"master", "slave"} /\ am' = {} /\ UNCHANGED pump
    BY <1>4 DEF SetCloexec
  <2>2. CASE pc' = "error" /\ Close({"master", "slave"})
    <3>1. fds' = {} /\ ~badClose'
      BY <2>1, <2>2 DEF Close
    <3> QED
      BY <2>1, <2>2, <3>1
  <2>3. CASE pc' = "cloexec" /\ UNCHANGED <<fds, badClose>>
    BY <2>1, <2>3
  <2> QED
    BY <1>4, <2>2, <2>3 DEF SetCloexec
<1>5. CASE DupSlave
  <2>1. /\ pc = "cloexec" /\ pc' = "dupped" /\ fds \subseteq fds'
        /\ UNCHANGED <<am, badClose, pump>>
    BY <1>5 DEF DupSlave
  <2> QED
    BY <2>1
<1>6. CASE DupFailed \/ SpawnShell
  <2>0. fds \subseteq {"master", "slave"} \cup Dups /\ {"master", "slave"} \subseteq fds
        /\ pc = "dupped" /\ am' = {} /\ UNCHANGED pump
    BY <1>6 DEF TypeOK, FdTypeOK, DupFailed, SpawnShell
  <2>1. CASE DupFailed
    <3>1. Close((Dups \cap fds) \cup {"master", "slave"}) /\ pc' = "error"
      BY <2>1 DEF DupFailed
    <3>2. fds' = {} /\ ~badClose'
      BY <2>0, <3>1 DEF Close
    <3> QED
      BY <2>0, <3>1, <3>2
  <2>2. CASE SpawnShell /\ pc' = "error"
    <3>1. Close({"master", "slave"} \cup Dups) /\ Dups \subseteq fds
      BY <2>2 DEF SpawnShell
    <3>2. fds' = {} /\ ~badClose'
      BY <2>0, <3>1 DEF Close
    <3> QED
      BY <2>0, <2>2, <3>2
  <2>3. CASE SpawnShell /\ pc' = "spawned"
    <3>1. Close({"slave"} \cup Dups) /\ Dups \subseteq fds
      BY <2>3 DEF SpawnShell
    <3>2. fds' = {"master"} /\ ~badClose'
      BY <2>0, <3>1 DEF Close, Dups
    <3> QED
      BY <2>0, <2>3, <3>2
  <2> QED
    BY <1>6, <2>1, <2>2, <2>3 DEF SpawnShell
<1>7. CASE RegisterMaster
  <2>1. pc = "spawned" /\ fds = {"master"} /\ am = {} /\ ~badClose
    BY <1>7 DEF RegisterMaster
  <2>2. CASE pc' = "run"
    <3>1. /\ am' = {"session", "out"} /\ UNCHANGED <<fds, badClose>>
          /\ pump' = [pump EXCEPT !["STDOUT"] = "read"]
      BY <1>7, <2>2 DEF RegisterMaster
    <3>2. pump'["STDOUT"] = "read" /\ pump'["STDERR"] = pump["STDERR"]
      BY <1>0, <3>1 DEF Streams
    <3> QED
      BY <2>1, <2>2, <3>1, <3>2
  <2>3. CASE pc' = "failClose"
    BY <1>7, <2>1, <2>3 DEF RegisterMaster
  <2>4. CASE pc' = "failReap"
    <3>1. Close({"master"}) /\ UNCHANGED <<am, pump>>
      BY <1>7, <2>4 DEF RegisterMaster
    <3>2. fds' = {} /\ ~badClose'
      BY <2>1, <3>1 DEF Close
    <3> QED
      BY <2>1, <2>4, <3>1, <3>2
  <2> QED
    BY <1>7, <2>2, <2>3, <2>4 DEF RegisterMaster
<1>8. CASE FailReap
  <2>1. UNCHANGED <<am, pump>> /\ pc' = "error" /\ pc \in {"failClose", "failReap"}
    BY <1>8 DEF FailReap
  <2>2. fds' = {} /\ ~badClose'
    <3>1. CASE pc = "failClose"
      <4>1. fds = {"master"} /\ ~badClose /\ Close({"master"})
        BY <1>8, <3>1 DEF FailReap
      <4> QED
        BY <4>1 DEF Close
    <3>2. CASE pc = "failReap"
      BY <1>8, <3>2 DEF FailReap
    <3> QED
      BY <2>1, <3>1, <3>2
  <2> QED
    BY <2>1, <2>2
<1> QED
  BY <1>1, <1>2, <1>3, <1>4, <1>5, <1>6, <1>7, <1>8 DEF Setup

\* The session's own clone keeps the master open when the output task ends.
LEMMA FdOutTask ==
  ASSUME TypeOK, FdInv, OutInv, OutTask \/ OutTaskHup
  PROVE  FdInv' /\ OutInv'
<1>0. pump \in [Streams -> {"none", "read", "send", "finished", "aborted"}] /\ pc \in PtyPcs
  BY DEF TypeOK, SessionTypeOK, PumpTypeOK
<1>1. UNCHANGED <<pc, badClose>> /\ OutRuns
  BY DEF OutTask, OutTaskHup, OutRead, OutSend, OutHup, outTaskUnchanged, OutRuns
<1>2. pc \in Running
  BY <1>0, <1>1 DEF OutInv, OutRuns, BeforeSpawn, Running, PtyPcs
<1>3. fds = {"master"} /\ am = {"session", "out"} /\ ~badClose /\ pump["STDERR"] = "none"
  BY <1>1, <1>2 DEF FdInv, OutInv
<1>4. \/ pump'["STDOUT"] \in {"read", "send"} /\ UNCHANGED <<fds, am>>
      \/ pump'["STDOUT"] = "finished" /\ DropMaster("out")
  BY <1>0 DEF OutTask, OutTaskHup, OutRead, OutSend, OutHup, Streams
<1>5. pump'["STDERR"] = "none"
  BY <1>0, <1>3 DEF OutTask, OutTaskHup, OutRead, OutSend, OutHup, Streams
<1>6. fds' = {"master"} /\ am' = IF OutRuns' THEN {"session", "out"} ELSE {"session"}
  BY <1>3, <1>4 DEF DropMaster, OutRuns
<1>7. pc' \in Running /\ pc' \notin BeforeSpawn \cup Ending
      /\ pc' \notin {"request", "openpty", "opened", "cloexec", "dupped", "spawned", "failReap",
                      "failClose", "exit", "error", "join", "done"}
  BY <1>1, <1>2 DEF Running, BeforeSpawn, Ending
<1> QED
  BY <1>1, <1>3, <1>4, <1>5, <1>6, <1>7 DEF FdInv, OutInv

LEMMA FdEnd ==
  ASSUME TypeOK, FdInv, OutInv, Select \/ Drain \/ SendExit
  PROVE  FdInv' /\ OutInv'
<1> USE DEF FdInv, OutInv, BeforeSpawn, Running, Ending
<1>0. pump \in [Streams -> {"none", "read", "send", "finished", "aborted"}]
  BY DEF TypeOK, SessionTypeOK, PumpTypeOK
<1>1. CASE Select
  <2>1. UNCHANGED <<fds, am, badClose, pump>> /\ (OutRuns' <=> OutRuns)
    BY <1>1 DEF Select, fdVars, pumpVars, OutRuns
  <2>2. pc \in {"run", "hangup", "reap"} /\ pc' \in {"hangup", "reap", "drain"}
    BY <1>1 DEF Select, InputArm, CancelArm, HangUp, WaitArm, Escalate, Reap
  <2> QED
    BY <2>1, <2>2
<1>2. CASE Drain
  <2>1. pc = "drain" /\ pc' = "exit" /\ UNCHANGED badClose
    BY <1>2 DEF Drain
  <2>2. fds = {"master"} /\ am = IF OutRuns THEN {"session", "out"} ELSE {"session"}
    BY <2>1
  <2>3. CASE pump["STDOUT"] = "finished" /\ UNCHANGED <<pump, am, fds>>
    BY <2>1, <2>2, <2>3 DEF OutRuns
  <2>4. CASE /\ pump["STDOUT"] # "finished" /\ DropMaster("out")
             /\ pump' = [pump EXCEPT !["STDOUT"] = "aborted"]
    <3>1. am = {"session", "out"}
      BY <2>1, <2>2, <2>4 DEF OutRuns
    <3>2. am' = {"session"} /\ fds' = {"master"}
      BY <2>2, <2>4, <3>1 DEF DropMaster
    <3>3. pump'["STDOUT"] = "aborted" /\ pump'["STDERR"] = pump["STDERR"]
      BY <1>0, <2>4 DEF Streams
    <3> QED
      BY <2>1, <3>2, <3>3 DEF OutRuns
  <2> QED
    BY <1>2, <2>3, <2>4 DEF Drain
<1>3. CASE SendExit
  <2>1. pc = "exit" /\ pc' = "join" /\ DropMaster("session") /\ UNCHANGED <<badClose, pump>>
    BY <1>3 DEF SendExit, pumpVars
  <2>2. am' = {} /\ fds' = {}
    BY <2>1 DEF DropMaster
  <2> QED
    BY <2>1, <2>2 DEF OutRuns
<1> QED
  BY <1>1, <1>2, <1>3

LEMMA FdStep ==
  ASSUME PtyInv, [Next]_vars
  PROVE  FdInv' /\ OutInv'
<1>0. TypeOK /\ FdInv /\ OutInv
  BY DEF PtyInv
<1>1. CASE (Client \/ Writer) /\ UNCHANGED ptyVars
  BY <1>0, <1>1, FdSameStep DEF Client, Writer, ptyVars, fdVars, pumpVars
<1>2. CASE Shell \/ InputTask
  BY <1>0, <1>2, FdSameStep DEF Shell, InputTask, fdVars, pumpVars
<1>3. CASE UNCHANGED vars
  BY <1>0, <1>3, FdSameStep DEF vars, sessionVars, ptyVars, fdVars, pumpVars
<1> QED
  BY <1>0, <1>1, <1>2, <1>3, FdDrive, FdSetup, FdOutTask, FdEnd DEF Next, Done

(* CloexecInv and KillInv are preserved. *)

LEMMA CloexecStep ==
  ASSUME PtyInv, [Next]_vars
  PROVE  CloexecInv'
<1>0. CloexecInv
  BY DEF PtyInv
<1>1. CASE Setup
  BY <1>0, <1>1 DEF CloexecInv, Setup, Request, OpenPty, OtherSpawn, SetCloexec, set_cloexec,
       DupSlave, DupFailed, SpawnShell, RegisterMaster, FailReap, ptyVars, fdVars
<1>2. CASE UNCHANGED <<cloexec, inherited>> /\ pc' \in {pc, "hangup", "reap", "drain", "exit"} \cup Ending
  BY <1>0, <1>2 DEF CloexecInv, Ending
<1>3. CASE (Client \/ Writer \/ Drive) /\ UNCHANGED ptyVars
  BY <1>2, <1>3 DEF Client, Writer, Drive, NoRequest, BadRequest, SendError, JoinWriter, ptyVars,
       fdVars, Ending
<1>4. CASE Shell \/ InputTask \/ OutTask \/ OutTaskHup \/ UNCHANGED vars
  BY <1>2, <1>4 DEF Shell, InputTask, OutTask, OutTaskHup, outTaskUnchanged, vars, sessionVars,
       ptyVars, fdVars
<1>5. CASE Select \/ Drain \/ SendExit
  BY <1>2, <1>5 DEF Select, InputArm, CancelArm, HangUp, WaitArm, Escalate, Reap, Drain,
       SendExit, fdVars, Ending
<1> QED
  BY <1>1, <1>3, <1>4, <1>5 DEF Next, Done

LEMMA KillSame ==
  ASSUME KillInv, UNCHANGED <<pc, child, death, hup, signalled>>
  PROVE  KillInv'
BY DEF KillInv, Alive

LEMMA KillStep ==
  ASSUME PtyInv, [Next]_vars
  PROVE  KillInv'
<1> USE DEF BeforeSpawn, Ending
<1>0. KillInv
  BY DEF PtyInv
<1>1. CASE (Client \/ Writer) /\ UNCHANGED ptyVars
  BY <1>0, <1>1, KillSame DEF Client, Writer, ptyVars, shellVars, waitVars
<1>2. CASE Shell
  <2>1. UNCHANGED <<pc, hup, signalled>>
    BY <1>2 DEF Shell, waitVars
  <2>2. /\ Alive' => Alive
        /\ child = "none" <=> child' = "none"
        /\ death' = "agent" => death = "agent" \/ hup \/ signalled
    BY <1>2 DEF Shell, ShellWrites, ShellActs, ShellWedges, ShellDies, JobEnds, shellVars, Alive
  <2> QED
    BY <1>0, <2>1, <2>2 DEF KillInv
<1>3. CASE Drive /\ UNCHANGED ptyVars
  <2>1. UNCHANGED <<child, death, hup, signalled>> /\ (Alive' <=> Alive)
    BY <1>3 DEF ptyVars, shellVars, waitVars, Alive
  <2>2. pc \in {"request", "error", "join"} /\ pc' \in Ending
    BY <1>3 DEF Drive, NoRequest, BadRequest, SendError, JoinWriter
  <2>3. Alive => signalled
    BY <1>0, <2>2 DEF KillInv, Alive
  <2> QED
    BY <1>0, <2>1, <2>2, <2>3 DEF KillInv
<1>4. CASE Setup
  <2>1. CASE Request \/ OpenPty \/ OtherSpawn \/ SetCloexec \/ DupSlave \/ DupFailed
    <3>1. /\ UNCHANGED <<child, death, hup, signalled>> /\ pc \in BeforeSpawn
          /\ pc' \in BeforeSpawn \cup {"error"}
      BY <2>1 DEF Request, OpenPty, OtherSpawn, SetCloexec, DupSlave, DupFailed, ptyVars, shellVars,
           waitVars
    <3> QED
      BY <1>0, <3>1 DEF KillInv, Alive
  <2>2. CASE SpawnShell
    <3>1. /\ UNCHANGED <<death, hup, signalled>> /\ pc = "dupped"
          /\ \/ pc' = "error" /\ child' = child
             \/ pc' = "spawned" /\ child' = "running"
      BY <2>2 DEF SpawnShell, waitVars
    <3> QED
      BY <1>0, <3>1 DEF KillInv, Alive
  <2>3. CASE RegisterMaster
    <3>1. /\ UNCHANGED <<child, death, hup>> /\ pc = "spawned"
          /\ \/ pc' \in {"failClose", "failReap"} /\ signalled' = TRUE
             \/ pc' = "run" /\ signalled' = signalled
      BY <2>3 DEF RegisterMaster, shellVars
    <3> QED
      BY <1>0, <3>1 DEF KillInv
  <2>4. CASE FailReap
    <3>1. /\ UNCHANGED <<death, hup, signalled>> /\ pc \in {"failClose", "failReap"}
          /\ pc' = "error"
      BY <2>4 DEF FailReap, waitVars
    <3> QED
      BY <1>0, <3>1 DEF KillInv
  <2> QED
    BY <1>4, <2>1, <2>2, <2>3, <2>4 DEF Setup
<1>5. CASE OutTask \/ OutTaskHup
  BY <1>0, <1>5, KillSame DEF OutTask, OutTaskHup, outTaskUnchanged, shellVars, waitVars
<1>6. CASE InputTask
  BY <1>0, <1>6, KillSame DEF InputTask, waitVars
<1>7. CASE Select
  <2>0. UNCHANGED death
    BY <1>7 DEF Select
  <2>1. CASE InputArm \/ CancelArm
    <3>1. pc = "run" /\ pc' = "hangup" /\ hup' = TRUE /\ UNCHANGED <<child, signalled>>
      BY <2>1 DEF InputArm, CancelArm, HangUp
    <3> QED
      BY <1>0, <2>0, <3>1 DEF KillInv
  <2>2. CASE WaitArm
    <3>1. pc' = "drain" /\ child' = "reaped" /\ UNCHANGED <<hup, signalled>>
      BY <2>2 DEF WaitArm, Waited, waitVars
    <3> QED
      BY <1>0, <2>0, <3>1 DEF KillInv, Alive
  <2>3. CASE Escalate
    <3>1. pc = "hangup" /\ pc' = "reap" /\ signalled' = TRUE /\ UNCHANGED <<child, hup>>
      BY <2>3 DEF Escalate
    <3> QED
      BY <1>0, <2>0, <3>1 DEF KillInv
  <2>4. CASE Reap
    <3>1. pc = "reap" /\ pc' = "drain" /\ UNCHANGED <<hup, signalled>>
      BY <2>4 DEF Reap, waitVars
    <3> QED
      BY <1>0, <2>0, <3>1 DEF KillInv
  <2> QED
    BY <1>7, <2>1, <2>2, <2>3, <2>4 DEF Select
<1>8. CASE Drain \/ SendExit
  <2>1. /\ UNCHANGED <<child, death, hup, signalled>> /\ pc \in {"drain", "exit"}
        /\ pc' \in {"exit", "join"}
    BY <1>8 DEF Drain, SendExit, shellVars, waitVars
  <2> QED
    BY <1>0, <2>1 DEF KillInv, Alive
<1>9. CASE UNCHANGED vars
  BY <1>0, <1>9, KillSame DEF vars, sessionVars, ptyVars, shellVars, waitVars
<1> QED
  BY <1>1, <1>2, <1>3, <1>4, <1>5, <1>6, <1>7, <1>8, <1>9 DEF Next, Done

(* HupInv is preserved. *)

\* An excuse, once there, stays: cancel is never reset, a client that is gone
\* does not come back, and nothing happens to a shell that has ended.
LEMMA ExcusedStays ==
  ASSUME Excused, fired => fired', up # "open" => up' # "open", tty' => tty,
         child \in {"zombie", "reaped"} => child' \in {"zombie", "reaped"} /\ death' = death
  PROVE  Excused'
BY DEF Excused

LEMMA InboxStep ==
  ASSUME inbox \in Seq(ClientFrames), [Next]_vars
  PROVE  inbox' \in Seq(ClientFrames)
<1>1. ASSUME NEW r, ReadFrame(r)
      PROVE  inbox' \in Seq(ClientFrames)
  BY <1>1 DEF ReadFrame
<1>2. CASE Client
  <2>1. inbox' = <<>> => inbox' \in Seq(ClientFrames)
    BY EmptyIsSeq
  <2> QED
    BY <1>2, <2>1 DEF Client, ClientSend, ClientHalfClose, ClientDrop, ClientVanish, ClientPace
<1>3. CASE Drive
  BY <1>1, <1>3 DEF Drive, NoRequest, BadRequest, SendError, JoinWriter
<1>4. CASE Setup
  BY <1>1, <1>4 DEF Setup, Request, OpenPty, OtherSpawn, SetCloexec, DupSlave, DupFailed,
       SpawnShell, RegisterMaster, FailReap
<1>5. CASE InputTask
  BY <1>1, <1>5 DEF InputTask, InputRead, InputWrite
<1>6. CASE Shell \/ Writer \/ OutTask \/ OutTaskHup \/ Select \/ Drain \/ SendExit \/ UNCHANGED vars
  BY <1>6 DEF Shell, Writer, OutTask, OutTaskHup, outTaskUnchanged, Select, Drain, SendExit, vars,
       sessionVars, transportVars
<1> QED
  BY <1>2, <1>3, <1>4, <1>5, <1>6 DEF Next, Done

\* An input task that ends has a reason: a read that fails for a protocol error,
\* a transport that is gone or a lapsed timer, or a terminal nobody holds,
\* since the shell has ended or has let go of it.
LEMMA InputEnds ==
  ASSUME PtyInv, InputTask, input' = "done"
  PROVE  Excused'
<1>0. /\ HupInv /\ KillInv /\ pc = "run" /\ inbox \in Seq(ClientFrames)
      /\ up \in {"open", "eof", "error", "silent"} /\ fired \in BOOLEAN
      /\ child \in {"none", "running", "wedged", "zombie", "reaped"}
      /\ UNCHANGED <<up, child, death, tty>>
  BY DEF PtyInv, HupInv, InputTask, TypeOK, SessionTypeOK, TransportTypeOK, ShellTypeOK
<1>1. death # "agent"
  BY <1>0 DEF KillInv, BeforeSpawn
<1>2. CASE InputRead
  <2>1. PICK r \in InFrames \cup {"elapsed", "none", "err"} :
          /\ ReadFrame(r)
          /\ input' = CASE r \in {"elapsed", "none", "err"} -> "done"
                        [] r = "STDIN" -> "write"
                        [] OTHER -> "read"
          /\ fired' = (fired \/ r = "elapsed")
    BY <1>2 DEF InputRead
  <2>2. r \in {"elapsed", "none", "err"}
    BY <2>1
  <2>3. CASE r = "elapsed"
    BY <2>1, <2>3 DEF Excused
  <2>4. CASE r # "elapsed" /\ inbox # <<>>
    <3>1. Head(inbox) \in ClientFrames
      BY <1>0, <2>4
    <3>2. r = IF Head(inbox) = "BAD" THEN "err" ELSE Head(inbox)
      BY <2>1, <2>4 DEF ReadFrame
    <3>3. Head(inbox) \in InFrames
      BY <3>1, SessionAssumption
    <3>4. Head(inbox) = "BAD"
      BY <2>2, <3>2, <3>3 DEF InFrames
    <3> QED
      BY <3>1, <3>4 DEF Excused
  <2>5. CASE r # "elapsed" /\ inbox = <<>>
    <3>1. r = CASE up = "eof" -> "none" [] up = "error" -> "err" [] OTHER -> "elapsed"
      BY <2>1, <2>5 DEF ReadFrame
    <3>2. up # "open"
      BY <2>5, <3>1
    <3> QED
      BY <1>0, <3>2 DEF Excused
  <2> QED
    BY <2>3, <2>4, <2>5
<1>3. CASE InputWrite
  <2>1. CASE fired \/ fired'
    BY <1>3, <2>1 DEF InputWrite, Excused
  <2>2. CASE ~fired /\ ~fired'
    <3>1. write_all_fd
      BY <1>3, <2>2 DEF InputWrite
    <3>2. ~(Alive /\ tty)
      BY <3>1 DEF write_all_fd, SlaveClosed
    <3>3. child # "none"
      BY <1>0 DEF KillInv
    <3> QED
      BY <1>0, <1>1, <3>2, <3>3 DEF Alive, Excused
  <2> QED
    BY <2>1, <2>2
<1> QED
  BY <1>2, <1>3 DEF InputTask

LEMMA HupStep ==
  ASSUME PtyInv, [Next]_vars
  PROVE  HupInv'
<1>0. HupInv /\ KillInv /\ inbox' \in Seq(ClientFrames) /\ fired \in BOOLEAN
  BY InboxStep DEF PtyInv, HupInv, TypeOK, SessionTypeOK
<1>1. ASSUME UNCHANGED <<pc, hup, input>>, fired => fired', up # "open" => up' # "open",
             tty' => tty,
             child \in {"zombie", "reaped"} => child' \in {"zombie", "reaped"} /\ death' = death
      PROVE  HupInv'
  BY <1>0, <1>1, ExcusedStays DEF HupInv
<1>2. CASE Client /\ UNCHANGED ptyVars
  BY <1>1, <1>2 DEF Client, ClientSend, ClientHalfClose, ClientDrop, ClientVanish, ClientPace,
       ptyVars, shellVars, waitVars
<1>3. CASE Shell
  BY <1>1, <1>3 DEF Shell, ShellWrites, ShellActs, ShellWedges, ShellDies, JobEnds, shellVars,
       waitVars, transportVars
<1>4. CASE Writer /\ UNCHANGED ptyVars
  BY <1>0, <1>1, <1>4 DEF Writer, WriterCancelled, WriterRecv, WriteFrame, WriterFinish,
       transportVars, ptyVars, shellVars, waitVars
<1>5. CASE Drive /\ UNCHANGED ptyVars
  <2>1. /\ UNCHANGED <<hup, input, fired, up, child, death, tty>>
        /\ pc' \in {"error", "join", "done"}
    BY <1>5 DEF Drive, NoRequest, BadRequest, SendError, JoinWriter, ptyVars, shellVars, waitVars
  <2> QED
    BY <1>0, <2>1, ExcusedStays DEF HupInv, BeforeSpawn
<1>6. CASE Setup
  <2>1. UNCHANGED <<fired, up, death, tty, hup>>
    BY <1>6 DEF Setup, Request, OpenPty, OtherSpawn, SetCloexec, DupSlave, DupFailed,
         SpawnShell, RegisterMaster, FailReap, ptyVars, shellVars, waitVars
  <2>2. pc \in BeforeSpawn \cup {"spawned", "failReap", "failClose"}
    BY <1>6 DEF Setup, Request, OpenPty, OtherSpawn, SetCloexec, DupSlave, DupFailed,
         SpawnShell, RegisterMaster, FailReap, BeforeSpawn
  <2>3. input' = input \/ (input' = "read" /\ pc' = "run")
    BY <1>6 DEF Setup, Request, OpenPty, OtherSpawn, SetCloexec, DupSlave, DupFailed,
         SpawnShell, RegisterMaster, FailReap, ptyVars
  <2>4. input = "none" /\ ~hup
    BY <1>0, <2>2 DEF HupInv, KillInv, BeforeSpawn
  <2> QED
    BY <1>0, <2>1, <2>3, <2>4 DEF HupInv, BeforeSpawn
<1>7. CASE OutTask \/ OutTaskHup
  BY <1>1, <1>7 DEF OutTask, OutTaskHup, outTaskUnchanged, transportVars, shellVars, waitVars
<1>8. CASE InputTask
  <2>1. UNCHANGED <<pc, hup, up, child, death, tty>> /\ pc = "run" /\ (fired => fired')
    BY <1>0, <1>8 DEF InputTask, InputRead, InputWrite, waitVars
  <2>2. hup => Excused'
    BY <1>0, <2>1, ExcusedStays DEF HupInv
  <2> QED
    BY <1>0, <1>8, <2>1, <2>2, InputEnds DEF HupInv, BeforeSpawn
<1>9. CASE Select
  <2>1. /\ UNCHANGED <<fired, up, input, death, tty>> /\ pc' \in {"hangup", "reap", "drain"}
        /\ child \in {"zombie", "reaped"} => child' \in {"zombie", "reaped"}
        /\ hup' # hup => (input = "done" \/ fired)
    BY <1>9 DEF Select, InputArm, CancelArm, HangUp, WaitArm, Escalate, Reap, reap_bounded, Waited,
         waitVars, transportVars
  <2>2. hup' \/ input' = "done" => Excused
    BY <1>0, <2>1 DEF HupInv, Excused
  <2>3. hup' \/ input' = "done" => Excused'
    BY <2>1, <2>2, ExcusedStays
  <2> QED
    BY <1>0, <2>1, <2>3 DEF HupInv, BeforeSpawn
<1>10. CASE Drain \/ SendExit
  <2>1. UNCHANGED <<fired, up, input, child, death, tty, hup>> /\ pc' \in {"exit", "join"}
    BY <1>10 DEF Drain, SendExit, transportVars, shellVars, waitVars
  <2> QED
    BY <1>0, <2>1, ExcusedStays DEF HupInv, BeforeSpawn
<1>11. CASE UNCHANGED vars
  BY <1>1, <1>11 DEF vars, sessionVars, transportVars, ptyVars, shellVars, waitVars
<1> QED
  BY <1>2, <1>3, <1>4, <1>5, <1>6, <1>7, <1>8, <1>9, <1>10, <1>11 DEF Next, Done

(* WayInv is preserved: the steps of SessionProofs, found in open_pty. *)

LEMMA WayStep ==
  ASSUME PtyInv, [Next]_vars
  PROVE  WayInv'
<1>0. SessionTypeOK /\ PumpTypeOK /\ WayInv /\ OutInv /\ SessionTypeOK' /\ pc \in PtyPcs
  BY TypeStep DEF PtyInv, TypeOK, SessionTypeOK
<1>1. ASSUME UNCHANGED <<outboundVars, pumpVars>>,
             pc \in {"join", "done"} => pc' \in {"join", "done"}
      PROVE  WayInv'
  <2>1. \A s \in Streams : produced[s] \in Nat /\ produced'[s] = produced[s] /\ pump'[s] = pump[s]
    BY <1>0, <1>1 DEF pumpVars, PumpTypeOK
  <2>2. \A s \in Streams : produced'[s] >= produced[s]
    BY <2>1
  <2> QED
    BY <1>0, <1>1, <2>1, <2>2, WayOther DEF SessionTypeOK, pumpVars
<1>2. CASE Client \/ InputTask \/ UNCHANGED vars
  BY <1>1, <1>2 DEF Client, InputTask, vars, sessionVars
<1>3. CASE Shell
  <2>1. UNCHANGED <<outboundVars, pc, pump, taken>>
    BY <1>3 DEF Shell
  <2>2. \A s \in Streams : produced'[s] >= produced[s]
    BY <1>0, <1>3 DEF Shell, ShellWrites, ShellActs, ShellWedges, ShellDies, JobEnds, PumpTypeOK,
         Streams
  <2> QED
    BY <1>0, <2>1, <2>2, WayOther DEF SessionTypeOK
<1>4. CASE Writer
  BY <1>0, <1>4, WayWriter
<1>5. CASE OutTask \/ OutTaskHup
  <2>1. UNCHANGED <<writer, hand, wire, pc, produced>> /\ OutRuns /\ "STDOUT" \in Streams
    BY <1>5 DEF OutTask, OutTaskHup, OutRead, OutSend, OutHup, outTaskUnchanged, OutRuns, Streams
  <2>2. pc \notin {"join", "done"}
    BY <1>0, <2>1 DEF OutInv
  <2>3. CASE OutRead
    <3>1. UNCHANGED <<outboundVars, pc, produced>>
      BY <2>1, <2>3 DEF OutRead, outboundVars
    <3> QED
      BY <1>0, <2>1, <2>3, <3>1, WayTaken DEF OutRead
  <2>4. CASE OutSend
    <3>1. PICK p \in {"read", "finished"} : pump' = [pump EXCEPT !["STDOUT"] = p]
      BY <2>4 DEF OutSend
    <3> QED
      BY <1>0, <2>1, <2>2, <2>4, <3>1, WayChunk DEF OutSend
  <2>5. CASE OutHup
    <3>1. UNCHANGED <<outboundVars, taken>> /\ pump["STDOUT"] = "read"
      BY <2>1, <2>5 DEF OutHup, outboundVars
    <3>2. \A s \in Streams : \/ pump'[s] = pump[s]
                             \/ {pump[s], pump'[s]} \subseteq {"none", "read", "finished"}
      BY <1>0, <2>5 DEF OutHup, PumpTypeOK
    <3>3. \A s \in Streams : produced'[s] >= produced[s]
      BY <1>0, <2>1 DEF PumpTypeOK
    <3> QED
      BY <1>0, <2>1, <3>1, <3>2, <3>3, WayOther DEF SessionTypeOK
  <2> QED
    BY <1>5, <2>3, <2>4, <2>5 DEF OutTask, OutTaskHup
<1>6. CASE Drive
  <2>1. UNCHANGED <<writer, hand, wire, pumpVars>>
    BY <1>6 DEF Drive
  <2>2. CASE SendError
    <3>1. Send([type |-> "ERROR", n |-> 0]) /\ pc = "error" /\ pc' = "join"
      BY <2>2 DEF SendError
    <3> QED
      BY <1>0, <2>1, <3>1, WayTerminal
  <2>3. CASE UNCHANGED chan /\ (pc \in {"join", "done"} => pc' \in {"join", "done"})
    BY <1>1, <2>1, <2>3 DEF outboundVars
  <2> QED
    BY <1>6, <2>2, <2>3 DEF Drive, NoRequest, BadRequest, JoinWriter
<1>7. CASE Setup \/ Drain
  <2>1. UNCHANGED <<outboundVars, produced, taken>>
    BY <1>7 DEF Setup, Drain
  <2>2. pc \notin {"join", "done"}
    BY <1>7 DEF Setup, Request, OpenPty, OtherSpawn, SetCloexec, DupSlave, DupFailed,
         SpawnShell, RegisterMaster, FailReap, Drain
  <2>3. \A s \in Streams : \/ pump'[s] = pump[s] \/ pump'[s] = "aborted"
                           \/ {pump[s], pump'[s]} \subseteq {"none", "read", "finished"}
    <3>1. CASE UNCHANGED pump
      BY <3>1
    <3>2. CASE pc = "spawned" /\ pump' = [pump EXCEPT !["STDOUT"] = "read"]
      <4>1. pump["STDOUT"] = "none"
        BY <1>0, <3>2 DEF OutInv
      <4> QED
        BY <1>0, <3>2, <4>1 DEF PumpTypeOK
    <3>3. CASE pump' = [pump EXCEPT !["STDOUT"] = "aborted"]
      BY <1>0, <3>3 DEF PumpTypeOK
    <3> QED
      BY <1>7, <3>1, <3>2, <3>3 DEF Setup, Request, OpenPty, OtherSpawn, SetCloexec, DupSlave, DupFailed,
           SpawnShell, RegisterMaster, FailReap, Drain
  <2>4. \A s \in Streams : produced'[s] >= produced[s]
    BY <1>0, <2>1 DEF PumpTypeOK
  <2> QED
    BY <1>0, <2>1, <2>2, <2>3, <2>4, WayOther DEF SessionTypeOK
<1>8. CASE Select
  <2>1. /\ UNCHANGED <<outboundVars, pumpVars>>
        /\ pc \in {"join", "done"} => pc' \in {"join", "done"}
    BY <1>8 DEF Select, InputArm, CancelArm, WaitArm, Escalate, Reap
  <2> QED
    BY <1>1, <2>1
<1>9. CASE SendExit
  <2>1. /\ Send([type |-> "EXIT", n |-> 0]) /\ UNCHANGED <<writer, hand, wire, pumpVars>>
        /\ pc = "exit" /\ pc' = "join"
    BY <1>9 DEF SendExit
  <2> QED
    BY <1>0, <2>1, WayTerminal
<1> QED
  BY <1>2, <1>3, <1>4, <1>5, <1>6, <1>7, <1>8, <1>9 DEF Next, Done

-----------------------------------------------------------------------------
(* The theorems.                                                           *)

LEMMA InvAlways == Spec => []PtyInv
<1>1. PtyInv /\ [Next]_vars => PtyInv'
  BY TypeStep, WayStep, FdStep, CloexecStep, KillStep, HupStep DEF PtyInv
<1> QED
  BY InvInit, <1>1, PTL DEF Spec

\* Type correctness of open-pty: in particular its outbound channel never holds
\* more than CHANNEL_BOUND frames and the terminal's queue no more than StdinCap
\* chunks.
THEOREM TypeCorrect == Spec => []TypeOK
<1>1. PtyInv => TypeOK
  BY DEF PtyInv
<1> QED
  BY InvAlways, <1>1, PTL

\* On every path through open_pty, whatever fails on it and whichever task drops
\* the last reference to the master, each descriptor is closed exactly once.
THEOREM FdsAreClosedOnce == Spec => []FdsClosedOnce
<1>1. PtyInv => FdsClosedOnce
  BY DEF PtyInv, FdInv, FdsClosedOnce, Ending
<1> QED
  BY InvAlways, <1>1, PTL

\* open_pty lets go of no live shell without SIGKILL, neither after the hangup
\* nor on the two failures that follow the spawn.
THEOREM ShellIsAccounted == Spec => []ShellAccounted
<1>1. PtyInv => ShellAccounted
  BY DEF PtyInv, KillInv, ShellAccounted, Ending
<1> QED
  BY InvAlways, <1>1, PTL

\* The shell never inherits the master of its own terminal: set_cloexec has
\* succeeded on every path that reaches the spawn.
THEOREM MasterIsPrivate == Spec => []MasterPrivate
<1>1. PtyInv => MasterPrivate
  BY DEF PtyInv, CloexecInv, MasterPrivate
<1> QED
  BY InvAlways, <1>1, PTL

\* The agent takes no live shell away from a connected client that keeps to the
\* protocol and was not cancelled, in whichever order the unbiased select, the
\* input task and the shell's own exit come, as long as the shell has not let go
\* of its terminal.
THEOREM LiveShellIsKept == Spec => []LiveShellKept
<1>1. PtyInv => LiveShellKept
  BY DEF PtyInv, HupInv, Excused, LiveShellKept
<1> QED
  BY InvAlways, <1>1, PTL

\* EXIT or ERROR is the last frame any client of open-pty ever receives.
THEOREM PtyTerminalIsLast == Spec => []TerminalLast
<1>1. PtyInv => TerminalLast
  BY WayTerminalLast DEF PtyInv, WayInv, TypeOK, SessionTypeOK
<1> QED
  BY InvAlways, <1>1, PTL

\* No step of an open-pty session writes a frame to the client once cancel has
\* fired.
THEOREM PtyCancelSilences == Spec => CancelSilencesWire
<1>1. [Next]_vars => [fired => wire' = wire]_sessionVars
  <2> SUFFICES ASSUME Next
               PROVE  fired => wire' = wire
    BY DEF vars
  <2>1. CASE Writer
    BY <2>1, WriterSilenced
  <2>2. CASE Client \/ Shell \/ Drive \/ Setup \/ OutTask \/ OutTaskHup
    BY <2>2 DEF Client, Shell, Drive, Setup, OutTask, OutTaskHup, outTaskUnchanged, outboundVars
  <2>3. CASE InputTask \/ Select \/ Drain \/ SendExit \/ Done
    BY <2>3 DEF InputTask, Select, Drain, SendExit, Done, vars, sessionVars, outboundVars
  <2> QED
    BY <2>1, <2>2, <2>3 DEF Next
<1> QED
  BY <1>1, PTL DEF Spec, CancelSilencesWire

\* open-pty implements the abstract output stream: every write to the client is
\* the next chunk of the terminal's output, or the terminal frame at the end.
THEOREM PtyImplementsOutput == Spec => ImplementsOutputStream
<1>1. Init => Output!Init
  BY OutputInit DEF Init
<1>2. PtyInv /\ [Next]_vars => [Output!Next]_(Output!vars)
  <2> SUFFICES ASSUME PtyInv, [Next]_vars
               PROVE  [Output!Next]_(Output!vars)
    OBVIOUS
  <2>1. CASE Writer
    BY <2>1, OutputWriter DEF PtyInv, TypeOK
  <2>2. CASE Shell
    <3>1. wire' = wire
      BY <2>2 DEF Shell, outboundVars
    <3>2. \/ produced' = produced
          \/ \E s \in Streams : produced' = [produced EXCEPT ![s] = @ + 1]
      BY <2>2 DEF Shell, ShellWrites, ShellActs, ShellWedges, ShellDies, JobEnds, Streams
    <3> QED
      BY <3>1, <3>2, OutputOther
  <2>3. CASE Client \/ Drive \/ Setup \/ OutTask \/ OutTaskHup
    BY <2>3, OutputOther DEF Client, Drive, Setup, OutTask, OutTaskHup, outTaskUnchanged,
                             outboundVars, pumpVars
  <2>4. CASE InputTask \/ Select \/ Drain \/ SendExit \/ UNCHANGED vars
    BY <2>4, OutputOther DEF InputTask, Select, Drain, SendExit, vars, sessionVars,
                             outboundVars, pumpVars
  <2> QED
    BY <2>1, <2>2, <2>3, <2>4 DEF Next, Done
<1> QED
  BY InvAlways, <1>1, <1>2, PTL DEF Spec, ImplementsOutputStream, Output!Spec
=============================================================================
