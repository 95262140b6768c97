----------------------------- MODULE ExecProofs -----------------------------
(* Invariants of the exec verb, for every channel bound, every amount of   *)
(* output and every behaviour of client and command.                       *)
EXTENDS ExecSession, SessionProofs

-----------------------------------------------------------------------------
(* Types: what each operation leaves alone, and what it changes.           *)

LEMMA StdinBound == StdinCap \in Nat
BY ExecAssumption

LEMMA ChildSame == ChildTypeOK /\ UNCHANGED childVars => ChildTypeOK'
BY DEF ChildTypeOK, childVars

LEMMA WaitSame == WaitTypeOK /\ UNCHANGED waitVars => WaitTypeOK'
BY DEF WaitTypeOK, waitVars

LEMMA StdinSame == StdinTypeOK /\ UNCHANGED <<stdin, cstdin>> => StdinTypeOK'
BY DEF StdinTypeOK

LEMMA ExecSame ==
  ASSUME TypeOK, UNCHANGED execVars
  PROVE  ChildTypeOK' /\ WaitTypeOK' /\ StdinTypeOK'
BY ChildSame, WaitSame, StdinSame DEF TypeOK, execVars

LEMMA TypeInit == Init => TypeOK
<1> SUFFICES ASSUME Init
             PROVE  TypeOK
  OBVIOUS
<1>1. SessionTypeOK /\ pc \in ExecPcs
  BY SessionTypeInit DEF Init, ExecPcs
<1>2. ChildTypeOK /\ StdinTypeOK
  <2>1. fed = 0
    BY DEF Init
  <2>2. fed \in 0..StdinCap
    BY <2>1, StdinBound
  <2> QED
    BY <2>2 DEF Init, ChildTypeOK, StdinTypeOK
<1>3. WaitTypeOK
  BY DEF Init, WaitTypeOK, ExitCodes, ExitReasons
<1> QED
  BY <1>1, <1>2, <1>3 DEF TypeOK

LEMMA CommandType ==
  ASSUME TypeOK, Command
  PROVE  TypeOK'
<1>1. TransportTypeOK' /\ OutboundTypeOK' /\ WaitTypeOK' /\ StdinTypeOK'
  BY TransportSame, OutboundSame, WaitSame, StdinSame DEF Command, TypeOK, SessionTypeOK
<1>2. UNCHANGED <<fired, pc>>
  BY DEF Command
<1>3. PumpTypeOK' /\ ChildTypeOK'
  <2>1. ASSUME NEW s \in Streams, ChildWrite(s)
        PROVE  PumpTypeOK' /\ ChildTypeOK'
    <3>1. ChildTypeOK'
      BY <2>1, ChildSame DEF ChildWrite, TypeOK
    <3>2. PumpTypeOK'
      BY <2>1 DEF ChildWrite, TypeOK, SessionTypeOK, PumpTypeOK
    <3> QED
      BY <3>1, <3>2
  <2>2. CASE ChildActs \/ ChildWedges \/ ChildDies \/ BackgroundExits
    <3>1. PumpTypeOK'
      BY <2>2, PumpSame DEF ChildActs, ChildWedges, ChildDies, BackgroundExits, TypeOK,
                            SessionTypeOK
    <3>2. CASE ChildActs
      <4>1. fed' \in 0..StdinCap
        <5>1. fed \in 0..StdinCap /\ (fed' = fed \/ (fed > 0 /\ fed' = fed - 1))
          BY <3>2 DEF ChildActs, TypeOK, ChildTypeOK
        <5> QED
          BY <5>1, StdinBound
      <4>2. bg' \in {"none", "group", "escaped"}
        BY <3>2, ExecAssumption DEF ChildActs, TypeOK, ChildTypeOK
      <4> QED
        BY <3>1, <3>2, <4>1, <4>2 DEF ChildActs, TypeOK, ChildTypeOK
    <3>3. CASE ChildWedges \/ ChildDies \/ BackgroundExits
      <4>1. ChildTypeOK
        BY DEF TypeOK
      <4> QED
        BY <3>1, <3>3, <4>1 DEF ChildWedges, ChildDies, BackgroundExits, ChildTypeOK
    <3> QED
      BY <2>2, <3>1, <3>2, <3>3
  <2> QED
    BY <2>1, <2>2 DEF Command
<1> QED
  BY <1>1, <1>2, <1>3 DEF TypeOK, SessionTypeOK

LEMMA PumpType ==
  ASSUME TypeOK, NEW s \in Streams, Pump(s)
  PROVE  TypeOK'
<1>1. TransportTypeOK' /\ UNCHANGED <<writer, hand, wire, fired, pc, produced, execVars>>
  BY TransportSame DEF Pump, TypeOK, SessionTypeOK
<1>2. OutboundTypeOK'
  <2>1. CASE PumpRead(s)
    BY <1>1, <2>1, OutboundSame DEF PumpRead, outboundVars, TypeOK, SessionTypeOK
  <2>2. CASE PumpSend(s)
    <3>1. [type |-> s, n |-> taken[s]] \in OutFrames
      BY FrameType DEF TypeOK, SessionTypeOK, PumpTypeOK
    <3>2. OutboundTypeOK /\ Send([type |-> s, n |-> taken[s]]) /\ UNCHANGED <<writer, hand, wire>>
      BY <1>1, <2>2 DEF PumpSend, TypeOK, SessionTypeOK
    <3> QED
      BY <3>1, <3>2, SendType
  <2> QED
    BY <2>1, <2>2 DEF Pump
<1>3. PumpTypeOK'
  BY <1>1 DEF Pump, PumpRead, PumpSend, TypeOK, SessionTypeOK, PumpTypeOK
<1>4. fired' \in BOOLEAN /\ pc' \in ExecPcs
  BY <1>1 DEF TypeOK, SessionTypeOK
<1> QED
  BY <1>1, <1>2, <1>3, <1>4, ExecSame DEF TypeOK, SessionTypeOK

LEMMA ExecType ==
  ASSUME TypeOK, Exec
  PROVE  TypeOK'
<1>1. UNCHANGED <<up, link, outboundVars, fired, produced, taken, signalled, status,
                  teardown, report>>
  BY DEF Exec
<1>2. TransportTypeOK'
  <2>1. TransportTypeOK /\ ReadFrame("REQUEST")
    BY DEF Exec, TypeOK, SessionTypeOK
  <2> QED
    BY <1>1, <2>1, ReadFrameType
<1>3. OutboundTypeOK'
  BY <1>1, OutboundSame DEF TypeOK, SessionTypeOK
<1>4. PumpTypeOK'
  BY <1>1 DEF Exec, ExecRefused, Spawn, TypeOK, SessionTypeOK, PumpTypeOK
<1>5. ChildTypeOK'
  BY DEF Exec, ExecRefused, Spawn, TypeOK, ChildTypeOK, childVars
<1>6. StdinTypeOK' /\ pc' \in ExecPcs
  BY DEF Exec, ExecRefused, Spawn, TypeOK, StdinTypeOK, ExecPcs
<1>7. WaitTypeOK'
  <2>1. capped' \in BOOLEAN
    <3>1. DefaultDeadline \in BOOLEAN
      BY ExecAssumption
    <3>2. \A d \in {"absent", "zero", "secs"} : EffectiveDeadline(d) \in BOOLEAN
      BY <3>1 DEF EffectiveDeadline
    <3> QED
      BY <3>2 DEF Exec, ExecRefused, Spawn, TypeOK, WaitTypeOK
  <2> QED
    BY <1>1, <2>1 DEF TypeOK, WaitTypeOK
<1> QED
  BY <1>1, <1>2, <1>3, <1>4, <1>5, <1>6, <1>7 DEF TypeOK, SessionTypeOK

LEMMA StdinTaskType ==
  ASSUME TypeOK, StdinTask
  PROVE  TypeOK'
<1>1. UNCHANGED <<up, link, outboundVars, pumpVars, pc, childStdin, child, death, bg, waitVars>>
  BY DEF StdinTask
<1>2. OutboundTypeOK' /\ PumpTypeOK' /\ WaitTypeOK' /\ pc' \in ExecPcs
  BY <1>1, OutboundSame, PumpSame, WaitSame DEF TypeOK, SessionTypeOK
<1>3. TransportTypeOK'
  <2>1. TransportTypeOK
    BY DEF TypeOK, SessionTypeOK
  <2>2. (\E r : ReadFrame(r)) \/ inbox' = inbox
    BY DEF StdinTask, StdinRead, StdinWrite
  <2>3. CASE \E r : ReadFrame(r)
    BY <1>1, <2>1, <2>3, ReadFrameType
  <2>4. CASE inbox' = inbox
    BY <1>1, <2>1, <2>4, TransportSame DEF transportVars
  <2> QED
    BY <2>2, <2>3, <2>4
<1>4. fed' \in 0..StdinCap
  <2>1. fed \in 0..StdinCap /\ (fed' = fed \/ (fed < StdinCap /\ fed' = fed + 1))
    BY DEF StdinTask, StdinRead, StdinWrite, TypeOK, ChildTypeOK
  <2> QED
    BY <2>1, StdinBound
<1>5. ChildTypeOK'
  BY <1>1, <1>4 DEF TypeOK, ChildTypeOK
<1>6. StdinTypeOK' /\ fired' \in BOOLEAN
  <2>1. CASE StdinRead
    BY <2>1 DEF StdinRead, StdinTypeOK, TypeOK
  <2>2. CASE StdinWrite
    BY <2>2 DEF StdinWrite, StdinTypeOK, TypeOK, SessionTypeOK
  <2> QED
    BY <2>1, <2>2 DEF StdinTask
<1> QED
  BY <1>2, <1>3, <1>5, <1>6 DEF TypeOK, SessionTypeOK

LEMMA SelectType ==
  ASSUME TypeOK, Select
  PROVE  TypeOK'
<1>1. UNCHANGED <<transportVars, outboundVars, pumpVars, fired, stdin, cstdin, childStdin,
                  fed, death, capped, report>>
  BY DEF Select
<1>2. TransportTypeOK' /\ OutboundTypeOK' /\ PumpTypeOK' /\ StdinTypeOK'
  BY <1>1, TransportSame, OutboundSame, PumpSame, StdinSame DEF TypeOK, SessionTypeOK
<1>3. pc' \in ExecPcs
  BY DEF Select, CancelArm, DeadlineArm, WaitArm, Reap, ReapLapse, Waited, ExecPcs
<1>4. ChildTypeOK'
  <2>1. child' \in {child, "reaped"} /\ bg' \in {bg, "none"}
    BY DEF Select, CancelArm, DeadlineArm, WaitArm, Reap, ReapLapse, Waited, KillGroup
  <2> QED
    BY <1>1, <2>1 DEF TypeOK, ChildTypeOK
<1>5. WaitTypeOK'
  BY <1>1 DEF Select, CancelArm, DeadlineArm, WaitArm, Reap, ReapLapse, Waited, KillGroup,
              TypeOK, WaitTypeOK
<1> QED
  BY <1>1, <1>2, <1>3, <1>4, <1>5 DEF TypeOK, SessionTypeOK

LEMMA DrainType ==
  ASSUME TypeOK, Drain
  PROVE  TypeOK'
<1>1. UNCHANGED <<transportVars, outboundVars, fired, produced, taken, execVars>>
  BY DEF Drain
<1>2. TransportTypeOK' /\ OutboundTypeOK' /\ fired' \in BOOLEAN
  BY <1>1, TransportSame, OutboundSame DEF TypeOK, SessionTypeOK
<1>3. pc' \in ExecPcs
  BY DEF Drain, ExecPcs
<1>4. PumpTypeOK'
  BY <1>1 DEF Drain, DrainTask, TypeOK, SessionTypeOK, PumpTypeOK
<1> QED
  BY <1>1, <1>2, <1>3, <1>4, ExecSame DEF TypeOK, SessionTypeOK

\* exec sends EXIT only after a wait has given a status; the types need no
\* more than that exit_fields yields a code and a reason for each of them.
LEMMA ExitFieldsType ==
  ASSUME NEW st \in {"code", "signal", "err"}, NEW o \in {"", "disconnected", "timeout"}
  PROVE  exit_fields(st, o) \in ExitCodes \X ExitReasons
BY DEF exit_fields, ExitCodes, ExitReasons

LEMMA SendExitType ==
  ASSUME TypeOK, status # "none", SendExit
  PROVE  TypeOK'
<1>1. UNCHANGED <<transportVars, writer, hand, wire, fired, pumpVars, stdin, cstdin, childVars,
                  capped, signalled, status, teardown>>
  BY DEF SendExit
<1>2. TransportTypeOK' /\ PumpTypeOK' /\ ChildTypeOK' /\ StdinTypeOK' /\ fired' \in BOOLEAN
  BY <1>1, TransportSame, PumpSame, ChildSame, StdinSame DEF TypeOK, SessionTypeOK
<1>3. OutboundTypeOK'
  <2>1. OutboundTypeOK /\ Send([type |-> "EXIT", n |-> 0])
    BY DEF SendExit, TypeOK, SessionTypeOK
  <2> QED
    BY <1>1, <2>1, FrameType, SendType
<1>4. WaitTypeOK'
  <2>1. report' \in ExitCodes \X ExitReasons
    BY ExitFieldsType DEF SendExit, TypeOK, WaitTypeOK
  <2> QED
    BY <1>1, <2>1 DEF TypeOK, WaitTypeOK
<1>5. pc' \in ExecPcs
  BY DEF SendExit, ExecPcs
<1> QED
  BY <1>2, <1>3, <1>4, <1>5 DEF TypeOK, SessionTypeOK

-----------------------------------------------------------------------------
(* The inductive invariant.                                                *)

Quiet(s) == pump[s] \notin {"read", "send"}

\* What has been set up, waited for and stopped by the time exec is at pc.
Phases ==
  /\ pc \in {"request", "error"} => child = "none" /\ \A s \in Streams : pump[s] = "none"
  /\ pc \in {"drainOut", "drainErr", "exit"} => status # "none"
  /\ pc \in {"drainErr", "exit", "join", "done"} => Quiet("STDOUT")
  /\ pc \in {"exit", "join", "done"} => Quiet("STDERR")

\* SIGKILL is sent exactly by a teardown, and takes the group with it.
KillInv ==
  /\ signalled <=> teardown # ""
  /\ signalled => bg # "group"
  /\ pc \in {"request", "run"} => ~signalled
  /\ pc = "reap" => signalled
  /\ pc \in {"drainOut", "drainErr", "exit", "join", "done"} /\ Alive
       => signalled /\ status = "err"

\* What was waited for is how the child ended, and a cancelled session has
\* said nothing final to its client.
ReasonInv ==
  /\ child = "zombie" => death # "none"
  /\ death = "agent" => signalled
  /\ status = "code" => death = "code" /\ child = "reaped"
  /\ status = "signal" => death \in {"signal", "agent"} /\ child = "reaped"
  /\ status = "err" => signalled \/ child = "reaped"
  /\ teardown = "timeout" => capped
  /\ teardown = "disconnected" => fired /\ \A i \in 1..Len(wire) : ~Terminal(wire[i])
  /\ \/ report = <<"none", "none">>
     \/ /\ report = exit_fields(status, teardown) /\ status # "none"
        /\ pc \in {"join", "done"}

\* A pump finishes at the end of its pipe, which nobody can write to any more.
FinishedInv ==
  \A s \in Streams : pump[s] = "finished" => ~Alive /\ bg = "none" /\ taken[s] = produced[s]

\* With EXIT, all that a finished pump has read is on the wire, and stays there
\* when the writer has gone.
ExitInv ==
  (\E i \in 1..Len(wire) : wire[i].type = "EXIT") =>
    \A s \in Streams : pump[s] = "finished" => Covers(wire, s, taken[s])

ExecInv == TypeOK /\ Phases /\ WayInv /\ KillInv /\ ReasonInv /\ FinishedInv /\ ExitInv

LEMMA InvInit == Init => ExecInv
<1> SUFFICES ASSUME Init
             PROVE  ExecInv
  OBVIOUS
<1>1. Phases
  BY DEF Init, SessionInit, Phases, Quiet, Streams
<1>2. WayInv
  BY WayInit DEF Init
<1>3. KillInv
  BY DEF Init, SessionInit, KillInv, Alive
<1>4. ReasonInv
  BY DEF Init, SessionInit, ReasonInv
<1>5. FinishedInv /\ ExitInv
  BY DEF Init, SessionInit, FinishedInv, ExitInv
<1> QED
  BY <1>1, <1>2, <1>3, <1>4, <1>5, TypeInit DEF ExecInv

LEMMA TypeStep ==
  ASSUME ExecInv, [Next]_vars
  PROVE  TypeOK'
<1>1. TypeOK /\ (pc = "exit" => status # "none")
  BY DEF ExecInv, Phases
<1>2. CASE SendExit
  BY <1>1, <1>2, SendExitType DEF SendExit
<1>3. CASE UNCHANGED vars
  <2>1. UNCHANGED <<transportVars, outboundVars, pumpVars, fired, pc, execVars>>
    BY <1>3 DEF vars, sessionVars
  <2> QED
    BY <1>1, <2>1, TransportSame, OutboundSame, PumpSame, ExecSame DEF TypeOK, SessionTypeOK
<1>4. CASE (Client \/ Writer \/ Drive) /\ UNCHANGED execVars
  <2>1. SessionTypeOK' /\ pc' \in {pc, "error", "join", "done"}
    BY <1>1, <1>4, ClientType, WriterType, DriveType DEF TypeOK
  <2> QED
    BY <1>1, <1>4, <2>1, ExecSame DEF TypeOK, ExecPcs
<1> QED
  BY <1>1, <1>2, <1>3, <1>4, CommandType, PumpType, ExecType, StdinTaskType, SelectType,
     DrainType DEF Next, Done

LEMMA PhasesStep ==
  ASSUME ExecInv, [Next]_vars
  PROVE  Phases'
<1> USE DEF Phases, Quiet
<1>0. Phases /\ PumpTypeOK /\ pc \in ExecPcs
  BY DEF ExecInv, TypeOK, SessionTypeOK
<1>1. CASE Client /\ UNCHANGED execVars
  BY <1>0, <1>1 DEF Client, pumpVars, execVars, childVars, waitVars
<1>2. CASE Command
  <2>1. UNCHANGED <<pump, pc, status>> /\ (child = "none" => child' = "none")
    BY <1>2 DEF Command, ChildWrite, ChildActs, ChildWedges, ChildDies, BackgroundExits,
                pumpVars, childVars, waitVars
  <2> QED
    BY <1>0, <2>1
<1>3. CASE Writer /\ UNCHANGED execVars
  BY <1>0, <1>3 DEF Writer, pumpVars, execVars, childVars, waitVars
<1>4. ASSUME NEW s \in Streams, Pump(s)
      PROVE  Phases'
  <2>1. UNCHANGED <<pc, child, status>> /\ ~Quiet(s)
    BY <1>4 DEF Pump, PumpRead, PumpSend, execVars, childVars, waitVars
  <2>2. \A t \in Streams : t # s => pump'[t] = pump[t]
    BY <1>0, <1>4 DEF Pump, PumpRead, PumpSend, PumpTypeOK
  <2> QED
    BY <1>0, <2>1, <2>2 DEF Streams
<1>5. CASE Drive /\ UNCHANGED execVars
  <2>1. UNCHANGED <<pump, child, status>>
    BY <1>5 DEF Drive, pumpVars, execVars, childVars, waitVars
  <2>2. \/ pc \in {"request", "error", "join"} /\ pc' \in {"join", "done"}
        \/ pc = "request" /\ pc' = "error"
    BY <1>5 DEF Drive, NoRequest, BadRequest, SendError, JoinWriter
  <2> QED
    BY <1>0, <2>1, <2>2 DEF Streams
<1>6. CASE Exec
  BY <1>0, <1>6 DEF Exec, ExecRefused, Spawn, childVars, Streams
<1>7. CASE StdinTask
  BY <1>0, <1>7 DEF StdinTask, pumpVars, waitVars
<1>8. CASE Select
  <2>1. UNCHANGED pump /\ (pc' = "reap" \/ (pc' = "drainOut" /\ status' # "none"))
    BY <1>8 DEF Select, CancelArm, DeadlineArm, WaitArm, Reap, ReapLapse, Waited, pumpVars
  <2>2. pc' \notin {"request", "error", "drainErr", "exit", "join", "done"}
    BY <2>1
  <2> QED
    BY <2>1, <2>2
<1>9. CASE Drain
  <2>1. UNCHANGED <<child, status>>
    BY <1>9 DEF Drain, execVars, childVars, waitVars
  <2>2. CASE pc = "drainOut"
    <3>1. pc' = "drainErr" /\ pump'["STDOUT"] \notin {"read", "send"}
      BY <1>0, <1>9, <2>2 DEF Drain, DrainTask, PumpTypeOK, Streams
    <3> QED
      BY <1>0, <2>1, <2>2, <3>1
  <2>3. CASE pc = "drainErr"
    <3>1. /\ pc' = "exit" /\ pump'["STDERR"] \notin {"read", "send"}
          /\ pump'["STDOUT"] = pump["STDOUT"]
      BY <1>0, <1>9, <2>3 DEF Drain, DrainTask, PumpTypeOK, Streams
    <3> QED
      BY <1>0, <2>1, <2>3, <3>1
  <2> QED
    BY <1>9, <2>2, <2>3 DEF Drain
<1>10. CASE SendExit
  BY <1>0, <1>10 DEF SendExit, pumpVars, childVars
<1>11. CASE UNCHANGED vars
  BY <1>0, <1>11 DEF vars, sessionVars, pumpVars, execVars, childVars, waitVars
<1> QED
  BY <1>1, <1>2, <1>3, <1>4, <1>5, <1>6, <1>7, <1>8, <1>9, <1>10, <1>11 DEF Next, Done

(* WayInv is preserved: the steps of SessionProofs, found in exec. *)

LEMMA WayStep ==
  ASSUME ExecInv, [Next]_vars
  PROVE  WayInv'
<1>0. SessionTypeOK /\ PumpTypeOK /\ WayInv /\ Phases /\ SessionTypeOK'
  BY TypeStep DEF ExecInv, TypeOK, SessionTypeOK
<1>1. ASSUME UNCHANGED <<outboundVars, pumpVars>>,
             pc \in {"join", "done"} => pc' \in {"join", "done"}
      PROVE  WayInv'
  <2>1. \A s \in Streams : produced[s] \in Nat /\ produced'[s] = produced[s] /\ pump'[s] = pump[s]
    BY <1>0, <1>1 DEF pumpVars, PumpTypeOK
  <2>2. \A s \in Streams : produced'[s] >= produced[s]
    BY <2>1
  <2> QED
    BY <1>0, <1>1, <2>1, <2>2, WayOther DEF SessionTypeOK, pumpVars
<1>2. CASE Client
  BY <1>1, <1>2 DEF Client
<1>3. CASE Command
  <2>1. UNCHANGED <<outboundVars, pc, pump, taken>>
    BY <1>3 DEF Command, ChildWrite, ChildActs, ChildWedges, ChildDies, BackgroundExits, pumpVars
  <2>2. \A s \in Streams : produced'[s] >= produced[s]
    <3>1. ASSUME NEW s \in Streams, ChildWrite(s)
          PROVE  \A r \in Streams : produced'[r] >= produced[r]
      BY <1>0, <3>1 DEF ChildWrite, PumpTypeOK
    <3>2. CASE UNCHANGED produced
      BY <1>0, <3>2 DEF PumpTypeOK
    <3> QED
      BY <1>3, <3>1, <3>2 DEF Command, ChildActs, ChildWedges, ChildDies, BackgroundExits,
                              pumpVars
  <2> QED
    BY <1>0, <2>1, <2>2, WayOther DEF SessionTypeOK
<1>4. CASE Writer
  BY <1>0, <1>4, WayWriter
<1>5. ASSUME NEW s \in Streams, Pump(s)
      PROVE  WayInv'
  <2>1. /\ pump[s] \in {"read", "send"} /\ UNCHANGED <<writer, hand, wire, pc, produced>>
        /\ (PumpRead(s) \/ PumpSend(s))
    BY <1>5 DEF Pump, PumpRead, PumpSend
  <2>2. pc \notin {"join", "done"}
    BY <1>0, <2>1 DEF Phases, Quiet, Streams
  <2>3. CASE PumpSend(s)
    <3>1. /\ pump[s] = "send" /\ Send([type |-> s, n |-> taken[s]]) /\ UNCHANGED taken
          /\ pump' = [pump EXCEPT ![s] = "read"]
      BY <2>3 DEF PumpSend
    <3> QED
      BY <1>0, <2>1, <2>2, <3>1, WayChunk
  <2>4. CASE PumpRead(s) /\ taken[s] < produced[s] /\ pump' = [pump EXCEPT ![s] = "send"]
             /\ taken' = [taken EXCEPT ![s] = @ + 1]
    <3>1. pump[s] = "read" /\ UNCHANGED <<outboundVars, pc, produced>>
      BY <2>1, <2>4 DEF PumpRead, outboundVars
    <3> QED
      BY <1>0, <2>4, <3>1, WayTaken
  <2>5. CASE PumpRead(s) /\ UNCHANGED taken /\ pump' = [pump EXCEPT ![s] = "finished"]
    <3>1. pump[s] = "read" /\ UNCHANGED <<outboundVars, taken>>
      BY <2>1, <2>5 DEF PumpRead, outboundVars
    <3>2. \A r \in Streams : \/ pump'[r] = pump[r]
                             \/ {pump[r], pump'[r]} \subseteq {"none", "read", "finished"}
      BY <1>0, <2>5, <3>1 DEF PumpTypeOK
    <3>3. \A r \in Streams : produced'[r] >= produced[r]
      BY <1>0, <2>1 DEF PumpTypeOK
    <3> QED
      BY <1>0, <2>1, <3>1, <3>2, <3>3, WayOther DEF SessionTypeOK
  <2> QED
    BY <2>1, <2>3, <2>4, <2>5 DEF PumpRead
<1>6. CASE Drive
  <2>1. UNCHANGED <<writer, hand, wire, pumpVars>>
    BY <1>6 DEF Drive
  <2>2. CASE SendError
    <3>1. Send([type |-> "ERROR", n |-> 0]) /\ pc = "error" /\ pc' = "join"
      BY <2>2 DEF SendError
    <3> QED
      BY <1>0, <2>1, <3>1, WayTerminal
  <2>3. CASE UNCHANGED chan /\ (pc \in {"join", "done"} => pc' \in {"join", "done"})
    BY <1>1, <2>1, <2>3 DEF outboundVars
  <2> QED
    BY <1>6, <2>2, <2>3 DEF Drive, NoRequest, BadRequest, JoinWriter
<1>7. CASE Exec \/ Drain
  <2>1. UNCHANGED <<outboundVars, produced, taken>> /\ pc \notin {"join", "done"}
    BY <1>7 DEF Exec, Drain
  <2>2. \A s \in Streams : \/ pump'[s] = pump[s] \/ pump'[s] = "aborted"
                           \/ {pump[s], pump'[s]} \subseteq {"none", "read", "finished"}
    <3>1. CASE Exec
      BY <1>0, <3>1 DEF Exec, ExecRefused, Spawn, Phases
    <3>2. CASE Drain
      BY <1>0, <3>2 DEF Drain, DrainTask, PumpTypeOK
    <3> QED
      BY <1>7, <3>1, <3>2
  <2>3. \A s \in Streams : produced'[s] >= produced[s]
    BY <1>0, <2>1 DEF PumpTypeOK
  <2> QED
    BY <1>0, <2>1, <2>2, <2>3, WayOther DEF SessionTypeOK
<1>8. CASE StdinTask \/ Select
  <2>1. /\ UNCHANGED <<outboundVars, pumpVars>>
        /\ pc \in {"join", "done"} => pc' \in {"join", "done"}
    BY <1>8 DEF StdinTask, Select, CancelArm, DeadlineArm, WaitArm, Reap, ReapLapse
  <2> QED
    BY <1>1, <2>1
<1>9. CASE SendExit
  <2>1. /\ Send([type |-> "EXIT", n |-> 0]) /\ UNCHANGED <<writer, hand, wire, pumpVars>>
        /\ pc = "exit" /\ pc' = "join"
    BY <1>9 DEF SendExit
  <2> QED
    BY <1>0, <2>1, WayTerminal
<1>10. CASE UNCHANGED vars
  BY <1>1, <1>10 DEF vars, sessionVars
<1> QED
  BY <1>2, <1>3, <1>4, <1>5, <1>6, <1>7, <1>8, <1>9, <1>10 DEF Next, Done

(* KillInv is preserved. *)

LEMMA KillSame ==
  ASSUME KillInv, UNCHANGED <<signalled, teardown, bg, child, status, pc>>
  PROVE  KillInv'
  BY DEF KillInv, Alive

LEMMA KillStep ==
  ASSUME ExecInv, [Next]_vars
  PROVE  KillInv'
<1>0. KillInv /\ Phases /\ signalled \in BOOLEAN
  BY DEF ExecInv, TypeOK, WaitTypeOK
<1>1. CASE Client /\ UNCHANGED execVars
  BY <1>0, <1>1, KillSame DEF Client, execVars, childVars, waitVars
<1>2. CASE Command
  <2>1. /\ UNCHANGED <<signalled, teardown, status, pc>>
        /\ Alive' => Alive
        /\ bg' = "group" => bg = "group" \/ ~signalled
    BY <1>2 DEF Command, ChildWrite, ChildActs, ChildWedges, ChildDies, BackgroundExits,
                childVars, waitVars, Alive
  <2> QED
    BY <1>0, <2>1 DEF KillInv
<1>3. CASE Writer /\ UNCHANGED execVars
  BY <1>0, <1>3, KillSame DEF Writer, execVars, childVars, waitVars
<1>4. ASSUME NEW s \in Streams, Pump(s)
      PROVE  KillInv'
  BY <1>0, <1>4, KillSame DEF Pump, execVars, childVars, waitVars
<1>5. CASE Drive /\ UNCHANGED execVars
  <2>1. UNCHANGED <<signalled, teardown, status, child, bg>>
    BY <1>5 DEF execVars, childVars, waitVars
  <2>2. \/ pc \in {"request", "error"} /\ pc' \in {"join", "error"} /\ child = "none"
        \/ pc = "join" /\ pc' = "done"
    BY <1>0, <1>5 DEF Drive, NoRequest, BadRequest, SendError, JoinWriter, Phases
  <2>3. pc' \notin {"request", "run", "reap"}
    BY <2>2
  <2> QED
    BY <1>0, <2>1, <2>2, <2>3 DEF KillInv, Alive
<1>6. CASE Exec
  <2>1. /\ UNCHANGED <<signalled, teardown, status, bg>>
        /\ pc = "request" /\ pc' \in {"error", "run"}
    BY <1>6 DEF Exec, ExecRefused, Spawn, childVars
  <2> QED
    BY <1>0, <2>1 DEF KillInv
<1>7. CASE StdinTask
  BY <1>0, <1>7, KillSame DEF StdinTask, waitVars
<1>8. CASE Select
  <2>1. CASE CancelArm \/ DeadlineArm
    <3>1. /\ signalled' = TRUE /\ bg' # "group" /\ pc' = "reap"
          /\ teardown' \in {"disconnected", "timeout"}
      BY <2>1 DEF CancelArm, DeadlineArm, KillGroup
    <3> QED
      BY <3>1 DEF KillInv
  <2>2. CASE WaitArm \/ Reap
    <3>1. UNCHANGED <<signalled, bg, teardown>> /\ child' = "reaped" /\ pc' = "drainOut"
      BY <2>2 DEF WaitArm, Reap, Waited
    <3> QED
      BY <1>0, <3>1 DEF KillInv, Alive
  <2>3. CASE ReapLapse
    <3>1. /\ UNCHANGED <<signalled, bg, teardown>> /\ status' = "err"
          /\ pc = "reap" /\ pc' = "drainOut"
      BY <2>3 DEF ReapLapse
    <3> QED
      BY <1>0, <3>1 DEF KillInv
  <2> QED
    BY <1>8, <2>1, <2>2, <2>3 DEF Select
<1>9. CASE Drain
  <2>1. /\ UNCHANGED <<signalled, teardown, status, child, bg>>
        /\ pc \in {"drainOut", "drainErr"} /\ pc' \in {"drainErr", "exit"}
    BY <1>9 DEF Drain, execVars, childVars, waitVars
  <2> QED
    BY <1>0, <2>1 DEF KillInv, Alive
<1>10. CASE SendExit
  <2>1. UNCHANGED <<signalled, teardown, status, child, bg>> /\ pc = "exit" /\ pc' = "join"
    BY <1>10 DEF SendExit, childVars
  <2> QED
    BY <1>0, <2>1 DEF KillInv, Alive
<1>11. CASE UNCHANGED vars
  BY <1>0, <1>11, KillSame DEF vars, sessionVars, execVars, childVars, waitVars
<1> QED
  BY <1>1, <1>2, <1>3, <1>4, <1>5, <1>6, <1>7, <1>8, <1>9, <1>10, <1>11 DEF Next, Done

(* ReasonInv is preserved. *)

\* A wire that does not grow once cancel has fired keeps the last part of
\* ReasonInv; the rest of it reads only the state of the child and the wait.
LEMMA ReasonSame ==
  ASSUME ReasonInv, UNCHANGED <<child, death, signalled, status, teardown, capped, report>>,
         fired => fired' /\ wire' = wire,
         pc \in {"join", "done"} => pc' \in {"join", "done"}
  PROVE  ReasonInv'
  BY DEF ReasonInv, exit_fields

LEMMA ReasonStep ==
  ASSUME ExecInv, [Next]_vars
  PROVE  ReasonInv'
<1>0. /\ ReasonInv /\ KillInv /\ Phases /\ TerminalInv /\ OutboundTypeOK
      /\ fired \in BOOLEAN /\ signalled \in BOOLEAN
  BY DEF ExecInv, WayInv, TypeOK, SessionTypeOK, WaitTypeOK
<1>1. CASE Client /\ UNCHANGED execVars
  BY <1>0, <1>1, ReasonSame DEF Client, outboundVars, execVars, childVars, waitVars
<1>2. CASE Command
  <2>1. UNCHANGED <<wire, fired, pc, signalled, status, teardown, capped, report>>
    BY <1>2 DEF Command, outboundVars, waitVars
  <2>2. \/ UNCHANGED <<child, death>>
        \/ child \in {"running", "wedged"} /\ child' \in {"running", "wedged"} /\ death' = death
        \/ child = "running" /\ child' = "zombie" /\ death' \in {"code", "signal"}
        \/ child = "running" /\ child' = "zombie" /\ death' = "agent" /\ signalled
    BY <1>2 DEF Command, ChildWrite, ChildActs, ChildWedges, ChildDies, BackgroundExits,
                childVars
  <2> QED
    BY <1>0, <2>1, <2>2 DEF ReasonInv
<1>3. CASE Writer /\ UNCHANGED execVars
  <2>1. fired => fired' /\ wire' = wire
    BY <1>0, <1>3 DEF Writer, WriterCancelled, WriterRecv, WriteFrame, WriterFinish
  <2> QED
    BY <1>0, <1>3, <2>1, ReasonSame DEF Writer, execVars, childVars, waitVars
<1>4. ASSUME NEW s \in Streams, Pump(s)
      PROVE  ReasonInv'
  BY <1>0, <1>4, ReasonSame DEF Pump, execVars, childVars, waitVars
<1>5. CASE Drive /\ UNCHANGED execVars
  <2>1. UNCHANGED <<wire, fired>> /\ (pc \in {"join", "done"} => pc' \in {"join", "done"})
    BY <1>5 DEF Drive, NoRequest, BadRequest, SendError, JoinWriter
  <2> QED
    BY <1>0, <1>5, <2>1, ReasonSame DEF execVars, childVars, waitVars
<1>6. CASE Exec
  <2>1. /\ UNCHANGED <<wire, fired, death, signalled, status, teardown, report>>
        /\ pc = "request" /\ child = "none" /\ child' \in {"none", "running"}
    BY <1>0, <1>6 DEF Exec, ExecRefused, Spawn, childVars, outboundVars, Phases
  <2>2. teardown = ""
    BY <1>0, <2>1 DEF KillInv
  <2> QED
    BY <1>0, <2>1, <2>2 DEF ReasonInv
<1>7. CASE StdinTask
  <2>1. ~fired /\ UNCHANGED <<wire, pc>>
    BY <1>7 DEF StdinTask, outboundVars
  <2> QED
    BY <1>0, <1>7, <2>1, ReasonSame DEF StdinTask, waitVars
<1>8. CASE Select
  <2>0. UNCHANGED <<wire, fired, death, capped, report>> /\ pc \in {"run", "reap"}
    BY <1>8 DEF Select, CancelArm, DeadlineArm, WaitArm, Reap, ReapLapse, outboundVars
  <2>1. report = <<"none", "none">>
    BY <1>0, <2>0 DEF ReasonInv
  <2>2. CASE CancelArm
    <3>1. /\ fired /\ UNCHANGED <<child, status>> /\ signalled' = TRUE
          /\ teardown' = "disconnected"
      BY <2>2 DEF CancelArm, KillGroup
    <3>2. \A i \in 1..Len(wire) : ~Terminal(wire[i])
      BY <1>0, <2>0, NoTerminalYet
    <3> QED
      BY <1>0, <2>0, <2>1, <3>1, <3>2 DEF ReasonInv
  <2>3. CASE DeadlineArm
    <3>1. capped /\ UNCHANGED <<child, status>> /\ signalled' = TRUE /\ teardown' = "timeout"
      BY <2>3 DEF DeadlineArm, KillGroup
    <3> QED
      BY <1>0, <2>0, <2>1, <3>1 DEF ReasonInv
  <2>4. CASE WaitArm \/ Reap
    <3>1. /\ child = "zombie" /\ child' = "reaped" /\ UNCHANGED <<signalled, teardown>>
          /\ status' \in {IF death = "code" THEN "code" ELSE "signal", "err"}
      BY <2>4 DEF WaitArm, Reap, Waited
    <3>2. death \in {"code", "signal", "agent"}
      BY <1>0, <3>1 DEF ReasonInv, ExecInv, TypeOK, ChildTypeOK
    <3> QED
      BY <1>0, <2>0, <2>1, <3>1, <3>2 DEF ReasonInv
  <2>5. CASE ReapLapse
    <3>1. pc = "reap" /\ status' = "err" /\ UNCHANGED <<child, signalled, teardown>>
      BY <2>5 DEF ReapLapse
    <3> QED
      BY <1>0, <2>0, <2>1, <3>1 DEF ReasonInv, KillInv
  <2> QED
    BY <1>8, <2>2, <2>3, <2>4, <2>5 DEF Select
<1>9. CASE Drain
  BY <1>0, <1>9, ReasonSame DEF Drain, outboundVars, execVars, childVars, waitVars
<1>10. CASE SendExit
  <2>1. /\ UNCHANGED <<wire, fired, child, death, signalled, status, teardown, capped>>
        /\ report' = exit_fields(status, teardown) /\ pc = "exit" /\ pc' = "join"
    BY <1>10 DEF SendExit, childVars
  <2>2. status # "none" /\ report' = exit_fields(status, teardown)'
    BY <1>0, <2>1 DEF Phases, exit_fields
  <2> QED
    BY <1>0, <2>1, <2>2 DEF ReasonInv
<1>11. CASE UNCHANGED vars
  BY <1>0, <1>11, ReasonSame DEF vars, sessionVars, outboundVars, execVars, childVars, waitVars
<1> QED
  BY <1>1, <1>2, <1>3, <1>4, <1>5, <1>6, <1>7, <1>8, <1>9, <1>10, <1>11 DEF Next, Done

(* FinishedInv and ExitInv are preserved. *)

LEMMA FinishedSame ==
  ASSUME FinishedInv, UNCHANGED <<pumpVars, child, bg>>
  PROVE  FinishedInv'
BY DEF FinishedInv, pumpVars, Alive

LEMMA FinishedStep ==
  ASSUME ExecInv, [Next]_vars
  PROVE  FinishedInv'
<1>0. FinishedInv /\ PumpTypeOK /\ Phases
  BY DEF ExecInv, TypeOK, SessionTypeOK
<1>1. CASE (Client \/ Writer \/ Drive) /\ UNCHANGED execVars
  BY <1>0, <1>1, FinishedSame DEF Client, Writer, Drive, execVars, childVars
<1>2. CASE Command
  <2>1. ASSUME NEW s \in Streams, ChildWrite(s)
        PROVE  FinishedInv'
    <3>1. UNCHANGED <<pump, taken, child, bg>> /\ (Alive \/ bg # "none")
      BY <2>1 DEF ChildWrite, childVars, Alive
    <3>2. \A r \in Streams : pump[r] # "finished"
      BY <1>0, <3>1 DEF FinishedInv
    <3> QED
      BY <3>1, <3>2 DEF FinishedInv
  <2>2. CASE ChildActs \/ ChildWedges \/ ChildDies \/ BackgroundExits
    <3>1. /\ UNCHANGED <<pump, produced, taken>> /\ (Alive' => Alive)
          /\ bg = "none" => bg' = "none" \/ Alive
      BY <2>2 DEF ChildActs, ChildWedges, ChildDies, BackgroundExits, pumpVars, Alive
    <3> QED
      BY <1>0, <3>1 DEF FinishedInv
  <2> QED
    BY <1>2, <2>1, <2>2 DEF Command
<1>3. ASSUME NEW s \in Streams, Pump(s)
      PROVE  FinishedInv'
  <2>1. UNCHANGED <<child, bg, produced>> /\ (Alive' <=> Alive) /\ pump[s] # "finished"
    BY <1>3 DEF Pump, PumpRead, PumpSend, execVars, childVars, Alive
  <2>2. \A r \in Streams : r # s => pump'[r] = pump[r] /\ taken'[r] = taken[r]
    BY <1>0, <1>3 DEF Pump, PumpRead, PumpSend, PumpTypeOK
  <2>3. pump'[s] = "finished" => PipeEOF(s) /\ taken' = taken
    BY <1>0, <1>3 DEF Pump, PumpRead, PumpSend, PumpTypeOK
  <2> QED
    BY <1>0, <2>1, <2>2, <2>3 DEF FinishedInv, PipeEOF
<1>4. CASE Exec
  <2>1. \A s \in Streams : pump'[s] # "finished"
    BY <1>0, <1>4 DEF Exec, ExecRefused, Spawn, Phases
  <2> QED
    BY <2>1 DEF FinishedInv
<1>5. CASE StdinTask
  BY <1>0, <1>5, FinishedSame DEF StdinTask
<1>6. CASE Select
  <2>1. /\ UNCHANGED <<pump, produced, taken>> /\ (Alive' => Alive)
        /\ bg = "none" => bg' = "none"
    BY <1>6 DEF Select, CancelArm, DeadlineArm, WaitArm, Reap, ReapLapse, Waited, KillGroup,
                pumpVars, Alive
  <2> QED
    BY <1>0, <2>1 DEF FinishedInv
<1>7. CASE Drain
  <2>1. UNCHANGED <<produced, taken, child, bg>> /\ (Alive' <=> Alive)
    BY <1>7 DEF Drain, execVars, childVars, Alive
  <2>2. \A s \in Streams : pump'[s] \in {pump[s], "aborted"}
    BY <1>0, <1>7 DEF Drain, DrainTask, PumpTypeOK
  <2> QED
    BY <1>0, <2>1, <2>2 DEF FinishedInv
<1>8. CASE SendExit
  BY <1>0, <1>8, FinishedSame DEF SendExit, childVars
<1>9. CASE UNCHANGED vars
  BY <1>0, <1>9, FinishedSame DEF vars, sessionVars, execVars, childVars
<1> QED
  BY <1>1, <1>2, <1>3, <1>4, <1>5, <1>6, <1>7, <1>8, <1>9 DEF Next, Done

\* A step that writes nothing can disturb ExitInv only while EXIT is out, and
\* then no task runs any more.
LEMMA ExitSame ==
  ASSUME ExitInv, wire' = wire, OutboundTypeOK, TerminalInv,
         pc \in {"join", "done"} =>
           taken' = taken /\ \A s \in Streams : pump'[s] = "finished" => pump[s] = "finished"
  PROVE  ExitInv'
<1> SUFFICES ASSUME NEW i \in 1..Len(wire), wire[i].type = "EXIT"
             PROVE  \A s \in Streams : pump'[s] = "finished" => Covers(wire, s, taken'[s])
  BY DEF ExitInv, Covers
<1>1. Terminal(wire[i])
  BY DEF Terminal
<1>2. pc \in {"join", "done"}
  BY <1>1, NoTerminalYet
<1> QED
  BY <1>2 DEF ExitInv

LEMMA ExitStep ==
  ASSUME ExecInv, [Next]_vars
  PROVE  ExitInv'
<1>0. /\ ExitInv /\ OutboundTypeOK /\ OutboundTypeOK' /\ PumpTypeOK /\ TerminalInv /\ StreamInv
      /\ Phases
  BY TypeStep DEF ExecInv, WayInv, TypeOK, SessionTypeOK
<1>1. ASSUME UNCHANGED <<outboundVars, pumpVars>>
      PROVE  ExitInv'
  BY <1>0, <1>1, ExitSame DEF outboundVars, pumpVars
<1>2. CASE Client \/ StdinTask \/ Select \/ UNCHANGED vars
  BY <1>1, <1>2 DEF Client, StdinTask, Select, vars, sessionVars
<1>3. CASE Command
  <2>1. UNCHANGED <<wire, pump, taken>>
    BY <1>3 DEF Command, ChildWrite, ChildActs, ChildWedges, ChildDies, BackgroundExits,
                outboundVars, pumpVars
  <2> QED
    BY <1>0, <2>1, ExitSame
<1>4. CASE Drive \/ SendExit
  <2>1. UNCHANGED <<wire, pump, taken>>
    BY <1>4 DEF Drive, SendExit, pumpVars
  <2> QED
    BY <1>0, <2>1, ExitSame
<1>5. ASSUME NEW s \in Streams, Pump(s)
      PROVE  ExitInv'
  <2>1. ~Quiet(s) /\ UNCHANGED wire
    BY <1>5 DEF Pump, PumpRead, PumpSend, Quiet
  <2>2. pc \notin {"join", "done"}
    BY <1>0, <2>1 DEF Phases, Streams
  <2> QED
    BY <1>0, <2>1, <2>2, ExitSame
<1>6. CASE Exec \/ Drain
  <2>1. UNCHANGED wire /\ pc \notin {"join", "done"}
    BY <1>6 DEF Exec, Drain, outboundVars
  <2> QED
    BY <1>0, <2>1, ExitSame
<1>7. CASE Writer
  <2>0. UNCHANGED <<pump, produced, taken, pc>>
    BY <1>7 DEF Writer, pumpVars
  <2>1. CASE wire' = wire
    BY <1>0, <2>0, <2>1, ExitSame
  <2>2. CASE writer = "write" /\ writer' # "gone" /\ Queued' = Queued /\ wire' = wire \o hand
    <3> SUFFICES ASSUME NEW i \in 1..Len(wire'), wire'[i].type = "EXIT",
                        NEW s \in Streams, pump[s] = "finished"
                 PROVE  Covers(wire', s, taken[s])
      BY <2>0 DEF ExitInv, Covers
    <3>1. /\ Len(wire') \in Nat /\ Len(Queued) \in Nat /\ Len(wire') <= Len(Queued)
          /\ \A j \in 1..Len(wire') : Queued[j] = wire'[j]
      <4>1. WireFirst'
        BY <1>0, WireIsFirst, PTL
      <4> QED
        BY <2>2, <4>1 DEF WireFirst
    <3>2. i \in 1..Len(Queued) /\ Terminal(Queued[i])
      BY <3>1 DEF Terminal
    <3>3. i = Len(Queued)
      BY <1>0, <3>2 DEF TerminalInv
    <3>4. Len(wire') = Len(Queued)
      BY <3>1, <3>3
    <3>5. PICK k \in 0..taken[s] : Passed(s, k)
      BY <1>0, <2>2 DEF StreamInv
    <3>6. Covers(Queued, s, taken[s])
      BY <3>5 DEF Passed
    <3> QED
      BY <3>1, <3>4, <3>6 DEF Covers
  <2> QED
    BY <1>0, <1>7, <2>1, <2>2, QueuedWriter
<1> QED
  BY <1>2, <1>3, <1>4, <1>5, <1>6, <1>7 DEF Next, Done

-----------------------------------------------------------------------------
(* The theorems.                                                           *)

LEMMA InvAlways == Spec => []ExecInv
<1>1. ExecInv /\ [Next]_vars => ExecInv'
  BY TypeStep, PhasesStep, WayStep, KillStep, ReasonStep, FinishedStep, ExitStep DEF ExecInv
<1> QED
  BY InvInit, <1>1, PTL DEF Spec

\* Type correctness of exec: in particular no run of it grows the outbound
\* channel beyond CHANNEL_BOUND, and the writer holds a frame exactly while it
\* writes one.
THEOREM TypeCorrect == Spec => []TypeOK
<1>1. ExecInv => TypeOK
  BY DEF ExecInv
<1> QED
  BY InvAlways, <1>1, PTL

\* EXIT or ERROR is the last frame any client of exec ever receives, for every
\* bound of the channel and every amount of output: the drain has stopped both
\* pumps before the terminal frame is queued.
THEOREM TerminalIsLast == Spec => []TerminalLast
<1>1. ExecInv => TerminalLast
  BY WayTerminalLast DEF ExecInv, WayInv, TypeOK, SessionTypeOK
<1> QED
  BY InvAlways, <1>1, PTL

\* exec never leaves its select with a live child it has not sent SIGKILL, and
\* a teardown takes the background processes of the group with it.
THEOREM NothingIsLeftRunning == Spec => []NothingLeftRunning
<1>1. ExecInv => NothingLeftRunning
  BY DEF ExecInv, KillInv, NothingLeftRunning, TypeOK, WaitTypeOK
<1> QED
  BY InvAlways, <1>1, PTL

\* The code and reason of an EXIT that reaches the client are true of how the
\* child ended and of what the agent did to it.
THEOREM ReasonIsTruthful == Spec => []ReasonTruthful
<1>1. ASSUME ExecInv
      PROVE  ReasonTruthful
  <2> SUFFICES ASSUME NEW i \in 1..Len(wire), wire[i].type = "EXIT"
               PROVE  /\ report[2] \in {"exited", "signaled"} => death # "agent" /\ ~signalled
                      /\ report[2] = "exited" => report[1] = "code" /\ death = "code"
                      /\ report[2] = "timeout" => capped /\ signalled
                      /\ report[2] = "error" => (Alive => signalled) /\ report[1] = "-1"
                      /\ report[2] # "disconnected"
    BY DEF ReasonTruthful
  <2>0. ReasonInv /\ KillInv /\ WaitTypeOK
    BY <1>1 DEF ExecInv, TypeOK
  <2>1. teardown # "disconnected"
    BY <2>0 DEF ReasonInv, Terminal
  <2>2. CASE report = <<"none", "none">>
    BY <2>2
  <2>3. CASE report = exit_fields(status, teardown) /\ status # "none"
    <3>1. CASE status = "err"
      BY <2>0, <2>3, <3>1 DEF ReasonInv, exit_fields, Alive
    <3>2. CASE status \in {"code", "signal"} /\ teardown = ""
      BY <2>0, <2>3, <3>2 DEF ReasonInv, KillInv, exit_fields
    <3>3. CASE status \in {"code", "signal"} /\ teardown = "timeout"
      BY <2>0, <2>3, <3>3 DEF ReasonInv, KillInv, exit_fields
    <3> QED
      BY <2>0, <2>1, <2>3, <3>1, <3>2, <3>3 DEF WaitTypeOK
  <2> QED
    BY <2>0, <2>2, <2>3 DEF ReasonInv
<1> QED
  BY InvAlways, <1>1, PTL

\* No step of an exec session writes a frame to the client once cancel has
\* fired.
THEOREM CancelSilences == Spec => CancelSilencesWire
<1>1. [Next]_vars => [fired => wire' = wire]_sessionVars
  <2> SUFFICES ASSUME Next
               PROVE  fired => wire' = wire
    BY DEF vars
  <2>1. CASE Writer
    BY <2>1, WriterSilenced
  <2>2. CASE Client \/ Command \/ (\E s \in Streams : Pump(s)) \/ Drive
    BY <2>2 DEF Client, Command, Pump, Drive, outboundVars
  <2>3. CASE Exec \/ StdinTask \/ Select \/ Drain \/ SendExit \/ Done
    BY <2>3 DEF Exec, StdinTask, Select, Drain, SendExit, Done, vars, sessionVars, outboundVars
  <2> QED
    BY <2>1, <2>2, <2>3 DEF Next
<1> QED
  BY <1>1, PTL DEF Spec, CancelSilencesWire

\* When the client has EXIT, it has every chunk of every stream whose pump was
\* not cut off by the drain grace: nothing a finished pump read is lost on the
\* way, and nothing is written after its end of file.
THEOREM ExitFollowsOutput == Spec => []ExitAfterOutput
<1>1. ASSUME ExecInv
      PROVE  ExitAfterOutput
  <2> SUFFICES ASSUME \E i \in 1..Len(wire) : wire[i].type = "EXIT",
                      NEW s \in Streams, pump[s] = "finished"
               PROVE  Output!Got(s) = 1..produced[s]
    BY DEF ExitAfterOutput
  <2>1. ExitInv /\ FinishedInv /\ PumpTypeOK /\ OutboundTypeOK
    BY <1>1 DEF ExecInv, TypeOK, SessionTypeOK
  <2>2. Covers(wire, s, produced[s]) /\ produced[s] \in Nat /\ wire \in Seq(OutFrames)
    BY <2>1 DEF ExitInv, FinishedInv, PumpTypeOK, OutboundTypeOK
  <2> QED
    BY <2>2, CoversGot
<1> QED
  BY InvAlways, <1>1, PTL

\* exec implements the abstract output stream: every write to the client is the
\* next chunk of one of the streams, or the terminal frame at the end.
THEOREM ExecImplementsOutput == Spec => ImplementsOutputStream
<1>1. Init => Output!Init
  BY OutputInit DEF Init
<1>2. ExecInv /\ [Next]_vars => [Output!Next]_(Output!vars)
  <2> SUFFICES ASSUME ExecInv, [Next]_vars
               PROVE  [Output!Next]_(Output!vars)
    OBVIOUS
  <2>1. CASE Writer
    BY <2>1, OutputWriter DEF ExecInv, TypeOK
  <2>2. CASE Command
    <3>1. wire' = wire
      BY <2>2 DEF Command, outboundVars
    <3>2. \/ produced' = produced
          \/ \E s \in Streams : produced' = [produced EXCEPT ![s] = @ + 1]
      BY <2>2 DEF Command, ChildWrite, ChildActs, ChildWedges, ChildDies, BackgroundExits,
                  pumpVars
    <3> QED
      BY <3>1, <3>2, OutputOther
  <2>3. CASE Client \/ (\E s \in Streams : Pump(s)) \/ Drive
    BY <2>3, OutputOther DEF Client, Pump, Drive, outboundVars, pumpVars
  <2>4. CASE Exec \/ StdinTask \/ Select \/ Drain \/ SendExit \/ UNCHANGED vars
    BY <2>4, OutputOther DEF Exec, StdinTask, Select, Drain, SendExit, vars, sessionVars,
                             outboundVars, pumpVars
  <2> QED
    BY <2>1, <2>2, <2>3, <2>4 DEF Next, Done
<1> QED
  BY InvAlways, <1>1, <1>2, PTL DEF Spec, ImplementsOutputStream, Output!Spec
=============================================================================
