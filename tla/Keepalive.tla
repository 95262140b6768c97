------------------------------ MODULE Keepalive -----------------------------
(***************************************************************************)
(* The keepalive contract between the agent and its clients, in discrete   *)
(* time.  The agent tears a session down when no frame arrives for         *)
(* idle_timeout, or when what it writes to the command's stdin is not      *)
(* taken for as long (src/src/session.rs, exec's stdin_task and open_pty's *)
(* input_task: one task that reads a frame and then writes it).  The       *)
(* clients keep a quiet session alive with PING frames, in two ways:       *)
(* guest_cmd.py and telnet_gateway.py ping when select() has timed out, so *)
(* everything that makes a descriptor readable restarts the interval;      *)
(* ssh_gateway.py pings from a timer task of its own.                      *)
(***************************************************************************)
EXTENDS Naturals, Sequences

CONSTANTS
  PING_INTERVAL_S,  \* the clients' interval, in ticks
  idle_timeout,     \* the agent's, in ticks
  MaxDelay,         \* most ticks a frame takes to the agent's end
  Backlog,          \* most frames between client and agent's reader
  TimerDriven,      \* the client pings from a timer (ssh_gateway.py)
  Chatty            \* the command may write output

ASSUME KeepaliveAssumption ==
  /\ PING_INTERVAL_S \in Nat \ {0}
  /\ idle_timeout \in Nat
  /\ MaxDelay \in Nat
  /\ Backlog \in Nat \ {0}
  /\ PING_INTERVAL_S + MaxDelay < idle_timeout
  /\ TimerDriven \in BOOLEAN /\ Chatty \in BOOLEAN

VARIABLES
  verb,     \* "exec" or "open-pty"
  alive,    \* the client runs
  dead,     \* ticks since it died, without the transport saying so
  waited,   \* ticks the client's select() or sleep() has lasted
  transit,  \* the frames the agent has not read, oldest first
  reader,   \* the agent's task: at "read", at "write" (of a STDIN frame to the
            \* command), or "retired" when exec's command closed its stdin
  clock,    \* ticks that read or write has lasted
  session   \* "live", "cancelled" by one of the two timeouts, or "over" when
            \* open-pty's write failed

vars == <<verb, alive, dead, waited, transit, reader, clock, session>>

\* A dead client's session may outlive it while the agent writes the frames it
\* left, one in hand and a backlog, and then by one read; dead counts to the
\* next tick.
Horizon == (Backlog + 2) * idle_timeout + 1

\* A frame: whether the agent has to write it to the command (STDIN, as long as
\* stdin is open), and its age, which beyond MaxDelay makes no difference.
Frames == [write : BOOLEAN, age : 0..MaxDelay]

NewFrame(w) == [write |-> w, age |-> 0]

TypeOK ==
  /\ verb \in {"exec", "open-pty"}
  /\ alive \in BOOLEAN
  /\ dead \in 0..Horizon
  /\ waited \in 0..PING_INTERVAL_S
  /\ transit \in Seq(Frames) /\ Len(transit) <= Backlog
  /\ reader \in {"read", "write", "retired"}
  /\ clock \in 0..idle_timeout
  /\ session \in {"live", "cancelled", "over"}

\* The REQUEST is the first frame under way.
Init ==
  /\ verb \in {"exec", "open-pty"}
  /\ alive = TRUE /\ dead = 0
  /\ waited = 0 /\ transit = <<NewFrame(FALSE)>>
  /\ reader = "read" /\ clock = 0 /\ session = "live"

-----------------------------------------------------------------------------
(* The client.  While the transport is full it waits in its send.          *)

Room == Len(transit) < Backlog

\* Mutant: the loop goes round without the PING.
PingForgotten ==
  /\ alive /\ waited = PING_INTERVAL_S
  /\ waited' = 0
  /\ UNCHANGED <<verb, alive, dead, transit, reader, clock, session>>

\* The interval is over: PING, and wait again.
Ping ==
  /\ alive /\ waited = PING_INTERVAL_S /\ Room
  /\ transit' = Append(transit, NewFrame(FALSE)) /\ waited' = 0
  /\ UNCHANGED <<verb, alive, dead, reader, clock, session>>

\* The user types: select() returns and a STDIN frame is sent, or one that the
\* agent does not write.  The timer client sends it from another task.
Input ==
  /\ alive /\ Room
  /\ \E w \in BOOLEAN : transit' = Append(transit, NewFrame(w))
  /\ waited' = IF TimerDriven THEN waited ELSE 0
  /\ UNCHANGED <<verb, alive, dead, reader, clock, session>>

Die ==
  /\ alive /\ alive' = FALSE
  /\ UNCHANGED <<verb, dead, waited, transit, reader, clock, session>>

-----------------------------------------------------------------------------
(* The agent.                                                              *)

\* Mutant: the agent counts its own writes as a sign of the client's life.
OutputFeedsIdle ==
  /\ Chatty
  /\ waited' = IF TimerDriven \/ ~alive THEN waited ELSE 0
  /\ clock' = 0
  /\ UNCHANGED <<verb, alive, dead, transit, reader, session>>

\* The agent writes output.  At a select() client the guest socket becomes
\* readable, the frame is consumed, and the next select() starts from zero.
Output ==
  /\ Chatty
  /\ waited' = IF TimerDriven \/ ~alive THEN waited ELSE 0
  /\ UNCHANGED <<verb, alive, dead, transit, reader, clock, session>>

\* The agent reads a frame.  STDIN is written before anything else is read;
\* after any other frame the next read starts.
Receive ==
  /\ reader = "read" /\ transit # <<>>
  /\ reader' = IF Head(transit).write THEN "write" ELSE "read"
  /\ transit' = Tail(transit) /\ clock' = 0
  /\ UNCHANGED <<verb, alive, dead, waited, session>>

\* The command has taken the frame; the idle clock of the next read starts
\* only now.
WriteDone ==
  /\ reader = "write"
  /\ reader' = "read" /\ clock' = 0
  /\ UNCHANGED <<verb, alive, dead, waited, transit, session>>

\* The command closed its stdin: exec's task ends and leaves the session to
\* itself, the end of open-pty's hangs up the shell.
WriteFails ==
  /\ reader = "write"
  /\ \/ verb = "exec" /\ reader' = "retired" /\ UNCHANGED session
     \/ verb = "open-pty" /\ session' = "over" /\ UNCHANGED reader
  /\ UNCHANGED <<verb, alive, dead, waited, transit, clock>>

\* Both the read and the write are bounded by idle_timeout.
IdleElapsed ==
  /\ reader # "retired" /\ clock = idle_timeout
  /\ session' = "cancelled"
  /\ UNCHANGED <<verb, alive, dead, waited, transit, reader, clock>>

Older(f) == [f EXCEPT !.age = IF @ = MaxDelay THEN @ ELSE @ + 1]

\* Time passes unless something is due now: a PING for which there is room, a
\* timeout of the agent, or a frame that has arrived and is waited for.
Tick ==
  /\ alive /\ Room => waited < PING_INTERVAL_S
  /\ reader # "retired" => clock < idle_timeout
  /\ reader = "read" /\ transit # <<>> => Head(transit).age < MaxDelay
  /\ waited' = IF alive /\ waited < PING_INTERVAL_S THEN waited + 1 ELSE waited
  /\ dead' = IF alive \/ dead = Horizon THEN dead ELSE dead + 1
  /\ transit' = [i \in DOMAIN transit |-> Older(transit[i])]
  /\ clock' = IF reader = "retired" THEN clock ELSE clock + 1
  /\ UNCHANGED <<verb, alive, reader, session>>

Over == session # "live" /\ UNCHANGED vars

Next ==
  \/ /\ session = "live"
     /\ \/ Ping \/ Input \/ Die \/ Output \/ Receive \/ WriteDone \/ WriteFails
        \/ IdleElapsed \/ Tick
  \/ Over

Spec == Init /\ [][Next]_vars

-----------------------------------------------------------------------------
\* The agent never takes silence of a client that is alive for its death: as
\* long as client and transport keep their bounds, and however input, output,
\* pings, delays and a command that is slow to read interleave, a live client is
\* cancelled only when a single frame of its input has kept the agent writing
\* for a whole idle_timeout.
LiveClientKept ==
  alive /\ session = "cancelled" => reader = "write" /\ clock = idle_timeout

\* A client that died without a trace is noticed, whatever the command still
\* writes: its session outlives it at most by the idle_timeout of a last read
\* and, for each frame it left to be written, that of a write.  The exception is
\* exec's reader that was retired, after which nobody can tell.
DeadClientCaught == reader # "retired" => dead <= (Backlog + 2) * idle_timeout

\* Why the first holds: while the client lives, what the agent's read has lasted
\* is within the client's interval, or within an interval and the age of the
\* frame it will get.
LiveRecent ==
  alive /\ reader = "read" =>
    /\ transit = <<>> => clock <= waited
    /\ transit # <<>> => clock <= Head(transit).age + PING_INTERVAL_S

\* The time that the frames of a dead client the agent has read since took at
\* most.
Spent == (Backlog - Len(transit)) * idle_timeout

\* Why the second does: a frame that may still be under way is at least as old
\* as the client's death, so no time is spent on reading while one is left that
\* has arrived; a write has its own clock, and so has the last read.
DeadRecent ==
  /\ alive => dead = 0
  /\ \A i \in DOMAIN transit : transit[i].age < MaxDelay => dead <= transit[i].age
  /\ reader = "write" => dead <= Spent + clock
  /\ reader = "read" =>
       dead <= Spent + idle_timeout + (IF transit = <<>> THEN clock ELSE 0)

\* The inductive invariant: the agent's clock never runs ahead of the client's
\* last frame.
KeepaliveInv == TypeOK /\ LiveClientKept /\ LiveRecent /\ DeadRecent
=============================================================================
