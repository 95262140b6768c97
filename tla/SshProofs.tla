------------------------------ MODULE SshProofs -----------------------------
(* The SSH session for every water mark, window and writer capacity.       *)
EXTENDS SshSession, FiniteSetTheorems, TLAPS

\* The tasks: which exist at which stage, and that a closed vsock means that
\* they are over or cancelled, an open one that none is cancelled.
Tasks ==
  /\ run \in {"connect", "hello", "request", "live", "over", "raised"}
  /\ inb \in {"none", "get", "drain", "over"} /\ keep \in {"none", "sleep", "drain", "over"}
  /\ cancel \subseteq {"run", "inb", "keep"}
  /\ writer \in {"none", "open", "closed"}
  /\ run \in {"connect", "hello", "request"} => inb = "none" /\ keep = "none"
  /\ run = "live" => inb # "none" /\ keep # "none"
  /\ run = "connect" => writer = "none"
  /\ writer = "none" => run \in {"connect", "over"} /\ inb = "none" /\ keep = "none"
  /\ cancel # {} => writer # "open"
  /\ cancel \ {"run"} \subseteq Pumps
  /\ writer = "closed" => Pumps \subseteq cancel /\ (run \in {"over", "raised"} \/ "run" \in cancel)

\* Frames of the tasks that wait in drain().
Undrained ==
  (IF inb = "drain" THEN 1 ELSE 0) + (IF keep = "drain" THEN 1 ELSE 0)
    + (IF run = "request" THEN 1 ELSE 0)

\* The guest, and what is on its way to it: while it is there, at most what
\* the tasks wait for on top of UpCap.
Upward ==
  /\ guest \in {"silent", "ok", "refused", "session", "over", "gone", "reset"}
  /\ up \in 0..(UpCap + 2)
  /\ ~GuestGone /\ writer = "open" => up <= UpCap + Undrained
  /\ run \in {"connect", "hello"} => up = 0 /\ guest \notin {"session", "over"}
  /\ SessionAttended

LEMMA TasksInit == Init => Tasks /\ Upward
<1> SUFFICES ASSUME Init
             PROVE  Tasks /\ Upward
  OBVIOUS
<1>1. Tasks
  BY DEF Init, Tasks, Pumps
<1>2. Upward
  BY SshAssumption DEF Init, Upward, GuestGone, Undrained, SessionAttended
<1> QED
  BY <1>1, <1>2

LEMMA TasksStep == Tasks /\ Upward /\ [Next]_vars => Tasks' /\ Upward'
<1> SUFFICES ASSUME Tasks, Upward, [Next]_vars
             PROVE  Tasks' /\ Upward'
  OBVIOUS
<1> USE SshAssumption DEF Tasks, Upward, Undrained, GuestGone, Pumps, SessionAttended
<1>1. CASE Input
  BY <1>1 DEF Input, taskVars, guestVars
<1>2. CASE Take
  BY <1>2 DEF Take, taskVars, guestVars
<1>3. CASE Lost
  BY <1>3 DEF Lost, connection_lost, guestVars
<1>4. CASE Guest
  BY <1>4 DEF Guest, GuestAnswers, GuestReads, GuestOutput, GuestEnds, GuestCloses, taskVars
<1>5. CASE RunStep
  <2>1. CASE Alive("run") /\ connect
    <3>1. cancel = {} /\ Pumps = {} /\ inb = "none" /\ keep = "none"
      BY <2>1 DEF connect, Alive
    <3>2. Tasks'
      BY <2>1, <3>1 DEF connect
    <3> QED
      BY <2>1, <3>1, <3>2 DEF connect
  <2>2. CASE Alive("run") /\ hello
    BY <2>2 DEF hello, WriteFrame, Alive
  <2>3. CASE Alive("run") /\ request
    BY <2>3 DEF request, Drained, Alive
  <2>4. CASE Alive("run") /\ pump_outbound
    BY <2>4 DEF pump_outbound, Finally, Alive
  <2>5. CASE ~Alive("run") /\ run_cancelled
    BY <2>5 DEF run_cancelled, Finally, Alive
  <2> QED
    BY <1>5, <2>1, <2>2, <2>3, <2>4, <2>5 DEF RunStep
<1>6. CASE InbStep
  <2>1. CASE Alive("inb") /\ pump_inbound_get
    BY <1>6, <2>1 DEF InbStep, pump_inbound_get, WriteFrame, Alive, guestVars
  <2>2. CASE Alive("inb") /\ pump_inbound_drain
    BY <1>6, <2>2 DEF InbStep, pump_inbound_drain, Drained, Alive, guestVars
  <2>3. CASE ~Alive("inb")
    BY <1>6, <2>3 DEF InbStep, Alive, guestVars
  <2> QED
    BY <1>6, <2>1, <2>2, <2>3 DEF InbStep
<1>7. CASE KeepStep
  <2>1. CASE Alive("keep") /\ keepalive
    BY <1>7, <2>1 DEF KeepStep, keepalive, WriteFrame, Drained, Alive, guestVars
  <2>2. CASE ~Alive("keep")
    BY <1>7, <2>2 DEF KeepStep, Alive, guestVars
  <2> QED
    BY <1>7, <2>1, <2>2 DEF KeepStep
<1>8. CASE UNCHANGED vars
  BY <1>8 DEF vars, taskVars, guestVars
<1> QED
  BY <1>1, <1>2, <1>3, <1>4, <1>5, <1>6, <1>7, <1>8 DEF Next, Done

-----------------------------------------------------------------------------
(* The queue and the buffer to the client.                                 *)

Queues ==
  /\ inbound \in Seq({"data", "resize", "eof"}) /\ held \in Seq({"data", "eof"})
  /\ paused \in BOOLEAN

\* _write_resumed is set only below the mark, so a write exceeds it by one.
Buffer ==
  /\ buf \in Nat /\ flowing \in BOOLEAN
  /\ flowing => buf <= OutHigh
  /\ buf <= OutHigh + 1

LEMMA QueuesStep == Queues /\ [Next]_vars => Queues'
<1> SUFFICES ASSUME Queues, [Next]_vars
             PROVE  Queues'
  OBVIOUS
<1> USE DEF Queues
<1>1. CASE Input
  <2>1. ASSUME NEW item \in {"data", "resize", "eof"}, enqueue(item)
        PROVE  Queues'
    <3>1. Append(inbound, item) \in Seq({"data", "resize", "eof"})
      OBVIOUS
    <3> QED
      BY <2>1, <3>1 DEF enqueue
  <2>2. ASSUME NEW item \in {"data", "eof"}, Receive(item)
        PROVE  Queues'
    <3>1. Append(held, item) \in Seq({"data", "eof"})
      OBVIOUS
    <3> QED
      BY <2>1, <2>2, <3>1 DEF Receive
  <2> QED
    BY <1>1, <2>1, <2>2 DEF Input, data_received, eof_received, terminal_size_changed
<1>2. CASE InbStep
  <2>1. CASE pump_inbound_get
    <3>1. Tail(inbound) \in Seq({"data", "resize", "eof"})
      BY <2>1 DEF pump_inbound_get
    <3>2. held \in Seq({"data", "resize", "eof"})
      OBVIOUS
    <3>3. Tail(inbound) \o held \in Seq({"data", "resize", "eof"})
      BY <3>1, <3>2
    <3>4. <<>> \in Seq({"data", "eof"})
      OBVIOUS
    <3> QED
      BY <2>1, <3>1, <3>3, <3>4 DEF pump_inbound_get
  <2>2. CASE UNCHANGED queueVars
    BY <2>2 DEF queueVars
  <2> QED
    BY <1>2, <2>1, <2>2 DEF InbStep, pump_inbound_drain, queueVars
<1>3. CASE Take \/ Lost \/ Guest \/ RunStep \/ KeepStep \/ UNCHANGED vars
  BY <1>3 DEF Take, Lost, Guest, RunStep, KeepStep, connect, hello, request, pump_outbound,
              run_cancelled, vars, queueVars
<1> QED
  BY <1>1, <1>2, <1>3 DEF Next, Done

LEMMA BufferStep == Buffer /\ [Next]_vars => Buffer'
<1> SUFFICES ASSUME Buffer, [Next]_vars
             PROVE  Buffer'
  OBVIOUS
<1> USE SshAssumption DEF Buffer
<1>1. CASE Take
  <2>1. buf' \in Nat /\ buf' <= OutHigh
    BY <1>1 DEF Take
  <2>2. flowing' \in BOOLEAN
    BY <1>1 DEF Take, resume_writing
  <2> QED
    BY <2>1, <2>2
<1>2. CASE RunStep
  <2>1. CASE pump_outbound
    <3>1. CASE buf' = buf + 1 /\ pause_writing
      <4>1. flowing /\ buf' \in Nat /\ buf' <= OutHigh + 1
        BY <2>1, <3>1 DEF pump_outbound, OutReady
      <4>2. CASE buf' > OutHigh
        <5>1. flowing' = FALSE
          BY <3>1, <4>2 DEF pause_writing
        <5> QED
          BY <4>1, <5>1
      <4>3. CASE ~(buf' > OutHigh)
        <5>1. flowing' = flowing
          BY <3>1, <4>3 DEF pause_writing
        <5> QED
          BY <4>1, <4>3, <5>1
      <4> QED
        BY <4>2, <4>3
    <3>2. CASE UNCHANGED outVars
      BY <3>2 DEF outVars
    <3> QED
      BY <2>1, <3>1, <3>2 DEF pump_outbound
  <2>2. CASE UNCHANGED outVars
    BY <2>2 DEF outVars
  <2> QED
    BY <1>2, <2>1, <2>2 DEF RunStep, connect, hello, request, run_cancelled
<1>3. CASE Input \/ Lost \/ Guest \/ InbStep \/ KeepStep \/ UNCHANGED vars
  BY <1>3 DEF Input, Lost, Guest, InbStep, KeepStep, vars, outVars
<1> QED
  BY <1>1, <1>2, <1>3 DEF Next, Done

-----------------------------------------------------------------------------
(* The bound of the queue.                                                 *)

\* The most a resume hands over, and the event that pauses again.
Most ==
  IF INBOUND_LOW_WATER + Window + 1 > INBOUND_HIGH_WATER
  THEN INBOUND_LOW_WATER + Window + 1 ELSE INBOUND_HIGH_WATER

\* asyncssh keeps back no more than the window.  While reading is not paused
\* there is room for one event of any kind; while it is, only window changes
\* are added.
Bounds ==
  /\ Len(held) <= Window
  /\ ~paused => Len(inbound) < Most
  /\ Cardinality(Others(inbound)) <= Most

LEMMA OthersFinite ==
  ASSUME NEW S, NEW q \in Seq(S)
  PROVE  IsFiniteSet(Others(q)) /\ Cardinality(Others(q)) <= Len(q)
<1>1. Len(q) \in Nat /\ Others(q) \in SUBSET (1..Len(q))
  BY DEF Others
<1>2. IsFiniteSet(1..Len(q)) /\ Cardinality(1..Len(q)) = Len(q)
  <2>1. /\ 1 \in Int /\ Len(q) \in Int
        /\ Len(q) = IF 1 > Len(q) THEN 0 ELSE Len(q) - 1 + 1
    BY <1>1
  <2> QED
    BY <2>1, FS_Interval, Zenon
<1> QED
  BY <1>1, <1>2, FS_Subset

\* Taking the first event leaves no more of them.
LEMMA OthersTail ==
  ASSUME NEW S, NEW q \in Seq(S), q # <<>>
  PROVE  Cardinality(Others(Tail(q))) <= Cardinality(Others(q))
<1> DEFINE f == [i \in Others(Tail(q)) |-> i + 1]
<1>1. /\ Tail(q) \in Seq(S) /\ Len(Tail(q)) = Len(q) - 1
      /\ \A i \in 1..Len(Tail(q)) : Tail(q)[i] = q[i + 1]
  OBVIOUS
<1>2. \A i \in Others(Tail(q)) : i \in Nat /\ i + 1 \in Others(q)
  BY <1>1 DEF Others
<1>3. f \in Injection(Others(Tail(q)), Others(q))
  <2>1. f \in [Others(Tail(q)) -> Others(q)]
    BY <1>2
  <2>2. \A i, j \in Others(Tail(q)) : f[i] = f[j] => i = j
    BY <1>2
  <2> QED
    BY <2>1, <2>2 DEF Injection, IsInjective
<1> QED
  BY <1>3, OthersFinite, FS_Injection

LEMMA BoundsInit == Init => Queues /\ Bounds
<1> SUFFICES ASSUME Init
             PROVE  Queues /\ Bounds
  OBVIOUS
<1>1. /\ <<>> \in Seq({"data", "resize", "eof"}) /\ <<>> \in Seq({"data", "eof"})
      /\ Len(<<>>) = 0
  OBVIOUS
<1>2. Others(<<>>) = {} /\ Cardinality({}) = 0
  BY FS_EmptySet DEF Others
<1>3. Most \in Nat /\ Most > 0
  BY SshAssumption DEF Most
<1>4. inbound = <<>> /\ held = <<>> /\ paused = FALSE
  BY DEF Init
<1>5. Queues
  BY <1>1, <1>4 DEF Queues
<1>6. Len(inbound) = 0 /\ Len(held) = 0 /\ Cardinality(Others(inbound)) = 0
  BY <1>1, <1>2, <1>4, Zenon
<1>7. Bounds
  BY <1>3, <1>6, SshAssumption DEF Bounds
<1> QED
  BY <1>5, <1>7

LEMMA BoundsStep == Queues /\ Bounds /\ [Next]_vars => Bounds'
<1> SUFFICES ASSUME Queues, Bounds, [Next]_vars
             PROVE  Bounds'
  OBVIOUS
<1> DEFINE Events == {"data", "resize", "eof"}
<1>0. /\ Most \in Nat /\ INBOUND_HIGH_WATER <= Most /\ INBOUND_LOW_WATER + Window < Most
      /\ Window \in Nat /\ INBOUND_LOW_WATER \in Nat /\ INBOUND_HIGH_WATER \in Nat
  BY SshAssumption DEF Most
<1>1. /\ inbound \in Seq(Events) /\ Len(inbound) \in Nat
      /\ held \in Seq({"data", "eof"}) /\ Len(held) \in Nat /\ paused \in BOOLEAN
  BY DEF Queues
<1>2. ASSUME NEW item \in Events, enqueue(item), ~paused \/ item = "resize"
      PROVE  Bounds'
  <2>1. inbound' = Append(inbound, item) /\ inbound' \in Seq(Events) /\ Len(inbound') = Len(inbound) + 1
    BY <1>1, <1>2 DEF enqueue
  <2>2. held' = held /\ paused' = (paused \/ Len(inbound') >= INBOUND_HIGH_WATER)
    BY <1>2 DEF enqueue
  <2>3. ~paused' => Len(inbound') < Most
    <3>1. ~(Len(inbound') >= INBOUND_HIGH_WATER) => Len(inbound') < Most
      BY <1>0, <1>1, <2>1
    <3> QED
      BY <2>2, <3>1, Zenon
  <2>4. Cardinality(Others(inbound')) <= Most
    <3>1. CASE ~paused
      <4>1. Len(inbound') <= Most
        BY <1>0, <1>1, <2>1, <3>1 DEF Bounds
      <4>2. Cardinality(Others(inbound')) <= Len(inbound') /\ Cardinality(Others(inbound')) \in Nat
        BY <2>1, OthersFinite, FS_CardinalityType
      <4> QED
        BY <1>0, <1>1, <2>1, <4>1, <4>2
    <3>2. CASE item = "resize"
      <4>1. Others(inbound') = Others(inbound)
        BY <1>1, <2>1, <3>2 DEF Others
      <4> QED
        BY <4>1 DEF Bounds
    <3> QED
      BY <1>2, <3>1, <3>2
  <2> QED
    BY <2>2, <2>3, <2>4 DEF Bounds
<1>3. CASE Input
  <2>1. ASSUME NEW item \in {"data", "eof"}, Receive(item)
        PROVE  Bounds'
    <3>1. CASE ~paused /\ enqueue(item)
      BY <1>2, <3>1
    <3>2. CASE paused /\ Len(held) < Window /\ held' = Append(held, item) /\ UNCHANGED <<inbound, paused>>
      <4>1. Len(held') <= Window
        BY <1>0, <1>1, <3>2
      <4> QED
        BY <3>2, <4>1 DEF Bounds
    <3> QED
      BY <2>1, <3>1, <3>2 DEF Receive
  <2> QED
    BY <1>2, <1>3, <2>1 DEF Input, data_received, eof_received, terminal_size_changed
<1>4. CASE InbStep
  <2>1. CASE pump_inbound_get
    <3> DEFINE rest == Tail(inbound)
    <3>1. inbound # <<>> /\ rest \in Seq(Events) /\ Len(rest) = Len(inbound) - 1
      BY <1>1, <2>1 DEF pump_inbound_get
    <3>2. CASE paused /\ BelowLowWater(rest)
      <4>1. held' = <<>> /\ inbound' = rest \o held
        BY <2>1, <3>2 DEF pump_inbound_get
      <4>2. held \in Seq(Events)
        BY <1>1
      <4>3. inbound' \in Seq(Events) /\ Len(inbound') = Len(rest) + Len(held) /\ Len(held') = 0
        BY <3>1, <4>1, <4>2
      <4>4. Len(inbound') < Most
        BY <1>0, <1>1, <3>1, <3>2, <4>3 DEF BelowLowWater, Bounds
      <4>5. Cardinality(Others(inbound')) <= Len(inbound') /\ Cardinality(Others(inbound')) \in Nat
        BY <4>3, OthersFinite, FS_CardinalityType
      <4> QED
        BY <1>0, <4>3, <4>4, <4>5 DEF Bounds
    <3>3. CASE ~(paused /\ BelowLowWater(rest))
      <4>1. inbound' = rest /\ UNCHANGED <<paused, held>>
        BY <2>1, <3>3 DEF pump_inbound_get
      <4>2. /\ Cardinality(Others(rest)) <= Cardinality(Others(inbound))
            /\ Cardinality(Others(rest)) \in Nat /\ Cardinality(Others(inbound)) \in Nat
        BY <1>1, <3>1, OthersTail, OthersFinite, FS_CardinalityType
      <4> QED
        BY <1>0, <1>1, <3>1, <4>1, <4>2 DEF Bounds
    <3> QED
      BY <3>2, <3>3
  <2>2. CASE UNCHANGED queueVars
    BY <2>2 DEF queueVars, Bounds
  <2> QED
    BY <1>4, <2>1, <2>2 DEF InbStep, pump_inbound_drain, queueVars
<1>5. CASE Take \/ Lost \/ Guest \/ RunStep \/ KeepStep \/ UNCHANGED vars
  <2>1. UNCHANGED queueVars
    BY <1>5 DEF Take, Lost, Guest, RunStep, KeepStep, connect, hello, request, pump_outbound,
                run_cancelled, vars, queueVars
  <2> QED
    BY <2>1 DEF queueVars, Bounds
<1> QED
  BY <1>3, <1>4, <1>5 DEF Next, Done

-----------------------------------------------------------------------------
(* The stream from the guest and the status of the channel.                *)

\* EXIT is the last frame of the guest; it stays on its way until _run reads
\* it, unless a reset takes it.
Downward ==
  /\ down \in Seq({"OUT", "EXIT", "ERROR", "BAD"}) /\ exited \in BOOLEAN
  /\ status \in {"none", "code", "zero", "one"}
  /\ chan = "open" => status = "none"
  /\ run \in {"connect", "hello", "request", "live"} => status = "none"
  /\ guest \in {"silent", "ok", "refused", "session"} => ~exited
  /\ guest = "session" => status = "none" /\ \A i \in 1..Len(down) : down[i] = "OUT"
  /\ \A i \in 1..Len(down) : down[i] # "OUT" => i = Len(down)
  /\ \A i \in 1..Len(down) : down[i] = "EXIT" => exited
  /\ exited /\ run \in {"request", "live"} /\ guest # "reset" =>
       Len(down) > 0 /\ down[Len(down)] = "EXIT"
  /\ run \in {"connect", "hello"} => ~exited /\ down = <<>>

LEMMA DownwardStep ==
  Tasks /\ Upward /\ Downward /\ ExitTruthful /\ [Next]_vars => Downward' /\ ExitTruthful'
<1> SUFFICES ASSUME Tasks, Upward, Downward, ExitTruthful, [Next]_vars
             PROVE  Downward' /\ ExitTruthful'
  OBVIOUS
<1> USE DEF Downward, ExitTruthful, GuestGone, Upward
<1>1. CASE Input \/ Take \/ InbStep \/ KeepStep \/ UNCHANGED vars
  BY <1>1 DEF Input, Take, InbStep, KeepStep, vars, taskVars, chanVars, guestVars
<1>2. CASE Lost
  BY <1>2 DEF Lost, connection_lost, guestVars
<1>3. CASE Guest
  <2>1. CASE GuestAnswers \/ GuestReads
    BY <1>3, <2>1 DEF Guest, GuestAnswers, GuestReads, taskVars, chanVars
  <2>2. CASE GuestOutput
    <3>1. /\ down' = Append(down, "OUT") /\ down' \in Seq({"OUT", "EXIT", "ERROR", "BAD"})
          /\ \A i \in 1..Len(down') : down'[i] = "OUT"
      BY <2>2 DEF GuestOutput
    <3> QED
      BY <1>3, <2>2, <3>1 DEF Guest, GuestOutput, taskVars, chanVars, Tasks
  <2>3. CASE GuestEnds
    <3>1. PICK f \in {"EXIT", "ERROR", "BAD"} : down' = Append(down, f) /\ exited' = (f = "EXIT")
      BY <2>3 DEF GuestEnds
    <3>2. /\ down' \in Seq({"OUT", "EXIT", "ERROR", "BAD"}) /\ Len(down') = Len(down) + 1
          /\ down'[Len(down')] = f
          /\ \A i \in 1..Len(down') : i # Len(down') => down'[i] = "OUT"
      BY <2>3, <3>1 DEF GuestEnds
    <3> QED
      <4>1. guest' = "over" /\ exited' \in BOOLEAN /\ status' = "none" /\ UNCHANGED <<run, chan>>
        BY <1>3, <2>3, <3>1 DEF Guest, GuestEnds, taskVars, chanVars
      <4>2. run \notin {"connect", "hello"}
        BY <2>3 DEF GuestEnds
      <4>3. \A i \in 1..Len(down') : /\ down'[i] # "OUT" => i = Len(down')
                                     /\ down'[i] = "EXIT" => exited'
        BY <3>1, <3>2
      <4>4. exited' => Len(down') > 0 /\ down'[Len(down')] = "EXIT"
        <5>1. exited' => f = "EXIT"
          BY <3>1, Zenon
        <5> QED
          BY <3>2, <5>1
      <4>5. Downward'
        BY <3>2, <4>1, <4>2, <4>3, <4>4
      <4>6. ExitTruthful'
        BY <4>1
      <4> QED
        BY <4>5, <4>6
  <2>4. CASE GuestCloses
    <3>1. CASE UNCHANGED down
      BY <1>3, <2>4, <3>1 DEF Guest, GuestCloses, taskVars, chanVars
    <3>2. CASE down' = <<>> /\ guest' = "reset"
      BY <1>3, <2>4, <3>2 DEF Guest, GuestCloses, taskVars, chanVars
    <3> QED
      BY <2>4, <3>1, <3>2 DEF GuestCloses
  <2> QED
    BY <1>3, <2>1, <2>2, <2>3, <2>4 DEF Guest
<1>4. CASE RunStep
  <2>1. CASE connect /\ UNCHANGED <<down, exited, eof>>
    BY <2>1 DEF connect, Exit, chanVars
  <2>2. CASE hello /\ UNCHANGED <<down, exited, eof>>
    BY <2>2 DEF hello, Exit, chanVars
  <2>3. CASE request /\ UNCHANGED <<down, exited, eof>>
    BY <2>3 DEF request, chanVars
  <2>4. CASE pump_outbound /\ UNCHANGED <<exited, eof>>
    <3>1. PICK f \in {"OUT", "EXIT", "ERROR", "BAD", "END"} :
             /\ OutFrame(f)
             /\ \/ f = "OUT" /\ UNCHANGED <<run, chanVars>>
                \/ f # "OUT" /\ Exit(Status(f)) /\ Finally
      BY <2>4 DEF pump_outbound
    <3>2. CASE down = <<>>
      BY <2>4, <3>1, <3>2 DEF pump_outbound, OutFrame, Exit, Status, Finally
    <3>3. CASE down # <<>>
      <4>1. /\ down' \in Seq({"OUT", "EXIT", "ERROR", "BAD"}) /\ Len(down') = Len(down) - 1
            /\ f = down[1] /\ \A i \in 1..Len(down') : down'[i] = down[i + 1]
        <5>1. down' = Tail(down) /\ f = Head(down)
          BY <3>1, <3>3 DEF OutFrame
        <5>2. down \in Seq({"OUT", "EXIT", "ERROR", "BAD"}) /\ Len(down) > 0
          BY <3>3
        <5> HIDE DEF Downward, ExitTruthful, GuestGone, Upward
        <5> QED
          BY <5>1, <5>2
      <4>2. CASE f = "OUT"
        <5>1. ASSUME exited, guest # "reset"
              PROVE  Len(down') > 0 /\ down'[Len(down')] = "EXIT"
          <6>1. Len(down) > 0 /\ down[Len(down)] = "EXIT" /\ down[1] = "OUT"
            BY <2>4, <4>1, <4>2, <5>1 DEF pump_outbound
          <6>2. Len(down') \in 1..Len(down') /\ Len(down') + 1 = Len(down)
            BY <4>1, <6>1
          <6> QED
            BY <4>1, <6>1, <6>2
        <5>2. \A i \in 1..Len(down') : down'[i] # "OUT" => i = Len(down')
          BY <4>1
        <5>3. status = "none" /\ UNCHANGED <<run, guest, chan, status>>
          BY <2>4, <3>1, <4>2 DEF pump_outbound, chanVars
        <5>4. Downward'
          BY <2>4, <4>1, <5>1, <5>2, <5>3 DEF pump_outbound
        <5> QED
          BY <5>3, <5>4
      <4>3. CASE f # "OUT"
        <5>1. Len(down) = 1 /\ down' = <<>>
          BY <3>3, <4>1, <4>3
        <5> QED
          BY <2>4, <3>1, <4>1, <4>3, <5>1 DEF pump_outbound, Exit, Status, Finally
      <4> QED
        BY <4>2, <4>3
    <3> QED
      BY <3>2, <3>3
  <2>5. CASE run_cancelled /\ UNCHANGED <<exited, eof>>
    BY <2>5 DEF run_cancelled, Finally, chanVars
  <2> QED
    BY <1>4, <2>1, <2>2, <2>3, <2>4, <2>5 DEF RunStep
<1> QED
  BY <1>1, <1>2, <1>3, <1>4 DEF Next, Done

-----------------------------------------------------------------------------
\* The inductive invariant.
SshInv == Tasks /\ Upward /\ Queues /\ Bounds /\ Buffer /\ Downward /\ ExitTruthful

LEMMA SshInit == Init => SshInv
<1> SUFFICES ASSUME Init
             PROVE  SshInv
  OBVIOUS
<1>1. /\ <<>> \in Seq({"OUT", "EXIT", "ERROR", "BAD"}) /\ Len(<<>>) = 0
  OBVIOUS
<1>2. Queues /\ Bounds
  BY BoundsInit
<1>3. Buffer
  BY SshAssumption DEF Init, Buffer
<1>4. Downward /\ ExitTruthful
  <2>1. down = <<>> /\ 1..Len(down) = {}
    BY <1>1 DEF Init
  <2> QED
    BY <1>1, <2>1 DEF Init, Downward, ExitTruthful
<1> QED
  BY TasksInit, <1>2, <1>3, <1>4 DEF SshInv

LEMMA SshStep == SshInv /\ [Next]_vars => SshInv'
BY TasksStep, QueuesStep, BoundsStep, BufferStep, DownwardStep DEF SshInv

LEMMA SshInvariant == Spec => []SshInv
BY SshInit, SshStep, PTL DEF Spec

\* The types, and that the vsock writer is filled by at most one frame of each
\* task beyond its mark (write_frame).
THEOREM SshTypeCorrect == Spec => []TypeOK
<1>1. SshInv => TypeOK
  BY DEF SshInv, TypeOK, Tasks, Upward, Queues, Buffer, Downward
<1> QED
  BY SshInvariant, <1>1, PTL

\* A client that sends faster than the guest reads costs the gateway at most
\* the high-water mark, or what a resume hands over and one event more, in
\* data and EOF, however the pauses, the resumes and the window changes that
\* no pause holds back interleave (_enqueue, _pump_inbound).
THEOREM InboundIsBounded == Spec => []InboundBounded
<1>1. SshInv => InboundBounded
  BY DEF SshInv, Bounds, Most, InboundBounded
<1> QED
  BY SshInvariant, <1>1, PTL

\* A client that does not read costs the gateway at most one frame more than
\* asyncssh's mark (pause_writing, _pump_outbound).
THEOREM OutboundIsBounded == Spec => []OutboundBounded
<1>1. SshInv => OutboundBounded
  BY DEF SshInv, Buffer, OutboundBounded
<1> QED
  BY SshInvariant, <1>1, PTL

\* No await at which the client's departure or an exception hits leaves a
\* session running in the guest behind an open vsock (connection_lost, _run).
THEOREM SessionIsAttended == Spec => []SessionAttended
<1>1. SshInv => SessionAttended
  BY DEF SshInv, Upward
<1> QED
  BY SshInvariant, <1>1, PTL

\* The status the client is told is that of EXIT exactly when EXIT arrived
\* (_pump_outbound).
THEOREM ExitIsTruthful == Spec => []ExitTruthful
<1>1. SshInv => ExitTruthful
  BY DEF SshInv
<1> QED
  BY SshInvariant, <1>1, PTL
=============================================================================
