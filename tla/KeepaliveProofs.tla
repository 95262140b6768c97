-------------------------- MODULE KeepaliveProofs ---------------------------
(* The keepalive contract for every interval, timeout, delay and backlog   *)
(* that leave room for each other (KeepaliveAssumption).                   *)
EXTENDS Keepalive, SequenceTheorems, TLAPS

DeadInv == TypeOK /\ DeadRecent

-----------------------------------------------------------------------------
(* Arithmetic of the budget a dead client's frames have.                   *)

LEMMA Product ==
  ASSUME NEW a \in Nat, NEW c \in Nat
  PROVE  a * c \in Nat /\ (a + 1) * c = a * c + c
OBVIOUS

LEMMA ProductMono ==
  ASSUME NEW a \in Nat, NEW b \in Nat, NEW c \in Nat
  PROVE  a * c <= (a + b) * c
<1>1. (a + b) * c = a * c + b * c
  OBVIOUS
<1>2. a * c \in Nat /\ b * c \in Nat
  OBVIOUS
<1> QED
  BY <1>1, <1>2

\* What has been spent is within the whole budget.
LEMMA Budget ==
  ASSUME NEW n \in Nat, n <= Backlog
  PROVE  /\ (Backlog - n) * idle_timeout \in Nat
         /\ (Backlog - n) * idle_timeout + 2 * idle_timeout <= (Backlog + 2) * idle_timeout
<1>0. idle_timeout \in Nat /\ Backlog \in Nat
  BY KeepaliveAssumption
<1> DEFINE k == Backlog - n
<1>1. k \in Nat /\ Backlog = k + n
  BY <1>0
<1> HIDE DEF k
<1>2. k * idle_timeout \in Nat /\ k * idle_timeout <= Backlog * idle_timeout
  BY <1>0, <1>1, Product, ProductMono
<1>3. (Backlog + 2) * idle_timeout = Backlog * idle_timeout + 2 * idle_timeout
      /\ Backlog * idle_timeout \in Nat
  BY <1>0
<1>4. k * idle_timeout + 2 * idle_timeout <= (Backlog + 2) * idle_timeout
  BY <1>0, <1>2, <1>3
<1> QED
  BY <1>2, <1>4 DEF k

LEMMA SpentBound ==
  ASSUME TypeOK
  PROVE  Spent \in Nat /\ Spent + 2 * idle_timeout <= (Backlog + 2) * idle_timeout
<1>1. Len(transit) \in Nat /\ Len(transit) <= Backlog
  BY DEF TypeOK
<1> QED
  BY <1>1, Budget DEF Spent

\* Reading a frame makes one more write possible.
LEMMA SpentTail ==
  ASSUME TypeOK, transit # <<>>, transit' = Tail(transit)
  PROVE  Spent' = Spent + idle_timeout
<1>0. /\ idle_timeout \in Nat /\ Backlog \in Nat /\ Len(transit) \in Nat
      /\ Len(transit) <= Backlog /\ Len(transit') = Len(transit) - 1
  BY KeepaliveAssumption DEF TypeOK
<1> DEFINE k == Backlog - Len(transit)
<1>1. k \in Nat /\ Backlog - Len(transit') = k + 1
  BY <1>0
<1>2. Spent = k * idle_timeout /\ Spent' = (Backlog - Len(transit')) * idle_timeout
  BY DEF Spent
<1> HIDE DEF k
<1> QED
  BY <1>0, <1>1, <1>2, Product

-----------------------------------------------------------------------------
(* Types, and what the frames under way look like after a step.            *)

LEMMA FrameType == \A w \in BOOLEAN : NewFrame(w) \in Frames /\ NewFrame(w).age = 0
BY KeepaliveAssumption DEF NewFrame, Frames

\* The frames of a queue have an age.
LEMMA Ages ==
  ASSUME NEW q \in Seq(Frames)
  PROVE  /\ \A i \in DOMAIN q : q[i].age \in Nat /\ q[i].age <= MaxDelay
         /\ q # <<>> => Head(q) \in Frames /\ Head(q).age \in Nat /\ Head(q).age <= MaxDelay
<1>1. \A f \in Frames : f.age \in Nat /\ f.age <= MaxDelay
  BY KeepaliveAssumption DEF Frames
<1>2. \A i \in DOMAIN q : q[i] \in Frames
  OBVIOUS
<1>3. q # <<>> => Head(q) \in Frames
  BY HeadTailProperties
<1> QED
  BY <1>1, <1>2, <1>3

LEMMA Single ==
  ASSUME NEW f \in Frames
  PROVE  <<f>> \in Seq(Frames) /\ Len(<<f>>) = 1 /\ Head(<<f>>) = f /\ <<f>> # <<>>
OBVIOUS

LEMMA OlderType ==
  ASSUME NEW f \in Frames
  PROVE  /\ Older(f) \in Frames
         /\ f.age < MaxDelay => Older(f).age = f.age + 1
         /\ Older(f).age < MaxDelay => f.age < MaxDelay
BY KeepaliveAssumption DEF Older, Frames

\* A frame joins the queue.
LEMMA Sent ==
  ASSUME TypeOK, Room, NEW w \in BOOLEAN, transit' = Append(transit, NewFrame(w))
  PROVE  /\ transit' \in Seq(Frames) /\ Len(transit') <= Backlog /\ transit' # <<>>
         /\ Head(transit') = IF transit = <<>> THEN NewFrame(w) ELSE Head(transit)
<1>0. transit \in Seq(Frames) /\ NewFrame(w) \in Frames /\ Backlog \in Nat
  BY KeepaliveAssumption, FrameType DEF TypeOK
<1>1. /\ transit' \in Seq(Frames) /\ Len(transit') = Len(transit) + 1
      /\ \A i \in 1..Len(transit) : transit'[i] = transit[i]
      /\ transit'[Len(transit) + 1] = NewFrame(w)
  BY <1>0, AppendProperties
<1>2. Len(transit) \in Nat /\ Len(transit) < Backlog /\ (transit = <<>> <=> Len(transit) = 0)
  BY <1>0, EmptySeq DEF Room
<1>3. transit' # <<>> /\ Head(transit') = transit'[1]
  BY <1>1, <1>2, EmptySeq
<1> QED
  BY <1>0, <1>1, <1>2, <1>3

\* The oldest frame leaves it.
LEMMA Taken ==
  ASSUME TypeOK, transit # <<>>, transit' = Tail(transit)
  PROVE  /\ Head(transit) \in Frames /\ Head(transit) = transit[1]
         /\ transit' \in Seq(Frames) /\ Len(transit') <= Backlog
         /\ \A i \in DOMAIN transit' : i + 1 \in DOMAIN transit /\ transit'[i] = transit[i + 1]
<1>0. transit \in Seq(Frames) /\ Len(transit) <= Backlog /\ Backlog \in Nat
  BY KeepaliveAssumption DEF TypeOK
<1>1. /\ Head(transit) \in Frames /\ Head(transit) = transit[1] /\ transit' \in Seq(Frames)
      /\ Len(transit') = Len(transit) - 1 /\ Len(transit) \in Nat
      /\ \A i \in 1..Len(transit') : transit'[i] = transit[i + 1]
  BY <1>0, HeadTailProperties
<1>2. DOMAIN transit = 1..Len(transit) /\ DOMAIN transit' = 1..Len(transit')
  BY <1>0, <1>1
<1> QED
  BY <1>0, <1>1, <1>2

\* Every frame gets older.
LEMMA Aged ==
  ASSUME TypeOK, Tick
  PROVE  /\ transit' \in Seq(Frames) /\ Len(transit') = Len(transit)
         /\ DOMAIN transit' = DOMAIN transit
         /\ \A i \in DOMAIN transit : transit[i] \in Frames /\ transit'[i] = Older(transit[i])
         /\ transit # <<>> => /\ 1 \in DOMAIN transit /\ Head(transit) = transit[1]
                              /\ Head(transit') = transit'[1]
         /\ transit' = <<>> <=> transit = <<>>
<1>0. transit \in Seq(Frames) /\ Len(transit) \in Nat /\ DOMAIN transit = 1..Len(transit)
  BY DEF TypeOK
<1>1. transit' = [i \in 1..Len(transit) |-> Older(transit[i])]
  BY <1>0 DEF Tick
<1>2. \A i \in 1..Len(transit) : transit[i] \in Frames /\ Older(transit[i]) \in Frames
  BY <1>0, OlderType
<1>3. transit' \in [1..Len(transit) -> Frames]
  BY <1>1, <1>2
<1>4. transit' \in Seq(Frames) /\ Len(transit') = Len(transit) /\ DOMAIN transit' = DOMAIN transit
  BY <1>0, <1>3
<1>5. (transit' = <<>> <=> Len(transit') = 0) /\ (transit = <<>> <=> Len(transit) = 0)
  BY <1>0, <1>4, EmptySeq
<1> QED
  BY <1>0, <1>1, <1>2, <1>4, <1>5

\* Every step keeps the types.
LEMMA TypeStep == TypeOK /\ [Next]_vars => TypeOK'
<1> SUFFICES ASSUME TypeOK, [Next]_vars
             PROVE  TypeOK'
  OBVIOUS
<1>0. /\ PING_INTERVAL_S \in Nat /\ idle_timeout \in Nat /\ Horizon \in Nat
      /\ 0 \in 0..PING_INTERVAL_S /\ 0 \in 0..idle_timeout
  <2>1. (Backlog + 2) * idle_timeout \in Nat
    BY KeepaliveAssumption, Product
  <2> QED
    BY <2>1, KeepaliveAssumption DEF Horizon
<1>1. CASE Ping \/ Input
  <2>1. PICK w \in BOOLEAN : Room /\ transit' = Append(transit, NewFrame(w))
    BY <1>1 DEF Ping, Input
  <2>2. transit' \in Seq(Frames) /\ Len(transit') <= Backlog
    BY <2>1, Sent
  <2> QED
    BY <1>0, <1>1, <2>2 DEF Ping, Input, TypeOK
<1>2. CASE Die \/ Output
  BY <1>0, <1>2 DEF Die, Output, TypeOK
<1>3. CASE Receive
  <2>1. transit' \in Seq(Frames) /\ Len(transit') <= Backlog
    BY <1>3, Taken DEF Receive
  <2> QED
    BY <1>0, <1>3, <2>1 DEF Receive, TypeOK
<1>4. CASE WriteDone \/ WriteFails \/ IdleElapsed
  BY <1>0, <1>4 DEF WriteDone, WriteFails, IdleElapsed, TypeOK
<1>5. CASE Tick
  <2>1. transit' \in Seq(Frames) /\ Len(transit') <= Backlog
    BY <1>5, Aged DEF TypeOK
  <2>2. waited' \in 0..PING_INTERVAL_S /\ clock' \in 0..idle_timeout /\ dead' \in 0..Horizon
    BY <1>0, <1>5 DEF Tick, TypeOK
  <2> QED
    BY <1>5, <2>1, <2>2 DEF Tick, TypeOK
<1>6. CASE UNCHANGED vars
  BY <1>6 DEF vars, TypeOK
<1> QED
  BY <1>1, <1>2, <1>3, <1>4, <1>5, <1>6 DEF Next, Over

-----------------------------------------------------------------------------
(* A dead client.                                                          *)

\* What a dead client left behind: with either kind of client, and whatever the
\* command does.
LEMMA DeadStep == DeadInv /\ [Next]_vars => DeadInv'
<1> SUFFICES ASSUME DeadInv, [Next]_vars
             PROVE  DeadRecent'
  BY TypeStep DEF DeadInv
<1>0. /\ TypeOK /\ TypeOK' /\ Spent \in Nat /\ Spent' \in Nat
      /\ idle_timeout \in Nat /\ MaxDelay \in Nat /\ MaxDelay < idle_timeout
      /\ clock \in Nat /\ clock <= idle_timeout /\ dead \in Nat
  <2>1. TypeOK'
    BY TypeStep DEF DeadInv
  <2>2. (Spent \in Nat)'
    <3>1. Len(transit') \in Nat /\ Len(transit') <= Backlog
      BY <2>1 DEF TypeOK
    <3> QED
      BY <3>1, Budget DEF Spent
  <2> QED
    BY <2>1, <2>2, SpentBound, KeepaliveAssumption DEF DeadInv, TypeOK
<1> USE DEF DeadInv
<1>1. CASE Ping \/ Input
  \* Only a client that lives sends.
  <2>1. dead' = 0 /\ alive' = alive /\ clock' \in Nat
    BY <1>0, <1>1 DEF Ping, Input, DeadRecent
  <2>2. \A i \in DOMAIN transit' : transit'[i].age \in Nat
    BY <1>0, Ages DEF TypeOK
  <2>3. \A i \in DOMAIN transit' : dead' <= transit'[i].age
    BY <2>1, <2>2
  <2>4. dead' <= Spent' + clock' /\ dead' <= Spent' + idle_timeout + clock'
        /\ dead' <= Spent' + idle_timeout + 0
    <3>1. ASSUME NEW a \in Nat, NEW b \in Nat, NEW c \in Nat
          PROVE  0 <= a + c /\ 0 <= a + b + c /\ 0 <= a + b + 0
      OBVIOUS
    <3>2. dead' = 0 /\ Spent' \in Nat /\ idle_timeout \in Nat /\ clock' \in Nat
      BY <1>0, <2>1
    <3> QED
      BY <3>1, <3>2
  <2> QED
    BY <2>1, <2>3, <2>4 DEF DeadRecent
<1>2. CASE Die \/ Output
  BY <1>2 DEF Die, Output, DeadRecent, Spent
<1>3. CASE Receive
  <2>1. /\ reader = "read" /\ transit # <<>> /\ transit' = Tail(transit) /\ clock' = 0
        /\ UNCHANGED <<alive, dead>>
    BY <1>3 DEF Receive
  <2>2. Spent' = Spent + idle_timeout
    BY <1>0, <2>1, SpentTail
  <2>3. dead <= Spent + idle_timeout
    BY <1>0, <2>1 DEF DeadRecent
  <2>4. \A i \in DOMAIN transit' : transit'[i].age < MaxDelay => dead' <= transit'[i].age
    BY <1>0, <2>1, Taken DEF DeadRecent
  <2> QED
    BY <1>0, <2>1, <2>2, <2>3, <2>4 DEF DeadRecent
<1>4. CASE WriteDone
  <2>1. /\ reader = "write" /\ reader' = "read" /\ clock' = 0 /\ UNCHANGED <<alive, dead, transit>>
    BY <1>4 DEF WriteDone
  <2>2. Spent' = Spent /\ dead <= Spent + clock
    BY <2>1 DEF Spent, DeadRecent
  <2> QED
    BY <1>0, <2>1, <2>2 DEF DeadRecent
<1>5. CASE WriteFails \/ IdleElapsed
  <2>1. UNCHANGED <<alive, dead, transit, clock>> /\ reader' \in {reader, "retired"}
    BY <1>5 DEF WriteFails, IdleElapsed
  <2>2. Spent' = Spent
    BY <2>1 DEF Spent
  <2> QED
    BY <1>0, <2>1, <2>2 DEF DeadRecent
<1>6. CASE Tick
  <2>1. /\ UNCHANGED <<alive, reader>> /\ Len(transit') = Len(transit)
        /\ transit' = <<>> <=> transit = <<>>
        /\ dead' = dead \/ (~alive /\ dead' = dead + 1)
        /\ reader # "retired" => clock' = clock + 1
    BY <1>0, <1>6, Aged DEF Tick
  <2>2. Spent' = Spent
    BY <2>1 DEF Spent
  <2>3. alive' => dead' = 0
    BY <2>1 DEF DeadRecent
  <2>4. \A i \in DOMAIN transit' : transit'[i].age < MaxDelay => dead' <= transit'[i].age
    <3> SUFFICES ASSUME NEW i \in DOMAIN transit', transit'[i].age < MaxDelay
                 PROVE  dead' <= transit'[i].age
      OBVIOUS
    <3>1. i \in DOMAIN transit /\ transit[i] \in Frames /\ transit'[i] = Older(transit[i])
      BY <1>0, <1>6, Aged
    <3>2. transit[i].age < MaxDelay /\ transit'[i].age = transit[i].age + 1
      BY <3>1, OlderType
    <3>3. dead <= transit[i].age /\ transit[i].age \in Nat
      BY <3>1, <3>2, <1>0 DEF DeadRecent, Frames
    <3> QED
      BY <1>0, <2>1, <3>2, <3>3
  <2>5. reader' = "write" => dead' <= Spent' + clock'
    BY <1>0, <2>1, <2>2 DEF DeadRecent
  <2>6. CASE reader = "read" /\ transit # <<>>
    \* Time passes only while the oldest frame may still be on its way.
    <3>1. Head(transit).age < MaxDelay /\ Head(transit).age \in Nat
      BY <1>0, <1>6, <2>6, Aged DEF Tick, Frames
    <3>2. dead <= Head(transit).age
      BY <1>0, <1>6, <2>6, <3>1, Aged DEF DeadRecent
    <3> QED
      BY <1>0, <2>1, <2>2, <2>3, <2>4, <2>6, <3>1, <3>2 DEF DeadRecent
  <2>7. CASE reader = "read" /\ transit = <<>>
    <3>1. dead <= Spent + idle_timeout + clock
      BY <2>7 DEF DeadRecent
    <3> QED
      BY <1>0, <2>1, <2>2, <2>3, <2>4, <2>7, <3>1 DEF DeadRecent
  <2>8. CASE reader # "read"
    BY <2>1, <2>3, <2>4, <2>5, <2>8 DEF DeadRecent
  <2> QED
    BY <2>6, <2>7, <2>8
<1>7. CASE UNCHANGED vars
  BY <1>7 DEF vars, DeadRecent, Spent
<1> QED
  BY <1>1, <1>2, <1>3, <1>4, <1>5, <1>6, <1>7 DEF Next, Over

-----------------------------------------------------------------------------
(* A live client.                                                          *)

\* A client that pings from a timer, or a command that writes nothing: the
\* cases in which no output restarts the interval.
LEMMA LiveStep ==
  ASSUME TimerDriven \/ ~Chatty, KeepaliveInv, [Next]_vars
  PROVE  LiveClientKept' /\ LiveRecent'
<1>0. /\ TypeOK /\ LiveRecent /\ PING_INTERVAL_S \in Nat /\ idle_timeout \in Nat /\ MaxDelay \in Nat
      /\ PING_INTERVAL_S + MaxDelay < idle_timeout
      /\ clock \in Nat /\ waited \in Nat /\ waited <= PING_INTERVAL_S
      /\ transit # <<>> => Head(transit) \in Frames
  BY KeepaliveAssumption DEF KeepaliveInv, TypeOK
<1>1. CASE Ping \/ Input
  <2>1. PICK w \in BOOLEAN : Room /\ transit' = Append(transit, NewFrame(w))
    BY <1>1 DEF Ping, Input
  <2>2. /\ transit' # <<>>
        /\ Head(transit').age = IF transit = <<>> THEN 0 ELSE Head(transit).age
    BY <1>0, <2>1, Sent, FrameType
  <2>3. UNCHANGED <<alive, reader, clock, session>>
    BY <1>1 DEF Ping, Input
  <2> QED
    BY <1>0, <2>2, <2>3 DEF LiveRecent, KeepaliveInv, LiveClientKept
<1>2. CASE Die
  BY <1>2 DEF Die, LiveRecent, LiveClientKept
<1>3. CASE Output
  <2>1. UNCHANGED <<alive, waited, transit, reader, clock, session>>
    BY <1>3 DEF Output
  <2> QED
    BY <2>1 DEF KeepaliveInv, LiveRecent, LiveClientKept
<1>4. CASE session = "live" /\ (Receive \/ WriteDone)
  <2>1. clock' = 0 /\ waited' = waited /\ session' = "live"
    BY <1>4 DEF Receive, WriteDone
  <2>2. transit' # <<>> => Head(transit').age \in Nat
    <3>1. TypeOK'
      BY <1>0, TypeStep
    <3> QED
      BY <3>1, Ages DEF TypeOK
  <2> QED
    BY <1>0, <2>1, <2>2 DEF LiveRecent, LiveClientKept
<1>5. CASE session = "live" /\ WriteFails
  BY <1>5 DEF WriteFails, LiveRecent, LiveClientKept
<1>6. CASE IdleElapsed
  \* The read of a live client's next frame has not lasted so long.
  <2>1. alive /\ reader = "read" => clock < idle_timeout
    <3>1. transit # <<>> => Head(transit).age \in Nat /\ Head(transit).age <= MaxDelay
      BY <1>0 DEF Frames
    <3> QED
      BY <1>0, <3>1 DEF LiveRecent
  <2>2. reader \in {"read", "write", "retired"}
    BY <1>0 DEF TypeOK
  <2>3. /\ reader # "retired" /\ clock = idle_timeout
        /\ UNCHANGED <<alive, waited, transit, reader, clock>>
    BY <1>6 DEF IdleElapsed
  <2> QED
    BY <1>0, <2>1, <2>2, <2>3 DEF LiveRecent, LiveClientKept
<1>7. CASE session = "live" /\ Tick
  <2>1. UNCHANGED <<alive, reader, session>> /\ session = "live"
    BY <1>7 DEF Tick
  <2>2. LiveClientKept'
    BY <2>1 DEF LiveClientKept
  <2>3. ASSUME alive, reader = "read", transit = <<>>
        PROVE  LiveRecent'
    <3>1. Room
      BY <2>3, KeepaliveAssumption DEF Room
    <3>2. transit' = <<>> /\ waited' = waited + 1 /\ clock' = clock + 1
      BY <1>0, <1>7, <2>3, <3>1, Aged DEF Tick
    <3> QED
      BY <1>0, <2>3, <3>2 DEF LiveRecent
  <2>4. ASSUME alive, reader = "read", transit # <<>>
        PROVE  LiveRecent'
    <3>1. Head(transit).age < MaxDelay /\ clock' = clock + 1 /\ transit' # <<>>
      BY <1>0, <1>7, <2>4, Aged DEF Tick
    <3>2. Head(transit').age = Head(transit).age + 1 /\ Head(transit).age \in Nat
      BY <1>0, <1>7, <2>4, <3>1, Aged, OlderType DEF Frames
    <3> QED
      BY <1>0, <2>4, <3>1, <3>2 DEF LiveRecent
  <2>5. ASSUME ~(alive /\ reader = "read")
        PROVE  LiveRecent'
    BY <2>1, <2>5 DEF LiveRecent
  <2> QED
    BY <2>2, <2>3, <2>4, <2>5
<1>8. CASE UNCHANGED vars
  BY <1>8 DEF vars, KeepaliveInv, LiveRecent, LiveClientKept
<1> QED
  BY <1>1, <1>2, <1>3, <1>4, <1>5, <1>6, <1>7, <1>8 DEF Next, Over

-----------------------------------------------------------------------------
(* The theorems.                                                           *)

LEMMA KeepaliveInit == Init => KeepaliveInv
<1> SUFFICES ASSUME Init
             PROVE  KeepaliveInv
  OBVIOUS
<1>1. NewFrame(FALSE) \in Frames /\ NewFrame(FALSE).age = 0
  BY FrameType
<1>2. transit \in Seq(Frames) /\ Len(transit) = 1 /\ Head(transit) = NewFrame(FALSE)
  BY <1>1, Single DEF Init
<1> DEFINE Rest == /\ verb \in {"exec", "open-pty"} /\ alive = TRUE /\ dead = 0 /\ waited = 0
                   /\ reader = "read" /\ clock = 0 /\ session = "live"
<1>0. Rest
  BY DEF Init
<1>3. TypeOK
  <2>1. (Backlog + 2) * idle_timeout \in Nat
    BY KeepaliveAssumption, Product
  <2>2. dead \in 0..Horizon /\ waited \in 0..PING_INTERVAL_S /\ clock \in 0..idle_timeout
    BY <1>0, <2>1, KeepaliveAssumption DEF Horizon
  <2>3. transit \in Seq(Frames) /\ Len(transit) <= Backlog
    BY <1>2, KeepaliveAssumption
  <2> QED
    BY <1>0, <2>2, <2>3 DEF TypeOK
<1>4. LiveClientKept /\ LiveRecent
  <2>1. Head(transit).age = 0
    BY <1>1, <1>2
  <2> QED
    BY <1>0, <2>1, KeepaliveAssumption DEF LiveClientKept, LiveRecent
<1>5. DeadRecent
  <2>1. Spent \in Nat
    BY <1>3, SpentBound
  <2>2. \A i \in DOMAIN transit : transit[i].age \in Nat
    BY <1>3, Ages DEF TypeOK
  <2> QED
    BY <1>0, <2>1, <2>2, KeepaliveAssumption DEF DeadRecent
<1> QED
  BY <1>3, <1>4, <1>5 DEF KeepaliveInv

\* The invariant behind both: while a client lives, the read the agent has open
\* began within an interval and a delay; once it is dead, the time since its
\* death is paid for by the frames it left.
THEOREM KeepaliveIsInductive ==
  ASSUME TimerDriven \/ ~Chatty
  PROVE  Spec => []KeepaliveInv
<1>1. KeepaliveInv /\ [Next]_vars => KeepaliveInv'
  BY DeadStep, LiveStep DEF KeepaliveInv, DeadInv
<1> QED
  BY KeepaliveInit, <1>1, PTL DEF Spec

\* The agent never takes a live client for dead, when the client pings from a
\* timer (ssh_gateway.py) or the command is quiet (guest_cmd.py and
\* telnet_gateway.py, waiting in select): a live client is cancelled only for
\* input that the command has not taken for a whole idle_timeout.
THEOREM LiveClientIsKept ==
  ASSUME TimerDriven \/ ~Chatty
  PROVE  Spec => []LiveClientKept
<1>1. KeepaliveInv => LiveClientKept
  BY DEF KeepaliveInv
<1> QED
  BY KeepaliveIsInductive, <1>1, PTL

\* With either kind of client and whatever the command writes, a client that
\* died silently is noticed within an idle_timeout for each of the frames it
\* left, the one in hand and the last read, unless the reader was retired.
THEOREM DeadClientIsCaught == Spec => []DeadClientCaught
<1>1. Init => DeadInv
  BY KeepaliveInit DEF KeepaliveInv, DeadInv
<1>2. ASSUME DeadInv
      PROVE  DeadClientCaught
  <2>1. /\ TypeOK /\ Spent \in Nat
        /\ Spent + 2 * idle_timeout <= (Backlog + 2) * idle_timeout
    BY <1>2, SpentBound DEF DeadInv
  <2>2. (Backlog + 2) * idle_timeout \in Nat
    BY KeepaliveAssumption, Product
  <2>3. reader # "retired" => dead <= Spent + 2 * idle_timeout
    BY <1>2, <2>1, KeepaliveAssumption DEF DeadInv, DeadRecent, TypeOK
  <2> DEFINE bound == (Backlog + 2) * idle_timeout
  <2>4. dead \in Nat /\ bound \in Nat /\ Spent + 2 * idle_timeout <= bound
        /\ idle_timeout \in Nat
    BY <2>1, <2>2, KeepaliveAssumption DEF TypeOK
  <2> HIDE DEF bound
  <2>5. reader # "retired" => dead <= bound
    BY <2>1, <2>3, <2>4
  <2> QED
    BY <2>5 DEF bound, DeadClientCaught
<1> QED
  BY DeadStep, <1>1, <1>2, PTL DEF Spec
=============================================================================
