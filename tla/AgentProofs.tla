----------------------------- MODULE AgentProofs ----------------------------
(***************************************************************************)
(* The two pieces of the agent that every session shares the code of: the  *)
(* accounting of session permits, for every max_sessions and any number of *)
(* connections; and Cancel, which loses no wake-up for any number of       *)
(* firers and waiters.                                                     *)
(***************************************************************************)
EXTENDS Agent, Cancel, FiniteSetTheorems, TLAPS

-----------------------------------------------------------------------------
(* The accept loop.                                                        *)

\* A connection is in one place only, so that accepting it adds a session.
Distinct ==
  /\ \A i \in 1..Len(backlog) : backlog[i] \notin fresh /\ backlog[i] \notin served
  /\ \A i, j \in 1..Len(backlog) : backlog[i] = backlog[j] => i = j
  /\ fresh \cap served = {}

AgentInv == TypeOK /\ IsFiniteSet(served) /\ Distinct /\ PermitsConserved

LEMMA AgentInit == Init => AgentInv
<1> SUFFICES ASSUME Init
             PROVE  AgentInv
  OBVIOUS
<1>1. IsFiniteSet({}) /\ Cardinality({}) = 0
  BY FS_EmptySet
<1>2. TypeOK
  BY AgentAssumption DEF Init, TypeOK
<1>3. Distinct
  BY DEF Init, Distinct
<1>4. PermitsConserved
  BY <1>1, AgentAssumption DEF Init, PermitsConserved
<1> QED
  BY <1>1, <1>2, <1>3, <1>4 DEF Init, AgentInv

\* The number of live sessions is a natural number.
LEMMA ServedCount == AgentInv => Cardinality(served) \in Nat
BY FS_CardinalityType DEF AgentInv

LEMMA AgentStep == AgentInv /\ [Next]_vars => AgentInv'
<1> SUFFICES ASSUME AgentInv, [Next]_vars
             PROVE  AgentInv'
  OBVIOUS
<1> USE AgentAssumption, ServedCount DEF AgentInv, TypeOK
<1>1. ASSUME NEW c \in Conns, Connect(c)
      PROVE  AgentInv'
  <2>1. TypeOK' /\ IsFiniteSet(served)' /\ PermitsConserved'
    BY <1>1 DEF Connect, PermitsConserved
  <2>2. /\ Len(backlog') = Len(backlog) + 1 /\ Len(backlog) \in Nat
        /\ \A i \in 1..Len(backlog) : backlog'[i] = backlog[i]
        /\ backlog'[Len(backlog) + 1] = c
    BY <1>1 DEF Connect
  <2>3. c \in fresh /\ fresh' = fresh \ {c} /\ served' = served
    BY <1>1 DEF Connect
  <2>4. Distinct'
    BY <2>2, <2>3 DEF Distinct
  <2> QED
    BY <2>1, <2>4
<1>2. CASE Acquire
  BY <1>2 DEF Acquire, Distinct, PermitsConserved
<1>3. CASE Accept
  <2>1. /\ Len(backlog') = Len(backlog) - 1 /\ Len(backlog) \in Nat \ {0}
        /\ \A i \in 1..Len(backlog') : backlog'[i] = backlog[i + 1]
        /\ Head(backlog) = backlog[1] /\ Head(backlog) \in Conns
        /\ backlog' \in Seq(Conns)
    BY <1>3 DEF Accept
  <2>2. Head(backlog) \notin served
    BY <2>1 DEF Distinct
  <2>3. /\ IsFiniteSet(served')
        /\ Cardinality(served') = Cardinality(served) + 1
    BY <1>3, <2>2, FS_AddElement DEF Accept
  <2>4. TypeOK' /\ PermitsConserved'
    BY <1>3, <2>1, <2>3 DEF Accept, PermitsConserved
  <2>5. Distinct'
    BY <1>3, <2>1 DEF Accept, Distinct
  <2> QED
    BY <2>3, <2>4, <2>5
<1>4. CASE AcceptFails
  <2>1. permits' \in 0..max_sessions /\ PermitsConserved' /\ IsFiniteSet(served)'
    BY <1>4 DEF AcceptFails, PermitsConserved
  <2>2. CASE UNCHANGED backlog
    BY <1>4, <2>1, <2>2 DEF AcceptFails, Distinct
  <2>3. CASE backlog # <<>> /\ backlog' = Tail(backlog)
    <3>1. /\ Len(backlog') = Len(backlog) - 1 /\ Len(backlog) \in Nat \ {0}
          /\ \A i \in 1..Len(backlog') : backlog'[i] = backlog[i + 1]
          /\ backlog' \in Seq(Conns)
      BY <2>3
    <3>2. Distinct'
      BY <1>4, <3>1 DEF AcceptFails, Distinct
    <3> QED
      BY <1>4, <2>1, <3>1, <3>2 DEF AcceptFails
  <2> QED
    BY <1>4, <2>2, <2>3 DEF AcceptFails
<1>5. ASSUME NEW c \in Conns, SessionEnds(c)
      PROVE  AgentInv'
  <2>1. /\ IsFiniteSet(served')
        /\ Cardinality(served') = Cardinality(served) - 1
    BY <1>5, FS_RemoveElement DEF SessionEnds
  <2>2. Cardinality(served') \in Nat
    BY <2>1, FS_CardinalityType
  <2>3. TypeOK' /\ PermitsConserved'
    BY <1>5, <2>1, <2>2 DEF SessionEnds, PermitsConserved
  <2>4. Distinct'
    BY <1>5 DEF SessionEnds, Distinct
  <2> QED
    BY <2>1, <2>3, <2>4
<1>6. CASE UNCHANGED vars
  BY <1>6 DEF vars, Distinct, PermitsConserved
<1> QED
  BY <1>1, <1>2, <1>3, <1>4, <1>5, <1>6 DEF Next, Idle

\* The states of the accept loop, and a semaphore that never holds more than
\* its max_sessions permits (main.rs).
THEOREM AgentTypeCorrect == Spec => []TypeOK
<1>1. AgentInv => TypeOK
  BY DEF AgentInv
<1> QED
  BY AgentInit, AgentStep, <1>1, PTL DEF Spec

\* No accept error and no end of a session ever loses or duplicates a permit
\* (main.rs, the accept loop).
THEOREM PermitsAreConserved == Spec => []PermitsConserved
<1>1. AgentInv => PermitsConserved
  BY DEF AgentInv
<1> QED
  BY AgentInit, AgentStep, <1>1, PTL DEF Spec

\* The agent never serves, or stands ready to serve, more than max_sessions
\* clients at once.
THEOREM SessionsAreBounded == Spec => []SessionsBounded
<1>1. AgentInv => SessionsBounded
  BY ServedCount, AgentAssumption DEF AgentInv, TypeOK, PermitsConserved, SessionsBounded
<1> QED
  BY AgentInit, AgentStep, <1>1, PTL DEF Spec

-----------------------------------------------------------------------------
(* Cancel.                                                                 *)

\* A call of fire() that has begun has stored the flag.
StoredFirst == (\E f \in Firers : fire[f] # "idle") => fired

\* The inductive invariant: a waiter goes to sleep only on a flag that is not
\* stored, and by StoredFirst no fire() has returned then.
CancelInv == CancelTypeOK /\ StoredFirst /\ NoLostWakeup

LEMMA CancelInvInit == CancelInit => CancelInv
BY DEF CancelInit, CancelInv, CancelTypeOK, StoredFirst, NoLostWakeup

LEMMA CancelInvStep == CancelInv /\ [CancelNext]_cancelVars => CancelInv'
<1> SUFFICES ASSUME CancelInv, [CancelNext]_cancelVars
             PROVE  CancelInv'
  OBVIOUS
<1> USE DEF CancelInv, CancelTypeOK, StoredFirst, NoLostWakeup
<1>1. ASSUME NEW f \in Firers, FireStore(f)
      PROVE  CancelInv'
  BY <1>1 DEF FireStore
<1>2. ASSUME NEW f \in Firers, FireNotify(f)
      PROVE  CancelInv'
  BY <1>2 DEF FireNotify, Registered
<1>3. ASSUME NEW w \in Waiters, WaitCall(w)
      PROVE  CancelInv'
  BY <1>3 DEF WaitCall
<1>4. ASSUME NEW w \in Waiters, WaitDrop(w)
      PROVE  CancelInv'
  BY <1>4 DEF WaitDrop
<1>5. ASSUME NEW w \in Waiters, WaitLoad(w)
      PROVE  CancelInv'
  BY <1>5 DEF WaitLoad
<1>6. ASSUME NEW w \in Waiters, WaitEnable(w)
      PROVE  CancelInv'
  BY <1>6 DEF WaitEnable
<1>7. ASSUME NEW w \in Waiters, WaitRecheck(w)
      PROVE  CancelInv'
  BY <1>7 DEF WaitRecheck
<1>8. ASSUME NEW w \in Waiters, WaitWake(w)
      PROVE  CancelInv'
  BY <1>8 DEF WaitWake
<1>9. CASE UNCHANGED cancelVars
  BY <1>9 DEF cancelVars
<1> QED
  BY <1>1, <1>2, <1>3, <1>4, <1>5, <1>6, <1>7, <1>8, <1>9 DEF CancelNext, Fire, WaitStep

\* Once a fire() has returned, every task asleep in wait() has been woken
\* (Cancel, session.rs): the re-check after enable closes the race.
THEOREM CancelNoLostWakeup == CancelSpec => []NoLostWakeup
<1>1. CancelInv => NoLostWakeup
  BY DEF CancelInv
<1> QED
  BY CancelInvInit, CancelInvStep, <1>1, PTL DEF CancelSpec

-----------------------------------------------------------------------------
\* The steps of wait() that the latch does not see leave its waiter alone.
LEMMA HiddenStep ==
  ASSUME NEW w \in Waiters, NEW s, CancelTypeOK, wait' = [wait EXCEPT ![w] = s],
         wait[w] \notin {"idle", "returned"}, s \notin {"idle", "returned"}, fired' = fired
  PROVE  UNCHANGED TheLatch!vars
<1>1. \A v \in Waiters :
        (IF wait'[v] \in {"idle", "returned"} THEN wait'[v] ELSE "waiting")
          = IF wait[v] \in {"idle", "returned"} THEN wait[v] ELSE "waiting"
  BY DEF CancelTypeOK
<1> QED
  BY <1>1 DEF TheLatch!vars

\* Each step of Cancel is a step of the latch or is hidden from it.
LEMMA LatchStep == CancelTypeOK /\ [CancelNext]_cancelVars => [TheLatch!Next]_TheLatch!vars
<1> SUFFICES ASSUME CancelTypeOK, [CancelNext]_cancelVars
             PROVE  [TheLatch!Next]_TheLatch!vars
  OBVIOUS
<1>1. ASSUME NEW f \in Firers, FireStore(f)
      PROVE  TheLatch!Set
  BY <1>1 DEF FireStore, TheLatch!Set
<1>2. ASSUME NEW f \in Firers, FireNotify(f)
      PROVE  UNCHANGED TheLatch!vars
  BY <1>2 DEF FireNotify, TheLatch!vars
<1>3. ASSUME NEW w \in Waiters, WaitCall(w)
      PROVE  TheLatch!Wait(w)
  BY <1>3 DEF WaitCall, TheLatch!Wait, CancelTypeOK
<1>4. ASSUME NEW w \in Waiters, WaitDrop(w)
      PROVE  TheLatch!GiveUp(w)
  BY <1>4 DEF WaitDrop, TheLatch!GiveUp, CancelTypeOK
<1>5. ASSUME NEW w \in Waiters, WaitLoad(w) \/ WaitRecheck(w), fired
      PROVE  TheLatch!Return(w)
  BY <1>5 DEF WaitLoad, WaitRecheck, TheLatch!Return, CancelTypeOK
<1>6. ASSUME NEW w \in Waiters, WaitLoad(w) \/ WaitRecheck(w), ~fired
      PROVE  UNCHANGED TheLatch!vars
  BY <1>6, HiddenStep DEF WaitLoad, WaitRecheck
<1>7. ASSUME NEW w \in Waiters, WaitEnable(w) \/ WaitWake(w)
      PROVE  UNCHANGED TheLatch!vars
  BY <1>7, HiddenStep DEF WaitEnable, WaitWake
<1>8. CASE UNCHANGED cancelVars
  BY <1>8 DEF cancelVars, TheLatch!vars
<1> QED
  BY <1>1, <1>2, <1>3, <1>4, <1>5, <1>6, <1>7, <1>8
  DEF CancelNext, Fire, WaitStep, TheLatch!Next

\* The safety part of ImplementsLatch, for any number of firers and waiters: a
\* wait returns only once the signal fired, and the signal stays fired (Cancel).
THEOREM CancelIsALatch == CancelSpec => TheLatch!Safety
<1>1. CancelInit => TheLatch!Init
  BY DEF CancelInit, TheLatch!Init
<1>2. CancelInv => CancelTypeOK
  BY DEF CancelInv
<1> QED
  BY CancelInvInit, CancelInvStep, LatchStep, <1>1, <1>2, PTL DEF CancelSpec, TheLatch!Safety
=============================================================================
