------------------------------- MODULE Agent --------------------------------
(***************************************************************************)
(* The accept loop of the agent (src/src/main.rs, main): take a permit of  *)
(* the session semaphore, then accept, then hand the permit to the task of *)
(* the session, which drops it when the session is over.  What happens     *)
(* inside a session is the business of ExecSession and PtySession; here a  *)
(* session ends, or never does.                                            *)
(***************************************************************************)
EXTENDS Naturals, Sequences, FiniteSets

CONSTANTS
  Conns,          \* connections that clients make
  max_sessions    \* permits of the semaphore (floored at 1)

ASSUME AgentAssumption == max_sessions \in Nat \ {0}

VARIABLES
  backlog,   \* connections the kernel holds for accept, oldest first
  fresh,     \* connections not made yet
  served,    \* connections whose session task is alive
  loop,      \* the accept loop: "acquire" or "accept" (holding a permit)
  permits    \* permits left in the semaphore

vars == <<backlog, fresh, served, loop, permits>>

TypeOK ==
  /\ backlog \in Seq(Conns)
  /\ fresh \subseteq Conns
  /\ served \subseteq Conns
  /\ loop \in {"acquire", "accept"}
  /\ permits \in 0..max_sessions

Init ==
  /\ backlog = <<>> /\ fresh = Conns /\ served = {}
  /\ loop = "acquire" /\ permits = max_sessions

-----------------------------------------------------------------------------
Connect(c) ==
  /\ c \in fresh
  /\ fresh' = fresh \ {c} /\ backlog' = Append(backlog, c)
  /\ UNCHANGED <<served, loop, permits>>

\* Mutant: the loop does not wait for a permit.
AcquireUnchecked ==
  /\ loop = "acquire"
  /\ loop' = "accept" /\ permits' = permits - 1
  /\ UNCHANGED <<backlog, fresh, served>>

\* acquire_owned().await; the semaphore is never closed.
Acquire ==
  /\ loop = "acquire" /\ permits > 0
  /\ loop' = "accept" /\ permits' = permits - 1
  /\ UNCHANGED <<backlog, fresh, served>>

Accept ==
  /\ loop = "accept" /\ backlog # <<>>
  /\ backlog' = Tail(backlog)
  /\ served' = served \cup {Head(backlog)}
  /\ loop' = "acquire"
  /\ UNCHANGED <<fresh, permits>>

\* Mutant: the permit of a failed accept is not given back.
AcceptFailsKeepsPermit ==
  /\ loop = "accept"
  /\ \/ UNCHANGED backlog
     \/ backlog # <<>> /\ backlog' = Tail(backlog)
  /\ loop' = "acquire"
  /\ UNCHANGED <<fresh, served, permits>>

\* accept errs: no descriptor left, or the connection it was to return is
\* gone.  The permit is dropped.
AcceptFails ==
  /\ loop = "accept"
  /\ \/ UNCHANGED backlog
     \/ backlog # <<>> /\ backlog' = Tail(backlog)
  /\ loop' = "acquire" /\ permits' = permits + 1
  /\ UNCHANGED <<fresh, served>>

\* Mutant: the permit outlives the task of the session.
SessionEndsKeepsPermit(c) ==
  /\ c \in served
  /\ served' = served \ {c}
  /\ UNCHANGED <<backlog, fresh, loop, permits>>

\* run_session returns, or its task panics: either way _permit is dropped.
SessionEnds(c) ==
  /\ c \in served
  /\ served' = served \ {c} /\ permits' = permits + 1
  /\ UNCHANGED <<backlog, fresh, loop>>

\* Every client has come and gone, and the loop waits in accept.
Idle ==
  /\ loop = "accept" /\ backlog = <<>> /\ fresh = {} /\ served = {}
  /\ UNCHANGED vars

Next ==
  \/ \E c \in Conns : Connect(c) \/ SessionEnds(c)
  \/ Acquire \/ Accept \/ AcceptFails
  \/ Idle

\* The loop runs; accept errors are transient (an accept that is possible
\* again and again succeeds in the end); and a session ends, which is what
\* the liveness properties of the verbs are about.
Fairness ==
  /\ WF_vars(Acquire)
  /\ SF_vars(Accept)
  /\ \A c \in Conns : WF_vars(SessionEnds(c))

Spec == Init /\ [][Next]_vars
FairSpec == Spec /\ Fairness

-----------------------------------------------------------------------------
\* Every permit is in the semaphore, in the hand of the loop, or in a session
\* that lives, whatever mix of accept errors and session ends came before.
PermitsConserved ==
  permits + Cardinality(served) + (IF loop = "accept" THEN 1 ELSE 0) = max_sessions

\* No more than max_sessions sessions live at once, and a loop that is ready
\* to accept one more has room for it.
SessionsBounded ==
  Cardinality(served) + (IF loop = "accept" THEN 1 ELSE 0) <= max_sessions

\* A connection that waits in the backlog leaves it: it is served, or its
\* accept failed; no run of accept errors and long sessions wears the
\* semaphore out.
BacklogDrains ==
  \A c \in Conns :
    (\E i \in 1..Len(backlog) : backlog[i] = c)
      ~> ~(\E i \in 1..Len(backlog) : backlog[i] = c)
=============================================================================
