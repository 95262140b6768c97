------------------------------- MODULE Cancel -------------------------------
(***************************************************************************)
(* The Cancel signal of a session (src/src/session.rs, struct Cancel), one *)
(* atomic access per step.  fire() stores the flag and then wakes whoever  *)
(* is registered; wait() loads the flag, registers, loads it again, and    *)
(* sleeps.  Nothing is assumed about where the tasks run.  tokio's Notify  *)
(* is modelled by what notify_waiters and Notified::enable do: only a      *)
(* waiter that is registered is woken, and no wake-up is stored.           *)
(***************************************************************************)
CONSTANTS Firers, Waiters

VARIABLES
  fired,       \* the AtomicBool
  fire,        \* each call of fire(): "idle", "stored" or "returned"
  wait,        \* each call of wait(): "idle", "load", "enable", "recheck",
               \* "await" or "returned"
  notified     \* waiters whose Notified future has been woken

cancelVars == <<fired, fire, wait, notified>>

CancelTypeOK ==
  /\ fired \in BOOLEAN
  /\ fire \in [Firers -> {"idle", "stored", "returned"}]
  /\ wait \in [Waiters -> {"idle", "load", "enable", "recheck", "await", "returned"}]
  /\ notified \subseteq Waiters

CancelInit ==
  /\ fired = FALSE
  /\ fire = [f \in Firers |-> "idle"]
  /\ wait = [w \in Waiters |-> "idle"]
  /\ notified = {}

-----------------------------------------------------------------------------
FireStore(f) ==
  /\ fire[f] = "idle"
  /\ fired' = TRUE
  /\ fire' = [fire EXCEPT ![f] = "stored"]
  /\ UNCHANGED <<wait, notified>>

Registered == {w \in Waiters : wait[w] \in {"recheck", "await"}}

\* Mutant: a bare Notify, which wakes one waiter (notify_one).
FireNotifyOne(f) ==
  /\ fire[f] = "stored"
  /\ notified' = notified \cup
       (IF Registered = {} THEN {} ELSE {CHOOSE w \in Registered : TRUE})
  /\ fire' = [fire EXCEPT ![f] = "returned"]
  /\ UNCHANGED <<fired, wait>>

FireNotify(f) ==
  /\ fire[f] = "stored"
  /\ notified' = notified \cup Registered
  /\ fire' = [fire EXCEPT ![f] = "returned"]
  /\ UNCHANGED <<fired, wait>>

\* A task begins to wait, or waits again after its select came round.
WaitCall(w) ==
  /\ wait[w] \in {"idle", "returned"}
  /\ wait' = [wait EXCEPT ![w] = "load"]
  /\ UNCHANGED <<fired, fire, notified>>

\* The future is dropped because another arm of the task's select won, and
\* with it the registration.
WaitDrop(w) ==
  /\ wait[w] = "await"
  /\ wait' = [wait EXCEPT ![w] = "idle"]
  /\ notified' = notified \ {w}
  /\ UNCHANGED <<fired, fire>>

WaitLoad(w) ==
  /\ wait[w] = "load"
  /\ wait' = [wait EXCEPT ![w] = IF fired THEN "returned" ELSE "enable"]
  /\ UNCHANGED <<fired, fire, notified>>

WaitEnable(w) ==
  /\ wait[w] = "enable"
  /\ wait' = [wait EXCEPT ![w] = "recheck"]
  /\ UNCHANGED <<fired, fire, notified>>

\* Mutant: no second load once registered.
WaitRecheckSkipped(w) ==
  /\ wait[w] = "recheck"
  /\ wait' = [wait EXCEPT ![w] = "await"]
  /\ UNCHANGED <<fired, fire, notified>>

WaitRecheck(w) ==
  /\ wait[w] = "recheck"
  /\ wait' = [wait EXCEPT ![w] = IF fired THEN "returned" ELSE "await"]
  /\ notified' = IF fired THEN notified \ {w} ELSE notified
  /\ UNCHANGED <<fired, fire>>

\* Woken: round the loop to the first load.
WaitWake(w) ==
  /\ wait[w] = "await" /\ w \in notified
  /\ wait' = [wait EXCEPT ![w] = "load"]
  /\ notified' = notified \ {w}
  /\ UNCHANGED <<fired, fire>>

Fire(f) == FireStore(f) \/ FireNotify(f)

WaitStep(w) == WaitLoad(w) \/ WaitEnable(w) \/ WaitRecheck(w) \/ WaitWake(w)

CancelNext ==
  \/ \E f \in Firers : Fire(f)
  \/ \E w \in Waiters : WaitStep(w) \/ WaitCall(w) \/ WaitDrop(w)

\* fire() runs to its end once begun, and a waiter that can run does.
CancelFairness ==
  /\ \A f \in Firers : WF_cancelVars(FireNotify(f))
  /\ \A w \in Waiters : WF_cancelVars(WaitStep(w))

CancelSpec == CancelInit /\ [][CancelNext]_cancelVars
FairCancelSpec == CancelSpec /\ CancelFairness

-----------------------------------------------------------------------------
\* No wake-up is lost: once any fire() has returned, no task sleeps in wait()
\* without having been woken, however its load, its registration and the
\* store fell (the re-check after enable).
NoLostWakeup ==
  (\E f \in Firers : fire[f] = "returned") =>
    \A w \in Waiters : wait[w] = "await" => w \in notified

\* The latch a session needs, with the steps of wait() hidden.
TheLatch == INSTANCE Latch WITH
  set    <- fired,
  waiter <- [w \in Waiters |-> IF wait[w] \in {"idle", "returned"} THEN wait[w] ELSE "waiting"]

\* Cancel is that latch: no wait returns before the signal fired, and every
\* waiter, current or future, that does not give up observes one that did.
ImplementsLatch == TheLatch!Spec
=============================================================================
