------------------------------- MODULE Latch --------------------------------
(***************************************************************************)
(* A one-shot latch, which is what a session asks of its cancel signal:    *)
(* once set it stays set, a wait for it ends only when it is set, and      *)
(* then it does end, unless the waiter gives up.                           *)
(***************************************************************************)
CONSTANT Waiters

VARIABLES set, waiter

vars == <<set, waiter>>

Init == set = FALSE /\ waiter = [w \in Waiters |-> "idle"]

Set == set' = TRUE /\ UNCHANGED waiter

Wait(w) ==
  /\ waiter[w] # "waiting"
  /\ waiter' = [waiter EXCEPT ![w] = "waiting"] /\ UNCHANGED set

GiveUp(w) ==
  /\ waiter[w] = "waiting"
  /\ waiter' = [waiter EXCEPT ![w] = "idle"] /\ UNCHANGED set

Return(w) ==
  /\ set /\ waiter[w] = "waiting"
  /\ waiter' = [waiter EXCEPT ![w] = "returned"] /\ UNCHANGED set

Next == Set \/ \E w \in Waiters : Wait(w) \/ GiveUp(w) \/ Return(w)

Safety == Init /\ [][Next]_vars

Spec == Safety /\ \A w \in Waiters : WF_vars(Return(w))
=============================================================================
