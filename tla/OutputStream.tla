---------------------------- MODULE OutputStream ----------------------------
(***************************************************************************)
(* What a session promises its client about the frames it sends: of every  *)
(* stream the chunks the command wrote, in order and without a gap, and at *)
(* the end at most one frame that is terminal, with nothing after it.      *)
(***************************************************************************)
EXTENDS Naturals, Sequences

CONSTANTS Streams, Terminals

VARIABLES
  out,       \* frames the client has received
  produced   \* chunks the command has written to each stream

vars == <<out, produced>>

Init == out = <<>> /\ produced = [s \in Streams |-> 0]

\* The numbers of the chunks of stream s that the client has.
Got(s) == {out[i].n : i \in {j \in DOMAIN out : out[j].type = s}}

Open == \A i \in DOMAIN out : out[i].type \in Streams

Produce(s) == produced' = [produced EXCEPT ![s] = @ + 1] /\ UNCHANGED out

\* The next chunk of s.
Deliver(s) ==
  /\ Open
  /\ \E n \in 1..produced[s] :
       Got(s) = 1..(n - 1) /\ out' = Append(out, [type |-> s, n |-> n])
  /\ UNCHANGED produced

Finish(t) == Open /\ out' = Append(out, [type |-> t, n |-> 0]) /\ UNCHANGED produced

Next ==
  \/ \E s \in Streams : Produce(s) \/ Deliver(s)
  \/ \E t \in Terminals : Finish(t)

Spec == Init /\ [][Next]_vars
=============================================================================
