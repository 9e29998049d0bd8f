-------------------------- MODULE OrderedDelivery --------------------------
(***************************************************************************)
(* What the synchronisation manager may rely on from event delivery,       *)
(* without the process, its crashes and its acknowledgements.              *)
(*                                                                         *)
(* Events are published in one order and closed in that order.  An event   *)
(* takes effect any number of times while it is the oldest open one and    *)
(* never again afterwards, so an old snapshot of an object never           *)
(* overwrites what a younger event wrote.                                  *)
(***************************************************************************)
EXTENDS Naturals, Sequences

CONSTANT MaxBatch   \* bound: events published in one step

VARIABLES
  effects,   \* effects[i]: how often the i-th published event took effect
  status     \* status[i]: whether the i-th event is "open" or "closed"

OldestOpen(i) ==
  /\ i \in DOMAIN status
  /\ status[i] = "open"
  /\ \A k \in DOMAIN status : k < i => status[k] = "closed"

Start ==
  /\ effects = <<>>
  /\ status = <<>>

Publish(n) ==
  /\ effects' = effects \o [j \in 1..n |-> 0]
  /\ status' = status \o [j \in 1..n |-> "open"]

TakeEffect(i) ==
  /\ OldestOpen(i)
  /\ effects' = [effects EXCEPT ![i] = @ + 1]
  /\ UNCHANGED status

Close(i) ==
  /\ OldestOpen(i)
  /\ status' = [status EXCEPT ![i] = "closed"]
  /\ UNCHANGED effects

Step ==
  \/ \E n \in 1..MaxBatch : Publish(n)
  \/ \E i \in DOMAIN status : TakeEffect(i) \/ Close(i)

Spec == Start /\ [][Step]_<<effects, status>>
=============================================================================
