------------------------------ MODULE Delivery ------------------------------
(***************************************************************************)
(* The delivery of Provisioning events to the Kelvin connector:            *)
(* KelvinConsumerModule.process_one_event, the process it runs in, and the *)
(* subscription queue as that code uses it.                                *)
(*                                                                         *)
(* The queue hands out the oldest unacknowledged event and counts its      *)
(* deliveries (num_delivered).  The connector handles the event in one     *)
(* database transaction and acknowledges it afterwards, so a crash between *)
(* the two delivers the event again.  A failing event crashes the process  *)
(* without an acknowledgement until its budget of deliveries is used up;   *)
(* it is then acknowledged, that is dropped, before the process crashes.   *)
(*                                                                         *)
(* What an event does to the database is not modelled here: see Connector. *)
(***************************************************************************)
EXTENDS Naturals, Sequences

CONSTANTS
  MaxDeliveries,  \* max_deliveries of KelvinConsumerModule (3 by default)
  MaxCrashes,     \* bound: crashes that are not the answer to a failed event
  MaxEvents       \* bound: events ever published

ASSUME DeliveryAssumption ==
  /\ MaxDeliveries \in Nat \ {0}
  /\ MaxCrashes \in Nat
  /\ MaxEvents \in Nat

VARIABLES
  queue,    \* the events of the subscription, oldest first, settled ones too
  pc,       \* what the connector process is doing
  cur,      \* position of the event being processed; 0 when there is none
  crashes   \* crashes so far that are not the answer to a failed event

vars == <<queue, pc, cur, crashes>>

(***************************************************************************)
(* How is_relevant, payload validation and the library classify an event.  *)
(* "refused" is an event for which UDMEventHandler.handle_event answers    *)
(* False: neither handled nor failed.                                      *)
(***************************************************************************)
Class == {"relevant", "irrelevant", "malformed", "refused"}

\* Why an event is acknowledged.
Verdict == {"applied", "skipped", "malformed", "exhausted"}

\* commits: how often the event's transaction was committed.
EventRecord == [class : Class, outcome : Verdict \cup {"pending"},
                delivered : Nat, commits : Nat]

FreshEvent(c) == [class |-> c, outcome |-> "pending", delivered |-> 0, commits |-> 0]

Events == DOMAIN queue
Acked(i) == queue[i].outcome # "pending"

TypeOK ==
  /\ queue \in Seq(EventRecord)
  /\ pc \in {"down", "idle", "fetched"} \cup Verdict
  /\ cur \in Nat
  /\ crashes \in 0..MaxCrashes

Init ==
  /\ queue = <<>>
  /\ pc = "idle"
  /\ cur = 0
  /\ crashes = 0

----------------------------------------------------------------------------
(* The Provisioning service *)

\* Provisioning queues one event per change, in the order of the changes.
Publish(cs) ==
  /\ Len(queue) + Len(cs) <= MaxEvents
  /\ queue' = queue \o [j \in 1..Len(cs) |-> FreshEvent(cs[j])]
  /\ UNCHANGED <<pc, cur, crashes>>

\* Faulty variant: any unacknowledged event may be handed out.
OldestPending_Unordered(i) == ~Acked(i)

\* The queue is strictly ordered: it offers nothing behind an unacknowledged event.
OldestPending(i) == ~Acked(i) /\ \A k \in 1..(i - 1) : Acked(k)

----------------------------------------------------------------------------
(* KelvinConsumerModule.process_one_event *)

(***************************************************************************)
(* num_delivered grows without bound for a refused event; the count stops  *)
(* one above what BoundedDeliveries allows.                                *)
(***************************************************************************)
DeliveredBound == MaxDeliveries + MaxCrashes + 1
OneMore(n) == IF n < DeliveredBound THEN n + 1 ELSE n

Crash ==
  /\ pc' = "down"
  /\ cur' = 0

\* Faulty variant: the deliveries are counted by the process, which forgets them.
Fetch_CountInProcess(i) ==
  /\ pc = "idle"
  /\ OldestPending(i)
  /\ queue' = [queue EXCEPT ![i].delivered = 1]
  /\ pc' = "fetched"
  /\ cur' = i
  /\ UNCHANGED crashes

Fetch(i) ==
  /\ pc = "idle"
  /\ OldestPending(i)
  /\ queue' = [queue EXCEPT ![i].delivered = OneMore(@)]
  /\ pc' = "fetched"
  /\ cur' = i
  /\ UNCHANGED crashes

\* is_relevant answered False: the event is acknowledged unhandled.
SkipIrrelevant ==
  /\ pc = "fetched"
  /\ queue[cur].class = "irrelevant"
  /\ pc' = "skipped"
  /\ UNCHANGED <<queue, cur, crashes>>

\* A payload that fails validation is dropped at once; no retry can fix it.
RejectMalformed ==
  /\ pc = "fetched"
  /\ queue[cur].class = "malformed"
  /\ pc' = "malformed"
  /\ UNCHANGED <<queue, cur, crashes>>

\* The handler's transaction has been committed; the event is not acknowledged yet.
Handle ==
  /\ pc = "fetched"
  /\ queue[cur].class = "relevant"
  /\ queue' = [queue EXCEPT ![cur].commits = @ + 1]
  /\ pc' = "applied"
  /\ UNCHANGED <<cur, crashes>>

\* Faulty variant: the last delivery is dropped without having been tried.
HandlerError_DropsEarly(committed) ==
  /\ pc = "fetched"
  /\ queue[cur].class = "relevant"
  /\ queue' = IF committed THEN [queue EXCEPT ![cur].commits = @ + 1] ELSE queue
  /\ IF queue[cur].delivered + 1 < MaxDeliveries
       THEN Crash
       ELSE pc' = "exhausted" /\ cur' = cur
  /\ UNCHANGED crashes

\* Faulty variant: the library default, which never drops a failing event.
HandlerError_PoisonPill(committed) ==
  /\ pc = "fetched"
  /\ queue[cur].class = "relevant"
  /\ queue' = IF committed THEN [queue EXCEPT ![cur].commits = @ + 1] ELSE queue
  /\ Crash
  /\ UNCHANGED crashes

(***************************************************************************)
(* The handler raised.  Leaving transaction_scope rolls everything back,   *)
(* unless the connection broke while the database was committing:          *)
(* `committed` covers that case.                                           *)
(***************************************************************************)
HandlerError(committed) ==
  /\ pc = "fetched"
  /\ queue[cur].class = "relevant"
  /\ queue' = IF committed THEN [queue EXCEPT ![cur].commits = @ + 1] ELSE queue
  /\ IF queue[cur].delivered < MaxDeliveries
       THEN Crash
       ELSE pc' = "exhausted" /\ cur' = cur
  /\ UNCHANGED crashes

\* handled is False: no acknowledgement, and the loop fetches the event again.
NotHandled ==
  /\ pc = "fetched"
  /\ queue[cur].class = "refused"
  /\ pc' = "idle"
  /\ cur' = 0
  /\ UNCHANGED <<queue, crashes>>

\* Faulty variant: the class of the event is recorded, not what became of it.
SettleCurrent_Class == queue' = [queue EXCEPT ![cur].outcome = queue[cur].class]

\* Faulty variant: one acknowledgement settles everything that is queued.
SettleCurrent_Cumulative ==
  queue' = [i \in Events |-> IF Acked(i) THEN queue[i] ELSE [queue[i] EXCEPT !.outcome = pc]]

SettleCurrent == queue' = [queue EXCEPT ![cur].outcome = pc]

\* After a drop the exception is raised again: the process ends.
Acknowledge ==
  /\ pc \in Verdict
  /\ SettleCurrent
  /\ pc' = IF pc = "exhausted" THEN "down" ELSE "idle"
  /\ cur' = 0
  /\ UNCHANGED crashes

\* The acknowledgement request failed, with or without having reached the queue.
AcknowledgeFails(reached) ==
  /\ pc \in Verdict
  /\ crashes < MaxCrashes
  /\ IF reached THEN SettleCurrent ELSE UNCHANGED queue
  /\ Crash
  /\ crashes' = crashes + 1

\* The container is stopped or killed at any point.
Kill ==
  /\ pc # "down"
  /\ crashes < MaxCrashes
  /\ Crash
  /\ crashes' = crashes + 1
  /\ UNCHANGED queue

\* `restart: unless-stopped` and start-connector.sh.
Restart ==
  /\ pc = "down"
  /\ pc' = "idle"
  /\ UNCHANGED <<queue, cur, crashes>>

Process ==
  \/ SkipIrrelevant
  \/ RejectMalformed
  \/ Handle
  \/ \E committed \in BOOLEAN : HandlerError(committed)
  \/ NotHandled
  \/ Acknowledge

Environment ==
  \/ \E c \in Class : Publish(<<c>>)
  \/ \E reached \in BOOLEAN : AcknowledgeFails(reached)
  \/ Kill

Next ==
  \/ Environment
  \/ \E i \in Events : Fetch(i)
  \/ Process
  \/ Restart

Spec == Init /\ [][Next]_vars

(***************************************************************************)
(* The process loop runs while the process does, and the container runtime *)
(* restarts a process that ended.  Nothing is assumed about success: the   *)
(* handler may fail at every delivery of every event.                      *)
(***************************************************************************)
Fairness ==
  /\ WF_vars(\E i \in Events : Fetch(i))
  /\ WF_vars(Process)
  /\ WF_vars(Restart)

FairSpec == Spec /\ Fairness

----------------------------------------------------------------------------
(* Properties *)

(***************************************************************************)
(* A relevant event leaves the queue only after its transaction has been   *)
(* committed or its whole budget of deliveries has been used: no crash,    *)
(* lost acknowledgement or failed handler makes the connector lose an      *)
(* event it never tried often enough (process_one_event).                  *)
(***************************************************************************)
NoSilentLoss ==
  \A i \in Events :
    Acked(i) /\ queue[i].class = "relevant"
      => queue[i].commits > 0 \/ queue[i].delivered >= MaxDeliveries

(***************************************************************************)
(* An event reaches the database only when every older event has been      *)
(* settled, whatever crashed and was redelivered in between.  Events carry *)
(* whole-object snapshots, so applying them out of order would revert      *)
(* objects to older states.                                                *)
(***************************************************************************)
EffectsInOrder ==
  \A i, j \in Events : i < j /\ queue[j].commits > 0 => Acked(i)

(***************************************************************************)
(* Retries are bounded: beyond max_deliveries an event is delivered again  *)
(* only after a crash that no handler caused.  This is what the override   *)
(* of the library's crash-without-acknowledgement policy is for.           *)
(***************************************************************************)
BoundedDeliveries ==
  \A i \in Events :
    queue[i].class # "refused" => queue[i].delivered <= MaxDeliveries + crashes

(***************************************************************************)
(* Every published event is settled eventually, even if the handler fails  *)
(* at every delivery: no event blocks those behind it forever.  Only an    *)
(* event that handle_event neither handles nor fails on can.               *)
(***************************************************************************)
NoPoisonPill ==
  \A i \in 1..MaxEvents :
    i \in Events
      ~> \E k \in Events : (k = i /\ Acked(k)) \/ (k <= i /\ queue[k].class = "refused")

(***************************************************************************)
(* The process with its crashes, retries and lost acknowledgements is an   *)
(* ordered at-least-once delivery: see OrderedDelivery.                    *)
(***************************************************************************)
Ordered == INSTANCE OrderedDelivery WITH
  MaxBatch <- MaxEvents,
  effects <- [i \in Events |-> queue[i].commits],
  status <- [i \in Events |-> IF Acked(i) THEN "closed" ELSE "open"]

DeliversInOrder == Ordered!Spec
=============================================================================
