--------------------------- MODULE DeliveryProofs ---------------------------
(***************************************************************************)
(* Proofs about Delivery, for every budget of deliveries, any number of    *)
(* crashes and any number of events.                                       *)
(*                                                                         *)
(* The safety properties are not inductive: that an event is in order, or  *)
(* within its budget, depends on the process working on the oldest pending *)
(* event and on why it is about to acknowledge it.  IInv says so.          *)
(***************************************************************************)
EXTENDS Delivery, TLAPS

USE DeliveryAssumption

Working == pc \in {"fetched"} \cup Verdict

\* The process works on the oldest unacknowledged event, or on none.
CurrentIsOldest == IF Working THEN cur \in Events /\ OldestPending(cur) ELSE cur = 0

\* Events are acknowledged in the order in which they were published.
AckedPrefix == \A i, k \in Events : k < i /\ Acked(i) => Acked(k)

\* A verdict on a relevant event is backed by a commit or by a used up budget.
VerdictJustified ==
  pc \in Verdict /\ queue[cur].class = "relevant"
    => queue[cur].commits > 0 \/ queue[cur].delivered >= MaxDeliveries

\* A pending event that is not being processed can still be delivered.
BudgetLeft ==
  \A i \in Events :
    /\ queue[i].class # "refused"
    /\ ~Acked(i)
    /\ i # cur
    => queue[i].delivered < MaxDeliveries + crashes

IInv ==
  /\ TypeOK
  /\ CurrentIsOldest
  /\ AckedPrefix
  /\ VerdictJustified
  /\ NoSilentLoss
  /\ EffectsInOrder
  /\ BudgetLeft
  /\ BoundedDeliveries

----------------------------------------------------------------------------
(* The two ways the queue changes: one event is updated, or one is added *)

\* Updating one event leaves a queue of the same length.
LEMMA UpdatedQueue ==
  ASSUME NEW S, NEW q \in Seq(S), NEW i \in DOMAIN q, NEW r \in S
  PROVE  /\ [q EXCEPT ![i] = r] \in Seq(S)
         /\ DOMAIN [q EXCEPT ![i] = r] = DOMAIN q
         /\ \A k \in DOMAIN q : [q EXCEPT ![i] = r][k] = IF k = i THEN r ELSE q[k]
  OBVIOUS

\* A published event comes last and is untouched; those before it stay.
LEMMA Published ==
  ASSUME TypeOK, NEW c \in Class, Publish(<<c>>)
  PROVE  /\ queue' \in Seq(EventRecord)
         /\ Len(queue') = Len(queue) + 1
         /\ \A i \in 1..Len(queue) : queue'[i] = queue[i]
         /\ queue'[Len(queue) + 1] = FreshEvent(c)
<1> DEFINE new == [j \in 1..1 |-> FreshEvent(<<c>>[j])]
<1>1. FreshEvent(c) \in EventRecord
  BY DEF FreshEvent, EventRecord
<1>2. new \in Seq(EventRecord) /\ Len(new) = 1 /\ new[1] = FreshEvent(c)
  BY <1>1
<1>3. queue' = queue \o new
  BY DEF Publish
<1> QED BY <1>1, <1>2, <1>3 DEF TypeOK

\* Only fields of the i-th event differ between queue and queue'.
OnlyEvent(i) ==
  /\ queue' \in Seq(EventRecord)
  /\ Events' = Events
  /\ \A k \in Events : k # i => queue'[k] = queue[k]

\* A fetch counts one more delivery, up to the bound of the counter.
LEMMA Fetched ==
  ASSUME TypeOK, NEW i \in Events, Fetch(i)
  PROVE  /\ OnlyEvent(i)
         /\ queue'[i] = [queue[i] EXCEPT !.delivered = OneMore(@)]
         /\ queue'[i].delivered <= queue[i].delivered + 1
<1> DEFINE r == [queue[i] EXCEPT !.delivered = OneMore(@)]
<1>1. queue[i] \in EventRecord
  BY DEF TypeOK, Events
<1>2. OneMore(queue[i].delivered) \in Nat /\ OneMore(queue[i].delivered) <= queue[i].delivered + 1
  BY <1>1 DEF EventRecord, OneMore
<1>3. r \in EventRecord
  BY <1>1, <1>2 DEF EventRecord
<1>4. queue' = [queue EXCEPT ![i] = r]
  BY DEF Fetch
<1>5. r.delivered = OneMore(queue[i].delivered)
  BY <1>1 DEF EventRecord
<1> HIDE DEF r
<1>6. OnlyEvent(i) /\ queue'[i] = r
  BY <1>3, <1>4, UpdatedQueue DEF OnlyEvent, TypeOK, Events
<1> QED BY <1>2, <1>5, <1>6 DEF r

\* A committed transaction is recorded with the current event.
LEMMA Committed ==
  ASSUME TypeOK, cur \in Events, queue' = [queue EXCEPT ![cur].commits = @ + 1]
  PROVE  /\ OnlyEvent(cur)
         /\ queue'[cur] = [queue[cur] EXCEPT !.commits = @ + 1]
         /\ queue'[cur].commits > 0
<1> DEFINE r == [queue[cur] EXCEPT !.commits = @ + 1]
<1>1. queue[cur] \in EventRecord
  BY DEF TypeOK, Events
<1>2. r \in EventRecord /\ r.commits > 0
  BY <1>1 DEF EventRecord
<1>3. queue' = [queue EXCEPT ![cur] = r]
  OBVIOUS
<1> HIDE DEF r
<1>4. OnlyEvent(cur) /\ queue'[cur] = r
  BY <1>2, <1>3, UpdatedQueue DEF OnlyEvent, TypeOK, Events
<1> QED BY <1>2, <1>4 DEF r

\* An acknowledged event keeps everything but its outcome.
LEMMA Settled ==
  ASSUME TypeOK, cur \in Events, pc \in Verdict, SettleCurrent
  PROVE  /\ OnlyEvent(cur)
         /\ queue'[cur] = [queue[cur] EXCEPT !.outcome = pc]
         /\ queue'[cur].outcome # "pending"
<1> DEFINE r == [queue[cur] EXCEPT !.outcome = pc]
<1>1. queue[cur] \in EventRecord
  BY DEF TypeOK, Events
<1>2. r \in EventRecord /\ r.outcome = pc
  BY <1>1 DEF EventRecord
<1>3. queue' = [queue EXCEPT ![cur] = r]
  BY DEF SettleCurrent
<1> HIDE DEF r
<1>4. OnlyEvent(cur) /\ queue'[cur] = r
  BY <1>2, <1>3, UpdatedQueue DEF OnlyEvent, TypeOK, Events
<1>5. pc # "pending"
  BY DEF Verdict
<1> QED BY <1>2, <1>4, <1>5 DEF r

----------------------------------------------------------------------------
(* The initial states *)

\* An empty queue and an idle process satisfy the invariant.
LEMMA InitInv == Init => IInv
<1> SUFFICES ASSUME Init PROVE IInv
  OBVIOUS
<1>1. TypeOK /\ Events = {}
  BY DEF Init, TypeOK, Events
<1> QED
  BY <1>1 DEF Init, IInv, CurrentIsOldest, Working, Verdict, AckedPrefix, VerdictJustified,
    NoSilentLoss, EffectsInOrder, BudgetLeft, BoundedDeliveries

----------------------------------------------------------------------------
(* One lemma per kind of step *)

\* The fields of an event and the range of the counters, from the type invariant.
LEMMA Fields ==
  ASSUME TypeOK
  PROVE  /\ Events = 1..Len(queue)
         /\ Len(queue) \in Nat
         /\ crashes \in Nat
         /\ \A i \in Events : /\ queue[i] \in EventRecord
                              /\ queue[i].delivered \in Nat
                              /\ queue[i].commits \in Nat
<1>1. /\ Events = 1..Len(queue)
      /\ Len(queue) \in Nat
      /\ \A i \in Events : queue[i] \in EventRecord
  BY DEF TypeOK, Events
<1>2. crashes \in Nat
  BY DEF TypeOK
<1>3. \A r \in EventRecord : r.delivered \in Nat /\ r.commits \in Nat
  BY DEF EventRecord
<1> QED BY <1>1, <1>2, <1>3

\* The same of the updated queue.
LEMMA NextFields ==
  ASSUME NEW i \in Events, OnlyEvent(i)
  PROVE  \A k \in Events : /\ queue'[k] \in EventRecord
                           /\ queue'[k].delivered \in Nat
                           /\ queue'[k].commits \in Nat
<1>1. \A k \in Events : queue'[k] \in EventRecord
  BY DEF OnlyEvent, Events
<1>2. \A r \in EventRecord : r.delivered \in Nat /\ r.commits \in Nat
  BY DEF EventRecord
<1> QED BY <1>1, <1>2

\* Publishing appends pending events, which constrain nothing yet.
LEMMA PublishInv ==
  ASSUME IInv, NEW c \in Class, Publish(<<c>>)
  PROVE  IInv'
<1> DEFINE n == Len(queue) + 1
<1>1. TypeOK
  BY DEF IInv
<1>2. /\ queue' \in Seq(EventRecord)
      /\ Events' = 1..n
      /\ \A i \in Events : queue'[i] = queue[i]
      /\ queue'[n] = FreshEvent(c)
  BY <1>1, Published, Fields DEF Events
<1>3. UNCHANGED <<pc, cur, crashes>>
  BY DEF Publish
<1>4. /\ Events' = Events \cup {n}
      /\ n \notin Events
      /\ n \in Nat
      /\ \A i \in Events : i \in Nat /\ i < n
      /\ \A i \in Events : \A k \in 1..(i - 1) : k \in Events
  BY <1>1, <1>2, Fields
<1>5. /\ queue'[n].outcome = "pending"
      /\ queue'[n].delivered = 0
      /\ queue'[n].commits = 0
      /\ \A i \in Events : queue'[i] = queue[i]
  BY <1>2 DEF FreshEvent
<1>6. TypeOK'
  BY <1>1, <1>2, <1>3 DEF TypeOK
<1> HIDE DEF n
<1>7. CurrentIsOldest'
  <2>1. CASE Working
    <3>1. cur \in Events /\ ~Acked(cur) /\ \A k \in 1..(cur - 1) : Acked(k) /\ k \in Events
      BY <1>4, <2>1 DEF IInv, CurrentIsOldest, OldestPending
    <3>2. Working' /\ cur' \in Events' /\ OldestPending(cur)'
      BY <1>3, <1>4, <1>5, <2>1, <3>1 DEF Working, OldestPending, Acked
    <3> QED BY <1>3, <3>2 DEF CurrentIsOldest
  <2>2. CASE ~Working
    BY <1>3, <2>2 DEF IInv, CurrentIsOldest, Working
  <2> QED BY <2>1, <2>2
<1>8. AckedPrefix'
  BY <1>4, <1>5 DEF IInv, AckedPrefix, Acked
<1>9. EffectsInOrder'
  BY <1>4, <1>5 DEF IInv, EffectsInOrder, Acked
<1>10. NoSilentLoss'
  BY <1>4, <1>5 DEF IInv, NoSilentLoss, Acked
<1>11. VerdictJustified'
  BY <1>3, <1>5 DEF IInv, CurrentIsOldest, Working, VerdictJustified
<1>12. BudgetLeft'
  BY <1>1, <1>3, <1>4, <1>5, Fields DEF IInv, BudgetLeft, Acked
<1>13. BoundedDeliveries'
  BY <1>1, <1>3, <1>4, <1>5, Fields DEF IInv, BoundedDeliveries
<1> QED BY <1>6, <1>7, <1>8, <1>9, <1>10, <1>11, <1>12, <1>13 DEF IInv

\* Fetching makes the oldest open event current and counts the delivery.
LEMMA FetchInv ==
  ASSUME IInv, NEW i \in Events, Fetch(i)
  PROVE  IInv'
<1>1. TypeOK /\ cur = 0
  BY DEF IInv, Fetch, CurrentIsOldest, Working, Verdict
<1>2. /\ OnlyEvent(i)
      /\ queue'[i].delivered <= queue[i].delivered + 1
      /\ queue'[i] = [queue[i] EXCEPT !.delivered = OneMore(@)]
  BY <1>1, Fetched
<1>3. /\ pc' = "fetched" /\ cur' = i /\ crashes' = crashes
      /\ OldestPending(i)
  BY DEF Fetch
<1>4. Events' = Events /\ \A k \in Events : k # i => queue'[k] = queue[k]
  BY <1>2 DEF OnlyEvent
<1>5. /\ Events = 1..Len(queue) /\ Len(queue) \in Nat /\ crashes \in Nat /\ i # 0
      /\ \A k \in Events : queue[k] \in EventRecord
      /\ \A k \in Events : queue[k].delivered \in Nat /\ queue'[k].delivered \in Nat
  BY <1>1, <1>2, Fields, NextFields
<1>6. queue'[i].class = queue[i].class /\ queue'[i].outcome = queue[i].outcome
       /\ queue'[i].commits = queue[i].commits
  BY <1>2, <1>5 DEF EventRecord
<1>7. \A k \in Events : /\ queue'[k].class = queue[k].class
                        /\ queue'[k].outcome = queue[k].outcome
                        /\ queue'[k].commits = queue[k].commits
                        /\ queue'[k].delivered <= queue[k].delivered + 1
  <2> SUFFICES ASSUME NEW k \in Events
               PROVE  /\ queue'[k].class = queue[k].class
                      /\ queue'[k].outcome = queue[k].outcome
                      /\ queue'[k].commits = queue[k].commits
                      /\ queue'[k].delivered <= queue[k].delivered + 1
    OBVIOUS
  <2>1. CASE k = i
    BY <1>2, <1>6, <2>1
  <2>2. CASE k # i
    BY <1>4, <1>5, <2>2
  <2> QED BY <2>1, <2>2
<1>8. TypeOK'
  BY <1>1, <1>2, <1>3, <1>5 DEF TypeOK, OnlyEvent
<1>9. OldestPending(i)'
  <2>1. \A k \in 1..i : k \in Events /\ Acked(k)' = Acked(k)
    BY <1>4, <1>5, <1>7 DEF Acked
  <2> QED
    BY <1>3, <1>4, <1>5, <2>1 DEF OldestPending
<1>10. CurrentIsOldest'
  BY <1>3, <1>4, <1>9 DEF CurrentIsOldest, Working
<1>11. AckedPrefix' /\ EffectsInOrder'
  BY <1>4, <1>7 DEF IInv, AckedPrefix, EffectsInOrder, Acked
<1>12. NoSilentLoss'
  BY <1>3, <1>4, <1>7 DEF IInv, NoSilentLoss, OldestPending, Acked
<1>13. VerdictJustified'
  BY <1>3 DEF VerdictJustified, Verdict
<1>14. BudgetLeft'
  BY <1>1, <1>3, <1>4, <1>5, <1>7 DEF IInv, BudgetLeft, Acked
<1>15. BoundedDeliveries'
  BY <1>1, <1>3, <1>4, <1>5, <1>7 DEF IInv, BudgetLeft, BoundedDeliveries, OldestPending
<1> QED BY <1>8, <1>10, <1>11, <1>12, <1>13, <1>14, <1>15 DEF IInv

\* Reaching a verdict without having touched the database.
LEMMA VerdictInv ==
  ASSUME IInv, SkipIrrelevant \/ RejectMalformed
  PROVE  IInv'
<1>1. /\ UNCHANGED <<queue, cur, crashes>>
      /\ pc = "fetched" /\ pc' \in Verdict
      /\ queue[cur].class # "relevant"
  BY DEF SkipIrrelevant, RejectMalformed, Verdict
<1>2. TypeOK'
  BY <1>1 DEF IInv, TypeOK, Verdict
<1>3. CurrentIsOldest'
  BY <1>1 DEF IInv, CurrentIsOldest, Working, OldestPending, Acked, Events
<1>4. VerdictJustified'
  BY <1>1 DEF VerdictJustified
<1>5. AckedPrefix' /\ NoSilentLoss' /\ EffectsInOrder' /\ BudgetLeft' /\ BoundedDeliveries'
  BY <1>1 DEF IInv, AckedPrefix, NoSilentLoss, EffectsInOrder, BudgetLeft, BoundedDeliveries,
    Acked, Events
<1> QED BY <1>2, <1>3, <1>4, <1>5 DEF IInv

(***************************************************************************)
(* The current event may or may not have been committed once more: nothing *)
(* else about the queue changes, and no other event is committed.          *)
(***************************************************************************)
MaybeCommitted ==
  /\ queue' \in Seq(EventRecord)
  /\ Events' = Events
  /\ \A k \in Events : /\ queue'[k].class = queue[k].class
                       /\ queue'[k].outcome = queue[k].outcome
                       /\ queue'[k].delivered = queue[k].delivered
                       /\ queue'[k].commits > 0 => k = cur \/ queue[k].commits > 0
                       /\ queue[k].commits > 0 => queue'[k].commits > 0

\* A step that may commit touches nothing but the commits of the current event.
LEMMA CommitChanges ==
  ASSUME TypeOK, cur \in Events, queue' = [queue EXCEPT ![cur].commits = @ + 1]
  PROVE  MaybeCommitted /\ queue'[cur].commits > 0
<1>1. /\ OnlyEvent(cur)
      /\ queue'[cur] = [queue[cur] EXCEPT !.commits = @ + 1]
      /\ queue'[cur].commits > 0
  BY Committed
<1>2. queue[cur] \in EventRecord
  BY Fields
<1>3. /\ queue'[cur].class = queue[cur].class
      /\ queue'[cur].outcome = queue[cur].outcome
      /\ queue'[cur].delivered = queue[cur].delivered
  BY <1>1, <1>2 DEF EventRecord
<1> QED BY <1>1, <1>3 DEF MaybeCommitted, OnlyEvent

\* A step that leaves the queue alone commits nothing.
LEMMA NoChange ==
  ASSUME TypeOK, UNCHANGED queue
  PROVE  MaybeCommitted
  BY DEF MaybeCommitted, TypeOK, Events

\* What survives any step that at most commits the current event and stays or stops.
LEMMA CommitInv ==
  ASSUME IInv, Working, MaybeCommitted
  PROVE  AckedPrefix' /\ NoSilentLoss' /\ EffectsInOrder'
<1>1. cur \in Events /\ OldestPending(cur) /\ TypeOK
  BY DEF IInv, CurrentIsOldest
<1>2. /\ Events = 1..Len(queue) /\ Len(queue) \in Nat
      /\ \A i \in Events : i < cur => Acked(i)
  BY <1>1, Fields DEF OldestPending
<1>3. \A k \in Events : Acked(k) => k # cur
  BY <1>1 DEF OldestPending
<1>4. AckedPrefix'
  BY DEF IInv, AckedPrefix, Acked, MaybeCommitted
<1>5. EffectsInOrder'
  BY <1>2 DEF IInv, EffectsInOrder, Acked, MaybeCommitted
<1>6. NoSilentLoss'
  BY <1>3 DEF IInv, NoSilentLoss, Acked, MaybeCommitted
<1> QED BY <1>4, <1>5, <1>6

\* The process keeps the current event and has reached a justified verdict on it.
LEMMA KeepInv ==
  ASSUME IInv, Working, MaybeCommitted, pc' \in Verdict, cur' = cur, crashes' = crashes,
         queue'[cur].commits > 0 \/ queue[cur].delivered >= MaxDeliveries
  PROVE  IInv'
<1>1. cur \in Events /\ OldestPending(cur) /\ TypeOK
  BY DEF IInv, CurrentIsOldest
<1>2. TypeOK'
  BY <1>1 DEF TypeOK, MaybeCommitted
<1>3. CurrentIsOldest'
  <2>1. Events = 1..Len(queue) /\ Len(queue) \in Nat
    BY <1>1, Fields
  <2>2. OldestPending(cur)'
    BY <1>1, <2>1 DEF OldestPending, Acked, MaybeCommitted
  <2> QED BY <1>1, <2>2 DEF CurrentIsOldest, Working, MaybeCommitted
<1>4. VerdictJustified'
  BY <1>1 DEF VerdictJustified, MaybeCommitted
<1>5. BudgetLeft' /\ BoundedDeliveries'
  BY DEF IInv, BudgetLeft, BoundedDeliveries, Acked, MaybeCommitted
<1> QED BY <1>2, <1>3, <1>4, <1>5, CommitInv DEF IInv

\* The process gives the current event up; the queue will offer it again.
LEMMA AbandonInv ==
  ASSUME IInv, Working, MaybeCommitted, pc' \in {"down", "idle"}, cur' = 0,
         crashes' \in crashes..MaxCrashes,
         queue[cur].class # "refused" => queue[cur].delivered < MaxDeliveries + crashes'
  PROVE  IInv'
<1>1. cur \in Events /\ OldestPending(cur) /\ TypeOK
  BY DEF IInv, CurrentIsOldest
<1>2. /\ crashes \in Nat /\ crashes' \in Nat /\ crashes <= crashes'
      /\ \A k \in Events : k \in Nat /\ k # 0 /\ queue[k].delivered \in Nat
  BY <1>1, Fields
<1>3. TypeOK'
  BY <1>1, <1>2 DEF TypeOK, MaybeCommitted
<1>4. CurrentIsOldest' /\ VerdictJustified'
  BY DEF CurrentIsOldest, VerdictJustified, Working, Verdict
<1>5. BudgetLeft'
  BY <1>2 DEF IInv, BudgetLeft, Acked, MaybeCommitted
<1>6. BoundedDeliveries'
  BY <1>2 DEF IInv, BoundedDeliveries, MaybeCommitted
<1> QED BY <1>3, <1>4, <1>5, <1>6, CommitInv DEF IInv

\* The current event is settled with the verdict the process has reached.
LEMMA SettleInv ==
  ASSUME IInv, pc \in Verdict, SettleCurrent, pc' \in {"down", "idle"}, cur' = 0,
         crashes' \in crashes..MaxCrashes
  PROVE  IInv'
<1>1. cur \in Events /\ OldestPending(cur) /\ TypeOK
  BY DEF IInv, CurrentIsOldest, Working
<1>2. /\ OnlyEvent(cur)
      /\ queue'[cur] = [queue[cur] EXCEPT !.outcome = pc]
      /\ queue'[cur].outcome # "pending"
  BY <1>1, Settled
<1>3. queue[cur] \in EventRecord
  BY <1>1, Fields
<1>4. /\ queue'[cur].class = queue[cur].class
      /\ queue'[cur].delivered = queue[cur].delivered
      /\ queue'[cur].commits = queue[cur].commits
  BY <1>2, <1>3 DEF EventRecord
<1>5. /\ Events' = Events
      /\ \A k \in Events : k # cur => queue'[k] = queue[k]
      /\ \A k \in Events : /\ queue'[k].class = queue[k].class
                           /\ queue'[k].delivered = queue[k].delivered
                           /\ queue'[k].commits = queue[k].commits
  BY <1>2, <1>4 DEF OnlyEvent
<1>6. /\ Events = 1..Len(queue) /\ Len(queue) \in Nat
      /\ \A k \in Events : k < cur => Acked(k)
      /\ crashes \in Nat /\ crashes' \in Nat /\ crashes <= crashes'
      /\ \A k \in Events : queue[k].delivered \in Nat
  BY <1>1, Fields DEF OldestPending
<1>7. TypeOK'
  BY <1>1, <1>2, <1>6 DEF TypeOK, OnlyEvent
<1>8. CurrentIsOldest' /\ VerdictJustified'
  BY DEF CurrentIsOldest, VerdictJustified, Working, Verdict
<1>9. AckedPrefix'
  <2>1. \A k \in Events : queue'[k].outcome # "pending" <=> k = cur \/ Acked(k)
    BY <1>1, <1>2, <1>5 DEF Acked
  <2>2. \A i, k \in Events : k < i /\ (i = cur \/ Acked(i)) => k = cur \/ Acked(k)
    BY <1>6 DEF IInv, AckedPrefix
  <2> QED BY <1>5, <2>1, <2>2 DEF AckedPrefix, Acked
<1>10. NoSilentLoss'
  BY <1>5 DEF IInv, NoSilentLoss, VerdictJustified, Acked
<1>11. EffectsInOrder'
  BY <1>2, <1>5 DEF IInv, EffectsInOrder, Acked
<1>12. BudgetLeft'
  <2> SUFFICES ASSUME NEW k \in Events, queue'[k].class # "refused",
                      queue'[k].outcome = "pending"
               PROVE  queue'[k].delivered < MaxDeliveries + crashes'
    BY <1>5 DEF BudgetLeft, Acked
  <2>1. k # cur /\ ~Acked(k) /\ queue[k].class # "refused"
    BY <1>2, <1>5 DEF Acked
  <2>2. queue[k].delivered < MaxDeliveries + crashes
    BY <2>1 DEF IInv, BudgetLeft
  <2> QED BY <1>5, <1>6, <2>2
<1>13. BoundedDeliveries'
  BY <1>5, <1>6 DEF IInv, BoundedDeliveries
<1> QED BY <1>7, <1>8, <1>9, <1>10, <1>11, <1>12, <1>13 DEF IInv

\* A restarted process is idle and has no current event.
LEMMA RestartInv ==
  ASSUME IInv, Restart
  PROVE  IInv'
<1>1. UNCHANGED <<queue, cur, crashes>> /\ pc = "down" /\ pc' = "idle"
  BY DEF Restart
<1>2. TypeOK' /\ CurrentIsOldest' /\ VerdictJustified'
  BY <1>1 DEF IInv, TypeOK, CurrentIsOldest, VerdictJustified, Working, Verdict
<1>3. AckedPrefix' /\ NoSilentLoss' /\ EffectsInOrder' /\ BudgetLeft' /\ BoundedDeliveries'
  BY <1>1 DEF IInv, AckedPrefix, NoSilentLoss, EffectsInOrder, BudgetLeft, BoundedDeliveries,
    Acked, Events
<1> QED BY <1>2, <1>3 DEF IInv

----------------------------------------------------------------------------
(* Every step *)

\* A failed handler gives the event up, or keeps it for a justified drop.
LEMMA HandlerErrorInv ==
  ASSUME IInv, NEW committed \in BOOLEAN, HandlerError(committed)
  PROVE  IInv'
<1>1. TypeOK /\ Working /\ cur \in Events
  BY DEF IInv, HandlerError, CurrentIsOldest, Working
<1>2. MaybeCommitted
  BY <1>1, CommitChanges, NoChange DEF HandlerError
<1>3. queue[cur].delivered \in Nat /\ crashes \in 0..MaxCrashes
  BY <1>1, Fields DEF TypeOK
<1>4. crashes' = crashes
  BY DEF HandlerError
<1>5. CASE queue[cur].delivered < MaxDeliveries
  BY <1>1, <1>2, <1>3, <1>4, <1>5, AbandonInv DEF HandlerError, Crash
<1>6. CASE ~(queue[cur].delivered < MaxDeliveries)
  <2>1. pc' = "exhausted" /\ cur' = cur
    BY <1>6 DEF HandlerError
  <2>2. queue[cur].delivered >= MaxDeliveries
    BY <1>3, <1>6
  <2> QED BY <1>1, <1>2, <1>4, <2>1, <2>2, KeepInv DEF Verdict
<1> QED BY <1>5, <1>6

\* Every step preserves the invariant: one case per action of Next.
LEMMA StepInv == IInv /\ [Next]_vars => IInv'
<1> SUFFICES ASSUME IInv, [Next]_vars PROVE IInv'
  OBVIOUS
<1>1. TypeOK /\ (Working => cur \in Events)
  BY DEF IInv, CurrentIsOldest
<1>2. crashes \in 0..MaxCrashes /\ MaxCrashes \in Nat
  BY <1>1 DEF TypeOK
<1>3. CASE \E c \in Class : Publish(<<c>>)
  BY <1>3, PublishInv
<1>4. CASE \E i \in Events : Fetch(i)
  BY <1>4, FetchInv
<1>5. CASE SkipIrrelevant \/ RejectMalformed
  BY <1>5, VerdictInv
<1>6. CASE Handle
  <2>1. Working /\ MaybeCommitted /\ queue'[cur].commits > 0
    BY <1>1, <1>6, CommitChanges DEF Handle, Working
  <2> QED BY <1>6, <2>1, KeepInv DEF Handle, Verdict
<1>7. CASE \E committed \in BOOLEAN : HandlerError(committed)
  BY <1>7, HandlerErrorInv
<1>8. CASE NotHandled
  <2>1. Working /\ MaybeCommitted
    BY <1>1, <1>8, NoChange DEF NotHandled, Working
  <2> QED BY <1>2, <1>8, <2>1, AbandonInv DEF NotHandled
<1>9. CASE Acknowledge
  BY <1>2, <1>9, SettleInv DEF Acknowledge
<1>10. CASE \E reached \in BOOLEAN : AcknowledgeFails(reached)
  <2>1. PICK reached \in BOOLEAN : AcknowledgeFails(reached)
    BY <1>10
  <2>2. /\ pc \in Verdict /\ Working
        /\ pc' = "down" /\ cur' = 0 /\ crashes' = crashes + 1
        /\ crashes' \in crashes..MaxCrashes
    BY <1>2, <2>1 DEF AcknowledgeFails, Crash, Working
  <2>3. CASE reached
    BY <2>1, <2>2, <2>3, SettleInv DEF AcknowledgeFails
  <2>4. CASE ~reached
    <3>1. MaybeCommitted
      BY <1>1, <2>1, <2>4, NoChange DEF AcknowledgeFails
    <3>2. queue[cur].class # "refused" => queue[cur].delivered < MaxDeliveries + crashes'
      BY <1>1, <1>2, <2>2, Fields DEF IInv, BoundedDeliveries
    <3> QED BY <2>2, <3>1, <3>2, AbandonInv
  <2> QED BY <2>3, <2>4
<1>11. CASE Kill
  <2>1. /\ UNCHANGED queue /\ pc' = "down" /\ cur' = 0 /\ crashes' = crashes + 1
        /\ crashes' \in crashes..MaxCrashes
    BY <1>2, <1>11 DEF Kill, Crash
  <2>2. CASE Working
    <3>1. queue[cur].class # "refused" => queue[cur].delivered < MaxDeliveries + crashes'
      BY <1>1, <1>2, <2>1, <2>2, Fields DEF IInv, BoundedDeliveries
    <3> QED BY <1>1, <2>1, <2>2, <3>1, AbandonInv, NoChange
  <2>3. CASE ~Working
    <3>1. cur = 0
      BY <2>3 DEF IInv, CurrentIsOldest
    <3>2. TypeOK' /\ CurrentIsOldest' /\ VerdictJustified'
      BY <1>1, <1>2, <2>1 DEF TypeOK, CurrentIsOldest, VerdictJustified, Working, Verdict
    <3>3. AckedPrefix' /\ NoSilentLoss' /\ EffectsInOrder'
      BY <2>1 DEF IInv, AckedPrefix, NoSilentLoss, EffectsInOrder, Acked, Events
    <3>4. BudgetLeft' /\ BoundedDeliveries'
      BY <1>1, <1>2, <2>1, <3>1, Fields DEF IInv, BudgetLeft, BoundedDeliveries, Acked, Events
    <3> QED BY <3>2, <3>3, <3>4 DEF IInv
  <2> QED BY <2>2, <2>3
<1>12. CASE Restart
  BY <1>12, RestartInv
<1>13. CASE UNCHANGED vars
  BY <1>13 DEF vars, IInv, TypeOK, CurrentIsOldest, VerdictJustified, AckedPrefix, NoSilentLoss,
    EffectsInOrder, BudgetLeft, BoundedDeliveries, Working, OldestPending, Acked, Events
<1> QED
  BY <1>3, <1>4, <1>5, <1>6, <1>7, <1>8, <1>9, <1>10, <1>11, <1>12, <1>13
    DEF Next, Environment, Process

----------------------------------------------------------------------------
(* Theorems *)

\* The inductive invariant holds in every reachable state.
LEMMA Invariance == Spec => []IInv
  BY InitInv, StepInv, PTL DEF Spec

\* The variables keep their types: the process is in one of its seven states.
THEOREM TypeCorrect == Spec => []TypeOK
  BY Invariance, PTL DEF IInv

(***************************************************************************)
(* process_one_event acknowledges a relevant event only once it has been   *)
(* committed or delivered max_deliveries times.                            *)
(***************************************************************************)
THEOREM NothingLostSilently == Spec => []NoSilentLoss
  BY Invariance, PTL DEF IInv

\* No event takes effect before every older event has been acknowledged.
THEOREM TakesEffectInOrder == Spec => []EffectsInOrder
  BY Invariance, PTL DEF IInv

\* The retries of process_one_event are bounded by max_deliveries and the crashes.
THEOREM RetriesBounded == Spec => []BoundedDeliveries
  BY Invariance, PTL DEF IInv

----------------------------------------------------------------------------
(* Delivery implements OrderedDelivery *)

Effects == [i \in Events |-> queue[i].commits]
Status == [i \in Events |-> IF Acked(i) THEN "closed" ELSE "open"]

\* The event being processed is the abstract oldest open event.
LEMMA OldestIsOpen ==
  ASSUME TypeOK, NEW i \in Events, OldestPending(i)
  PROVE  Ordered!OldestOpen(i)
<1>1. Events = 1..Len(queue) /\ Len(queue) \in Nat
  BY Fields
<1> QED BY <1>1 DEF OldestPending, Ordered!OldestOpen

\* A step that changes neither commits nor outcomes is not seen from outside.
LEMMA Unseen ==
  ASSUME Events' = Events,
         \A k \in Events : /\ queue'[k].commits = queue[k].commits
                           /\ queue'[k].outcome = queue[k].outcome
  PROVE  Effects' = Effects /\ Status' = Status
  BY DEF Effects, Status, Acked

\* Publishing events is an abstract Publish.
LEMMA PublishRefines ==
  ASSUME IInv, NEW c \in Class, Publish(<<c>>)
  PROVE  Ordered!Publish(1)
<1> DEFINE n == Len(queue) + 1
<1>1. TypeOK
  BY DEF IInv
<1>2. /\ queue' \in Seq(EventRecord)
      /\ Len(queue') = n
      /\ \A i \in 1..Len(queue) : queue'[i] = queue[i]
      /\ queue'[n] = FreshEvent(c)
  BY <1>1, Published
<1>3. Events = 1..Len(queue) /\ Len(queue) \in Nat /\ Events' = 1..n
  BY <1>1, <1>2, Fields DEF Events
<1>4. queue'[n].commits = 0 /\ queue'[n].outcome = "pending"
  BY <1>2 DEF FreshEvent
<1>5. Effects' = Effects \o [j \in 1..1 |-> 0]
  <2>1. Effects \in Seq(Nat) /\ Len(Effects) = Len(queue)
    BY <1>1, <1>3, Fields DEF Effects
  <2>2. Effects' \in Seq(Nat) /\ Len(Effects') = n
    <3>1. \A i \in 1..n : queue'[i] \in EventRecord
      BY <1>2
    <3>2. \A i \in 1..n : queue'[i].commits \in Nat
      BY <3>1 DEF EventRecord
    <3> QED BY <1>3, <3>2 DEF Effects
  <2>3. \A i \in 1..n : Effects'[i] = IF i = n THEN 0 ELSE Effects[i]
    BY <1>2, <1>3, <1>4 DEF Effects
  <2> QED BY <1>3, <2>1, <2>2, <2>3
<1>6. Status' = Status \o [j \in 1..1 |-> "open"]
  <2>1. Status \in Seq({"open", "closed"}) /\ Len(Status) = Len(queue)
    BY <1>3 DEF Status, Acked
  <2>2. Status' \in Seq({"open", "closed"}) /\ Len(Status') = n
    BY <1>3 DEF Status, Acked
  <2>3. \A i \in 1..n : Status'[i] = IF i = n THEN "open" ELSE Status[i]
    BY <1>2, <1>3, <1>4 DEF Status, Acked
  <2> QED BY <1>3, <2>1, <2>2, <2>3
<1> QED BY <1>5, <1>6 DEF Ordered!Publish, Effects, Status

\* Committing the current event is an abstract TakeEffect.
LEMMA CommitRefines ==
  ASSUME IInv, Working, queue' = [queue EXCEPT ![cur].commits = @ + 1]
  PROVE  Ordered!TakeEffect(cur)
<1>1. TypeOK /\ cur \in Events /\ OldestPending(cur)
  BY DEF IInv, CurrentIsOldest
<1>2. /\ Events' = Events
      /\ \A k \in Events : k # cur => queue'[k] = queue[k]
      /\ queue'[cur] = [queue[cur] EXCEPT !.commits = @ + 1]
  BY <1>1, Committed DEF OnlyEvent
<1>3. queue'[cur].commits = queue[cur].commits + 1 /\ queue'[cur].outcome = queue[cur].outcome
  BY <1>1, <1>2, Fields DEF EventRecord
<1>4. Effects' = [Effects EXCEPT ![cur] = @ + 1]
  <2>1. Effects' = [k \in Events |-> IF k = cur THEN Effects[cur] + 1 ELSE Effects[k]]
    BY <1>1, <1>2, <1>3 DEF Effects
  <2> QED BY <1>1, <2>1 DEF Effects
<1>5. Status' = Status
  BY <1>2, <1>3 DEF Status, Acked
<1> QED
  BY <1>1, <1>4, <1>5, OldestIsOpen DEF Ordered!TakeEffect, Effects, Status

\* Acknowledging the current event is an abstract Close.
LEMMA SettleRefines ==
  ASSUME IInv, pc \in Verdict, SettleCurrent
  PROVE  Ordered!Close(cur)
<1>1. TypeOK /\ cur \in Events /\ OldestPending(cur)
  BY DEF IInv, CurrentIsOldest, Working
<1>2. /\ Events' = Events
      /\ \A k \in Events : k # cur => queue'[k] = queue[k]
      /\ queue'[cur] = [queue[cur] EXCEPT !.outcome = pc]
      /\ queue'[cur].outcome # "pending"
  BY <1>1, Settled DEF OnlyEvent
<1>3. queue'[cur].commits = queue[cur].commits
  BY <1>1, <1>2, Fields DEF EventRecord
<1>4. Effects' = Effects
  BY <1>2, <1>3 DEF Effects
<1>5. Status' = [Status EXCEPT ![cur] = "closed"]
  BY <1>1, <1>2 DEF Status, Acked
<1> QED
  BY <1>1, <1>4, <1>5, OldestIsOpen DEF Ordered!Close, Effects, Status

\* Every step is an abstract step or changes nothing abstract.
LEMMA StepRefines ==
  ASSUME IInv, [Next]_vars
  PROVE  Ordered!Step \/ UNCHANGED <<Effects, Status>>
<1>1. TypeOK /\ (Working => cur \in Events)
  BY DEF IInv, CurrentIsOldest
<1>2. CASE UNCHANGED queue
  BY <1>2 DEF Effects, Status, Acked, Events
<1>3. CASE \E c \in Class : Publish(<<c>>)
  <2>1. PICK c \in Class : Publish(<<c>>)
    BY <1>3
  <2>2. 1 \in 1..MaxEvents
    BY <1>1, <2>1, Fields DEF Publish
  <2> QED BY <2>1, <2>2, PublishRefines DEF Ordered!Step
<1>4. CASE \E i \in Events : Fetch(i)
  <2>1. PICK i \in Events : Fetch(i)
    BY <1>4
  <2>2. OnlyEvent(i) /\ queue'[i] = [queue[i] EXCEPT !.delivered = OneMore(@)]
    BY <1>1, <2>1, Fetched
  <2>3. queue'[i].commits = queue[i].commits /\ queue'[i].outcome = queue[i].outcome
    BY <1>1, <2>2, Fields DEF EventRecord
  <2>4. \A k \in Events : queue'[k].commits = queue[k].commits /\ queue'[k].outcome = queue[k].outcome
    BY <2>2, <2>3 DEF OnlyEvent
  <2>5. Events' = Events
    BY <2>2 DEF OnlyEvent
  <2> QED BY <2>4, <2>5, Unseen
<1>5. CASE Handle \/ \E committed \in BOOLEAN : HandlerError(committed)
  <2>1. Working
    BY <1>5 DEF Handle, HandlerError, Working
  <2>2. UNCHANGED queue \/ queue' = [queue EXCEPT ![cur].commits = @ + 1]
    BY <1>5 DEF Handle, HandlerError
  <2>3. CASE queue' = [queue EXCEPT ![cur].commits = @ + 1]
    <3>1. Ordered!TakeEffect(cur)
      BY <2>1, <2>3, CommitRefines
    <3> QED BY <1>1, <2>1, <3>1 DEF Ordered!Step, Ordered!TakeEffect
  <2> QED BY <1>2, <2>2, <2>3
<1>6. CASE Acknowledge \/ \E reached \in BOOLEAN : AcknowledgeFails(reached)
  <2>1. pc \in Verdict /\ (UNCHANGED queue \/ SettleCurrent)
    BY <1>6 DEF Acknowledge, AcknowledgeFails
  <2> QED
    BY <1>1, <1>2, <2>1, SettleRefines DEF Ordered!Step, Working, Status
<1>7. CASE SkipIrrelevant \/ RejectMalformed \/ NotHandled \/ Kill \/ Restart \/ UNCHANGED vars
  BY <1>2, <1>7 DEF SkipIrrelevant, RejectMalformed, NotHandled, Kill, Restart, vars
<1> QED
  BY <1>3, <1>4, <1>5, <1>6, <1>7 DEF Next, Environment, Process

(***************************************************************************)
(* The consumer with its crashes, retries and lost acknowledgements is an  *)
(* ordered at-least-once delivery.                                         *)
(***************************************************************************)
THEOREM Refinement == Spec => DeliversInOrder
<1>1. Init => Ordered!Start
  BY DEF Init, Ordered!Start, Events
<1>2. IInv /\ [Next]_vars => [Ordered!Step]_<<Effects, Status>>
  BY StepRefines
<1>3. IInv /\ [Next]_vars
        => [Ordered!Step]_<<[i \in Events |-> queue[i].commits],
                            [i \in Events |-> IF Acked(i) THEN "closed" ELSE "open"]>>
  BY <1>2 DEF Effects, Status
<1> QED
  BY <1>1, <1>3, Invariance, PTL DEF Spec, DeliversInOrder, Ordered!Spec
=============================================================================
