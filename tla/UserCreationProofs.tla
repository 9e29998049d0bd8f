------------------------ MODULE UserCreationProofs ------------------------
(***************************************************************************)
(* NumbersIssuedOnce and OneUserPerRecord for any number of clients,       *)
(* records and crashes.  The two do not depend on each other, so each has  *)
(* an inductive invariant of its own on top of the type invariant.         *)
(***************************************************************************)
EXTENDS UserCreation, TLAPS

\* What makes NumbersIssuedOnce inductive.
CounterInv ==
  /\ counter # 1
  /\ counter = 0 => issued = {}
  /\ \A c \in Client : request[c].at = "replace" => request[c].seen >= 2 /\ counter # 0
  /\ lost # {} \/ \A n \in issued : n < counter
  /\ NumbersIssuedOnce

\* A client waits for one job at most, and that job is for the client's record.
JobsAwaited ==
  \A j \in udm : j.for \in Client =>
    /\ request[j.for].at = "saving" /\ RecordOf[j.for] = j.record
    /\ \A k \in udm : k.for = j.for => k = j

\* Nobody else works on the record of a request that nothing overlapped.
WorksAlone ==
  \A c \in Client : request[c].at \in UnderWay /\ RecordOf[c] \notin overlapped =>
    /\ \A e \in Client : RecordOf[e] = RecordOf[c] /\ request[e].at \in UnderWay => e = c
    /\ \A j \in udm : j.record = RecordOf[c] => j.for = c

OneJob == \A j, k \in udm : j.record = k.record /\ j.record \notin overlapped => j = k

\* No request is beyond the search, and no job is left, for a record that has its user.
NothingOnTheWay ==
  \A a \in account : a.record \notin overlapped =>
    /\ \A c \in Client : RecordOf[c] = a.record => request[c].at \notin UnderWay \ {"search"}
    /\ \A j \in udm : j.record # a.record

\* What makes OneUserPerRecord inductive.
RecordInv == JobsAwaited /\ WorksAlone /\ OneJob /\ NothingOnTheWay /\ OneUserPerRecord

----------------------------------------------------------------------------

(***************************************************************************)
(* The variables keep their types in every step of create.                 *)
(***************************************************************************)
THEOREM TypeCorrect == Spec => []TypeOK
<1> USE UserCreationAssumption DEF UserCreationAssumption
<1>1. Init => TypeOK
  BY DEF Init, TypeOK, Stage
<1>2. TypeOK /\ [Next]_vars => TypeOK'
  <2> SUFFICES ASSUME TypeOK, [Next]_vars PROVE TypeOK'
    OBVIOUS
  <2>1. ASSUME NEW c \in Client, Receive(c) PROVE TypeOK'
    BY <2>1 DEF Receive, Moves, TypeOK, Stage
  <2>2. ASSUME NEW c \in Client, Search(c) PROVE TypeOK'
    BY <2>2 DEF Search, Moves, Named, ghosts, TypeOK, Stage
  <2>3. ASSUME NEW c \in Client, Retrieve(c) PROVE TypeOK'
    <3>1. PICK stage \in {"add", "replace"} :
            request' = [request EXCEPT ![c] = [at |-> stage, seen |-> counter, name |-> @.name]]
      BY <2>3 DEF Retrieve
    <3>2. [at |-> stage, seen |-> counter, name |-> request[c].name]
            \in [at : Stage, seen : Nat, name : Nat]
      BY <3>1 DEF TypeOK, Stage
    <3>3. request' \in [Client -> [at : Stage, seen : Nat, name : Nat]]
      BY <3>1, <3>2 DEF TypeOK
    <3> QED
      BY <2>3, <3>3 DEF Retrieve, ghosts, TypeOK
  <2>4. ASSUME NEW c \in Client, AddCounter(c) PROVE TypeOK'
    BY <2>4 DEF AddCounter, Moves, Named, Gives, TypeOK, Stage
  <2>5. ASSUME NEW c \in Client, ReplaceCounter(c) PROVE TypeOK'
    <3>1. request[c].seen \in Nat /\ request[c].seen + 1 \in Nat
      BY DEF TypeOK
    <3> DEFINE number == request[c].seen
    <3>2. /\ counter' = number + 1 /\ lost' = lost \cup ({counter} \ {number})
          /\ issued' = issued \cup {number} /\ twice' = twice \cup (issued \cap {number})
          /\ request' = [request EXCEPT ![c] = [at |-> "create", seen |-> @.seen, name |-> number]]
          /\ UNCHANGED <<account, udm, crashes, overlapped>>
      BY <2>5 DEF ReplaceCounter, Named, Gives
    <3> HIDE DEF number
    <3>3. number \in Nat /\ number + 1 \in Nat
      BY <3>1 DEF number
    <3>4. [at |-> "create", seen |-> request[c].seen, name |-> number]
            \in [at : Stage, seen : Nat, name : Nat]
      BY <3>3 DEF TypeOK, Stage
    <3>5. request' \in [Client -> [at : Stage, seen : Nat, name : Nat]]
      BY <3>2, <3>4 DEF TypeOK
    <3> QED
      BY <3>2, <3>3, <3>5 DEF TypeOK
  <2>6. ASSUME NEW c \in Client, Create(c) PROVE TypeOK'
    BY <2>6 DEF Create, Moves, ghosts, TypeOK, Stage, Job
  <2>7. ASSUME NEW c \in Client, Crash(c) PROVE TypeOK'
    BY <2>7 DEF Crash, Moves, ghosts, TypeOK, Stage, Job
  <2>8. ASSUME NEW job \in udm, Save(job) PROVE TypeOK'
    BY <2>8 DEF Save, ghosts, TypeOK, Stage, Job, Account
  <2>9. CASE UNCHANGED vars
    BY <2>9 DEF vars, TypeOK
  <2> QED
    BY <2>1, <2>2, <2>3, <2>4, <2>5, <2>6, <2>7, <2>8, <2>9 DEF Next, Attempt
<1> QED
  BY <1>1, <1>2, PTL DEF Spec

(***************************************************************************)
(* A counter that exists is at least 2 and above every number it gave out, *)
(* as long as nobody overwrote it with an older value (get_and_raise).     *)
(***************************************************************************)
THEOREM CounterSound == Spec => []CounterInv
<1> USE UserCreationAssumption DEF UserCreationAssumption
<1>1. Init => CounterInv
  BY DEF Init, CounterInv, NumbersIssuedOnce
<1>2. TypeOK /\ CounterInv /\ [Next]_vars => CounterInv'
  <2> SUFFICES ASSUME TypeOK, CounterInv, [Next]_vars PROVE CounterInv'
    OBVIOUS
  <2> USE DEF TypeOK, CounterInv, NumbersIssuedOnce
  <2>1. ASSUME NEW c \in Client, Receive(c) PROVE CounterInv'
    BY <2>1 DEF Receive, Moves
  <2>2. ASSUME NEW c \in Client, Search(c) PROVE CounterInv'
    BY <2>2 DEF Search, Moves, Named, ghosts
  <2>3. ASSUME NEW c \in Client, Retrieve(c) PROVE CounterInv'
    <3> DEFINE stage == IF counter = 0 THEN "add" ELSE "replace"
    <3>1. request' = [request EXCEPT ![c] = [at |-> stage, seen |-> counter, name |-> @.name]]
      BY <2>3 DEF Retrieve
    <3>2. UNCHANGED <<counter, issued, twice, lost>>
      BY <2>3 DEF Retrieve, ghosts
    <3>3. stage = "replace" => counter >= 2 /\ counter # 0
      OBVIOUS
    <3> HIDE DEF stage
    <3>4. \A d \in Client : request'[d].at = "replace" => request'[d].seen >= 2 /\ counter # 0
      BY <3>1, <3>3
    <3> QED
      BY <3>2, <3>4
  <2>4. ASSUME NEW c \in Client, AddCounter(c) PROVE CounterInv'
    <3>1. CASE counter = 0
      <4>1. /\ counter' = 2 /\ issued' = issued \cup {1} /\ twice' = twice \cup (issued \cap {1})
            /\ request' = [request EXCEPT ![c] = [at |-> "create", seen |-> @.seen, name |-> 1]]
            /\ UNCHANGED lost
        BY <2>4, <3>1 DEF AddCounter, Named, Gives
      <4>2. issued' = {1} /\ twice' = twice
        BY <3>1, <4>1
      <4>3. \A d \in Client : request'[d].at = "replace" => request'[d].seen >= 2
        BY <4>1
      <4> QED
        BY <4>1, <4>2, <4>3
    <3>2. CASE counter # 0
      BY <2>4, <3>2 DEF AddCounter, Moves
    <3> QED BY <3>1, <3>2
  <2>5. ASSUME NEW c \in Client, ReplaceCounter(c) PROVE CounterInv'
    <3> DEFINE number == request[c].seen
    <3>1. number \in Nat /\ number >= 2 /\ counter # 0
      BY <2>5 DEF ReplaceCounter
    <3>2. /\ counter' = number + 1 /\ lost' = lost \cup ({counter} \ {number})
          /\ issued' = issued \cup {number} /\ twice' = twice \cup (issued \cap {number})
          /\ request' = [request EXCEPT ![c] = [at |-> "create", seen |-> @.seen, name |-> number]]
      BY <2>5 DEF ReplaceCounter, Named, Gives
    <3> HIDE DEF number
    <3>3. \A d \in Client : request'[d].at = "replace" => request'[d].seen >= 2
      BY <3>2
    <3>4. lost' = {} => counter = number /\ lost = {}
      BY <3>2
    <3>5. lost' = {} => (\A n \in issued' : n < counter') /\ twice' = {}
      <4> SUFFICES ASSUME lost' = {} PROVE (\A n \in issued' : n < counter') /\ twice' = {}
        OBVIOUS
      <4>1. issued \subseteq Nat /\ (\A n \in issued : n < number) /\ twice = {}
        BY <3>4
      <4>2. number \notin issued
        BY <3>1, <4>1
      <4>3. \A n \in issued' : n < counter'
        BY <3>1, <3>2, <4>1
      <4> QED
        BY <3>2, <4>1, <4>2, <4>3
    <3>6. 1 \notin twice' \/ twice' = {}
      BY <3>1, <3>2
    <3>7. counter' # 0 /\ counter' # 1
      BY <3>1, <3>2
    <3>8. NumbersIssuedOnce'
      BY <3>5, <3>6
    <3> QED
      BY <3>3, <3>5, <3>7, <3>8
  <2>6. ASSUME NEW c \in Client, Create(c) PROVE CounterInv'
    BY <2>6 DEF Create, Moves, ghosts
  <2>7. ASSUME NEW c \in Client, Crash(c) PROVE CounterInv'
    BY <2>7 DEF Crash, Moves, ghosts
  <2>8. ASSUME NEW job \in udm, Save(job) PROVE CounterInv'
    BY <2>8 DEF Save, ghosts
  <2>9. CASE UNCHANGED vars
    BY <2>9 DEF vars
  <2> QED
    BY <2>1, <2>2, <2>3, <2>4, <2>5, <2>6, <2>7, <2>8, <2>9 DEF Next, Attempt
<1> QED
  BY <1>1, <1>2, TypeCorrect, PTL DEF Spec

(***************************************************************************)
(* Numbers are given out twice only after a lost update, and the first one *)
(* never (get_and_raise).                                                  *)
(***************************************************************************)
THEOREM NumbersUnique == Spec => []NumbersIssuedOnce
<1>1. CounterInv => NumbersIssuedOnce
  BY DEF CounterInv
<1> QED
  BY <1>1, CounterSound, PTL

----------------------------------------------------------------------------

(***************************************************************************)
(* A request moves on without UDM being involved: what is left to show of  *)
(* RecordInv when neither `account` nor `udm` changes and at most one      *)
(* request c is in another stage than before (Search to ReplaceCounter).   *)
(***************************************************************************)
LEMMA StageKeeps ==
  ASSUME TypeOK, RecordInv, NEW c \in Client,
         UNCHANGED <<account, udm, overlapped>>,
         request' \in [Client -> [at : Stage, seen : Nat, name : Nat]],
         \A e \in Client \ {c} : request'[e].at = request[e].at,
         request[c].at \in UnderWay \ {"saving"},
         request'[c].at \in UnderWay \ {"search"} =>
           request[c].at # "search" \/ ~Known(RecordOf[c])
  PROVE  RecordInv'
<1> USE UserCreationAssumption DEF UserCreationAssumption, RecordInv, UnderWay
<1>1. JobsAwaited'
  BY DEF JobsAwaited, TypeOK, Job
<1>2. WorksAlone'
  BY DEF WorksAlone
<1>3. OneJob'
  BY DEF OneJob
<1>4. NothingOnTheWay'
  BY DEF NothingOnTheWay, Known, TypeOK, Account
<1>5. OneUserPerRecord'
  BY DEF OneUserPerRecord
<1> QED
  BY <1>1, <1>2, <1>3, <1>4, <1>5

\* A request that arrives while its record is worked on marks the record (Receive).
LEMMA ReceiveKeeps ==
  ASSUME TypeOK, RecordInv, NEW c \in Client, Receive(c)
  PROVE  RecordInv'
<1> USE UserCreationAssumption DEF UserCreationAssumption, RecordInv, UnderWay
<1>1. PICK stage \in {"conflict", "search"} : request' = [request EXCEPT ![c].at = stage]
  BY DEF Receive, Moves
<1>2. /\ request[c].at \in {"unsent", "failed"}
      /\ UNCHANGED <<account, udm>>
      /\ overlapped \subseteq overlapped'
      /\ RecordOf[c] \notin overlapped' => ~Pending(RecordOf[c])
  BY DEF Receive
<1>3. \A e \in Client : request'[e].at = IF e = c THEN stage ELSE request[e].at
  BY <1>1 DEF TypeOK
<1>4. JobsAwaited'
  BY <1>2, <1>3 DEF JobsAwaited, TypeOK, Job
<1>5. WorksAlone'
  BY <1>2, <1>3 DEF WorksAlone, Pending
<1>6. OneJob'
  BY <1>2 DEF OneJob
<1>7. NothingOnTheWay'
  BY <1>2, <1>3 DEF NothingOnTheWay, TypeOK, Account
<1>8. OneUserPerRecord'
  BY <1>2 DEF OneUserPerRecord
<1> QED
  BY <1>4, <1>5, <1>6, <1>7, <1>8

\* The job of a request is the only one for its record unless the record is marked (Create).
LEMMA CreateKeeps ==
  ASSUME TypeOK, RecordInv, NEW c \in Client, Create(c)
  PROVE  RecordInv'
<1> USE UserCreationAssumption DEF UserCreationAssumption
<1>1. CASE Taken(request[c].name)
  <2>1. request' = [request EXCEPT ![c].at = "failed"] /\ request[c].at = "create"
        /\ UNCHANGED <<account, udm, overlapped>>
    BY <1>1 DEF Create, Moves, ghosts
  <2> QED
    BY <2>1, StageKeeps DEF TypeOK, Stage, UnderWay
<1>2. CASE ~Taken(request[c].name)
  <2> DEFINE job == [name |-> request[c].name, record |-> RecordOf[c], for |-> c]
  <2>1. /\ request' = [request EXCEPT ![c].at = "saving"] /\ request[c].at = "create"
        /\ udm' = udm \cup {job}
        /\ UNCHANGED <<account, overlapped>>
    BY <1>2 DEF Create, Moves, ghosts
  <2>2. job.record = RecordOf[c] /\ job.for = c
    OBVIOUS
  <2> HIDE DEF job
  <2>3. \A e \in Client : request'[e].at = IF e = c THEN "saving" ELSE request[e].at
    BY <2>1 DEF TypeOK
  <2> USE DEF RecordInv, UnderWay
  <2>4. JobsAwaited'
    BY <2>1, <2>2, <2>3 DEF JobsAwaited, TypeOK, Job
  <2>5. WorksAlone'
    BY <2>1, <2>2, <2>3 DEF WorksAlone
  <2>6. \A j \in udm : j.record = RecordOf[c] => RecordOf[c] \in overlapped
    BY <2>1 DEF JobsAwaited, WorksAlone
  <2>7. OneJob'
    BY <2>1, <2>2, <2>6 DEF OneJob
  <2>8. NothingOnTheWay'
    BY <2>1, <2>2, <2>3 DEF NothingOnTheWay, TypeOK, Account
  <2>9. OneUserPerRecord'
    BY <2>1 DEF OneUserPerRecord
  <2> QED
    BY <2>4, <2>5, <2>7, <2>8, <2>9
<1> QED
  BY <1>1, <1>2

\* Nobody awaits the job of a process that died, and it stays the only one (Crash).
LEMMA CrashKeeps ==
  ASSUME TypeOK, RecordInv, NEW c \in Client, Crash(c)
  PROVE  RecordInv'
<1> USE UserCreationAssumption DEF UserCreationAssumption, RecordInv, UnderWay
<1> DEFINE Left(j) == IF j.for = c THEN [j EXCEPT !.for = Nobody] ELSE j
<1>1. request' = [request EXCEPT ![c].at = "failed"] /\ request[c].at \in UnderWay
      /\ UNCHANGED <<account, overlapped>>
  BY DEF Crash, Moves, ghosts
<1>2. \A j \in udm' : \E i \in udm : j = Left(i)
  BY DEF Crash
<1>3. \A i \in udm : /\ Left(i).record = i.record /\ Left(i).name = i.name
                     /\ Left(i).for = IF i.for = c THEN Nobody ELSE i.for
  BY DEF TypeOK, Job
<1> HIDE DEF Left
<1>4. \A e \in Client : request'[e].at = IF e = c THEN "failed" ELSE request[e].at
  BY <1>1 DEF TypeOK
<1>5. JobsAwaited'
  BY <1>2, <1>3, <1>4 DEF JobsAwaited
<1>6. WorksAlone'
  <2> SUFFICES ASSUME NEW e \in Client, request'[e].at \in UnderWay, RecordOf[e] \notin overlapped
               PROVE  /\ \A d \in Client : RecordOf[d] = RecordOf[e] /\ request'[d].at \in UnderWay => d = e
                      /\ \A j \in udm' : j.record = RecordOf[e] => j.for = e
    BY <1>1 DEF WorksAlone
  <2>1. e # c /\ request[e].at \in UnderWay
    BY <1>4
  <2>2. \A j \in udm' : j.record = RecordOf[e] => j.for = e
    BY <2>1, <1>2, <1>3 DEF WorksAlone
  <2> QED
    BY <2>1, <2>2, <1>4 DEF WorksAlone
<1>7. OneJob'
  BY <1>1, <1>2, <1>3 DEF OneJob
<1>8. NothingOnTheWay'
  BY <1>1, <1>2, <1>3, <1>4 DEF NothingOnTheWay, TypeOK, Account
<1>9. OneUserPerRecord'
  BY <1>1 DEF OneUserPerRecord
<1> QED
  BY <1>5, <1>6, <1>7, <1>8, <1>9

\* The account that is added is the first of its record, and nothing is left for the record (Save).
LEMMA SaveKeeps ==
  ASSUME TypeOK, RecordInv, NEW job \in udm, Save(job)
  PROVE  RecordInv'
<1> USE UserCreationAssumption DEF UserCreationAssumption, RecordInv, UnderWay
<1> DEFINE new == [name |-> job.name, record |-> job.record]
<1>1. udm' = udm \ {job} /\ account' \subseteq account \cup {new} /\ overlapped' = overlapped
  BY DEF Save, ghosts
<1>2. new.record = job.record
  OBVIOUS
<1> HIDE DEF new
<1>3. \A e \in Client : IF e = job.for THEN request'[e].at \in {"failed", "created"}
                        ELSE request'[e] = request[e]
  BY DEF Save, TypeOK
<1>4. JobsAwaited'
  BY <1>1, <1>3 DEF JobsAwaited
<1>5. WorksAlone'
  BY <1>1, <1>3 DEF WorksAlone
<1>6. OneJob'
  BY <1>1 DEF OneJob
<1>7. NothingOnTheWay'
  BY <1>1, <1>2, <1>3 DEF NothingOnTheWay, WorksAlone, OneJob, TypeOK, Account, Job
<1>8. OneUserPerRecord'
  BY <1>1, <1>2 DEF OneUserPerRecord, NothingOnTheWay
<1> QED
  BY <1>4, <1>5, <1>6, <1>7, <1>8

(***************************************************************************)
(* The invariant behind OneUserPerRecord holds in every reachable state:   *)
(* as long as no requests for a record overlap, one request or one job     *)
(* works on it, and none beyond the search once it has its user (create).  *)
(***************************************************************************)
THEOREM RecordSound == Spec => []RecordInv
<1> USE UserCreationAssumption DEF UserCreationAssumption
<1>1. Init => RecordInv
  BY DEF Init, RecordInv, JobsAwaited, WorksAlone, OneJob, NothingOnTheWay, OneUserPerRecord, UnderWay
<1>2. TypeOK /\ TypeOK' /\ RecordInv /\ [Next]_vars => RecordInv'
  <2> SUFFICES ASSUME TypeOK, TypeOK', RecordInv, [Next]_vars PROVE RecordInv'
    OBVIOUS
  <2>1. ASSUME NEW c \in Client, Receive(c) PROVE RecordInv'
    BY <2>1, ReceiveKeeps
  <2>2. ASSUME NEW c \in Client, Search(c) PROVE RecordInv'
    <3>1. \A e \in Client \ {c} : request'[e].at = request[e].at
      BY <2>2 DEF Search, Moves, Named, TypeOK
    <3>2. Known(RecordOf[c]) => request'[c].at \in {"conflict", "failed"}
      BY <2>2 DEF Search, Moves, TypeOK
    <3> QED
      BY <2>2, <3>1, <3>2, StageKeeps DEF Search, ghosts, TypeOK, UnderWay
  <2>3. ASSUME NEW c \in Client, Retrieve(c) PROVE RecordInv'
    <3>1. \A e \in Client \ {c} : request'[e].at = request[e].at
      BY <2>3 DEF Retrieve, TypeOK
    <3> QED
      BY <2>3, <3>1, StageKeeps DEF Retrieve, ghosts, TypeOK, UnderWay
  <2>4. ASSUME NEW c \in Client, AddCounter(c) PROVE RecordInv'
    <3>1. \A e \in Client \ {c} : request'[e].at = request[e].at
      BY <2>4 DEF AddCounter, Moves, Named, TypeOK
    <3> QED
      BY <2>4, <3>1, StageKeeps DEF AddCounter, TypeOK, UnderWay
  <2>5. ASSUME NEW c \in Client, ReplaceCounter(c) PROVE RecordInv'
    <3>1. \A e \in Client \ {c} : request'[e].at = request[e].at
      BY <2>5 DEF ReplaceCounter, Named, TypeOK
    <3> QED
      BY <2>5, <3>1, StageKeeps DEF ReplaceCounter, TypeOK, UnderWay
  <2>6. ASSUME NEW c \in Client, Create(c) PROVE RecordInv'
    BY <2>6, CreateKeeps
  <2>7. ASSUME NEW c \in Client, Crash(c) PROVE RecordInv'
    BY <2>7, CrashKeeps
  <2>8. ASSUME NEW job \in udm, Save(job) PROVE RecordInv'
    BY <2>8, SaveKeeps
  <2>9. CASE UNCHANGED vars
    BY <2>9 DEF vars, RecordInv, JobsAwaited, WorksAlone, OneJob, NothingOnTheWay, OneUserPerRecord
  <2> QED
    BY <2>1, <2>2, <2>3, <2>4, <2>5, <2>6, <2>7, <2>8, <2>9 DEF Next, Attempt
<1> QED
  BY <1>1, <1>2, TypeCorrect, PTL DEF Spec

(***************************************************************************)
(* Two users of one record need two overlapping requests, however many     *)
(* clients ask, fail and ask again (create).                               *)
(***************************************************************************)
THEOREM RecordsUnique == Spec => []OneUserPerRecord
<1>1. RecordInv => OneUserPerRecord
  BY DEF RecordInv
<1> QED
  BY <1>1, RecordSound, PTL
=============================================================================
