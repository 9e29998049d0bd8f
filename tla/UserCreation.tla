---------------------------- MODULE UserCreation ----------------------------
(***************************************************************************)
(* POST /v1/users/: several API processes create users in the directory at *)
(* the same time.  Whether the user exists is asked first, a user name is  *)
(* made with a counter kept in LDAP (UsernameHandler), and UDM REST adds   *)
(* the account.  Nothing is locked in between.  A process may die at any   *)
(* point of a request; what it has asked of UDM REST then still happens,   *)
(* and the client, without an answer, sends the request again.             *)
(*                                                                         *)
(*   counter    ucsschoolUsernameNextNumber of one name base; 0 while LDAP *)
(*              has no entry for it                                        *)
(*   account    the users in LDAP.  `record` is a pair of source_uid and   *)
(*              record_uid, `name` a number: all names share one base      *)
(*   request    per client: how far its request is, the number read from   *)
(*              the counter, the name of the user                          *)
(*   udm        what UDM REST has been asked to add, and who waits for it  *)
(*   issued, twice      ghosts: numbers the counter gave out; those it     *)
(*              gave out again                                             *)
(*   lost       ghost: values of the counter that were overwritten by a    *)
(*              request that had read an older one                         *)
(*   overlapped ghost: records a request was received for while another    *)
(*              request for the same record was under way                  *)
(*                                                                         *)
(* Every client has an API process of its own.  Requests of one process    *)
(* interleave less: reading and replacing the counter does not await.      *)
(***************************************************************************)
EXTENDS Naturals, FiniteSets

CONSTANTS
  Client,
  Record,
  RecordOf,     \* the record each client wants a user for
  NameOf,       \* the name it asks for; NoName: by the configured scheme
  NoName,
  Nobody,       \* waits for what a process that died has asked of UDM
  MaxCrashes    \* bound: requests that end with their process

ASSUME UserCreationAssumption ==
  /\ NoName \notin Nat
  /\ Nobody \notin Client
  /\ RecordOf \in [Client -> Record]
  /\ NameOf \in [Client -> (Nat \ {0}) \cup {NoName}]
  /\ MaxCrashes \in Nat

VARIABLES counter, account, request, udm, crashes, issued, twice, lost, overlapped

ghosts == <<issued, twice, lost, overlapped>>
vars == <<counter, account, request, udm, crashes, issued, twice, lost, overlapped>>

Stage == {"unsent", "search", "retrieve", "add", "replace", "create", "saving",
          "created", "conflict", "failed"}
UnderWay == {"search", "retrieve", "add", "replace", "create", "saving"}

Account == [name : Nat, record : Record]
Job == [name : Nat, record : Record, for : Client \cup {Nobody}]

TypeOK ==
  /\ counter \in Nat
  /\ account \subseteq Account
  /\ request \in [Client -> [at : Stage, seen : Nat, name : Nat]]
  /\ udm \subseteq Job
  /\ crashes \in 0..MaxCrashes
  /\ issued \subseteq Nat
  /\ twice \subseteq Nat
  /\ lost \subseteq Nat
  /\ overlapped \subseteq Record

Init ==
  /\ counter = 0
  /\ account = {}
  /\ request = [c \in Client |-> [at |-> "unsent", seen |-> 0, name |-> 0]]
  /\ udm = {}
  /\ crashes = 0
  /\ issued = {} /\ twice = {} /\ lost = {} /\ overlapped = {}

Taken(name) == \E a \in account : a.name = name
Known(record) == \E a \in account : a.record = record
Ambiguous(record) == \E a, b \in account : a # b /\ a.record = record /\ b.record = record

Moves(c, stage) == request' = [request EXCEPT ![c].at = stage]
Named(c, name) == request' = [request EXCEPT ![c] = [at |-> "create", seen |-> @.seen, name |-> name]]
Gives(number) ==
  /\ issued' = issued \cup {number}
  /\ twice' = twice \cup (issued \cap {number})

----------------------------------------------------------------------------
(* One request, from its arrival to the answer *)

\* A request for the record is being worked on, if only by UDM.
Pending(record) ==
  \/ \E c \in Client : RecordOf[c] = record /\ request[c].at \in UnderWay
  \/ \E j \in udm : j.record = record

\* user.exists: without a name there is nothing to look for yet.
Receive(c) ==
  /\ request[c].at \in {"unsent", "failed"}
  /\ Moves(c, IF NameOf[c] # NoName /\ Taken(NameOf[c]) THEN "conflict" ELSE "search")
  /\ overlapped' = overlapped \cup {d \in {RecordOf[c]} : Pending(d)}
  /\ UNCHANGED <<counter, account, udm, crashes, issued, twice, lost>>

\* Faulty variant: the user is looked up by the name that was asked for.
Search_ByName(c) ==
  /\ request[c].at = "search"
  /\ IF Taken(NameOf[c]) THEN Moves(c, "conflict")
     ELSE IF NameOf[c] # NoName THEN Named(c, NameOf[c])
     ELSE Moves(c, "retrieve")
  /\ UNCHANGED <<counter, account, udm, crashes>> /\ UNCHANGED ghosts

(***************************************************************************)
(* determine_add_modify_action: a user with this source_uid and record_uid *)
(* answers the request with 409, two of them make the search fail; a new   *)
(* one gets its name.  That a user found elsewhere is moved to the school  *)
(* of the request, before the 409, is left out.                            *)
(***************************************************************************)
Search(c) ==
  /\ request[c].at = "search"
  /\ IF Ambiguous(RecordOf[c]) THEN Moves(c, "failed")
     ELSE IF Known(RecordOf[c]) THEN Moves(c, "conflict")
     ELSE IF NameOf[c] # NoName THEN Named(c, NameOf[c])
     ELSE Moves(c, "retrieve")
  /\ UNCHANGED <<counter, account, udm, crashes>> /\ UNCHANGED ghosts

\* get_and_raise, first half: read the counter.
Retrieve(c) ==
  /\ request[c].at = "retrieve"
  /\ request' = [request EXCEPT ![c] =
       [at |-> IF counter = 0 THEN "add" ELSE "replace", seen |-> counter, name |-> @.name]]
  /\ UNCHANGED <<counter, account, udm, crashes>> /\ UNCHANGED ghosts

\* Faulty variant: that the entry exists already goes unnoticed.
AddCounter_Overwrites(c) ==
  /\ request[c].at = "add"
  /\ counter' = 2 /\ Named(c, 1) /\ Gives(1)
  /\ UNCHANGED <<account, udm, crashes, lost, overlapped>>

\* get_and_raise without an entry: the first number, unless an entry appeared (NameKeyExists).
AddCounter(c) ==
  /\ request[c].at = "add"
  /\ IF counter = 0 THEN counter' = 2 /\ Named(c, 1) /\ Gives(1)
     ELSE Moves(c, "failed") /\ UNCHANGED <<counter, issued, twice>>
  /\ UNCHANGED <<account, udm, crashes, lost, overlapped>>

\* Faulty variant: the counter keeps the number it gives out.
ReplaceCounter_NotRaised(c) ==
  LET number == request[c].seen
  IN /\ request[c].at = "replace"
     /\ counter' = number
     /\ lost' = lost \cup ({counter} \ {number})
     /\ Named(c, number)
     /\ Gives(number)
     /\ UNCHANGED <<account, udm, crashes, overlapped>>

(***************************************************************************)
(* get_and_raise, second half.  The modification names the old value, but  *)
(* uldap sends MOD_REPLACE with the new one: whatever is there is          *)
(* overwritten.                                                            *)
(***************************************************************************)
ReplaceCounter(c) ==
  LET number == request[c].seen
  IN /\ request[c].at = "replace"
     /\ counter' = number + 1
     /\ lost' = lost \cup ({counter} \ {number})
     /\ Named(c, number)
     /\ Gives(number)
     /\ UNCHANGED <<account, udm, crashes, overlapped>>

\* create_without_hooks: if the name is taken nothing is created, otherwise UDM is asked to.
Create(c) ==
  /\ request[c].at = "create"
  /\ IF Taken(request[c].name)
       THEN Moves(c, "failed") /\ UNCHANGED udm
       ELSE /\ Moves(c, "saving")
            /\ udm' = udm \cup {[name |-> request[c].name, record |-> RecordOf[c], for |-> c]}
  /\ UNCHANGED <<counter, account, crashes>> /\ UNCHANGED ghosts

Attempt(c) ==
  \/ Receive(c)
  \/ Search(c)
  \/ Retrieve(c)
  \/ AddCounter(c)
  \/ ReplaceCounter(c)
  \/ Create(c)

\* UDM REST adds an account if the name is free, and answers whoever still waits.
Save(job) ==
  /\ udm' = udm \ {job}
  /\ account' = account \cup (IF Taken(job.name) THEN {}
                              ELSE {[name |-> job.name, record |-> job.record]})
  /\ request' = [c \in Client |->
       IF c = job.for THEN [request[c] EXCEPT !.at = IF Taken(job.name) THEN "failed" ELSE "created"]
       ELSE request[c]]
  /\ UNCHANGED <<counter, crashes>> /\ UNCHANGED ghosts

----------------------------------------------------------------------------

\* The process of the request dies; its client sees an error and may ask again.
Crash(c) ==
  /\ request[c].at \in UnderWay
  /\ crashes < MaxCrashes
  /\ crashes' = crashes + 1
  /\ Moves(c, "failed")
  /\ udm' = {j \in udm : j.for # c} \cup {[j EXCEPT !.for = Nobody] : j \in {i \in udm : i.for = c}}
  /\ UNCHANGED <<counter, account>> /\ UNCHANGED ghosts

Next ==
  \/ \E c \in Client : Attempt(c) \/ Crash(c)
  \/ \E job \in udm : Save(job)

Spec == Init /\ [][Next]_vars

(***************************************************************************)
(* Every request gets an answer unless its process dies, UDM works off     *)
(* what it has been asked, and a client whose request failed tries again.  *)
(***************************************************************************)
FairSpec ==
  /\ Spec
  /\ \A c \in Client : WF_vars(Attempt(c))
  /\ WF_vars(\E job \in udm : Save(job))

----------------------------------------------------------------------------
(* Properties *)

(***************************************************************************)
(* The counter gives a number out again only after a request has replaced  *)
(* it on the strength of a value that was out of date; and even then never *)
(* the first number, whose entry LDAP adds only once (get_and_raise).      *)
(***************************************************************************)
NumbersIssuedOnce == twice # {} => lost # {} /\ 1 \notin twice

(***************************************************************************)
(* Two users of one record appear only if a request came while another for *)
(* that record was under way: repeating a request that has failed, or been *)
(* answered, is safe unless UDM is still working on it (create).           *)
(***************************************************************************)
OneUserPerRecord ==
  \A a, b \in account : a.record = b.record /\ a # b => a.record \in overlapped

(***************************************************************************)
(* A client that leaves the name to the scheme and repeats failed requests *)
(* ends with a user for its record: names taken by others, lost updates of *)
(* the counter and dead processes only cost attempts (get_and_raise).      *)
(***************************************************************************)
ServedInTheEnd ==
  \A c \in Client : NameOf[c] = NoName => <>Known(RecordOf[c])
=============================================================================
