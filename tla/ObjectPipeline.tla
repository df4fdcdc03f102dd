--------------------------- MODULE ObjectPipeline ---------------------------
(***************************************************************************)
(* The machinery every stage of the message path runs on: an               *)
(* ObjectPipelineService turns notifications into operations on serial     *)
(* queues and keeps the list `pending' so that an object does not get two  *)
(* operations at once.                                                     *)
(*                                                                         *)
(* This module leaves open what an operation does with its object          *)
(* (performOperationOnObject: is overridden by each stage): it may settle  *)
(* the object, i.e. make it leave the stage's selector, call removePending *)
(* or not, and return YES or NO.  The stage modules implement it.          *)
(***************************************************************************)
EXTENDS Naturals, Sequences, FiniteSets

CONSTANTS
    Objs,         \* object ids of the stage's entity
    Threads,      \* threads a notification can be posted on
    MainThread,   \* the thread that calls start
    Queues,       \* the serial operation queues of the service
    None,         \* "no object"
    MaxRestarts   \* bound on the number of application restarts

ASSUME PipelineAssumption ==
    /\ MainThread \in Threads
    /\ None \notin Objs
    /\ MaxRestarts \in Nat

VARIABLES
    stored,    \* [Objs -> StoreState]: what the store says of each object
    pending,   \* the objects in _pending
    todo,      \* [Threads -> SUBSET Objs]: ids the thread still has to walk
    found,     \* [Threads -> Objs or None]: found in the store, not looked
               \* up in _pending yet
    claimed,   \* [Threads -> Objs or None]: put in _pending, not yet queued
    queue,     \* [Queues -> Seq(Objs)]: the operations, the head may run
    stage,     \* [Queues -> OpStage]: how far the head operation is
    restarts   \* number of restarts so far

vars == <<stored, pending, todo, found, claimed, queue, stage, restarts>>

StoreState == {"unborn", "selected", "settled", "deleted"}
OpStage == {"idle", "performing", "released"}

(* The kinds of _retryCount that main can see: an operation is created    *)
(* with 0, and only an operation that sets it itself can exceed 1.        *)
RetryLimit == 1
FreshRetryCount == 0
GiveUpCount == 2

TypeOK ==
    /\ stored \in [Objs -> StoreState]
    /\ pending \in SUBSET Objs
    /\ todo \in [Threads -> SUBSET Objs]
    /\ found \in [Threads -> Objs \cup {None}]
    /\ claimed \in [Threads -> Objs \cup {None}]
    /\ queue \in [Queues -> Seq(Objs)]
    /\ stage \in [Queues -> OpStage]
    /\ restarts \in 0..MaxRestarts

-----------------------------------------------------------------------------

Selected == {o \in Objs : stored[o] = "selected"}
Existing == {o \in Objs : stored[o] \in {"selected", "settled"}}

(* A thread that is in process: walks one list of ids.                     *)
Idle(t) == todo[t] = {} /\ found[t] = None /\ claimed[t] = None

(* start: observe the notification, then one run over the whole selector. *)
InitialRun(objs) == [t \in Threads |-> IF t = MainThread THEN objs ELSE {}]

Init ==
    /\ stored \in [Objs -> {"unborn", "selected"}]
    /\ pending = {}
    /\ todo = InitialRun(Selected)
    /\ found = [t \in Threads |-> None]
    /\ claimed = [t \in Threads |-> None]
    /\ queue = [q \in Queues |-> <<>>]
    /\ stage = [q \in Queues |-> "idle"]
    /\ restarts = 0

storeVars == <<stored, restarts>>
walkVars == <<todo, found, claimed>>
opVars == <<queue, stage>>

(* A producer saves a new object; it posts its id later, with NotifyObject. *)
Create(o) ==
    /\ stored[o] = "unborn"
    /\ stored' = [stored EXCEPT ![o] = "selected"]
    /\ UNCHANGED <<pending, walkVars, opVars, restarts>>

(* Any other part of the program may delete an object.                     *)
Delete(o) ==
    /\ o \in Existing
    /\ stored' = [stored EXCEPT ![o] = "deleted"]
    /\ UNCHANGED <<pending, walkVars, opVars, restarts>>

(* The object leaves the selector later than its operation, e.g. when the  *)
(* broker confirms it.                                                     *)
SettleLater(o) ==
    /\ stored[o] = "selected"
    /\ stored' = [stored EXCEPT ![o] = "settled"]
    /\ UNCHANGED <<pending, walkVars, opVars, restarts>>

(* Objects that had left the selector enter it again.                      *)
Reopen(objs) ==
    /\ objs \subseteq {o \in Objs : stored[o] = "settled"}
    /\ stored' = [o \in Objs |-> IF o \in objs THEN "selected" ELSE stored[o]]
    /\ UNCHANGED <<pending, walkVars, opVars, restarts>>

(* A notification that names an object: only this one is looked at.        *)
NotifyObject(t, o) ==
    /\ Idle(t)
    /\ stored[o] # "unborn"
    /\ todo' = [todo EXCEPT ![t] = {o}]
    /\ UNCHANGED <<storeVars, pending, found, claimed, opVars>>

(* A notification without an object: the ids are read from the store now,  *)
(* and used one by one later.                                              *)
NotifyAll(t) ==
    /\ Idle(t)
    /\ todo' = [todo EXCEPT ![t] = Selected]
    /\ UNCHANGED <<storeVars, pending, found, claimed, opVars>>

(* One round of the loop over the ids: the object is looked up without a   *)
(* lock.                                                                   *)
Find(t, o) ==
    /\ found[t] = None /\ claimed[t] = None
    /\ o \in todo[t]
    /\ todo' = [todo EXCEPT ![t] = @ \ {o}]
    /\ found' = [found EXCEPT ![t] = IF o \in Existing THEN o ELSE None]
    /\ UNCHANGED <<storeVars, pending, claimed, opVars>>

(* Mutant: the test of _pending is forgotten.                              *)
ClaimUnchecked(t) ==
    /\ found[t] # None
    /\ found' = [found EXCEPT ![t] = None]
    /\ pending' = pending \cup {found[t]}
    /\ claimed' = [claimed EXCEPT ![t] = found[t]]
    /\ UNCHANGED <<storeVars, todo, opVars>>

(* The critical section on _pendingLock.  The object may have been deleted *)
(* since it was found.                                                     *)
Claim(t) ==
    /\ found[t] # None
    /\ found' = [found EXCEPT ![t] = None]
    /\ IF found[t] \in pending
       THEN UNCHANGED <<pending, claimed>>
       ELSE /\ pending' = pending \cup {found[t]}
            /\ claimed' = [claimed EXCEPT ![t] = found[t]]
    /\ UNCHANGED <<storeVars, todo, opVars>>

(* runOperationForObject: for a claimed object.                            *)
Enqueue(t, q) ==
    /\ claimed[t] # None
    /\ queue' = [queue EXCEPT ![q] = Append(@, claimed[t])]
    /\ claimed' = [claimed EXCEPT ![t] = None]
    /\ UNCHANGED <<storeVars, pending, todo, found, stage>>

Performing(q) == stage[q] = "performing"

(* The queue starts its next operation and finds the object.               *)
Begin(q) ==
    /\ stage[q] = "idle"
    /\ queue[q] # <<>>
    /\ Head(queue[q]) \in Existing
    /\ stage' = [stage EXCEPT ![q] = "performing"]
    /\ UNCHANGED <<storeVars, pending, walkVars, queue>>

(* The object is gone: the operation is done and the id stays in _pending. *)
BeginMissing(q) ==
    /\ stage[q] = "idle"
    /\ queue[q] # <<>>
    /\ Head(queue[q]) \notin Existing
    /\ queue' = [queue EXCEPT ![q] = Tail(@)]
    /\ UNCHANGED <<storeVars, pending, walkVars, stage>>

(* The operation saves a state of the object that its selector rejects.    *)
Settle(q) ==
    /\ Performing(q)
    /\ stored[Head(queue[q])] = "selected"
    /\ stored' = [stored EXCEPT ![Head(queue[q])] = "settled"]
    /\ UNCHANGED <<pending, walkVars, opVars, restarts>>

(* removePending                                                           *)
Release(q) ==
    /\ Performing(q)
    /\ pending' = pending \ {Head(queue[q])}
    /\ stage' = [stage EXCEPT ![q] = "released"]
    /\ UNCHANGED <<storeVars, walkVars, queue>>

(* performOperationOnObject: returns YES, with or without removePending.   *)
Done(q) ==
    /\ stage[q] \in {"performing", "released"}
    /\ queue' = [queue EXCEPT ![q] = Tail(@)]
    /\ stage' = [stage EXCEPT ![q] = "idle"]
    /\ UNCHANGED <<storeVars, pending, walkVars>>

(* Mutant: the retry is put before the operations that wait.               *)
FailToFront(q, r, retryCount) ==
    /\ Performing(q)
    /\ stage' = [stage EXCEPT ![q] = "idle"]
    /\ LET popped == [queue EXCEPT ![q] = Tail(@)] IN
       queue' = IF retryCount > RetryLimit THEN popped
                ELSE [popped EXCEPT ![r] = <<Head(queue[q])>> \o @]
    /\ UNCHANGED <<storeVars, pending, walkVars>>

(* Mutant: a failed operation drops its claim before it is retried.        *)
FailReleasing(q, r, retryCount) ==
    /\ Performing(q)
    /\ stage' = [stage EXCEPT ![q] = "idle"]
    /\ pending' = pending \ {Head(queue[q])}
    /\ queue' = [[queue EXCEPT ![q] = Tail(@)]
                    EXCEPT ![r] = Append(@, Head(queue[q]))]
    /\ UNCHANGED <<storeVars, walkVars>>

(* It returns NO or throws: main compares the operation's own _retryCount  *)
(* and queues a new operation, whose count starts from zero again.         *)
Fail(q, r, retryCount) ==
    /\ Performing(q)
    /\ stage' = [stage EXCEPT ![q] = "idle"]
    /\ LET popped == [queue EXCEPT ![q] = Tail(@)] IN
       queue' = IF retryCount > RetryLimit THEN popped
                ELSE [popped EXCEPT ![r] = Append(@, Head(queue[q]))]
    /\ UNCHANGED <<storeVars, pending, walkVars>>

(* The process ends and starts again: everything but the store is lost.    *)
(* cleanUp of Musubi deletes some objects before the services start.       *)
Restart(gone) ==
    /\ restarts < MaxRestarts
    /\ restarts' = restarts + 1
    /\ gone \subseteq Existing
    /\ stored' = [o \in Objs |-> IF o \in gone THEN "deleted" ELSE stored[o]]
    /\ pending' = {}
    /\ todo' = InitialRun(Selected \ gone)
    /\ found' = [t \in Threads |-> None]
    /\ claimed' = [t \in Threads |-> None]
    /\ queue' = [q \in Queues |-> <<>>]
    /\ stage' = [q \in Queues |-> "idle"]

Walk(t) ==
    \/ \E o \in Objs : Find(t, o)
    \/ Claim(t)
    \/ \E q \in Queues : Enqueue(t, q)
Return(q) ==
    \/ Done(q)
    \/ \E r \in Queues, n \in {FreshRetryCount, GiveUpCount} : Fail(q, r, n)
Serve(q) == Begin(q) \/ BeginMissing(q) \/ Return(q)

Next ==
    \/ \E o \in Objs : Create(o) \/ Delete(o) \/ SettleLater(o)
    \/ \E t \in Threads, o \in Objs : NotifyObject(t, o)
    \/ \E t \in Threads : NotifyAll(t) \/ Walk(t)
    \/ \E q \in Queues : Serve(q) \/ Settle(q) \/ Release(q)
    \/ \E objs \in SUBSET Objs : Reopen(objs) \/ Restart(objs)

Spec == Init /\ [][Next]_vars

(* A thread that walks a list of ids goes on, a queue with operations runs *)
(* them, and an operation returns.  Nothing else is promised: nobody has   *)
(* to notify, and no operation has to succeed.                             *)
Fairness ==
    /\ \A t \in Threads : WF_vars(Walk(t))
    /\ \A q \in Queues : WF_vars(Serve(q))

FairSpec == Spec /\ Fairness
-----------------------------------------------------------------------------
(* Properties                                                              *)

(* The operation at place i of queue q still stands for its object: only   *)
(* the head can have called removePending already.                         *)
Live(q, i) == i \in DOMAIN queue[q] /\ (i = 1 => stage[q] # "released")

(* A thread is about to queue the object, or an operation stands for it.   *)
Held(o) ==
    \/ \E t \in Threads : claimed[t] = o
    \/ \E q \in Queues : \E i \in DOMAIN queue[q] : Live(q, i) /\ queue[q][i] = o

(* No object has two operations (ObjectPipelineService.m:117-123): at any  *)
(* time at most one thread is about to queue it or one operation that has  *)
(* not called removePending holds it, whatever the queues, the retries and *)
(* the notifications that name it.                                         *)
OneOperationPerObject ==
    /\ \A q, r \in Queues : \A i \in DOMAIN queue[q], j \in DOMAIN queue[r] :
          /\ Live(q, i) /\ Live(r, j)
          /\ queue[q][i] = queue[r][j]
          => q = r /\ i = j
    /\ \A t \in Threads, q \in Queues : \A i \in DOMAIN queue[q] :
          Live(q, i) => claimed[t] # queue[q][i]
    /\ \A t, u \in Threads : claimed[t] = claimed[u] /\ claimed[t] # None
                             => t = u

(* Whoever holds an object keeps it in _pending, so that a retry, which    *)
(* is queued without asking _pending, is still protected by it             *)
(* (ObjectPipelineService.m:190).                                          *)
HeldIsPending ==
    /\ \A t \in Threads : claimed[t] # None => claimed[t] \in pending
    /\ \A q \in Queues : \A i \in DOMAIN queue[q] :
          Live(q, i) => queue[q][i] \in pending

(* A consequence: two serial queues never work on one object at the same   *)
(* time, so two stores never change it concurrently.                       *)
NoConcurrentWork ==
    \A q, r \in Queues :
        /\ Performing(q) /\ Performing(r)
        /\ Head(queue[q]) = Head(queue[r])
        => q = r

(* An object a thread put in _pending gets its operation, also when other  *)
(* operations on the queue fail and are retried for ever or the            *)
(* application restarts in between, unless it leaves the selector first.   *)
ClaimedIsPerformed ==
    \A o \in Objs :
        (\E t \in Threads : claimed[t] = o) ~>
            \/ \E q \in Queues : Performing(q) /\ Head(queue[q]) = o
            \/ stored[o] # "selected"
=============================================================================
