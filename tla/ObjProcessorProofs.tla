------------------------ MODULE ObjProcessorProofs --------------------------
(* What the object processor guarantees for any number of objects, parents, *)
(* deletions, threads, restarts and exceptions.                            *)
EXTENDS ObjProcessor, FiniteSetTheorems, TLAPS

PP == INSTANCE ObjectPipelineProofs WITH Queues <- {Queue}

(* Every step of the stage is one of the pipeline, or none.                *)
LEMMA PipeStep == [Next]_vars => [Pipe!Next]_(Pipe!vars)
  <1> SUFFICES ASSUME [Next]_vars PROVE Pipe!Next \/ UNCHANGED pipeVars
    BY DEF Pipe!vars, pipeVars
  <1> USE DEF Pipe!Next
  <1>1. ASSUME NEW o \in Objs, Arrive(o) PROVE Pipe!Next
    BY <1>1 DEF Arrive
  <1>2. ASSUME NEW t \in Threads, NEW o \in Objs, Post(t, o) PROVE Pipe!Next
    BY <1>2 DEF Post
  <1>3. ASSUME NEW t \in Threads, Walk(t) PROVE Pipe!Next
    BY <1>3 DEF Walk
  <1>4. ASSUME Operation PROVE Pipe!Next \/ UNCHANGED pipeVars
    <2>1. CASE Begin \/ BeginMissing \/ Return \/ Fail
      BY <2>1 DEF Begin, BeginMissing, Return, Fail, Pipe!Serve, Pipe!Return
    <2>2. CASE Lookup
      BY <2>2 DEF Lookup, Goto
    <2>3. CASE Wait
      BY <2>3 DEF Wait
    <2>4. ASSUME NEW o, Pipe!Delete(o) PROVE Pipe!Next
      BY <2>4 DEF Pipe!Delete, Pipe!Existing
    <2>5. CASE Apply \/ Save
      BY <2>4, <2>5 DEF Apply, Save
    <2>6. CASE Wake
      BY <2>6, ProcessorAssumption DEF Wake
    <2>7. CASE Reopen
      <3>1. {c \in woken : stored[c] = "settled"} \in SUBSET Objs
        BY <2>7 DEF Reopen, Pipe!Reopen
      <3>2. QED
        BY <2>7, <3>1 DEF Reopen
    <2>8. QED
      BY <1>4, <2>1, <2>2, <2>3, <2>5, <2>6, <2>7 DEF Operation
  <1>5. CASE Restart
    BY <1>5 DEF Restart
  <1>6. CASE OpenFeed \/ \E now \in Clock : Rejoin(now)
    BY <1>6 DEF OpenFeed, Rejoin
  <1>7. CASE UNCHANGED vars
    BY <1>7 DEF vars
  <1>8. QED
    BY <1>1, <1>2, <1>3, <1>4, <1>5, <1>6, <1>7 DEF Next

(* Whatever the operation does, also to other objects, the service only    *)
(* takes steps of ObjectPipeline, so that what is proved of the pipeline   *)
(* holds of it (ObjProcessorService.m:35-48).                              *)
THEOREM ProcessorIsPipeline == Spec => IsPipeline
  <1>1. Init => Pipe!Init
    BY DEF Init
  <1>2. QED
    BY <1>1, PipeStep, PTL DEF Spec, IsPipeline, Pipe!Spec

(* The two instances of the pipeline are one.                              *)
LEMMA SamePipeline ==
    /\ Pipe!Init <=> PP!Init
    /\ [Pipe!Next]_(Pipe!vars) <=> [PP!Next]_(PP!vars)
    /\ Pipe!TypeOK <=> PP!TypeOK
  BY DEF
         Pipe!Create, PP!Create, Pipe!Delete, PP!Delete,
         Pipe!SettleLater, PP!SettleLater, Pipe!Reopen, PP!Reopen,
         Pipe!NotifyObject, PP!NotifyObject, Pipe!NotifyAll,
         PP!NotifyAll, Pipe!Find, PP!Find, Pipe!Claim, PP!Claim,
         Pipe!Enqueue, PP!Enqueue, Pipe!Begin, PP!Begin,
         Pipe!BeginMissing, PP!BeginMissing, Pipe!Settle, PP!Settle,
         Pipe!Release, PP!Release, Pipe!Done, PP!Done, Pipe!Fail,
         PP!Fail, Pipe!Restart, PP!Restart, Pipe!Walk, PP!Walk,
         Pipe!Return, PP!Return, Pipe!Serve, PP!Serve, Pipe!Next,
         PP!Next, Pipe!Selected, PP!Selected, Pipe!Existing, PP!Existing,
         Pipe!Idle, PP!Idle, Pipe!InitialRun, PP!InitialRun,
         Pipe!storeVars, PP!storeVars, Pipe!walkVars, PP!walkVars,
         Pipe!opVars, PP!opVars, Pipe!vars, PP!vars, Pipe!Performing,
         PP!Performing, Pipe!RetryLimit, PP!RetryLimit,
         Pipe!FreshRetryCount, PP!FreshRetryCount, Pipe!GiveUpCount,
         PP!GiveUpCount, Pipe!StoreState, PP!StoreState, Pipe!OpStage,
         PP!OpStage, Pipe!TypeOK, PP!TypeOK, Pipe!Init, PP!Init

-----------------------------------------------------------------------------
(* The pipeline's own invariant, of this instance.                         *)
PI == PP!IInv

BeforeApply == {"idle", "lookup", "missing", "apply"}
BeforeSave == BeforeApply \cup {"save"}

(* Some thread or operation has the object, the operation that runs only   *)
(* if it is at one of the steps S.                                         *)
Held(o, S) ==
    \/ \E t \in Threads : claimed[t] = o
    \/ \E i \in DOMAIN queue[Queue] : queue[Queue][i] = o /\ (i = 1 => step \in S)

(* Some thread may still look the object up.                               *)
Ahead(o) == o \in posting \/ \E t \in Threads : o \in todo[t] \/ o = found[t]

(* It waits for its parent, or the operation is about to reopen it.        *)
SetAside(o) == o \in woken \/ \E p \in Objs : <<p, o>> \in waiting

OpInv == step # "idle" <=> stage[Queue] = "performing"

(* No operation of this run has processed an object it may still be        *)
(* claimed for, or one that is set aside.                                  *)
HeldInv == \A o \in Objs :
    /\ stored[o] = "settled" /\ Ahead(o) => o \in pending
    /\ Held(o, BeforeSave) => stored[o] # "settled"
    /\ SetAside(o) => o \in pending /\ ~Held(o, BeforeSave) /\ o \notin done

(* In each run an object is applied by its one operation, if at all.       *)
AppliedInv == \A o \in Objs :
    /\ applied[o] <= 1 + restarts
    /\ o \notin pending \/ Held(o, BeforeApply) => applied[o] <= restarts

(* The parent of the object that is being applied was found.               *)
ParentInv ==
    /\ ParentFirst
    /\ step = "missing" => Parent[Row] # None
    /\ step \in {"apply", "save"} /\ Parent[Row] # None => stored[Parent[Row]] # "unborn"

(* What is saved as processed does not get another operation.              *)
DoneInv ==
    /\ IsFiniteSet(done)
    /\ \A o \in done : stored[o] \in {"settled", "deleted"}
    /\ step \in {"lookup", "missing", "apply", "save"} =>
          Row \notin done /\ stored[Row] # "unborn"

(* The objects shown are not newer than a time, but for those later than a *)
(* date the feed was given.                                                *)
AsRecent(time) ==
    \A o \in done \cap Renderable :
        \/ Seconds(Time[o]) <= time
        \/ \E date \in dates : date < Seconds(Time[o])

(* Others write the feed while the operation works only when the user      *)
(* opens it, or joins it again.                                            *)
FeedInv ==
    /\ LatestIsNewest
    /\ UnreadIsCounted
    /\ step \in {"missing", "apply", "save"} =>
          /\ AsRecent(read.time)
          /\ read.time = feed.time \/ feed.time \in dates
          /\ ~opened => read.unread = feed.unread

IInv ==
    /\ PI /\ TypeOK /\ OpInv /\ HeldInv /\ AppliedInv /\ ParentInv
    /\ DoneInv /\ FeedInv

-----------------------------------------------------------------------------

LEMMA PipelineInv ==
    /\ Init => PI
    /\ PI /\ [Next]_vars => PI'
    /\ PI => Pipe!TypeOK /\ PP!HeldIsPending /\ PP!OneOperationPerObject
  <1>1. PP!PipelineAssumption
    BY ProcessorAssumption DEF PP!PipelineAssumption
  <1>2. Init => PI
    BY <1>1, PP!InitInv, SamePipeline DEF Init, PI
  <1>3. PI /\ [Next]_vars => PI'
    BY <1>1, PP!NextInv, PipeStep, SamePipeline DEF PI
  <1>4. QED
    BY <1>2, <1>3, SamePipeline DEF PI, PP!IInv

(* While an operation is performed there is an object for it.              *)
LEMMA RowIsObj ==
    ASSUME PI, stage[Queue] # "idle"
    PROVE  /\ Row \in Objs /\ Row # None /\ queue[Queue] \in Seq(Objs) /\ queue[Queue] # <<>>
           /\ Row = queue[Queue][1] /\ 1 \in DOMAIN queue[Queue]
  <1>1. queue[Queue] \in Seq(Objs) /\ queue[Queue] # <<>>
    BY PipelineInv DEF PI, PP!IInv, PP!BusyHasHead, Pipe!TypeOK
  <1>2. QED
    BY <1>1, ProcessorAssumption, PP!TailPlaces DEF Row

(* To compare with a whole second is to compare the whole seconds.         *)
LEMMA SecondsCompare ==
    ASSUME NEW t \in Nat, NEW n \in Nat
    PROVE  Seconds(t) \in Nat /\ (t >= Tenths * n <=> Seconds(t) >= n)
  BY DEF Seconds, Tenths

LEMMA InitInv == Init => IInv
  <1> SUFFICES ASSUME Init PROVE IInv
    OBVIOUS
  <1> USE ProcessorAssumption DEF Init
  <1>1. PI /\ Pipe!TypeOK
    BY PipelineInv
  <1>2. TypeOK /\ OpInv
    <2>1. EmptyFeed \in FeedRow
      BY DEF EmptyFeed, FeedRow
    <2>2. OpInv
      BY DEF OpInv, Pipe!Init
    <2>3. applied \in [Objs -> Nat] /\ faults \in 0..MaxTroubles
      OBVIOUS
    <2>4. QED
      BY <1>1, <2>1, <2>2, <2>3 DEF TypeOK, Steps
  <1>3. HeldInv /\ AppliedInv
    <2>1. /\ applied = [o \in Objs |-> 0] /\ restarts = 0 /\ posting = {} /\ woken = {}
          /\ waiting = {} /\ stored \in [Objs -> {"unborn", "selected"}]
      BY DEF Pipe!Init
    <2>2. QED
      BY <2>1 DEF HeldInv, AppliedInv, SetAside
  <1>4. ParentInv
    BY DEF ParentInv, ParentFirst
  <1>5. DoneInv
    BY FS_EmptySet DEF DoneInv
  <1>6. FeedInv
    BY FS_EmptySet DEF FeedInv, LatestIsNewest, UnreadIsCounted, EmptyFeed
  <1>7. QED
    BY <1>1, <1>2, <1>3, <1>4, <1>5, <1>6 DEF IInv

LEMMA OpStep == PI /\ PI' /\ TypeOK /\ OpInv /\ [Next]_vars => OpInv'
  <1> SUFFICES ASSUME PI, PI', TypeOK, OpInv, [Next]_vars PROVE OpInv'
    OBVIOUS
  <1> USE DEF OpInv, opVars
  <1>1. ASSUME NEW o \in Objs, Arrive(o) PROVE OpInv'
    BY <1>1 DEF Arrive, Pipe!Create, Pipe!opVars
  <1>2. ASSUME NEW t \in Threads, NEW o \in Objs, Post(t, o) PROVE OpInv'
    BY <1>2 DEF Post, Pipe!NotifyObject, Pipe!opVars
  <1>3. ASSUME NEW t \in Threads, Walk(t) PROVE OpInv'
    BY <1>3 DEF Walk, ownVars, Pipe!Walk, Pipe!Find, Pipe!Claim, Pipe!Enqueue, Pipe!opVars
  <1>4. ASSUME Operation PROVE OpInv'
    <2> USE DEF TypeOK, Pipe!TypeOK, At, Pipe!Performing, pipeVars, Leave
    <2>1. CASE Begin \/ BeginMissing
      BY <2>1 DEF Begin, BeginMissing, ownVars, Pipe!Begin, Pipe!BeginMissing
    <2>2. CASE Fail \/ Return
      BY <2>2 DEF Fail, Return, Pipe!Done
    <2>3. CASE Lookup
      BY <2>3 DEF Lookup, Goto
    <2>4. CASE Wait
      BY <2>4 DEF Wait, Pipe!Settle, Pipe!opVars
    <2>5. CASE Apply
      BY <2>5 DEF Apply, Pipe!Delete, Pipe!opVars
    <2>6. CASE Save
      BY <2>6 DEF Save, Pipe!Delete, Pipe!Settle, Pipe!opVars
    <2>7. CASE Wake
      BY <2>7 DEF Wake, Pipe!NotifyAll, Pipe!opVars
    <2>8. CASE Reopen
      BY <2>8 DEF Reopen, Pipe!Reopen, Pipe!opVars
    <2>9. QED
      BY <1>4, <2>1, <2>2, <2>3, <2>4, <2>5, <2>6, <2>7, <2>8 DEF Operation
  <1>5. CASE Restart
    BY <1>5 DEF Restart, Leave, Pipe!Restart
  <1>6. CASE OpenFeed \/ \E now \in Clock : Rejoin(now)
    BY <1>6 DEF OpenFeed, Rejoin, pipeVars
  <1>7. CASE UNCHANGED vars
    BY <1>7 DEF vars, pipeVars, ownVars
  <1>8. QED
    BY <1>1, <1>2, <1>3, <1>4, <1>5, <1>6, <1>7 DEF Next

LEMMA TypeStep == IInv /\ PI' /\ [Next]_vars => TypeOK'
  <1> SUFFICES ASSUME IInv, PI', [Next]_vars PROVE TypeOK'
    OBVIOUS
  <1>1. Pipe!TypeOK'
    BY PipelineInv, PTL
  <1>2. stage[Queue] = "performing" => Row \in Objs
    BY RowIsObj DEF IInv
  <1> USE <1>1, ProcessorAssumption DEF IInv, TypeOK, opVars, history, Steps
  <1>3. ASSUME NEW o \in Objs, Arrive(o) PROVE TypeOK'
    BY <1>3 DEF Arrive
  <1>4. ASSUME NEW t \in Threads, NEW o \in Objs, Post(t, o) PROVE TypeOK'
    BY <1>4 DEF Post
  <1>5. ASSUME NEW t \in Threads, Walk(t) PROVE TypeOK'
    BY <1>5 DEF Walk, ownVars
  <1>6. EmptyFeed \in FeedRow
    BY DEF EmptyFeed, FeedRow
  <1>7. ASSUME Operation PROVE TypeOK'
    <2> USE DEF At, Pipe!Performing, Leave
    <2>1. CASE Begin \/ BeginMissing \/ Return
      BY <2>1, <1>6 DEF Begin, BeginMissing, ownVars, Return
    <2>2. CASE Fail
      <3>1. Row \in Objs /\ faults' \in 0..MaxTroubles
        BY <2>2, <1>2 DEF Fail, OpInv, Pipe!TypeOK
      <3>2. QED
        BY <2>2, <3>1, <1>6 DEF Fail
    <2>3. CASE Lookup
      BY <2>3 DEF Lookup, Goto
    <2>4. CASE Wait
      <3>1. Parent[Row] \in Objs /\ Row \in Objs
        BY <2>4, <1>2 DEF Wait, ParentInv
      <3>2. QED
        BY <2>4, <3>1 DEF Wait
    <2>5. CASE Apply
      BY <2>5, <1>2 DEF Apply, InStore, Pipe!Delete
    <2>6. CASE Save
      <3>1. Updated(read) \in FeedRow
        BY <2>6, <1>2, SecondsCompare DEF Save, Updated, FeedRow
      <3>2. QED
        BY <2>6, <3>1, <1>2 DEF Save
    <2>7. CASE Wake
      BY <2>7 DEF Wake
    <2>8. CASE Reopen
      BY <2>8 DEF Reopen
    <2>9. QED
      BY <1>7, <2>1, <2>2, <2>3, <2>4, <2>5, <2>6, <2>7, <2>8 DEF Operation
  <1>8. CASE Restart
    BY <1>8, <1>6 DEF Restart, Leave
  <1>9. CASE OpenFeed
    <2>1. [feed EXCEPT !.unread = 0] \in FeedRow
      BY DEF FeedRow
    <2>2. QED
      BY <1>9, <2>1 DEF OpenFeed
  <1>10. ASSUME NEW now \in Clock, Rejoin(now) PROVE TypeOK'
    <2>1. Seconds(now) \in Nat
      BY SecondsCompare
    <2>2. [feed EXCEPT !.time = Seconds(now)] \in FeedRow
      BY <2>1 DEF FeedRow
    <2>3. faults' \in 0..MaxTroubles
      BY <1>10 DEF Rejoin, Pipe!TypeOK
    <2>4. QED
      BY <1>10, <2>1, <2>2, <2>3 DEF Rejoin
  <1>11. CASE UNCHANGED vars
    BY <1>11 DEF vars, ownVars
  <1>12. QED
    BY <1>3, <1>4, <1>5, <1>7, <1>8, <1>9, <1>10, <1>11 DEF Next

-----------------------------------------------------------------------------
(* What a step does to the pipeline, as the invariants need it.            *)

(* Objects do not become unborn, and pending only loses objects at restart. *)
LEMMA StoreStep == TypeOK /\ [Next]_vars =>
    \A o \in Objs : stored[o] # "unborn" => stored'[o] # "unborn"
  <1> SUFFICES ASSUME TypeOK, [Pipe!Next]_(Pipe!vars), NEW o \in Objs, stored[o] # "unborn"
               PROVE  stored'[o] # "unborn"
    BY PipeStep
  <1> USE DEF TypeOK, Pipe!TypeOK, Pipe!storeVars
  <1>1. CASE \E p \in Objs : Pipe!Create(p) \/ Pipe!Delete(p) \/ Pipe!SettleLater(p)
    BY <1>1 DEF Pipe!Create, Pipe!Delete, Pipe!SettleLater
  <1>2. CASE \E t \in Threads : \/ Pipe!NotifyAll(t) \/ Pipe!Walk(t)
                                \/ \E p \in Objs : Pipe!NotifyObject(t, p)
    BY <1>2 DEF Pipe!NotifyAll, Pipe!NotifyObject, Pipe!Walk, Pipe!Find, Pipe!Claim,
                Pipe!Enqueue
  <1>3. CASE Pipe!Serve(Queue) \/ Pipe!Settle(Queue) \/ Pipe!Release(Queue)
    BY <1>3 DEF Pipe!Serve, Pipe!Begin, Pipe!BeginMissing, Pipe!Return, Pipe!Done, Pipe!Fail,
                Pipe!Settle, Pipe!Release
  <1>4. CASE \E objs \in SUBSET Objs : Pipe!Reopen(objs) \/ Pipe!Restart(objs)
    BY <1>4 DEF Pipe!Reopen, Pipe!Restart
  <1>5. CASE UNCHANGED Pipe!vars
    BY <1>5 DEF Pipe!vars
  <1>6. QED
    BY <1>1, <1>2, <1>3, <1>4, <1>5 DEF Pipe!Next

(* The object of the operation is in _pending, and no one else has it.     *)
LEMMA RowOnce ==
    ASSUME PI, stage[Queue] = "performing"
    PROVE  /\ Row \in pending
           /\ \A t \in Threads : claimed[t] # Row
           /\ \A i \in DOMAIN queue[Queue] : queue[Queue][i] = Row => i = 1
  <1>1. Row = queue[Queue][1] /\ 1 \in DOMAIN queue[Queue]
    BY RowIsObj
  <1>2. \A i \in DOMAIN queue[Queue] : PP!Live(Queue, i)
    BY DEF PP!Live
  <1>3. PP!HeldIsPending /\ PP!OneOperationPerObject
    BY PipelineInv
  <1>4. QED
    BY <1>1, <1>2, <1>3 DEF PP!HeldIsPending, PP!OneOperationPerObject

OutsideStep ==
    \/ \E o \in Objs : Arrive(o)
    \/ \E t \in Threads : Walk(t) \/ \E o \in Objs : Post(t, o)
    \/ BeginMissing \/ OpenFeed \/ \E now \in Clock : Rejoin(now)
    \/ UNCHANGED vars
InsideStep == Lookup \/ Wait \/ Apply \/ Save \/ Wake \/ Reopen


(* What steps of others leave alone.                                       *)
OutsideEffect ==
    /\ UNCHANGED <<step, read, woken, waiting, applied, done, restarts>>
    /\ step # "idle" => Row' = Row
    /\ pending \subseteq pending'
    /\ \A o \in Objs : \/ stored'[o] = stored[o]
                       \/ stored[o] = "unborn" /\ stored'[o] = "selected"
    /\ feed'.latest = feed.latest
    /\ \/ opened' = TRUE
       \/ opened' = opened /\ feed'.unread = feed.unread
    /\ \/ UNCHANGED dates /\ feed'.time = feed.time
       \/ feed'.time \in dates' \cap Nat /\ dates \subseteq dates'

LEMMA OutsideStepEffect == IInv /\ OutsideStep => OutsideEffect
  <1> SUFFICES ASSUME IInv, OutsideStep PROVE OutsideEffect
    OBVIOUS
  <1> USE DEF opVars, history, OutsideEffect
  <1>1. ASSUME NEW o \in Objs, Arrive(o) PROVE OutsideEffect
    BY <1>1 DEF Arrive, Pipe!Create, Pipe!opVars, Row, IInv, TypeOK, Pipe!TypeOK
  <1>2. ASSUME NEW t \in Threads, NEW o \in Objs, Post(t, o) PROVE OutsideEffect
    BY <1>2 DEF Post, Pipe!NotifyObject, Pipe!opVars, Pipe!storeVars, Row
  <1>3. ASSUME NEW t \in Threads, Walk(t) PROVE OutsideEffect
    <2>1. CASE UNCHANGED <<queue, stored, restarts>> /\ pending \subseteq pending'
      BY <1>3, <2>1 DEF Walk, ownVars, Row
    <2>2. ASSUME Pipe!Enqueue(t, Queue) PROVE OutsideEffect
      <3>1. claimed[t] \in Objs
        BY <2>2 DEF Pipe!Enqueue, IInv, TypeOK, Pipe!TypeOK
      <3>2. /\ queue'[Queue] = Append(queue[Queue], claimed[t])
            /\ UNCHANGED <<stored, restarts, pending>>
        BY <2>2 DEF Pipe!Enqueue, Pipe!storeVars, IInv, TypeOK, Pipe!TypeOK
      <3>3. step # "idle" => queue[Queue] \in Seq(Objs) /\ queue[Queue] # <<>>
        BY RowIsObj DEF IInv, OpInv
      <3>4. step # "idle" => Row' = Row
        BY <3>1, <3>2, <3>3 DEF Row
      <3>5. QED
        BY <1>3, <3>2, <3>4 DEF Walk, ownVars
    <2>3. QED
      BY <1>3, <2>1, <2>2
         DEF Walk, Pipe!Walk, Pipe!Find, Pipe!Claim, Pipe!opVars, Pipe!storeVars
  <1>4. CASE BeginMissing
    BY <1>4 DEF BeginMissing, ownVars, Pipe!BeginMissing, Pipe!storeVars, IInv, OpInv
  <1>5. CASE OpenFeed
    BY <1>5 DEF OpenFeed, pipeVars, Row, IInv, TypeOK, FeedRow
  <1>6. CASE UNCHANGED vars
    BY <1>6 DEF vars, pipeVars, ownVars, Row
  <1>7. ASSUME NEW now \in Clock, Rejoin(now) PROVE OutsideEffect
    <2>1. Seconds(now) \in Nat
      BY ProcessorAssumption, SecondsCompare
    <2>2. QED
      BY <1>7, <2>1 DEF Rejoin, pipeVars, Row, IInv, TypeOK, FeedRow
  <1>8. QED
    BY <1>1, <1>2, <1>3, <1>4, <1>5, <1>6, <1>7 DEF OutsideStep

(* What the steps of an operation leave alone.                             *)
InsideEffect ==
    /\ step # "idle" /\ stage[Queue] = "performing" /\ Row \in Objs
    /\ UNCHANGED <<pending, found, claimed, queue, stage, posting, restarts, opened, dates>>
    /\ Row' = Row

LEMMA InsideStepEffect == IInv /\ InsideStep => InsideEffect
  <1> SUFFICES ASSUME IInv, InsideStep PROVE InsideEffect
    OBVIOUS
  <1>1. step # "idle" /\ stage[Queue] = "performing"
    BY DEF InsideStep, Lookup, Wait, Apply, Save, Wake, Reopen, At, Pipe!Performing
  <1>2. Row \in Objs
    BY <1>1, RowIsObj DEF IInv
  <1>3. UNCHANGED <<pending, found, claimed, queue, stage, posting, restarts, opened, dates>>
    BY DEF InsideStep, Lookup, Wait, Apply, Save, Wake, Reopen, Goto, pipeVars, history,
           Pipe!Settle, Pipe!Delete, Pipe!NotifyAll, Pipe!Reopen, Pipe!walkVars, Pipe!opVars,
           Pipe!storeVars
  <1>4. QED
    BY <1>1, <1>2, <1>3 DEF InsideEffect, Row

LEMMA Classes ==
    [Next]_vars => OutsideStep \/ InsideStep \/ Begin \/ Fail \/ Return \/ Restart
  BY DEF Next, Operation, OutsideStep, InsideStep

(* The operation begins with an object that was not processed before.      *)
LEMMA BeginEffect ==
    ASSUME IInv, Begin
    PROVE  /\ step = "idle" /\ step' = "lookup" /\ Row \in Objs /\ Row' = Row
           /\ stored[Row] = "selected" /\ Held(Row, BeforeSave)
           /\ UNCHANGED <<stored, pending, todo, found, claimed, queue, restarts, read, woken,
                          waiting, posting, feed, applied, done, opened, dates>>
  <1> USE DEF IInv
  <1>1. /\ stage[Queue] = "idle" /\ queue[Queue] # <<>> /\ Row \in Pipe!Existing
        /\ step' = "lookup"
        /\ UNCHANGED <<stored, pending, todo, found, claimed, queue, restarts, read, woken,
                       waiting, posting, feed, applied, done, opened, dates>>
    BY DEF Begin, Pipe!Begin, Row, Pipe!storeVars, Pipe!walkVars, history
  <1>2. step = "idle" /\ Row' = Row /\ Row \in Objs
    BY <1>1 DEF OpInv, TypeOK, Steps, Row, Pipe!Existing
  <1>3. Row = queue[Queue][1] /\ 1 \in DOMAIN queue[Queue]
    BY <1>1, PP!TailPlaces DEF TypeOK, Pipe!TypeOK, Row
  <1>4. Held(Row, BeforeSave)
    BY <1>2, <1>3 DEF Held, BeforeSave, BeforeApply
  <1>5. stored[Row] = "selected"
    BY <1>1, <1>2, <1>4 DEF HeldInv, Pipe!Existing
  <1>6. QED
    BY <1>1, <1>2, <1>4, <1>5

LEMMA LeaveEffect ==
    ASSUME IInv, Fail \/ Return
    PROVE  /\ step' = "idle" /\ woken' = {} /\ queue[Queue] \in Seq(Objs) /\ queue[Queue] # <<>>
           /\ queue'[Queue] = Tail(queue[Queue])
           /\ UNCHANGED <<stored, pending, todo, found, claimed, restarts, waiting, posting,
                          feed, applied, done, opened, dates>>
  <1>1. /\ step # "idle" /\ step' = "idle" /\ woken' = {} /\ Pipe!Done(Queue)
        /\ UNCHANGED <<waiting, posting, feed, applied, done, opened, dates>>
    BY DEF Fail, Return, Leave, history
  <1>2. queue[Queue] \in Seq(Objs) /\ queue[Queue] # <<>>
    BY <1>1, RowIsObj DEF IInv, OpInv
  <1>3. QED
    BY <1>1, <1>2
       DEF Pipe!Done, Pipe!storeVars, Pipe!walkVars, IInv, TypeOK, Pipe!TypeOK

-----------------------------------------------------------------------------
(* The parts of the invariant.                                             *)

LEMMA ParentStep == IInv /\ [Next]_vars => ParentInv'
  <1> SUFFICES ASSUME IInv, [Next]_vars PROVE ParentInv'
    OBVIOUS
  <1> USE ProcessorAssumption DEF IInv
  <1>1. \A o \in Objs : stored[o] # "unborn" => stored'[o] # "unborn"
    BY StoreStep
  <1>2. done \subseteq Objs /\ Parent \in [Objs -> Objs \cup {None}]
    BY DEF TypeOK
  <1>3. CASE OutsideStep
    <2>1. OutsideEffect
      BY <1>3, OutsideStepEffect
    <2>2. step # "idle" => Row \in Objs
      BY RowIsObj DEF OpInv
    <2>3. QED
      BY <1>1, <1>2, <2>1, <2>2 DEF OutsideEffect, ParentInv, ParentFirst
  <1>4. CASE InsideStep
    <2>1. InsideEffect
      BY <1>4, InsideStepEffect
    <2> USE <2>1, <1>1, <1>2 DEF InsideEffect, ParentInv, ParentFirst
    <2>2. CASE Lookup
      BY <2>2 DEF Lookup, Goto, history, At, InStore
    <2>3. CASE Save
      BY <2>3 DEF Save, At
    <2>4. CASE Apply
      BY <2>4 DEF Apply, At
    <2>5. CASE Wait \/ Wake \/ Reopen
      BY <2>5 DEF Wait, Wake, Reopen, history
    <2>6. QED
      BY <1>4, <2>2, <2>3, <2>4, <2>5 DEF InsideStep
  <1>5. CASE Begin
    BY <1>1, <1>2, <1>5, BeginEffect DEF ParentInv, ParentFirst
  <1>6. CASE Fail \/ Return
    BY <1>1, <1>2, <1>6, LeaveEffect DEF ParentInv, ParentFirst
  <1>7. CASE Restart
    BY <1>1, <1>2, <1>7 DEF Restart, Leave, ParentInv, ParentFirst
  <1>8. QED
    BY <1>3, <1>4, <1>5, <1>6, <1>7, Classes

LEMMA DoneStep == IInv /\ [Next]_vars => DoneInv'
  <1> SUFFICES ASSUME IInv, [Next]_vars PROVE DoneInv'
    OBVIOUS
  <1> USE DEF IInv
  <1>1. done \subseteq Objs
    BY DEF TypeOK
  <1>2. \A o \in Objs : stored[o] # "unborn" => stored'[o] # "unborn"
    BY StoreStep
  <1>3. CASE OutsideStep
    <2>1. OutsideEffect
      BY <1>3, OutsideStepEffect
    <2>2. step # "idle" => Row \in Objs
      BY RowIsObj DEF OpInv
    <2>3. QED
      BY <1>1, <2>1, <2>2 DEF OutsideEffect, DoneInv
  <1>4. CASE InsideStep
    <2>1. InsideEffect
      BY <1>4, InsideStepEffect
    <2> USE <2>1, <1>1, <1>2 DEF InsideEffect, DoneInv
    <2>2. CASE Lookup
      BY <2>2 DEF Lookup, Goto, history, At, pipeVars
    <2>3. CASE Save
      <3>1. IsFiniteSet(done')
        BY <2>3, FS_AddElement DEF Save
      <3>2. stored'[Row] \in {"settled", "deleted"}
        BY <2>3, ProcessorAssumption
           DEF Save, At, InStore, Pipe!Settle, Pipe!Delete, Row, TypeOK, Pipe!TypeOK, pipeVars,
               Pipe!StoreState
      <3>3. \A o \in Objs : o # Row => stored'[o] = stored[o]
        BY <2>3 DEF Save, Pipe!Settle, Pipe!Delete, Row, TypeOK, Pipe!TypeOK, pipeVars
      <3>4. QED
        BY <2>3, <3>1, <3>2, <3>3 DEF Save
    <2>4. CASE Apply
      BY <2>4 DEF Apply, At, Pipe!Delete, pipeVars, TypeOK, Pipe!TypeOK
    <2>5. CASE Wait
      BY <2>5 DEF Wait, history, Pipe!Settle, TypeOK, Pipe!TypeOK
    <2>6. CASE Wake
      BY <2>6 DEF Wake, history, pipeVars, Pipe!NotifyAll, Pipe!storeVars
    <2>7. CASE Reopen
      <3>1. woken \cap done = {} /\ done' = done /\ step' = "return"
        BY <2>7 DEF HeldInv, SetAside, TypeOK, Reopen, history
      <3>2. \A o \in Objs : o \notin woken => stored'[o] = stored[o]
        BY <2>7 DEF Reopen, Pipe!Reopen
      <3>3. QED
        BY <3>1, <3>2
    <2>8. QED
      BY <1>4, <2>2, <2>3, <2>4, <2>5, <2>6, <2>7 DEF InsideStep
  <1>5. CASE Begin
    BY <1>1, <1>5, BeginEffect DEF DoneInv
  <1>6. CASE Fail \/ Return
    BY <1>6, LeaveEffect DEF DoneInv
  <1>7. CASE Restart
    BY <1>1, <1>7 DEF Restart, Leave, DoneInv, Pipe!Restart
  <1>8. QED
    BY <1>3, <1>4, <1>5, <1>6, <1>7, Classes

(* An object is only claimed if it is not in _pending, and the one that is *)
(* worked on leaves BeforeApply and BeforeSave for good.                   *)
LEMMA HeldStep ==
    ASSUME IInv, [Next]_vars, NEW o \in Objs, NEW S \in {BeforeApply, BeforeSave},
           Held(o, S)'
    PROVE  Held(o, S) \/ (o \notin pending /\ Ahead(o))
  <1> USE DEF Held, IInv
  <1>1. S = BeforeApply \/ S = BeforeSave
    OBVIOUS
  <1>2. ASSUME UNCHANGED <<claimed, queue>>, step' \in S => step \in S PROVE Held(o, S)
    BY <1>2
  <1>3. ASSUME queue[Queue] \in Seq(Objs), queue[Queue] # <<>>,
               queue'[Queue] = Tail(queue[Queue]), UNCHANGED claimed
        PROVE  Held(o, S)
    BY <1>3, PP!TailPlaces
  <1>4. CASE OutsideStep
    <2> USE DEF opVars
    <2>1. CASE \/ \E p \in Objs : Arrive(p)
               \/ \E t \in Threads, p \in Objs : Post(t, p)
               \/ OpenFeed \/ (\E now \in Clock : Rejoin(now)) \/ UNCHANGED vars
      BY <1>2, <2>1 DEF Arrive, Post, OpenFeed, Rejoin, vars, ownVars, pipeVars, Pipe!Create,
                        Pipe!NotifyObject, Pipe!opVars, Pipe!walkVars
    <2>2. CASE BeginMissing
      BY <1>3, <2>2 DEF BeginMissing, Pipe!BeginMissing, Pipe!walkVars, TypeOK, Pipe!TypeOK
    <2>3. ASSUME NEW t \in Threads, Walk(t) PROVE Held(o, S) \/ (o \notin pending /\ Ahead(o))
      <3>1. UNCHANGED step
        BY <2>3 DEF Walk, ownVars
      <3>2. CASE \E p \in Objs : Pipe!Find(t, p)
        BY <1>2, <3>1, <3>2 DEF Pipe!Find, Pipe!opVars
      <3>3. CASE Pipe!Claim(t)
        BY <3>1, <3>3, ProcessorAssumption DEF Pipe!Claim, Pipe!opVars, TypeOK, Pipe!TypeOK,
                                               Ahead
      <3>4. CASE Pipe!Enqueue(t, Queue)
        <4>1. queue[Queue] \in Seq(Objs) /\ claimed[t] \in Objs
          BY <3>4 DEF Pipe!Enqueue, TypeOK, Pipe!TypeOK
        <4>2. /\ queue'[Queue] = Append(queue[Queue], claimed[t])
              /\ \A u \in Threads : claimed'[u] = o => claimed[u] = o
          BY <3>4, ProcessorAssumption DEF Pipe!Enqueue, TypeOK, Pipe!TypeOK
        <4>3. QED
          BY <3>1, <4>1, <4>2, PP!AppendPlaces
      <3>5. QED
        BY <2>3, <3>2, <3>3, <3>4 DEF Walk, Pipe!Walk
    <2>4. QED
      BY <1>4, <2>1, <2>2, <2>3 DEF OutsideStep
  <1>5. CASE InsideStep
    <2>1. UNCHANGED <<claimed, queue>>
      BY <1>5, InsideStepEffect DEF InsideEffect
    <2>2. step' \in S => step \in S
      BY <1>1, <1>5 DEF InsideStep, Lookup, Wait, Apply, Save, Wake, Reopen, Goto, At,
                        BeforeApply, BeforeSave
    <2>3. QED
      BY <1>2, <2>1, <2>2
  <1>6. CASE Begin
    BY <1>1, <1>2, <1>6, BeginEffect DEF BeforeApply, BeforeSave
  <1>7. CASE Fail \/ Return
    BY <1>3, <1>7, LeaveEffect
  <1>8. CASE Restart
    BY <1>8, ProcessorAssumption DEF Restart, Pipe!Restart, TypeOK, Pipe!TypeOK
  <1>9. QED
    BY <1>4, <1>5, <1>6, <1>7, <1>8, Classes

(* Once the operation is past the steps S, nothing holds its object.       *)
LEMMA RowIsDone ==
    ASSUME PI, PI', stage[Queue] = "performing", NEW S, step' \notin S,
           UNCHANGED <<claimed, queue>>, NEW o \in Objs, o = Row
    PROVE  ~Held(o, S)'
  BY RowOnce, RowIsObj DEF Held

(* Only an operation of this run makes its object processed.               *)
LEMMA SettledStep ==
    ASSUME IInv, [Next]_vars, NEW o \in Objs, stored'[o] = "settled"
    PROVE  stored[o] = "settled" \/ ((Wait \/ Save) /\ o = Row)
  <1> USE DEF IInv, TypeOK, Pipe!TypeOK
  <1>1. CASE OutsideStep
    BY <1>1, OutsideStepEffect DEF OutsideEffect
  <1>2. CASE Wait \/ Save
    BY <1>2 DEF Wait, Save, Pipe!Settle, Pipe!Delete, Row, pipeVars
  <1>3. CASE Lookup \/ Wake
    BY <1>3 DEF Lookup, Goto, Wake, Pipe!NotifyAll, Pipe!storeVars, pipeVars
  <1>4. CASE Apply \/ Reopen
    BY <1>4 DEF Apply, Reopen, Pipe!Delete, Pipe!Reopen, pipeVars
  <1>5. CASE Begin
    BY <1>5, BeginEffect
  <1>6. CASE Fail \/ Return
    BY <1>6, LeaveEffect
  <1>7. CASE Restart
    BY <1>7 DEF Restart, Pipe!Restart
  <1> HIDE DEF IInv
  <1>8. QED
    BY <1>1, <1>2, <1>3, <1>4, <1>5, <1>6, <1>7, Classes DEF InsideStep

(* The lists of ids that threads read from the store have no processed     *)
(* object.                                                                 *)
LEMMA AheadStep ==
    ASSUME IInv, [Next]_vars, NEW o \in Objs, stored'[o] = "settled", Ahead(o)'
    PROVE  Ahead(o) /\ ~Restart
  <1>1. ASSUME Restart PROVE FALSE
    <2>1. /\ posting' = {} /\ stored'[o] = stored[o]
          /\ todo' = Pipe!InitialRun(Pipe!Selected \ {})
          /\ found' = [t \in Threads |-> None]
      BY <1>1 DEF Restart, Pipe!Restart
    <2>2. o \notin Pipe!Selected /\ o # None
      BY <2>1, ProcessorAssumption DEF Pipe!Selected
    <2>3. \A t \in Threads : o \notin todo'[t] /\ o # found'[t]
      BY <2>1, <2>2 DEF Pipe!InitialRun
    <2>4. QED
      BY <2>1, <2>3 DEF Ahead
  <1> SUFFICES Ahead(o)
    BY <1>1
  <1>2. ASSUME UNCHANGED <<posting, todo, found>> PROVE Ahead(o)
    BY <1>2 DEF Ahead
  <1>3. CASE Begin
    BY <1>2, <1>3, BeginEffect
  <1>4. CASE Fail \/ Return
    BY <1>2, <1>4, LeaveEffect
  <1> USE DEF IInv, TypeOK, Pipe!TypeOK, Ahead
  <1>5. ASSUME NEW p \in Objs, Arrive(p) PROVE Ahead(o)
    BY <1>5 DEF Arrive, Pipe!Create, Pipe!walkVars
  <1>6. ASSUME NEW t \in Threads, NEW p \in Objs, Post(t, p) PROVE Ahead(o)
    BY <1>6 DEF Post, Pipe!NotifyObject
  <1>7. ASSUME NEW t \in Threads, Walk(t) PROVE Ahead(o)
    <2>1. posting' = posting
      BY <1>7 DEF Walk, ownVars
    <2>2. ASSUME NEW p \in Objs, Pipe!Find(t, p) PROVE Ahead(o)
      BY <2>1, <2>2, ProcessorAssumption DEF Pipe!Find
    <2>3. CASE Pipe!Claim(t)
      BY <2>1, <2>3, ProcessorAssumption DEF Pipe!Claim
    <2>4. CASE Pipe!Enqueue(t, Queue)
      BY <2>1, <2>4 DEF Pipe!Enqueue
    <2>5. QED
      BY <1>7, <2>2, <2>3, <2>4 DEF Walk, Pipe!Walk
  <1>8. CASE Wake
    <2>1. UNCHANGED <<posting, found>> /\ o \notin Pipe!Selected
      BY <1>8 DEF Wake, Pipe!NotifyAll, Pipe!Selected, Pipe!storeVars, pipeVars
    <2>2. \A t \in Threads : o \in todo'[t] => o \in todo[t]
      BY <1>8, <2>1 DEF Wake, Pipe!NotifyAll, pipeVars
    <2>3. QED
      BY <2>1, <2>2
  <1>9. CASE BeginMissing \/ OpenFeed \/ (\E now \in Clock : Rejoin(now)) \/ UNCHANGED vars
    BY <1>2, <1>9 DEF BeginMissing, OpenFeed, Rejoin, vars, ownVars, pipeVars, Pipe!BeginMissing,
                      Pipe!walkVars
  <1>10. CASE Lookup \/ Wait \/ Apply \/ Save \/ Reopen
    <2>1. UNCHANGED <<posting, found>>
      BY <1>10, InsideStepEffect DEF InsideEffect, InsideStep
    <2>2. UNCHANGED todo
      BY <1>10 DEF Lookup, Goto, Wait, Apply, Save, Reopen, pipeVars, Pipe!Settle,
                   Pipe!Delete, Pipe!Reopen, Pipe!walkVars
    <2>3. QED
      BY <1>2, <2>1, <2>2
  <1> HIDE DEF IInv, TypeOK, Pipe!TypeOK, Ahead
  <1>11. OutsideStep => Ahead(o)
    BY <1>5, <1>6, <1>7, <1>9 DEF OutsideStep
  <1>12. InsideStep => Ahead(o)
    BY <1>8, <1>10 DEF InsideStep
  <1>13. QED
    BY <1>3, <1>4, <1>1, <1>11, <1>12, Classes

LEMMA PendingStep ==
    IInv /\ [Next]_vars /\ ~Restart => pending \subseteq pending' /\ restarts' = restarts
  BY OutsideStepEffect, InsideStepEffect, BeginEffect, LeaveEffect, Classes
     DEF OutsideEffect, InsideEffect

LEMMA AsideStep ==
    ASSUME IInv, [Next]_vars, NEW o \in Objs, SetAside(o)'
    PROVE  SetAside(o) \/ (Wait /\ o = Row)
  <1> USE DEF SetAside
  <1>1. CASE OutsideStep
    BY <1>1, OutsideStepEffect DEF OutsideEffect
  <1>2. CASE Lookup \/ Apply \/ Save
    BY <1>2 DEF Lookup, Goto, Apply, Save
  <1>3. CASE Wait
    BY <1>3 DEF Wait
  <1>4. CASE Wake
    BY <1>4, ProcessorAssumption DEF Wake, IInv, TypeOK
  <1>5. CASE Reopen
    BY <1>5 DEF Reopen
  <1>6. CASE Begin
    BY <1>6, BeginEffect
  <1>7. CASE Fail \/ Return
    BY <1>7, LeaveEffect
  <1>8. CASE Restart
    BY <1>8 DEF Restart, Leave
  <1>9. QED
    BY <1>1, <1>2, <1>3, <1>4, <1>5, <1>6, <1>7, <1>8, Classes DEF InsideStep

LEMMA SavedStep ==
    ASSUME IInv, [Next]_vars, NEW o \in done'
    PROVE  o \in done \/ (Save /\ o = Row)
  <1>1. CASE OutsideStep
    BY <1>1, OutsideStepEffect DEF OutsideEffect
  <1>2. CASE InsideStep
    BY <1>2 DEF InsideStep, Lookup, Wait, Apply, Save, Wake, Reopen, history
  <1>3. CASE Begin
    BY <1>3, BeginEffect
  <1>4. CASE Fail \/ Return
    BY <1>4, LeaveEffect
  <1>5. CASE Restart
    BY <1>5 DEF Restart
  <1>6. QED
    BY <1>1, <1>2, <1>3, <1>4, <1>5, Classes

(* What Wait and Save do to the object of the operation.                   *)
LEMMA RowSettled ==
    ASSUME IInv, PI', Wait \/ Save, NEW o \in Objs, o = Row
    PROVE  o \in pending' /\ ~Held(o, BeforeSave)' /\ (Wait => o \notin done')
  <1>1. InsideEffect
    BY InsideStepEffect DEF InsideStep
  <1>2. o \in pending'
    BY <1>1, RowOnce DEF IInv, InsideEffect
  <1>3. step' \notin BeforeSave
    BY DEF Wait, Save, BeforeSave, BeforeApply
  <1>4. ~Held(o, BeforeSave)'
    BY <1>1, <1>3, RowIsDone DEF IInv, InsideEffect
  <1>5. Wait => o \notin done'
    BY DEF Wait, At, history, IInv, DoneInv
  <1>6. QED
    BY <1>2, <1>4, <1>5

LEMMA HeldInvStep == IInv /\ PI' /\ [Next]_vars => HeldInv'
  <1> SUFFICES ASSUME IInv, PI', [Next]_vars, NEW o \in Objs
               PROVE  /\ stored'[o] = "settled" /\ Ahead(o)' => o \in pending'
                      /\ Held(o, BeforeSave)' => stored'[o] # "settled"
                      /\ SetAside(o)' => /\ o \in pending' /\ ~Held(o, BeforeSave)'
                                         /\ o \notin done'
    BY DEF HeldInv
  <1>1. /\ stored[o] = "settled" /\ Ahead(o) => o \in pending
        /\ Held(o, BeforeSave) => stored[o] # "settled"
        /\ SetAside(o) => o \in pending /\ ~Held(o, BeforeSave) /\ o \notin done
    BY DEF IInv, HeldInv
  <1>2. Held(o, BeforeSave)' => Held(o, BeforeSave) \/ (o \notin pending /\ Ahead(o))
    BY HeldStep
  <1>3. (Wait \/ Save) /\ o = Row =>
            o \in pending' /\ ~Held(o, BeforeSave)' /\ (Wait => o \notin done')
    BY RowSettled
  <1>4. stored'[o] = "settled" => stored[o] = "settled" \/ ((Wait \/ Save) /\ o = Row)
    BY SettledStep
  <1>5. ASSUME stored'[o] = "settled", Ahead(o)' PROVE o \in pending'
    <2>1. Ahead(o) /\ pending \subseteq pending'
      BY <1>5, AheadStep, PendingStep
    <2>2. QED
      BY <1>1, <1>3, <1>4, <1>5, <2>1
  <1>6. Held(o, BeforeSave)' => stored'[o] # "settled"
    BY <1>1, <1>2, <1>3, <1>4
  <1>7. ASSUME SetAside(o)', SetAside(o), ~Restart
        PROVE  o \in pending' /\ ~Held(o, BeforeSave)' /\ o \notin done'
    <2>1. o \in pending' /\ ~Held(o, BeforeSave)'
      <3>1. pending \subseteq pending'
        BY <1>7, PendingStep
      <3>2. QED
        BY <1>1, <1>2, <1>7, <3>1
    <2>2. Save /\ o = Row => Held(o, BeforeSave)
      BY RowIsObj DEF Save, At, Pipe!Performing, Held, BeforeSave, IInv
    <2>3. QED
      BY <1>1, <1>7, <2>1, <2>2, SavedStep
  <1>8. SetAside(o)' => ~Restart
    BY DEF SetAside, Restart, Leave
  <1>9. SetAside(o)' => SetAside(o) \/ (Wait /\ o = Row)
    BY AsideStep
  <1>10. QED
    BY <1>3, <1>5, <1>6, <1>7, <1>8, <1>9

LEMMA AppliedStep == IInv /\ PI' /\ [Next]_vars => AppliedInv'
  <1> SUFFICES ASSUME IInv, PI', [Next]_vars, NEW o \in Objs
               PROVE  /\ applied'[o] <= 1 + restarts'
                      /\ o \notin pending' \/ Held(o, BeforeApply)' =>
                            applied'[o] <= restarts'
    BY DEF AppliedInv
  <1>1. /\ applied[o] <= 1 + restarts
        /\ o \notin pending \/ Held(o, BeforeApply) => applied[o] <= restarts
        /\ applied[o] \in Nat /\ restarts \in Nat
    BY DEF IInv, AppliedInv, TypeOK, Pipe!TypeOK
  <1>2. Held(o, BeforeApply)' => Held(o, BeforeApply) \/ o \notin pending
    BY HeldStep
  <1>3. CASE Apply /\ o = Row
    <2>1. InsideEffect
      BY <1>3, InsideStepEffect DEF InsideStep
    <2>2. Held(o, BeforeApply)
      BY <1>3, RowIsObj DEF Apply, At, Pipe!Performing, Held, BeforeApply, IInv
    <2>3. step' \notin BeforeApply /\ applied'[o] = applied[o] + 1
      BY <1>3 DEF Apply, BeforeApply, IInv, TypeOK
    <2>4. o \in pending' /\ ~Held(o, BeforeApply)'
      BY <1>3, <2>1, <2>3, RowOnce, RowIsDone DEF InsideEffect, IInv
    <2>5. QED
      BY <1>1, <2>1, <2>2, <2>3, <2>4 DEF InsideEffect
  <1>4. CASE Restart
    <2>1. restarts' = restarts + 1 /\ applied' = applied
      BY <1>4 DEF Restart, Pipe!Restart
    <2>2. QED
      BY <1>1, <2>1
  <1>5. CASE ~Restart /\ ~(Apply /\ o = Row)
    <2>1. applied'[o] = applied[o]
      <3>1. CASE OutsideStep
        BY <3>1, OutsideStepEffect DEF OutsideEffect
      <3>2. CASE InsideStep
        BY <1>5, <3>2 DEF InsideStep, Lookup, Wait, Apply, Save, Wake, Reopen, history, IInv,
                          TypeOK
      <3>3. CASE Begin
        BY <3>3, BeginEffect
      <3>4. CASE Fail \/ Return
        BY <3>4, LeaveEffect
      <3>5. QED
        BY <1>5, <3>1, <3>2, <3>3, <3>4, Classes
    <2>2. QED
      BY <1>1, <1>2, <1>5, <2>1, PendingStep
  <1>6. QED
    BY <1>3, <1>4, <1>5

LEMMA FeedStep == IInv /\ [Next]_vars => FeedInv'
  <1> SUFFICES ASSUME IInv, [Next]_vars PROVE FeedInv'
    OBVIOUS
  <1> USE DEF FeedInv, LatestIsNewest, UnreadIsCounted, AsRecent
  <1>1. /\ FeedInv /\ feed \in FeedRow /\ read \in FeedRow /\ opened \in BOOLEAN
        /\ done \subseteq Objs /\ Time \in [Objs -> Nat \ {0}] /\ dates \subseteq Nat
        /\ None \notin done
    BY ProcessorAssumption DEF IInv, TypeOK
  <1>2. \A o \in Objs : Seconds(Time[o]) \in Nat
    BY <1>1, SecondsCompare
  <1>3. ASSUME UNCHANGED <<feed, done, opened, dates>>,
               step' \in {"missing", "apply", "save"} =>
                  \/ read' = feed
                  \/ read' = read /\ step \in {"missing", "apply", "save"}
        PROVE  FeedInv'
    BY <1>1, <1>3
  <1>4. CASE OutsideStep
    <2>1. OutsideEffect
      BY <1>4, OutsideStepEffect
    <2>2. LatestIsNewest'
      <3>1. CASE UNCHANGED dates /\ feed'.time = feed.time
        BY <1>1, <2>1, <3>1 DEF OutsideEffect
      <3>2. CASE feed'.time \in dates' \cap Nat /\ dates \subseteq dates'
        BY <1>1, <1>2, <2>1, <3>2 DEF OutsideEffect
      <3>3. QED
        BY <2>1, <3>1, <3>2 DEF OutsideEffect
    <2>3. UnreadIsCounted'
      BY <1>1, <2>1 DEF OutsideEffect
    <2>4. step' \in {"missing", "apply", "save"} =>
             /\ AsRecent(read.time)'
             /\ read'.time = feed'.time \/ feed'.time \in dates'
             /\ ~opened' => read'.unread = feed'.unread
      BY <1>1, <2>1 DEF OutsideEffect
    <2>5. QED
      BY <2>2, <2>3, <2>4
  <1>5. CASE Begin
    BY <1>3, <1>5, BeginEffect
  <1>6. CASE Fail \/ Return
    BY <1>3, <1>6, LeaveEffect
  <1>7. CASE Restart
    BY <1>3, <1>7 DEF Restart, Leave
  <1>8. CASE Lookup
    BY <1>3, <1>8 DEF Lookup, history
  <1>9. CASE Wait \/ Wake \/ Reopen
    BY <1>3, <1>9 DEF Wait, Wake, Reopen, history
  <1>10. CASE Apply
    BY <1>3, <1>10 DEF Apply, At
  <1>11. CASE Save
    <2>1. /\ feed' = Updated(read) /\ done' = done \cup {Row} /\ step' = "saved"
          /\ Row \in Objs /\ Row \notin done /\ opened' = opened /\ dates' = dates
          /\ AsRecent(read.time) /\ (read.time = feed.time \/ feed.time \in dates)
          /\ (~opened => read.unread = feed.unread)
      BY <1>1, <1>11, RowIsObj DEF Save, At, Pipe!Performing, IInv, DoneInv
    <2>2. Row # None /\ Seconds(Time[Row]) \in Nat
      BY <1>2, <2>1, ProcessorAssumption
    <2>3. LatestIsNewest'
      <3>1. CASE Row \notin Renderable
        BY <1>1, <2>1, <3>1 DEF Updated
      <3>2. CASE Row \in Renderable /\ Time[Row] >= Tenths * read.time
        <4>1. feed'.time = Seconds(Time[Row]) /\ feed'.latest = Row
          BY <2>1, <3>2 DEF Updated
        <4>2. read.time \in Nat /\ read.time <= Seconds(Time[Row])
          BY <1>1, <2>1, <2>2, <3>2, SecondsCompare DEF FeedRow
        <4>3. \A o \in done \cap Renderable :
                 \/ Seconds(Time[o]) <= Seconds(Time[Row])
                 \/ \E date \in dates : date < Seconds(Time[o])
          BY <1>1, <1>2, <2>1, <2>2, <4>2
        <4>4. QED
          BY <2>1, <2>2, <4>1, <4>3
      <3>3. CASE Row \in Renderable /\ ~(Time[Row] >= Tenths * read.time)
        <4>1. feed'.time = feed.time /\ feed'.latest = feed.latest
          BY <2>1, <3>3 DEF Updated
        <4>2. read.time \in Nat /\ feed.time \in Nat /\ Seconds(Time[Row]) < read.time
          BY <1>1, <2>1, <2>2, <3>3, SecondsCompare DEF FeedRow
        <4>3. \/ Seconds(Time[Row]) <= feed.time
              \/ \E date \in dates : date < Seconds(Time[Row])
          BY <2>1, <2>2, <4>2
        <4>4. QED
          BY <1>1, <2>1, <4>1, <4>3
      <3>4. QED
        BY <3>1, <3>2, <3>3
    <2>4. UnreadIsCounted'
      <3> DEFINE Counted(D) == (D \cap Renderable) \ Mine
      <3>1. IsFiniteSet(Counted(done))
        BY FS_Subset DEF IInv, DoneInv
      <3>2. CASE Row \in Renderable /\ Row \notin Mine
        <4>1. Counted(done') = Counted(done) \cup {Row} /\ Row \notin Counted(done)
          BY <2>1, <3>2
        <4>2. Cardinality(Counted(done')) = Cardinality(Counted(done)) + 1
          BY <3>1, <4>1, FS_AddElement
        <4>3. feed'.unread = read.unread + 1
          BY <2>1, <3>2 DEF Updated
        <4>4. QED
          BY <1>1, <2>1, <4>2, <4>3
      <3>3. CASE ~(Row \in Renderable /\ Row \notin Mine)
        <4>1. Counted(done') = Counted(done)
          BY <2>1, <3>3
        <4>2. feed'.unread = feed.unread
          BY <2>1, <3>3 DEF Updated
        <4>3. QED
          BY <1>1, <2>1, <4>1, <4>2
      <3>4. QED
        BY <3>2, <3>3
    <2>5. QED
      BY <2>1, <2>3, <2>4
  <1>12. QED
    BY <1>4, <1>5, <1>6, <1>7, <1>8, <1>9, <1>10, <1>11, Classes DEF InsideStep

LEMMA NextInv == IInv /\ [Next]_vars => IInv'
  <1> SUFFICES ASSUME IInv, [Next]_vars PROVE IInv'
    OBVIOUS
  <1>1. PI'
    BY PipelineInv DEF IInv
  <1>2. TypeOK' /\ OpInv'
    BY <1>1, TypeStep, OpStep DEF IInv
  <1>3. HeldInv' /\ AppliedInv' /\ ParentInv' /\ DoneInv' /\ FeedInv'
    BY <1>1, HeldInvStep, AppliedStep, ParentStep, DoneStep, FeedStep
  <1>4. QED
    BY <1>1, <1>2, <1>3 DEF IInv

LEMMA Invariance == Spec => []IInv
  BY InitInv, NextInv, PTL DEF Spec

-----------------------------------------------------------------------------

(* Every variable of the stage keeps its type.                             *)
THEOREM ProcessorTypeCorrect == Spec => []TypeOK
  <1>1. IInv => TypeOK
    BY DEF IInv
  <1>2. QED
    BY <1>1, Invariance, PTL

(* However often an object is announced, and although its id stays in      *)
(* _pending until the application ends, no operation of this run finds it  *)
(* processed (ObjProcessorService.m:83-90).                                *)
THEOREM NothingIsReprocessed == Spec => []NoReprocessing
  <1>1. IInv => NoReprocessing
    <2> SUFFICES ASSUME IInv, At("lookup") PROVE stored[Row] # "settled"
      BY DEF NoReprocessing
    <2>1. Row \in Objs /\ Row = queue[Queue][1] /\ 1 \in DOMAIN queue[Queue]
      BY RowIsObj DEF At, Pipe!Performing, IInv
    <2>2. Held(Row, BeforeSave)
      BY <2>1 DEF At, Held, BeforeSave, BeforeApply
    <2>3. QED
      BY <2>1, <2>2 DEF IInv, HeldInv
  <1>2. QED
    BY <1>1, Invariance, PTL

(* An effect that is saved before the object is marked as processed is     *)
(* repeated only by a restart (ObjProcessorService.m:143-156).             *)
THEOREM EffectIsOncePerRun == Spec => []AppliedOncePerRun
  <1>1. IInv => AppliedOncePerRun
    BY DEF IInv, AppliedInv, AppliedOncePerRun
  <1>2. QED
    BY <1>1, Invariance, PTL

(* What was processed had its parent in the store at some time             *)
(* (ObjProcessorService.m:103-116).                                        *)
THEOREM ParentsComeFirst == Spec => []ParentFirst
  <1>1. IInv => ParentFirst
    BY DEF IInv, ParentInv
  <1>2. QED
    BY <1>1, Invariance, PTL

(* The order of arrival does not matter for what a feed shows as latest,   *)
(* to the second, however often an older object of the same second comes   *)
(* later (ObjProcessorService.m:127-135), but for the dates that joining   *)
(* the feed again gives it (NearbyFeed.m:136-138).                         *)
THEOREM FeedShowsNewest == Spec => []LatestIsNewest
  <1>1. IInv => LatestIsNewest
    BY DEF IInv, FeedInv
  <1>2. QED
    BY <1>1, Invariance, PTL

(* The feed counts no object of others twice and forgets none, across      *)
(* exceptions and restarts (ObjProcessorService.m:137-139).                *)
THEOREM FeedCountsUnread == Spec => []UnreadIsCounted
  <1>1. IInv => UnreadIsCounted
    BY DEF IInv, FeedInv
  <1>2. QED
    BY <1>1, Invariance, PTL
=============================================================================
