------------------------ MODULE MessageEncodeProofs -------------------------
(* What the encode stage guarantees for any number of objects, recipients, *)
(* senders, queues, threads, restarts and failing saves.                   *)
EXTENDS MessageEncode, TLAPS

PP == INSTANCE ObjectPipelineProofs

(* Every step of the stage is one of the pipeline, or none.                *)
LEMMA PipeStep == [Next]_vars => [Pipe!Next]_(Pipe!vars)
  <1> SUFFICES ASSUME [Next]_vars PROVE Pipe!Next \/ UNCHANGED pipeVars
    BY DEF Pipe!vars, pipeVars
  <1> USE DEF Pipe!Next
  <1>1. ASSUME NEW t \in Threads, NEW o \in Objs, Send(t, o) PROVE Pipe!Next
    BY <1>1 DEF Send
  <1>2. ASSUME NEW t \in Threads, Post(t) PROVE Pipe!Next
    <2>1. Pipe!NotifyObject(t, posting[t])
      BY <1>2 DEF Post
    <2>2. posting[t] \in Objs
      BY <1>2 DEF Post
    <2>3. QED
      BY <2>1, <2>2
  <1>3. ASSUME NEW t \in Threads, NEW s \in Senders, KeyArrives(t, s) PROVE Pipe!Next
    BY <1>3 DEF KeyArrives
  <1>4. ASSUME NEW t \in Threads, Walk(t) PROVE Pipe!Next
    BY <1>4 DEF Walk, Claim, Pipe!Walk
  <1>5. ASSUME NEW o \in Objs, Vanish(o) PROVE Pipe!Next
    BY <1>5 DEF Vanish
  <1>6. ASSUME NEW q \in Queues, Operation(q) PROVE Pipe!Next \/ UNCHANGED pipeVars
    <2>1. CASE Begin(q) \/ BeginMissing(q) \/ Return(q)
      BY <2>1 DEF Begin, BeginMissing, Return, Pipe!Serve, Pipe!Return
    <2>2. CASE Load(q) \/ \E r \in Rcpts : EncodeFor(q, r) \/ MakeSecret(q, r)
      BY <2>2 DEF Load, EncodeFor, MakeSecret
    <2>3. CASE FetchKey(q) \/ RefuseKey(q) \/ Store(q) \/ FailsAgain(q)
      BY <2>3 DEF FetchKey, RefuseKey, Store, FailsAgain
    <2>4. CASE Finish(q) \/ FinishLate(q)
      BY <2>4 DEF Finish, FinishLate, Present, Pipe!Existing
    <2>5. CASE Release(q)
      BY <2>5 DEF Release
    <2>6. ASSUME NEW n \in {Pipe!FreshRetryCount, Pipe!GiveUpCount}, Retry(q, n)
          PROVE  Pipe!Next
      BY <2>6 DEF Retry, Pipe!Serve, Pipe!Return
    <2>7. CASE Again(q) \/ Abandon(q) \/ Fails(q) \/ FailsRefused(q)
      BY <2>6, <2>7 DEF Again, Abandon, Fails, FailsRefused
    <2>8. QED
      BY <1>6, <2>1, <2>2, <2>3, <2>4, <2>5, <2>7 DEF Operation
  <1>7. CASE Restart
    BY <1>7 DEF Restart
  <1>8. CASE UNCHANGED vars
    BY <1>8 DEF vars
  <1>9. QED
    BY <1>1, <1>2, <1>3, <1>4, <1>5, <1>6, <1>7, <1>8 DEF Next

(* Whatever an encode operation does to the objects, the keys and the      *)
(* numbers, the service only takes steps of ObjectPipeline, so that what   *)
(* is proved of the pipeline holds of it (MessageEncodeService.m:58-88).   *)
THEOREM EncodeIsPipeline == Spec => IsPipeline
  <1>1. Init => Pipe!Init
    BY DEF Init
  <1>2. QED
    BY <1>1, PipeStep, PTL DEF Spec, IsPipeline, Pipe!Spec

(* The two instances of the pipeline are one.                              *)
LEMMA SamePipeline ==
    /\ Pipe!Init <=> PP!Init
    /\ [Pipe!Next]_(Pipe!vars) <=> [PP!Next]_(PP!vars)
    /\ Pipe!TypeOK <=> PP!TypeOK
  BY DEF
         Pipe!Create, PP!Create, Pipe!Delete, PP!Delete,
         Pipe!SettleLater, PP!SettleLater, Pipe!Reopen, PP!Reopen,
         Pipe!NotifyObject, PP!NotifyObject, Pipe!NotifyAll,
         PP!NotifyAll, Pipe!Find, PP!Find, Pipe!Claim, PP!Claim,
         Pipe!Enqueue, PP!Enqueue, Pipe!Begin, PP!Begin,
         Pipe!BeginMissing, PP!BeginMissing, Pipe!Settle, PP!Settle,
         Pipe!Release, PP!Release, Pipe!Done, PP!Done, Pipe!Fail,
         PP!Fail, Pipe!Restart, PP!Restart, Pipe!Walk, PP!Walk,
         Pipe!Return, PP!Return, Pipe!Serve, PP!Serve, Pipe!Next,
         PP!Next, Pipe!Selected, PP!Selected, Pipe!Existing, PP!Existing,
         Pipe!Idle, PP!Idle, Pipe!InitialRun, PP!InitialRun,
         Pipe!storeVars, PP!storeVars, Pipe!walkVars, PP!walkVars,
         Pipe!opVars, PP!opVars, Pipe!vars, PP!vars, Pipe!Performing,
         PP!Performing, Pipe!RetryLimit, PP!RetryLimit,
         Pipe!FreshRetryCount, PP!FreshRetryCount, Pipe!GiveUpCount,
         PP!GiveUpCount, Pipe!StoreState, PP!StoreState, Pipe!OpStage,
         PP!OpStage, Pipe!TypeOK, PP!TypeOK, Pipe!Init, PP!Init

-----------------------------------------------------------------------------
(* The pipeline's own invariant, of this instance.                         *)
PI == PP!IInv

(* The operation is under way exactly when the head of the queue is being  *)
(* performed, which was in the store then.                                 *)
OpInv == \A q \in Queues :
    /\ step[q] # "idle" <=> stage[q] = "performing"
    /\ step[q] # "idle" => stored[Obj(q)] # "unborn"

(* An object that has a row and can still be encoded again is excused, or  *)
(* its operation is between the save of the row and that of the object.    *)
excused == keyed \cup broken \cup late
TwiceInv ==
    /\ TwiceOnlyIfExcused
    /\ \A o \in Objs : rows[o] > 0 =>
          /\ stored[o] # "unborn"
          /\ stored[o] = "selected" =>
                o \in excused \/ \E q \in Queues : step[q] = "stored" /\ Obj(q) = o
    /\ \A t \in Threads :
          claimed[t] \in Objs /\ stored[claimed[t]] = "settled" => claimed[t] \in excused
    /\ \A q \in Queues : \A i \in DOMAIN queue[q] :
          Pipe!Live(q, i) /\ stored[queue[q][i]] = "settled" =>
              queue[q][i] \in excused \/ (i = 1 /\ step[q] = "done")
    /\ \A q \in Queues : step[q] \in {"storedAgain", "doneAgain"} => Obj(q) \in keyed

(* What the operation saves last is what it has found before.              *)
SettledWasEncoded == \A o \in Objs : stored[o] = "settled" => rows[o] > 0
DeletedWasSent == \A o \in spent : rows[o] > 0 \/ o \in refused
SentInv ==
    /\ DeletedWasSent
    /\ SettledWasEncoded
    /\ \A q \in Queues :
          /\ step[q] \in {"stored", "storedAgain"} => rows[Obj(q)] > 0
          /\ step[q] \in {"refused", "unsent"} => Obj(q) \in refused

(* The recipients that have a number in this attempt.                      *)
Assigned(q) ==
    IF step[q] \in {"first", "second", "refused"} THEN RcptsOf[Obj(q)] \ left[q] ELSE {}

(* As long as no save has overwritten a newer number, those in use are     *)
(* below the next one, those assigned and saved are not in use, and two    *)
(* operations have not assigned and saved the same.                        *)
Unsaved(q, r) == ctx[q][r] # base[q][r]
NumberInv ==
    /\ NumbersUniqueUnlessRaced
    /\ \A q \in Queues, r \in Rcpts :
          /\ base[q][r] <= ctx[q][r]
          /\ r \in Assigned(q) => ctx[q][r] > 0
    /\ \A r \in Rcpts \ raced :
          /\ \A n \in Nat : <<r, n>> \in used => n < number[r]
          /\ \A q \in Queues : base[q][r] <= number[r]
          /\ \A q \in Queues : r \in Assigned(q) /\ ~Unsaved(q, r) =>
                <<r, ctx[q][r] - 1>> \notin used
          /\ \A p, q \in Queues :
                /\ p # q /\ r \in Assigned(p) \cap Assigned(q)
                /\ ~Unsaved(p, r) /\ ~Unsaved(q, r)
                => ctx[p][r] # ctx[q][r]

IInv == PI /\ TypeOK /\ OpInv /\ TwiceInv /\ SentInv /\ NumberInv

-----------------------------------------------------------------------------

LEMMA PipelineInv ==
    /\ Init => PI
    /\ PI /\ [Next]_vars => PI'
    /\ PI => Pipe!TypeOK /\ PP!OneOperationPerObject
  <1>1. PP!PipelineAssumption
    BY EncodeAssumption DEF PP!PipelineAssumption
  <1>2. Init => PI
    BY <1>1, PP!InitInv, SamePipeline DEF Init, PI
  <1>3. PI /\ [Next]_vars => PI'
    BY <1>1, PP!NextInv, PipeStep, SamePipeline DEF PI
  <1>4. QED
    BY <1>2, <1>3, SamePipeline DEF PI, PP!IInv

(* While an operation is performed there is an object for it.              *)
LEMMA ObjIsObj ==
    ASSUME PI, NEW q \in Queues, stage[q] # "idle"
    PROVE  /\ Obj(q) \in Objs /\ queue[q] \in Seq(Objs) /\ queue[q] # <<>>
           /\ 1 \in DOMAIN queue[q] /\ queue[q][1] = Obj(q)
  <1>1. queue[q] \in Seq(Objs) /\ queue[q] # <<>>
    BY PipelineInv DEF PI, PP!IInv, PP!BusyHasHead, Pipe!TypeOK
  <1>2. QED
    BY <1>1 DEF Obj

LEMMA InitInv == Init => IInv
  <1> SUFFICES ASSUME Init PROVE IInv
    OBVIOUS
  <1> USE DEF Init, Zero
  <1>1. PI /\ Pipe!TypeOK
    BY PipelineInv
  <1>2. TypeOK
    BY <1>1, EncodeAssumption DEF TypeOK, Steps
  <1>3. OpInv
    BY DEF OpInv, Pipe!Init
  <1>4. TwiceInv
    BY DEF TwiceInv, TwiceOnlyIfExcused, Pipe!Init
  <1>5. SentInv
    BY DEF SentInv, DeletedWasSent, SettledWasEncoded
  <1>6. NumberInv
    BY DEF NumberInv, NumbersUniqueUnlessRaced, Assigned, Unsaved
  <1>7. QED
    BY <1>1, <1>2, <1>3, <1>4, <1>5, <1>6 DEF IInv

-----------------------------------------------------------------------------
(* What holds while an operation is performed, and what a step keeps.      *)

(* Nothing else holds the object of an operation that is under way.        *)
LEMMA OnlyHolder ==
    ASSUME PI, NEW q \in Queues, stage[q] = "performing"
    PROVE  /\ Pipe!Live(q, 1)
           /\ \A r \in Queues : \A i \in DOMAIN queue[r] :
                  Pipe!Live(r, i) /\ queue[r][i] = Obj(q) => r = q /\ i = 1
           /\ \A r \in Queues : stage[r] = "performing" /\ Obj(r) = Obj(q) => r = q
           /\ \A t \in Threads : claimed[t] # Obj(q)
  <1>1. ASSUME NEW r \in Queues, stage[r] = "performing"
        PROVE  1 \in DOMAIN queue[r] /\ queue[r][1] = Obj(r) /\ PP!Live(r, 1)
    BY <1>1, ObjIsObj DEF PP!Live
  <1>2. PP!OneOperationPerObject
    BY PipelineInv
  <1>3. QED
    BY <1>1, <1>2 DEF PP!OneOperationPerObject, PP!Live, Pipe!Live

(* An object that was sent stays sent.                                     *)
LEMMA SentStays ==
    ASSUME PI, [Next]_vars, NEW o \in Objs, stored[o] # "unborn"
    PROVE  stored'[o] # "unborn"
  <1>1. stored \in [Objs -> Pipe!StoreState]
    BY PipelineInv DEF Pipe!TypeOK
  <1>2. ASSUME NEW u \in Objs,
               Pipe!Create(u) \/ Pipe!Delete(u) \/ Pipe!SettleLater(u)
        PROVE  stored'[o] # "unborn"
    BY <1>1, <1>2 DEF Pipe!Create, Pipe!Delete, Pipe!SettleLater
  <1>3. ASSUME NEW objs \in SUBSET Objs, Pipe!Reopen(objs) \/ Pipe!Restart(objs)
        PROVE  stored'[o] # "unborn"
    BY <1>1, <1>3 DEF Pipe!Reopen, Pipe!Restart
  <1>4. ASSUME NEW q \in Queues, Pipe!Settle(q) PROVE stored'[o] # "unborn"
    BY <1>1, <1>4 DEF Pipe!Settle
  <1>5. ASSUME NEW q \in Queues, Pipe!Serve(q) \/ Pipe!Release(q)
        PROVE  UNCHANGED stored
    BY <1>5 DEF Pipe!Serve, Pipe!Return, Pipe!Begin, Pipe!BeginMissing, Pipe!Release,
                Pipe!Done, Pipe!Fail, Pipe!storeVars
  <1>6. ASSUME NEW t \in Threads,
               \/ Pipe!NotifyAll(t) \/ Pipe!Walk(t)
               \/ \E u \in Objs : Pipe!NotifyObject(t, u)
        PROVE  UNCHANGED stored
    BY <1>6 DEF Pipe!NotifyObject, Pipe!NotifyAll, Pipe!Walk, Pipe!Find, Pipe!Claim,
                Pipe!Enqueue, Pipe!storeVars
  <1>7. CASE UNCHANGED Pipe!vars
    BY <1>7 DEF Pipe!vars
  <1>8. QED
    BY PipeStep, <1>2, <1>3, <1>4, <1>5, <1>6, <1>7 DEF Pipe!Next

(* What is live after the head of a queue has left it was live before.     *)
LEMMA PopLive ==
    ASSUME PI, NEW q \in Queues, queue[q] # <<>>,
           queue' = [queue EXCEPT ![q] = Tail(@)],
           stage' = [stage EXCEPT ![q] = "idle"]
    PROVE  /\ \A i \in DOMAIN queue'[q] :
                /\ i + 1 \in DOMAIN queue[q] /\ queue'[q][i] = queue[q][i + 1]
                /\ i + 1 # 1
                /\ Pipe!Live(q, i)' => Pipe!Live(q, i + 1)
           /\ \A r \in Queues : r # q => queue'[r] = queue[r] /\ stage'[r] = stage[r]
  <1>1. /\ queue[q] \in Seq(Objs)
        /\ queue'[q] = Tail(queue[q])
        /\ \A r \in Queues : r # q => queue'[r] = queue[r] /\ stage'[r] = stage[r]
    BY PipelineInv DEF Pipe!TypeOK
  <1>2. \A i \in DOMAIN Tail(queue[q]) : /\ i + 1 \in DOMAIN queue[q]
                                         /\ i + 1 # 1
                                         /\ Tail(queue[q])[i] = queue[q][i + 1]
    BY <1>1, PP!TailPlaces
  <1>3. QED
    BY <1>1, <1>2 DEF Pipe!Live

LEMMA AppendHead ==
    ASSUME NEW S, NEW s \in Seq(S), s # <<>>, NEW x \in S
    PROVE  Head(Append(s, x)) = Head(s)
  OBVIOUS

(* A retry leaves the operations that are live and adds one of the object. *)
LEMMA RetryLive ==
    ASSUME PI, TypeOK, NEW q \in Queues, NEW n, Retry(q, n)
    PROVE  /\ stage[q] = "performing"
           /\ \A u \in Queues : step'[u] = IF u = q THEN "idle" ELSE step[u]
           /\ \A u \in Queues : u # q /\ stage[u] # "idle" => Obj(u)' = Obj(u)
           /\ \A u \in Queues : \A i \in DOMAIN queue'[u] :
                \/ queue'[u][i] = Obj(q)
                \/ LET j == IF u = q THEN i + 1 ELSE i
                   IN  /\ j \in DOMAIN queue[u]
                       /\ queue'[u][i] = queue[u][j]
                       /\ Pipe!Live(u, i)' => Pipe!Live(u, j)
                       /\ u = q => j # 1
  <1> DEFINE popped == [queue EXCEPT ![q] = Tail(@)]
             Old(u, i) == IF u = q THEN i + 1 ELSE i
  <1>1. PICK r \in Queues : Pipe!Fail(q, r, n)
    BY DEF Retry
  <1>2. /\ stage[q] = "performing"
        /\ stage' = [stage EXCEPT ![q] = "idle"]
        /\ queue' = popped \/ queue' = [popped EXCEPT ![r] = Append(@, Obj(q))]
    BY <1>1 DEF Pipe!Fail, Pipe!Performing, Obj
  <1>3. /\ queue[q] # <<>> /\ queue[q] \in Seq(Objs) /\ Obj(q) \in Objs
        /\ queue \in [Queues -> Seq(Objs)] /\ stage \in [Queues -> Pipe!OpStage]
    BY <1>2, ObjIsObj, PipelineInv DEF Pipe!TypeOK
  <1>4. /\ Tail(queue[q]) \in Seq(Objs)
        /\ \A i \in DOMAIN Tail(queue[q]) : /\ i + 1 \in DOMAIN queue[q]
                                            /\ i + 1 # 1
                                            /\ Tail(queue[q])[i] = queue[q][i + 1]
    BY <1>3, PP!TailPlaces
  <1>5. /\ popped \in [Queues -> Seq(Objs)]
        /\ \A u \in Queues : popped[u] = IF u = q THEN Tail(queue[q]) ELSE queue[u]
    BY <1>3, <1>4
  <1>6. \A u \in Queues : stage'[u] = IF u = q THEN "idle" ELSE stage[u]
    BY <1>2, <1>3
  <1>7. \A u \in Queues : step'[u] = IF u = q THEN "idle" ELSE step[u]
    BY DEF Retry, EndContext, TypeOK
  <1>8. \A u \in Queues :
            queue'[u] = popped[u] \/ queue'[u] = Append(popped[u], Obj(q))
    <2> HIDE DEF popped
    <2>1. QED
      BY <1>2, <1>5
  <1>9. \A u \in Queues : \A i \in DOMAIN queue'[u] :
            \/ queue'[u][i] = Obj(q)
            \/ i \in DOMAIN popped[u] /\ queue'[u][i] = popped[u][i]
    <2> SUFFICES ASSUME NEW u \in Queues, queue'[u] = Append(popped[u], Obj(q)),
                        NEW i \in DOMAIN queue'[u]
                 PROVE  \/ queue'[u][i] = Obj(q)
                        \/ i \in DOMAIN popped[u] /\ queue'[u][i] = popped[u][i]
      BY <1>8
    <2>1. popped[u] \in Seq(Objs)
      BY <1>5
    <2> HIDE DEF popped
    <2>2. QED
      BY <2>1, <1>3, PP!AppendPlaces
  <1>10. \A u \in Queues : \A i \in DOMAIN popped[u] :
            /\ Old(u, i) \in DOMAIN queue[u]
            /\ popped[u][i] = queue[u][Old(u, i)]
            /\ u = q => Old(u, i) # 1
            /\ Pipe!Live(u, i)' => Pipe!Live(u, Old(u, i))
    BY <1>4, <1>5, <1>6 DEF Pipe!Live
  <1>11. ASSUME NEW u \in Queues, u # q, stage[u] # "idle"
         PROVE  Obj(u)' = Obj(u)
    <2>1. queue[u] \in Seq(Objs) /\ queue[u] # <<>> /\ popped[u] = queue[u]
      BY <1>11, <1>5, ObjIsObj
    <2>2. CASE queue'[u] = queue[u]
      BY <2>2 DEF Obj
    <2>3. CASE queue'[u] = Append(queue[u], Obj(q))
      BY <2>1, <2>3, <1>3, AppendHead DEF Obj
    <2>4. QED
      BY <1>8, <2>1, <2>2, <2>3
  <1>12. QED
    BY <1>2, <1>7, <1>9, <1>10, <1>11

-----------------------------------------------------------------------------
(* The types of what the stage adds to the pipeline.                       *)

LEMMA FrameType ==
    ASSUME TypeOK, Pipe!TypeOK', UNCHANGED ownVars
    PROVE  TypeOK'
  BY DEF TypeOK, ownVars, ctxVars, numberVars, storeVars, history

LEMMA SaveType ==
    ASSUME TypeOK, NEW q \in Queues, Save(q)
    PROVE  /\ number' \in [Rcpts -> Nat]
           /\ raced' \subseteq Rcpts
           /\ base' \in [Queues -> [Rcpts -> Nat]]
  BY DEF TypeOK, Save, Dirty

LEMMA AddRowType ==
    ASSUME TypeOK, NumberInv, NEW q \in Queues, Obj(q) \in Objs, AddRow(q),
           step[q] \in {"first", "second", "refused"}, left[q] = {}
    PROVE  /\ rows' \in [Objs -> Nat] /\ repeated' \subseteq Rcpts
           /\ used' \subseteq Rcpts \X Nat
  <1>1. RcptsOf[Obj(q)] \subseteq Rcpts
    BY EncodeAssumption
  <1>2. \A r \in RcptsOf[Obj(q)] : ctx[q][r] - 1 \in Nat
    <2>1. \A r \in RcptsOf[Obj(q)] : r \in Assigned(q)
      BY DEF Assigned
    <2>2. QED
      BY <1>1, <2>1 DEF NumberInv, TypeOK
  <1>3. used' \subseteq Rcpts \X Nat
    BY <1>1, <1>2 DEF AddRow, Carried, TypeOK
  <1>4. QED
    BY <1>3 DEF AddRow, TypeOK

LEMMA TypeStep == IInv /\ PI' /\ [Next]_vars => TypeOK'
  <1> SUFFICES ASSUME IInv, PI', [Next]_vars PROVE TypeOK'
    OBVIOUS
  <1>0. TypeOK /\ PI /\ NumberInv /\ Pipe!TypeOK'
    <2>1. PI' => Pipe!TypeOK'
      BY PipelineInv, PTL
    <2>2. QED
      BY <2>1 DEF IInv
  <1> USE <1>0, EncodeAssumption
  <1> USE DEF ctxVars, numberVars, storeVars, history
  <1>1. ASSUME NEW t \in Threads, NEW o \in Objs, Send(t, o) PROVE TypeOK'
    BY <1>1 DEF Send, TypeOK
  <1>2. ASSUME NEW t \in Threads, Post(t) PROVE TypeOK'
    BY <1>2 DEF Post, TypeOK
  <1>3. ASSUME NEW t \in Threads, NEW s \in Senders, KeyArrives(t, s) PROVE TypeOK'
    BY <1>3 DEF KeyArrives, TypeOK
  <1>4. ASSUME NEW t \in Threads, Walk(t) PROVE TypeOK'
    <2>1. CASE Claim(t)
      <3>1. found[t] # None => found[t] \in Objs
        BY PipelineInv DEF Pipe!TypeOK
      <3>2. QED
        BY <2>1, <3>1 DEF Claim, Pipe!Claim, TypeOK
    <2>2. QED
      BY <1>4, <2>1, FrameType DEF Walk
  <1>5. ASSUME NEW o \in Objs, Vanish(o) PROVE TypeOK'
    BY <1>5, FrameType DEF Vanish
  <1>6. ASSUME NEW q \in Queues, Operation(q) PROVE TypeOK'
    <2>0. stage[q] # "idle" => Obj(q) \in Objs
      BY ObjIsObj
    <2>1. CASE Begin(q)
      BY <2>1 DEF Begin, Step, Steps, TypeOK
    <2>2. CASE BeginMissing(q) \/ Return(q)
      BY <2>2, FrameType DEF BeginMissing, Return
    <2>3. CASE Load(q)
      <3>1. RcptsOf[Obj(q)] \subseteq Rcpts
        BY <2>0, <2>3 DEF Load, At, Pipe!Performing
      <3>2. QED
        BY <2>3, <3>1 DEF Load, Step, Steps, TypeOK
    <2>4. ASSUME NEW r \in Rcpts, EncodeFor(q, r) PROVE TypeOK'
      BY <2>4 DEF EncodeFor, Assign, pipeVars, TypeOK
    <2>5. ASSUME NEW r \in Rcpts, MakeSecret(q, r) PROVE TypeOK'
      <3>1. Sender(q) \in Senders
        BY <2>0, <2>5 DEF MakeSecret, At, Pipe!Performing, Sender
      <3>2. secrets' \subseteq Senders \X Rcpts
        BY <2>5, <3>1 DEF MakeSecret, TypeOK
      <3>3. left' \in [Queues -> SUBSET Rcpts] /\ ctx' \in [Queues -> [Rcpts -> Nat]]
        BY <2>5 DEF MakeSecret, Assign, TypeOK
      <3>4. Save(q)
        BY <2>5 DEF MakeSecret
      <3>5. QED
        BY <2>5, <3>2, <3>3, <3>4, SaveType DEF MakeSecret, TypeOK
    <2>6. CASE FetchKey(q)
      <3>1. Sender(q) \in Senders /\ RcptsOf[Obj(q)] \subseteq Rcpts
        BY <2>0, <2>6 DEF FetchKey, NeedsKey, At, Pipe!Performing, Sender
      <3>2. Save(q)
        BY <2>6 DEF FetchKey
      <3>3. QED
        BY <2>6, <3>1, <3>2, SaveType DEF FetchKey, Step, Steps, TypeOK
    <2>7. CASE RefuseKey(q)
      BY <2>0, <2>7 DEF RefuseKey, NeedsKey, At, Pipe!Performing, GiveUp, Step, Steps, TypeOK
    <2>8. CASE Store(q)
      <3>1. Obj(q) \in Objs
        BY <2>0, <2>8 DEF Store, At, Pipe!Performing
      <3>2. AddRow(q) /\ step[q] \in {"first", "second"} /\ left[q] = {} /\ Save(q)
        BY <2>8 DEF Store, At
      <3>3. step' \in [Queues -> Steps]
        BY <2>8 DEF Store, Step, Steps, TypeOK
      <3>4. keyed' \subseteq Objs
        BY <2>8, <3>1 DEF Store, TypeOK
      <3>5. QED
        BY <2>8, <3>1, <3>2, <3>3, <3>4, AddRowType, SaveType DEF Store, TypeOK
    <2>18. CASE FinishLate(q)
      <3>1. Obj(q) \in Objs
        BY <2>0, <2>18 DEF FinishLate, At, Pipe!Performing
      <3>2. AddRow(q) /\ step[q] = "refused" /\ left[q] = {} /\ Save(q)
        BY <2>18 DEF FinishLate, HasUnsavedRow
      <3>3. step' \in [Queues -> Steps]
        BY <2>18 DEF FinishLate, Step, Steps, TypeOK
      <3>4. spent' \subseteq Objs /\ broken' \subseteq Objs
        BY <2>18, <3>1 DEF FinishLate, TypeOK
      <3>5. QED
        BY <2>18, <3>1, <3>2, <3>3, <3>4, AddRowType, SaveType DEF FinishLate, TypeOK
    <2>9. CASE Finish(q)
      <3>1. Obj(q) \in Objs
        BY <2>0, <2>9 DEF Finish, At, Pipe!Performing
      <3>2. Save(q) /\ spent' \subseteq Objs
        BY <2>9, <3>1 DEF Finish, TypeOK
      <3>3. step' \in [Queues -> Steps]
        BY <2>9 DEF Finish, Step, Outcome, Steps, TypeOK
      <3>4. QED
        BY <2>9, <3>2, <3>3, SaveType DEF Finish, TypeOK
    <2>10. ASSUME EndContext(q)
           PROVE  /\ step' \in [Queues -> Steps]
                  /\ left' \in [Queues -> SUBSET Rcpts]
                  /\ base' \in [Queues -> [Rcpts -> Nat]]
                  /\ ctx' \in [Queues -> [Rcpts -> Nat]]
      BY <2>10 DEF EndContext, Steps, Zero, TypeOK
    <2>11. CASE Release(q)
      BY <2>10, <2>11 DEF Release, TypeOK
    <2>12. CASE Again(q) \/ Abandon(q)
      BY <2>10, <2>12 DEF Again, Abandon, Retry, TypeOK
    <2>13. Throws(q) => faults' \in 0..MaxFaults
      BY DEF Throws, TypeOK
    <2>14. CASE Fails(q)
      BY <2>0, <2>10, <2>13, <2>14 DEF Fails, At, Pipe!Performing, Retry, TypeOK
    <2>15. CASE FailsAgain(q)
      BY <2>0, <2>13, <2>15
         DEF FailsAgain, At, Pipe!Performing, GiveUp, Step, Steps, TypeOK
    <2>16. CASE FailsRefused(q)
      BY <2>10, <2>13, <2>16 DEF FailsRefused, Retry, TypeOK
    <2>17. QED
      BY <1>6, <2>1, <2>2, <2>3, <2>4, <2>5, <2>6, <2>7, <2>8, <2>9, <2>11, <2>12, <2>14,
         <2>15, <2>16, <2>18 DEF Operation
  <1>7. CASE Restart
    <2>1. broken' \subseteq Objs
      BY <1>7, ObjIsObj DEF Restart, At, Pipe!Performing, TypeOK
    <2>2. QED
      BY <1>7, <2>1 DEF Restart, Zero, Steps, TypeOK
  <1>8. CASE UNCHANGED vars
    BY <1>8, FrameType DEF vars
  <1>9. QED
    BY <1>1, <1>2, <1>3, <1>4, <1>5, <1>6, <1>7, <1>8 DEF Next

-----------------------------------------------------------------------------
(* The operation and its object.                                           *)

(* Steps that leave the queues alone and do not go to or from "idle".       *)
LEMMA FrameOp ==
    ASSUME OpInv, PI, [Next]_vars, UNCHANGED <<queue, stage>>,
           \A q \in Queues : step'[q] = "idle" <=> step[q] = "idle"
    PROVE  OpInv'
  <1>1. ASSUME NEW q \in Queues, step[q] # "idle" PROVE stored'[Obj(q)] # "unborn"
    BY <1>1, ObjIsObj, SentStays DEF OpInv
  <1>2. QED
    BY <1>1 DEF OpInv, Obj

(* Steps that end the operation of q and keep those of the other queues.    *)
LEMMA EndOp ==
    ASSUME OpInv, PI, [Next]_vars, NEW q \in Queues,
           step'[q] = "idle", stage'[q] # "performing",
           \A p \in Queues : p # q =>
                /\ step'[p] = step[p] /\ stage'[p] = stage[p]
                /\ stage[p] # "idle" => Obj(p)' = Obj(p)
    PROVE  OpInv'
  <1>1. ASSUME NEW p \in Queues, step[p] # "idle" PROVE stored'[Obj(p)] # "unborn"
    BY <1>1, ObjIsObj, SentStays DEF OpInv
  <1>2. QED
    BY <1>1 DEF OpInv

(* The first operation of a queue stays the first when one is added.       *)
LEMMA EnqueueObj ==
    ASSUME PI, NEW t \in Threads, NEW q \in Queues, Pipe!Enqueue(t, q)
    PROVE  /\ claimed[t] \in Objs
           /\ \A p \in Queues : queue[p] # <<>> => Obj(p)' = Obj(p)
           /\ \A p \in Queues : \A i \in DOMAIN queue'[p] :
                \/ queue'[p][i] = claimed[t]
                \/ i \in DOMAIN queue[p] /\ queue'[p][i] = queue[p][i]
  <1>1. claimed[t] \in Objs /\ queue \in [Queues -> Seq(Objs)]
    BY PipelineInv DEF Pipe!Enqueue, Pipe!TypeOK
  <1>2. \A p \in Queues :
            queue'[p] = queue[p] \/ queue'[p] = Append(queue[p], claimed[t])
    BY <1>1 DEF Pipe!Enqueue
  <1>3. ASSUME NEW p \in Queues, queue[p] # <<>> PROVE Obj(p)' = Obj(p)
    BY <1>1, <1>2, <1>3, AppendHead DEF Obj
  <1>4. ASSUME NEW p \in Queues, NEW i \in DOMAIN queue'[p]
        PROVE  \/ queue'[p][i] = claimed[t]
               \/ i \in DOMAIN queue[p] /\ queue'[p][i] = queue[p][i]
    <2>1. queue[p] \in Seq(Objs)
      BY <1>1
    <2>2. CASE queue'[p] = Append(queue[p], claimed[t])
      BY <1>1, <2>1, <2>2, PP!AppendPlaces
    <2>3. QED
      BY <1>2, <2>2
  <1>5. QED
    BY <1>1, <1>3, <1>4

LEMMA OpStep == IInv /\ [Next]_vars => OpInv'
  <1> SUFFICES ASSUME IInv, [Next]_vars PROVE OpInv'
    OBVIOUS
  <1>0. TypeOK /\ PI /\ OpInv /\ Pipe!TypeOK
    BY PipelineInv DEF IInv
  <1> USE <1>0
  <1> USE DEF pipeVars, ownVars
  <1>1. ASSUME NEW t \in Threads, NEW o \in Objs, Send(t, o) PROVE OpInv'
    BY <1>1, FrameOp DEF Send, Pipe!Create, Pipe!opVars
  <1>2. ASSUME NEW t \in Threads, Post(t) PROVE OpInv'
    BY <1>2, FrameOp DEF Post, Pipe!NotifyObject, Pipe!opVars
  <1>3. ASSUME NEW t \in Threads, NEW s \in Senders, KeyArrives(t, s) PROVE OpInv'
    BY <1>3, FrameOp DEF KeyArrives, Pipe!NotifyAll, Pipe!opVars
  <1>4. ASSUME NEW t \in Threads, Walk(t) PROVE OpInv'
    <2>1. ASSUME NEW o \in Objs, Pipe!Find(t, o), UNCHANGED ownVars PROVE OpInv'
      BY <2>1, FrameOp DEF Pipe!Find, Pipe!opVars
    <2>2. CASE Claim(t)
      BY <2>2, FrameOp DEF Claim, Pipe!Claim, Pipe!opVars
    <2>3. ASSUME NEW q \in Queues, Pipe!Enqueue(t, q), UNCHANGED ownVars PROVE OpInv'
      <3>1. ASSUME NEW p \in Queues, step[p] # "idle"
            PROVE  Obj(p)' = Obj(p) /\ stored[Obj(p)] # "unborn"
        BY <2>3, <3>1, EnqueueObj, ObjIsObj DEF OpInv
      <3>2. UNCHANGED <<stored, stage, step>>
        BY <2>3 DEF Pipe!Enqueue, Pipe!storeVars
      <3>3. QED
        BY <3>1, <3>2 DEF OpInv
    <2>4. QED
      BY <1>4, <2>1, <2>2, <2>3 DEF Walk
  <1>5. ASSUME NEW o \in Objs, Vanish(o) PROVE OpInv'
    BY <1>5, FrameOp DEF Vanish, Pipe!Delete, Pipe!opVars
  <1>6. ASSUME NEW q \in Queues, Operation(q) PROVE OpInv'
    <2>1. CASE Begin(q)
      <3>1. /\ Obj(q) \in Pipe!Existing /\ UNCHANGED <<queue, stored>>
            /\ \A p \in Queues : step'[p] = IF p = q THEN "start" ELSE step[p]
            /\ \A p \in Queues : stage'[p] = IF p = q THEN "performing" ELSE stage[p]
        BY <2>1 DEF Begin, Pipe!Begin, Step, TypeOK, Pipe!TypeOK, Pipe!storeVars, Obj
      <3>2. QED
        BY <3>1 DEF OpInv, Obj, Pipe!Existing
    <2>2. CASE BeginMissing(q)
      <3>1. /\ \A p \in Queues : p # q => queue'[p] = queue[p]
            /\ stage[q] = "idle" /\ UNCHANGED <<stage, step>>
        BY <2>2 DEF BeginMissing, Pipe!BeginMissing, Pipe!TypeOK
      <3>2. QED
        BY <3>1, EndOp DEF OpInv, Obj
    <2>3. CASE Return(q)
      <3>1. /\ \A p \in Queues : p # q => queue'[p] = queue[p] /\ stage'[p] = stage[p]
            /\ stage[q] = "released" /\ stage'[q] = "idle" /\ UNCHANGED step
        BY <2>3 DEF Return, Pipe!Done, Pipe!TypeOK
      <3>2. QED
        BY <3>1, EndOp DEF OpInv, Obj
    <2>4. CASE Load(q) \/ RefuseKey(q) \/ FetchKey(q) \/ Store(q) \/ FailsAgain(q)
      <3>1. /\ UNCHANGED <<queue, stage>>
            /\ step[q] # "idle"
            /\ \E s \in Steps \ {"idle"} : step' = [step EXCEPT ![q] = s]
        BY <2>4 DEF Load, RefuseKey, NeedsKey, FetchKey, Store, FailsAgain, GiveUp, At, Step,
                    Steps
      <3>2. QED
        BY <3>1, FrameOp DEF TypeOK, Steps
    <2>5. ASSUME NEW r \in Rcpts, EncodeFor(q, r) \/ MakeSecret(q, r) PROVE OpInv'
      BY <2>5, FrameOp DEF EncodeFor, MakeSecret
    <2>6. CASE Finish(q) \/ FinishLate(q)
      <3>1. /\ UNCHANGED <<queue, stage>>
            /\ step[q] # "idle"
            /\ \E s \in Steps \ {"idle"} : step' = [step EXCEPT ![q] = s]
        BY <2>6 DEF Finish, FinishLate, At, Step, Steps, Outcome, Pipe!Delete, Pipe!Settle, Pipe!opVars
      <3>2. QED
        BY <3>1, FrameOp DEF TypeOK, Steps
    <2>7. CASE Release(q)
      <3>1. /\ UNCHANGED queue
            /\ \A p \in Queues : step'[p] = IF p = q THEN "idle" ELSE step[p]
            /\ \A p \in Queues : stage'[p] = IF p = q THEN "released" ELSE stage[p]
        BY <2>7 DEF Release, Pipe!Release, EndContext, TypeOK, Pipe!TypeOK
      <3>2. QED
        BY <3>1, EndOp DEF Obj
    <2>8. ASSUME NEW n, Retry(q, n) PROVE OpInv'
      <3>1. \A p \in Queues : stage'[p] = IF p = q THEN "idle" ELSE stage[p]
        BY <2>8 DEF Retry, Pipe!Fail, Pipe!TypeOK
      <3>2. QED
        BY <2>8, <3>1, RetryLive, EndOp
    <2>9. CASE Again(q) \/ Abandon(q) \/ Fails(q) \/ FailsRefused(q)
      BY <2>8, <2>9 DEF Again, Abandon, Fails, FailsRefused
    <2>10. QED
      BY <1>6, <2>1, <2>2, <2>3, <2>4, <2>5, <2>6, <2>7, <2>9 DEF Operation
  <1>7. CASE Restart
    BY <1>7 DEF Restart, Pipe!Restart, OpInv
  <1>8. CASE UNCHANGED vars
    BY <1>8, FrameOp DEF vars
  <1>9. QED
    BY <1>1, <1>2, <1>3, <1>4, <1>5, <1>6, <1>7, <1>8 DEF Next

-----------------------------------------------------------------------------
(* An object is encoded twice only if it is excused.                       *)

(* Steps that encode and settle nothing, and start or end no operation.    *)
Unsettled == {"idle", "start", "first", "second", "refused", "unsent"}
LEMMA FrameTwice ==
    ASSUME PI, TwiceInv, UNCHANGED <<rows, queue, claimed, keyed, broken, late>>,
           \A o \in Objs : rows[o] > 0 \/ stored'[o] = "settled" =>
                stored'[o] = stored[o] \/ stored'[o] = "deleted",
           \A q \in Queues : stage'[q] = "released" <=> stage[q] = "released",
           \A q \in Queues : step'[q] = step[q] \/ {step[q], step'[q]} \subseteq Unsettled
    PROVE  TwiceInv'
  <1> USE DEF Unsettled
  <1>1. \A q \in Queues : /\ step'[q] = "stored" <=> step[q] = "stored"
                          /\ step'[q] = "done" <=> step[q] = "done"
                          /\ step'[q] = "storedAgain" <=> step[q] = "storedAgain"
                          /\ step'[q] = "doneAgain" <=> step[q] = "doneAgain"
    OBVIOUS
  <1>2. \A q \in Queues : \A i : Pipe!Live(q, i)' <=> Pipe!Live(q, i)
    BY DEF Pipe!Live
  <1>3. UNCHANGED excused /\ \A q \in Queues : Obj(q)' = Obj(q)
    BY DEF excused, Obj
  <1>4. \A o \in Objs : stored'[o] = "settled" => stored[o] = "settled"
    OBVIOUS
  <1>5. TwiceOnlyIfExcused'
    BY DEF TwiceInv, TwiceOnlyIfExcused
  <1>6. \A o \in Objs : rows[o] > 0 =>
            /\ stored'[o] # "unborn"
            /\ stored'[o] = "selected" =>
                  o \in excused \/ \E q \in Queues : step'[q] = "stored" /\ Obj(q) = o
    BY <1>1 DEF TwiceInv
  <1>7. \A q \in Queues : \A i \in DOMAIN queue[q] :
            Pipe!Live(q, i)' /\ stored'[queue[q][i]] = "settled" =>
                queue[q][i] \in excused \/ (i = 1 /\ step'[q] = "done")
    BY <1>1, <1>2, <1>4, PipelineInv DEF TwiceInv, Pipe!TypeOK
  <1>8. QED
    BY <1>1, <1>3, <1>4, <1>5, <1>6, <1>7 DEF TwiceInv

(* Steps that only change what is queued.                                  *)
LEMMA QueueTwice ==
    ASSUME TwiceInv, OpInv, UNCHANGED <<stored, rows, keyed, late>>, broken \subseteq broken',
           \A t \in Threads : claimed'[t] \in {None, claimed[t]},
           \A q \in Queues : step[q] \in {"stored", "storedAgain", "done", "doneAgain"} =>
                \/ step'[q] = step[q] /\ Obj(q)' = Obj(q)
                \/ step'[q] = "idle" /\ (step[q] = "stored" => Obj(q) \in broken'),
           \A q \in Queues : step'[q] \in {step[q], "idle"},
           \A q \in Queues : \A i \in DOMAIN queue'[q] :
                Pipe!Live(q, i)' /\ stored[queue'[q][i]] = "settled" =>
                    \/ queue'[q][i] \in excused'
                    \/ /\ i \in DOMAIN queue[q] /\ queue'[q][i] = queue[q][i]
                       /\ Pipe!Live(q, i) /\ step'[q] = step[q]
    PROVE  TwiceInv'
  <1>1. \A o : o \in excused => o \in excused'
    BY DEF excused
  <1>2. TwiceOnlyIfExcused'
    BY <1>1 DEF TwiceInv, TwiceOnlyIfExcused, excused
  <1>3. ASSUME NEW o \in Objs, rows[o] > 0
        PROVE  /\ stored[o] # "unborn"
               /\ stored[o] = "selected" =>
                     o \in excused' \/ \E q \in Queues : step'[q] = "stored" /\ Obj(q)' = o
    <2>1. ASSUME NEW q \in Queues, step[q] = "stored", Obj(q) = o
          PROVE  o \in excused' \/ (step'[q] = "stored" /\ Obj(q)' = o)
      BY <2>1 DEF excused
    <2>2. QED
      BY <1>1, <1>3, <2>1 DEF TwiceInv
  <1>4. \A t \in Threads : claimed'[t] \in Objs /\ stored[claimed'[t]] = "settled"
                              => claimed'[t] \in excused'
    BY <1>1, EncodeAssumption DEF TwiceInv
  <1>5. ASSUME NEW q \in Queues, NEW i \in DOMAIN queue'[q],
               Pipe!Live(q, i)', stored[queue'[q][i]] = "settled"
        PROVE  queue'[q][i] \in excused' \/ (i = 1 /\ step'[q] = "done")
    BY <1>1, <1>5 DEF TwiceInv
  <1>6. \A q \in Queues : step'[q] \in {"storedAgain", "doneAgain"} => Obj(q)' \in keyed
    BY DEF TwiceInv
  <1>7. QED
    BY <1>2, <1>3, <1>4, <1>5, <1>6 DEF TwiceInv

LEMMA ClaimTwice ==
    ASSUME IInv, NEW t \in Threads, Claim(t)
    PROVE  TwiceInv'
  <1>0. TypeOK /\ Pipe!TypeOK /\ TwiceInv
    BY PipelineInv DEF IInv
  <1>1. /\ UNCHANGED <<rows, queue, keyed, broken, stored, stage, step>>
        /\ late \subseteq late'
    BY DEF Claim, Pipe!Claim, Pipe!storeVars, Pipe!opVars, storeVars
  <1>2. \A u \in Threads :
            \/ claimed'[u] = claimed[u]
            \/ stored[claimed'[u]] = "settled" => claimed'[u] \in late'
    BY <1>0 DEF Claim, Pipe!Claim, Pipe!TypeOK
  <1>3. \A o : o \in excused => o \in excused'
    BY <1>1 DEF excused
  <1>4. \A q \in Queues : \A i : Pipe!Live(q, i)' <=> Pipe!Live(q, i)
    BY <1>1 DEF Pipe!Live
  <1>5. TwiceOnlyIfExcused'
    BY <1>0, <1>1 DEF TwiceInv, TwiceOnlyIfExcused
  <1>6. \A u \in Threads : claimed'[u] \in Objs /\ stored[claimed'[u]] = "settled"
                              => claimed'[u] \in excused'
    BY <1>0, <1>2, <1>3 DEF TwiceInv, excused
  <1>7. QED
    BY <1>0, <1>1, <1>3, <1>4, <1>5, <1>6 DEF TwiceInv, Obj

LEMMA StoreTwice ==
    ASSUME IInv, NEW q \in Queues, Store(q)
    PROVE  TwiceInv'
  <1> DEFINE o == Obj(q)
  <1>0. TypeOK /\ PI /\ OpInv /\ TwiceInv /\ o \in Objs /\ stage[q] = "performing"
    BY ObjIsObj DEF IInv, Store, At, Pipe!Performing
  <1>1. /\ UNCHANGED <<queue, claimed, stored, stage, broken, late>>
        /\ step[q] \in {"first", "second"} /\ o \in Pipe!Existing
        /\ keyed' = IF step[q] = "second" THEN keyed \cup {o} ELSE keyed
        /\ \A u \in Objs : rows'[u] = IF u = o THEN rows[u] + 1 ELSE rows[u]
        /\ \A p \in Queues : p # q => step'[p] = step[p]
        /\ step'[q] = IF step[q] = "second" THEN "storedAgain" ELSE "stored"
    BY <1>0 DEF Store, AddRow, pipeVars, At, Present, Step, TypeOK
  <1>2. \A u : u \in excused => u \in excused'
    BY <1>1 DEF excused
  <1>3. rows[o] > 0 => o \in excused
    <2>1. CASE stored[o] = "selected"
      <3>1. \A p \in Queues : step[p] = "stored" /\ Obj(p) = o => p = q
        BY <1>0, OnlyHolder DEF OpInv
      <3>2. QED
        BY <1>0, <1>1, <2>1, <3>1 DEF TwiceInv
    <2>2. CASE stored[o] = "settled"
      <3>1. 1 \in DOMAIN queue[q] /\ queue[q][1] = o /\ Pipe!Live(q, 1)
        BY <1>0, OnlyHolder, ObjIsObj
      <3>2. QED
        BY <1>0, <1>1, <2>2, <3>1 DEF TwiceInv
    <2>3. QED
      BY <1>1, <2>1, <2>2 DEF Pipe!Existing
  <1>4. TwiceOnlyIfExcused'
    <2> SUFFICES ASSUME NEW u \in Objs, rows'[u] > 1 PROVE u \in excused'
      BY DEF TwiceOnlyIfExcused, excused
    <2>1. CASE u = o
      <3>1. rows[o] \in Nat /\ rows[o] > 0
        BY <1>0, <1>1, <2>1 DEF TypeOK
      <3>2. QED
        BY <1>2, <1>3, <2>1, <3>1
    <2>2. CASE u # o
      BY <1>0, <1>1, <1>2, <2>2 DEF TwiceInv, TwiceOnlyIfExcused, excused
    <2>3. QED
      BY <2>1, <2>2
  <1>5. ASSUME NEW u \in Objs, rows'[u] > 0
        PROVE  /\ stored'[u] # "unborn"
               /\ stored'[u] = "selected" =>
                   u \in excused' \/ \E p \in Queues : step'[p] = "stored" /\ Obj(p)' = u
    <2>1. CASE u = o
      BY <1>1, <2>1 DEF Pipe!Existing, excused, Obj
    <2>2. CASE u # o
      <3>1. ASSUME NEW p \in Queues, step[p] = "stored", Obj(p) = u
            PROVE  step'[p] = "stored" /\ Obj(p)' = u
        BY <1>1, <2>2, <3>1 DEF Obj
      <3>2. QED
        BY <1>0, <1>1, <1>2, <1>5, <2>2, <3>1 DEF TwiceInv
    <2>3. QED
      BY <2>1, <2>2
  <1>6. \A t \in Threads : claimed'[t] \in Objs /\ stored'[claimed'[t]] = "settled"
                              => claimed'[t] \in excused'
    BY <1>0, <1>1, <1>2 DEF TwiceInv
  <1>7. ASSUME NEW p \in Queues, NEW i \in DOMAIN queue'[p],
               Pipe!Live(p, i)', stored'[queue'[p][i]] = "settled"
        PROVE  queue'[p][i] \in excused' \/ (i = 1 /\ step'[p] = "done")
    <2>1. Pipe!Live(p, i)
      BY <1>1, <1>7 DEF Pipe!Live
    <2>2. QED
      BY <1>0, <1>1, <1>2, <1>7, <2>1 DEF TwiceInv
  <1>8. \A p \in Queues : step'[p] \in {"storedAgain", "doneAgain"} => Obj(p)' \in keyed'
    BY <1>0, <1>1 DEF TwiceInv, Obj
  <1>9. QED
    BY <1>4, <1>5, <1>6, <1>7, <1>8 DEF TwiceInv

LEMMA FinishTwice ==
    ASSUME IInv, NEW q \in Queues, Finish(q)
    PROVE  TwiceInv'
  <1> DEFINE o == Obj(q)
  <1>0. TypeOK /\ PI /\ OpInv /\ TwiceInv /\ o \in Objs /\ stage[q] = "performing"
        /\ stored \in [Objs -> Pipe!StoreState]
    BY ObjIsObj, PipelineInv DEF IInv, Finish, At, Pipe!Performing, Pipe!TypeOK
  <1>1. /\ UNCHANGED <<queue, claimed, stage, rows, keyed, broken, late>>
        /\ step[q] \in {"stored", "storedAgain", "refused"}
        /\ step' = [step EXCEPT ![q] = Outcome(step[q])]
    BY DEF Finish, At, Pipe!Delete, Pipe!Settle, Pipe!walkVars, Pipe!opVars, pipeVars,
           storeVars, Step
  <1>2. /\ \A u \in Objs : u # o => stored'[u] = stored[u]
        /\ \/ stored'[o] = stored[o] /\ (stored[o] = "selected" => step[q] = "refused")
           \/ stored'[o] = "deleted"
           \/ stored[o] = "selected" /\ stored'[o] = "settled" /\ step[q] # "refused"
    BY <1>0 DEF Finish, Pipe!Delete, Pipe!Settle, pipeVars, Obj
  <1>3. /\ \A p \in Queues : p # q => step'[p] = step[p]
        /\ step'[q] = Outcome(step[q])
    BY <1>0, <1>1 DEF TypeOK
  <1>4. /\ \A p \in Queues : \A i : Pipe!Live(p, i)' <=> Pipe!Live(p, i)
        /\ \A u : u \in excused' <=> u \in excused
        /\ \A p \in Queues : Obj(p)' = Obj(p)
    BY <1>1 DEF Pipe!Live, excused, Obj
  <1>5. ASSUME NEW u \in Objs, rows[u] > 0
        PROVE  /\ stored'[u] # "unborn"
               /\ stored'[u] = "selected" =>
                   u \in excused' \/ \E p \in Queues : step'[p] = "stored" /\ Obj(p)' = u
    <2>1. stored'[u] # "unborn"
      BY <1>0, <1>2, <1>5 DEF TwiceInv
    <2>2. ASSUME stored'[u] = "selected", NEW p \in Queues, step[p] = "stored", Obj(p) = u
          PROVE  step'[p] = "stored" /\ Obj(p)' = u
      BY <1>2, <1>3, <1>4, <2>2
    <2>3. stored'[u] = "selected" => stored[u] = "selected"
      BY <1>2
    <2>4. QED
      BY <1>0, <1>4, <1>5, <2>1, <2>2, <2>3 DEF TwiceInv
  <1>6. ASSUME NEW t \in Threads, claimed[t] \in Objs, stored'[claimed[t]] = "settled"
        PROVE  claimed[t] \in excused'
    <2>1. claimed[t] # o
      BY <1>0, OnlyHolder
    <2>2. QED
      BY <1>0, <1>2, <1>4, <1>6, <2>1 DEF TwiceInv
  <1>7. ASSUME NEW p \in Queues, NEW i \in DOMAIN queue[p],
               Pipe!Live(p, i), stored'[queue[p][i]] = "settled"
        PROVE  queue[p][i] \in excused' \/ (i = 1 /\ step'[p] = "done")
    <2>1. CASE queue[p][i] = o
      <3>1. p = q /\ i = 1
        BY <1>0, <1>7, <2>1, OnlyHolder
      <3>2. CASE step[q] = "stored"
        BY <1>3, <3>1, <3>2 DEF Outcome
      <3>3. CASE step[q] = "storedAgain"
        BY <1>0, <1>4, <2>1, <3>3 DEF TwiceInv, excused
      <3>4. CASE step[q] = "refused"
        BY <1>0, <1>2, <1>4, <1>7, <2>1, <3>1, <3>4 DEF TwiceInv
      <3>5. QED
        BY <1>1, <3>2, <3>3, <3>4
    <2>2. CASE queue[p][i] # o
      <3>1. queue[p][i] \in Objs
        BY PipelineInv, <1>0 DEF Pipe!TypeOK
      <3>2. stored[queue[p][i]] = "settled"
        BY <1>2, <1>7, <2>2, <3>1
      <3>3. p = q => i # 1
        BY <1>0, <2>2, ObjIsObj
      <3>4. QED
        BY <1>0, <1>3, <1>4, <1>7, <3>2, <3>3 DEF TwiceInv
    <2>3. QED
      BY <2>1, <2>2
  <1>8. \A p \in Queues : step'[p] \in {"storedAgain", "doneAgain"} => Obj(p) \in keyed
    BY <1>0, <1>1, <1>3 DEF TwiceInv, Outcome
  <1>9. QED
    BY <1>0, <1>1, <1>4, <1>5, <1>6, <1>7, <1>8 DEF TwiceInv, TwiceOnlyIfExcused

LEMMA FinishLateTwice ==
    ASSUME IInv, NEW q \in Queues, FinishLate(q)
    PROVE  TwiceInv'
  <1> DEFINE o == Obj(q)
  <1>0. TypeOK /\ PI /\ OpInv /\ TwiceInv /\ o \in Objs
        /\ stored \in [Objs -> Pipe!StoreState]
    BY ObjIsObj, PipelineInv
       DEF IInv, FinishLate, At, Pipe!Performing, Pipe!TypeOK
  <1>1. /\ UNCHANGED <<queue, claimed, stage, keyed, late>>
        /\ broken' = broken \cup {o} /\ step[q] = "refused" /\ step'[q] = "unsent"
        /\ \A p \in Queues : p # q => step'[p] = step[p]
        /\ \A u \in Objs : u # o => rows'[u] = rows[u]
    BY <1>0 DEF FinishLate, AddRow, At, Pipe!Delete, Pipe!walkVars, Pipe!opVars, pipeVars,
                Step, TypeOK
  <1>2. /\ \A u \in Objs : stored'[u] = stored[u] \/ stored'[u] = "deleted"
        /\ stored[o] # "unborn"
    BY <1>0, <1>1 DEF FinishLate, Pipe!Delete, pipeVars, OpInv
  <1>3. /\ \A p \in Queues : \A i : Pipe!Live(p, i)' <=> Pipe!Live(p, i)
        /\ \A p \in Queues : Obj(p)' = Obj(p)
        /\ \A u : u \in excused => u \in excused'
        /\ o \in excused'
    BY <1>1 DEF Pipe!Live, excused, Obj
  <1>4. TwiceOnlyIfExcused'
    <2> SUFFICES ASSUME NEW u \in Objs, rows'[u] > 1, u # o PROVE u \in excused'
      BY <1>3 DEF TwiceOnlyIfExcused, excused
    <2>1. QED
      BY <1>0, <1>1, <1>3 DEF TwiceInv, TwiceOnlyIfExcused, excused
  <1>5. ASSUME NEW u \in Objs, rows'[u] > 0
        PROVE  /\ stored'[u] # "unborn"
               /\ stored'[u] = "selected" =>
                   u \in excused' \/ \E p \in Queues : step'[p] = "stored" /\ Obj(p)' = u
    <2>1. CASE u = o
      BY <1>2, <1>3, <2>1
    <2>2. CASE u # o
      <3>1. ASSUME NEW p \in Queues, step[p] = "stored", Obj(p) = u
            PROVE  step'[p] = "stored" /\ Obj(p)' = u
        BY <1>1, <1>3, <3>1
      <3>2. QED
        BY <1>0, <1>1, <1>2, <1>3, <1>5, <2>2, <3>1 DEF TwiceInv
    <2>3. QED
      BY <2>1, <2>2
  <1>6. \A t \in Threads : claimed'[t] \in Objs /\ stored'[claimed'[t]] = "settled"
                              => claimed'[t] \in excused'
    BY <1>0, <1>1, <1>2, <1>3 DEF TwiceInv
  <1>7. ASSUME NEW p \in Queues, NEW i \in DOMAIN queue'[p],
               Pipe!Live(p, i)', stored'[queue'[p][i]] = "settled"
        PROVE  queue'[p][i] \in excused' \/ (i = 1 /\ step'[p] = "done")
    <2>1. Pipe!Live(p, i) /\ queue[p][i] \in Objs
      BY <1>0, <1>1, <1>3, <1>7, PipelineInv DEF Pipe!TypeOK
    <2>2. stored[queue[p][i]] = "settled"
      BY <1>1, <1>2, <1>7, <2>1
    <2>3. QED
      BY <1>0, <1>1, <1>3, <1>7, <2>1, <2>2 DEF TwiceInv
  <1>8. \A p \in Queues : step'[p] \in {"storedAgain", "doneAgain"} => Obj(p)' \in keyed'
    BY <1>0, <1>1, <1>3 DEF TwiceInv
  <1>9. QED
    BY <1>4, <1>5, <1>6, <1>7, <1>8 DEF TwiceInv

(* The head of a queue that is popped, or queued once more.                *)
LEMMA PopTwice ==
    ASSUME IInv, NEW q \in Queues, queue[q] # <<>>,
           step[q] = "idle", UNCHANGED <<step, stored, rows, claimed, keyed, broken, late>>,
           queue' = [queue EXCEPT ![q] = Tail(@)],
           stage' = [stage EXCEPT ![q] = "idle"]
    PROVE  TwiceInv'
  <1>0. TwiceInv /\ OpInv /\ PI /\ Pipe!TypeOK
    BY PipelineInv DEF IInv
  <1>1. \A p \in Queues : p # q => Obj(p)' = Obj(p) /\ queue'[p] = queue[p]
    BY <1>0 DEF Pipe!TypeOK, Obj
  <1>2. UNCHANGED excused
    BY DEF excused
  <1>21. \A i \in DOMAIN queue'[q] :
            /\ i + 1 \in DOMAIN queue[q] /\ queue'[q][i] = queue[q][i + 1]
            /\ i + 1 # 1
            /\ Pipe!Live(q, i)' => Pipe!Live(q, i + 1)
    BY <1>0, PopLive
  <1>3. ASSUME NEW p \in Queues, NEW i \in DOMAIN queue'[p],
               Pipe!Live(p, i)', stored[queue'[p][i]] = "settled"
        PROVE  \/ queue'[p][i] \in excused'
               \/ /\ i \in DOMAIN queue[p] /\ queue'[p][i] = queue[p][i]
                  /\ Pipe!Live(p, i) /\ step'[p] = step[p]
    <2>1. CASE p = q
      <3>1. /\ i + 1 \in DOMAIN queue[q] /\ queue'[q][i] = queue[q][i + 1]
            /\ Pipe!Live(q, i + 1) /\ i + 1 # 1
        BY <1>21, <1>3, <2>1
      <3>2. QED
        BY <1>0, <1>2, <1>3, <2>1, <3>1 DEF TwiceInv
    <2>2. CASE p # q
      <3>1. Pipe!Live(p, i)
        <4>1. \A j : stage'[p] = stage[p] /\ (Pipe!Live(p, j)' => Pipe!Live(p, j))
          BY <1>0, <1>1, <2>2 DEF Pipe!Live, Pipe!TypeOK
        <4>2. QED
          BY <1>3, <4>1
      <3>2. QED
        BY <1>1, <1>3, <2>2, <3>1
    <2>3. QED
      BY <2>1, <2>2
  <1>4. \A p \in Queues : step[p] \in {"stored", "storedAgain", "done", "doneAgain"} =>
            step'[p] = step[p] /\ Obj(p)' = Obj(p)
    BY <1>1
  <1>5. QED
    BY <1>0, <1>3, <1>4, QueueTwice

LEMMA RetryTwice ==
    ASSUME IInv, NEW q \in Queues, NEW n, Retry(q, n), step[q] # "done",
           UNCHANGED <<rows, keyed, late>>, broken \subseteq broken',
           step[q] = "stored" => Obj(q) \in broken'
    PROVE  TwiceInv'
  <1>0. TwiceInv /\ OpInv /\ TypeOK /\ PI /\ Pipe!TypeOK
    BY PipelineInv DEF IInv
  <1>1. UNCHANGED <<stored, claimed>>
    BY DEF Retry, Pipe!Fail, Pipe!storeVars, Pipe!walkVars
  <1>2. \A o : o \in excused => o \in excused'
    BY DEF excused
  <1>3. stored[Obj(q)] = "settled" => Obj(q) \in excused
    <2>1. Pipe!Live(q, 1) /\ 1 \in DOMAIN queue[q] /\ queue[q][1] = Obj(q)
      BY <1>0, RetryLive, OnlyHolder, ObjIsObj
    <2>2. QED
      BY <1>0, <2>1 DEF TwiceInv
  <1>4. ASSUME NEW p \in Queues, NEW i \in DOMAIN queue'[p],
               Pipe!Live(p, i)', stored[queue'[p][i]] = "settled"
        PROVE  \/ queue'[p][i] \in excused'
               \/ /\ i \in DOMAIN queue[p] /\ queue'[p][i] = queue[p][i]
                  /\ Pipe!Live(p, i) /\ step'[p] = step[p]
    <2>1. CASE queue'[p][i] = Obj(q)
      BY <1>2, <1>3, <1>4, <2>1
    <2>2. CASE queue'[p][i] # Obj(q) /\ p = q
      <3>1. /\ i + 1 \in DOMAIN queue[q] /\ queue'[q][i] = queue[q][i + 1]
            /\ Pipe!Live(q, i + 1) /\ i + 1 # 1
        BY <1>0, <1>4, <2>2, RetryLive
      <3>2. QED
        BY <1>0, <1>2, <1>4, <2>2, <3>1 DEF TwiceInv
    <2>3. CASE queue'[p][i] # Obj(q) /\ p # q
      BY <1>0, <1>4, <2>3, RetryLive
    <2>4. QED
      BY <2>1, <2>2, <2>3
  <1>5. \A p \in Queues : step[p] \in {"stored", "storedAgain", "done", "doneAgain"} =>
            \/ step'[p] = step[p] /\ Obj(p)' = Obj(p)
            \/ step'[p] = "idle" /\ (step[p] = "stored" => Obj(p) \in broken')
    BY <1>0, RetryLive DEF OpInv
  <1>6. \A p \in Queues : step'[p] \in {step[p], "idle"}
    BY <1>0, RetryLive
  <1>7. \A t \in Threads : claimed'[t] \in {None, claimed[t]}
    BY <1>1
  <1>8. QED
    BY <1>0, <1>1, <1>4, <1>5, <1>6, <1>7, QueueTwice

LEMMA EnqueueTwice ==
    ASSUME IInv, NEW t \in Threads, NEW q \in Queues, Pipe!Enqueue(t, q), UNCHANGED ownVars
    PROVE  TwiceInv'
  <1>0. TwiceInv /\ OpInv /\ TypeOK /\ PI /\ Pipe!TypeOK
    BY PipelineInv DEF IInv
  <1>1. /\ UNCHANGED <<stored, stage, step, rows, keyed, broken, late>>
        /\ \A u \in Threads : claimed'[u] \in {None, claimed[u]}
    BY <1>0 DEF Pipe!Enqueue, Pipe!storeVars, Pipe!TypeOK, ownVars, storeVars, history
  <1>2. UNCHANGED excused
    BY <1>1 DEF excused
  <1>3. ASSUME NEW p \in Queues, NEW i \in DOMAIN queue'[p],
               Pipe!Live(p, i)', stored[queue'[p][i]] = "settled"
        PROVE  \/ queue'[p][i] \in excused'
               \/ /\ i \in DOMAIN queue[p] /\ queue'[p][i] = queue[p][i]
                  /\ Pipe!Live(p, i) /\ step'[p] = step[p]
    <2>1. CASE queue'[p][i] = claimed[t]
      BY <1>0, <1>2, <1>3, <2>1, EnqueueObj DEF TwiceInv
    <2>2. CASE i \in DOMAIN queue[p] /\ queue'[p][i] = queue[p][i]
      BY <1>1, <1>3, <2>2 DEF Pipe!Live
    <2>3. QED
      BY <1>0, <2>1, <2>2, EnqueueObj
  <1>4. \A p \in Queues : step[p] \in {"stored", "storedAgain", "done", "doneAgain"} =>
            step'[p] = step[p] /\ Obj(p)' = Obj(p)
    BY <1>0, <1>1, EnqueueObj, ObjIsObj DEF OpInv
  <1>5. QED
    BY <1>0, <1>1, <1>3, <1>4, QueueTwice

LEMMA ReleaseTwice ==
    ASSUME IInv, NEW q \in Queues, Release(q)
    PROVE  TwiceInv'
  <1>0. TwiceInv /\ OpInv /\ TypeOK /\ PI /\ Pipe!TypeOK
    BY PipelineInv DEF IInv
  <1>1. /\ UNCHANGED <<queue, stored, claimed, rows, keyed, broken, late>>
        /\ step[q] = "done"
        /\ \A p \in Queues : step'[p] = IF p = q THEN "idle" ELSE step[p]
        /\ \A p \in Queues : stage'[p] = IF p = q THEN "released" ELSE stage[p]
    BY <1>0 DEF Release, Pipe!Release, Pipe!storeVars, Pipe!walkVars, At, EndContext, TypeOK,
                Pipe!TypeOK, storeVars, history
  <1>2. \A p \in Queues : \A i : Pipe!Live(p, i)' =>
            Pipe!Live(p, i) /\ (p = q => i # 1)
    BY <1>1 DEF Pipe!Live
  <1>3. UNCHANGED excused /\ \A p \in Queues : Obj(p)' = Obj(p)
    BY <1>1 DEF excused, Obj
  <1>4. ASSUME NEW p \in Queues, NEW i \in DOMAIN queue[p],
               Pipe!Live(p, i)', stored[queue[p][i]] = "settled"
        PROVE  queue[p][i] \in excused \/ (Pipe!Live(p, i) /\ step'[p] = step[p])
    BY <1>0, <1>1, <1>2, <1>4 DEF TwiceInv
  <1>5. QED
    BY <1>0, <1>1, <1>3, <1>4, QueueTwice

LEMMA RestartTwice ==
    ASSUME IInv, Restart
    PROVE  TwiceInv'
  <1>0. TwiceInv /\ OpInv /\ TypeOK /\ PI /\ Pipe!TypeOK
    BY PipelineInv DEF IInv
  <1>1. /\ UNCHANGED <<stored, rows, keyed, late>> /\ broken \subseteq broken'
        /\ \A t \in Threads : claimed'[t] = None
        /\ \A q \in Queues : queue'[q] = <<>> /\ step'[q] = "idle"
    BY <1>0 DEF Restart, Pipe!Restart, Pipe!TypeOK, storeVars
  <1>2. \A q \in Queues : step[q] = "stored" => Obj(q) \in broken'
    BY <1>0 DEF Restart, At, Pipe!Performing, OpInv
  <1>3. QED
    BY <1>0, <1>1, <1>2, QueueTwice

LEMMA TwiceStep == IInv /\ [Next]_vars => TwiceInv'
  <1> SUFFICES ASSUME IInv, [Next]_vars PROVE TwiceInv'
    OBVIOUS
  <1>0. TypeOK /\ PI /\ OpInv /\ TwiceInv /\ Pipe!TypeOK
    BY PipelineInv DEF IInv
  <1> USE <1>0
  <1> USE DEF ownVars, storeVars, history
  <1>1. ASSUME NEW t \in Threads, NEW o \in Objs, Send(t, o) PROVE TwiceInv'
    <2>1. \A u \in Objs : rows[u] > 0 \/ stored'[u] = "settled" => stored'[u] = stored[u]
      BY <1>1 DEF Send, Pipe!Create, Pipe!TypeOK, TwiceInv
    <2>2. QED
      BY <1>1, <2>1, FrameTwice DEF Send, Pipe!Create, Pipe!opVars, Pipe!walkVars
  <1>2. ASSUME NEW t \in Threads, Post(t) PROVE TwiceInv'
    BY <1>2, FrameTwice DEF Post, Pipe!NotifyObject, Pipe!storeVars, Pipe!opVars
  <1>3. ASSUME NEW t \in Threads, NEW s \in Senders, KeyArrives(t, s) PROVE TwiceInv'
    BY <1>3, FrameTwice DEF KeyArrives, Pipe!NotifyAll, Pipe!storeVars, Pipe!opVars
  <1>4. ASSUME NEW t \in Threads, Walk(t) PROVE TwiceInv'
    <2>1. ASSUME NEW o \in Objs, Pipe!Find(t, o), UNCHANGED ownVars PROVE TwiceInv'
      BY <2>1, FrameTwice DEF Pipe!Find, Pipe!storeVars, Pipe!opVars
    <2>2. QED
      BY <1>4, <2>1, ClaimTwice, EnqueueTwice DEF Walk
  <1>5. ASSUME NEW o \in Objs, Vanish(o) PROVE TwiceInv'
    <2>1. \A u \in Objs : stored'[u] = stored[u] \/ stored'[u] = "deleted"
      BY <1>5 DEF Vanish, Pipe!Delete, Pipe!TypeOK
    <2>2. QED
      BY <1>5, <2>1, FrameTwice DEF Vanish, Pipe!Delete, Pipe!opVars, Pipe!walkVars
  <1>6. ASSUME NEW q \in Queues, Operation(q) PROVE TwiceInv'
    <2>1. CASE Begin(q)
      <3>1. /\ UNCHANGED <<queue, stored, claimed, rows, keyed, broken, late>>
            /\ stage[q] = "idle"
            /\ \A p \in Queues : step'[p] = IF p = q THEN "start" ELSE step[p]
            /\ \A p \in Queues : stage'[p] = IF p = q THEN "performing" ELSE stage[p]
        BY <2>1 DEF Begin, Pipe!Begin, Step, TypeOK, Pipe!TypeOK, Pipe!storeVars,
                    Pipe!walkVars
      <3>2. step[q] = "idle"
        BY <3>1 DEF OpInv
      <3>3. QED
        BY <3>1, <3>2, FrameTwice DEF Unsettled
    <2>2. CASE BeginMissing(q)
      <3>1. stage[q] = "idle" /\ stage' = [stage EXCEPT ![q] = "idle"]
        BY <2>2 DEF BeginMissing, Pipe!BeginMissing, Pipe!TypeOK
      <3>2. QED
        BY <2>2, <3>1, PopTwice
           DEF BeginMissing, Pipe!BeginMissing, Pipe!storeVars, Pipe!walkVars, OpInv
    <2>3. CASE Return(q)
      <3>1. stage[q] = "released" /\ queue[q] # <<>> /\ step[q] = "idle"
        BY <2>3, ObjIsObj DEF Return, OpInv
      <3>2. QED
        BY <2>3, <3>1, PopTwice DEF Return, Pipe!Done, Pipe!storeVars, Pipe!walkVars
    <2>4. CASE Load(q) \/ RefuseKey(q) \/ FetchKey(q) \/ FailsAgain(q)
      <3>1. /\ UNCHANGED <<queue, stage, stored, claimed, rows, keyed, broken, late>>
            /\ \E s \in {"first", "second", "refused"} : step' = [step EXCEPT ![q] = s]
            /\ step[q] \in {"start", "first", "second"}
        BY <2>4 DEF Load, RefuseKey, NeedsKey, FetchKey, FailsAgain, GiveUp, At, Step,
                    pipeVars
      <3>2. \A p \in Queues : step'[p] = step[p] \/ {step[p], step'[p]} \subseteq Unsettled
        BY <3>1 DEF TypeOK, Unsettled
      <3>3. QED
        BY <3>1, <3>2, FrameTwice
    <2>5. ASSUME NEW r \in Rcpts, EncodeFor(q, r) \/ MakeSecret(q, r) PROVE TwiceInv'
      BY <2>5, FrameTwice DEF EncodeFor, MakeSecret, pipeVars
    <2>6. CASE Again(q) \/ Abandon(q) \/ Fails(q) \/ FailsRefused(q)
      BY <2>6, RetryTwice DEF Again, Abandon, Fails, FailsRefused, At
    <2>7. QED
      BY <1>6, <2>1, <2>2, <2>3, <2>4, <2>5, <2>6, StoreTwice, FinishTwice, FinishLateTwice,
         ReleaseTwice
         DEF Operation
  <1>7. CASE UNCHANGED vars
    BY <1>7, FrameTwice DEF vars, pipeVars
  <1>8. QED
    BY <1>1, <1>2, <1>3, <1>4, <1>5, <1>6, <1>7, RestartTwice DEF Next

-----------------------------------------------------------------------------
(* What is deleted or encoded has its row.                                 *)

LEMMA FrameSent ==
    ASSUME SentInv, TypeOK, UNCHANGED spent, refused \subseteq refused',
           \A o \in Objs : rows[o] > 0 => rows'[o] > 0,
           \A o \in Objs : stored'[o] = "settled" => stored[o] = "settled",
           \A q \in Queues :
               step'[q] \in {"stored", "storedAgain", "refused", "unsent"} =>
                   step'[q] = step[q] /\ Obj(q)' = Obj(q) /\ Obj(q) \in Objs
    PROVE  SentInv'
  <1>1. DeletedWasSent'
    BY DEF SentInv, DeletedWasSent, TypeOK
  <1>2. SettledWasEncoded'
    BY DEF SentInv, SettledWasEncoded
  <1>3. ASSUME NEW q \in Queues
        PROVE  /\ step'[q] \in {"stored", "storedAgain"} => rows'[Obj(q)'] > 0
               /\ step'[q] \in {"refused", "unsent"} => Obj(q)' \in refused'
    BY DEF SentInv
  <1>4. QED
    BY <1>1, <1>2, <1>3 DEF SentInv

(* What an operation does to its object, when the queues stay as they are. *)
LEMMA OwnSent ==
    ASSUME SentInv, TypeOK, UNCHANGED queue, NEW q \in Queues, Obj(q) \in Objs,
           \A p \in Queues : p # q => step'[p] = step[p],
           spent' \subseteq spent \cup {Obj(q)}, refused \subseteq refused',
           \A o \in Objs : rows[o] > 0 => rows'[o] > 0,
           \A o \in Objs : stored'[o] = "settled" => stored[o] = "settled" \/ o = Obj(q),
           \/ rows'[Obj(q)] > 0
           \/ /\ Obj(q) \in refused' /\ step'[q] \notin {"stored", "storedAgain"}
              /\ stored'[Obj(q)] = "settled" => stored[Obj(q)] = "settled",
           step'[q] \in {"refused", "unsent"} => Obj(q) \in refused',
           \A p \in Queues : step[p] # "idle" => Obj(p) \in Objs
    PROVE  SentInv'
  <1>1. DeletedWasSent'
    BY DEF SentInv, DeletedWasSent, TypeOK
  <1>2. SettledWasEncoded'
    BY DEF SentInv, SettledWasEncoded
  <1>3. ASSUME NEW p \in Queues
        PROVE  /\ step'[p] \in {"stored", "storedAgain"} => rows'[Obj(p)'] > 0
               /\ step'[p] \in {"refused", "unsent"} => Obj(p)' \in refused'
    <2>1. Obj(p)' = Obj(p)
      BY DEF Obj
    <2>2. QED
      BY <2>1 DEF SentInv
  <1>4. QED
    BY <1>1, <1>2, <1>3 DEF SentInv

LEMMA SentStep == IInv /\ [Next]_vars => SentInv'
  <1> SUFFICES ASSUME IInv, [Next]_vars PROVE SentInv'
    OBVIOUS
  <1>0. /\ TypeOK /\ PI /\ OpInv /\ SentInv /\ Pipe!TypeOK
        /\ \A q \in Queues : step[q] # "idle" =>
               Obj(q) \in Objs /\ queue[q] # <<>> /\ stage[q] = "performing"
    BY PipelineInv, ObjIsObj DEF IInv, OpInv
  <1> USE <1>0
  <1> USE DEF ownVars, storeVars, history
  <1>01. UNCHANGED queue => \A q \in Queues : Obj(q)' = Obj(q)
    BY DEF Obj
  <1>1. ASSUME NEW t \in Threads, NEW o \in Objs, Send(t, o) PROVE SentInv'
    <2>1. \A u \in Objs : stored'[u] = "settled" => stored[u] = "settled"
      BY <1>1 DEF Send, Pipe!Create, Pipe!TypeOK
    <2>2. QED
      BY <1>1, <1>01, <2>1, FrameSent DEF Send, Pipe!Create, Pipe!opVars
  <1>2. ASSUME NEW t \in Threads, Post(t) PROVE SentInv'
    BY <1>2, <1>01, FrameSent DEF Post, Pipe!NotifyObject, Pipe!storeVars, Pipe!opVars
  <1>3. ASSUME NEW t \in Threads, NEW s \in Senders, KeyArrives(t, s) PROVE SentInv'
    BY <1>3, <1>01, FrameSent DEF KeyArrives, Pipe!NotifyAll, Pipe!storeVars, Pipe!opVars
  <1>4. ASSUME NEW t \in Threads, Walk(t) PROVE SentInv'
    <2>1. ASSUME NEW o \in Objs, Pipe!Find(t, o), UNCHANGED ownVars PROVE SentInv'
      BY <2>1, <1>01, FrameSent DEF Pipe!Find, Pipe!storeVars, Pipe!opVars
    <2>2. CASE Claim(t)
      BY <2>2, <1>01, FrameSent DEF Claim, Pipe!Claim, Pipe!storeVars, Pipe!opVars
    <2>3. ASSUME NEW q \in Queues, Pipe!Enqueue(t, q), UNCHANGED ownVars PROVE SentInv'
      <3>1. \A p \in Queues : step[p] # "idle" => Obj(p)' = Obj(p)
        BY <2>3, EnqueueObj
      <3>2. QED
        BY <2>3, <3>1, FrameSent DEF Pipe!Enqueue, Pipe!storeVars
    <2>4. QED
      BY <1>4, <2>1, <2>2, <2>3 DEF Walk
  <1>5. ASSUME NEW o \in Objs, Vanish(o) PROVE SentInv'
    <2>1. \A u \in Objs : stored'[u] = "settled" => stored[u] = "settled"
      BY <1>5 DEF Vanish, Pipe!Delete, Pipe!TypeOK
    <2>2. QED
      BY <1>5, <1>01, <2>1, FrameSent DEF Vanish, Pipe!Delete, Pipe!opVars
  <1>6. ASSUME NEW q \in Queues, Operation(q) PROVE SentInv'
    <2>1. CASE Begin(q)
      <3>1. /\ UNCHANGED <<queue, stored, rows, spent, refused>>
            /\ \A p \in Queues : step'[p] = IF p = q THEN "start" ELSE step[p]
        BY <2>1 DEF Begin, Pipe!Begin, Step, TypeOK, Pipe!storeVars
      <3>2. QED
        BY <3>1, <1>01, FrameSent
    <2>2. CASE BeginMissing(q) \/ Return(q)
      <3>1. /\ UNCHANGED <<stored, step, rows, spent, refused>>
            /\ step[q] = "idle"
            /\ \A p \in Queues : p # q => queue'[p] = queue[p]
        BY <2>2 DEF BeginMissing, Pipe!BeginMissing, Return, Pipe!Done, Pipe!storeVars,
                    Pipe!TypeOK
      <3>2. QED
        BY <3>1, FrameSent DEF Obj
    <2>3. CASE Load(q) \/ FetchKey(q)
      <3>1. /\ UNCHANGED <<queue, stored, rows, spent, refused>>
            /\ \E s \in {"first", "second"} : step' = [step EXCEPT ![q] = s]
        BY <2>3 DEF Load, FetchKey, Step, pipeVars
      <3>2. QED
        BY <3>1, <1>01, FrameSent DEF TypeOK
    <2>4. ASSUME NEW r \in Rcpts, EncodeFor(q, r) \/ MakeSecret(q, r) PROVE SentInv'
      BY <2>4, <1>01, FrameSent DEF EncodeFor, MakeSecret, pipeVars
    <2>5. CASE RefuseKey(q) \/ FailsAgain(q)
      <3>1. /\ UNCHANGED <<queue, stored, rows, spent>>
            /\ step[q] # "idle"
            /\ step' = [step EXCEPT ![q] = "refused"]
            /\ refused' = refused \cup {Obj(q)}
        BY <2>5 DEF RefuseKey, NeedsKey, FailsAgain, GiveUp, At, Step, pipeVars
      <3>2. \A p \in Queues : step'[p] = IF p = q THEN "refused" ELSE step[p]
        BY <3>1 DEF TypeOK
      <3>3. QED
        BY <3>1, <3>2, OwnSent
    <2>6. CASE Store(q)
      <3>1. /\ UNCHANGED <<queue, stored, spent, refused>>
            /\ step[q] # "idle"
            /\ \A o \in Objs : rows'[o] = IF o = Obj(q) THEN rows[o] + 1 ELSE rows[o]
            /\ \A p \in Queues : p # q => step'[p] = step[p]
            /\ step'[q] \notin {"refused", "unsent"}
        BY <2>6 DEF Store, AddRow, At, Step, pipeVars, TypeOK
      <3>2. rows'[Obj(q)] > 0 /\ \A o \in Objs : rows[o] > 0 => rows'[o] > 0
        <4>1. Obj(q) \in Objs /\ \A o \in Objs : rows[o] \in Nat
          BY <3>1 DEF TypeOK
        <4>2. QED
          BY <3>1, <4>1
      <3>3. QED
        BY <3>1, <3>2, OwnSent
    <2>7. CASE Finish(q)
      <3>1. /\ UNCHANGED <<queue, rows, refused>>
            /\ step[q] \in {"stored", "storedAgain", "refused"}
            /\ spent' \subseteq spent \cup {Obj(q)}
            /\ \A p \in Queues : p # q => step'[p] = step[p]
            /\ step'[q] \in {"done", "doneAgain", "unsent"}
            /\ step'[q] = "unsent" => step[q] = "refused"
        BY <2>7 DEF Finish, At, Pipe!Delete, Pipe!Settle, Pipe!opVars, pipeVars, Step,
                    Outcome, TypeOK
      <3>2. /\ \A o \in Objs : o # Obj(q) => stored'[o] = stored[o]
            /\ step[q] = "refused" /\ stored'[Obj(q)] = "settled" =>
                  stored[Obj(q)] = "settled"
        BY <2>7, <3>1
           DEF Finish, Pipe!Delete, Pipe!Settle, pipeVars, Obj, Pipe!TypeOK
      <3>3. /\ rows[Obj(q)] > 0 \/ (step[q] = "refused" /\ Obj(q) \in refused)
            /\ step'[q] = "unsent" => Obj(q) \in refused
        BY <3>1 DEF SentInv
      <3>4. QED
        BY <3>1, <3>2, <3>3, OwnSent
    <2>8. CASE Release(q)
      <3>1. /\ UNCHANGED <<queue, stored, rows, spent, refused>>
            /\ step' = [step EXCEPT ![q] = "idle"]
        BY <2>8 DEF Release, Pipe!Release, Pipe!storeVars, EndContext
      <3>2. QED
        BY <3>1, <1>01, FrameSent DEF TypeOK
    <2>9. CASE Again(q) \/ Abandon(q) \/ Fails(q) \/ FailsRefused(q)
      <3>1. /\ \E n : Retry(q, n)
            /\ UNCHANGED <<rows, spent, refused>>
        BY <2>9 DEF Again, Abandon, Fails, FailsRefused
      <3>2. UNCHANGED stored
        BY <3>1 DEF Retry, Pipe!Fail, Pipe!storeVars
      <3>3. \A p \in Queues : step'[p] # "idle" => step'[p] = step[p] /\ Obj(p)' = Obj(p)
        BY <3>1, RetryLive
      <3>4. QED
        BY <3>1, <3>2, <3>3, FrameSent
    <2>10. CASE FinishLate(q)
      <3>1. /\ UNCHANGED <<queue, refused>>
            /\ step[q] = "refused" /\ Obj(q) \in refused
            /\ spent' \subseteq spent \cup {Obj(q)}
            /\ \A p \in Queues : p # q => step'[p] = step[p]
            /\ step'[q] = "unsent"
            /\ \A o \in Objs : rows'[o] = IF o = Obj(q) THEN rows[o] + 1 ELSE rows[o]
        BY <2>10 DEF FinishLate, HasUnsavedRow, AddRow, Pipe!Delete, Pipe!opVars, pipeVars,
                     Step, SentInv, TypeOK
      <3>2. \A o \in Objs : stored'[o] = stored[o] \/ stored'[o] = "deleted"
        BY <2>10 DEF FinishLate, Pipe!Delete, pipeVars, Pipe!TypeOK
      <3>3. rows'[Obj(q)] > 0 /\ \A o \in Objs : rows[o] > 0 => rows'[o] > 0
        <4>1. Obj(q) \in Objs /\ \A o \in Objs : rows[o] \in Nat
          BY <3>1 DEF TypeOK
        <4>2. QED
          BY <3>1, <4>1
      <3>4. QED
        BY <3>1, <3>2, <3>3, OwnSent
    <2>11. QED
      BY <1>6, <2>1, <2>2, <2>3, <2>4, <2>5, <2>6, <2>7, <2>8, <2>9, <2>10 DEF Operation
  <1>7. CASE Restart
    <2>1. \A q \in Queues : step'[q] = "idle"
      BY <1>7 DEF Restart
    <2>2. \A o \in Objs : stored'[o] = stored[o]
      BY <1>7 DEF Restart, Pipe!Restart
    <2>3. QED
      BY <1>7, <2>1, <2>2, FrameSent DEF Restart
  <1>8. CASE UNCHANGED vars
    BY <1>8, <1>01, FrameSent DEF vars, pipeVars
  <1>9. QED
    BY <1>1, <1>2, <1>3, <1>4, <1>5, <1>6, <1>7, <1>8 DEF Next

-----------------------------------------------------------------------------
(* The numbers of the rows.                                                *)

(* Steps that neither assign nor save a number.                            *)
LEMMA FrameNumber ==
    ASSUME NumberInv, TypeOK, UNCHANGED <<number, raced, used, repeated>>,
           \A q \in Queues :
              \/ /\ Assigned(q)' \subseteq Assigned(q)
                 /\ base'[q] = base[q] /\ ctx'[q] = ctx[q]
              \/ /\ Assigned(q)' = {}
                 /\ \A r \in Rcpts : base'[q][r] = ctx'[q][r] /\ ctx'[q][r] \in 0..number[r]
    PROVE  NumberInv'
  <1> USE DEF NumberInv
  <1>1. NumbersUniqueUnlessRaced'
    BY DEF NumbersUniqueUnlessRaced
  <1>2. ASSUME NEW q \in Queues, NEW r \in Rcpts
        PROVE  /\ base'[q][r] <= ctx'[q][r]
               /\ r \in Assigned(q)' => ctx'[q][r] > 0
    <2>1. CASE /\ Assigned(q)' \subseteq Assigned(q)
               /\ base'[q] = base[q] /\ ctx'[q] = ctx[q]
      BY <2>1
    <2>2. CASE /\ Assigned(q)' = {}
               /\ base'[q][r] = ctx'[q][r] /\ ctx'[q][r] \in 0..number[r]
      BY <2>2 DEF TypeOK
    <2>3. QED
      BY <2>1, <2>2
  <1>3. ASSUME NEW r \in Rcpts \ raced, NEW q \in Queues
        PROVE  base'[q][r] <= number[r]
    OBVIOUS
  <1>4. \A q \in Queues, r \in Rcpts : r \in Assigned(q)' =>
            r \in Assigned(q) /\ ctx'[q] = ctx[q] /\ (Unsaved(q, r)' <=> Unsaved(q, r))
    BY DEF Unsaved
  <1>5. QED
    BY <1>1, <1>2, <1>3, <1>4

(* What a save of the numbers tells of those not overwritten.              *)
SavedAt(q, r) ==
    /\ r \notin raced /\ number[r] \in Nat /\ number'[r] \in Nat
    /\ number[r] <= number'[r]
    /\ base'[q][r] = ctx[q][r] /\ ctx[q][r] <= number'[r]
    /\ \A p \in Queues : p # q => base'[p] = base[p] /\ base[p][r] <= number[r]
    /\ \A n \in Nat : <<r, n>> \in used => n < number[r]
    /\ r \in Assigned(q) => <<r, ctx[q][r] - 1>> \notin used
    /\ \A p \in Queues :
          p # q /\ r \in Assigned(p) \cap Assigned(q) /\ ~Unsaved(p, r)
          => ctx[p][r] # ctx[q][r]
LEMMA SaveFacts ==
    ASSUME NumberInv, TypeOK, NEW q \in Queues, Save(q), NEW r \in Rcpts \ raced'
    PROVE  SavedAt(q, r)
  <1>1. /\ r \notin raced
        /\ base'[q][r] = ctx[q][r] /\ \A p \in Queues : p # q => base'[p] = base[p]
        /\ Unsaved(q, r) => number[r] = base[q][r] /\ number'[r] = ctx[q][r]
        /\ ~Unsaved(q, r) => number'[r] = number[r]
    BY DEF Save, Dirty, Unsaved, TypeOK
  <1>2. /\ number[r] \in Nat
        /\ \A p \in Queues : base[p][r] \in Nat /\ ctx[p][r] \in Nat
    BY DEF TypeOK
  <1>3. /\ base[q][r] <= ctx[q][r]
        /\ \A p \in Queues : base[p][r] <= number[r]
        /\ \A n \in Nat : <<r, n>> \in used => n < number[r]
    BY <1>1 DEF NumberInv
  <1>4. ASSUME r \in Assigned(q) PROVE <<r, ctx[q][r] - 1>> \notin used
    <2>1. CASE Unsaved(q, r)
      <3>1. number[r] <= ctx[q][r] - 1 /\ ctx[q][r] - 1 \in Nat
        BY <1>1, <1>2, <1>3, <2>1 DEF Unsaved
      <3>2. QED
        BY <1>2, <1>3, <3>1
    <2>2. CASE ~Unsaved(q, r)
      BY <1>1, <1>4, <2>2 DEF NumberInv
    <2>3. QED
      BY <2>1, <2>2
  <1>5. ASSUME NEW p \in Queues, p # q, r \in Assigned(p) \cap Assigned(q), ~Unsaved(p, r)
        PROVE  ctx[p][r] # ctx[q][r]
    <2>1. CASE Unsaved(q, r)
      BY <1>1, <1>2, <1>3, <1>5, <2>1 DEF Unsaved
    <2>2. CASE ~Unsaved(q, r)
      BY <1>1, <1>5, <2>2 DEF NumberInv
    <2>3. QED
      BY <2>1, <2>2
  <1>6. number[r] <= number'[r] /\ ctx[q][r] <= number'[r] /\ number'[r] \in Nat
    BY <1>1, <1>2, <1>3 DEF Unsaved
  <1>7. QED
    BY <1>1, <1>2, <1>3, <1>4, <1>5, <1>6 DEF SavedAt

(* The numbers are saved and the attempt ends, perhaps with a row.         *)
LEMMA SaveNumber ==
    ASSUME NumberInv, TypeOK, NEW q \in Queues, Save(q), UNCHANGED ctx,
           Assigned(q) \subseteq Rcpts, Assigned(q)' = {},
           \A p \in Queues : p # q => Assigned(p)' = Assigned(p),
           \/ UNCHANGED <<used, repeated>>
           \/ /\ used' = used \cup {<<r, ctx[q][r] - 1>> : r \in Assigned(q)}
              /\ repeated' = repeated \cup
                    {r \in Assigned(q) : <<r, ctx[q][r] - 1>> \in used}
    PROVE  NumberInv'
  <1>s. \A r \in Rcpts \ raced' : SavedAt(q, r)
    BY SaveFacts
  <1>0. /\ raced \subseteq raced'
        /\ \A p \in Queues, r \in Rcpts : ctx[p][r] \in Nat
        /\ base'[q] = ctx[q] /\ \A p \in Queues : p # q => base'[p] = base[p]
    BY DEF Save, TypeOK
  <1>1. NumbersUniqueUnlessRaced'
    <2>1. ASSUME NEW r \in Assigned(q), <<r, ctx[q][r] - 1>> \in used PROVE r \in raced'
      BY <2>1, <1>s DEF SavedAt
    <2>2. repeated \subseteq raced'
      BY <1>0 DEF NumberInv, NumbersUniqueUnlessRaced
    <2>3. QED
      BY <2>1, <2>2 DEF NumbersUniqueUnlessRaced
  <1>2. ASSUME NEW p \in Queues, NEW r \in Rcpts
        PROVE  /\ base'[p][r] <= ctx'[p][r]
               /\ r \in Assigned(p)' => ctx'[p][r] > 0
    BY <1>0 DEF NumberInv
  <1>3. ASSUME NEW r \in Rcpts \ raced', NEW n \in Nat, <<r, n>> \in used'
        PROVE  n < number'[r]
    <2>0. /\ number[r] \in Nat /\ number'[r] \in Nat /\ number[r] <= number'[r]
          /\ ctx[q][r] \in Nat /\ ctx[q][r] <= number'[r]
          /\ <<r, n>> \in used => n < number[r]
      BY <1>0, <1>s DEF SavedAt
    <2>1. CASE <<r, n>> \in used
      BY <2>0, <2>1
    <2>2. CASE r \in Assigned(q) /\ n = ctx[q][r] - 1
      BY <2>0, <2>2
    <2>3. QED
      BY <1>3, <2>1, <2>2
  <1>4. ASSUME NEW r \in Rcpts \ raced', NEW p \in Queues
        PROVE  base'[p][r] <= number'[r]
    <2>1. CASE p = q
      BY <2>1, <1>s DEF SavedAt
    <2>2. CASE p # q
      <3>1. /\ number[r] \in Nat /\ number'[r] \in Nat /\ number[r] <= number'[r]
            /\ base'[p] = base[p] /\ base[p][r] <= number[r]
        BY <2>2, <1>s DEF SavedAt
      <3>2. base[p][r] \in Nat
        BY DEF TypeOK
      <3>3. QED
        BY <3>1, <3>2
    <2>3. QED
      BY <2>1, <2>2
  <1>5. ASSUME NEW r \in Rcpts \ raced', NEW p \in Queues,
               r \in Assigned(p)', ~Unsaved(p, r)'
        PROVE  <<r, ctx'[p][r] - 1>> \notin used'
    <2>1. p # q /\ r \in Assigned(p) /\ ~Unsaved(p, r) /\ r \notin raced
      BY <1>0, <1>5 DEF Unsaved
    <2>2. <<r, ctx[p][r] - 1>> \notin used
      BY <2>1 DEF NumberInv
    <2>3. r \in Assigned(q) => ctx[p][r] # ctx[q][r]
      BY <2>1, <1>s DEF SavedAt
    <2>4. r \in Assigned(q) => ctx[p][r] - 1 # ctx[q][r] - 1
      BY <1>0, <2>3
    <2>5. QED
      BY <2>2, <2>4
  <1>6. ASSUME NEW r \in Rcpts \ raced', NEW p \in Queues, NEW u \in Queues,
               p # u, r \in Assigned(p)' \cap Assigned(u)', ~Unsaved(p, r)', ~Unsaved(u, r)'
        PROVE  ctx'[p][r] # ctx'[u][r]
    <2>1. /\ p # q /\ u # q /\ r \in Assigned(p) \cap Assigned(u) /\ r \notin raced
          /\ ~Unsaved(p, r) /\ ~Unsaved(u, r)
      BY <1>0, <1>6 DEF Unsaved
    <2>2. QED
      BY <1>6, <2>1 DEF NumberInv
  <1>7. QED
    BY <1>1, <1>2, <1>3, <1>4, <1>5, <1>6 DEF NumberInv

(* A recipient is given its number, which is not saved yet; the others may *)
(* just have been saved.                                                   *)
LEMMA AssignNumber ==
    ASSUME NumberInv, TypeOK, NEW q \in Queues, NEW r \in Rcpts, Assign(q, r),
           UNCHANGED <<used, repeated>>,
           Assigned(q)' \subseteq Assigned(q) \cup {r},
           \A p \in Queues : p # q => Assigned(p)' = Assigned(p),
           Save(q) \/ UNCHANGED <<number, raced, base>>
    PROVE  NumberInv'
  <1>0. /\ raced \subseteq raced'
        /\ \A p \in Queues, s \in Rcpts : ctx[p][s] \in Nat /\ base[p][s] \in Nat
        /\ \A p \in Queues : p # q => base'[p] = base[p] /\ ctx'[p] = ctx[p]
        /\ \A s \in Rcpts : ctx'[q][s] = IF s = r THEN ctx[q][s] + 1 ELSE ctx[q][s]
        /\ base'[q] = base[q] \/ base'[q] = ctx[q]
    BY DEF Save, TypeOK, Assign
  <1>1. NumbersUniqueUnlessRaced'
    BY <1>0 DEF NumberInv, NumbersUniqueUnlessRaced
  <1>2. ASSUME NEW p \in Queues, NEW s \in Rcpts
        PROVE  /\ base'[p][s] <= ctx'[p][s]
               /\ s \in Assigned(p)' => ctx'[p][s] > 0
    <2>1. CASE p = q
      <3>1. base'[q][s] = base[q][s] \/ base'[q][s] = ctx[q][s]
        BY <1>0
      <3>2. QED
        BY <1>0, <2>1, <3>1 DEF NumberInv
    <2>2. CASE p # q
      BY <1>0, <2>2 DEF NumberInv
    <2>3. QED
      BY <2>1, <2>2
  <1>3. Unsaved(q, r)'
    <2>1. base'[q][r] <= ctx[q][r] /\ base'[q][r] \in Nat
      BY <1>0 DEF NumberInv
    <2>2. QED
      BY <1>0, <2>1 DEF Unsaved
  <1>4. CASE UNCHANGED <<number, raced, base>>
    <2>1. \A p \in Queues, s \in Rcpts : s \in Assigned(p)' /\ ~Unsaved(p, s)' =>
              s \in Assigned(p) /\ ~Unsaved(p, s) /\ ctx'[p][s] = ctx[p][s]
      BY <1>0, <1>3, <1>4 DEF Unsaved
    <2>2. QED
      BY <1>1, <1>2, <1>4, <2>1 DEF NumberInv
  <1>5. CASE Save(q)
    <2>s. \A s \in Rcpts \ raced' : SavedAt(q, s)
      BY <1>5, SaveFacts
    <2>1. \A p \in Queues, s \in Rcpts : s \in Assigned(p)' /\ ~Unsaved(p, s)' =>
              s \in Assigned(p) /\ (p # q => ~Unsaved(p, s)) /\ ctx'[p][s] = ctx[p][s]
      BY <1>0, <1>3 DEF Unsaved
    <2>2. ASSUME NEW s \in Rcpts \ raced'
          PROVE  /\ s \notin raced
                 /\ \A n \in Nat : <<s, n>> \in used => n < number'[s]
                 /\ \A p \in Queues : base'[p][s] <= number'[s]
                 /\ s \in Assigned(q) => <<s, ctx[q][s] - 1>> \notin used
      <3>1. /\ s \notin raced /\ number[s] \in Nat /\ number'[s] \in Nat
            /\ number[s] <= number'[s]
            /\ \A n \in Nat : <<s, n>> \in used => n < number[s]
            /\ s \in Assigned(q) => <<s, ctx[q][s] - 1>> \notin used
        BY <2>s DEF SavedAt
      <3>2. ASSUME NEW p \in Queues PROVE base'[p][s] <= number'[s]
        <4>1. CASE p = q
          BY <2>s, <4>1 DEF SavedAt
        <4>2. CASE p # q
          <5>1. base'[p] = base[p] /\ base[p][s] <= number[s]
            BY <2>s, <4>2 DEF SavedAt
          <5>2. QED
            BY <1>0, <3>1, <5>1
        <4>3. QED
          BY <4>1, <4>2
      <3>3. ASSUME NEW n \in Nat, <<s, n>> \in used PROVE n < number'[s]
        <4>1. n < number[s]
          BY <3>1, <3>3
        <4>2. QED
          BY <3>1, <4>1
      <3>4. QED
        BY <3>1, <3>2, <3>3
    <2>3. ASSUME NEW s \in Rcpts \ raced', NEW p \in Queues,
                 s \in Assigned(p)', ~Unsaved(p, s)'
          PROVE  <<s, ctx'[p][s] - 1>> \notin used
      <3>1. CASE p = q
        BY <2>1, <2>2, <2>3, <3>1
      <3>2. CASE p # q
        BY <2>1, <2>2, <2>3, <3>2 DEF NumberInv
      <3>3. QED
        BY <3>1, <3>2
    <2>4. ASSUME NEW s \in Rcpts \ raced', NEW p \in Queues, p # q,
                 s \in Assigned(p) \cap Assigned(q), ~Unsaved(p, s)
          PROVE  ctx[p][s] # ctx[q][s]
      BY <1>5, <2>4, <2>s DEF SavedAt
    <2>5. ASSUME NEW s \in Rcpts \ raced', NEW p \in Queues, NEW u \in Queues,
                 p # u, s \in Assigned(p)' \cap Assigned(u)',
                 ~Unsaved(p, s)', ~Unsaved(u, s)'
          PROVE  ctx'[p][s] # ctx'[u][s]
      <3>1. /\ s \in Assigned(p) \cap Assigned(u)
            /\ ctx'[p][s] = ctx[p][s] /\ ctx'[u][s] = ctx[u][s]
            /\ p # q => ~Unsaved(p, s)
            /\ u # q => ~Unsaved(u, s)
        BY <2>1, <2>5
      <3>2. CASE p = q \/ u = q
        BY <2>4, <2>5, <3>1, <3>2
      <3>3. CASE p # q /\ u # q
        BY <2>2, <2>5, <3>1, <3>3 DEF NumberInv
      <3>4. QED
        BY <3>2, <3>3
    <2>6. QED
      BY <1>1, <1>2, <2>2, <2>3, <2>5 DEF NumberInv
  <1>6. QED
    BY <1>4, <1>5

LEMMA NumberStep == IInv /\ [Next]_vars => NumberInv'
  <1> SUFFICES ASSUME IInv, [Next]_vars PROVE NumberInv'
    OBVIOUS
  <1>0. /\ TypeOK /\ PI /\ OpInv /\ NumberInv /\ Pipe!TypeOK
        /\ \A q \in Queues : step[q] # "idle" => Obj(q) \in Objs /\ queue[q] # <<>>
        /\ \A q \in Queues : Assigned(q) \subseteq Rcpts
    BY PipelineInv, ObjIsObj, EncodeAssumption DEF IInv, OpInv, Assigned
  <1> USE <1>0
  <1> USE DEF ownVars, ctxVars, numberVars, storeVars
  <1>01. \A q \in Queues : /\ step'[q] = step[q] /\ left'[q] = left[q]
                           /\ step[q] # "idle" => Obj(q)' = Obj(q)
                           => Assigned(q)' = Assigned(q)
    BY DEF Assigned
  <1>02. UNCHANGED queue => \A q \in Queues : Obj(q)' = Obj(q)
    BY DEF Obj
  <1>03. \A q \in Queues :
            step'[q] \notin {"first", "second", "refused"} => Assigned(q)' = {}
    BY DEF Assigned
  <1>1. ASSUME NEW t \in Threads, NEW o \in Objs, Send(t, o) PROVE NumberInv'
    BY <1>1, <1>01, <1>02, FrameNumber DEF Send, Pipe!Create, Pipe!opVars
  <1>2. ASSUME NEW t \in Threads, Post(t) PROVE NumberInv'
    BY <1>2, <1>01, <1>02, FrameNumber DEF Post, Pipe!NotifyObject, Pipe!opVars
  <1>3. ASSUME NEW t \in Threads, NEW s \in Senders, KeyArrives(t, s) PROVE NumberInv'
    BY <1>3, <1>01, <1>02, FrameNumber DEF KeyArrives, Pipe!NotifyAll, Pipe!opVars
  <1>4. ASSUME NEW t \in Threads, Walk(t) PROVE NumberInv'
    <2>1. ASSUME NEW o \in Objs, Pipe!Find(t, o), UNCHANGED ownVars PROVE NumberInv'
      BY <2>1, <1>01, <1>02, FrameNumber DEF Pipe!Find, Pipe!opVars
    <2>2. CASE Claim(t)
      BY <2>2, <1>01, <1>02, FrameNumber DEF Claim, Pipe!Claim, Pipe!opVars
    <2>3. ASSUME NEW q \in Queues, Pipe!Enqueue(t, q), UNCHANGED ownVars PROVE NumberInv'
      <3>1. \A p \in Queues : step[p] # "idle" => Obj(p)' = Obj(p)
        BY <2>3, EnqueueObj
      <3>2. QED
        BY <2>3, <3>1, <1>01, FrameNumber
    <2>4. QED
      BY <1>4, <2>1, <2>2, <2>3 DEF Walk
  <1>5. ASSUME NEW o \in Objs, Vanish(o) PROVE NumberInv'
    BY <1>5, <1>01, <1>02, FrameNumber DEF Vanish, Pipe!Delete, Pipe!opVars
  <1>6. ASSUME NEW q \in Queues, Operation(q) PROVE NumberInv'
    <2>1. ASSUME EndContext(q), UNCHANGED <<number, raced, used, repeated>>,
                 \A p \in Queues : p # q /\ step[p] # "idle" => Obj(p)' = Obj(p)
          PROVE  NumberInv'
      <3>1. /\ \A p \in Queues : p # q => /\ step'[p] = step[p] /\ left'[p] = left[p]
                                          /\ base'[p] = base[p] /\ ctx'[p] = ctx[p]
            /\ step'[q] = "idle" /\ base'[q] = Zero /\ ctx'[q] = Zero
        BY <2>1 DEF EndContext, TypeOK
      <3>2. \A r \in Rcpts : base'[q][r] = ctx'[q][r] /\ ctx'[q][r] \in 0..number[r]
        BY <3>1 DEF Zero, TypeOK
      <3>3. QED
        BY <2>1, <3>1, <3>2, <1>01, <1>03, FrameNumber
    <2>2. CASE Begin(q) \/ BeginMissing(q) \/ Return(q)
      <3>1. /\ UNCHANGED <<left, base, ctx, number, raced, used, repeated>>
            /\ step[q] = "idle" /\ step'[q] \notin {"first", "second", "refused"}
            /\ \A p \in Queues : p # q => step'[p] = step[p] /\ queue'[p] = queue[p]
        BY <2>2 DEF Begin, Pipe!Begin, BeginMissing, Pipe!BeginMissing, Return, Pipe!Done,
                    OpInv, Step, TypeOK, Pipe!TypeOK
      <3>2. \A p \in Queues : p # q => Obj(p)' = Obj(p)
        BY <3>1 DEF Obj
      <3>3. QED
        BY <3>1, <3>2, <1>01, <1>03, FrameNumber
    <2>3. CASE Load(q)
      <3>1. /\ UNCHANGED <<queue, number, raced, used, repeated>>
            /\ \A p \in Queues : p # q => /\ step'[p] = step[p] /\ left'[p] = left[p]
                                          /\ base'[p] = base[p] /\ ctx'[p] = ctx[p]
            /\ left'[q] = RcptsOf[Obj(q)] /\ base'[q] = number /\ ctx'[q] = number
        BY <2>3 DEF Load, Step, TypeOK, pipeVars
      <3>2. Assigned(q)' = {}
        BY <3>1, <1>02 DEF Assigned
      <3>3. \A r \in Rcpts : base'[q][r] = ctx'[q][r] /\ ctx'[q][r] \in 0..number[r]
        BY <3>1 DEF TypeOK
      <3>4. QED
        BY <3>1, <3>2, <3>3, <1>01, <1>02, FrameNumber
    <2>4. ASSUME NEW r \in Rcpts, EncodeFor(q, r) \/ MakeSecret(q, r) PROVE NumberInv'
      <3>1. /\ UNCHANGED <<queue, step, used, repeated>>
            /\ Assign(q, r) /\ (Save(q) \/ UNCHANGED <<number, raced, base>>)
            /\ step[q] \in {"first", "second"} /\ r \in left[q]
        BY <2>4 DEF EncodeFor, MakeSecret, At, pipeVars
      <3>2. \A p \in Queues : left'[p] = IF p = q THEN left[q] \ {r} ELSE left[p]
        BY <3>1 DEF Assign, TypeOK
      <3>3. Assigned(q)' \subseteq Assigned(q) \cup {r}
        BY <3>1, <3>2, <1>02 DEF Assigned
      <3>4. \A p \in Queues : p # q => Assigned(p)' = Assigned(p)
        BY <3>1, <3>2, <1>01, <1>02
      <3>5. QED
        BY <3>1, <3>3, <3>4, AssignNumber
    <2>5. CASE FetchKey(q)
      <3>1. /\ UNCHANGED <<queue, ctx, used, repeated>> /\ Save(q)
            /\ \A p \in Queues : p # q => step'[p] = step[p] /\ left'[p] = left[p]
            /\ left'[q] = RcptsOf[Obj(q)]
        BY <2>5 DEF FetchKey, Step, TypeOK, pipeVars
      <3>2. Assigned(q)' = {}
        BY <3>1, <1>02 DEF Assigned
      <3>3. QED
        BY <3>1, <3>2, <1>01, <1>02, SaveNumber
    <2>6. CASE RefuseKey(q) \/ FailsAgain(q)
      <3>1. /\ UNCHANGED <<queue, left, base, ctx, number, raced, used, repeated>>
            /\ \A p \in Queues : p # q => step'[p] = step[p]
            /\ step[q] \in {"first", "second"}
        BY <2>6 DEF RefuseKey, NeedsKey, FailsAgain, GiveUp, At, Step, TypeOK, pipeVars
      <3>2. Assigned(q)' \subseteq Assigned(q)
        BY <3>1, <1>02 DEF Assigned
      <3>3. QED
        BY <3>1, <3>2, <1>01, <1>02, FrameNumber
    <2>7. CASE Store(q) \/ FinishLate(q)
      <3>1. /\ UNCHANGED <<queue, left, ctx>> /\ Save(q)
            /\ step[q] \in {"first", "second", "refused"} /\ left[q] = {}
            /\ \A p \in Queues : p # q => step'[p] = step[p]
            /\ step'[q] \in {"stored", "storedAgain", "unsent"}
            /\ used' = used \cup Carried(q)
            /\ repeated' =
                  repeated \cup {r \in Rcpts : <<r, ctx[q][r] - 1>> \in used \cap Carried(q)}
        BY <2>7 DEF Store, FinishLate, HasUnsavedRow, AddRow, At, Step, TypeOK, pipeVars,
                    Pipe!Delete, Pipe!opVars
      <3>2. Assigned(q) = RcptsOf[Obj(q)]
        BY <3>1 DEF Assigned
      <3>3. used' = used \cup {<<r, ctx[q][r] - 1>> : r \in Assigned(q)}
        BY <3>1, <3>2 DEF Carried
      <3>4. repeated' = repeated \cup {r \in Assigned(q) : <<r, ctx[q][r] - 1>> \in used}
        BY <3>1, <3>2 DEF Carried
      <3>5. QED
        BY <3>1, <3>3, <3>4, <1>01, <1>02, <1>03, SaveNumber
    <2>8. CASE Finish(q)
      <3>1. /\ UNCHANGED <<queue, left, ctx, used, repeated>> /\ Save(q)
            /\ \A p \in Queues : p # q => step'[p] = step[p]
            /\ step'[q] \in {"done", "doneAgain", "unsent"}
        BY <2>8 DEF Finish, Pipe!Delete, Pipe!Settle, Pipe!opVars, pipeVars, Step, Outcome,
                    TypeOK
      <3>2. QED
        BY <3>1, <1>01, <1>02, <1>03, SaveNumber
    <2>9. CASE Release(q)
      BY <2>1, <2>9, <1>02 DEF Release, Pipe!Release
    <2>10. CASE Again(q) \/ Abandon(q) \/ Fails(q) \/ FailsRefused(q)
      <3>1. /\ \E n : Retry(q, n)
            /\ UNCHANGED <<number, raced, used, repeated>>
        BY <2>10 DEF Again, Abandon, Fails, FailsRefused
      <3>2. \A p \in Queues : p # q /\ step[p] # "idle" => Obj(p)' = Obj(p)
        BY <3>1, RetryLive DEF OpInv
      <3>3. QED
        BY <2>1, <3>1, <3>2 DEF Retry
    <2>11. QED
      BY <1>6, <2>2, <2>3, <2>4, <2>5, <2>6, <2>7, <2>8, <2>9, <2>10 DEF Operation
  <1>7. CASE Restart
    <2>1. /\ UNCHANGED <<number, raced, used, repeated>>
          /\ \A q \in Queues : step'[q] = "idle" /\ base'[q] = Zero /\ ctx'[q] = Zero
      BY <1>7 DEF Restart
    <2>2. \A q \in Queues, r \in Rcpts :
              base'[q][r] = ctx'[q][r] /\ ctx'[q][r] \in 0..number[r]
      BY <2>1 DEF Zero, TypeOK
    <2>3. QED
      BY <2>1, <2>2, <1>03, FrameNumber
  <1>8. CASE UNCHANGED vars
    BY <1>8, <1>01, <1>02, FrameNumber DEF vars, pipeVars
  <1>9. QED
    BY <1>1, <1>2, <1>3, <1>4, <1>5, <1>6, <1>7, <1>8 DEF Next

LEMMA NextInv == IInv /\ [Next]_vars => IInv'
  <1> SUFFICES ASSUME IInv, [Next]_vars PROVE IInv'
    OBVIOUS
  <1>1. PI'
    BY PipelineInv DEF IInv
  <1>2. TypeOK' /\ OpInv' /\ TwiceInv' /\ SentInv' /\ NumberInv'
    BY <1>1, TypeStep, OpStep, TwiceStep, SentStep, NumberStep
  <1>3. QED
    BY <1>1, <1>2 DEF IInv

LEMMA Invariance == Spec => []IInv
  BY InitInv, NextInv, PTL DEF Spec

-----------------------------------------------------------------------------
(* No claim is left behind, but by the operations that gave up.            *)

HeldInv == PP!WalkInv /\ PendingIsHeld

LEMMA AppendDiffers ==
    ASSUME NEW S, NEW s \in Seq(S), NEW x \in S PROVE Append(s, x) # s
  OBVIOUS

(* Which operations let their object go, the pipeline's rule being given.  *)
LEMMA LetsGoRefused ==
    ASSUME IInv, [Next]_vars, NEW o \in pending', PP!LetsGo(o)
    PROVE  o \notin PP!Existing \/ o \in refused
  <1> SUFFICES ASSUME NEW q \in Queues, queue[q] # <<>>, Obj(q) = o,
                      queue' = [queue EXCEPT ![q] = Tail(@)],
                      stage[q] = "performing", stage'[q] = "idle"
               PROVE  o \in refused
    BY DEF PP!LetsGo, Obj
  <1>0. /\ TypeOK /\ PI /\ OpInv /\ SentInv /\ Pipe!TypeOK
        /\ queue[q] \in Seq(Objs) /\ o \in Objs
    BY PipelineInv, ObjIsObj DEF IInv
  <1> USE <1>0
  <1>1. ASSUME UNCHANGED stage PROVE FALSE
    BY <1>1
  <1>2. ASSUME NEW t \in Threads,
               \/ \E u \in Objs : Send(t, u)
               \/ Post(t) \/ Walk(t) \/ \E s \in Senders : KeyArrives(t, s)
        PROVE  FALSE
    BY <1>1, <1>2
       DEF Send, Post, Walk, Claim, KeyArrives, Pipe!Create, Pipe!NotifyObject, Pipe!Find,
           Pipe!Claim, Pipe!Enqueue, Pipe!NotifyAll, Pipe!opVars
  <1>3. ASSUME NEW u \in Objs, Vanish(u) PROVE FALSE
    BY <1>1, <1>3 DEF Vanish, Pipe!Delete, Pipe!opVars
  (* Only the operation of q touches the stage of q.                       *)
  <1>4. ASSUME NEW p \in Queues, Operation(p) PROVE o \in refused
    <2>1. CASE Begin(p) \/ BeginMissing(p) \/ Release(p) \/ Return(p)
      <3>1. stage'[q] # "idle" \/ stage'[q] = stage[q] \/ stage[q] # "performing"
        BY <2>1 DEF Begin, BeginMissing, Release, Return, Pipe!Begin, Pipe!BeginMissing,
                    Pipe!Release, Pipe!Done, Pipe!TypeOK
      <3>2. QED
        BY <3>1
    <2>2. CASE \/ Load(p) \/ \E r \in Rcpts : EncodeFor(p, r) \/ MakeSecret(p, r)
               \/ FetchKey(p) \/ RefuseKey(p) \/ Store(p) \/ Finish(p) \/ FinishLate(p)
               \/ FailsAgain(p)
      BY <1>1, <2>2
         DEF Load, EncodeFor, MakeSecret, FetchKey, RefuseKey, Store, Finish, FinishLate,
             FailsAgain, pipeVars, Pipe!Delete, Pipe!Settle, Pipe!opVars
    <2>3. CASE Abandon(p) \/ FailsRefused(p)
      <3>1. Retry(p, Pipe!GiveUpCount) /\ step[p] \in {"refused", "unsent"}
        BY <2>3 DEF Abandon, FailsRefused, At
      <3>2. stage' = [stage EXCEPT ![p] = "idle"]
        BY <3>1 DEF Retry, Pipe!Fail
      <3>3. p = q
        BY <3>2 DEF Pipe!TypeOK
      <3>4. QED
        BY <3>1, <3>3 DEF SentInv
    <2>4. CASE Again(p) \/ Fails(p)
      <3>1. Retry(p, Pipe!FreshRetryCount)
        BY <2>4 DEF Again, Fails
      <3>2. PICK r \in Queues : Pipe!Fail(p, r, Pipe!FreshRetryCount)
        BY <3>1 DEF Retry
      <3>3. /\ stage' = [stage EXCEPT ![p] = "idle"]
            /\ queue' = [[queue EXCEPT ![p] = Tail(@)] EXCEPT ![r] = Append(@, Obj(p))]
        <4>1. ~(Pipe!FreshRetryCount > Pipe!RetryLimit)
          BY DEF Pipe!FreshRetryCount, Pipe!RetryLimit
        <4>2. QED
          BY <3>2, <4>1, Zenon DEF Pipe!Fail, Obj
      <3>4. p = q
        BY <3>3 DEF Pipe!TypeOK
      <3> DEFINE popped == [queue EXCEPT ![q] = Tail(@)]
      <3>5. popped[r] \in Seq(Objs)
        <4>1. Tail(queue[q]) \in Seq(Objs)
          BY PP!TailPlaces
        <4>2. QED
          BY <4>1 DEF Pipe!TypeOK
      <3>6. queue' = popped /\ queue'[r] = Append(popped[r], o)
        BY <3>3, <3>4 DEF Pipe!TypeOK
      <3>7. Append(popped[r], o) # popped[r]
        <4> HIDE DEF popped
        <4>1. QED
          BY <3>5, AppendDiffers
      <3>8. QED
        BY <3>6, <3>7
    <2>5. QED
      BY <1>4, <2>1, <2>2, <2>3, <2>4 DEF Operation
  <1>5. CASE Restart
    <2>1. pending' = {}
      BY <1>5 DEF Restart, Pipe!Restart
    <2>2. QED
      BY <2>1
  <1>6. CASE UNCHANGED vars
    BY <1>1, <1>6 DEF vars, pipeVars
  <1>7. QED
    BY <1>2, <1>3, <1>4, <1>5, <1>6 DEF Next

LEMMA RefusedStays == [Next]_vars => refused \subseteq refused'
  <1> USE DEF history
  <1>1. ASSUME NEW t \in Threads,
               \/ \E u \in Objs : Send(t, u)
               \/ Post(t) \/ Walk(t) \/ \E s \in Senders : KeyArrives(t, s)
        PROVE  UNCHANGED refused
    BY <1>1 DEF Send, Post, Walk, Claim, KeyArrives, ownVars
  <1>2. ASSUME NEW u \in Objs, Vanish(u) PROVE UNCHANGED refused
    BY <1>2 DEF Vanish, ownVars
  <1>3. ASSUME NEW q \in Queues, Operation(q) PROVE refused \subseteq refused'
    BY <1>3 DEF Operation, Begin, BeginMissing, Load, EncodeFor, MakeSecret, FetchKey,
                RefuseKey, Store, Finish, FinishLate, Release, Return, Again, Abandon, Fails, FailsAgain,
                FailsRefused, GiveUp, ownVars
  <1>4. CASE Restart \/ UNCHANGED vars
    BY <1>4 DEF Restart, vars, ownVars
  <1>5. QED
    BY <1>1, <1>2, <1>3, <1>4 DEF Next

LEMMA HeldStep == IInv /\ HeldInv /\ [Next]_vars => HeldInv'
  <1> SUFFICES ASSUME IInv, HeldInv, [Next]_vars PROVE HeldInv'
    OBVIOUS
  <1>1. /\ PP!PipelineAssumption /\ PP!IInv /\ PP!TypeOK /\ PP!TypeOK' /\ PP!WalkInv
        /\ [PP!Next]_(PP!vars) /\ refused \subseteq refused'
    BY PipelineInv, PipeStep, SamePipeline, EncodeAssumption, RefusedStays
       DEF IInv, PI, PP!IInv, HeldInv, PP!PipelineAssumption
  <1>2. PP!WalkInv'
    BY <1>1, PP!WalkStep
  <1>3. ASSUME NEW o \in pending'
        PROVE  Pipe!Held(o)' \/ stored'[o] = "deleted" \/ o \in refused'
    <2>1. o \in Objs
      BY <1>1 DEF PP!TypeOK
    <2>2. CASE o \in pending /\ stored[o] = "deleted"
      BY <1>1, <2>1, <2>2, PP!Aging
    <2>3. CASE o \in pending => PP!Held(o)
      <3>1. PP!Held(o)' \/ PP!LetsGo(o)
        BY <1>1, <2>3, PP!HoldersLetGo
      <3>2. CASE PP!Held(o)'
        BY <3>2 DEF PP!Held, Pipe!Held, PP!Live, Pipe!Live
      <3>3. CASE PP!LetsGo(o)
        <4>1. o \notin PP!Existing \/ o \in refused
          BY <3>3, LetsGoRefused
        <4>2. o \notin PP!Existing => stored[o] = "deleted"
          BY <1>1, <2>1, <3>3
             DEF PP!TypeOK, PP!StoreState, PP!Existing, PP!LetsGo, PP!WalkInv
        <4>3. QED
          BY <1>1, <2>1, <4>1, <4>2, PP!Aging
      <3>4. QED
        BY <3>1, <3>2, <3>3
    <2>4. QED
      BY <1>1, <2>2, <2>3 DEF HeldInv, PendingIsHeld, PP!Held, Pipe!Held, PP!Live, Pipe!Live
  <1>4. QED
    BY <1>2, <1>3 DEF HeldInv, PendingIsHeld

LEMMA HeldInvariance == Spec => []HeldInv
  <1>1. Init => HeldInv
    <2>1. Init => PP!Init /\ pending = {}
      BY SamePipeline DEF Init, Pipe!Init
    <2>2. PP!Init => PP!WalkInv
      BY PP!InitWalk, EncodeAssumption DEF PP!PipelineAssumption
    <2>3. QED
      BY <2>1, <2>2 DEF HeldInv, PendingIsHeld
  <1>2. QED
    BY <1>1, Invariance, HeldStep, PTL DEF Spec

-----------------------------------------------------------------------------

(* The variables keep their types (MessageEncodeService.m:117-262).        *)
THEOREM EncodeTypeCorrect == Spec => []TypeOK
  <1>1. IInv => TypeOK
    BY DEF IInv
  <1>2. QED
    BY <1>1, Invariance, PTL

(* No object has two encode operations at once, although there are two     *)
(* queues and a retry chooses one again (MessageEncodeService.m:58-88).    *)
THEOREM OneEncodePerObject == Spec => []PP!OneOperationPerObject
  <1>1. IInv => PP!OneOperationPerObject
    BY PipelineInv DEF IInv
  <1>2. QED
    BY <1>1, Invariance, PTL

(* Encoding twice always has one of three causes: a key that was fetched,  *)
(* an end between the save of the row and that of the object, or a row     *)
(* that only the latter stored, a claim that was out of date               *)
(* (MessageEncodeService.m:214, 243, MessageEncoder.m:194,                 *)
(* ObjectPipelineService.m:94).                                            *)
THEOREM SentTwiceOnlyIfExcused == Spec => []TwiceOnlyIfExcused
  <1>1. IInv => TwiceOnlyIfExcused
    BY DEF IInv, TwiceInv
  <1>2. QED
    BY <1>1, Invariance, PTL

(* An object marked as encoded has a row to send, and a profile that its   *)
(* operation deleted has its row or was refused a key                      *)
(* (MessageEncodeService.m:225-247).                                       *)
THEOREM NothingLeavesWithoutRow == Spec => []LeavesWithRow
  <1>1. IInv => LeavesWithRow
    BY DEF IInv, SentInv, DeletedWasSent, SettledWasEncoded, LeavesWithRow
  <1>2. QED
    BY <1>1, Invariance, PTL

(* As long as no save overwrites a number that another operation saved, a  *)
(* recipient never sees a number twice, for any number of queues           *)
(* (MessageEncoder.m:100-104, TransportManager.m:117).                     *)
THEOREM NumbersRepeatOnlyIfRaced == Spec => []NumbersUniqueUnlessRaced
  <1>1. IInv => NumbersUniqueUnlessRaced
    BY DEF IInv, NumberInv
  <1>2. QED
    BY <1>1, Invariance, PTL

(* _pending keeps no object that nobody works on, but those whose          *)
(* operation gave up or did not find them: every other exit gives the      *)
(* claim back or queues the object again, in the queue the selector        *)
(* chooses by then (MessageEncodeService.m:221-262,                        *)
(* ObjectPipelineService.m:117-119, 171-173).                              *)
THEOREM NoEncodeClaimIsStuck == Spec => []PendingIsHeld
  <1>1. HeldInv => PendingIsHeld
    BY DEF HeldInv
  <1>2. QED
    BY <1>1, HeldInvariance, PTL

(* A recipient's next number only grows, whatever the order of the saves,  *)
(* as long as none overwrites what another context saved since it was      *)
(* loaded (TransportManager.m:117, MessageEncoder.m:100-104).              *)
THEOREM NumbersOnlyGrowUnlessRaced == Spec => NumbersNeverGoBack
  <1> DEFINE Grows == \A r \in Rcpts : number'[r] >= number[r] \/ r \in raced'
  <1>1. IInv /\ [Next]_vars => Grows
    <2> SUFFICES ASSUME IInv, [Next]_vars PROVE Grows
      OBVIOUS
    <2>0. TypeOK /\ NumberInv /\ \A r \in Rcpts : number[r] \in Nat
      BY DEF IInv, TypeOK
    <2>1. ASSUME UNCHANGED number PROVE Grows
      BY <2>0, <2>1
    <2>2. ASSUME NEW q \in Queues, Save(q) PROVE Grows
      <3>1. ASSUME NEW r \in Rcpts, r \notin raced' PROVE number'[r] >= number[r]
        BY <2>0, <2>2, <3>1, SaveFacts DEF SavedAt
      <3>2. QED
        BY <3>1
    <2>3. ASSUME NEW t \in Threads,
                 \/ \E o \in Objs : Send(t, o)
                 \/ Post(t) \/ Walk(t) \/ \E s \in Senders : KeyArrives(t, s)
          PROVE  Grows
      BY <2>1, <2>3 DEF Send, Post, Walk, Claim, KeyArrives, numberVars, ownVars
    <2>4. ASSUME NEW q \in Queues, Operation(q) PROVE Grows
      <3>1. CASE \/ FetchKey(q) \/ Store(q) \/ Finish(q) \/ FinishLate(q)
                 \/ \E r \in Rcpts : MakeSecret(q, r)
        BY <2>2, <3>1 DEF FetchKey, Store, Finish, FinishLate, MakeSecret
      <3>2. CASE \/ Begin(q) \/ BeginMissing(q) \/ Load(q) \/ \E r \in Rcpts : EncodeFor(q, r)
                 \/ RefuseKey(q) \/ Release(q) \/ Return(q) \/ Again(q) \/ Abandon(q)
                 \/ Fails(q) \/ FailsAgain(q) \/ FailsRefused(q)
        BY <2>1, <3>2
           DEF Begin, BeginMissing, Load, EncodeFor, RefuseKey, Release, Return, Again,
               Abandon, Fails, FailsAgain, FailsRefused, numberVars, ownVars
      <3>3. QED
        BY <2>4, <3>1, <3>2 DEF Operation
    <2>5. CASE (\E o \in Objs : Vanish(o)) \/ Restart \/ UNCHANGED vars
      BY <2>1, <2>5 DEF Vanish, Restart, vars, numberVars, ownVars
    <2>6. QED
      BY <2>3, <2>4, <2>5 DEF Next
  <1>2. QED
    BY <1>1, Invariance, PTL DEF Spec, NumbersNeverGoBack

=============================================================================
