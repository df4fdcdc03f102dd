------------------------ MODULE ObjectPipelineProofs ------------------------
(* What the pipeline machinery guarantees for any number of objects,       *)
(* threads, queues and restarts.                                           *)
EXTENDS ObjectPipeline, TLAPS

(* A queue that is not idle has the operation it is working on at its head. *)
BusyHasHead == \A q \in Queues : stage[q] # "idle" => queue[q] # <<>>

(* The inductive invariant: OneOperationPerObject alone is not inductive,  *)
(* since Claim keeps it only when every holder is in _pending, and Release *)
(* keeps HeldIsPending only when no second operation holds the object.     *)
IInv == TypeOK /\ BusyHasHead /\ HeldIsPending /\ OneOperationPerObject

-----------------------------------------------------------------------------
(* Where the operations of a queue are after it grew or shrank.            *)

LEMMA AppendPlaces ==
    ASSUME NEW S, NEW s \in Seq(S), NEW x \in S
    PROVE  /\ Append(s, x) \in Seq(S)
           /\ Append(s, x) # <<>>
           /\ DOMAIN Append(s, x) = 1..(Len(s) + 1)
           /\ DOMAIN s = 1..Len(s)
           /\ Len(s) \in Nat
           /\ \A i \in DOMAIN s : Append(s, x)[i] = s[i]
           /\ Append(s, x)[Len(s) + 1] = x
  OBVIOUS

LEMMA TailPlaces ==
    ASSUME NEW S, NEW s \in Seq(S), s # <<>>
    PROVE  /\ Tail(s) \in Seq(S)
           /\ Head(s) \in S
           /\ Head(s) = s[1]
           /\ 1 \in DOMAIN s
           /\ DOMAIN s \subseteq Nat \ {0}
           /\ \A i \in DOMAIN Tail(s) : /\ i + 1 \in DOMAIN s
                                        /\ i + 1 # 1
                                        /\ Tail(s)[i] = s[i + 1]
  OBVIOUS
-----------------------------------------------------------------------------

LEMMA InitInv == Init => IInv
  BY PipelineAssumption, SMTT(30)
     DEF Init, IInv, TypeOK, BusyHasHead, HeldIsPending, OneOperationPerObject,
         Live, InitialRun, Selected, StoreState, OpStage

(* Steps that leave the operations, _pending and the claims alone.          *)
LEMMA StoreStep ==
    ASSUME IInv, TypeOK', UNCHANGED <<pending, claimed, queue, stage>>
    PROVE  IInv'
  BY DEF IInv, BusyHasHead, HeldIsPending, OneOperationPerObject, Live

LEMMA TypeStep == TypeOK /\ BusyHasHead /\ [Next]_vars => TypeOK'
  <1> SUFFICES ASSUME TypeOK, BusyHasHead, [Next]_vars PROVE TypeOK'
    OBVIOUS
  <1> USE PipelineAssumption DEF TypeOK, StoreState, OpStage
  <1>1. ASSUME NEW o \in Objs, Create(o) \/ Delete(o) \/ SettleLater(o)
        PROVE  TypeOK'
    BY <1>1 DEF Create, Delete, SettleLater, walkVars, opVars
  <1>2. ASSUME NEW t \in Threads, NEW o \in Objs, NotifyObject(t, o)
        PROVE  TypeOK'
    BY <1>2 DEF NotifyObject, opVars, storeVars
  <1>3. ASSUME NEW t \in Threads, NotifyAll(t) PROVE TypeOK'
    BY <1>3 DEF NotifyAll, Selected, opVars, storeVars
  <1>4. ASSUME NEW t \in Threads,
               (\E o \in Objs : Find(t, o)) \/ Claim(t)
        PROVE  TypeOK'
    <2>1. ASSUME NEW o \in Objs, Find(t, o) PROVE TypeOK'
      BY <2>1 DEF Find, opVars, storeVars
    <2>2. CASE Claim(t)
      BY <2>2 DEF Claim, opVars, storeVars
    <2>3. QED
      BY <1>4, <2>1, <2>2
  <1>5. ASSUME NEW t \in Threads, NEW q \in Queues, Enqueue(t, q) PROVE TypeOK'
    BY <1>5 DEF Enqueue, storeVars
  <1>6. ASSUME NEW q \in Queues, Begin(q) \/ Release(q) \/ Settle(q)
        PROVE  TypeOK'
    BY <1>6 DEF Begin, Release, Settle, storeVars, walkVars, opVars
  <1>7. ASSUME NEW q \in Queues, BeginMissing(q) \/ Done(q) PROVE TypeOK'
    <2>1. queue[q] # <<>>
      BY <1>7 DEF BeginMissing, Done, BusyHasHead
    <2>2. Tail(queue[q]) \in Seq(Objs)
      BY <2>1, TailPlaces
    <2>3. QED
      BY <1>7, <2>2 DEF BeginMissing, Done, storeVars, walkVars
  <1>8. ASSUME NEW q \in Queues, NEW r \in Queues,
               NEW n \in {FreshRetryCount, GiveUpCount}, Fail(q, r, n)
        PROVE  TypeOK'
    <2>1. queue[q] # <<>>
      BY <1>8 DEF Fail, Performing, BusyHasHead
    <2>2. Tail(queue[q]) \in Seq(Objs) /\ Head(queue[q]) \in Objs
      BY <2>1, TailPlaces
    <2> DEFINE popped == [queue EXCEPT ![q] = Tail(@)]
    <2>3. popped \in [Queues -> Seq(Objs)]
      BY <2>2
    <2>4. [popped EXCEPT ![r] = Append(@, Head(queue[q]))] \in [Queues -> Seq(Objs)]
      <3>1. popped[r] \in Seq(Objs)
        BY <2>3
      <3>2. Append(popped[r], Head(queue[q])) \in Seq(Objs)
        BY <3>1, <2>2, AppendPlaces
      <3>3. QED
        BY <3>2, <2>3
    <2>5. queue' \in [Queues -> Seq(Objs)]
      BY <1>8, <2>3, <2>4 DEF Fail
    <2>6. QED
      BY <1>8, <2>5 DEF Fail, storeVars, walkVars
  <1>9. ASSUME NEW objs \in SUBSET Objs, Reopen(objs) PROVE TypeOK'
    BY <1>9 DEF Reopen, walkVars, opVars
  <1>10. ASSUME NEW objs \in SUBSET Objs, Restart(objs) PROVE TypeOK'
    BY <1>10 DEF Restart, InitialRun, Selected
  <1>11. CASE UNCHANGED vars
    BY <1>11 DEF vars
  <1>12. QED
    BY <1>1, <1>2, <1>3, <1>4, <1>5, <1>6, <1>7, <1>8, <1>9, <1>10, <1>11
       DEF Next, Walk, Serve, Return

-----------------------------------------------------------------------------
(* The places of a queue after its head has left it, as the places it had. *)

LEMMA PopPlaces ==
    ASSUME TypeOK, BusyHasHead, NEW q \in Queues, queue[q] # <<>>,
           queue' = [queue EXCEPT ![q] = Tail(@)],
           stage' = [stage EXCEPT ![q] = "idle"]
    PROVE  /\ \A r \in Queues : \A i \in DOMAIN queue'[r] :
                LET j == IF r = q THEN i + 1 ELSE i
                IN  /\ j \in DOMAIN queue[r]
                    /\ queue'[r][i] = queue[r][j]
                    /\ Live(r, i)' => Live(r, j)
                    /\ r = q => j # 1
           /\ BusyHasHead'
  <1>1. \A r \in Queues : r # q => queue'[r] = queue[r] /\ stage'[r] = stage[r]
    BY DEF TypeOK
  <1>2. queue'[q] = Tail(queue[q]) /\ stage'[q] = "idle"
    BY DEF TypeOK
  <1>3. queue[q] \in Seq(Objs)
    BY DEF TypeOK
  <1>4. \A i \in DOMAIN Tail(queue[q]) : /\ i + 1 \in DOMAIN queue[q]
                                        /\ i + 1 # 1
                                        /\ Tail(queue[q])[i] = queue[q][i + 1]
    BY <1>3, TailPlaces
  <1>5. QED
    BY <1>1, <1>2, <1>4 DEF Live, BusyHasHead

LEMMA PopKeepsInv ==
    ASSUME IInv, TypeOK', NEW q \in Queues, queue[q] # <<>>,
           queue' = [queue EXCEPT ![q] = Tail(@)],
           stage' = [stage EXCEPT ![q] = "idle"],
           UNCHANGED <<pending, claimed>>
    PROVE  IInv'
  <1> DEFINE Old(r, i) == IF r = q THEN i + 1 ELSE i
  <1>1. BusyHasHead' /\ \A r \in Queues : \A i \in DOMAIN queue'[r] :
                /\ Old(r, i) \in DOMAIN queue[r]
                /\ queue'[r][i] = queue[r][Old(r, i)]
                /\ Live(r, i)' => Live(r, Old(r, i))
    BY PopPlaces DEF IInv
  <1>2. \A r \in Queues : \A i, j \in DOMAIN queue'[r] :
            Old(r, i) = Old(r, j) => i = j
    <2>1. ASSUME NEW r \in Queues, NEW i \in DOMAIN queue'[r],
                 NEW j \in DOMAIN queue'[r], Old(r, i) = Old(r, j)
          PROVE  i = j
      <3>1. queue'[r] \in Seq(Objs)
        BY DEF TypeOK
      <3>2. i \in Nat /\ j \in Nat
        BY <3>1
      <3>3. QED
        BY <2>1, <3>2
    <2>2. QED
      BY <2>1
  <1>3. HeldIsPending'
    BY <1>1 DEF IInv, HeldIsPending
  <1>4. OneOperationPerObject'
    BY <1>1, <1>2 DEF IInv, OneOperationPerObject
  <1>5. QED
    BY <1>1, <1>3, <1>4 DEF IInv

(* The operation of an object that nothing else holds is queued.           *)
LEMMA PushKeepsInv ==
    ASSUME IInv, TypeOK', NEW q \in Queues, NEW o \in Objs, o \in pending',
           queue' = [queue EXCEPT ![q] = Append(@, o)],
           UNCHANGED <<pending, stage>>,
           \A t \in Threads : claimed'[t] # o /\ claimed'[t] \in {None, claimed[t]},
           \A r \in Queues : \A i \in DOMAIN queue[r] :
                Live(r, i) => queue[r][i] # o
    PROVE  IInv'
  <1> DEFINE n == Len(queue[q]) + 1
  <1>1. \A r \in Queues : r # q => queue'[r] = queue[r]
    BY DEF TypeOK, IInv
  <1>2. queue'[q] = Append(queue[q], o) /\ queue[q] \in Seq(Objs)
    BY DEF TypeOK, IInv
  <1>3. /\ queue'[q] # <<>>
        /\ DOMAIN queue'[q] = 1..n
        /\ DOMAIN queue[q] = 1..Len(queue[q])
        /\ Len(queue[q]) \in Nat
        /\ \A i \in DOMAIN queue[q] : queue'[q][i] = queue[q][i]
        /\ queue'[q][n] = o
    BY <1>2, AppendPlaces
  <1>4. \A r \in Queues : \A i \in DOMAIN queue'[r] :
            \/ r = q /\ i = n /\ queue'[r][i] = o
            \/ /\ i \in DOMAIN queue[r]
               /\ queue'[r][i] = queue[r][i]
               /\ Live(r, i)' => Live(r, i)
    BY <1>1, <1>3 DEF Live
  <1>5. BusyHasHead'
    BY <1>1, <1>3 DEF IInv, BusyHasHead
  <1>6. HeldIsPending'
    BY <1>4 DEF IInv, HeldIsPending
  <1>7. OneOperationPerObject'
    <2>1. ASSUME NEW r \in Queues, NEW u \in Queues,
                 NEW i \in DOMAIN queue'[r], NEW j \in DOMAIN queue'[u],
                 Live(r, i)', Live(u, j)', queue'[r][i] = queue'[u][j]
          PROVE  r = u /\ i = j
      BY <2>1, <1>4 DEF IInv, OneOperationPerObject
    <2>2. ASSUME NEW t \in Threads, NEW r \in Queues, NEW i \in DOMAIN queue'[r],
                 Live(r, i)'
          PROVE  claimed'[t] # queue'[r][i]
      <3>1. queue'[r][i] \in Objs
        BY <2>2 DEF TypeOK
      <3>2. queue'[r][i] # None
        BY <3>1, PipelineAssumption
      <3>3. QED
        BY <2>2, <1>4, <3>2 DEF IInv, OneOperationPerObject
    <2>3. \A t, u \in Threads : claimed'[t] = claimed'[u] /\ claimed'[t] # None
                               => t = u
      BY DEF IInv, OneOperationPerObject
    <2>4. QED
      BY <2>1, <2>2, <2>3 DEF OneOperationPerObject
  <1>8. QED
    BY <1>5, <1>6, <1>7 DEF IInv

-----------------------------------------------------------------------------

LEMMA ClaimKeepsInv ==
    ASSUME IInv, TypeOK', NEW t \in Threads, Claim(t)
    PROVE  IInv'
  <1> DEFINE o == found[t]
  <1>1. UNCHANGED <<queue, stage>>
    BY DEF Claim, opVars
  <1>2. CASE UNCHANGED <<pending, claimed>>
    BY <1>1, <1>2, StoreStep
  <1>3. CASE /\ o # None
             /\ o \notin pending
             /\ pending' = pending \cup {o}
             /\ claimed' = [claimed EXCEPT ![t] = o]
    <2>1. \A u \in Threads : claimed'[u] = IF u = t THEN o ELSE claimed[u]
      BY <1>3 DEF IInv, TypeOK
    <2>2. \A u \in Threads : claimed[u] # o
      BY <1>3 DEF IInv, HeldIsPending
    <2>3. \A q \in Queues : \A i \in DOMAIN queue[q] :
              Live(q, i) => queue[q][i] # o
      BY <1>3 DEF IInv, HeldIsPending
    <2>4. \A q, i : Live(q, i)' <=> Live(q, i)
      BY <1>1 DEF Live
    <2>5. BusyHasHead' /\ HeldIsPending'
      BY <1>1, <1>3, <2>1, <2>4 DEF IInv, BusyHasHead, HeldIsPending
    <2>6. OneOperationPerObject'
      BY <1>1, <2>1, <2>2, <2>3, <2>4 DEF IInv, OneOperationPerObject
    <2>7. QED
      BY <2>5, <2>6 DEF IInv
  <1>4. QED
    BY <1>2, <1>3 DEF Claim

LEMMA EnqueueKeepsInv ==
    ASSUME IInv, TypeOK', NEW t \in Threads, NEW q \in Queues, Enqueue(t, q)
    PROVE  IInv'
  <1> DEFINE o == claimed[t]
  <1>1. /\ o # None
        /\ queue' = [queue EXCEPT ![q] = Append(@, o)]
        /\ claimed' = [claimed EXCEPT ![t] = None]
        /\ UNCHANGED <<pending, stage>>
    BY DEF Enqueue, storeVars
  <1>2. o \in Objs
    BY <1>1 DEF IInv, TypeOK
  <1>3. o \in pending'
    BY <1>1 DEF IInv, HeldIsPending
  <1>4. \A u \in Threads : claimed'[u] = IF u = t THEN None ELSE claimed[u]
    BY <1>1 DEF IInv, TypeOK
  <1>5. \A u \in Threads : claimed'[u] # o /\ claimed'[u] \in {None, claimed[u]}
    BY <1>1, <1>4 DEF IInv, OneOperationPerObject
  <1>6. \A r \in Queues : \A i \in DOMAIN queue[r] :
            Live(r, i) => queue[r][i] # o
    BY DEF IInv, OneOperationPerObject
  <1>7. QED
    BY <1>1, <1>2, <1>3, <1>5, <1>6, PushKeepsInv

LEMMA BeginKeepsInv ==
    ASSUME IInv, TypeOK', NEW q \in Queues, Begin(q)
    PROVE  IInv'
  <1>1. /\ UNCHANGED <<pending, claimed, queue>>
        /\ queue[q] # <<>>
        /\ stage[q] = "idle"
        /\ stage' = [stage EXCEPT ![q] = "performing"]
    BY DEF Begin, walkVars
  <1>2. \A r \in Queues : stage'[r] = IF r = q THEN "performing" ELSE stage[r]
    BY <1>1 DEF IInv, TypeOK
  <1>3. \A r \in Queues : \A i \in DOMAIN queue[r] : Live(r, i)' <=> Live(r, i)
    BY <1>1, <1>2 DEF Live
  <1>4. BusyHasHead'
    BY <1>1, <1>2 DEF IInv, BusyHasHead
  <1>5. HeldIsPending' /\ OneOperationPerObject'
    BY <1>1, <1>3 DEF IInv, HeldIsPending, OneOperationPerObject
  <1>6. QED
    BY <1>4, <1>5 DEF IInv

LEMMA ReleaseKeepsInv ==
    ASSUME IInv, TypeOK', NEW q \in Queues, Release(q)
    PROVE  IInv'
  <1> DEFINE o == Head(queue[q])
  <1>1. /\ UNCHANGED <<claimed, queue>>
        /\ stage[q] = "performing"
        /\ stage' = [stage EXCEPT ![q] = "released"]
        /\ pending' = pending \ {o}
    BY DEF Release, Performing, walkVars
  <1>2. queue[q] # <<>> /\ queue[q] \in Seq(Objs)
    BY <1>1 DEF IInv, BusyHasHead, TypeOK
  <1>3. o = queue[q][1] /\ 1 \in DOMAIN queue[q] /\ o \in Objs
    BY <1>2, TailPlaces
  <1>4. Live(q, 1)
    BY <1>1, <1>3 DEF Live
  <1>5. \A r \in Queues : stage'[r] = IF r = q THEN "released" ELSE stage[r]
    BY <1>1 DEF IInv, TypeOK
  <1>6. \A r \in Queues : \A i \in DOMAIN queue[r] :
            Live(r, i)' <=> Live(r, i) /\ ~(r = q /\ i = 1)
    BY <1>1, <1>5 DEF Live
  <1>7. \A r \in Queues : \A i \in DOMAIN queue[r] :
            Live(r, i)' => queue[r][i] # o
    BY <1>3, <1>4, <1>6 DEF IInv, OneOperationPerObject
  <1>8. \A t \in Threads : claimed[t] # o
    BY <1>3, <1>4 DEF IInv, OneOperationPerObject
  <1>9. BusyHasHead'
    BY <1>1, <1>2, <1>5 DEF IInv, BusyHasHead
  <1>10. HeldIsPending'
    BY <1>1, <1>6, <1>7, <1>8 DEF IInv, HeldIsPending
  <1>11. OneOperationPerObject'
    BY <1>1, <1>6 DEF IInv, OneOperationPerObject
  <1>12. QED
    BY <1>9, <1>10, <1>11 DEF IInv

LEMMA FailKeepsInv ==
    ASSUME IInv, TypeOK', NEW q \in Queues, NEW r \in Queues, NEW n \in Nat,
           Fail(q, r, n)
    PROVE  IInv'
  <1> DEFINE o == Head(queue[q])
             popped == [queue EXCEPT ![q] = Tail(@)]
  <1>1. /\ UNCHANGED <<pending, claimed>>
        /\ stage[q] = "performing"
        /\ stage' = [stage EXCEPT ![q] = "idle"]
        /\ queue[q] # <<>>
    BY DEF Fail, Performing, IInv, BusyHasHead, walkVars
  <1>2. CASE queue' = popped
    BY <1>1, <1>2, PopKeepsInv
  <1>3. CASE queue' = [popped EXCEPT ![r] = Append(@, o)]
    <2>1. queue[q] \in Seq(Objs) /\ TypeOK
      BY DEF IInv, TypeOK
    <2>2. /\ o = queue[q][1] /\ 1 \in DOMAIN queue[q] /\ o \in Objs
          /\ Tail(queue[q]) \in Seq(Objs)
          /\ DOMAIN queue[q] \subseteq Nat \ {0}
          /\ \A i \in DOMAIN Tail(queue[q]) :
                 /\ i + 1 \in DOMAIN queue[q]
                 /\ i + 1 # 1
                 /\ Tail(queue[q])[i] = queue[q][i + 1]
      BY <1>1, <2>1, TailPlaces
    <2>3. Live(q, 1)
      BY <1>1, <2>2 DEF Live
    <2> DEFINE Old(u, i) == IF u = q THEN i + 1 ELSE i
               len == Len(popped[r]) + 1
    <2>4. popped \in [Queues -> Seq(Objs)]
      BY <2>1, <2>2 DEF TypeOK
    <2>5. /\ queue'[r] = Append(popped[r], o)
          /\ \A u \in Queues : u # r => queue'[u] = popped[u]
      BY <1>3, <2>4
    <2>6. popped[r] \in Seq(Objs)
      BY <2>4
    <2>7. /\ DOMAIN queue'[r] = 1..len
          /\ DOMAIN popped[r] = 1..Len(popped[r])
          /\ Len(popped[r]) \in Nat
          /\ queue'[r] # <<>>
          /\ \A i \in DOMAIN popped[r] : queue'[r][i] = popped[r][i]
          /\ queue'[r][len] = o
      BY <2>2, <2>5, <2>6, AppendPlaces
    <2>8. \A u \in Queues : stage'[u] = IF u = q THEN "idle" ELSE stage[u]
      BY <1>1, <2>1 DEF TypeOK
    <2>9. \A u \in Queues : \A i \in DOMAIN popped[u] :
              /\ Old(u, i) \in DOMAIN queue[u]
              /\ popped[u][i] = queue[u][Old(u, i)]
              /\ u = q => Old(u, i) # 1
      BY <2>1, <2>2 DEF TypeOK
    <2>10. \A u \in Queues : \A i \in DOMAIN queue'[u] :
              \/ u = r /\ i = len /\ queue'[u][i] = o
              \/ /\ i \in DOMAIN popped[u]
                 /\ queue'[u][i] = queue[u][Old(u, i)]
                 /\ Old(u, i) \in DOMAIN queue[u]
                 /\ u = q => Old(u, i) # 1
                 /\ Live(u, i)' => Live(u, Old(u, i))
      <3>1. \A u \in Queues : \A i \in DOMAIN queue'[u] :
              \/ u = r /\ i = len /\ queue'[u][i] = o
              \/ i \in DOMAIN popped[u] /\ queue'[u][i] = popped[u][i]
        <4>1. \A i \in DOMAIN queue'[r] : i = len \/ i \in DOMAIN popped[r]
          <5> HIDE DEF popped
          <5> QED
            BY <2>7
        <4>2. \A u \in Queues : u # r => queue'[u] = popped[u]
          BY <2>5
        <4> HIDE DEF popped, len
        <4>3. QED
          BY <2>7, <4>1, <4>2
      <3>2. \A u \in Queues : \A i \in DOMAIN popped[u] :
              Live(u, i)' => Live(u, Old(u, i))
        BY <2>8, <2>9 DEF Live
      <3>3. QED
        BY <2>9, <3>1, <3>2
    <2>11. \A u \in Queues : \A i \in DOMAIN queue[u] :
              Live(u, i) /\ queue[u][i] = o => u = q /\ i = 1
      BY <2>2, <2>3 DEF IInv, OneOperationPerObject
    <2>12. BusyHasHead'
      <3>1. \A u \in Queues : u # q /\ u # r => queue'[u] = queue[u]
        BY <2>5, <2>1 DEF TypeOK
      <3>2. QED
        BY <2>7, <2>8, <3>1 DEF IInv, BusyHasHead
    <2>13. HeldIsPending'
      <3>1. o \in pending
        BY <2>2, <2>3 DEF IInv, HeldIsPending
      <3>2. QED
        BY <1>1, <2>10, <3>1 DEF IInv, HeldIsPending
    <2>14. OneOperationPerObject'
      <3>1. ASSUME NEW u \in Queues, NEW v \in Queues,
                   NEW i \in DOMAIN queue'[u], NEW j \in DOMAIN queue'[v],
                   Live(u, i)', Live(v, j)', queue'[u][i] = queue'[v][j]
            PROVE  u = v /\ i = j
        <4>1. i \in Nat /\ j \in Nat
          BY DEF TypeOK
        <4>2. CASE u = r /\ i = len
          BY <3>1, <4>2, <2>7, <2>10, <2>11
        <4>3. CASE v = r /\ j = len
          BY <3>1, <4>3, <2>7, <2>10, <2>11
        <4>4. CASE ~(u = r /\ i = len) /\ ~(v = r /\ j = len)
          <5>1. u = v /\ Old(u, i) = Old(v, j)
            BY <3>1, <4>4, <2>10 DEF IInv, OneOperationPerObject
          <5>2. QED
            BY <4>1, <5>1
        <4>5. QED
          BY <4>2, <4>3, <4>4
      <3>2. ASSUME NEW t \in Threads, NEW u \in Queues, NEW i \in DOMAIN queue'[u],
                   Live(u, i)'
            PROVE  claimed'[t] # queue'[u][i]
        BY <3>2, <1>1, <2>2, <2>3, <2>10 DEF IInv, OneOperationPerObject
      <3>3. \A t, u \in Threads : claimed'[t] = claimed'[u] /\ claimed'[t] # None
                                 => t = u
        BY <1>1 DEF IInv, OneOperationPerObject
      <3>4. QED
        BY <3>1, <3>2, <3>3 DEF OneOperationPerObject
    <2>15. QED
      BY <2>12, <2>13, <2>14 DEF IInv
  <1>4. QED
    BY <1>2, <1>3 DEF Fail

LEMMA RestartKeepsInv ==
    ASSUME TypeOK, TypeOK', NEW gone, Restart(gone)
    PROVE  IInv'
  BY DEF Restart, IInv, BusyHasHead, HeldIsPending, OneOperationPerObject, Live

LEMMA NextInv == IInv /\ [Next]_vars => IInv'
  <1> SUFFICES ASSUME IInv, [Next]_vars PROVE IInv'
    OBVIOUS
  <1> TypeOK /\ TypeOK'
    BY TypeStep DEF IInv
  <1>1. ASSUME NEW o \in Objs, Create(o) \/ Delete(o) \/ SettleLater(o)
        PROVE  IInv'
    BY <1>1, StoreStep DEF Create, Delete, SettleLater, walkVars, opVars
  <1>2. ASSUME NEW t \in Threads, NEW o \in Objs, NotifyObject(t, o)
        PROVE  IInv'
    BY <1>2, StoreStep DEF NotifyObject, opVars
  <1>3. ASSUME NEW t \in Threads, NotifyAll(t) PROVE IInv'
    BY <1>3, StoreStep DEF NotifyAll, opVars
  <1>4. ASSUME NEW t \in Threads, Walk(t) PROVE IInv'
    <2>1. ASSUME NEW o \in Objs, Find(t, o) PROVE IInv'
      BY <2>1, StoreStep DEF Find, opVars
    <2>2. QED
      BY <1>4, <2>1, ClaimKeepsInv, EnqueueKeepsInv DEF Walk
  <1>5. ASSUME NEW q \in Queues, Begin(q) \/ Release(q) PROVE IInv'
    BY <1>5, BeginKeepsInv, ReleaseKeepsInv
  <1>6. ASSUME NEW q \in Queues, Settle(q) PROVE IInv'
    BY <1>6, StoreStep DEF Settle, walkVars, opVars
  <1>7. ASSUME NEW q \in Queues, BeginMissing(q) PROVE IInv'
    <2>1. stage' = [stage EXCEPT ![q] = "idle"]
      BY <1>7 DEF BeginMissing, TypeOK
    <2>2. QED
      BY <1>7, <2>1, PopKeepsInv DEF BeginMissing, walkVars
  <1>8. ASSUME NEW q \in Queues, Done(q) PROVE IInv'
    <2>1. queue[q] # <<>>
      BY <1>8 DEF Done, IInv, BusyHasHead
    <2>2. QED
      BY <1>8, <2>1, PopKeepsInv DEF Done, walkVars
  <1>9. ASSUME NEW q \in Queues, NEW r \in Queues,
               NEW n \in {FreshRetryCount, GiveUpCount}, Fail(q, r, n)
        PROVE  IInv'
    BY <1>9, FailKeepsInv DEF FreshRetryCount, GiveUpCount
  <1>10. ASSUME NEW objs \in SUBSET Objs, Reopen(objs) PROVE IInv'
    BY <1>10, StoreStep DEF Reopen, walkVars, opVars
  <1>11. ASSUME NEW objs \in SUBSET Objs, Restart(objs) PROVE IInv'
    BY <1>11, RestartKeepsInv
  <1>12. CASE UNCHANGED vars
    BY <1>12, StoreStep DEF vars
  <1>13. QED
    BY <1>1, <1>2, <1>3, <1>4, <1>5, <1>6, <1>7, <1>8, <1>9, <1>10, <1>11, <1>12
       DEF Next, Serve, Return

-----------------------------------------------------------------------------
(* How an object that stays in _pending stops being held.                  *)

(* An object is in the store before it is found, and a thread that has     *)
(* found one has queued the one before.                                    *)
WalkInv ==
    /\ \A o \in pending : stored[o] # "unborn"
    /\ \A t \in Threads : found[t] # None =>
          claimed[t] = None /\ stored[found[t]] # "unborn"

(* The operation of the object leaves its queue, and no other comes: it    *)
(* did not find the object, or it returned without removePending.          *)
LetsGo(o) ==
    /\ o \in pending
    /\ \E q \in Queues :
           /\ queue[q] # <<>> /\ Head(queue[q]) = o
           /\ queue' = [queue EXCEPT ![q] = Tail(@)]
           /\ \/ stage[q] = "idle" /\ o \notin Existing
              \/ stage[q] = "performing" /\ stage'[q] = "idle"

(* Nothing is unsaved, and what was deleted does not come back.            *)
LEMMA Aging ==
    ASSUME TypeOK, [Next]_vars, NEW o \in Objs
    PROVE  /\ stored[o] # "unborn" => stored'[o] # "unborn"
           /\ stored[o] = "deleted" => stored'[o] = "deleted"
  <1> DEFINE Ages == /\ stored[o] # "unborn" => stored'[o] # "unborn"
                     /\ stored[o] = "deleted" => stored'[o] = "deleted"
  <1>1. ASSUME NEW u \in Objs, Create(u) \/ Delete(u) \/ SettleLater(u) PROVE Ages
    BY <1>1 DEF Create, Delete, SettleLater, Existing, TypeOK
  <1>2. ASSUME NEW objs \in SUBSET Objs, Reopen(objs) \/ Restart(objs) PROVE Ages
    BY <1>2 DEF Reopen, Restart, Existing, TypeOK
  <1>3. ASSUME NEW q \in Queues, Settle(q) PROVE Ages
    BY <1>3 DEF Settle, TypeOK
  <1>4. ASSUME NEW q \in Queues, Serve(q) \/ Release(q) PROVE UNCHANGED stored
    BY <1>4 DEF Serve, Return, Begin, BeginMissing, Release, Done, Fail, storeVars
  <1>5. ASSUME NEW t \in Threads,
               NotifyAll(t) \/ Walk(t) \/ \E u \in Objs : NotifyObject(t, u)
        PROVE  UNCHANGED stored
    BY <1>5 DEF NotifyObject, NotifyAll, Walk, Find, Claim, Enqueue, storeVars
  <1>6. CASE UNCHANGED vars
    BY <1>6 DEF vars
  <1>7. QED
    BY <1>1, <1>2, <1>3, <1>4, <1>5, <1>6 DEF Next

LEMMA InitWalk == Init => WalkInv
  BY DEF Init, WalkInv

LEMMA WalkStep ==
    ASSUME TypeOK, WalkInv, [Next]_vars PROVE WalkInv'
  <1>1. \A o \in Objs : stored[o] # "unborn" => stored'[o] # "unborn"
    BY Aging
  (* Nothing is put in _pending, found or claimed.                         *)
  <1>2. ASSUME pending' \subseteq pending,
               \A t \in Threads : found'[t] \in {found[t], None} /\ claimed'[t] \in {claimed[t], None}
        PROVE  WalkInv'
    BY <1>1, <1>2 DEF WalkInv, TypeOK
  <1>3. ASSUME NEW t \in Threads, NEW o \in Objs, Find(t, o) PROVE WalkInv'
    <2>1. /\ found[t] = None /\ claimed[t] = None
          /\ found' = [found EXCEPT ![t] = IF o \in Existing THEN o ELSE None]
          /\ UNCHANGED <<stored, pending, claimed>>
      BY <1>3 DEF Find, storeVars
    <2>2. QED
      BY <2>1 DEF WalkInv, TypeOK, Existing
  <1>4. ASSUME NEW t \in Threads, Claim(t) PROVE WalkInv'
    <2>1. /\ found[t] # None /\ found' = [found EXCEPT ![t] = None]
          /\ pending' \subseteq pending \cup {found[t]} /\ stored' = stored
          /\ \A u \in Threads : u # t => claimed'[u] = claimed[u]
      BY <1>4 DEF Claim, storeVars, TypeOK
    <2>2. QED
      BY <2>1 DEF WalkInv, TypeOK
  <1>5. ASSUME NEW t \in Threads, NEW q \in Queues, Enqueue(t, q) PROVE WalkInv'
    BY <1>2, <1>5 DEF Enqueue, TypeOK
  <1>6. CASE \E t \in Threads : NotifyAll(t) \/ \E o \in Objs : NotifyObject(t, o)
    BY <1>2, <1>6 DEF NotifyAll, NotifyObject
  <1>7. CASE \E q \in Queues : Serve(q) \/ Settle(q) \/ Release(q)
    BY <1>2, <1>7 DEF Serve, Return, Begin, BeginMissing, Done, Fail, Settle, Release, walkVars
  <1>8. CASE \E o \in Objs : Create(o) \/ Delete(o) \/ SettleLater(o)
    BY <1>2, <1>8 DEF Create, Delete, SettleLater, walkVars
  <1>9. CASE \E objs \in SUBSET Objs : Reopen(objs)
    BY <1>2, <1>9 DEF Reopen, walkVars
  <1>10. CASE \E objs \in SUBSET Objs : Restart(objs)
    BY <1>2, <1>10 DEF Restart
  <1>11. CASE UNCHANGED vars
    BY <1>2, <1>11 DEF vars
  <1>12. QED
    BY <1>3, <1>4, <1>5, <1>6, <1>7, <1>8, <1>9, <1>10, <1>11 DEF Next, Walk

(* The places that the operations of a queue have after its head left.     *)
LEMMA TailMoves ==
    ASSUME NEW S, NEW s \in Seq(S), s # <<>>, NEW i \in DOMAIN s, i # 1
    PROVE  i - 1 \in DOMAIN Tail(s) /\ Tail(s)[i - 1] = s[i]
  OBVIOUS

LEMMA HeadAt ==
    ASSUME NEW S, NEW s \in Seq(S), 1 \in DOMAIN s
    PROVE  s # <<>> /\ s[1] = Head(s)
  OBVIOUS

(* An operation that is not the head of q stays where it is, or moves up.  *)
LEMMA PopHolders ==
    ASSUME TypeOK, NEW q \in Queues, queue[q] # <<>>, NEW o,
           queue' = [queue EXCEPT ![q] = Tail(@)], stage' = [stage EXCEPT ![q] = "idle"],
           UNCHANGED claimed, Held(o), Head(queue[q]) # o \/ stage[q] = "released"
    PROVE  Held(o)'
  <1>1. CASE \E t \in Threads : claimed[t] = o
    BY <1>1 DEF Held
  <1>2. CASE \E u \in Queues : \E i \in DOMAIN queue[u] : Live(u, i) /\ queue[u][i] = o
    <2> PICK u \in Queues : \E i \in DOMAIN queue[u] : Live(u, i) /\ queue[u][i] = o
      BY <1>2
    <2>1. PICK i \in DOMAIN queue[u] : Live(u, i) /\ queue[u][i] = o
      OBVIOUS
    <2>2. queue[u] \in Seq(Objs)
      BY DEF TypeOK
    <2>3. CASE u # q
      <3>1. queue'[u] = queue[u] /\ stage'[u] = stage[u]
        BY <2>3 DEF TypeOK
      <3>2. QED
        BY <2>1, <3>1 DEF Held, Live
    <2>4. CASE u = q
      <3>1. queue'[q] = Tail(queue[q]) /\ stage'[q] = "idle"
        BY DEF TypeOK
      <3>2. i # 1
        BY <2>1, <2>2, <2>4, HeadAt DEF Live
      <3>3. i - 1 \in DOMAIN Tail(queue[q]) /\ Tail(queue[q])[i - 1] = queue[q][i]
        BY <2>2, <2>4, <3>2, TailMoves
      <3>4. QED
        BY <2>1, <2>4, <3>1, <3>3 DEF Held, Live
    <2>5. QED
      BY <2>3, <2>4
  <1>3. QED
    BY <1>1, <1>2 DEF Held

(* An operation stays where it is when another is queued behind it, and    *)
(* that one stands for its object.                                         *)
LEMMA PushHolders ==
    ASSUME TypeOK, BusyHasHead, NEW r \in Queues, NEW x \in Objs, NEW o,
           queue' = [queue EXCEPT ![r] = Append(@, x)], UNCHANGED stage,
           \A t \in Threads : claimed[t] = o => claimed'[t] = o \/ x = o,
           Held(o) \/ x = o
    PROVE  Held(o)'
  <1> DEFINE n == Len(queue[r])
  <1>1. queue[r] \in Seq(Objs) /\ queue'[r] = Append(queue[r], x)
    BY DEF TypeOK
  <1>2. /\ DOMAIN queue'[r] = 1..(n + 1) /\ DOMAIN queue[r] = 1..n /\ n \in Nat
        /\ \A i \in DOMAIN queue[r] : queue'[r][i] = queue[r][i]
        /\ queue'[r][n + 1] = x
    BY <1>1, AppendPlaces
  <1>3. CASE x = o
    <2>1. n + 1 = 1 => stage[r] = "idle"
      BY <1>1, <1>2 DEF BusyHasHead
    <2>2. \E i \in DOMAIN queue'[r] : Live(r, i)' /\ queue'[r][i] = o
      <3>1. n + 1 \in DOMAIN queue'[r] /\ queue'[r][n + 1] = o
        BY <1>2, <1>3
      <3>2. n + 1 = 1 => stage'[r] # "released"
        BY <2>1
      <3> HIDE DEF n
      <3>3. QED
        BY <3>1, <3>2 DEF Live
    <2>3. QED
      BY <2>2 DEF Held
  <1>4. CASE x # o /\ \E t \in Threads : claimed[t] = o
    BY <1>4 DEF Held
  <1>5. CASE x # o /\ \E u \in Queues : \E i \in DOMAIN queue[u] : Live(u, i) /\ queue[u][i] = o
    <2> PICK u \in Queues : \E i \in DOMAIN queue[u] : Live(u, i) /\ queue[u][i] = o
      BY <1>5
    <2>1. PICK i \in DOMAIN queue[u] : Live(u, i) /\ queue[u][i] = o
      OBVIOUS
    <2>2. i \in DOMAIN queue'[u] /\ queue'[u][i] = o
      BY <1>2, <2>1 DEF TypeOK
    <2>3. QED
      BY <2>1, <2>2 DEF Held, Live
  <1>6. QED
    BY <1>3, <1>4, <1>5 DEF Held


(* The rule for every step: what is held stays so, or is let go of.        *)
LEMMA HoldersLetGo ==
    ASSUME IInv, WalkInv, [Next]_vars, NEW o \in pending', o \in pending => Held(o)
    PROVE  Held(o)' \/ LetsGo(o)
  <1> USE DEF IInv
  (* Neither _pending nor those that hold an object change.                *)
  <1>1. ASSUME UNCHANGED <<pending, claimed, queue>>,
               \A q \in Queues : stage'[q] = "released" => stage[q] = "released"
        PROVE  Held(o)'
    BY <1>1 DEF Held, Live
  (* The head of a queue leaves it.                                        *)
  <1>2. ASSUME NEW q \in Queues, queue[q] # <<>>,
               queue' = [queue EXCEPT ![q] = Tail(@)], stage' = [stage EXCEPT ![q] = "idle"],
               UNCHANGED <<pending, claimed>>, stage[q] = "idle" => Head(queue[q]) \notin Existing
        PROVE  Held(o)' \/ LetsGo(o)
    <2>1. CASE Head(queue[q]) # o \/ stage[q] = "released"
      BY <1>2, <2>1, PopHolders
    <2>2. CASE Head(queue[q]) = o /\ stage[q] # "released"
      <3>1. stage[q] \in {"idle", "performing"} /\ stage'[q] = "idle"
        BY <1>2, <2>2 DEF TypeOK, OpStage
      <3>2. QED
        BY <1>2, <2>2, <3>1 DEF LetsGo
    <2>3. QED
      BY <2>1, <2>2
  <1>3. ASSUME NEW t \in Threads, Claim(t) PROVE Held(o)'
    <2>1. claimed[t] = None /\ found[t] # None /\ UNCHANGED <<queue, stage>>
      BY <1>3 DEF Claim, WalkInv, opVars
    <2>2. CASE found[t] \in pending
      BY <1>1, <1>3, <2>1, <2>2 DEF Claim
    <2>3. CASE found[t] \notin pending
      <3>1. /\ pending' = pending \cup {found[t]}
            /\ claimed'[t] = found[t] /\ \A u \in Threads : u # t => claimed'[u] = claimed[u]
        BY <1>3, <2>3 DEF Claim, TypeOK
      <3>2. o # None
        BY <2>1, <3>1, PipelineAssumption DEF TypeOK
      <3>3. QED
        BY <2>1, <3>1, <3>2 DEF Held, Live
    <2>4. QED
      BY <2>2, <2>3
  <1>4. ASSUME NEW t \in Threads, NEW q \in Queues, Enqueue(t, q) PROVE Held(o)'
    <2>1. /\ claimed[t] \in Objs /\ queue' = [queue EXCEPT ![q] = Append(@, claimed[t])]
          /\ UNCHANGED <<pending, stage>>
          /\ \A u \in Threads : u # t => claimed'[u] = claimed[u]
      BY <1>4 DEF Enqueue, TypeOK
    <2>2. QED
      BY <2>1, PushHolders
  <1>5. ASSUME NEW q \in Queues, Release(q) PROVE Held(o)'
    <2>1. /\ o \in pending /\ o # Head(queue[q])
          /\ stage' = [stage EXCEPT ![q] = "released"] /\ UNCHANGED <<queue, claimed>>
      BY <1>5 DEF Release, walkVars
    <2>2. CASE \E t \in Threads : claimed[t] = o
      BY <2>1, <2>2 DEF Held
    <2>3. CASE \E u \in Queues : \E i \in DOMAIN queue[u] : Live(u, i) /\ queue[u][i] = o
      <3> PICK u \in Queues : \E i \in DOMAIN queue[u] : Live(u, i) /\ queue[u][i] = o
        BY <2>3
      <3>1. PICK i \in DOMAIN queue[u] : Live(u, i) /\ queue[u][i] = o
        OBVIOUS
      <3>2. queue[u] \in Seq(Objs)
        BY DEF TypeOK
      <3>3. u = q => i # 1
        BY <2>1, <3>1, <3>2, HeadAt
      <3>4. u # q => stage'[u] = stage[u]
        BY <2>1 DEF TypeOK
      <3>5. QED
        BY <2>1, <3>1, <3>3, <3>4 DEF Held, Live
    <2>4. QED
      BY <2>1, <2>2, <2>3 DEF Held
  <1>6. ASSUME NEW q \in Queues, BeginMissing(q) PROVE Held(o)' \/ LetsGo(o)
    <2>1. stage' = [stage EXCEPT ![q] = "idle"]
      BY <1>6 DEF BeginMissing, TypeOK
    <2>2. QED
      BY <1>2, <1>6, <2>1 DEF BeginMissing, walkVars
  <1>7. ASSUME NEW q \in Queues, Done(q) PROVE Held(o)' \/ LetsGo(o)
    BY <1>2, <1>7 DEF Done, BusyHasHead, walkVars
  <1>8. ASSUME NEW q \in Queues, NEW r \in Queues, NEW n, Fail(q, r, n)
        PROVE  Held(o)' \/ LetsGo(o)
    <2> DEFINE popped == [queue EXCEPT ![q] = Tail(@)]
               x == Head(queue[q])
    <2>1. /\ stage[q] = "performing" /\ queue[q] # <<>>
          /\ stage' = [stage EXCEPT ![q] = "idle"] /\ UNCHANGED <<pending, claimed>>
          /\ queue' = popped \/ queue' = [popped EXCEPT ![r] = Append(@, x)]
      BY <1>8 DEF Fail, Performing, BusyHasHead, walkVars
    <2>2. CASE queue' = popped
      BY <1>2, <2>1, <2>2
    <2>3. CASE queue' = [popped EXCEPT ![r] = Append(@, x)]
      <3>1. queue[q] \in Seq(Objs) /\ x \in Objs /\ Tail(queue[q]) \in Seq(Objs)
        BY <2>1, TailPlaces DEF TypeOK
      <3>2. /\ popped \in [Queues -> Seq(Objs)] /\ popped[q] = Tail(queue[q])
            /\ \A u \in Queues : u # q => popped[u] = queue[u]
        BY <3>1 DEF TypeOK
      <3>3. popped[r] \in Seq(Objs) /\ queue'[r] = Append(popped[r], x)
            /\ \A u \in Queues : u # r => queue'[u] = popped[u]
        BY <2>3, <3>2
      <3>4. stage'[q] = "idle" /\ \A u \in Queues : u # q => stage'[u] = stage[u]
        BY <2>1 DEF TypeOK
      <3> HIDE DEF popped, x
      <3>5. /\ DOMAIN queue'[r] = 1..(Len(popped[r]) + 1) /\ DOMAIN popped[r] = 1..Len(popped[r])
            /\ Len(popped[r]) \in Nat
            /\ \A i \in DOMAIN popped[r] : queue'[r][i] = popped[r][i]
            /\ queue'[r][Len(popped[r]) + 1] = x
        BY <3>1, <3>3, AppendPlaces
      (* The operations that were there before.                            *)
      <3>6. ASSUME NEW u \in Queues, NEW i \in DOMAIN popped[u], popped[u][i] = o,
                   i = 1 /\ u # q => stage[u] # "released"
            PROVE  Held(o)'
        <4>1. i \in DOMAIN queue'[u] /\ queue'[u][i] = o
          BY <3>3, <3>5, <3>6
        <4>2. i = 1 => stage'[u] # "released"
          BY <3>4, <3>6
        <4>3. QED
          BY <4>1, <4>2 DEF Held, Live
      <3>7. CASE x = o
        <4>1. Len(popped[r]) + 1 = 1 => stage'[r] # "released"
          <5>1. CASE r = q
            BY <3>4, <5>1
          <5>2. CASE r # q
            BY <3>2, <3>3, <3>4, <3>5, <5>2 DEF BusyHasHead
          <5>3. QED
            BY <5>1, <5>2
        <4>2. Len(popped[r]) + 1 \in DOMAIN queue'[r]
          BY <3>5
        <4> DEFINE last == Len(popped[r]) + 1
        <4>3. last \in DOMAIN queue'[r] /\ queue'[r][last] = o /\ (last = 1 => stage'[r] # "released")
          BY <3>5, <3>7, <4>1, <4>2
        <4> HIDE DEF last
        <4>4. QED
          BY <4>3 DEF Held, Live
      <3>8. CASE x # o
        <4>1. CASE \E t \in Threads : claimed[t] = o
          BY <2>1, <4>1 DEF Held
        <4>2. CASE \E u \in Queues : \E i \in DOMAIN queue[u] : Live(u, i) /\ queue[u][i] = o
          <5> PICK u \in Queues : \E i \in DOMAIN queue[u] : Live(u, i) /\ queue[u][i] = o
            BY <4>2
          <5>1. PICK i \in DOMAIN queue[u] : Live(u, i) /\ queue[u][i] = o
            OBVIOUS
          <5>2. CASE u # q
            BY <3>2, <3>6, <5>1, <5>2 DEF Live
          <5>3. CASE u = q
            <6>1. i # 1
              BY <3>1, <3>8, <5>1, <5>3, HeadAt DEF x
            <6>2. i - 1 \in DOMAIN popped[q] /\ popped[q][i - 1] = o
              BY <2>1, <3>1, <3>2, <5>1, <5>3, <6>1, TailMoves
            <6>3. QED
              BY <3>6, <6>2
          <5>4. QED
            BY <5>2, <5>3
        <4>3. QED
          BY <2>1, <4>1, <4>2 DEF Held
      <3>9. QED
        BY <3>7, <3>8
    <2>4. QED
      BY <2>1, <2>2, <2>3
  <1>9. CASE \E u \in Objs : Create(u) \/ Delete(u) \/ SettleLater(u)
    BY <1>1, <1>9 DEF Create, Delete, SettleLater, walkVars, opVars
  <1>10. CASE \E t \in Threads : \/ NotifyAll(t)
                                 \/ \E u \in Objs : NotifyObject(t, u) \/ Find(t, u)
    BY <1>1, <1>10 DEF NotifyAll, NotifyObject, Find, opVars
  <1>11. CASE \E q \in Queues : Begin(q) \/ Settle(q)
    BY <1>1, <1>11 DEF Begin, Settle, walkVars, opVars, TypeOK
  <1>12. CASE \E objs \in SUBSET Objs : Reopen(objs) \/ Restart(objs)
    BY <1>1, <1>12 DEF Reopen, Restart, walkVars, opVars
  <1>13. CASE UNCHANGED vars
    BY <1>1, <1>13 DEF vars
  <1>14. QED
    BY <1>3, <1>4, <1>5, <1>6, <1>7, <1>8, <1>9, <1>10, <1>11, <1>12, <1>13
       DEF Next, Walk, Serve, Return

-----------------------------------------------------------------------------

(* The variables keep their types (all of ObjectPipelineService.m).        *)
THEOREM PipelineTypeCorrect == Spec => []TypeOK
  <1>1. IInv => TypeOK
    BY DEF IInv
  <1>2. QED
    BY <1>1, InitInv, NextInv, PTL DEF Spec

(* The list _pending does its work: whatever the number of notifications,  *)
(* threads, queues, retries and restarts, an object never has two          *)
(* operations that have not called removePending                           *)
(* (ObjectPipelineService.m:117-123).                                      *)
THEOREM PendingExcludesDuplicates == Spec => []OneOperationPerObject
  <1>1. IInv => OneOperationPerObject
    BY DEF IInv
  <1>2. QED
    BY <1>1, InitInv, NextInv, PTL DEF Spec

(* A retried or queued operation is always covered by _pending             *)
(* (ObjectPipelineService.m:190).                                          *)
THEOREM HoldersStayPending == Spec => []HeldIsPending
  <1>1. IInv => HeldIsPending
    BY DEF IInv
  <1>2. QED
    BY <1>1, InitInv, NextInv, PTL DEF Spec

(* Hence no two queues work on one object at once: the two queues of the   *)
(* encode service never write one Obj from two stores concurrently         *)
(* (ObjectPipelineService.m:47-51, MessageEncodeService.m:79).             *)
THEOREM QueuesExclude == Spec => []NoConcurrentWork
  <1>1. IInv => NoConcurrentWork
    <2> SUFFICES ASSUME IInv, NEW q \in Queues, NEW r \in Queues,
                        Performing(q), Performing(r),
                        Head(queue[q]) = Head(queue[r])
                 PROVE  q = r
      BY DEF NoConcurrentWork
    <2>1. \A u \in {q, r} : queue[u] \in Seq(Objs) /\ queue[u] # <<>>
      BY DEF IInv, TypeOK, BusyHasHead, Performing
    <2>2. \A u \in {q, r} : Head(queue[u]) = queue[u][1] /\ 1 \in DOMAIN queue[u]
      BY <2>1, TailPlaces
    <2>3. Live(q, 1) /\ Live(r, 1)
      BY <2>2 DEF Live, Performing
    <2>4. QED
      BY <2>2, <2>3 DEF IInv, OneOperationPerObject
  <1>2. QED
    BY <1>1, InitInv, NextInv, PTL DEF Spec
=============================================================================
