------------------------ MODULE MessageDecodeProofs -------------------------
(* What the decode stage guarantees for any number of rows, messages,      *)
(* feeds, threads, restarts and failing saves.                             *)
EXTENDS MessageDecode, TLAPS

PP == INSTANCE ObjectPipelineProofs WITH Objs <- Rows, Queues <- {Queue}

(* Every step of the stage is one of the pipeline, or none.                *)
LEMMA PipeStep == [Next]_vars => [Pipe!Next]_(Pipe!vars)
  <1> SUFFICES ASSUME [Next]_vars PROVE Pipe!Next \/ UNCHANGED pipeVars
    BY DEF Pipe!vars, pipeVars
  <1> USE DEF Pipe!Next
  <1>1. ASSUME NEW r \in Rows, Receive(r) PROVE Pipe!Next
    BY <1>1 DEF Receive
  <1>2. ASSUME NEW t \in Threads, NEW r \in Rows, Post(t, r) PROVE Pipe!Next
    BY <1>2 DEF Post
  <1>3. ASSUME NEW t \in Threads, NEW p \in Payloads, KeyArrives(t, p) PROVE Pipe!Next
    BY <1>3 DEF KeyArrives
  <1>4. ASSUME NEW t \in Threads, Walk(t) PROVE Pipe!Next
    BY <1>4 DEF Walk
  <1>5. ASSUME Operation PROVE Pipe!Next \/ UNCHANGED pipeVars
    <2>1. CASE Begin \/ BeginMissing \/ Return
      BY <2>1 DEF Begin, BeginMissing, Return, Pipe!Serve, Pipe!Return
    <2>2. DropRow => Pipe!Next
      BY DEF DropRow, Pipe!Delete, Pipe!Existing
    <2>3. CASE Duplicate \/ Reject \/ HandleProfile
      BY <2>2, <2>3 DEF Duplicate, Reject, HandleProfile
    <2>4. CASE Malform \/ HashFails
      BY <2>2, <2>4 DEF Malform, HashFails
    <2>5. CASE NeedKey \/ Hash \/ FindFeed
      BY <2>5 DEF NeedKey, Hash, FindFeed
    <2>6. CASE Decode
      BY <2>6 DEF Decode
    <2>7. CASE Fails
      BY <2>7 DEF Fails, Pipe!Serve, Pipe!Return
    <2>8. CASE Release
      BY <2>8 DEF Release
    <2>9. QED
      BY <1>5, <2>1, <2>3, <2>4, <2>5, <2>6, <2>7, <2>8 DEF Operation
  <1>6. ASSUME NEW gone \in SUBSET Rows, NEW sent \in SUBSET Own, Restart(gone, sent)
        PROVE  Pipe!Next
    BY <1>6 DEF Restart
  <1>7. CASE UNCHANGED vars
    BY <1>7 DEF vars
  <1>8. QED
    BY <1>1, <1>2, <1>3, <1>4, <1>5, <1>6, <1>7 DEF Next

(* Whatever a decode operation does to the rows, the keys and the feeds,   *)
(* the service only takes steps of ObjectPipeline, so that what is proved  *)
(* of the pipeline holds of it (MessageDecodeService.m:50-63).             *)
THEOREM DecodeIsPipeline == Spec => IsPipeline
  <1>1. Init => Pipe!Init
    BY DEF Init
  <1>2. QED
    BY <1>1, PipeStep, PTL DEF Spec, IsPipeline, Pipe!Spec

(* The two instances of the pipeline are one.                              *)
LEMMA SamePipeline ==
    /\ Pipe!Init <=> PP!Init
    /\ [Pipe!Next]_(Pipe!vars) <=> [PP!Next]_(PP!vars)
    /\ Pipe!TypeOK <=> PP!TypeOK
  BY DEF
         Pipe!Create, PP!Create, Pipe!Delete, PP!Delete,
         Pipe!SettleLater, PP!SettleLater, Pipe!Reopen, PP!Reopen,
         Pipe!NotifyObject, PP!NotifyObject, Pipe!NotifyAll,
         PP!NotifyAll, Pipe!Find, PP!Find, Pipe!Claim, PP!Claim,
         Pipe!Enqueue, PP!Enqueue, Pipe!Begin, PP!Begin,
         Pipe!BeginMissing, PP!BeginMissing, Pipe!Settle, PP!Settle,
         Pipe!Release, PP!Release, Pipe!Done, PP!Done, Pipe!Fail,
         PP!Fail, Pipe!Restart, PP!Restart, Pipe!Walk, PP!Walk,
         Pipe!Return, PP!Return, Pipe!Serve, PP!Serve, Pipe!Next,
         PP!Next, Pipe!Selected, PP!Selected, Pipe!Existing, PP!Existing,
         Pipe!Idle, PP!Idle, Pipe!InitialRun, PP!InitialRun,
         Pipe!storeVars, PP!storeVars, Pipe!walkVars, PP!walkVars,
         Pipe!opVars, PP!opVars, Pipe!vars, PP!vars, Pipe!Performing,
         PP!Performing, Pipe!RetryLimit, PP!RetryLimit,
         Pipe!FreshRetryCount, PP!FreshRetryCount, Pipe!GiveUpCount,
         PP!GiveUpCount, Pipe!StoreState, PP!StoreState, Pipe!OpStage,
         PP!OpStage, Pipe!TypeOK, PP!TypeOK, Pipe!Init, PP!Init

(* The pipeline's own invariant, of this instance.                         *)
PI == PP!IInv

(* The operation is under way exactly when the head of the queue is being  *)
(* performed, which was in the store then.                                 *)
Between == {"hashed", "newFeed", "feed"}
OpInv ==
    /\ step # "idle" <=> stage[Queue] = "performing"
    /\ step # "idle" => stored[Row] # "unborn"

(* Deduplication needs that no row comes back, and that the hash of the    *)
(* row the operation works on is saved before the rest.                    *)
HashInv ==
    /\ OneHashPerPayload
    /\ \A r \in hashed : stored[r] # "unborn"
    /\ step \in Between => Row \in hashed

(* What was decoded leaves a processed row, unless that one is forgotten.  *)
TwiceInv ==
    /\ TwiceOnlyIfForgotten
    /\ \A p \in Payloads : objs[p] > 0 =>
          p \in forgotten \/ \E r \in Rows : stored[r] = "settled" /\ PayloadOf[r] = p

(* A hash in the store is that of a used message, or of one whose          *)
(* operation is still under way or was interrupted.                        *)
LostInv ==
    /\ LostOnlyIfBroken
    /\ \A r \in Rows : stored[r] = "settled" => objs[PayloadOf[r]] > 0
    /\ \A r \in hashed : stored[r] = "selected" =>
          PayloadOf[r] \in broken \/ (step \in Between /\ r = Row)

(* A feed without members is one the operation has just made, or one whose *)
(* operation was interrupted; no object is in it in the first case.        *)
FeedInv ==
    /\ step = "newFeed" =>
          /\ FeedOf[P] # None
          /\ \A p \in Payloads : FeedOf[p] = FeedOf[P] => objs[p] = 0
    /\ step = "feed" /\ FeedOf[P] # None => feeds[FeedOf[P]] # "none"
    /\ \A f \in Feeds : feeds[f] = "bare" =>
          \/ \E o \in broken : FeedOf[o] = f
          \/ step = "newFeed" /\ FeedOf[P] = f
    /\ \A p \in Payloads : objs[p] > 0 /\ FeedOf[p] # None =>
          /\ feeds[FeedOf[p]] # "none"
          /\ FeedOf[p] \in Expanding => feeds[FeedOf[p]] = "ready"

IInv == PI /\ TypeOK /\ OpInv /\ HashInv /\ TwiceInv /\ LostInv /\ FeedInv

-----------------------------------------------------------------------------

LEMMA PipelineInv ==
    /\ Init => PI
    /\ PI /\ [Next]_vars => PI'
    /\ PI => Pipe!TypeOK /\ PP!OneOperationPerObject
  <1>1. PP!PipelineAssumption
    BY DecodeAssumption DEF PP!PipelineAssumption
  <1>2. Init => PI
    BY <1>1, PP!InitInv, SamePipeline DEF Init, PI
  <1>3. PI /\ [Next]_vars => PI'
    BY <1>1, PP!NextInv, PipeStep, SamePipeline DEF PI
  <1>4. QED
    BY <1>2, <1>3, SamePipeline DEF PI, PP!IInv

(* While an operation is performed there is a row for it.                  *)
LEMMA RowIsRow ==
    ASSUME PI, TypeOK, stage[Queue] # "idle"
    PROVE  Row \in Rows /\ P \in Payloads /\ queue[Queue] \in Seq(Rows) /\ queue[Queue] # <<>>
  <1>1. queue[Queue] \in Seq(Rows) /\ queue[Queue] # <<>>
    BY DEF PI, PP!IInv, PP!BusyHasHead, TypeOK, Pipe!TypeOK
  <1>2. QED
    BY <1>1, DecodeAssumption DEF Row, P

LEMMA InitInv == Init => IInv
  BY PipelineInv, DecodeAssumption
     DEF Init, IInv, TypeOK, OpInv, HashInv, TwiceInv, LostInv, FeedInv, OneHashPerPayload,
         TwiceOnlyIfForgotten, LostOnlyIfBroken, InStore, Steps, FeedState, Between,
         Pipe!Init
-----------------------------------------------------------------------------

LEMMA TypeStep == IInv /\ [Next]_vars => TypeOK'
  <1> SUFFICES ASSUME IInv, [Next]_vars PROVE TypeOK'
    OBVIOUS
  <1>1. Pipe!TypeOK'
    BY PipelineInv, PTL DEF IInv
  <1> USE <1>1 DEF TypeOK, IInv, Steps
  <1>2. ASSUME NEW r \in Rows, Receive(r) PROVE TypeOK'
    BY <1>2, DecodeAssumption DEF Receive, history
  <1>3. ASSUME NEW t \in Threads, NEW r \in Rows, Post(t, r) PROVE TypeOK'
    BY <1>3 DEF Post, storeVars, history
  <1>4. ASSUME NEW t \in Threads, NEW p \in Payloads, KeyArrives(t, p) PROVE TypeOK'
    BY <1>4 DEF KeyArrives, history
  <1>5. ASSUME NEW t \in Threads, Walk(t) PROVE TypeOK'
    BY <1>5 DEF Walk, ownVars, storeVars, history
  <1>6. ASSUME stage[Queue] = "performing" PROVE P \in Payloads
    BY <1>6, RowIsRow
  <1>7. ASSUME NEW gone \in SUBSET Rows, NEW sent \in SUBSET Own, Restart(gone, sent)
        PROVE  TypeOK'
    <2>1. broken' \subseteq Payloads
      BY <1>6, <1>7 DEF Restart, OpInv
    <2>2. {PayloadOf[r] : r \in gone} \subseteq Payloads
      BY DecodeAssumption
    <2>3. QED
      BY <1>7, <2>1, <2>2 DEF Restart
  <1>8. ASSUME Operation PROVE TypeOK'
    <2> USE DEF history, storeVars, ownVars
    <2>1. CASE Begin \/ BeginMissing \/ Return
      BY <2>1 DEF Begin, BeginMissing, Return
    <2>2. ASSUME At(step) PROVE P \in Payloads
      BY <1>6, <2>2 DEF At, Pipe!Performing
    <2>3. ASSUME DropRow, At(step) PROVE forgotten' \subseteq Payloads /\ step' \in Steps
      BY <2>2, <2>3 DEF DropRow
    <2>4. CASE Duplicate
      BY <2>2, <2>3, <2>4 DEF Duplicate, At
    <2>5. CASE Malform
      BY <2>3, <2>5 DEF Malform, At
    <2>6. CASE NeedKey
      BY <2>2, <2>6 DEF NeedKey, At
    <2>7. CASE Hash
      BY <2>7, <1>6, RowIsRow DEF Hash, Readable, At, Pipe!Performing
    <2>8. CASE HashFails
      BY <2>2, <2>3, <2>8, DecodeAssumption DEF HashFails, Readable, At
    <2>9. CASE Reject \/ HandleProfile
      BY <2>2, <2>3, <2>9 DEF Reject, HandleProfile, At
    <2>10. CASE FindFeed
      BY <2>2, <2>10, DecodeAssumption DEF FindFeed, At, FeedState
    <2>11. CASE Decode
      <3>1. P \in Payloads
        BY <2>2, <2>11 DEF Decode, At
      <3>2. feeds' \in [Feeds -> FeedState]
        BY <2>11 DEF Decode, FeedState
      <3>3. objs' \in [Payloads -> Nat]
        BY <2>11, <3>1 DEF Decode
      <3>4. QED
        BY <2>11, <3>2, <3>3 DEF Decode
    <2>12. CASE Fails
      BY <1>6, <2>12, DecodeAssumption DEF Fails, OpInv
    <2>13. CASE Release
      BY <2>13 DEF Release
    <2>14. QED
      BY <1>8, <2>1, <2>4, <2>5, <2>6, <2>7, <2>8, <2>9, <2>10, <2>11, <2>12, <2>13
         DEF Operation
  <1>9. CASE UNCHANGED vars
    BY <1>9 DEF vars, ownVars, storeVars, history
  <1>10. QED
    BY <1>2, <1>3, <1>4, <1>5, <1>7, <1>8, <1>9 DEF Next
-----------------------------------------------------------------------------

(* Steps that save nothing the invariant is about: the operation is not    *)
(* between its first and last save, or stays where it is.                  *)
LEMMA FrameStep ==
    ASSUME IInv, PI', TypeOK', OpInv',
           UNCHANGED <<hashed, outbound, feeds, objs, handled, history>>,
           \A r \in Rows : \/ stored'[r] = stored[r]
                           \/ stored[r] = "unborn" /\ stored'[r] = "selected",
           \/ step \notin Between /\ step' \notin Between
           \/ step' = step /\ Row' = Row
    PROVE  IInv'
  <1> USE DEF IInv, TypeOK, InStore, history, Between, P
  <1>1. HashInv'
    BY DEF HashInv, OneHashPerPayload
  <1>2. TwiceInv'
    BY DEF TwiceInv, TwiceOnlyIfForgotten
  <1>3. LostInv'
    BY DEF LostInv, LostOnlyIfBroken, HashInv
  <1>4. FeedInv'
    BY DEF FeedInv
  <1>5. QED
    BY <1>1, <1>2, <1>3, <1>4

(* The row is deleted: nothing of its content is used any more.            *)
LEMMA DropStep ==
    ASSUME IInv, PI', TypeOK', OpInv', DropRow, step \in {"check", "again", "hashed"},
           UNCHANGED <<hashed, outbound, feeds, objs>>,
           handled \subseteq handled', broken \subseteq broken',
           \A p \in dropped' : p \notin dropped =>
               p \in Own \/ objs[p] > 0 \/ p \in broken'
    PROVE  IInv'
  <1> USE DEF IInv, TypeOK
  <1>1. /\ Row \in Rows /\ step' = "end"
        /\ stored' = [stored EXCEPT ![Row] = "deleted"]
        /\ forgotten' = IF stored[Row] = "settled" THEN forgotten \cup {P} ELSE forgotten
    BY DEF DropRow, Pipe!Delete, Pipe!Existing
  <1>2. \A r \in Rows : r # Row => stored'[r] = stored[r]
    BY <1>1 DEF Pipe!TypeOK
  <1>3. stored'[Row] = "deleted"
    BY <1>1 DEF Pipe!TypeOK
  <1>4. HashInv'
    BY <1>1, <1>2, <1>3 DEF HashInv, OneHashPerPayload, InStore, Between
  <1>5. TwiceInv'
    BY <1>1, <1>2, <1>3 DEF TwiceInv, TwiceOnlyIfForgotten, P
  <1>6. LostInv'
    <2>1. LostOnlyIfBroken'
      BY DEF LostInv, LostOnlyIfBroken
    <2>2. QED
      BY <1>1, <1>2, <1>3, <2>1 DEF LostInv, Between
  <1>7. FeedInv'
    BY <1>1 DEF FeedInv
  <1>8. QED
    BY <1>4, <1>5, <1>6, <1>7

(* The hash of the row is saved; no other row in the store has it.         *)
LEMMA HashStep == IInv /\ PI' /\ TypeOK' /\ OpInv' /\ Hash => IInv'
  <1> SUFFICES ASSUME IInv, PI', TypeOK', OpInv', Hash PROVE IInv'
    OBVIOUS
  <1> USE DEF IInv, TypeOK
  <1>1. /\ step \in {"check", "again"} /\ stage[Queue] = "performing" /\ step' = "hashed"
        /\ hashed' = hashed \cup {Row} /\ ~Known(P)
        /\ UNCHANGED <<stored, queue, outbound, feeds, objs, handled, dropped, forgotten, broken>>
    BY DEF Hash, Readable, At, Pipe!Performing, pipeVars, history
  <1>2. Row \in Rows /\ P \in Payloads /\ P = PayloadOf[Row]
    BY <1>1, RowIsRow DEF P
  <1>3. Row' = Row /\ P' = P
    BY <1>1 DEF Row, P
  <1>4. stored[Row] # "unborn"
    BY <1>1 DEF OpInv
  <1>5. HashInv'
    BY <1>1, <1>2, <1>3, <1>4 DEF HashInv, OneHashPerPayload, Known, InStore
  <1>6. TwiceInv'
    BY <1>1 DEF TwiceInv, TwiceOnlyIfForgotten
  <1>7. LostInv'
    BY <1>1, <1>3 DEF LostInv, LostOnlyIfBroken, Between
  <1>8. FeedInv'
    BY <1>1 DEF FeedInv
  <1>9. QED
    BY <1>5, <1>6, <1>7, <1>8

(* A new feed is saved without members, unless the object is in no feed or *)
(* in one that exists.                                                     *)
LEMMA FindFeedStep == IInv /\ PI' /\ TypeOK' /\ OpInv' /\ FindFeed => IInv'
  <1> SUFFICES ASSUME IInv, PI', TypeOK', OpInv', FindFeed PROVE IInv'
    OBVIOUS
  <1> USE DEF IInv, TypeOK
  <1>1. /\ step = "hashed" /\ stage[Queue] = "performing"
        /\ UNCHANGED <<stored, queue, hashed, outbound, objs, handled, dropped, forgotten,
                       broken>>
    BY DEF FindFeed, At, Pipe!Performing, pipeVars, history
  <1>2. Row \in Rows /\ P \in Payloads /\ Row' = Row /\ P' = P
    BY <1>1, RowIsRow DEF Row, P
  <1>3. \/ /\ FeedOf[P] \in Feeds /\ feeds[FeedOf[P]] = "none" /\ step' = "newFeed"
           /\ feeds' = [feeds EXCEPT ![FeedOf[P]] = "bare"]
        \/ /\ FeedOf[P] = None \/ feeds[FeedOf[P]] # "none"
           /\ step' = "feed" /\ feeds' = feeds
    BY <1>2, DecodeAssumption DEF FindFeed
  <1>4. HashInv'
    BY <1>1, <1>2, <1>3 DEF HashInv, OneHashPerPayload, InStore, Between
  <1>5. TwiceInv'
    BY <1>1 DEF TwiceInv, TwiceOnlyIfForgotten
  <1>6. LostInv'
    BY <1>1, <1>2, <1>3 DEF LostInv, LostOnlyIfBroken, Between
  <1>7. FeedInv'
    <2>1. CASE step' = "newFeed"
      <3>1. /\ FeedOf[P] \in Feeds /\ feeds[FeedOf[P]] = "none"
            /\ feeds' = [feeds EXCEPT ![FeedOf[P]] = "bare"]
        BY <1>3, <2>1
      <3>2. \A p \in Payloads : FeedOf[p] = FeedOf[P] => objs[p] = 0
        BY <3>1, DecodeAssumption DEF FeedInv
      <3>3. QED
        BY <1>1, <1>2, <2>1, <3>1, <3>2, DecodeAssumption DEF FeedInv
    <2>2. CASE step' = "feed"
      BY <1>1, <1>2, <1>3, <2>2 DEF FeedInv
    <2>3. QED
      BY <1>3, <2>1, <2>2
  <1>8. QED
    BY <1>4, <1>5, <1>6, <1>7

(* The last save.  If the message had been decoded before, the row that    *)
(* proved it would still have its hash.                                    *)
LEMMA DecodeStep == IInv /\ PI' /\ TypeOK' /\ OpInv' /\ Decode => IInv'
  <1> SUFFICES ASSUME IInv, PI', TypeOK', OpInv', Decode PROVE IInv'
    OBVIOUS
  <1> USE DEF IInv, TypeOK
  <1>1. /\ step \in {"newFeed", "feed"} /\ stage[Queue] = "performing" /\ step' = "saved"
        /\ UNCHANGED <<queue, hashed, outbound, handled, dropped, forgotten, broken>>
        /\ stored[Row] = "selected" /\ stored' = [stored EXCEPT ![Row] = "settled"]
        /\ objs' = [objs EXCEPT ![P] = @ + 1]
    BY DEF Decode, At, Pipe!Performing, Pipe!Settle, Pipe!opVars, history, Row
  <1>2. Row \in Rows /\ P \in Payloads /\ P = PayloadOf[Row] /\ Row \in hashed
    BY <1>1, RowIsRow DEF P, HashInv, Between
  <1>3. /\ stored'[Row] = "settled" /\ \A r \in Rows : r # Row => stored'[r] = stored[r]
        /\ objs'[P] = objs[P] + 1 /\ \A p \in Payloads : p # P => objs'[p] = objs[p]
        /\ objs \in [Payloads -> Nat]
    BY <1>1, <1>2 DEF Pipe!TypeOK
  <1>4. P \notin outbound
    BY <1>1, <1>2 DEF HashInv, OneHashPerPayload, InStore
  <1>5. objs[P] > 0 => P \in forgotten
    BY <1>1, <1>2 DEF TwiceInv, HashInv, OneHashPerPayload, InStore
  <1>6. HashInv'
    BY <1>1, <1>2, <1>3 DEF HashInv, OneHashPerPayload, InStore, Between
  <1>7. TwiceInv'
    BY <1>1, <1>2, <1>3, <1>4, <1>5 DEF TwiceInv, TwiceOnlyIfForgotten
  <1>8. LostInv'
    BY <1>1, <1>2, <1>3 DEF LostInv, LostOnlyIfBroken, Between
  <1>9. FeedInv'
    <2>1. feeds' = IF step = "newFeed" \/ FeedOf[P] \in Expanding
                   THEN [feeds EXCEPT ![FeedOf[P]] = "ready"] ELSE feeds
      BY DEF Decode
    <2>2. FeedOf[P] # None => FeedOf[P] \in Feeds
      BY <1>2, DecodeAssumption
    <2>3. QED
      BY <1>1, <1>2, <1>3, <2>1, <2>2, DecodeAssumption DEF FeedInv
  <1>10. QED
    BY <1>6, <1>7, <1>8, <1>9

(* The operation ends before its last save, and its message counts as      *)
(* broken; processed rows may have been deleted.                           *)
LEMMA BreakStep ==
    ASSUME IInv, PI', TypeOK', OpInv', step' \in {"end", "idle"},
           \A r \in Rows : \/ stored'[r] = stored[r]
                           \/ /\ stored[r] = "settled" /\ stored'[r] = "deleted"
                              /\ PayloadOf[r] \in forgotten',
           UNCHANGED <<hashed, feeds, objs, handled, dropped>>, outbound' \subseteq outbound,
           forgotten \subseteq forgotten',
           broken \subseteq broken', step \in Between => P \in broken'
    PROVE  IInv'
  <1> USE DEF IInv, TypeOK
  <1>1. HashInv'
    BY DEF HashInv, OneHashPerPayload, InStore, Between
  <1>2. TwiceInv'
    BY DEF TwiceInv, TwiceOnlyIfForgotten
  <1>3. LostInv'
    BY DEF LostInv, LostOnlyIfBroken, Between, P
  <1>4. FeedInv'
    BY DEF FeedInv, Between
  <1>5. QED
    BY <1>1, <1>2, <1>3, <1>4

(* Where the operation is, and that its row was in the store.              *)
LEMMA OpStep == IInv /\ PI' /\ [Next]_vars => OpInv'
  <1> SUFFICES ASSUME IInv, PI', [Next]_vars PROVE OpInv'
    OBVIOUS
  <1> USE DEF IInv, OpInv
  <1>1. stage[Queue] # "idle" => Row \in Rows /\ queue[Queue] \in Seq(Rows) /\ queue[Queue] # <<>>
    BY RowIsRow
  <1>2. ASSUME NEW r \in Rows, Receive(r) PROVE OpInv'
    BY <1>1, <1>2 DEF Receive, Pipe!Create, Pipe!opVars, Row, TypeOK, Pipe!TypeOK
  <1>3. ASSUME NEW t \in Threads, NEW r \in Rows, Post(t, r) PROVE OpInv'
    BY <1>3 DEF Post, Pipe!NotifyObject, Pipe!opVars, Pipe!storeVars, Row
  <1>4. ASSUME NEW t \in Threads, NEW p \in Payloads, KeyArrives(t, p) PROVE OpInv'
    BY <1>4 DEF KeyArrives, Pipe!NotifyAll, Pipe!opVars, Pipe!storeVars, Row
  <1>5. ASSUME NEW t \in Threads, Walk(t) PROVE OpInv'
    <2>1. CASE UNCHANGED <<queue, stage, stored>>
      BY <1>5, <2>1 DEF Walk, ownVars, Row
    <2>2. ASSUME Pipe!Enqueue(t, Queue) PROVE OpInv'
      <3>1. claimed[t] \in Rows
        BY <2>2 DEF Pipe!Enqueue, TypeOK, Pipe!TypeOK
      <3>2. queue'[Queue] = Append(queue[Queue], claimed[t]) /\ UNCHANGED <<stage, stored>>
        BY <2>2 DEF Pipe!Enqueue, Pipe!storeVars, TypeOK, Pipe!TypeOK
      <3>3. queue[Queue] \in Seq(Rows) /\ queue[Queue] # <<>> => Row' = Row
        BY <3>1, <3>2 DEF Row
      <3>4. QED
        BY <1>1, <1>5, <3>2, <3>3 DEF Walk, ownVars
    <2>3. QED
      BY <1>5, <2>1, <2>2
         DEF Walk, Pipe!Walk, Pipe!Find, Pipe!Claim, Pipe!opVars, Pipe!storeVars
  <1>6. ASSUME Operation PROVE OpInv'
    <2> USE DEF Row
    <2>1. CASE Begin \/ BeginMissing \/ Return
      BY <2>1 DEF Begin, BeginMissing, Return, ownVars, Pipe!Begin, Pipe!BeginMissing, Pipe!Done,
                  Pipe!storeVars, Pipe!Existing, TypeOK, Pipe!TypeOK
    <2>2. ASSUME DropRow, stage[Queue] = "performing" PROVE OpInv'
      BY <2>2, <1>1 DEF DropRow, Pipe!Delete, Pipe!opVars, TypeOK, Pipe!TypeOK
    <2>3. CASE Duplicate \/ Malform \/ HashFails \/ Reject \/ HandleProfile
      BY <2>2, <2>3 DEF Duplicate, Malform, HashFails, Readable, Reject, HandleProfile, At,
                        Pipe!Performing, pipeVars
    <2>4. CASE NeedKey \/ Hash \/ FindFeed
      BY <2>4 DEF NeedKey, Hash, Readable, FindFeed, At, Pipe!Performing, pipeVars
    <2>5. CASE Decode
      BY <2>5, <1>1 DEF Decode, At, Pipe!Performing, Pipe!Settle, Pipe!opVars, TypeOK, Pipe!TypeOK
    <2>6. CASE Fails \/ Release
      BY <2>6 DEF Fails, Release, Pipe!Fail, Pipe!Release, TypeOK, Pipe!TypeOK
    <2>7. QED
      BY <1>6, <2>1, <2>3, <2>4, <2>5, <2>6 DEF Operation
  <1>7. ASSUME NEW gone \in SUBSET Rows, NEW sent \in SUBSET Own, Restart(gone, sent)
        PROVE  OpInv'
    BY <1>7 DEF Restart, Pipe!Restart
  <1>8. CASE UNCHANGED vars
    BY <1>8 DEF vars, pipeVars, ownVars, Row
  <1>9. QED
    BY <1>2, <1>3, <1>4, <1>5, <1>6, <1>7, <1>8 DEF Next

(* A thread that walks a list may append to the queue behind the row that  *)
(* is being decoded.                                                       *)
LEMMA WalkStep == \A t \in Threads : IInv /\ PI' /\ TypeOK' /\ OpInv' /\ Walk(t) => IInv'
  <1> SUFFICES ASSUME NEW t \in Threads, IInv, PI', TypeOK', OpInv', Walk(t) PROVE IInv'
    OBVIOUS
  <1>1. UNCHANGED <<step, hashed, outbound, feeds, objs, handled, history, stage, stored>>
    BY DEF Walk, ownVars, storeVars, Pipe!Walk, Pipe!Find, Pipe!Claim, Pipe!Enqueue,
           Pipe!opVars, Pipe!storeVars
  <1>2. step \in Between => Row' = Row
    <2> SUFFICES ASSUME step \in Between PROVE Row' = Row
      OBVIOUS
    <2>1. queue[Queue] \in Seq(Rows) /\ queue[Queue] # <<>>
      BY RowIsRow DEF IInv, OpInv, Between
    <2>2. \/ queue' = queue
          \/ claimed[t] \in Rows /\ queue'[Queue] = Append(queue[Queue], claimed[t])
      BY DEF Walk, Pipe!Walk, Pipe!Find, Pipe!Claim, Pipe!Enqueue, Pipe!opVars, IInv, TypeOK,
             Pipe!TypeOK
    <2>3. QED
      BY <2>1, <2>2 DEF Row
  <1>3. QED
    BY <1>1, <1>2, FrameStep

LEMMA NextInv == IInv /\ [Next]_vars => IInv'
  <1> SUFFICES ASSUME IInv, [Next]_vars PROVE IInv'
    OBVIOUS
  <1>1. PI' /\ TypeOK' /\ OpInv'
    BY PipelineInv, TypeStep, OpStep DEF IInv
  <1>2. stage[Queue] = "performing" => Row \in Rows
    BY RowIsRow DEF IInv
  <1>3. ASSUME NEW r \in Rows, Receive(r) PROVE IInv'
    BY <1>1, <1>3, FrameStep
       DEF Receive, Pipe!Create, Pipe!opVars, Row, IInv, TypeOK, Pipe!TypeOK
  <1>4. ASSUME NEW t \in Threads, NEW r \in Rows, Post(t, r) PROVE IInv'
    BY <1>1, <1>4, FrameStep
       DEF Post, storeVars, Pipe!NotifyObject, Pipe!opVars, Pipe!storeVars, Row
  <1>5. ASSUME NEW t \in Threads, NEW p \in Payloads, KeyArrives(t, p) PROVE IInv'
    BY <1>1, <1>5, FrameStep
       DEF KeyArrives, Pipe!NotifyAll, Pipe!opVars, Pipe!storeVars, Row
  <1>6. ASSUME NEW t \in Threads, Walk(t) PROVE IInv'
    BY <1>1, <1>6, WalkStep
  <1>7. ASSUME Operation PROVE IInv'
    <2>1. CASE Begin \/ BeginMissing \/ Return
      <3>1. UNCHANGED <<stored, hashed, outbound, feeds, objs, handled, history>>
        BY <2>1 DEF Begin, BeginMissing, Return, ownVars, storeVars, Pipe!Begin,
                    Pipe!BeginMissing, Pipe!Done, Pipe!storeVars
      <3>2. step \notin Between /\ step' \notin Between
        BY <2>1 DEF Begin, BeginMissing, Return, ownVars, Pipe!Begin, Pipe!BeginMissing,
                    IInv, OpInv, Between
      <3>3. QED
        BY <1>1, <3>1, <3>2, FrameStep
    <2>2. CASE Duplicate
      <3>1. P \in Own \/ objs[P] > 0 \/ P \in broken
        BY <2>2 DEF Duplicate, At, Known, IInv, TypeOK, LostInv, Between
      <3>2. QED
        BY <1>1, <2>2, <3>1, DropStep DEF Duplicate, At, storeVars
    <2>3. CASE Malform
      <3>1. CASE DropRow
        BY <1>1, <2>3, <3>1, DropStep DEF Malform, At, storeVars
      <3>2. CASE UNCHANGED <<pipeVars, forgotten>> /\ step = "again" /\ step' = "end"
        BY <1>1, <2>3, <3>2, FrameStep DEF Malform, storeVars, pipeVars, history, Between
      <3>3. QED
        BY <2>3, <3>1, <3>2 DEF Malform
    <2>4. CASE NeedKey
      BY <1>1, <2>4, FrameStep DEF NeedKey, At, pipeVars, Between
    <2>5. CASE Hash
      BY <1>1, <2>5, HashStep
    <2>6. CASE HashFails
      <3>1. CASE DropRow
        BY <1>1, <2>6, <3>1, DropStep DEF HashFails, Readable, At, storeVars
      <3>2. CASE UNCHANGED <<pipeVars, forgotten>> /\ step = "again" /\ step' = "end"
        BY <1>1, <2>6, <3>2, BreakStep DEF HashFails, pipeVars, storeVars, Between
      <3>3. QED
        BY <2>6, <3>1, <3>2 DEF HashFails, Readable, At
    <2>7. CASE Reject \/ HandleProfile
      BY <1>1, <2>7, DropStep DEF Reject, HandleProfile, At, storeVars
    <2>8. CASE FindFeed
      BY <1>1, <2>8, FindFeedStep
    <2>9. CASE Decode
      BY <1>1, <2>9, DecodeStep
    <2>10. CASE Fails
      BY <1>1, <2>10, BreakStep DEF Fails, Pipe!Fail, Pipe!storeVars, storeVars, Between
    <2>11. CASE Release
      BY <1>1, <2>11, FrameStep
         DEF Release, Pipe!Release, Pipe!storeVars, storeVars, Between
    <2>12. QED
      BY <1>7, <2>1, <2>2, <2>3, <2>4, <2>5, <2>6, <2>7, <2>8, <2>9, <2>10, <2>11
         DEF Operation
  <1>8. ASSUME NEW gone \in SUBSET Rows, NEW sent \in SUBSET Own, Restart(gone, sent)
        PROVE  IInv'
    BY <1>1, <1>8, BreakStep
       DEF Restart, Pipe!Restart, Between, IInv, TypeOK, Pipe!TypeOK
  <1>9. CASE UNCHANGED vars
    BY <1>1, <1>9, FrameStep DEF vars, pipeVars, ownVars, storeVars, Row
  <1>10. QED
    BY <1>3, <1>4, <1>5, <1>6, <1>7, <1>8, <1>9 DEF Next

-----------------------------------------------------------------------------
(* No claim is left behind.  The pipeline's rule says when an operation    *)
(* lets its row go; of the decode stage's operations none does but the one *)
(* that does not find the row.                                             *)

HeldInv == PP!WalkInv /\ PendingIsHeld

LEMMA AppendDiffers ==
    ASSUME NEW S, NEW s \in Seq(S), NEW x \in S PROVE Append(s, x) # s
  OBVIOUS

LEMMA LetsGoMissing ==
    ASSUME IInv, [Next]_vars, NEW r \in pending', PP!LetsGo(r)
    PROVE  r \notin PP!Existing
  <1> SUFFICES ASSUME queue[Queue] # <<>>, queue' = [queue EXCEPT ![Queue] = Tail(@)],
                      stage[Queue] = "performing", stage'[Queue] = "idle"
               PROVE  FALSE
    BY DEF PP!LetsGo
  <1> USE DEF IInv, TypeOK, Pipe!TypeOK
  <1>1. ASSUME UNCHANGED stage PROVE FALSE
    BY <1>1
  <1>2. CASE Fails
    <2>1. Row \in Rows /\ queue[Queue] \in Seq(Rows)
      BY RowIsRow
    <2>2. Tail(queue[Queue]) \in Seq(Rows)
      BY <2>1, PP!TailPlaces
    <2>3. queue'[Queue] = Tail(queue[Queue])
      OBVIOUS
    <2>4. queue'[Queue] = Append(Tail(queue[Queue]), Row)
      BY <1>2 DEF Fails, Pipe!Fail, Pipe!FreshRetryCount, Pipe!RetryLimit, Row
    <2>5. QED
      BY <2>1, <2>2, <2>3, <2>4, AppendDiffers
  <1>3. CASE Operation /\ ~Fails
    BY <1>1, <1>3 DEF Operation, Begin, BeginMissing, Return, Duplicate, Malform, HashFails,
                      Reject, HandleProfile, NeedKey, Hash, FindFeed, Decode, Release, DropRow,
                      pipeVars, Pipe!Begin, Pipe!BeginMissing, Pipe!Done, Pipe!Delete,
                      Pipe!Settle, Pipe!Release, Pipe!opVars
  <1>4. CASE \E gone \in SUBSET Rows, sent \in SUBSET Own : Restart(gone, sent)
    BY <1>4 DEF Restart, Pipe!Restart
  <1>5. CASE \E s \in Rows : Receive(s)
    BY <1>1, <1>5 DEF Receive, Pipe!Create, Pipe!opVars
  <1>6. ASSUME NEW t \in Threads,
               \/ Walk(t) \/ \E s \in Rows : Post(t, s)
               \/ \E p \in Payloads : KeyArrives(t, p)
        PROVE  FALSE
    BY <1>1, <1>6 DEF Walk, Post, KeyArrives, Pipe!Walk, Pipe!Find, Pipe!Claim, Pipe!Enqueue,
                      Pipe!NotifyObject, Pipe!NotifyAll, Pipe!opVars
  <1>7. CASE UNCHANGED vars
    BY <1>1, <1>7 DEF vars, pipeVars
  <1>8. QED
    BY <1>2, <1>3, <1>4, <1>5, <1>6, <1>7 DEF Next

LEMMA HeldStep == IInv /\ HeldInv /\ [Next]_vars => HeldInv'
  <1> SUFFICES ASSUME IInv, HeldInv, [Next]_vars PROVE HeldInv'
    OBVIOUS
  <1>1. /\ PP!PipelineAssumption /\ PP!IInv /\ PP!TypeOK /\ PP!TypeOK' /\ PP!WalkInv
        /\ [PP!Next]_(PP!vars)
    BY PipelineInv, PipeStep, SamePipeline, DecodeAssumption
       DEF IInv, PI, PP!IInv, HeldInv, PP!PipelineAssumption
  <1>2. PP!WalkInv'
    BY <1>1, PP!WalkStep
  <1>3. ASSUME NEW r \in pending' PROVE Pipe!Held(r)' \/ stored'[r] = "deleted"
    <2>1. r \in Rows /\ stored'[r] # "unborn"
      BY <1>1, <1>2 DEF PP!TypeOK, PP!WalkInv
    <2>2. CASE r \in pending /\ stored[r] = "deleted"
      BY <1>1, <2>1, <2>2, PP!Aging
    <2>3. CASE r \in pending => PP!Held(r)
      <3>1. PP!Held(r)' \/ PP!LetsGo(r)
        BY <1>1, <2>3, PP!HoldersLetGo
      <3>2. CASE PP!Held(r)'
        BY <3>2 DEF PP!Held, Pipe!Held, PP!Live, Pipe!Live
      <3>3. CASE PP!LetsGo(r)
        <4>1. r \notin PP!Existing
          BY <3>3, LetsGoMissing
        <4>2. stored[r] = "deleted"
          BY <1>1, <2>1, <3>3, <4>1
             DEF PP!TypeOK, PP!StoreState, PP!Existing, PP!LetsGo, PP!WalkInv
        <4>3. QED
          BY <1>1, <2>1, <4>2, PP!Aging
      <3>4. QED
        BY <3>1, <3>2, <3>3
    <2>4. QED
      BY <2>2, <2>3 DEF HeldInv, PendingIsHeld, PP!Held, Pipe!Held, PP!Live, Pipe!Live
  <1>4. QED
    BY <1>2, <1>3 DEF HeldInv, PendingIsHeld

-----------------------------------------------------------------------------

LEMMA Invariance == Spec => []IInv
  BY InitInv, NextInv, PTL DEF Spec

(* The variables keep their types (MessageDecodeService.m).                *)
THEOREM DecodeTypeCorrect == Spec => []TypeOK
  BY Invariance, PTL DEF IInv

(* Of the rows with one content at most one has its hash saved, whatever   *)
(* the number of copies, threads, faults and restarts                      *)
(* (MessageDecoder.m:71-79, 236-246).                                      *)
THEOREM DecodeKeepsOneHash == Spec => []OneHashPerPayload
  BY Invariance, PTL DEF IInv, HashInv

(* A message becomes an object at most once as long as the row that proves *)
(* it is kept (MessageDecodeService.m:176-189, 287-325).                   *)
THEOREM DecodeIsOnce == Spec => []TwiceOnlyIfForgotten
  BY Invariance, PTL DEF IInv, TwiceInv

(* Only an interrupted operation can make a message be thrown away as a    *)
(* duplicate of itself (MessageDecoder.m:243, MessageDecodeService.m:176). *)
THEOREM DecodeLosesOnlyBroken == Spec => []LostOnlyIfBroken
  BY Invariance, PTL DEF IInv, LostInv

(* A row is never decoded by two operations at once                        *)
(* (ObjectPipelineService.m:117-123).                                      *)
THEOREM OneDecodePerRow == Spec => []PP!OneOperationPerObject
  BY Invariance, PipelineInv, PTL DEF IInv

(* A feed that objects arrive in has its members, unless the operation     *)
(* that made a fixed one was interrupted (MessageDecodeService.m:249-285). *)
THEOREM DecodeFillsFeeds == Spec => []FeedHasMembers
  <1>1. IInv => FeedHasMembers
    BY DecodeAssumption DEF IInv, TypeOK, FeedInv, FeedHasMembers, FeedState
  <1>2. QED
    BY <1>1, Invariance, PTL

LEMMA HeldInvariance == Spec => []HeldInv
  <1>1. Init => HeldInv
    <2>1. Init => PP!Init /\ pending = {}
      BY SamePipeline DEF Init, Pipe!Init
    <2>2. PP!Init => PP!WalkInv
      BY PP!InitWalk, DecodeAssumption DEF PP!PipelineAssumption
    <2>3. QED
      BY <2>1, <2>2 DEF HeldInv, PendingIsHeld
  <1>2. QED
    BY <1>1, Invariance, HeldStep, PTL DEF Spec

(* _pending keeps no row that nobody works on, but those of rows that were *)
(* deleted before their operation began, so that the guard at              *)
(* ObjectPipelineService.m:117-119 never refuses a row for good: each exit *)
(* of the operation gives the claim back or queues the row again, whatever *)
(* saves fail.  Only the operation that does not find its row lets go of   *)
(* it as it is (lines 171-173).                                            *)
THEOREM NoDecodeClaimIsStuck == Spec => []PendingIsHeld
  <1>1. HeldInv => PendingIsHeld
    BY DEF HeldInv
  <1>2. QED
    BY <1>1, HeldInvariance, PTL

=============================================================================
