---------------------------- MODULE MessageEncode ----------------------------
(***************************************************************************)
(* The encode stage: two serial queues of a pipeline turn objects into     *)
(* outbound rows.  "selected" is encoded = nil and sent = NO; "settled" is *)
(* an object with its encoded row.  An operation works in a store context  *)
(* of its own: the sequence numbers it reads at the start are incremented  *)
(* there, and every save of the context writes those it has changed.       *)
(***************************************************************************)
EXTENDS Naturals, Sequences, FiniteSets

CONSTANTS
    Objs,         \* objects to send
    Senders,      \* the user's own identities
    Rcpts,        \* identities of recipients that are not blocked
    SenderOf,     \* [Objs -> Senders]
    RcptsOf,      \* [Objs -> SUBSET Rcpts]: the members of the feed
    Profiles,     \* profiles, all of them sent in one-time feeds or globally
    QueueOf,      \* [Objs -> Queues]: 0 for the global feed, 1 for the others
    Threads, MainThread, Queues, None,
    MaxRestarts,  \* bound on restarts
    MaxFaults     \* bound on saves that fail

ASSUME EncodeAssumption ==
    /\ SenderOf \in [Objs -> Senders]
    /\ RcptsOf \in [Objs -> SUBSET Rcpts]
    /\ QueueOf \in [Objs -> Queues]
    /\ Profiles \subseteq Objs
    /\ MainThread \in Threads /\ None \notin Objs
    /\ {MaxRestarts, MaxFaults} \subseteq Nat

VARIABLES
    stored, pending, todo, found, claimed, queue, stage, restarts,  \* the pipeline
    posting,    \* [Threads -> Objs or None]: saved and not announced yet
    step,       \* [Queues -> Steps]: how far the operation is
    left,       \* [Queues -> SUBSET Rcpts]: recipients still to be encoded for
    base, ctx,  \* [Queues -> [Rcpts -> Nat]]: nextSequenceNumber as the context
                \* last read or saved it, and as it has it now
    number,     \* [Rcpts -> Nat]: nextSequenceNumber in the store
    keys,       \* senders whose signature key is in the store
    secrets,    \* pairs that have an outgoing secret in the store
    rows,       \* [Objs -> Nat]: outbound rows saved for an object
    used,       \* pairs <<recipient, number>> of those rows
    (* history *)
    repeated,   \* recipients that were sent one number twice
    raced,      \* recipients whose number a save overwrote unread
    keyed,      \* objects encoded after their key was fetched
    broken,     \* objects whose operation ended between its last two saves, or
                \* stored the row in the last one only
    late,       \* objects claimed although they had their row
    refused,    \* objects whose second attempt failed, or whose key did
    spent,      \* objects their operation deleted
    faults

pipeVars == <<stored, pending, todo, found, claimed, queue, stage, restarts>>
ctxVars == <<left, base, ctx>>
numberVars == <<number, raced>>
storeVars == <<keys, secrets, rows, used, repeated>>
history == <<keyed, broken, late, refused, spent>>
ownVars == <<posting, step, ctxVars, numberVars, storeVars, history, faults>>
vars == <<pipeVars, ownVars>>

Pipe == INSTANCE ObjectPipeline

Steps == {"idle", "start", "first", "second",  \* attempts to encode
          "stored", "storedAgain", "refused",  \* their results
          "done", "doneAgain", "unsent"}       \* the same, saved
Zero == [r \in Rcpts |-> 0]

TypeOK ==
    /\ Pipe!TypeOK
    /\ posting \in [Threads -> Objs \cup {None}]
    /\ step \in [Queues -> Steps]
    /\ left \in [Queues -> SUBSET Rcpts]
    /\ base \in [Queues -> [Rcpts -> Nat]] /\ ctx \in [Queues -> [Rcpts -> Nat]]
    /\ number \in [Rcpts -> Nat]
    /\ keys \subseteq Senders /\ secrets \subseteq Senders \X Rcpts
    /\ rows \in [Objs -> Nat] /\ used \subseteq Rcpts \X Nat
    /\ repeated \cup raced \subseteq Rcpts
    /\ keyed \cup broken \cup late \cup refused \cup spent \subseteq Objs
    /\ faults \in 0..MaxFaults

Init ==
    /\ Pipe!Init /\ stored = [o \in Objs |-> "unborn"]
    /\ posting = [t \in Threads |-> None]
    /\ step = [q \in Queues |-> "idle"]
    /\ left = [q \in Queues |-> {}]
    /\ base = [q \in Queues |-> Zero] /\ ctx = [q \in Queues |-> Zero]
    /\ number = Zero /\ keys \in SUBSET Senders /\ secrets = {}
    /\ rows = [o \in Objs |-> 0] /\ used = {}
    /\ repeated = {} /\ raced = {} /\ keyed = {} /\ broken = {} /\ late = {}
    /\ refused = {} /\ spent = {} /\ faults = 0

-----------------------------------------------------------------------------
(* The threads that notify                                                 *)

Free(t) == Pipe!Idle(t) /\ posting[t] = None

(* sendObj: saves the object; the thread announces it next.                *)
Send(t, o) ==
    /\ Free(t)
    /\ Pipe!Create(o)
    /\ posting' = [posting EXCEPT ![t] = o]
    /\ UNCHANGED <<step, ctxVars, numberVars, storeVars, history, faults>>

Post(t) ==
    /\ posting[t] \in Objs
    /\ Pipe!NotifyObject(t, posting[t])
    /\ posting' = [posting EXCEPT ![t] = None]
    /\ UNCHANGED <<step, ctxVars, numberVars, storeVars, history, faults>>

(* The key manager has stored a signature key and posts without an id.     *)
KeyArrives(t, s) ==
    /\ Free(t)
    /\ s \notin keys
    /\ keys' = keys \cup {s}
    /\ Pipe!NotifyAll(t)
    /\ UNCHANGED <<posting, step, ctxVars, numberVars, secrets, rows, used, repeated, history,
                   faults>>

(* The feed, and the object with it, is deleted by somebody else.          *)
Vanish(o) == Pipe!Delete(o) /\ UNCHANGED ownVars

(* The queue selector asks for the feed, which a deleted object has not.   *)
Selects(o, q) == o \in Pipe!Existing => q = QueueOf[o]

(* A walk, also over a list of ids that is out of date.                    *)
Claim(t) ==
    /\ Pipe!Claim(t)
    /\ late' = IF found[t] \notin pending /\ stored[found[t]] = "settled"
               THEN late \cup {found[t]} ELSE late
    /\ UNCHANGED <<posting, step, ctxVars, numberVars, storeVars, keyed, broken, refused,
                   spent, faults>>
Walk(t) ==
    \/ \E o \in Objs : Pipe!Find(t, o) /\ UNCHANGED ownVars
    \/ Claim(t)
    \/ \E q \in Queues : Selects(claimed[t], q) /\ Pipe!Enqueue(t, q) /\ UNCHANGED ownVars

-----------------------------------------------------------------------------
(* The operation                                                           *)

Obj(q) == Head(queue[q])
Sender(q) == SenderOf[Obj(q)]
At(q, steps) == step[q] \in steps /\ Pipe!Performing(q)
Present(q) == Obj(q) \in Pipe!Existing
HasSecret(q, r) == <<Sender(q), r>> \in secrets
Step(q, s) == step' = [step EXCEPT ![q] = s]

Begin(q) ==
    /\ Pipe!Begin(q)
    /\ Step(q, "start")
    /\ UNCHANGED <<posting, ctxVars, numberVars, storeVars, history, faults>>

BeginMissing(q) == Pipe!BeginMissing(q) /\ UNCHANGED ownVars

(* Mutant: a save writes all the numbers it has read.                      *)
SaveAll(q) ==
    /\ number' = ctx[q]
    /\ raced' = raced \cup {r \in Rcpts : ctx[q][r] # base[q][r] /\ number[r] # base[q][r]}
    /\ base' = [base EXCEPT ![q] = ctx[q]]

(* A save of the context: it writes the numbers it has changed, whatever   *)
(* the store has by now.                                                   *)
Dirty(q) == {r \in Rcpts : ctx[q][r] # base[q][r]}
Save(q) ==
    /\ number' = [r \in Rcpts |-> IF r \in Dirty(q) THEN ctx[q][r] ELSE number[r]]
    /\ raced' = raced \cup {r \in Dirty(q) : number[r] # base[q][r]}
    /\ base' = [base EXCEPT ![q] = ctx[q]]

(* The context is thrown away with the operation.                          *)
EndContext(q) ==
    /\ step' = [step EXCEPT ![q] = "idle"]
    /\ left' = [left EXCEPT ![q] = {}]
    /\ base' = [base EXCEPT ![q] = Zero]
    /\ ctx' = [ctx EXCEPT ![q] = Zero]

(* The members are read, and whether they are blocked, hence their numbers. *)
Load(q) ==
    /\ At(q, {"start"})
    /\ left' = [left EXCEPT ![q] = RcptsOf[Obj(q)]]
    /\ base' = [base EXCEPT ![q] = number]
    /\ ctx' = [ctx EXCEPT ![q] = number]
    /\ Step(q, "first")
    /\ UNCHANGED <<pipeVars, posting, numberVars, storeVars, history, faults>>

(* assignSequenceNumberTo: of one recipient                                *)
Assign(q, r) ==
    /\ left' = [left EXCEPT ![q] = @ \ {r}]
    /\ ctx' = [ctx EXCEPT ![q][r] = @ + 1]

EncodeFor(q, r) ==
    /\ At(q, {"first", "second"}) /\ r \in left[q] /\ HasSecret(q, r)
    /\ Assign(q, r)
    /\ UNCHANGED <<pipeVars, posting, step, base, numberVars, storeVars, history, faults>>

(* A secret is made, signed with the sender's key and saved first.         *)
MakeSecret(q, r) ==
    /\ At(q, {"first", "second"}) /\ r \in left[q] /\ ~HasSecret(q, r)
    /\ Sender(q) \in keys /\ Present(q)
    /\ secrets' = secrets \cup {<<Sender(q), r>>}
    /\ Save(q)
    /\ Assign(q, r)
    /\ UNCHANGED <<pipeVars, posting, step, keys, rows, used, repeated, history, faults>>

NeedsKey(q) ==
    /\ At(q, {"first"}) /\ Sender(q) \notin keys
    /\ \E r \in left[q] : ~HasSecret(q, r)

(* NeedSignatureUserKey: the key is fetched and saved, with the numbers    *)
(* assigned so far, and all recipients are encoded for again ...           *)
FetchKey(q) ==
    /\ NeedsKey(q) /\ Present(q)
    /\ keys' = keys \cup {Sender(q)}
    /\ Save(q)
    /\ left' = [left EXCEPT ![q] = RcptsOf[Obj(q)]]
    /\ Step(q, "second")
    /\ UNCHANGED <<pipeVars, posting, ctx, secrets, rows, used, repeated, history, faults>>

(* ... or it cannot be had, which is taken for a result without a row.     *)
GiveUp(q) ==
    /\ Step(q, "refused")
    /\ refused' = refused \cup {Obj(q)}
RefuseKey(q) ==
    /\ NeedsKey(q)
    /\ GiveUp(q)
    /\ UNCHANGED <<pipeVars, posting, ctxVars, numberVars, storeVars, keyed, broken, late,
                   spent, faults>>

Carried(q) == {<<r, ctx[q][r] - 1>> : r \in RcptsOf[Obj(q)]}
AddRow(q) ==
    /\ rows' = [rows EXCEPT ![Obj(q)] = @ + 1]
    /\ used' = used \cup Carried(q)
    /\ repeated' = repeated \cup {r \in Rcpts : <<r, ctx[q][r] - 1>> \in used \cap Carried(q)}

(* Mutant: the row is saved, the numbers are not.                          *)
StoreRowOnly(q) ==
    /\ At(q, {"first", "second"}) /\ left[q] = {} /\ Present(q)
    /\ AddRow(q)
    /\ keyed' = IF step[q] = "second" THEN keyed \cup {Obj(q)} ELSE keyed
    /\ Step(q, IF step[q] = "second" THEN "storedAgain" ELSE "stored")
    /\ UNCHANGED <<pipeVars, posting, left, base, ctx, numberVars, keys, secrets, broken, late,
                   refused, spent, faults>>

(* The outbound row is saved with the numbers, before the object knows it. *)
Store(q) ==
    /\ At(q, {"first", "second"}) /\ left[q] = {} /\ Present(q)
    /\ AddRow(q)
    /\ keyed' = IF step[q] = "second" THEN keyed \cup {Obj(q)} ELSE keyed
    /\ Save(q)
    /\ Step(q, IF step[q] = "second" THEN "storedAgain" ELSE "stored")
    /\ UNCHANGED <<pipeVars, posting, left, ctx, keys, secrets, broken, late, refused, spent,
                   faults>>

Outcome(s) ==
    CASE s = "stored" -> "done" [] s = "storedAgain" -> "doneAgain" [] OTHER -> "unsent"

(* A row that the second attempt could not save is in the context still.   *)
HasUnsavedRow(q) == step[q] = "refused" /\ left[q] = {}

(* Mutant: obj.encoded is not set.                                         *)
FinishForgets(q) ==
    /\ At(q, {"stored", "storedAgain", "refused"}) /\ ~HasUnsavedRow(q) /\ Present(q)
    /\ IF Obj(q) \in Profiles
       THEN Pipe!Delete(Obj(q)) /\ spent' = spent \cup {Obj(q)}
       ELSE UNCHANGED <<pipeVars, spent>>
    /\ Save(q)
    /\ Step(q, Outcome(step[q]))
    /\ UNCHANGED <<posting, left, ctx, storeVars, keyed, broken, late, refused, faults>>

(* A profile is deleted, with its one-time feed; any other object gets its *)
(* row, or none if the key was refused.  AppObjReady, PreparedEncoded.     *)
Finish(q) ==
    /\ At(q, {"stored", "storedAgain", "refused"}) /\ ~HasUnsavedRow(q) /\ Present(q)
    /\ IF Obj(q) \in Profiles
       THEN Pipe!Delete(Obj(q)) /\ spent' = spent \cup {Obj(q)}
       ELSE /\ IF step[q] # "refused" /\ stored[Obj(q)] = "selected"
               THEN Pipe!Settle(q) ELSE UNCHANGED pipeVars
            /\ UNCHANGED spent
    /\ Save(q)
    /\ Step(q, Outcome(step[q]))
    /\ UNCHANGED <<posting, left, ctx, storeVars, keyed, broken, late, refused, faults>>

(* The same save stores such a row, which the object does not refer to:    *)
(* encoded is nil since the second attempt threw.                          *)
FinishLate(q) ==
    /\ At(q, {"refused"}) /\ HasUnsavedRow(q) /\ Present(q)
    /\ IF Obj(q) \in Profiles
       THEN Pipe!Delete(Obj(q)) /\ spent' = spent \cup {Obj(q)}
       ELSE UNCHANGED <<pipeVars, spent>>
    /\ AddRow(q)
    /\ broken' = broken \cup {Obj(q)}
    /\ Save(q)
    /\ Step(q, "unsent")
    /\ UNCHANGED <<posting, left, ctx, keys, secrets, keyed, late, refused, faults>>

Release(q) ==
    /\ At(q, {"done"})
    /\ Pipe!Release(q)
    /\ EndContext(q)
    /\ UNCHANGED <<posting, numberVars, storeVars, history, faults>>

Return(q) ==
    /\ stage[q] = "released"
    /\ Pipe!Done(q)
    /\ UNCHANGED ownVars

(* main, after NO: a new operation, in the queue the selector chooses now. *)
Retry(q, retryCount) ==
    /\ \E r \in Queues : Selects(Obj(q), r) /\ Pipe!Fail(q, r, retryCount)
    /\ EndContext(q)

(* Mutant: an operation that needed a second attempt is not queued again.  *)
AgainGivenUp(q) ==
    /\ At(q, {"doneAgain"})
    /\ Retry(q, Pipe!GiveUpCount)
    /\ UNCHANGED <<posting, numberVars, storeVars, history, faults>>

(* success stays NO after a second attempt, although it has encoded.       *)
Again(q) ==
    /\ At(q, {"doneAgain"})
    /\ Retry(q, Pipe!FreshRetryCount)
    /\ UNCHANGED <<posting, numberVars, storeVars, history, faults>>

(* Mutant: the claim is dropped with the operation.                        *)
AbandonReleasing(q) ==
    /\ At(q, {"unsent"})
    /\ pending' = pending \ {Obj(q)}
    /\ queue' = [queue EXCEPT ![q] = Tail(@)]
    /\ stage' = [stage EXCEPT ![q] = "idle"]
    /\ EndContext(q)
    /\ UNCHANGED <<stored, todo, found, claimed, restarts, posting, numberVars, storeVars,
                   history, faults>>

(* retryCount was raised: no other operation, and no removePending.        *)
Abandon(q) ==
    /\ At(q, {"unsent"})
    /\ Retry(q, Pipe!GiveUpCount)
    /\ UNCHANGED <<posting, numberVars, storeVars, history, faults>>

(* A save fails, always so when the object was deleted meanwhile.          *)
Throws(q) ==
    IF Present(q) THEN faults < MaxFaults /\ faults' = faults + 1 ELSE UNCHANGED faults

(* Mutant: the operation ends without another.                             *)
FailsSilently(q) ==
    /\ At(q, {"first", "stored", "storedAgain"}) /\ Throws(q)
    /\ broken' = IF At(q, {"stored", "storedAgain"}) THEN broken \cup {Obj(q)} ELSE broken
    /\ Pipe!Done(q) /\ EndContext(q)
    /\ UNCHANGED <<posting, numberVars, storeVars, keyed, late, refused, spent>>

(* Mutant: every exception of the encoder ends in the clean-up.            *)
FailsThrough(q) ==
    /\ At(q, {"first"}) /\ Throws(q)
    /\ Step(q, "refused")
    /\ UNCHANGED <<pipeVars, posting, ctxVars, numberVars, storeVars, history>>

(* ... outside the inner @try: the operation is retried.                   *)
Fails(q) ==
    /\ At(q, {"first", "stored", "storedAgain"}) /\ Throws(q)
    /\ broken' = IF At(q, {"stored", "storedAgain"}) THEN broken \cup {Obj(q)} ELSE broken
    /\ Retry(q, Pipe!FreshRetryCount)
    /\ UNCHANGED <<posting, numberVars, storeVars, keyed, late, refused, spent>>

(* ... inside it, in the second attempt: like a key that was refused.      *)
FailsAgain(q) ==
    /\ At(q, {"second"}) /\ Throws(q)
    /\ GiveUp(q)
    /\ UNCHANGED <<pipeVars, posting, ctxVars, numberVars, storeVars, keyed, broken, late,
                   spent>>

(* ... in the clean-up after that: retryCount is raised already.           *)
FailsRefused(q) ==
    /\ At(q, {"refused"}) /\ Throws(q)
    /\ Retry(q, Pipe!GiveUpCount)
    /\ UNCHANGED <<posting, numberVars, storeVars, history>>

Operation(q) ==
    \/ Begin(q) \/ BeginMissing(q) \/ Load(q)
    \/ \E r \in Rcpts : EncodeFor(q, r) \/ MakeSecret(q, r)
    \/ FetchKey(q) \/ RefuseKey(q) \/ Store(q)
    \/ Finish(q) \/ FinishLate(q) \/ Release(q) \/ Return(q) \/ Again(q) \/ Abandon(q)
    \/ Fails(q) \/ FailsAgain(q) \/ FailsRefused(q)

(* The application ends and starts; cleanUp deletes no object.             *)
Restart ==
    /\ Pipe!Restart({})
    /\ posting' = [t \in Threads |-> None]
    /\ step' = [q \in Queues |-> "idle"]
    /\ left' = [q \in Queues |-> {}]
    /\ base' = [q \in Queues |-> Zero] /\ ctx' = [q \in Queues |-> Zero]
    /\ broken' = broken \cup {Obj(q) : q \in {p \in Queues : At(p, {"stored", "storedAgain"})}}
    /\ UNCHANGED <<numberVars, storeVars, keyed, late, refused, spent, faults>>

Next ==
    \/ \E t \in Threads : \/ \E o \in Objs : Send(t, o)
                          \/ Post(t) \/ Walk(t)
                          \/ \E s \in Senders : KeyArrives(t, s)
    \/ \E o \in Objs : Vanish(o)
    \/ \E q \in Queues : Operation(q)
    \/ Restart

Spec == Init /\ [][Next]_vars

(* What was saved is announced, threads and queues go on.                  *)
Fairness ==
    /\ \A q \in Queues : WF_vars(Operation(q))
    /\ \A t \in Threads : WF_vars(Walk(t)) /\ WF_vars(Post(t))
FairSpec == Spec /\ Fairness

-----------------------------------------------------------------------------
(* Properties                                                              *)

(* An object is encoded, and so sent, a second time only if the operation  *)
(* fetched the sender's key (MessageEncodeService.m:214, 250), or was      *)
(* interrupted between the saves of the row and of the object, or could    *)
(* save the row only together with the object (MessageEncodeService.m:243, *)
(* after a failure at MessageEncoder.m:194), or was queued from a list of  *)
(* ids, or by an announcement, that was out of date.                       *)
TwiceOnlyIfExcused ==
    \A o \in Objs : rows[o] > 1 => o \in keyed \cup broken \cup late

(* What leaves the encode stage as encoded has a row to send; a profile,   *)
(* with its one-time feed, is deleted by its operation only when its row   *)
(* has been saved, or when its key was refused                             *)
(* (MessageEncodeService.m:225-247).                                       *)
LeavesWithRow ==
    /\ \A o \in Objs : stored[o] = "settled" => rows[o] > 0
    /\ \A o \in spent : rows[o] > 0 \/ o \in refused

(* No recipient is sent the same number twice, whatever fails, is retried  *)
(* or restarted, unless an operation saved its number over one that        *)
(* another had saved since (MessageEncoder.m:100-104): two queues do that. *)
NumbersUniqueUnlessRaced == repeated \subseteq raced

(* A recipient's next number never goes back, in whatever order contexts   *)
(* that were loaded at different times save theirs, but by a save over a   *)
(* number that another one had saved since (TransportManager.m:117).       *)
NumbersNeverGoBack ==
    [][\A r \in Rcpts : number'[r] >= number[r] \/ r \in raced']_vars

(* _pending keeps no object that nobody works on, whose later              *)
(* notifications would then all be ignored (ObjectPipelineService.m:117),  *)
(* but those that were deleted before their operation began (lines         *)
(* 171-173), or whose operation gave up (MessageEncodeService.m:221-241).  *)
PendingIsHeld ==
    \A o \in pending : Pipe!Held(o) \/ stored[o] = "deleted" \/ o \in refused

(* An object that a thread has claimed is encoded, or deleted by others,   *)
(* or it was refused a key.                                                *)
ClaimedIsEncoded ==
    \A o \in Objs :
        (\E t \in Threads : claimed[t] = o) ~>
            rows[o] > 0 \/ stored[o] = "deleted" \/ o \in refused

(* The encode service is a pipeline service.                               *)
IsPipeline == Pipe!Spec
=============================================================================
