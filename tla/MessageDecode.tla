---------------------------- MODULE MessageDecode ----------------------------
(***************************************************************************)
(* The decode stage: one serial queue of a pipeline turns the rows the     *)
(* listener saved into objects.  Every save of an operation is a step of   *)
(* its own, since the application can end, or the save fail, in between.   *)
(* The machinery is ObjectPipeline's; the rows are its objects: "selected" *)
(* is processed = NO, "settled" is processed = YES.                        *)
(***************************************************************************)
EXTENDS Naturals, Sequences, FiniteSets

CONSTANTS
    Rows,         \* rows of encoded messages the listener may save
    Payloads,     \* their contents, as the SHA-256 tells them apart
    PayloadOf,    \* [Rows -> Payloads]: the broker can deliver one twice
    Own,          \* payloads this device encoded itself
    Malformed,    \* payloads decodeMessage: of the decoder refuses
    Rejected,     \* payloads whose content is refused after that
    Profiles,     \* payloads that only update a profile
    Feeds, Expanding,  \* the feeds, and those whose membership expands
    FeedOf,       \* [Payloads -> Feeds \cup {None}], None: the global feed
    Threads, MainThread, Queue, None,
    MaxReceived,  \* bound on the rows that are received
    MaxRestarts,  \* bound on restarts
    MaxFaults     \* bound on saves that fail

ASSUME DecodeAssumption ==
    /\ PayloadOf \in [Rows -> Payloads]
    /\ FeedOf \in [Payloads -> Feeds \cup {None}]
    /\ Expanding \subseteq Feeds
    /\ Own \cup Malformed \cup Rejected \cup Profiles \subseteq Payloads
    /\ MainThread \in Threads /\ None \notin Rows \cup Feeds
    /\ {MaxReceived, MaxRestarts, MaxFaults} \subseteq Nat

VARIABLES
    stored, pending, todo, found, claimed, queue, stage, restarts,  \* the pipeline
    step,       \* how far the operation is
    posting,    \* rows the listener has saved and not announced yet
    hashed,     \* rows whose messageHash is saved
    outbound,   \* Own payloads that still have their outbound row
    keys,       \* payloads whose user key or incoming secret is in the store
    feeds,      \* [Feeds -> FeedState]
    objs,       \* [Payloads -> Nat]: objects made of a payload
    handled,    \* Profiles that were applied
    (* history *)
    dropped,    \* payloads of rows that were deleted as duplicates
    forgotten,  \* payloads of decoded rows that were deleted
    broken,     \* payloads whose operation ended before its last save
    faults

pipeVars == <<stored, pending, todo, found, claimed, queue, stage, restarts>>
storeVars == <<hashed, outbound, keys, feeds, objs, handled>>
history == <<dropped, forgotten, broken>>
ownVars == <<step, posting, storeVars, history, faults>>
vars == <<pipeVars, ownVars>>

Pipe == INSTANCE ObjectPipeline WITH Objs <- Rows, Queues <- {Queue}

FeedState == {"none", "bare", "ready"}
Steps == {"idle", "check", "again", "hashed", "newFeed", "feed", "saved", "end"}

TypeOK ==
    /\ Pipe!TypeOK
    /\ step \in Steps /\ posting \subseteq Rows /\ hashed \subseteq Rows
    /\ outbound \subseteq Own /\ keys \subseteq Payloads
    /\ feeds \in [Feeds -> FeedState] /\ objs \in [Payloads -> Nat]
    /\ handled \subseteq Profiles
    /\ dropped \cup forgotten \cup broken \subseteq Payloads
    /\ faults \in 0..MaxFaults

Init ==
    /\ Pipe!Init /\ stored = [r \in Rows |-> "unborn"]
    /\ step = "idle" /\ posting = {} /\ hashed = {}
    /\ outbound = Own /\ keys = {} /\ feeds = [f \in Feeds |-> "none"]
    /\ objs = [p \in Payloads |-> 0] /\ handled = {}
    /\ dropped = {} /\ forgotten = {} /\ broken = {} /\ faults = 0

-----------------------------------------------------------------------------
(* The threads that notify                                                 *)

Received == {r \in Rows : stored[r] # "unborn"}

(* The listener saves a row, acks it, and posts EncodedMessageReceived.    *)
(* The key may have been in the store before.                              *)
Receive(r) ==
    /\ Cardinality(Received) < MaxReceived
    /\ Pipe!Create(r)
    /\ posting' = posting \cup {r}
    /\ keys' \in {keys, keys \cup {PayloadOf[r]}}
    /\ UNCHANGED <<step, hashed, outbound, feeds, objs, handled, history, faults>>

Post(t, r) ==
    /\ r \in posting
    /\ Pipe!NotifyObject(t, r)
    /\ posting' = posting \ {r}
    /\ UNCHANGED <<step, storeVars, history, faults>>

(* The key manager has stored a key and posts without an id.  (One that    *)
(* came before the message: see Receive.)                                  *)
KeyArrives(t, p) ==
    /\ p \notin keys /\ \E r \in Received : PayloadOf[r] = p
    /\ keys' = keys \cup {p}
    /\ Pipe!NotifyAll(t)
    /\ UNCHANGED <<step, posting, hashed, outbound, feeds, objs, handled, history, faults>>

Walk(t) == Pipe!Walk(t) /\ UNCHANGED ownVars

-----------------------------------------------------------------------------
(* The operation                                                           *)

Row == Head(queue[Queue])
P == PayloadOf[Row]
At(s) == step = s /\ Pipe!Performing(Queue)

Begin ==
    /\ Pipe!Begin(Queue)
    /\ step' = "check"
    /\ UNCHANGED <<posting, storeVars, history, faults>>

BeginMissing == Pipe!BeginMissing(Queue) /\ UNCHANGED ownVars

(* Mutant: only processed rows and those sent from here are looked up.     *)
KnownProcessed(p) ==
    \/ p \in outbound
    \/ \E r \in hashed : PayloadOf[r] = p /\ stored[r] = "settled"

(* Mutant: only received rows are looked up.                               *)
KnownReceived(p) ==
    \E r \in hashed : PayloadOf[r] = p /\ stored[r] \in {"selected", "settled"}

(* haveHash: a row with this hash is in the store.  The row itself counts. *)
Known(p) ==
    \/ p \in outbound
    \/ \E r \in hashed : PayloadOf[r] = p /\ stored[r] \in {"selected", "settled"}

(* The row is deleted, and that is saved.                                  *)
DropRow ==
    /\ Pipe!Delete(Row)
    /\ step' = "end"
    /\ forgotten' = IF stored[Row] = "settled" THEN forgotten \cup {P} ELSE forgotten

Duplicate ==
    /\ At("check") /\ Known(P)
    /\ DropRow
    /\ dropped' = dropped \cup {P}
    /\ UNCHANGED <<posting, storeVars, broken, faults>>

(* Any other exception of the decoder.  After a key was fetched, it only   *)
(* ends the operation: the row stays.                                      *)
Malform ==
    /\ At("check") \/ At("again")
    /\ P \in Malformed
    /\ \/ step = "check" /\ ~Known(P) /\ DropRow
       \/ step = "again" /\ step' = "end" /\ UNCHANGED <<pipeVars, forgotten>>
    /\ UNCHANGED <<posting, storeVars, dropped, broken, faults>>

(* Mutant: the hash is saved before the key is looked for.                 *)
NeedKeyHashed ==
    /\ At("check") /\ ~Known(P) /\ P \notin keys
    /\ hashed' = hashed \cup {Row}
    /\ step' = "end"
    /\ UNCHANGED <<pipeVars, posting, outbound, keys, feeds, objs, handled, history, faults>>

(* NeedEncryptionUserKey: the key is fetched and saved, and the message is *)
(* decoded again; otherwise the row stays as it is.                        *)
NeedKey ==
    /\ At("check") /\ ~Known(P) /\ P \notin keys
    /\ \/ step' = "again" /\ keys' = keys \cup {P}
       \/ step' = "end" /\ UNCHANGED keys
    /\ UNCHANGED <<pipeVars, posting, hashed, outbound, feeds, objs, handled, history,
                   faults>>

Readable ==
    /\ At("check") \/ At("again")
    /\ ~Known(P) /\ P \in keys \ Malformed

(* updateEncodedMetadata: the hash is saved, processed is still NO.        *)
Hash ==
    /\ Readable
    /\ hashed' = hashed \cup {Row}
    /\ step' = "hashed"
    /\ UNCHANGED <<pipeVars, posting, outbound, keys, feeds, objs, handled, history, faults>>

(* That save fails: like any other exception of the decoder.               *)
HashFails ==
    /\ Readable
    /\ faults < MaxFaults /\ faults' = faults + 1
    /\ broken' = broken \cup {P}
    /\ IF step = "check" THEN DropRow ELSE step' = "end" /\ UNCHANGED <<pipeVars, forgotten>>
    /\ UNCHANGED <<posting, storeVars, dropped>>

(* The content is no object, or its fixed feed is not that of its          *)
(* recipients.                                                             *)
Reject ==
    /\ At("hashed") /\ P \in Rejected
    /\ DropRow
    /\ UNCHANGED <<posting, storeVars, dropped, broken, faults>>

HandleProfile ==
    /\ At("hashed") /\ P \in Profiles \ Rejected
    /\ handled' = handled \cup {P}
    /\ DropRow
    /\ UNCHANGED <<posting, hashed, outbound, keys, feeds, objs, dropped, broken, faults>>

(* The feed is looked up; a new one is saved before it has members.        *)
FindFeed ==
    /\ At("hashed") /\ P \notin Rejected \cup Profiles
    /\ IF FeedOf[P] # None /\ feeds[FeedOf[P]] = "none"
       THEN feeds' = [feeds EXCEPT ![FeedOf[P]] = "bare"] /\ step' = "newFeed"
       ELSE step' = "feed" /\ UNCHANGED feeds
    /\ UNCHANGED <<pipeVars, posting, hashed, outbound, keys, objs, handled, history, faults>>

(* Mutant: the members are attached to a new feed only.                    *)
DecodeNewOnly ==
    /\ At("newFeed") \/ At("feed")
    /\ feeds' = IF step = "newFeed" THEN [feeds EXCEPT ![FeedOf[P]] = "ready"] ELSE feeds
    /\ objs' = [objs EXCEPT ![P] = @ + 1]
    /\ Pipe!Settle(Queue)
    /\ step' = "saved"
    /\ UNCHANGED <<posting, hashed, outbound, keys, handled, history, faults>>

(* Members, object and processed = YES are saved together; AppObjReady.    *)
Decode ==
    /\ At("newFeed") \/ At("feed")
    /\ feeds' = IF step = "newFeed" \/ FeedOf[P] \in Expanding
                THEN [feeds EXCEPT ![FeedOf[P]] = "ready"] ELSE feeds
    /\ objs' = [objs EXCEPT ![P] = @ + 1]
    /\ Pipe!Settle(Queue)
    /\ step' = "saved"
    /\ UNCHANGED <<posting, hashed, outbound, keys, handled, history, faults>>

(* Mutant: the operation returns YES without removePending, not retried.   *)
FailsSilently ==
    /\ step \in {"check", "hashed", "newFeed", "feed", "saved"}
    /\ faults < MaxFaults /\ faults' = faults + 1
    /\ Pipe!Done(Queue)
    /\ step' = "idle"
    /\ broken' = IF step \in {"hashed", "newFeed", "feed"} THEN broken \cup {P} ELSE broken
    /\ UNCHANGED <<posting, storeVars, dropped, forgotten>>

(* Mutant: the claim is dropped, and the row queued again all the same.    *)
FailsReleasing ==
    /\ step \in {"check", "hashed", "newFeed", "feed", "saved"}
    /\ faults < MaxFaults /\ faults' = faults + 1
    /\ stage' = [stage EXCEPT ![Queue] = "idle"]
    /\ pending' = pending \ {Row}
    /\ queue' = [queue EXCEPT ![Queue] = Append(Tail(@), Row)]
    /\ step' = "idle"
    /\ broken' = IF step \in {"hashed", "newFeed", "feed"} THEN broken \cup {P} ELSE broken
    /\ UNCHANGED <<stored, todo, found, claimed, restarts, posting, storeVars, dropped,
                   forgotten>>

(* A save throws, or sending the profiles does: NO, and a new operation    *)
(* starts from the beginning.                                              *)
Fails ==
    /\ step \in {"check", "hashed", "newFeed", "feed", "saved"}
    /\ faults < MaxFaults /\ faults' = faults + 1
    /\ Pipe!Fail(Queue, Queue, Pipe!FreshRetryCount)
    /\ step' = "idle"
    /\ broken' = IF step \in {"hashed", "newFeed", "feed"} THEN broken \cup {P} ELSE broken
    /\ UNCHANGED <<posting, storeVars, dropped, forgotten>>

(* removePending, in the end also when the row stays unprocessed.          *)
Release ==
    /\ step \in {"saved", "end"}
    /\ Pipe!Release(Queue)
    /\ step' = "idle"
    /\ UNCHANGED <<posting, storeVars, history, faults>>

Return ==
    /\ stage[Queue] = "released"
    /\ Pipe!Done(Queue)
    /\ UNCHANGED ownVars

Operation ==
    \/ Begin \/ BeginMissing \/ Duplicate \/ Malform \/ NeedKey \/ Hash \/ HashFails
    \/ Reject \/ HandleProfile \/ FindFeed \/ Decode \/ Fails \/ Release \/ Return

(* The application ends and starts; cleanUp deletes rows whose object is   *)
(* processed and sent, those of received messages and of its own.          *)
Restart(gone, sent) ==
    /\ gone \subseteq {r \in Rows : stored[r] = "settled"}
    /\ Pipe!Restart(gone)
    /\ outbound' = outbound \ sent
    /\ forgotten' = forgotten \cup {PayloadOf[r] : r \in gone}
    /\ broken' = IF step \in {"hashed", "newFeed", "feed"} THEN broken \cup {P} ELSE broken
    /\ step' = "idle" /\ posting' = {}
    /\ UNCHANGED <<hashed, keys, feeds, objs, handled, dropped, faults>>

Next ==
    \/ \E r \in Rows : Receive(r)
    \/ \E t \in Threads : \/ \E r \in Rows : Post(t, r)
                          \/ \E p \in Payloads : KeyArrives(t, p)
                          \/ Walk(t)
    \/ Operation
    \/ \E gone \in SUBSET Rows, sent \in SUBSET Own : Restart(gone, sent)

Spec == Init /\ [][Next]_vars

(* The listener posts what it saved, threads and the queue go on.          *)
Fairness ==
    /\ WF_vars(Operation)
    /\ \A t \in Threads : WF_vars(Walk(t))
    /\ \A r \in Rows : WF_vars(\E t \in Threads : Post(t, r))
FairSpec == Spec /\ Fairness

-----------------------------------------------------------------------------
(* Properties                                                              *)

InStore(r) == stored[r] \in {"selected", "settled"}

(* Deduplication by hash (MessageDecoder.m:71-74): of the rows with one    *)
(* content at most one has its hash saved, none if this device sent it and *)
(* still has the outbound row, and every processed row has its hash.       *)
OneHashPerPayload ==
    /\ \A r, s \in hashed :
          InStore(r) /\ InStore(s) /\ PayloadOf[r] = PayloadOf[s] => r = s
    /\ \A r \in hashed : InStore(r) => PayloadOf[r] \notin outbound
    /\ \A r \in Rows : stored[r] = "settled" => r \in hashed

(* A message becomes an object twice only if the row that proved it was    *)
(* decoded has been deleted, and one of this device only after its         *)
(* outbound row has.                                                       *)
TwiceOnlyIfForgotten ==
    \A p \in Payloads : /\ objs[p] > 1 => p \in forgotten
                        /\ objs[p] > 0 => p \notin outbound

(* A message is thrown away as a duplicate, without its content ever       *)
(* having been used, only if an operation on it was interrupted between    *)
(* the save of its hash and the last save.                                 *)
LostOnlyIfBroken ==
    \A p \in dropped \ Own : objs[p] > 0 \/ p \in handled \cup broken

(* An object never arrives in an expanding feed that has no members, and   *)
(* in a fixed one only if the operation that made the feed was interrupted *)
(* (MessageDecodeService.m:249-285).                                       *)
FeedHasMembers ==
    \A p \in Payloads :
        LET f == FeedOf[p] IN
        objs[p] > 0 /\ f # None /\ feeds[f] # "ready" =>
            f \notin Expanding /\ \E o \in broken : FeedOf[o] = f

(* _pending keeps no row that nobody works on, whose later notifications   *)
(* would then all be ignored (ObjectPipelineService.m:117-119), but those  *)
(* of rows that were deleted before their operation began (lines 171-173). *)
PendingIsHeld ==
    \A r \in pending : Pipe!Held(r) \/ stored[r] = "deleted"

(* A row that a thread has claimed is decoded or deleted, or it is left    *)
(* for want of a key, or because it turned out to be malformed after one   *)
(* was fetched, or because a save failed.                                  *)
ClaimedIsDecided ==
    \A r \in Rows :
        (\E t \in Threads : claimed[t] = r) ~>
            \/ stored[r] # "selected"
            \/ PayloadOf[r] \notin keys
            \/ PayloadOf[r] \in Malformed \cup broken

(* The decode service is a pipeline service: whatever its operations do to *)
(* the rows, to the keys and to the feeds, `_pending', the walks and the   *)
(* queue only take steps that the pipeline allows.                         *)
IsPipeline == Pipe!Spec
=============================================================================
