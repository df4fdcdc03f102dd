---------------------------- MODULE ObjProcessor -----------------------------
(***************************************************************************)
(* The last stage: one serial queue applies objects to their feed.  An     *)
(* object that names a parent the store does not have is set aside.  The   *)
(* machinery is ObjectPipeline's: "selected" is an encoded object with     *)
(* processed = NO, "settled" is processed = YES.  The operation never      *)
(* calls removePending.                                                    *)
(***************************************************************************)
EXTENDS Naturals, Sequences, FiniteSets

CONSTANTS
    Objs,
    Parent,       \* [Objs -> Objs \cup {None}]: the parent it names
    Deletes,      \* [Objs -> Objs \cup {None}]: what a DeleteObj names
    Renderable,   \* objects the feed shows
    Kept,         \* those whose processObjWithRecord: returns YES
    Mine,         \* objects of the user
    Time,         \* [Objs -> Nat]: their timestamps, in tenths of a second
    Clock,        \* times, in tenths, at which the user joins the feed again
    Threads, MainThread,
    OpThread,     \* the thread of the queue, which posts as well
    Queue, None,
    MaxRestarts,  \* bound on restarts
    MaxTroubles   \* bound on restarts, exceptions in an operation and joins together

ASSUME ProcessorAssumption ==
    /\ Parent \in [Objs -> Objs \cup {None}] /\ Deletes \in [Objs -> Objs \cup {None}]
    /\ Renderable \cup Kept \cup Mine \subseteq Objs
    /\ Time \in [Objs -> Nat \ {0}] /\ Clock \subseteq Nat
    /\ {MainThread, OpThread} \subseteq Threads /\ None \notin Objs
    /\ {MaxRestarts, MaxTroubles} \subseteq Nat

VARIABLES
    stored, pending, todo, found, claimed, queue, stage, restarts,  \* the pipeline
    step,       \* how far the operation is
    read,       \* the feed as the operation's store has read it
    woken,      \* children it is about to reopen
    waiting,    \* pendingParentHashes, as pairs <<parent, child>>
    posting,    \* objects saved by another stage and not announced yet
    feed,       \* [latest : object or None, time, unread]: the feed's row
    hidden,     \* objects with deleted = YES
    (* history *)
    applied,    \* [Objs -> Nat]: how often processObjWithRecord: had effect
    done,       \* objects whose processing was saved
    failed,     \* objects an operation of this run gave up
    opened,     \* the user has opened the feed
    dates,      \* times given to the feed when the user joined it again
    faults      \* exceptions and joins so far

pipeVars == <<stored, pending, todo, found, claimed, queue, stage, restarts>>
opVars == <<step, read, woken>>
history == <<applied, done, failed, opened, dates>>
ownVars == <<opVars, waiting, posting, feed, hidden, history, faults>>
vars == <<pipeVars, ownVars>>

Pipe == INSTANCE ObjectPipeline WITH Queues <- {Queue}

Steps == {"idle", "lookup", "missing", "apply", "save", "saved", "posted", "return"}
FeedRow == [latest : Objs \cup {None}, time : Nat, unread : Nat]
EmptyFeed == [latest |-> None, time |-> 0, unread |-> 0]

TypeOK ==
    /\ Pipe!TypeOK
    /\ step \in Steps /\ read \in FeedRow /\ woken \subseteq Objs
    /\ waiting \subseteq Objs \X Objs /\ posting \subseteq Objs
    /\ feed \in FeedRow /\ hidden \subseteq Objs
    /\ applied \in [Objs -> Nat] /\ done \subseteq Objs /\ failed \subseteq Objs
    /\ opened \in BOOLEAN /\ dates \subseteq Nat /\ faults \in 0..MaxTroubles

Init ==
    /\ Pipe!Init /\ stored = [o \in Objs |-> "unborn"]
    /\ step = "idle" /\ read = EmptyFeed /\ woken = {} /\ waiting = {}
    /\ posting = {} /\ feed = EmptyFeed /\ hidden = {}
    /\ applied = [o \in Objs |-> 0] /\ done = {} /\ failed = {} /\ opened = FALSE
    /\ dates = {} /\ faults = 0

(* A time as an attribute of the store has it: whole seconds.  Timestamps  *)
(* of the user's objects have fractions.                                   *)
Tenths == 10
Seconds(t) == t \div Tenths

InStore(o) == o # None /\ stored[o] \in {"selected", "settled"}

-----------------------------------------------------------------------------
(* Other threads                                                           *)

(* The decode or the encode service saves an object and posts AppObjReady. *)
Arrive(o) ==
    /\ Pipe!Create(o)
    /\ posting' = posting \cup {o}
    /\ UNCHANGED <<opVars, waiting, feed, hidden, history, faults>>

Post(t, o) ==
    /\ o \in posting
    /\ t # OpThread
    /\ Pipe!NotifyObject(t, o)
    /\ posting' = posting \ {o}
    /\ UNCHANGED <<opVars, waiting, feed, hidden, history, faults>>

Walk(t) == Pipe!Walk(t) /\ UNCHANGED ownVars

(* The user opens the feed: resetUnreadCount in the main store.            *)
OpenFeed ==
    /\ feed.unread > 0
    /\ feed' = [feed EXCEPT !.unread = 0]
    /\ opened' = TRUE
    /\ UNCHANGED <<pipeVars, opVars, waiting, posting, hidden, applied, done, failed, dates,
                   faults>>

(* join of a nearby feed that is in the store already: in a store of its   *)
(* own, the feed is dated now, and names the same object as its latest.    *)
Rejoin(now) ==
    /\ faults + restarts < MaxTroubles /\ faults' = faults + 1
    /\ feed' = [feed EXCEPT !.time = Seconds(now)]
    /\ dates' = dates \cup {Seconds(now)}
    /\ UNCHANGED <<pipeVars, opVars, waiting, posting, hidden, applied, done, failed, opened>>

-----------------------------------------------------------------------------
(* The operation                                                           *)

Row == Head(queue[Queue])
At(s) == step = s /\ Pipe!Performing(Queue)
Goto(s) == step' = s /\ UNCHANGED <<pipeVars, waiting, posting, faults>>

Begin ==
    /\ Pipe!Begin(Queue)
    /\ step' = "lookup"
    /\ UNCHANGED <<read, woken, waiting, posting, feed, hidden, history, faults>>

BeginMissing == Pipe!BeginMissing(Queue) /\ UNCHANGED ownVars

(* Mutant: the parent is not required.                                     *)
LookupAnyway ==
    /\ At("lookup") /\ stored[Row] = "selected"
    /\ Goto("apply")
    /\ read' = feed
    /\ UNCHANGED <<woken, feed, hidden, history>>

Lookup ==
    /\ At("lookup") /\ stored[Row] = "selected"
    /\ Goto(IF Parent[Row] = None \/ InStore(Parent[Row]) THEN "apply" ELSE "missing")
    /\ read' = feed
    /\ UNCHANGED <<woken, feed, hidden, history>>

(* Mutant: the object that waits keeps processed = NO.                     *)
WaitUnprocessed ==
    /\ At("missing")
    /\ waiting' = waiting \cup {<<Parent[Row], Row>>}
    /\ step' = "return"
    /\ UNCHANGED <<pipeVars, read, woken, posting, feed, hidden, history, faults>>

(* Waiting for the parent, with processed = YES.                           *)
Wait ==
    /\ At("missing")
    /\ waiting' = waiting \cup {<<Parent[Row], Row>>}
    /\ Pipe!Settle(Queue)
    /\ step' = "return"
    /\ UNCHANGED <<read, woken, posting, feed, hidden, history, faults>>

(* processObjWithRecord:, in a store of its own: a like is saved, or an    *)
(* object is deleted, or only marked if it is the user's and the deletion  *)
(* is not.  An object to delete that is not there is passed over.  The     *)
(* feed may go on naming a deleted object as its latest: the relationship  *)
(* has no inverse.                                                         *)
Apply ==
    /\ At("apply")
    /\ applied' = [applied EXCEPT ![Row] = @ + 1]
    /\ step' = "save"
    /\ LET o == Deletes[Row]
           mark == o \in Mine /\ Row \notin Mine IN
       IF ~InStore(o)
       THEN UNCHANGED <<pipeVars, hidden>>
       ELSE IF mark
       THEN hidden' = hidden \cup {o} /\ UNCHANGED pipeVars
       ELSE Pipe!Delete(o) /\ UNCHANGED hidden
    /\ UNCHANGED <<read, woken, waiting, posting, feed, done, failed, opened, dates, faults>>

(* Mutant: the object that comes last is the latest.                       *)
LatestByArrival(f) ==
    IF Row \notin Renderable THEN feed
    ELSE [latest |-> Row, time |-> Seconds(Time[Row]),
          unread |-> IF Row \in Mine THEN feed.unread ELSE f.unread + 1]

(* What the operation makes of the feed it has read: the timestamp is      *)
(* compared with its fraction, and stored without.                         *)
Updated(f) ==
    LET newest == Time[Row] >= Tenths * f.time IN
    IF Row \notin Renderable THEN feed
    ELSE [latest |-> IF newest THEN Row ELSE feed.latest,
          time   |-> IF newest THEN Seconds(Time[Row]) ELSE feed.time,
          unread |-> IF Row \in Mine THEN feed.unread ELSE f.unread + 1]

(* Mutant: processed = YES is forgotten.                                   *)
SaveUnprocessed ==
    /\ At("save")
    /\ feed' = Updated(read)
    /\ done' = done \cup {Row}
    /\ step' = "saved"
    /\ UNCHANGED <<pipeVars, read, woken, waiting, posting, hidden, applied, failed, opened,
                   dates, faults>>

(* processed = YES, or the object is discarded; the feed is saved with it. *)
Save ==
    /\ At("save")
    /\ IF ~InStore(Row) THEN UNCHANGED pipeVars
       ELSE IF Row \in Kept THEN Pipe!Settle(Queue)
       ELSE Pipe!Delete(Row)
    /\ feed' = Updated(read)
    /\ done' = done \cup {Row}
    /\ step' = "saved"
    /\ UNCHANGED <<read, woken, waiting, posting, hidden, applied, failed, opened, dates, faults>>

(* The children that wait for the object's own parent are taken off the    *)
(* list; AppObjReady without an id is posted before they are saved with    *)
(* processed = NO.                                                         *)
Wake ==
    /\ At("saved")
    /\ LET children == {c \in Objs : Parent[Row] # None /\ <<Parent[Row], c>> \in waiting} IN
       /\ woken' = {c \in children : stored[c] = "settled"}
       /\ waiting' = {w \in waiting : w[2] \notin children}
       /\ IF children = {} THEN step' = "return" /\ UNCHANGED pipeVars
          ELSE step' = "posted" /\ Pipe!NotifyAll(OpThread)
    /\ UNCHANGED <<read, posting, feed, hidden, history, faults>>

Reopen ==
    /\ At("posted") /\ Pipe!Idle(OpThread)
    /\ Pipe!Reopen({c \in woken : stored[c] = "settled"})
    /\ woken' = {} /\ step' = "return"
    /\ UNCHANGED <<read, waiting, posting, feed, hidden, history, faults>>

Leave == step' = "idle" /\ read' = EmptyFeed /\ woken' = {}

(* Mutant: removePending when an exception was caught.                     *)
FailReleasing ==
    /\ step \in {"missing", "apply", "save", "posted"} /\ Pipe!Idle(OpThread)
    /\ faults + restarts < MaxTroubles /\ faults' = faults + 1
    /\ Leave
    /\ failed' = failed \cup {Row}
    /\ pending' = pending \ {Row}
    /\ queue' = [queue EXCEPT ![Queue] = Tail(@)]
    /\ stage' = [stage EXCEPT ![Queue] = "idle"]
    /\ UNCHANGED <<stored, todo, found, claimed, restarts, waiting, posting, feed, hidden,
                   applied, done, opened, dates>>

(* An exception: nothing more is saved, and the operation returns YES.     *)
Fail ==
    /\ step \in {"missing", "apply", "save", "posted"} /\ Pipe!Idle(OpThread)
    /\ faults + restarts < MaxTroubles /\ faults' = faults + 1
    /\ Leave
    /\ failed' = failed \cup {Row}
    /\ Pipe!Done(Queue)
    /\ UNCHANGED <<waiting, posting, feed, hidden, applied, done, opened, dates>>

(* Mutant: removePending, as in the other stages.                          *)
ReturnReleasing ==
    /\ step = "return"
    /\ Leave
    /\ pending' = pending \ {Row}
    /\ queue' = [queue EXCEPT ![Queue] = Tail(@)]
    /\ stage' = [stage EXCEPT ![Queue] = "idle"]
    /\ UNCHANGED <<stored, todo, found, claimed, restarts, waiting, posting, feed, hidden,
                   history, faults>>

Return ==
    /\ step = "return"
    /\ Leave
    /\ Pipe!Done(Queue)
    /\ UNCHANGED <<waiting, posting, feed, hidden, history, faults>>

Operation ==
    \/ Begin \/ BeginMissing \/ Lookup \/ Wait \/ Apply \/ Save
    \/ Wake \/ Reopen \/ Fail \/ Return

(* The application ends and starts: the list of waiting children is lost.  *)
Restart ==
    /\ faults + restarts < MaxTroubles
    /\ Pipe!Restart({})
    /\ Leave
    /\ waiting' = {} /\ posting' = {} /\ failed' = {}
    /\ UNCHANGED <<feed, hidden, applied, done, opened, dates, faults>>

Next ==
    \/ \E o \in Objs : Arrive(o)
    \/ \E t \in Threads : Walk(t) \/ \E o \in Objs : Post(t, o)
    \/ OpenFeed \/ \E now \in Clock : Rejoin(now)
    \/ Operation
    \/ Restart

Spec == Init /\ [][Next]_vars

(* Every thread goes on, and so does the queue.                            *)
Fairness ==
    /\ WF_vars(Operation)
    /\ \A t \in Threads : WF_vars(Walk(t))
    /\ \A o \in Objs : WF_vars(\E t \in Threads : Post(t, o))
FairSpec == Spec /\ Fairness

-----------------------------------------------------------------------------
(* Properties                                                              *)

(* The effect of an object, a like for example, which is saved before the  *)
(* object is marked as processed (ObjProcessorService.m:143-156), happens  *)
(* at most once per run of the application.                                *)
AppliedOncePerRun == \A o \in Objs : applied[o] <= 1 + restarts

(* `evil trying to reprocess obj' is never logged: an operation does not   *)
(* find its object processed, however often the object was announced       *)
(* (ObjProcessorService.m:83-90).                                          *)
NoReprocessing == At("lookup") => stored[Row] # "settled"

(* No object is processed whose parent was never received                  *)
(* (ObjProcessorService.m:103-116).                                        *)
ParentFirst == \A o \in done : Parent[o] # None => stored[Parent[o]] # "unborn"

(* Whatever the order of arrival, and although the operation compares with *)
(* what it read before it saved other things (ObjProcessorService.m:127-   *)
(* 135), the feed is as recent, in whole seconds, as any object it shows,  *)
(* and its latest object is of that second: among those of one second, the *)
(* last one processed.  If the user has joined the feed again, which dates *)
(* it without an object (NearbyFeed.m:136-138), its latest may be of       *)
(* another second, and objects later than that date may be passed over.    *)
LatestIsNewest ==
    /\ \A o \in done \cap Renderable :
        \/ Seconds(Time[o]) <= feed.time
        \/ \E date \in dates : date < Seconds(Time[o])
    /\ feed.latest # None =>
        /\ feed.latest \in done
        /\ Seconds(Time[feed.latest]) = feed.time \/ feed.time \in dates

(* Until the user opens the feed, it counts each object of others that it  *)
(* shows once, though operations fail and the application restarts.        *)
UnreadIsCounted ==
    ~opened => feed.unread = Cardinality((done \cap Renderable) \ Mine)

(* The object processor is a pipeline service: also when an operation      *)
(* deletes other objects, reopens its children or posts from its own       *)
(* thread, `_pending', the walks and the queue only take steps that the    *)
(* pipeline allows.                                                        *)
IsPipeline == Pipe!Spec

(* An object a thread has claimed is processed, deleted or set aside,      *)
(* unless its operation fails, or the application ends before.             *)
ClaimedIsProcessed ==
    \A o \in Objs :
        (\E t \in Threads : claimed[t] = o) ~> stored[o] # "selected" \/ o \in failed

(* A child that waits is processed once its parent is in the store.        *)
WaitingIsProcessed ==
    \A o \in Objs :
        (\E p \in Objs : <<p, o>> \in waiting) /\ InStore(Parent[o]) ~>
            o \in done \/ ~InStore(o) \/ ~InStore(Parent[o])
=============================================================================
