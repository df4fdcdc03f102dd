# A verification project for Musubi (iOS)

Musubi is a messenger: feeds of objects that are encrypted for the members of
the feed and exchanged through an AMQP broker. This directory holds TLA+
modules of the path a message takes through the application, and of who gets
it, TLC configurations that check them on small instances, and theorems about
them that TLAPS checks for every instance. All paths below are relative to the
repository; `src/Musubi` holds about 21,600 lines of Objective-C, two thirds
of them views.

## 1. The system

    user --> ObjHelper --> [encode service] --> [AMQP sender] --> broker
                                                                     |
    feed <-- [object processor] <-- [decode service] <-- [AMQP listener]

Each bracketed box except the listener is a *pipeline service*: it observes a
notification, looks for rows of the store its selector accepts, and performs
an operation on each on one of its serial queues. Boxes talk only through rows
in the store and notifications that may carry the id of a row. Every thread
and every operation has a child store of its own.

| Component | State | Operations | Interacts with | What is hard |
|---|---|---|---|---|
| Object pipeline (`ObjectPipelineService.m`) | `_pending`, serial queues, retry counts | `start`, `process:`, walk, `runOperationForObject:`, `main`, `removePending`, `stop` | every stage below subclasses it | notifications on several threads, stale lists of ids, retries that bypass `_pending` |
| AMQP transport (`Transport/AMQP*.m`) | one connection, ack blocks, `declaredGroups`, probe channel, listener's flags | send, set-up, consume, ack, expire, stop | two threads share the connection; rows in both directions | broken connections, redelivery, restarts of the broker, confirmations out of place |
| Message encoding (`MessageEncodeService.m`, `MessageEncoder.m`, `TransportManager.m`) | sequence numbers, outgoing secrets, encoded rows | encode, fetch key, send one-time objects | objects in, encoded rows out | two queues, double sending, keys that cannot be had |
| Message decoding (`MessageDecodeService.m`, `MessageDecoder.m`) | message hashes, keys, feeds, members, objects | check, hash, find feed, decode, request key | rows of the listener in, objects out | duplicates, several saves per operation, restart between them |
| Object processing (`ObjProcessorService.m`, `SocialKit/Obj`) | `processed`, `pendingParentHashes`, feed summary, likes, deletions | look up parent, apply, save, wake children | objects in; feed rows shared with the views and with joining | order of arrival, times cut to whole seconds, repeated effects, lost updates |
| Persistent store (`PersistentModelStore.m`) | the root store in memory, its file | `newStore`, `save`, `otherContextSaved:` | all of the above | a save is durable only later, on the main queue |
| Start and clean-up (`Musubi.m`) | services, main store | `onAppLaunch`, `cleanUp` | deletes rows before the services start | it deletes what detects duplicates |
| Identity keys (`IdentityKeyManager.m`, Aphid providers) | requested keys, back-off | refresh, store, notify | wakes encode and decode when an account is linked | unsynchronised lists, retry commented out |
| Accounts (`AccountAuthManager.m`, `*IdentityUpdater.m`) | accounts, tokens, whitelist feeds | log in, refresh contacts | new identities for the listener | duplicates of accounts and feeds |
| Feeds, identities (`Model/Managers`) | feeds, members, identifiers | look up, create, add members, accept | inside decode and encode | lookups by shortened keys |
| Membership (`FeedManager.m`, `FeedViewController.m`, `JoinRequestObj.m`, `NearbyFeed.m`) | a list of members on each device | create, add, join, introduce, delete | lists travel with the messages | nobody keeps the lists equal |
| Objects (`SocialKit/Obj`, `FeedNameObj.m`, ...) | profile versions, names | `processObjWithRecord:` | through the object processor | order of versions |
| Push, nearby grids, Corral, views, utilities, vendored code | | | | not part of the message path |

`PROJECT.json` lists each of them under `components`, with what is modelled or
why it is not, and under `hazards` the places in the code that are hard to
test, with the properties that watch them.

### What makes each component correct

* Pipeline: one operation per object at a time; a claim is never lost while
  the object is worked on; what is claimed is performed.
* Transport: "processed" means the broker has routed the message; "acked" means
  the row is saved; each confirmation finds its own block; messages flow again
  after faults.
* Encoding: a message is sent once, with increasing numbers per recipient, and
  nothing is deleted that was not sent.
* Decoding: a message becomes an object once, is discarded only if it was used,
  and arrives in a feed that has its members.
* Processing: an effect once per run, parents before children, the newest
  object shown as the latest, to the second, the unread count exact, waiting
  children woken.
* The whole way, over stores whose files lag behind: what the user writes is
  shown on the other device, and once.
* Membership: whom a user lists lists him too; a joiner meets everybody; the
  lists agree in the end.

## 2. The modules

| Module | Models | Proofs |
|---|---|---|
| `ObjectPipeline` | the machinery of `ObjectPipelineService.m`, with arbitrary operations: the abstract specification of a stage | `ObjectPipelineProofs` |
| `MessageEncode` | the encode stage, with the encoder, the keys and the sequence numbers | `MessageEncodeProofs` |
| `AMQPTransport` | sender, listener, connection manager; broker and network external | `AMQPTransportProofs` |
| `MessageDecode` | the decode stage, with the decoder and the store's rows | `MessageDecodeProofs` |
| `ObjProcessor` | the object processor, with deletions, likes and the feed's row | `ObjProcessorProofs` |
| `Courier` | what the whole path promises to the users at its ends: an abstract specification | through `MessageFlow` |
| `ModelStore` | a root store and its file, for any contents | through `MessageFlow` |
| `MessageFlow` | the stages composed on two devices, each over a `ModelStore` | `MessageFlowProofs` |
| `FeedMembership` | the members of one feed on the devices of its users | `FeedMembershipProofs` |
| `MC...` | values for the constants of the above | |

`MessageEncode`, `MessageDecode` and `ObjProcessor` instantiate `ObjectPipeline`
as `Pipe` with their own `stored`, `pending`, `todo`, `found`, `claimed`,
`queue`, `stage` and `restarts`, build their actions from its actions, and are
shown to implement it (`IsPipeline`, checked by TLC and proved). So
`ObjectPipeline` is both a component and the promise that the stages keep.
`MessageFlow` instantiates `ModelStore` as `Store`, and `Courier` as `Path`, which
it is shown to implement (`IsCourier`, checked by TLC and proved); it leaves the machinery of
the stages to their own modules and has what happens between them.

### Correspondence with the code

**ObjectPipeline.** `stored[o]` is what the store says of an object: not there
yet, accepted by the selector, rejected by it, or deleted. A thread inside
`process:` has the ids it still walks (`todo`), the object it has looked up
without a lock (`found`), and the one it has put in `_pending` but not queued
yet (`claimed`); these are the points between which other threads run.
`stage[q]` is the head operation of queue `q`: not started, in
`performOperationOnObject:`, or past `removePending`. `main` compares the
operation's own `_retryCount`, and a retry is a new operation whose count
starts from zero, so `Fail` retries whatever the count was, unless the
operation set its count itself (`GiveUpCount`, MessageEncodeService.m:225).

**AMQPTransport.** A call of the connection manager holds `connLock` and is one
step; `sStage` and `lStage` say between which two calls the send operation and
the listener are. `conn` is a name: a connection that breaks and the one that
replaces it are different, so what was captured (`lsock`, `probe`, the
connection of a delivery) can be stale. Whether a call on a broken connection
throws or only fails later is left open (`LAck`). `blocks` is the connection manager's
`pending`, a queue of the rows its ack blocks will mark. `frames` and
`unrouted` are what is on the wire in either direction. The broker confirms in
order of publication, and one confirmation may stand for several messages: the
messages of one exchange and one queue are confirmed so, and confirmations in
another order, which a broker may send of different queues, are not explored.
`LAckBlockFails` is an NSException of an ack block. The NSError that
AMQPSenderService.m:168 throws for a row that is gone would pass the listener's
handlers; but rows are deleted only by `cleanUp`, before the services start.
The process does not restart in this module; the stages after it do, and
`MessageFlow` does.

**MessageEncode.** An operation works in a context of its own: `base` is what it
had read of the sequence numbers, `ctx` what it has now, and `Save` writes the
numbers it changed, so that of two contexts the last save wins, number by
number. The steps are those between two saves: encoding and saving the row
(`Store`), marking the object and deleting a profile's one-time feed
(`Finish`), and `removePending` with the three outcomes of the code: done,
again with a key that was fetched (the operation returns NO although it has
sent the message), given up because the key was refused. A row that the second
attempt could not save is still in the context, and the save of the clean-up
stores it (`FinishLate`), with the numbers it carries and with no object that
refers to it; a secret or a key that is left there in the same way is taken to
be lost with the context, which makes no difference to numbers and rows. The history variables
name why something happened: `keyed`, `broken`, `late`, `refused`, `spent`,
`raced`, `repeated`. The queue for large feeds is not modelled: `store` is nil
when the selector of MessageEncodeService.m:59-73 is made, so it is never
chosen. The branches for local senders and for objects of others (lines
111-120, 181-183) are unreachable: no code makes such an object.

**MessageDecode.** A row is a received encoded message, `PayloadOf` its content
as the hash tells it apart, so two deliveries of one message are two rows with
one payload; its key may be there before it or come at any time. Each save of the operation is a step: the hash (`Hash`), a new
feed (`FindFeed`), the object with feed and members (`Decode`), or the deletion
of the row. `Fails` is an exception or a failed save after the hash was saved;
`Restart` is an end of the application with `cleanUp` at the next start.

**ObjProcessor.** `Lookup` reads the feed and finds the parent, `Apply` is
`processObjWithRecord:` with its own store and save, `Save` is the save of
object and feed, `Wake` and `Reopen` are the two halves of waking children (the
notification is posted before the save). `read` is the feed as the operation
has read it, which the main thread may reset meanwhile (`OpenFeed`). Times are
in tenths of a second: `latestRenderableObjTime` is an integer (MFeed.h:37), so
the operation compares the time of its object with what was stored, and stores
its whole seconds (`Updated`, `Seconds`; ObjProcessorService.m:128-133). Of two
objects of one second the one that is processed last is the latest, even if it is
the older one. Joining a nearby feed that is known already dates the feed without
an object (`Rejoin`, NearbyFeed.m:136-138). A third writer of that field,
`acceptFeedsFromIdentity:` (FeedManager.m:310-318), which would write
milliseconds, is not modelled: its only caller, IdentityManager.m:201, has just
created the identity, which is in no feed yet, so that there is no feed to
accept.

**ModelStore, MessageFlow.** Each save of a child store changes `memory` at
once; the block that writes the file runs later on the main queue. `Stall(d)`
picks the point after which no such block runs any more before the application
ends: `file[d]` is then what a start will find, and `RestartSender` or
`RestartReceiver` goes on with that, cleaned by `cleanUp`. What the user writes
goes to the main store, which is the root store (Musubi.m:80), so it is on disk
at once (`SaveRoot`, which voids an earlier `Stall`). The sender has the two
encode queues of the service, and an operation in each may be under way at the
same time: `Load` reads the object and the recipient's next number into the
context of the operation (`ctx`), `Encode` saves the row with that number, and
the number after it, over whatever the other queue has saved meanwhile, and
`Finish` marks the object. The recipient's secret and the sender's key are there;
what their saves do to the numbers is in `MessageEncode`. The sender encodes,
marks, publishes and waits for the confirmation; a second encoding of an object
is another message with another hash. The broker keeps copies, may deliver one
again, and forgets what was acked. The receiver saves, acks, hashes, makes the
object and shows it. The history variables name the losses that explain a
repetition or a hole: `torn`, `unkept`, `raced`, `lost`, `wasted`, `expired`.

**Courier.** Of all this the users see little: `written` is what the sender has in
the feed (`Out.objs`), `screen` the copies the receiver is shown, one for each row
whose object was processed, `again` the objects that may be shown again (`torn`, or
with a row that cleanUp has deleted), `lapsed` those that may be missing (`lost`,
`wasted`, `expired`). Its steps are to write an object, to show a copy of a written
object, a second one only of an object in `again`, and a failure, which may take
copies off the receiver's screen and add to `again` and `lapsed`, but takes nothing
from the sender.

**FeedMembership.** `members[u]` is the list on the device of `u`. `unsent` are
the objects that are saved and not encoded: the recipients are the members at
the time of encoding (MessageEncodeService.m:125-168), not of writing. A message
names all its recipients, but a blind one (likes, deletions) names its receiver
only, and the decoder makes a feed of the sender and those named, or adds those
named to the feed it has (`Expand`). `Join` and `Request` are the two saves of
`NearbyFeed.join`; `Introduce` is `JoinRequestObj`, of which only the list of
the message has an effect, since `IntroductionObj` has no processing. `WriteOn`
is `Talk` when nothing else is going on, for the properties about the long run.
What happens to a message between the devices is the subject of `MessageFlow`;
here it arrives.

Definitions marked `Mutant` next to an action change it the way a slip in that
code would; `PROJECT.json` names, for each property of each run, the mutant
that makes it fail.

## 3. The runs

| Run | Instance | Properties | Result |
|---|---|---|---|
| `pipeline` | 2 objects, 2 threads, 2 queues, 1 restart (284k states) | `OneOperationPerObject`, `HeldIsPending`, `ClaimedIsPerformed` | hold |
| `transport_out` | 2 outgoing messages, one trouble of any kind (160k) | `SentWasRouted`, `NoUnexpectedAck`, `OneSendPerMessage`, `PublishedIfSettled`, `QueuedIsRouted` | hold |
| `transport_in` | 1 incoming, 1 oversized, 1 identity, 1 fault, 1 alarm (88k) | `AckedIsStored`, `IncomingIsStored`, `IdentityIsBound` | hold |
| `deaf_listener` | 1 outgoing, 1 incoming, 1 fault | `IncomingIsStored` | violated |
| `decode_copies` | 2 rows of one payload and one of this device's own, expanding feed, 1 fault, 1 restart (2.3M) | `PendingIsHeld`, `OneHashPerPayload`, `TwiceOnlyIfForgotten`, `LostOnlyIfBroken`, `FeedHasMembers` | hold |
| `decode_live` | any two of an object, a profile, a malformed message and a refused one, 1 fault, 1 restart (224k) | `ClaimedIsDecided`, `IsPipeline` | hold |
| `encode` | a profile for 2 recipients and an object for one of them, both queues, 2 threads, 1 restart (471k) | `PendingIsHeld`, `TwiceOnlyIfExcused`, `NumbersUniqueUnlessRaced`, `NumbersNeverGoBack` | hold |
| `encode_live` | 2 objects, 1 queue, 1 fault, 1 restart (87k) | `LeavesWithRow`, `ClaimedIsEncoded`, `IsPipeline` | hold |
| `flow` | 2 objects in the two queues, or 1 object and 2 troubles of any kind (325k) | `ShownOnceUnlessExcused`, `NumbersUniqueUnlessTakenBack`, `WrittenIsKept`, `IsCourier`, `WrittenIsShown` | hold |
| `processor` | picture, 2 replies, its deletion; 1 exception, restart or join (232k) | `AppliedOncePerRun`, `NoReprocessing`, `ParentFirst`, `LatestIsNewest`, `UnreadIsCounted`, `ClaimedIsProcessed`, `IsPipeline` | hold |
| `waiting_child` | picture and 2 replies, no trouble | `WaitingIsProcessed` | violated |
| `members` | 3 users, any 2 acts of theirs, then all write on (12k) | `MembersAreMutual`, `JoinerMeetsAll`, `ListsAgree` | hold |

The type invariants `TypeOK` of the modules are theorems (section 4), parts of the
inductive invariants, and no run spends its time on them.

Many of these properties have the form "..., unless": the code does repeat,
lose and overwrite, and the property names the cases, so that any other case is
a violation. `LostOnlyIfBroken`: the decoder saves the hash before the content
is used (MessageDecoder.m:243), and the retry of an operation that failed in
between deletes the message as a duplicate of itself; nothing else loses one.
`TwiceOnlyIfExcused`: a message goes out twice when its key was fetched, when
the operation ended between two saves or could save the row in the last one only,
or when a list of ids was out of date.
`NumbersUniqueUnlessRaced`: two contexts that save a number give it out twice,
and only such a save sets a number back (`NumbersNeverGoBack`).
`NumbersUniqueUnlessTakenBack` says the same of what is published, where a restart
from a file that lacks the row is the other reason. `LatestIsNewest` is to the
second, since no more is stored.
`LeavesWithRow`: what leaves the encode stage as encoded has a row to send, and a
profile is deleted without one only when its key was refused.
`OneSendPerMessage`: `_pending` of the sender is exactly what its queue holds, each
message once, although a retry is queued without asking it.
`PendingIsHeld`: an id stays in `_pending` without anybody working on it, so that
every later notification of its object is ignored
(ObjectPipelineService.m:117-119), only when its object was deleted before the
operation began, or when the encode operation gave up; the object processor keeps
all its ids on purpose and has no such property. `WrittenIsKept` is the safety
half of `WrittenIsShown`: at every moment somebody has the object and was told.

### The two disagreements

* `deaf_listener`: after waiting for its socket the listener checks that *a*
  connection is ready (AMQPConnectionManager.m:389), not that it is the one it
  consumes on. If the sender has replaced the connection, the listener stays
  deaf. `transport_in` shows that messages do arrive when there is no working
  sender to replace the connection: its only outgoing message is discarded
  before it is sent.
* `waiting_child`: ObjProcessorService.m:164 looks for waiting children under
  the object's own parent. A reply that arrived before its parent stays hidden.

### Bounds, and why they are enough

* Two threads and two queues are the least with a race for one object and a
  choice of queue; a third party adds no new pair of steps. The theorems about
  the pipeline hold for any number.
* Three rows are two copies and a bystander; a third copy only repeats the
  second. Two payloads share a feed, which is what its creation races on.
  `MaxReceived` lets `decode_live` have a row of every kind without having all
  of them at once: rows meet in the queue two by two.
* Encoding: two recipients of one object and one shared with an object of the
  other queue are what numbers can collide on.
* A picture, two replies and a deletion are the least with both an object that
  waits and one whose parent disappears; times differ from the order of
  arrival in some interleaving of every run. Replies at 3.0 and 3.9 seconds are
  of one second in either order; the feed is joined again before them, at 2.5, or
  after everything, at 4.5 (`Clock`), by the user, as one of the troubles.
* One fault, one restart, one broker restart and one alarm can fall at any
  step. `MaxTroubles` bounds the kinds together: one in `transport_out`, two in
  `transport_in`, one in `ObjProcessor`; the
  theorems need no such bound. Five names for connections
  suffice, since a name nothing refers to is used again (`FreshConn`).
* `MessageFlow` has a budget, of which an object takes two (`ObjectCost`) and a
  trouble one: a restart, a failure between two saves, a broken ack, a row
  published again. With four (`Budget`) there is one object with any two
  troubles, whose own encodings are what hashes and rows can collide on, or two
  objects without trouble, one in each encode queue, whose operations race for
  the recipient's number; nothing less than two shows that. Two objects and a
  trouble are more than 13M states and no run; the theorems hold for any number of
  objects in either queue, and any budget.
* `MaxActs` is two in `members`: additions at the same time, a like that
  overtakes the first message, a deletion and the message that undoes it, a
  join and one more act. `MembersAreMutual` was also checked with four acts of
  three users and two of four users (5M states), and is proved for any number;
  `JoinerMeetsAll` and `ListsAgree` also with three acts of three users.
* Only `pipeline` checks for deadlock: elsewhere the application may have
  nothing left to do, and the transport may be stopped.

### Fairness, and why the code justifies it

* A thread that walks a list of ids goes on, and a serial queue starts its next
  operation and runs it to the end (weak fairness on walks, on `Serve` and on
  each stage's `Operation`): nothing in these steps waits for another thread
  for ever. No operation has to *succeed*.
* What was saved is announced (weak fairness on `Post`): the notification is
  the statement after the save in the same thread.
* Transport: weak fairness of the sender and of the listener; strong fairness
  of a connection attempt that works, since both retry for ever with a bounded
  pause (AMQPConnectionManager.m:132), and of the listener's noticing that its
  socket was replaced. The broker drops dead connections (heartbeats), routes
  and delivers.
* Flow: after a start each service walks the store, and handles what it walks
  over or what is announced to it. Restarts are bounded, so the last run of each
  application goes on for ever.
* Membership: what is saved is encoded, arrives and is processed; a user's join
  goes on unless the application ends. `ListsAgree` is about users who go on
  writing to the feed, which is what the lists travel with.
* `PublishedIfSettled` and `IncomingIsStored` are conditional: `sStage` or
  `lStage` stops being "failed" at some time. Without that the two threads can
  close each other's connection for ever, since each closes whatever connection
  is current (AMQPSenderService.m:84, AMQPListenerThread.m:142); that is listed
  as a hazard.

## 4. The proofs

All theorems hold for every value of the constants that satisfies the
assumption of the module (`PipelineAssumption`, `EncodeAssumption`,
`DecodeAssumption`, `ProcessorAssumption`, `TransportAssumption`,
`FlowAssumption`, `MembershipAssumption`: None is no object, the main thread is
a thread, bounds are natural numbers, the maps are maps; for the transport also
that finitely many messages come in, and that there is a name for a connection
beyond the four that can be in use). Objects, rows, payloads, threads, queues
and users may be infinite sets.

**ObjectPipelineProofs.** The inductive invariant is

    TypeOK /\ BusyHasHead /\ HeldIsPending /\ OneOperationPerObject

`OneOperationPerObject` alone is not inductive: `Claim` keeps it only because
every holder of an object is in `_pending`, and `HeldIsPending` alone is not
either: `Release` keeps it only because no second operation holds the object.
`Fail` is the interesting step: the retry is queued without asking `_pending`,
and is protected by the claim of the operation it replaces. `NoConcurrentWork`
follows.

The converse of `HeldIsPending`, that somebody works on what is in `_pending`, is
not a property of the pipeline: an operation may return without `removePending`.
What holds of any pipeline is a rule for its steps (`HoldersLetGo`): an object
in `_pending` that somebody holds is still held after the step, or its operation
has left the head of its queue without another being queued (`LetsGo`). It rests
on `WalkInv`, that a thread has an object either found or claimed and that
nothing unsaved is in `_pending`. Each stage then shows which of its own
operations let go.

**MessageDecodeProofs.** `DecodeIsPipeline` is a refinement: each action is one
of `ObjectPipeline` or leaves its variables alone. So the pipeline's invariant
holds of the stage (through a second instance, `PP`, of the proof module, shown
equal to the first). The inductive invariant adds: `OpInv`, which ties the step
of the operation to the queue's stage; `HashInv`, that hashes are unique per
payload, that no hashed row comes back, and that an operation past its check
has saved the hash of its row; `TwiceInv`, that a payload of which an object was
made has a processed row or a forgotten one; `LostInv`, that a processed row has
its object, and that a hash on an unprocessed row means that its operation is
under way or was interrupted; `FeedInv`, that a feed without members is one the
operation has just made, in which there are no objects yet, or one whose
creation was interrupted. `PendingIsHeld` follows from the pipeline's rule: of the
exits of the operation only that of a row which is gone lets go (`LetsGoMissing`;
the failures append the row again, so the queue is not just shorter by one).

**ObjProcessorProofs.** Again a refinement first. The processor never calls
`removePending`, and this is what its guarantees rest on. The inductive
invariant has: `HeldInv`, that an object that a thread or a queued operation
holds is not processed, that a processed object which some list of ids still
has is in `_pending`, and that a child set aside is in `_pending` and held by
no one; `AppliedInv`, that an object which may still be applied was applied at
most once in each earlier run; `ParentInv`, `DoneInv` and `FeedInv` tie what the
operation has read to what it saves. The argument has one lemma on how an
object comes to be held (`HeldStep`: it was, or it was not in `_pending`), one
on how it comes to be processed (`SettledStep`), one on the lists of ids
(`AheadStep`), and the parts of the invariant follow from them.

**MessageEncodeProofs.** A refinement first. The inductive invariant is

    TypeOK /\ OpInv /\ TwiceInv /\ SentInv /\ NumberInv

together with the pipeline's. `OpInv` ties the step of an operation to its
queue; `TwiceInv` says that an object which may be encoded again has no row
yet, is named by one of the excuses, or has its operation between the two
saves; `SentInv`, the inductive form of `LeavesWithRow`,
that an operation about to delete or mark its object has saved
its row, or had its key refused, and so has one that gives up; `NumberInv` that, for a recipient whose number
no save has overwritten (`raced`), the number in the store is above all that
were given out and no context has read a larger one. From this follows the action
property `NumbersNeverGoBack`: a save writes what its context read plus one, and
what it read is smaller than the number in the store only when another context has
saved one since, which makes the recipient `raced`. `PendingIsHeld` again comes
from the pipeline's rule: an object is let go only when it is gone or `refused`
(`LetsGoRefused`), whichever queue a retry chooses.

**AMQPTransportProofs.** The inductive invariant is

    TypeOK /\ LinkInv /\ BrokerInv /\ FrameInv /\ GotInv /\ GroupInv
    /\ BlockInv /\ SentWasRouted /\ AckedIsStored

The step it turns on is a confirmation: ack blocks are found by position only.
`BlockInv` says that at any time the blocks can be split in two: the messages
of the first part are routed, and as many confirmations are on the way; those
of the second part, as long as the channel works, are what the broker has yet
to route, in the same order. `LinkInv` and `FrameInv` say whose connection each
captured name is; delivery tags are unique, so an ack means the delivery that
was saved (`GotInv`); a declared group is bound, or its exchange was lost with
a restart of the broker (`GroupInv`).

`OneSendPerMessage` has an invariant of its own, relative to this one: `QueueInv`
adds that what is in `_pending` is in the store, so that a message which has just
been submitted is not queued yet. A retry takes the head of the queue, which was
there once, and appends it again (`RetryKeeps`); a notification appends only what
is not in `_pending` (`AnnounceKeeps`).

**MessageFlowProofs.** The inductive invariant is

    TypeOK /\ JobInv /\ NumberInv /\ TornInv /\ HashInv

Each part holds of the memory and of the file alike, since a restart turns one
into the other. `JobInv`: each queue is at an object of its own, which knows of no
encoding before the operation has saved one. `NumberInv`: every number is below the
next one, in memory and in the file, unless its row was lost with a restart
(`unkept`), would be lost with one since the file lacks it, or a save of the other
queue has taken the number back (`raced`). A save that makes the next number smaller
makes `raced` all encodings that carry the numbers from it on, which is what keeps
this whatever a context had read. `TornInv`: an
object knows its encoding or is torn. `HashInv`: what was made into an object
has its hash in the same store, and the rows that have one differ.

A second invariant, relative to the first, is about where an object is:

    SenderInv /\ WrittenInv /\ MailInv /\ DecidedInv

`WrittenIsKept` is not inductive, as it speaks of the row the sending service
was told of, of the copy at the broker and of the row the decoder was told of,
and each of these is given up on the evidence of the next. `SenderInv`: the row
of an encoding stays, ready to be sent, until cleanUp expires it, and what is
marked as sent was published. `MailInv`: what the broker no longer has is in a
row that the decoder was told of, or was lost with the receiver's memory.
`DecidedInv`: a row is deleted as a duplicate only when its object was made, or
when its hash is that of an interrupted operation, in memory and in the file
alike. `WrittenInv`, that the sender's file has every written object, gives
`MadeWasWritten`: the receiver has only objects that the sender still has. Each step is one of a device (`StepsOfDevices`) and leaves the
other device's part alone.

`FlowIsCourier` is a refinement with a mapping that is not one of variables: the
screen is computed from the receiver's rows. That a copy is shown of a written
object is `MadeWasWritten`, and that a second one has its excuse
`ShownOnceUnlessExcused`, for the rows that were made; `DecidedInv` has that only
such rows are shown. `ScreenInv`, that the receiver's file has what was shown when
it stalled and has forgotten nothing else, makes a restart take only copies away
and keep all excuses. `Steady`, that a row never changes its object, makes every
other step a stutter.

**FeedMembershipProofs.** The inductive invariant is

    TypeOK /\ SelfInv /\ NetInv /\ MembersAreMutual

`MembersAreMutual` is not inductive: when a message makes a list grow, those it
adds must know the receiver. `NetInv` says so of every message on the way:
everybody it names, and its sender, lists the receiver, will be told of him by
another message on the way, or has deleted the feed. For a message that is not
blind these are the other messages of the same encoding; a blind one adds nobody
but its sender, who has the receiver in his list. `SelfInv`, that whoever has
the feed is in it, makes every such message name its sender. A corollary,
`QuietListsAreMutual`, says what remains when everything has arrived: if nobody
deleted the feed and no join was cut short, listing is mutual.

Theorems, each for the property of that name in a run:

| Theorem | Property |
|---|---|
| `PipelineTypeCorrect`, `PendingExcludesDuplicates`, `HoldersStayPending`, `QueuesExclude` | `TypeOK` (no run), `OneOperationPerObject`, `HeldIsPending`, `NoConcurrentWork` (no run: it follows from the others) |
| `DecodeIsPipeline`, `DecodeTypeCorrect`, `DecodeKeepsOneHash`, `DecodeIsOnce`, `DecodeLosesOnlyBroken`, `DecodeFillsFeeds`, `NoDecodeClaimIsStuck` | `IsPipeline`, `TypeOK` (no run), `OneHashPerPayload`, `TwiceOnlyIfForgotten`, `LostOnlyIfBroken`, `FeedHasMembers`, `PendingIsHeld` |
| `OneDecodePerRow` | `OneOperationPerObject` of the pipeline, for the rows |
| `ProcessorIsPipeline`, `ProcessorTypeCorrect`, `NothingIsReprocessed`, `EffectIsOncePerRun`, `ParentsComeFirst`, `FeedShowsNewest`, `FeedCountsUnread` | `IsPipeline`, `TypeOK` (no run), `NoReprocessing`, `AppliedOncePerRun`, `ParentFirst`, `LatestIsNewest`, `UnreadIsCounted` |
| `EncodeIsPipeline`, `EncodeTypeCorrect`, `SentTwiceOnlyIfExcused`, `NothingLeavesWithoutRow`, `NumbersRepeatOnlyIfRaced`, `NumbersOnlyGrowUnlessRaced`, `NoEncodeClaimIsStuck` | `IsPipeline`, `TypeOK` (no run), `TwiceOnlyIfExcused`, `LeavesWithRow`, `NumbersUniqueUnlessRaced`, `NumbersNeverGoBack`, `PendingIsHeld` |
| `OneEncodePerObject` | `OneOperationPerObject` of the pipeline, for the objects |
| `TransportTypeCorrect`, `SentMessagesWereRouted`, `ConfirmationsFindBlocks`, `AckedMessagesAreStored`, `MessagesHaveOneSend` | `TypeOK` (no run), `SentWasRouted`, `NoUnexpectedAck`, `AckedIsStored`, `OneSendPerMessage` |
| `FlowTypeCorrect`, `NumbersRepeatOnlyIfTakenBack`, `ObjectsAreShownOnce`, `WrittenObjectsAreKept`, `NothingIsInvented`, `FlowIsCourier` | `TypeOK` (no run), `NumbersUniqueUnlessTakenBack`, `ShownOnceUnlessExcused`, `WrittenIsKept`, `MadeWasWritten` (no run: its use is in the next), `IsCourier` |
| `MembershipTypeCorrect`, `ListedUsersListBack`, `QuietListsAreMutual` | `TypeOK` (no run), `MembersAreMutual`, mutual lists when nothing is on the way (no run: a corollary) |

Every invariant of a run is proved, and the action property and the refinements. Only model-checked are the liveness
properties (fairness and ENABLED are beyond the provers).

## 5. What is not modelled

Abstractions in what is modelled:

* The modules of the stages keep every save over a restart; that a file lags
  behind is the subject of `MessageFlow`, which in turn leaves out retries, walks
  and connections.
* One group exchange and one recipient in the transport, so that confirmations
  come in order of publication; the initial queue of an
  identity (AMQPListenerThread.m:90-115) is part of the device queue.
* One feed, and one device per user, in `FeedMembership`; users whom somebody
  blocks (MessageEncodeService.m:155-168) are not in it.
* The deletion of one-time feeds by the object processor
  (ObjProcessorService.m:151-154), times finer than a tenth of a second, and
  everything `processObjWithRecord:` of the
  other objects does beyond one saved effect.
* Contents: decryption, BSON and hashes are partitions of the payloads
  (own, malformed, refused, profile) and equality of payloads.

Parts without a module:

* Identity keys. What a request does to the messages is in `MessageEncode` and
  `MessageDecode` (fetched, refused, saved by others at any time), as the
  protocol `IdentityProvider` allows. The refresh runs only when an account is
  linked (AccountAuthManager.m:323); the provider of this commit (Musubi.m:124)
  makes keys on the spot, and the back-off is code nothing calls.
* Accounts and their updaters: remote services and vendored OAuth code around
  little state. `AMQPTransport` has the identity an account brings at any time.
* Profiles and feed names: the last version wins, by a time stamp.
* Push notifications and the grids of nearby feeds: requests to servers, and
  floating-point coordinates.
* `restoreStoreFromFile:`, `done` of the transport (only tests call it).
* Views, cryptographic primitives, vendored libraries, the Corral file server,
  analytics. The vendored libraries under `src/Libraries` are most of the
  repository's lines; they are not this program's logic.

## 6. Running

In this directory: `tlc -config X.cfg M` for a run of `PROJECT.json`,
`tlapm M.tla` for a proof module. The longest run takes about three minutes, a
proof module at most two.
