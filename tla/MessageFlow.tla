------------------------------ MODULE MessageFlow ------------------------------
(***************************************************************************)
(* The way of an object from the device that sends it to the one that      *)
(* shows it: the stages with their saves, each in its own thread, over     *)
(* stores whose file lags behind what was saved.  The application can end  *)
(* on either device; it starts again with what the file has, while the     *)
(* broker and the other device keep what they know.  Retries, walks and    *)
(* connections are those of the modules of the stages.                     *)
(***************************************************************************)
EXTENDS Naturals, Sequences, FiniteSets

CONSTANTS
    Objs,         \* objects the user sends to one other device, in this order
    Global,       \* those of the global feed, which have an encode queue of their own
    None,
    Budget,       \* bound on objects and troubles together: a restart, a failure
                  \* or a row published again costs 1,
    ObjectCost    \* and an object that is written costs this

ASSUME FlowAssumption ==
    /\ Global \subseteq Objs /\ None \notin Objs
    /\ Objs \subseteq Nat /\ {Budget, ObjectCost} \subseteq Nat

VARIABLES
    memory, file,  \* the stores
    (* the sender *)
    encodings,    \* every encoding ever saved, as [obj, number]
    job,          \* the object each encode queue is at, or None
    ctx,          \* the number its context has read
    encoding,     \* the encoding its object does not know of yet, or 0
    ready,        \* rows the sender's walk has or was told of
    unconfirmed,  \* copies with an ack block
    (* the broker *)
    published,    \* copies: <<encoding, k>>
    mailbox,      \* those in the receiver's queue
    (* the receiver *)
    deliveries,   \* the copy each received row was made from
    reading,      \* the copy that is saved and not acked yet, or None
    heard,        \* rows the decoder's walk has or was told of
    decoding,     \* the row whose hash is saved, or 0
    (* history *)
    torn,         \* objects that may be encoded again: the row, or the
                  \* object's knowledge of it, was lost
    unkept,       \* encodings whose row the sender lost
    raced,        \* encodings whose number a save of the other queue took back
    lost,         \* objects whose acked row the receiver lost
    wasted,       \* objects with a hash that outlived its operation
    expired,      \* objects whose row cleanUp deleted unsent
    spent         \* of the budget

Sender == "sender"
Receiver == "receiver"
Devices == {Sender, Receiver}

(* The two serial queues of the encode service.                            *)
Queues == {"global", "other"}
QueueOf(o) == IF o \in Global THEN "global" ELSE "other"

(* number is the recipient's nextSequenceNumber; marked has the encodings  *)
(* an object refers to.  forgotten has rows deleted by cleanUp, dropped    *)
(* those deleted as duplicates.                                            *)
Fresh == [d \in Devices |->
            IF d = Sender
            THEN [objs |-> {}, rows |-> {}, marked |-> {}, sent |-> {}, number |-> 0]
            ELSE [rows |-> {}, hashed |-> {}, made |-> {}, shown |-> {}, dropped |-> {},
                  forgotten |-> {}]]

Store == INSTANCE ModelStore

storeVars == <<memory, file>>
encodeVars == <<encodings, job, ctx, encoding>>
sendVars == <<encodeVars, ready, unconfirmed>>
brokerVars == <<published, mailbox>>
receiveVars == <<deliveries, reading, heard, decoding>>
history == <<torn, unkept, raced, lost, wasted, expired>>
vars == <<storeVars, sendVars, brokerVars, receiveVars, history, spent>>

Out == memory[Sender]
In == memory[Receiver]

Encodings == 1..Len(encodings)
Rows == 1..Len(deliveries)
ObjOf(e) == encodings[e].obj
EncodingOf(r) == deliveries[r][1]
RowObj(r) == ObjOf(EncodingOf(r))

Copies == Encodings \X (Nat \ {0})
SenderContents ==
    [objs : SUBSET Objs, rows : SUBSET Encodings, marked : SUBSET Encodings,
     sent : SUBSET Encodings, number : Nat]
ReceiverContents ==
    [rows : SUBSET Rows, hashed : SUBSET Rows, made : SUBSET Rows, shown : SUBSET Rows,
     dropped : SUBSET Rows, forgotten : SUBSET Rows]

Init ==
    /\ Store!Init
    /\ encodings = <<>> /\ ready = {} /\ unconfirmed = {}
    /\ job = [q \in Queues |-> None] /\ ctx = [q \in Queues |-> 0]
    /\ encoding = [q \in Queues |-> 0]
    /\ published = {} /\ mailbox = {}
    /\ deliveries = <<>> /\ reading = None /\ heard = {} /\ decoding = 0
    /\ torn = {} /\ unkept = {} /\ raced = {} /\ lost = {} /\ wasted = {} /\ expired = {}
    /\ spent = 0

SenderTypeOK ==
    /\ Out \in SenderContents /\ file[Sender] \in SenderContents \cup {None}
    /\ encodings \in Seq([obj : Objs, number : Nat])
    /\ job \in [Queues -> Objs \cup {None}] /\ ctx \in [Queues -> Nat]
    /\ encoding \in [Queues -> Encodings \cup {0}]
    /\ ready \cup unkept \cup raced \subseteq Encodings
BrokerTypeOK ==
    /\ IsFiniteSet(published) /\ published \subseteq Copies
    /\ mailbox \subseteq published /\ unconfirmed \subseteq published
ReceiverTypeOK ==
    /\ In \in ReceiverContents /\ file[Receiver] \in ReceiverContents \cup {None}
    /\ deliveries \in Seq(Nat \X Nat)
    /\ \A r \in Rows : EncodingOf(r) \in Encodings
    /\ reading \in published \cup {None}
    /\ reading # None => Len(deliveries) \in Rows
    /\ heard \subseteq Rows /\ decoding \in Rows \cup {0}
TypeOK ==
    /\ DOMAIN memory = Devices /\ DOMAIN file = Devices
    /\ SenderTypeOK /\ BrokerTypeOK /\ ReceiverTypeOK
    /\ torn \cup lost \cup wasted \cup expired \subseteq Objs
    /\ spent \in 0..Budget

Spend(cost) == spent + cost <= Budget /\ spent' = spent + cost
Trouble == Spend(1)

-----------------------------------------------------------------------------
(* The sending device                                                      *)

(* Objects are named in the order they are written in.                     *)
IsNext(o) == o \notin Out.objs /\ \A p \in Objs : p < o => p \in Out.objs

(* Mutant: in a store of its own, as other threads do.                     *)
WriteInNewStore(o) ==
    /\ IsNext(o)
    /\ Spend(ObjectCost)
    /\ Store!Save(Sender, [Out EXCEPT !.objs = @ \cup {o}])
    /\ UNCHANGED <<sendVars, brokerVars, receiveVars, history>>

(* sendObj, called by a view: in the main store.                           *)
Write(o) ==
    /\ IsNext(o)
    /\ Spend(ObjectCost)
    /\ Store!SaveRoot(Sender, [Out EXCEPT !.objs = @ \cup {o}])
    /\ UNCHANGED <<sendVars, brokerVars, receiveVars, history>>

Unencoded == Out.objs \ {ObjOf(e) : e \in Out.marked}

(* The operation of a queue reads the object, and the number it will give  *)
(* it, into a context of its own.                                          *)
Load(o) ==
    LET q == QueueOf(o) IN
    /\ job[q] = None /\ o \in Unencoded
    /\ job' = [job EXCEPT ![q] = o]
    /\ ctx' = [ctx EXCEPT ![q] = Out.number]
    /\ UNCHANGED <<storeVars, encodings, encoding, ready, unconfirmed, brokerVars, receiveVars,
                   history, spent>>

(* Mutant: the number is not saved with the row.                           *)
EncodeRowOnly(q) ==
    /\ job[q] # None /\ encoding[q] = 0
    /\ LET e == Len(encodings) + 1 IN
       /\ encodings' = Append(encodings, [obj |-> job[q], number |-> ctx[q]])
       /\ encoding' = [encoding EXCEPT ![q] = e]
       /\ Store!Save(Sender, [Out EXCEPT !.rows = @ \cup {e}])
    /\ UNCHANGED <<job, ctx, ready, unconfirmed, brokerVars, receiveVars, history, spent>>

(* The outbound row is saved with the number it carries, and the next one  *)
(* with it, whatever the other queue has made of that meanwhile.           *)
Encode(q) ==
    /\ job[q] # None /\ encoding[q] = 0
    /\ LET e == Len(encodings) + 1 IN
       /\ encodings' = Append(encodings, [obj |-> job[q], number |-> ctx[q]])
       /\ encoding' = [encoding EXCEPT ![q] = e]
       /\ Store!Save(Sender, [Out EXCEPT !.rows = @ \cup {e}, !.number = ctx[q] + 1])
    /\ raced' = raced \cup {e \in Encodings : encodings[e].number \in ctx[q]..(Out.number - 1)}
    /\ UNCHANGED <<job, ctx, ready, unconfirmed, brokerVars, receiveVars, torn, unkept, lost,
                   wasted, expired, spent>>

EndOperation(q) ==
    /\ job' = [job EXCEPT ![q] = None]
    /\ ctx' = [ctx EXCEPT ![q] = 0]
    /\ encoding' = [encoding EXCEPT ![q] = 0]

(* obj.encoded is saved, and the row announced.                            *)
Finish(q) ==
    /\ encoding[q] # 0
    /\ Store!Save(Sender, [Out EXCEPT !.marked = @ \cup {encoding[q]}])
    /\ ready' = ready \cup {encoding[q]}
    /\ EndOperation(q)
    /\ UNCHANGED <<encodings, unconfirmed, brokerVars, receiveVars, history, spent>>

(* That save throws: the operation is retried from the beginning.          *)
FinishFails(q) ==
    /\ encoding[q] # 0 /\ Trouble
    /\ torn' = torn \cup {ObjOf(encoding[q])}
    /\ EndOperation(q)
    /\ UNCHANGED <<storeVars, encodings, ready, unconfirmed, brokerVars, receiveVars, unkept,
                   raced, lost, wasted, expired>>

(* A row that is not marked as processed is published, and routed; no walk *)
(* is kept from publishing it again before the confirmation, as its next   *)
(* copy.                                                                   *)
Publish(e) ==
    /\ e \in Out.rows \ Out.sent
    /\ LET copy == <<e, Cardinality({c \in published : c[1] = e}) + 1>> IN
       /\ IF copy[2] = 1 THEN UNCHANGED spent ELSE Trouble
       /\ published' = published \cup {copy}
       /\ mailbox' = mailbox \cup {copy}
       /\ unconfirmed' = unconfirmed \cup {copy}
    /\ UNCHANGED <<storeVars, encodeVars, ready, receiveVars, history>>

(* The ack block.                                                          *)
Confirm(c) ==
    /\ c \in unconfirmed
    /\ Store!Save(Sender, [Out EXCEPT !.sent = @ \cup {c[1]}])
    /\ unconfirmed' = unconfirmed \ {c}
    /\ UNCHANGED <<encodeVars, ready, brokerVars, receiveVars, history, spent>>

-----------------------------------------------------------------------------
(* The receiving device                                                    *)

(* The listener saves a delivery ...                                       *)
Receive(c) ==
    /\ reading = None /\ c \in mailbox
    /\ deliveries' = Append(deliveries, c)
    /\ reading' = c
    /\ Store!Save(Receiver, [In EXCEPT !.rows = @ \cup {Len(deliveries) + 1}])
    /\ UNCHANGED <<sendVars, brokerVars, heard, decoding, history, spent>>

(* Mutant: the row is left to the decoder's next walk, which comes after a *)
(* restart.                                                                *)
AckUnannounced ==
    /\ reading # None
    /\ mailbox' = mailbox \ {reading}
    /\ reading' = None
    /\ UNCHANGED <<storeVars, sendVars, published, deliveries, heard, decoding, history,
                   spent>>

(* ... acks it, and announces the row ...                                  *)
Ack ==
    /\ reading # None
    /\ mailbox' = mailbox \ {reading}
    /\ heard' = heard \cup {Len(deliveries)}
    /\ reading' = None
    /\ UNCHANGED <<storeVars, sendVars, published, deliveries, decoding, history, spent>>

(* ... or the connection breaks: the copy will be delivered again, and the *)
(* row is not announced.                                                   *)
AckFails ==
    /\ reading # None /\ Trouble
    /\ reading' = None
    /\ UNCHANGED <<storeVars, sendVars, brokerVars, deliveries, heard, decoding, history>>

Undecided == In.rows \ (In.made \cup In.dropped \cup In.forgotten)

(* Mutant: rows of objects that were processed are not looked at.          *)
KnownUnshown(r) ==
    \E s \in In.hashed \ (In.dropped \cup In.shown) : EncodingOf(s) = EncodingOf(r)

(* haveHash: a row with the same content has its hash saved.               *)
Known(r) ==
    \E s \in In.hashed \ (In.dropped \cup In.forgotten) : EncodingOf(s) = EncodingOf(r)

(* A row whose content has been seen, by its hash, is deleted.             *)
Drop(r) ==
    /\ decoding = 0 /\ r \in Undecided /\ Known(r)
    /\ Store!Save(Receiver, [In EXCEPT !.dropped = @ \cup {r}])
    /\ UNCHANGED <<sendVars, brokerVars, receiveVars, history, spent>>

(* Mutant: the hash is saved without a look at those that are there.       *)
HashUnchecked(r) ==
    /\ decoding = 0 /\ r \in Undecided
    /\ Store!Save(Receiver, [In EXCEPT !.hashed = @ \cup {r}])
    /\ decoding' = r
    /\ UNCHANGED <<sendVars, brokerVars, deliveries, reading, heard, history, spent>>

Hash(r) ==
    /\ decoding = 0 /\ r \in Undecided /\ ~Known(r)
    /\ Store!Save(Receiver, [In EXCEPT !.hashed = @ \cup {r}])
    /\ decoding' = r
    /\ UNCHANGED <<sendVars, brokerVars, deliveries, reading, heard, history, spent>>

Decode(r) == Drop(r) \/ Hash(r)

(* The object, with the row as processed.                                  *)
Make ==
    /\ decoding # 0
    /\ Store!Save(Receiver, [In EXCEPT !.made = @ \cup {decoding}])
    /\ decoding' = 0
    /\ UNCHANGED <<sendVars, brokerVars, deliveries, reading, heard, history, spent>>

(* The operation fails after the hash was saved.                           *)
MakeFails ==
    /\ decoding # 0 /\ Trouble
    /\ wasted' = wasted \cup {RowObj(decoding)}
    /\ decoding' = 0
    /\ UNCHANGED <<storeVars, sendVars, brokerVars, deliveries, reading, heard, torn, unkept,
                   raced, lost, expired>>

(* The object processor has processed the object.                          *)
Show(r) ==
    /\ r \in In.made \ In.shown
    /\ Store!Save(Receiver, [In EXCEPT !.shown = @ \cup {r}])
    /\ UNCHANGED <<sendVars, brokerVars, receiveVars, history, spent>>

-----------------------------------------------------------------------------
(* The main queues, and restarts                                           *)

(* The main queue of a device runs no more blocks.                         *)
Stall(d) ==
    /\ Trouble
    /\ Store!Stall(d)
    /\ UNCHANGED <<sendVars, brokerVars, receiveVars, history>>

(* cleanUp takes objects of more than a week ago for sent, and deletes the *)
(* rows of sent objects.                                                   *)
CleanSender(contents, old) ==
    [contents EXCEPT !.rows = {e \in @ : e \in contents.marked => ObjOf(e) \notin old}]

(* Every service walks over what it finds in the store.                    *)
RestartSender ==
    /\ Store!MayEnd(Sender)
    /\ \E old \in SUBSET {ObjOf(e) : e \in file[Sender].marked \ file[Sender].sent} :
        /\ Store!Reopen(Sender, CleanSender(file[Sender], old))
        /\ expired' = expired \cup old
    /\ job' = [q \in Queues |-> None] /\ ctx' = [q \in Queues |-> 0]
    /\ encoding' = [q \in Queues |-> 0] /\ unconfirmed' = {}
    /\ ready' = file[Sender].rows
    /\ unkept' = unkept \cup (Out.rows \ file[Sender].rows)
    /\ torn' = torn \cup {ObjOf(e) : e \in Encodings \ file[Sender].marked}
    /\ UNCHANGED <<encodings, brokerVars, receiveVars, raced, lost, wasted, spent>>

(* cleanUp deletes the rows of objects that were processed.                *)
CleanReceiver(contents) == [contents EXCEPT !.forgotten = @ \cup contents.shown]

RestartReceiver ==
    /\ Store!MayEnd(Receiver)
    /\ Store!Reopen(Receiver, CleanReceiver(file[Receiver]))
    /\ reading' = None /\ decoding' = 0
    /\ heard' = file[Receiver].rows
    /\ lost' = lost \cup {RowObj(r) : r \in {s \in In.rows \ file[Receiver].rows :
                                                deliveries[s] \notin mailbox}}
    /\ wasted' = wasted \cup
                     {RowObj(r) : r \in file[Receiver].hashed \ file[Receiver].made}
    /\ UNCHANGED <<sendVars, brokerVars, deliveries, torn, unkept, raced, expired,
                   spent>>

Next ==
    \/ \E o \in Objs : Write(o) \/ Load(o)
    \/ \E q \in Queues : Encode(q) \/ Finish(q) \/ FinishFails(q)
    \/ \E e \in Encodings : Publish(e)
    \/ \E c \in published : Confirm(c) \/ Receive(c)
    \/ Ack \/ AckFails
    \/ \E r \in Rows : Decode(r) \/ Show(r)
    \/ Make \/ MakeFails
    \/ \E d \in Devices : Stall(d)
    \/ RestartSender \/ RestartReceiver

Spec == Init /\ [][Next]_vars

Fairness ==
    /\ \A q \in Queues : /\ WF_vars(\E o \in Objs : QueueOf(o) = q /\ Load(o))
                         /\ WF_vars(Encode(q)) /\ WF_vars(Finish(q))
    /\ \A o \in Objs : WF_vars(\E e \in ready : ObjOf(e) = o /\ Publish(e))
    /\ WF_vars(\E c \in mailbox : Receive(c))
    /\ WF_vars(Ack)
    /\ WF_vars(\E r \in heard : Decode(r))
    /\ WF_vars(Make)
    /\ WF_vars(\E r \in Rows : Show(r))
FairSpec == Spec /\ Fairness

-----------------------------------------------------------------------------
(* Properties                                                              *)

(* However often a row is encoded, published or delivered, whichever of    *)
(* the two applications ends, and whatever their files lack then, the      *)
(* receiver makes an object of it only once, unless it was encoded again,  *)
(* which gives it another hash (MessageEncodeService.m:241-243 after       *)
(* MessageEncoder.m:196), or cleanUp had deleted the row with its hash     *)
(* (Musubi.m:112-117).                                                     *)
ShownOnceUnlessExcused ==
    \A r, s \in In.made :
        r # s /\ RowObj(r) = RowObj(s) =>
            \/ RowObj(r) \in torn
            \/ EncodingOf(r) = EncodingOf(s) /\ {r, s} \cap In.forgotten # {}

(* No two published encodings carry one number, unless a restart has taken *)
(* the row of one of them, with the number it was saved with, out of the   *)
(* sender's file (PersistentModelStore.m:157-171), or an operation of the  *)
(* other queue, which had read the number before, has set it back with its *)
(* own save (TransportManager.m:117, MessageEncodeService.m:61-79).        *)
NumbersUniqueUnlessTakenBack ==
    \A c, d \in published :
        c[1] # d[1] /\ encodings[c[1]].number = encodings[d[1]].number =>
            {c[1], d[1]} \cap (unkept \cup raced) # {}

(* At any time an object the user wrote is where somebody will go on with  *)
(* it: not encoded yet, or in a row that the sending service was told of,  *)
(* or at the broker, or in a row that the decoder was told of, or made     *)
(* into an object; unless it is one of those WrittenIsShown excepts.  No   *)
(* step drops it between two of these places: neither the ack, which comes *)
(* before the announcement (AMQPListenerThread.m:190-196), nor the delete  *)
(* of a duplicate (MessageDecodeService.m:186-190), nor a restart from a   *)
(* file that lags behind.                                                  *)
WrittenIsKept ==
    \A o \in Out.objs :
        \/ o \in Unencoded
        \/ \E e \in ready \cap (Out.rows \ Out.sent) : ObjOf(e) = o
        \/ \E c \in mailbox : ObjOf(c[1]) = o
        \/ \E r \in In.made \cup (heard \cap Undecided) : RowObj(r) = o
        \/ o \in lost \cup wasted \cup expired

(* The receiver makes no object that the sender does not have: what the    *)
(* user writes goes to the main store, hence to the file at once           *)
(* (Musubi.m:80), so that no restart takes away an object whose message    *)
(* has left.                                                               *)
MadeWasWritten == \A r \in In.made : RowObj(r) \in Out.objs

(* From one user to the other, the path is a Courier: nothing is shown     *)
(* that was not written, what was written stays written, each step shows   *)
(* one copy, and another one only of objects that were torn or whose row   *)
(* cleanUp has deleted; no other step than a failure or a restart takes    *)
(* anything away or excuses anything (ObjHelper.m:74-96,                   *)
(* ObjProcessorService.m:143-156, PersistentModelStore.m:157-171).         *)
Screen == {<<RowObj(r), r>> : r \in In.shown}
Again == torn \cup {RowObj(r) : r \in In.forgotten}
Lapsed == lost \cup wasted \cup expired
Path == INSTANCE Courier WITH written <- Out.objs, screen <- Screen, again <- Again,
                              lapsed <- Lapsed
IsCourier == Path!Spec

(* An object the user wrote is shown by the receiver, whatever is lost and *)
(* repeated on the way, unless the receiver's file lacked a row it had     *)
(* acked (AMQPListenerThread.m:190-192), or had the hash of an interrupted *)
(* operation (MessageDecodeService.m:187), or cleanUp deleted the row      *)
(* before it was sent (Musubi.m:104-110).                                  *)
WrittenIsShown ==
    \A o \in Objs :
        o \in Out.objs ~>
            o \in {RowObj(r) : r \in In.shown} \cup lost \cup wasted \cup expired
===============================================================================
