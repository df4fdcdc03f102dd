---------------------------- MODULE AMQPTransport ---------------------------
(***************************************************************************)
(* The transport of Musubi: the sender service and the listener thread     *)
(* share one AMQP connection, owned by the connection manager.  Every call *)
(* of the connection manager holds connLock, so a call is one step; between *)
(* two calls of one thread the other one, the background-expiration        *)
(* handler, the network and the broker may act.                            *)
(*                                                                         *)
(* The broker is external: it is modelled from the calls the code makes.   *)
(* It routes the messages of a connection in the order they were           *)
(* published and confirms them in that order; one confirmation may stand   *)
(* for several messages (the `multiple' flag of basic.ack).                *)
(***************************************************************************)
EXTENDS Naturals, Sequences, FiniteSets, Functions

CONSTANTS
    Out,          \* outgoing encoded messages, all to one group
    Oversized,    \* those with more than 100 recipients
    In,           \* messages that wait for this device at the broker
    Idents,       \* identities the user owns or will own
    Conns,        \* names for connections; a name is reused when forgotten
    None,
    MaxFaults,    \* bound on failures of the network and of a save
    MaxBrokerRestarts,
    MaxAlarms,    \* bound on expirations and on PreparedEncoded without id
    MaxTroubles   \* bound on all of these together

ASSUME TransportAssumption ==
    /\ None \notin Out \cup In \cup Conns
    /\ Oversized \subseteq Out
    /\ IsFiniteSet(In)
    /\ \A a, b, c, d \in Conns \cup {None} : Conns \ {a, b, c, d} # {}
    /\ {MaxFaults, MaxBrokerRestarts, MaxAlarms, MaxTroubles} \subseteq Nat

VARIABLES
    (* AMQPConnectionManager *)
    conn,         \* the current connection or None
    ready,        \* connectionReady
    blocks,       \* pending: the onAck blocks, as the messages they mark
    (* network and broker *)
    link,         \* the current connection still reaches the broker
    shut,         \* the channels "in", "out" the broker has closed on it
    frames,       \* what the broker has sent on it and nobody has read
    unrouted,     \* published on it, not yet handled by the broker
    group,        \* GroupState: the group exchange
    destExists,   \* the recipient's identity exchange is declared
    routed,       \* messages put in the recipient's queue
    consumer,     \* the connection with the exclusive consumer, or None
    deviceQueue,  \* the device queue
    lastTag,      \* delivery tags used up by the consumer
    unacked,      \* deliveries [on, tag, msg] the broker keeps until acked
    bound,        \* identities whose exchange feeds the device queue
    acked,        \* incoming messages the broker has forgotten
    (* AMQPSenderService *)
    out,          \* [Out -> OutState]: the row of the encoded message
    sendPending,  \* the service's pending list
    sendQueue,    \* its operation queue, the head runs unless sStage = "idle"
    sStage,
    declared,     \* declaredGroups contains the group
    probe,        \* the connection groupProbeChannel was opened on, or None
    (* AMQPListenerThread *)
    lStage,
    got,          \* the delivery or the ack block the thread works on
    lsock,        \* the connection whose socket it captured for select
    restartRequested,
    todo,         \* identities of this setup that are still to be bound
    cancelled,
    stored,       \* incoming messages saved as rows
    announced,    \* rows whose EncodedMessageReceived was posted
    owned,        \* identities in the store
    (* bounds *)
    faults, brokerRestarts, alarms

connVars == <<conn, ready, blocks>>
linkVars == <<link, shut, frames, unrouted>>
brokerVars == <<group, destExists, routed, consumer, deviceQueue,
                lastTag, unacked, bound, acked>>
sendVars == <<out, sendPending, sendQueue, sStage, declared, probe>>
listenVars == <<lStage, todo, got, lsock, restartRequested, cancelled, stored,
                announced, owned>>
counters == <<faults, brokerRestarts, alarms>>
vars == <<connVars, linkVars, brokerVars, sendVars, listenVars, counters>>

OutState == {"new", "prepared", "processed", "deleted"}
GroupState == {"none", "declared", "bound"}
SendStage == {"idle", "connect", "declare", "probe", "define", "bind",
              "publish", "sent", "failed"}
ListenStage == {"top", "setup", "bind", "loop", "select",
                "acked", "got", "saved", "posting", "failed", "finished"}
Delivery == [on : Conns, tag : 1..Cardinality(In), msg : In]
Frame == {<<"ack">>, <<"close">>, <<"return">>} \cup {<<"deliver", d>> : d \in Delivery}

Init ==
    /\ conn = None /\ ready = FALSE /\ blocks = <<>>
    /\ link = FALSE /\ shut = {} /\ frames = <<>> /\ unrouted = <<>>
    /\ group = "none" /\ destExists \in BOOLEAN /\ routed = {}
    /\ consumer = None /\ deviceQueue = In /\ lastTag = 0 /\ unacked = {} /\ bound = {}
    /\ acked = {}
    /\ out = [m \in Out |-> "new"]
    /\ sendPending = {} /\ sendQueue = <<>> /\ sStage = "idle"
    /\ declared = FALSE /\ probe = None
    /\ lStage = "top" /\ todo = {} /\ got = None /\ lsock = None
    /\ restartRequested = FALSE /\ cancelled = FALSE
    /\ stored = {} /\ announced = {} /\ owned = {}
    /\ faults = 0 /\ brokerRestarts = 0 /\ alarms = 0

TypeOK ==
    /\ conn \in Conns \cup {None} /\ ready \in BOOLEAN
    /\ blocks \in Seq(Out) /\ link \in BOOLEAN /\ shut \subseteq {"in", "out"}
    /\ frames \in Seq(Frame) /\ unrouted \in Seq(Out)
    /\ group \in GroupState /\ destExists \in BOOLEAN
    /\ routed \subseteq Out /\ consumer \in Conns \cup {None}
    /\ deviceQueue \subseteq In /\ lastTag \in 0..Cardinality(In)
    /\ unacked \subseteq Delivery /\ bound \subseteq Idents /\ acked \subseteq In
    /\ out \in [Out -> OutState] /\ sendPending \subseteq Out
    /\ sendQueue \in Seq(Out) /\ sStage \in SendStage
    /\ declared \in BOOLEAN /\ probe \in Conns \cup {None}
    /\ lStage \in ListenStage /\ got \in Delivery \cup Out \cup {None}
    /\ lsock \in Conns \cup {None}
    /\ todo \subseteq Idents /\ restartRequested \in BOOLEAN /\ cancelled \in BOOLEAN
    /\ stored \subseteq In /\ announced \subseteq In /\ owned \subseteq Idents
    /\ faults \in 0..MaxFaults /\ brokerRestarts \in 0..MaxBrokerRestarts
    /\ alarms \in 0..MaxAlarms

TroubleLeft == faults + brokerRestarts + alarms < MaxTroubles

-----------------------------------------------------------------------------
(* The connection manager                                                  *)

(* A call on a channel gets its reply; otherwise it throws.                *)
CallOk(channel) == ready /\ link /\ channel \notin shut

(* A connection nobody remembers: the next one gets its name.              *)
FreshConn ==
    CHOOSE c \in Conns \ ({consumer, probe, lsock} \cup {d.on : d \in unacked}
                            \cup IF got \in Delivery THEN {got.on} ELSE {}) : TRUE

(* initializeConnection without a connection: there is no socket, or a     *)
(* connection opens both channels, or that throws after conn was set.      *)
NoSocket ==
    /\ ~ready
    /\ blocks' = <<>>
    /\ UNCHANGED <<conn, ready, linkVars, faults>>

(* Mutant: `pending' is not emptied.                                       *)
OpenKeepsBlocks(works) ==
    /\ ~ready
    /\ conn' = FreshConn
    /\ ready' = works /\ link' = works
    /\ shut' = {} /\ frames' = <<>> /\ unrouted' = <<>>
    /\ UNCHANGED blocks

Open(works) ==
    /\ ~ready
    /\ blocks' = <<>>
    /\ conn' = FreshConn
    /\ ready' = works /\ link' = works
    /\ shut' = {} /\ frames' = <<>> /\ unrouted' = <<>>

Connect == Open(TRUE) /\ UNCHANGED faults

ConnectThrows ==
    /\ TroubleLeft /\ faults < MaxFaults /\ faults' = faults + 1
    /\ Open(FALSE)

(* The broker gives up a connection: its consumer ends, and what was       *)
(* delivered on it and not acked goes back to the device queue.            *)
Forget(c) ==
    /\ consumer' = IF consumer = c THEN None ELSE consumer
    /\ unacked' = {d \in unacked : d.on # c}
    /\ deviceQueue' = deviceQueue \cup {d.msg : d \in unacked \ unacked'}

(* closeConnection: if the network works the broker hears of it, after what *)
(* was published before; `pending' keeps its blocks.                       *)
Close ==
    /\ conn' = None /\ ready' = FALSE /\ link' = FALSE
    /\ shut' = {} /\ frames' = <<>> /\ unrouted' = <<>>
    /\ IF link THEN Forget(conn) ELSE UNCHANGED <<consumer, unacked, deviceQueue>>
    /\ routed' = IF link /\ group = "bound" THEN routed \cup Range(unrouted) ELSE routed
    /\ UNCHANGED <<blocks, group, destExists, lastTag, bound, acked>>

-----------------------------------------------------------------------------
(* The network and the broker                                              *)

Drop ==
    /\ link /\ TroubleLeft /\ faults < MaxFaults
    /\ faults' = faults + 1
    /\ link' = FALSE
    /\ unrouted' = <<>>
    /\ UNCHANGED <<connVars, shut, frames, brokerVars, sendVars, listenVars,
                   brokerRestarts, alarms>>

(* Heartbeats stop: the broker drops a connection that no longer works.    *)
Reap(c) ==
    /\ c # conn \/ ~link
    /\ c = consumer \/ \E d \in unacked : d.on = c
    /\ Forget(c)
    /\ UNCHANGED <<connVars, linkVars, group, destExists, routed, lastTag,
                   bound, acked, sendVars, listenVars, counters>>

(* The group exchange is not durable, and the messages are published       *)
(* without properties, so not persistent.                                  *)
BrokerRestart ==
    /\ TroubleLeft /\ brokerRestarts < MaxBrokerRestarts
    /\ brokerRestarts' = brokerRestarts + 1
    /\ link' = FALSE /\ unrouted' = <<>>
    /\ group' = "none"
    /\ consumer' = None /\ unacked' = {} /\ deviceQueue' = {}
    /\ UNCHANGED <<connVars, shut, frames, destExists, routed, lastTag, bound, acked,
                   sendVars, listenVars, faults, alarms>>

(* The broker handles the next n published messages and confirms them at   *)
(* once; a missing exchange closes the channel, and a mandatory message     *)
(* that reaches no queue is returned before it is confirmed.               *)
Route(n) ==
    /\ link /\ n \in 1..Len(unrouted)
    /\ IF group # "none"
       THEN /\ routed' = IF group = "bound"
                         THEN routed \cup Range(SubSeq(unrouted, 1, n)) ELSE routed
            /\ unrouted' = SubSeq(unrouted, n + 1, Len(unrouted))
            /\ frames' = frames \o (IF group = "bound" THEN <<>> ELSE <<<<"return">>>>)
                                \o <<<<"ack">>>>
            /\ UNCHANGED shut
       ELSE /\ frames' = Append(frames, <<"close">>)
            /\ unrouted' = <<>> /\ shut' = shut \cup {"out"}
            /\ UNCHANGED routed
    /\ UNCHANGED <<connVars, link, group, destExists, consumer, deviceQueue,
                   lastTag, unacked, bound, acked, sendVars, listenVars, counters>>

Deliver(n) ==
    /\ link /\ "in" \notin shut
    /\ consumer = conn /\ n \in deviceQueue
    /\ LET d == [on |-> conn, tag |-> lastTag + 1, msg |-> n] IN
       /\ unacked' = unacked \cup {d}
       /\ frames' = Append(frames, <<"deliver", d>>)
    /\ lastTag' = lastTag + 1
    /\ deviceQueue' = deviceQueue \ {n}
    /\ UNCHANGED <<connVars, link, shut, unrouted, group, destExists, routed,
                   consumer, bound, acked, sendVars, listenVars, counters>>

-----------------------------------------------------------------------------
(* The sender service: one serial queue, the walk of process: in one step  *)
(* per object (the interleavings of the walk are ObjectPipeline's).        *)

Message == Head(sendQueue)
senderOnly == <<linkVars, brokerVars, listenVars, counters>>

(* The encode service saves an encoded message and posts PreparedEncoded.  *)
Submit(m) ==
    /\ out[m] = "new" /\ ~cancelled
    /\ out' = [out EXCEPT ![m] = "prepared"]
    /\ sendPending' = sendPending \cup {m}
    /\ sendQueue' = Append(sendQueue, m)
    /\ UNCHANGED <<connVars, senderOnly, sStage, declared, probe>>

(* PreparedEncoded without an id: all unprocessed outbound rows, among     *)
(* them those that were published and not confirmed yet.                   *)
NotifyAll(m) ==
    /\ out[m] = "prepared" /\ ~cancelled
    /\ m \notin sendPending
    /\ TroubleLeft /\ alarms < MaxAlarms
    /\ alarms' = alarms + 1
    /\ sendPending' = sendPending \cup {m}
    /\ sendQueue' = Append(sendQueue, m)
    /\ UNCHANGED <<connVars, linkVars, brokerVars, listenVars, faults, brokerRestarts,
                   out, sStage, declared, probe>>

SBegin ==
    /\ sStage = "idle" /\ sendQueue # <<>>
    /\ sStage' = "connect"
    /\ UNCHANGED <<connVars, senderOnly, out, sendPending, sendQueue, declared,
                   probe>>

STo(from, to) ==
    /\ sStage = from
    /\ sStage' = to
    /\ UNCHANGED <<out, sendPending, sendQueue>>

(* Mutant: nobody queues the message again.                                *)
SRetryDropped ==
    /\ sStage' = "idle"
    /\ sendQueue' = Tail(sendQueue)
    /\ UNCHANGED <<out, sendPending, declared, probe>>

(* main: the operation returned NO or threw, a new one is queued.          *)
SRetry ==
    /\ sStage' = "idle"
    /\ sendQueue' = Append(Tail(sendQueue), Message)
    /\ UNCHANGED <<out, sendPending, declared, probe>>

(* Mutant: initializeConnection empties `pending' before it looks whether  *)
(* another thread has connected.                                           *)
SConnectedClearing ==
    /\ ready
    /\ STo("connect", "declare")
    /\ blocks' = <<>>
    /\ UNCHANGED <<conn, ready, senderOnly, declared, probe>>

(* while (![connMngr connectionIsAlive]) [connMngr initializeConnection]   *)
SConnected ==
    /\ ready
    /\ STo("connect", "declare")
    /\ UNCHANGED <<connVars, senderOnly, declared, probe>>

SConnect ==
    /\ sStage = "connect"
    /\ \/ (NoSocket \/ Connect) /\ UNCHANGED sendVars
       \/ ConnectThrows /\ SRetry
    /\ UNCHANGED <<brokerVars, listenVars, brokerRestarts, alarms>>

(* More than 100 recipients: the row is deleted, and the operation is done *)
SDiscard ==
    /\ sStage = "declare" /\ Message \in Oversized
    /\ sStage' = "sent"
    /\ out' = [out EXCEPT ![Message] = "deleted"]
    /\ UNCHANGED <<connVars, senderOnly, sendPending, sendQueue, declared, probe>>

(* The recipients' identities are looked up and saved; when that throws,   *)
(* the catch block closes the connection as for any other failure.         *)
SLookupFails ==
    /\ STo("declare", "failed")
    /\ Message \notin Oversized
    /\ TroubleLeft /\ faults < MaxFaults /\ faults' = faults + 1
    /\ UNCHANGED <<connVars, linkVars, brokerVars, listenVars, brokerRestarts, alarms,
                   declared, probe>>

(* The group exchange is declared once per run of the application.         *)
SSkipDeclare ==
    /\ STo("declare", "publish")
    /\ declared /\ Message \notin Oversized
    /\ UNCHANGED <<connVars, senderOnly, declared, probe>>

brokerKept == <<routed, consumer, deviceQueue, lastTag, unacked, bound, acked>>

(* Mutant: the group is remembered before it is bound.                     *)
SDeclareRemembers ==
    /\ STo("declare", IF CallOk("out") THEN "probe" ELSE "failed")
    /\ ~declared /\ Message \notin Oversized
    /\ group' = IF CallOk("out") /\ group = "none" THEN "declared" ELSE group
    /\ declared' = CallOk("out")
    /\ UNCHANGED <<connVars, linkVars, destExists, brokerKept, listenVars, counters,
                   probe>>

SDeclare ==
    /\ STo("declare", IF CallOk("out") THEN "probe" ELSE "failed")
    /\ ~declared /\ Message \notin Oversized
    /\ group' = IF CallOk("out") /\ group = "none" THEN "declared" ELSE group
    /\ UNCHANGED <<connVars, linkVars, destExists, brokerKept, listenVars, counters,
                   declared, probe>>

(* createChannel for groupProbeChannel, kept from then on.                 *)
SOpenProbe ==
    /\ probe = None
    /\ IF ready /\ link THEN STo("probe", "probe") /\ probe' = conn
       ELSE STo("probe", "failed") /\ UNCHANGED probe
    /\ UNCHANGED <<connVars, senderOnly, declared>>

(* The passive declaration on the probe channel.  It throws when the       *)
(* exchange does not exist, and also when the channel belongs to an        *)
(* earlier connection: the broker then ends this connection.  The catch    *)
(* block closes the channel, which throws itself without a connection.     *)
SProbe ==
    /\ probe # None
    /\ LET found == ready /\ link /\ probe = conn /\ destExists IN
       /\ STo("probe", IF found THEN "bind" ELSE IF ready THEN "define" ELSE "failed")
       /\ probe' = IF ready /\ ~found THEN None ELSE probe
       /\ link' = (link /\ (ready => probe = conn))
       /\ unrouted' = IF link' THEN unrouted ELSE <<>>
    /\ UNCHANGED <<connVars, shut, frames, brokerVars, listenVars, counters, declared>>

(* The initial queue, the identity exchange and their binding.             *)
SDefine ==
    /\ STo("define", IF CallOk("out") THEN "bind" ELSE "failed")
    /\ destExists' = (destExists \/ CallOk("out"))
    /\ UNCHANGED <<connVars, linkVars, group, brokerKept, listenVars, counters,
                   declared, probe>>

(* Binding the identity exchange to the group exchange, if both are there. *)
SBind ==
    /\ LET binds == CallOk("out") /\ group # "none" IN
       /\ STo("bind", IF binds THEN "publish" ELSE "failed")
       /\ group' = IF binds THEN "bound" ELSE group
       /\ declared' = (declared \/ binds)
       /\ shut' = IF ready /\ link /\ ~binds THEN shut \cup {"out"} ELSE shut
       /\ unrouted' = IF "out" \in shut' THEN <<>> ELSE unrouted
    /\ UNCHANGED <<connVars, link, frames, destExists, brokerKept, listenVars, counters,
                   probe>>

(* publish: it notices a broken connection or it does not.                 *)
SPublish ==
    /\ ready
    /\ STo("publish", "sent")
    /\ blocks' = Append(blocks, Message)
    /\ unrouted' = IF CallOk("out") THEN Append(unrouted, Message) ELSE unrouted
    /\ UNCHANGED <<conn, ready, link, shut, frames, brokerVars, listenVars, counters,
                   declared, probe>>

SPublishFails ==
    /\ ~(ready /\ link)
    /\ STo("publish", "failed")
    /\ UNCHANGED <<connVars, senderOnly, declared, probe>>

(* removePending and YES, before the broker has confirmed anything.        *)
SSent ==
    /\ sStage = "sent"
    /\ sStage' = "idle"
    /\ sendPending' = sendPending \ {Message}
    /\ sendQueue' = Tail(sendQueue)
    /\ UNCHANGED <<connVars, senderOnly, out, declared, probe>>

(* The catch block closes whatever connection there is by now.             *)
SFailed ==
    /\ sStage = "failed"
    /\ Close
    /\ SRetry
    /\ UNCHANGED <<listenVars, counters>>

SenderStep ==
    \/ SBegin \/ SConnected \/ SConnect \/ SDiscard
    \/ SLookupFails \/ SSkipDeclare \/ SDeclare \/ SOpenProbe \/ SProbe \/ SDefine \/ SBind
    \/ SPublish \/ SPublishFails \/ SSent \/ SFailed

-----------------------------------------------------------------------------
(* The listener thread                                                     *)

listenerOnly == <<sendVars, counters>>

LTo(from, to) ==
    /\ lStage = from
    /\ lStage' = to

noteVars == <<todo, got, lsock, cancelled, stored, announced, owned>>

(* The outer loop.                                                         *)
LFinish ==
    /\ cancelled
    /\ LTo("top", "finished")
    /\ Close
    /\ UNCHANGED <<listenerOnly, restartRequested, noteVars>>

LTop ==
    /\ ~cancelled /\ lStage = "top"
    /\ restartRequested' = FALSE
    /\ \/ /\ ready
          /\ lStage' = "setup"
          /\ UNCHANGED <<connVars, linkVars, faults>>
       \/ (NoSocket \/ Connect) /\ UNCHANGED lStage
       \/ ConnectThrows /\ lStage' = "failed"
    /\ UNCHANGED <<brokerVars, sendVars, brokerRestarts, alarms, noteVars>>

(* The device queue is declared and the owned identities are read; then    *)
(* their exchanges are declared and bound to the queue, one by one.  (The  *)
(* initial queues are taken as part of the device queue.)                  *)
LSetup ==
    /\ LTo("setup", IF CallOk("in") THEN "bind" ELSE "failed")
    /\ todo' = IF CallOk("in") THEN owned ELSE {}
    /\ UNCHANGED <<connVars, linkVars, brokerVars, listenerOnly, restartRequested,
                   got, lsock, cancelled, stored, announced, owned>>

LBind(i) ==
    /\ i \in todo
    /\ LTo("bind", IF CallOk("in") THEN "bind" ELSE "failed")
    /\ bound' = IF CallOk("in") THEN bound \cup {i} ELSE bound
    /\ todo' = IF CallOk("in") THEN todo \ {i} ELSE {}
    /\ UNCHANGED <<connVars, linkVars, group, destExists, routed, consumer,
                   deviceQueue, lastTag, unacked, acked, listenerOnly,
                   restartRequested, got, lsock, cancelled, stored, announced, owned>>

(* Mutant: restartRequested is cleared when the setup is done.             *)
LConsumeResets ==
    /\ todo = {}
    /\ LET granted == CallOk("in") /\ consumer = None IN
       /\ LTo("bind", IF granted THEN "loop" ELSE "failed")
       /\ consumer' = IF granted THEN conn ELSE consumer
       /\ lastTag' = IF granted THEN 0 ELSE lastTag
    /\ restartRequested' = FALSE
    /\ UNCHANGED <<connVars, linkVars, group, destExists, routed, deviceQueue,
                   unacked, bound, acked, listenerOnly, noteVars>>

(* Consuming is exclusive: the broker refuses a second consumer.  Tags     *)
(* start again with every connection.                                      *)
LConsume ==
    /\ todo = {}
    /\ LET granted == CallOk("in") /\ consumer = None IN
       /\ LTo("bind", IF granted THEN "loop" ELSE "failed")
       /\ consumer' = IF granted THEN conn ELSE consumer
       /\ lastTag' = IF granted THEN 0 ELSE lastTag
    /\ UNCHANGED <<connVars, linkVars, group, destExists, routed, deviceQueue,
                   unacked, bound, acked, listenerOnly, restartRequested, noteVars>>

LFailed ==
    /\ LTo("failed", "top")
    /\ Close
    /\ UNCHANGED <<listenerOnly, restartRequested, noteVars>>

listenerLocal == <<connVars, linkVars, brokerVars, listenerOnly>>

(* The loop of consumeMessages ends, or readMessageAndCall: throws: both   *)
(* lead back to the outer loop, and the connection stays as it is.         *)
LLeave ==
    /\ \/ LTo("loop", "top") /\ (cancelled \/ restartRequested \/ ~ready)
       \/ LTo("select", "top") /\ (~ready \/ ~link \/ lsock # conn)
    /\ lsock' = None
    /\ UNCHANGED <<listenerLocal, restartRequested, todo, got, cancelled, stored,
                   announced, owned>>

(* No frame: the lock is released and the thread waits in select.          *)
LSelect ==
    /\ LTo("loop", "select")
    /\ ~cancelled /\ ~restartRequested
    /\ ready /\ frames = <<>>
    /\ lsock' = conn
    /\ UNCHANGED <<listenerLocal, restartRequested, todo, got, cancelled, stored,
                   announced, owned>>

(* Nothing came for 15 seconds: a heartbeat, and back to the loop.         *)
LIdle ==
    /\ LTo("select", "loop")
    /\ ready /\ frames = <<>>
    /\ lsock' = None
    /\ UNCHANGED <<listenerLocal, restartRequested, todo, got, cancelled, stored,
                   announced, owned>>

(* A frame is there, whichever connection the wait began on.               *)
Reading ==
    /\ ready /\ frames # <<>>
    /\ \/ lStage = "loop" /\ ~cancelled /\ ~restartRequested
       \/ lStage = "select"
    /\ lsock' = None

LReadAck ==
    /\ Reading /\ Head(frames) = <<"ack">>
    /\ frames' = Tail(frames)
    /\ IF blocks = <<>>
       THEN lStage' = "top" /\ UNCHANGED <<blocks, got>>
       ELSE lStage' = "acked" /\ got' = Head(blocks) /\ blocks' = Tail(blocks)
    /\ UNCHANGED <<conn, ready, link, shut, unrouted, brokerVars, listenerOnly,
                   restartRequested, todo, cancelled, stored, announced, owned>>

LReadDelivery ==
    /\ Reading /\ Head(frames)[1] = "deliver"
    /\ frames' = Tail(frames)
    /\ got' = Head(frames)[2]
    /\ lStage' = "got"
    /\ UNCHANGED <<connVars, link, shut, unrouted, brokerVars, listenerOnly,
                   restartRequested, todo, cancelled, stored, announced, owned>>

(* Any other method: the connection is closed.                             *)
LReadOther ==
    /\ Reading /\ Head(frames)[1] \in {"close", "return"}
    /\ Close
    /\ lStage' = "top"
    /\ UNCHANGED <<listenerOnly, restartRequested, todo, got, cancelled, stored,
                   announced, owned>>

(* The onAck block, after the lock was released.                           *)
LAckBlock ==
    /\ LTo("acked", "loop")
    /\ out' = [out EXCEPT ![got] = "processed"]
    /\ got' = None
    /\ UNCHANGED <<connVars, linkVars, brokerVars, counters, sendPending, sendQueue,
                   sStage, declared, probe, restartRequested, todo, lsock, cancelled,
                   stored, announced, owned>>

(* The block's save throws: the row stays as it is, and the exception ends *)
(* consumeMessages.  (The block throws its NSError, which nothing catches, *)
(* for a row that is gone: only cleanUp deletes rows that were published,  *)
(* before the services start.)                                             *)
LAckBlockFails ==
    /\ LTo("acked", "top")
    /\ TroubleLeft /\ faults < MaxFaults /\ faults' = faults + 1
    /\ got' = None
    /\ UNCHANGED <<connVars, linkVars, brokerVars, sendVars, brokerRestarts, alarms,
                   restartRequested, todo, lsock, cancelled, stored, announced, owned>>

LSave ==
    /\ LTo("got", "saved")
    /\ stored' = stored \cup {got.msg}
    /\ UNCHANGED <<listenerLocal, restartRequested, todo, got, lsock, cancelled,
                   announced, owned>>

(* Mutant: the failure of the save is not noticed.                         *)
LSaveUnchecked ==
    /\ LTo("got", "saved")
    /\ TroubleLeft /\ faults < MaxFaults /\ faults' = faults + 1
    /\ UNCHANGED <<connVars, linkVars, brokerVars, sendVars, brokerRestarts, alarms,
                   restartRequested, noteVars>>

(* Mutant: the loop goes on with the next message.                         *)
LSaveFailsInLoop ==
    /\ LTo("got", "loop")
    /\ TroubleLeft /\ faults < MaxFaults /\ faults' = faults + 1
    /\ got' = None
    /\ UNCHANGED <<connVars, linkVars, brokerVars, sendVars, brokerRestarts, alarms,
                   restartRequested, todo, lsock, cancelled, stored, announced, owned>>

(* The save throws: the exception ends consumeMessages.                    *)
LSaveFails ==
    /\ LTo("got", "top")
    /\ TroubleLeft /\ faults < MaxFaults /\ faults' = faults + 1
    /\ got' = None
    /\ UNCHANGED <<connVars, linkVars, brokerVars, sendVars, brokerRestarts, alarms,
                   restartRequested, todo, lsock, cancelled, stored, announced, owned>>

(* ackMessage: the tag is acked on the connection of the moment.  The      *)
(* broker closes a channel on which a tag it does not know is acked.  A    *)
(* broken connection is noticed or not; if it is, the exception ends       *)
(* consumeMessages, and the row is not announced.                          *)
LAck ==
    /\ lStage = "saved"
    /\ LET meant == {d \in unacked : d.on = conn /\ d.tag = got.tag} IN
       /\ \/ ready /\ lStage' = "posting" /\ UNCHANGED got
          \/ ~(ready /\ link) /\ lStage' = "top" /\ got' = None
       /\ acked' = IF CallOk("in") THEN acked \cup {d.msg : d \in meant} ELSE acked
       /\ unacked' = IF CallOk("in") THEN unacked \ meant ELSE unacked
       /\ IF CallOk("in") /\ meant = {}
          THEN shut' = shut \cup {"in"} /\ frames' = Append(frames, <<"close">>)
          ELSE UNCHANGED <<shut, frames>>
    /\ UNCHANGED <<connVars, link, unrouted, group, destExists, routed, consumer, deviceQueue,
                   lastTag, bound, listenerOnly, restartRequested, todo, lsock, cancelled,
                   stored, announced, owned>>

(* EncodedMessageReceived with the id of the row, then the next message.   *)
LPost ==
    /\ LTo("posting", "loop")
    /\ announced' = announced \cup {got.msg}
    /\ got' = None
    /\ UNCHANGED <<listenerLocal, restartRequested, todo, lsock, cancelled, stored, owned>>

ListenerStep ==
    \/ LFinish \/ LTop \/ LSetup \/ (\E i \in todo : LBind(i)) \/ LConsume \/ LFailed \/ LLeave \/ LSelect
    \/ LIdle \/ LReadAck \/ LReadDelivery \/ LReadOther \/ LAckBlock
    \/ LAckBlockFails \/ LSave \/ LSaveFails \/ LAck \/ LPost

-----------------------------------------------------------------------------
(* Other threads                                                           *)

(* The background task expires while the listener consumes.                *)
Expire ==
    /\ TroubleLeft /\ alarms < MaxAlarms
    /\ alarms' = alarms + 1
    /\ lStage \in {"loop", "select", "acked", "got", "saved", "posting"}
    /\ Close
    /\ restartRequested' = TRUE
    /\ UNCHANGED <<sendVars, lStage, noteVars, faults, brokerRestarts>>

(* An account is connected: its identity is saved and                      *)
(* OwnedIdentityAvailable restarts the listener.                           *)
OwnIdentity(i) ==
    /\ i \notin owned
    /\ owned' = owned \cup {i}
    /\ restartRequested' = TRUE
    /\ UNCHANGED <<connVars, linkVars, brokerVars, sendVars, lStage, todo, got, lsock,
                   cancelled, stored, announced, counters>>

(* stop: the listener is cancelled, the sender stops observing.            *)
Stop ==
    /\ ~cancelled
    /\ cancelled' = TRUE
    /\ UNCHANGED <<connVars, linkVars, brokerVars, sendVars, lStage, todo, got, lsock,
                   restartRequested, stored, announced, owned, counters>>

Environment ==
    \/ Drop \/ BrokerRestart \/ Expire \/ Stop
    \/ \E m \in Out : Submit(m) \/ NotifyAll(m)
    \/ \E i \in Idents : OwnIdentity(i)
BrokerStep ==
    \/ \E c \in Conns : Reap(c)
    \/ \E n \in 1..Len(unrouted) : Route(n)
    \/ \E n \in In : Deliver(n)

Next == SenderStep \/ ListenerStep \/ BrokerStep \/ Environment

Spec == Init /\ [][Next]_vars

(* Every thread keeps running; the server is reached sooner or later, and a *)
(* dead connection is noticed, since an idle listener writes a heartbeat    *)
(* every 15 seconds; the broker delivers and confirms.                      *)
Fairness ==
    /\ WF_vars(SenderStep) /\ WF_vars(ListenerStep)
    /\ SF_vars(SConnect /\ ready') /\ SF_vars(LTop /\ ready')
    /\ SF_vars(LLeave)
    /\ \A c \in Conns : WF_vars(Reap(c))
    /\ WF_vars(\E n \in 1..Len(unrouted) : Route(n))
    /\ \A n \in In : WF_vars(Deliver(n))

FairSpec == Spec /\ Fairness

-----------------------------------------------------------------------------
(* Safety                                                                  *)

(* A message is marked as processed only after the broker put it in the    *)
(* recipient's queue: the blocks of an earlier connection are dropped      *)
(* before the confirmations of the next one can reach them.                *)
SentWasRouted == \A m \in Out : out[m] = "processed" => m \in routed

(* A message is in the pending list exactly while it has one operation.    *)
(* With a second one, queued by a notification while the first is being    *)
(* retried, it would be published twice; without any it would stay unsent  *)
(* until the next start (ObjectPipelineService.m:117-123, 186-190).        *)
OneSendPerMessage ==
    /\ Range(sendQueue) = sendPending
    /\ \A i, j \in DOMAIN sendQueue : sendQueue[i] = sendQueue[j] => i = j

(* The broker forgets an incoming message only when its row is saved.      *)
AckedIsStored == acked \subseteq stored

Acks(fs) == {i \in DOMAIN fs : fs[i][1] = "ack"}

(* `Unexpected basic ack from broker' is not thrown: every confirmation    *)
(* that is on its way, or will be, finds a block.                          *)
NoUnexpectedAck ==
    ready => Cardinality(Acks(frames)) + Len(unrouted) <= Len(blocks)

-----------------------------------------------------------------------------
(* Liveness                                                                *)

(* A message that was queued leaves the pending list, whatever becomes of   *)
(* the connection.                                                         *)
QueuedIsPublished == \A m \in Out : m \in sendPending ~> m \notin sendPending

(* The same, unless each thread goes on closing the other's connection.    *)
PublishedIfSettled == <>[](lStage # "failed") => QueuedIsPublished

(* The exchange of every identity the user owns comes to feed the device   *)
(* queue, although a restart that is requested while another one is under  *)
(* way only sets a flag.                                                   *)
IdentityIsBound ==
    <>[](sStage # "failed") => \A i \in Idents : i \in owned ~> i \in bound \/ cancelled

Settled == <>[](sStage # "failed" /\ lStage # "failed")

(* An incoming message reaches the store, once both threads stop failing.  *)
IncomingIsStored ==
    Settled => \A n \in In : n \in deviceQueue ~> n \in stored \/ cancelled

(* A message that is queued on a live connection, with no failure to come, *)
(* reaches the recipient's queue; but after a restart of the broker, which *)
(* forgets the group's exchange, the sender does not declare it again      *)
(* (AMQPSenderService.m:129).                                              *)
GroupForgotten == brokerRestarts > 0 /\ declared /\ group = "none"

QueuedIsRouted ==
    Settled => \A m \in Out :
        ~TroubleLeft /\ link /\ sStage = "idle" /\ m \in sendPending
            ~> m \in routed \/ out[m] = "deleted" \/ cancelled \/ GroupForgotten
==============================================================================
