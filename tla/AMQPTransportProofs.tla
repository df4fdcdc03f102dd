------------------------- MODULE AMQPTransportProofs ------------------------
(* What the transport guarantees for any number of messages, identities,   *)
(* connections, faults, broker restarts and expirations.                   *)
EXTENDS AMQPTransport, FiniteSetTheorems, TLAPS

-----------------------------------------------------------------------------
(* The inductive invariant                                                 *)

Msgs(ds) == {d.msg : d \in ds}

(* Deliveries the listener has not read yet.                               *)
Carried(fs) == {fs[i][2] : i \in {j \in DOMAIN fs : fs[j][1] = "deliver"}}

(* A connection that works is there, and its connection manager knows.     *)
LinkInv ==
    /\ link => ready
    /\ ready => conn # None

(* What the broker keeps unacked belongs to its consumer, each message     *)
(* once and under a tag of its own, and is neither waiting nor forgotten.  *)
BrokerInv ==
    /\ \A d \in unacked : /\ d.on = consumer /\ d.tag <= lastTag
                          /\ d.msg \notin deviceQueue \cup acked
    /\ \A d, e \in unacked : d.tag = e.tag \/ d.msg = e.msg => d = e
    /\ deviceQueue \cap acked = {}
    /\ consumer # None => lastTag <= Cardinality(acked \cup Msgs(unacked))

(* What is said of a delivery the listener is to read, or has read: no     *)
(* other one can be acked by its tag.                                      *)
Tagged(d) ==
    /\ consumer \in {None, d.on}
    /\ consumer # None => d.tag <= lastTag
    /\ \A e \in unacked : e.tag = d.tag => e = d

FrameInv ==
    \A d \in Carried(frames) :
        /\ d.on = conn
        /\ link => consumer = conn
        /\ Tagged(d)

GotInv ==
    /\ lStage \in {"got", "saved", "posting"} => got \in Delivery /\ Tagged(got)
    /\ lStage \in {"saved", "posting"} => got.msg \in stored

(* Nothing is published to a group exchange that was not bound, except one *)
(* that the broker has lost.                                               *)
GroupInv ==
    /\ declared => group \in {"none", "bound"}
    /\ unrouted # <<>> => declared
    /\ sStage = "publish" => declared
    /\ sStage # "idle" => sendQueue # <<>>

Routing == link /\ "out" \notin shut

(* The blocks are, in order: those whose messages were routed, with the    *)
(* confirmations that are on their way, and, while the channel works,      *)
(* those whose messages are still to be routed.                            *)
Split(k) ==
    /\ k \in 0..Len(blocks)
    /\ \A i \in 1..k : blocks[i] \in routed
    /\ Cardinality(Acks(frames)) <= k
    /\ Routing => /\ Len(unrouted) = Len(blocks) - k
                  /\ \A i \in 1..Len(unrouted) : unrouted[i] = blocks[k + i]

BlockInv ==
    /\ ~Routing => unrouted = <<>>
    /\ ready => \E k \in Nat : Split(k)
    /\ lStage = "acked" => got \in routed

IInv ==
    /\ TypeOK /\ LinkInv /\ BrokerInv /\ FrameInv /\ GotInv /\ GroupInv /\ BlockInv
    /\ SentWasRouted /\ AckedIsStored

-----------------------------------------------------------------------------
(* Frames                                                                  *)

LEMMA Empty == Acks(<<>>) = {} /\ Carried(<<>>) = {}
  BY DEF Acks, Carried

LEMMA AcksFinite ==
  ASSUME NEW s \in Seq(Frame)
  PROVE  IsFiniteSet(Acks(s)) /\ Cardinality(Acks(s)) \in Nat
  <1>1. IsFiniteSet(1..Len(s))
    BY FS_Interval
  <1>2. Acks(s) \subseteq 1..Len(s)
    BY DEF Acks
  <1>3. QED
    BY <1>1, <1>2, FS_Subset, FS_CardinalityType

LEMMA CarriedAppend ==
  ASSUME NEW s \in Seq(Frame), NEW f \in Frame
  PROVE  /\ f[1] # "deliver" => Carried(Append(s, f)) = Carried(s)
         /\ Carried(Append(s, f)) \subseteq Carried(s) \cup {f[2]}
  <1>1. /\ DOMAIN Append(s, f) = 1..(Len(s) + 1)
        /\ DOMAIN s = 1..Len(s) /\ Len(s) \in Nat
        /\ Append(s, f)[Len(s) + 1] = f
        /\ \A i \in 1..Len(s) : Append(s, f)[i] = s[i]
    OBVIOUS
  <1> HIDE DEF Frame
  <1>2. QED
    BY <1>1 DEF Carried

LEMMA CarriedTail ==
  ASSUME NEW s \in Seq(Frame), s # <<>>
  PROVE  Carried(Tail(s)) \subseteq Carried(s)
  <1>1. /\ DOMAIN Tail(s) = 1..(Len(s) - 1)
        /\ DOMAIN s = 1..Len(s) /\ Len(s) \in Nat
        /\ \A i \in 1..(Len(s) - 1) : Tail(s)[i] = s[i + 1] /\ i + 1 \in 1..Len(s)
    OBVIOUS
  <1>2. QED
    BY <1>1 DEF Carried

LEMMA CarriedHead ==
  ASSUME NEW s \in Seq(Frame), s # <<>>, Head(s)[1] = "deliver"
  PROVE  Head(s)[2] \in Carried(s)
  <1>1. 1 \in DOMAIN s /\ Head(s) = s[1]
    OBVIOUS
  <1>2. QED
    BY <1>1 DEF Carried

LEMMA CarriedType ==
  ASSUME NEW s \in Seq(Frame)
  PROVE  Carried(s) \subseteq Delivery
  <1>1. \A f \in Frame : f[1] = "deliver" => f[2] \in Delivery
    BY DEF Frame
  <1>2. \A i \in DOMAIN s : s[i] \in Frame
    OBVIOUS
  <1>3. QED
    BY <1>1, <1>2 DEF Carried

LEMMA AcksAppend ==
  ASSUME NEW s \in Seq(Frame), NEW f \in Frame
  PROVE  Cardinality(Acks(Append(s, f)))
            = Cardinality(Acks(s)) + (IF f[1] = "ack" THEN 1 ELSE 0)
  <1>1. /\ DOMAIN Append(s, f) = 1..(Len(s) + 1)
        /\ DOMAIN s = 1..Len(s) /\ Len(s) \in Nat
        /\ Append(s, f)[Len(s) + 1] = f
        /\ \A i \in 1..Len(s) : Append(s, f)[i] = s[i]
    OBVIOUS
  <1>2. CASE f[1] = "ack"
    <2>1. Acks(Append(s, f)) = Acks(s) \cup {Len(s) + 1} /\ Len(s) + 1 \notin Acks(s)
      BY <1>1, <1>2 DEF Acks
    <2>2. QED
      BY <2>1, <1>2, AcksFinite, FS_AddElement
  <1>3. CASE f[1] # "ack"
    <2>1. Acks(Append(s, f)) = Acks(s)
      BY <1>1, <1>3 DEF Acks
    <2>2. QED
      BY <2>1, <1>3, AcksFinite
  <1>4. QED
    BY <1>2, <1>3

(* The confirmations of a tail are those of the sequence, one place on.    *)
LEMMA AcksTail ==
  ASSUME NEW s \in Seq(Frame), s # <<>>
  PROVE  Cardinality(Acks(Tail(s)))
            = Cardinality(Acks(s)) - (IF Head(s)[1] = "ack" THEN 1 ELSE 0)
  <1> DEFINE rest == Acks(s) \ {1}
             back == [i \in rest |-> i - 1]
  <1>1. /\ DOMAIN Tail(s) = 1..(Len(s) - 1)
        /\ DOMAIN s = 1..Len(s) /\ Len(s) \in Nat
        /\ \A i \in 1..(Len(s) - 1) : Tail(s)[i] = s[i + 1]
        /\ 1 \in 1..Len(s) /\ Head(s) = s[1]
    OBVIOUS
  <1>2. back \in Bijection(rest, Acks(Tail(s)))
    <2>1. \A i \in rest : i \in 2..Len(s) /\ i - 1 \in Acks(Tail(s))
      BY <1>1 DEF Acks
    <2>2. \A i, j \in rest : back[i] = back[j] => i = j
      BY <2>1
    <2>3. \A j \in Acks(Tail(s)) : j + 1 \in rest /\ back[j + 1] = j
      BY <1>1 DEF Acks
    <2>4. QED
      BY <2>1, <2>2, <2>3, Zenon DEF Bijection, Injection, Surjection, IsInjective
  <1>3. IsFiniteSet(rest) /\ Cardinality(rest) = Cardinality(Acks(Tail(s)))
    <2>1. IsFiniteSet(rest)
      BY AcksFinite, FS_Subset
    <2>2. ExistsBijection(rest, Acks(Tail(s)))
      BY <1>2 DEF ExistsBijection
    <2>3. QED
      BY <2>1, <2>2, FS_Bijection, Zenon
  <1>4. CASE Head(s)[1] = "ack"
    <2>1. 1 \in Acks(s)
      BY <1>1, <1>4 DEF Acks
    <2>2. QED
      BY <2>1, <1>3, <1>4, AcksFinite, FS_RemoveElement
  <1>5. CASE Head(s)[1] # "ack"
    <2>1. Acks(s) \ {1} = Acks(s)
      BY <1>1, <1>5 DEF Acks
    <2>2. Cardinality(Acks(s)) = Cardinality(Acks(Tail(s)))
      BY <2>1, <1>3, Zenon
    <2>3. QED
      BY <2>2, <1>5, AcksFinite
  <1>6. QED
    BY <1>4, <1>5

-----------------------------------------------------------------------------
(* Types                                                                   *)

(* The names that are still in use are at most four.                       *)
LEMMA Bounds ==
    /\ MaxFaults \in Nat /\ MaxBrokerRestarts \in Nat /\ MaxAlarms \in Nat
    /\ Cardinality(In) \in Nat
  BY TransportAssumption, FS_CardinalityType

LEMMA FreshConnType ==
  ASSUME TypeOK, BrokerInv
  PROVE  FreshConn \in Conns
  <1> DEFINE mine == IF got \in Delivery THEN got.on ELSE None
             inUse == {consumer, probe, lsock} \cup {d.on : d \in unacked}
                        \cup IF got \in Delivery THEN {got.on} ELSE {}
  <1>1. mine \in Conns \cup {None}
    BY DEF Delivery
  <1>2. inUse \subseteq {consumer, probe, lsock, mine}
    BY DEF BrokerInv
  <1>3. {consumer, probe, lsock} \subseteq Conns \cup {None}
    BY DEF TypeOK
  <1>4. Conns \ {consumer, probe, lsock, mine} # {}
    BY <1>1, <1>3, TransportAssumption
  <1>5. \E c : c \in Conns \ inUse
    BY <1>2, <1>4
  <1>6. QED
    BY <1>5 DEF FreshConn

(* TypeOK by owner of the variables.                                       *)
LinkType ==
    /\ conn \in Conns \cup {None} /\ ready \in BOOLEAN /\ link \in BOOLEAN
    /\ shut \subseteq {"in", "out"}
    /\ blocks \in Seq(Out) /\ frames \in Seq(Frame) /\ unrouted \in Seq(Out)
BrokerType ==
    /\ group \in GroupState /\ destExists \in BOOLEAN
    /\ routed \subseteq Out /\ consumer \in Conns \cup {None}
    /\ deviceQueue \subseteq In /\ lastTag \in 0..Cardinality(In)
    /\ unacked \subseteq Delivery /\ bound \subseteq Idents /\ acked \subseteq In
SendType ==
    /\ out \in [Out -> OutState] /\ sendPending \subseteq Out
    /\ sendQueue \in Seq(Out) /\ sStage \in SendStage
    /\ declared \in BOOLEAN /\ probe \in Conns \cup {None}
ListenType ==
    /\ lStage \in ListenStage /\ got \in Delivery \cup Out \cup {None}
    /\ lsock \in Conns \cup {None}
    /\ todo \subseteq Idents /\ restartRequested \in BOOLEAN /\ cancelled \in BOOLEAN
    /\ stored \subseteq In /\ announced \subseteq In /\ owned \subseteq Idents
CountType ==
    /\ faults \in 0..MaxFaults /\ brokerRestarts \in 0..MaxBrokerRestarts
    /\ alarms \in 0..MaxAlarms

LEMMA TypeParts ==
    TypeOK <=> LinkType /\ BrokerType /\ SendType /\ ListenType /\ CountType
  BY DEF TypeOK, LinkType, BrokerType, SendType, ListenType, CountType

LEMMA TypePartsNext ==
    TypeOK' <=> LinkType' /\ BrokerType' /\ SendType' /\ ListenType' /\ CountType'
  BY TypeParts, PTL

LEMMA TypeKept ==
  ASSUME TypeOK
  PROVE  /\ UNCHANGED <<connVars, linkVars>> => LinkType'
         /\ UNCHANGED brokerVars => BrokerType'
         /\ UNCHANGED sendVars => SendType'
         /\ UNCHANGED listenVars => ListenType'
         /\ UNCHANGED counters => CountType'
  <1> USE TypeParts
  <1>1. UNCHANGED <<connVars, linkVars>> => LinkType'
    BY DEF connVars, linkVars, LinkType
  <1>2. UNCHANGED brokerVars => BrokerType'
    BY DEF brokerVars, BrokerType
  <1>3. UNCHANGED sendVars => SendType'
    BY DEF sendVars, SendType
  <1>4. UNCHANGED listenVars => ListenType'
    BY DEF listenVars, ListenType
  <1>5. UNCHANGED counters => CountType'
    BY DEF counters, CountType
  <1>6. QED
    BY <1>1, <1>2, <1>3, <1>4, <1>5

LEMMA ForgetType ==
  ASSUME TypeOK, NEW c, Forget(c)
  PROVE  consumer' \in Conns \cup {None} /\ unacked' \subseteq Delivery /\ deviceQueue' \subseteq In
  <1>1. \A d \in Delivery : d.msg \in In
    BY DEF Delivery
  <1> HIDE DEF Delivery
  <1>2. QED
    BY <1>1 DEF TypeOK, Forget

LEMMA CloseType ==
  ASSUME TypeOK, Close
  PROVE  LinkType' /\ BrokerType'
  <1>1. LinkType'
    <2>1. frames' \in Seq(Frame)
      BY DEF Close
    <2>2. unrouted' \in Seq(Out)
      BY DEF Close
    <2>3. QED
      BY <2>1, <2>2 DEF LinkType, TypeOK, Close
  <1>2. Range(unrouted) \subseteq Out
    BY DEF TypeOK, Range
  <1>3. consumer' \in Conns \cup {None} /\ unacked' \subseteq Delivery /\ deviceQueue' \subseteq In
    BY ForgetType DEF Close, TypeOK
  <1>4. BrokerType'
    BY <1>2, <1>3 DEF BrokerType, TypeOK, Close
  <1>5. QED
    BY <1>1, <1>4

LEMMA OpenType ==
  ASSUME TypeOK, BrokerInv, NEW works \in BOOLEAN, Open(works)
  PROVE  LinkType'
  <1>1. frames' \in Seq(Frame)
    BY DEF Open
  <1>2. unrouted' \in Seq(Out) /\ blocks' \in Seq(Out)
    BY DEF Open
  <1>3. QED
    BY <1>1, <1>2, FreshConnType DEF LinkType, Open

LEMMA ConnectTypes ==
  ASSUME TypeOK, BrokerInv
  PROVE  /\ NoSocket => LinkType'
         /\ Connect => LinkType'
         /\ ConnectThrows => LinkType' /\ faults' \in 0..MaxFaults
  <1>1. NoSocket => LinkType'
    <2> SUFFICES ASSUME NoSocket PROVE LinkType'
      OBVIOUS
    <2>1. blocks' \in Seq(Out)
      BY DEF NoSocket
    <2>2. QED
      BY <2>1 DEF LinkType, TypeOK, NoSocket, linkVars
  <1>2. Connect => LinkType'
    BY OpenType DEF Connect
  <1>3. ConnectThrows => LinkType' /\ faults' \in 0..MaxFaults
    <2>1. MaxFaults \in Nat
      BY TransportAssumption
    <2>2. ConnectThrows => LinkType'
      BY OpenType DEF ConnectThrows
    <2>3. faults \in 0..MaxFaults
      BY DEF TypeOK
    <2>4. QED
      BY <2>1, <2>2, <2>3 DEF ConnectThrows
  <1>4. QED
    BY <1>1, <1>2, <1>3

LEMMA MessageType ==
  ASSUME TypeOK, sendQueue # <<>>
  PROVE  Message \in Out /\ Tail(sendQueue) \in Seq(Out)
  BY DEF TypeOK, Message

(* Tags do not run out, since no message is delivered again to a consumer. *)
LEMMA TagBound ==
  ASSUME TypeOK, BrokerInv, consumer # None, NEW n \in deviceQueue
  PROVE  lastTag + 1 <= Cardinality(In)
  <1> DEFINE seen == acked \cup Msgs(unacked)
  <1>1. seen \subseteq In /\ n \in In
    BY DEF TypeOK, Msgs, Delivery
  <1>2. n \notin seen
    BY DEF BrokerInv, Msgs
  <1>3. IsFiniteSet(In) /\ IsFiniteSet(seen)
    BY <1>1, TransportAssumption, FS_Subset
  <1>4. Cardinality(seen \cup {n}) = Cardinality(seen) + 1
    BY <1>2, <1>3, FS_AddElement
  <1>5. Cardinality(seen \cup {n}) <= Cardinality(In)
    BY <1>1, <1>3, FS_Subset
  <1>6. lastTag <= Cardinality(seen)
    BY DEF BrokerInv
  <1>7. Cardinality(In) \in Nat /\ Cardinality(seen) \in Nat
    BY <1>3, FS_CardinalityType
  <1>8. QED
    BY <1>4, <1>5, <1>6, <1>7 DEF TypeOK

LEMMA SenderType ==
  ASSUME TypeOK, BrokerInv, GroupInv, SenderStep
  PROVE  TypeOK'
  <1> USE DEF connVars, linkVars, brokerVars, sendVars, listenVars, counters, senderOnly,
              brokerKept
  <1> HIDE DEF Frame, Delivery
  <1>1. CASE SBegin
    BY <1>1 DEF SBegin, TypeOK, SendStage
  <1>2. CASE SConnected
    BY <1>2 DEF SConnected, STo, TypeOK, SendStage
  <1>3. CASE SConnect
    <2>1. LinkType' /\ faults' \in 0..MaxFaults
      BY <1>3, ConnectTypes DEF SConnect, Connect, NoSocket, TypeOK
    <2>a. CountType'
      BY <1>3, <2>1 DEF SConnect, CountType, TypeOK
    <2>2. CASE SRetry
      <3>1. sendQueue' \in Seq(Out)
        BY <1>3, <2>2, MessageType DEF SRetry, SConnect, GroupInv
      <3>2. SendType'
        BY <2>2, <3>1 DEF SRetry, SendType, TypeOK, SendStage
      <3>3. QED
        BY <1>3, <2>1, <2>a, <3>2, TypeKept, TypePartsNext DEF SConnect
    <2>3. CASE UNCHANGED sendVars
      BY <1>3, <2>1, <2>a, <2>3, TypeKept, TypePartsNext DEF SConnect
    <2>4. QED
      BY <1>3, <2>2, <2>3 DEF SConnect
  <1>4. CASE SDiscard
    <2>1. Message \in Out
      BY <1>4, MessageType DEF SDiscard, GroupInv
    <2>2. SendType'
      BY <1>4, <2>1 DEF SDiscard, SendType, TypeOK, SendStage, OutState
    <2>3. QED
      BY <1>4, <2>2, TypeKept, TypePartsNext DEF SDiscard
  <1>5. CASE SSkipDeclare
    BY <1>5 DEF SSkipDeclare, STo, TypeOK, SendStage
  <1>6. CASE SDeclare
    BY <1>6 DEF SDeclare, STo, TypeOK, SendStage, GroupState
  <1>7. CASE SOpenProbe
    BY <1>7 DEF SOpenProbe, STo, TypeOK, SendStage
  <1>8. CASE SProbe
    BY <1>8 DEF SProbe, STo, TypeOK, SendStage
  <1>9. CASE SDefine
    BY <1>9 DEF SDefine, STo, TypeOK, SendStage
  <1>10. CASE SBind
    BY <1>10 DEF SBind, STo, TypeOK, SendStage, GroupState
  <1>11. CASE SPublish
    <2>1. Message \in Out
      BY <1>11, MessageType DEF SPublish, STo, GroupInv
    <2>2. blocks' \in Seq(Out) /\ unrouted' \in Seq(Out)
      BY <1>11, <2>1 DEF SPublish, TypeOK
    <2>3. LinkType' /\ SendType'
      BY <1>11, <2>2 DEF SPublish, STo, LinkType, SendType, TypeOK, SendStage
    <2>4. QED
      BY <1>11, <2>3, TypeKept, TypePartsNext DEF SPublish
  <1>12. CASE SPublishFails
    BY <1>12 DEF SPublishFails, STo, TypeOK, SendStage
  <1>13. CASE SSent
    <2>1. Tail(sendQueue) \in Seq(Out)
      BY <1>13, MessageType DEF SSent, GroupInv
    <2>2. SendType'
      BY <1>13, <2>1 DEF SSent, SendType, TypeOK, SendStage
    <2>3. QED
      BY <1>13, <2>2, TypeKept, TypePartsNext DEF SSent
  <1>14. CASE SFailed
    <2>1. sendQueue' \in Seq(Out)
      BY <1>14, MessageType DEF SFailed, SRetry, GroupInv
    <2>2. SendType'
      BY <1>14, <2>1 DEF SFailed, SRetry, SendType, TypeOK, SendStage
    <2>3. QED
      BY <1>14, <2>2, CloseType, TypeKept, TypePartsNext DEF SFailed
  <1>15. CASE SLookupFails
    <2>1. faults' \in 0..MaxFaults
      BY <1>15, Bounds DEF SLookupFails, TypeOK
    <2>2. QED
      BY <1>15, <2>1 DEF SLookupFails, STo, TypeOK, SendStage
  <1>16. QED
    BY <1>1, <1>2, <1>3, <1>4, <1>5, <1>6, <1>7, <1>8, <1>9, <1>10, <1>11, <1>12, <1>13,
       <1>14, <1>15 DEF SenderStep

(* A frame taken from a sequence of frames.                                *)
LEMMA FrameSeq ==
  ASSUME NEW s \in Seq(Frame)
  PROVE  /\ Append(s, <<"ack">>) \in Seq(Frame) /\ Append(s, <<"close">>) \in Seq(Frame)
         /\ \A d \in Delivery : Append(s, <<"deliver", d>>) \in Seq(Frame)
         /\ s # <<>> => Tail(s) \in Seq(Frame) /\ Head(s) \in Frame
         /\ s # <<>> /\ Head(s)[1] = "deliver" => Head(s)[2] \in Delivery
  <1>1. /\ <<"ack">> \in Frame /\ <<"close">> \in Frame /\ <<"return">> \in Frame
        /\ \A d \in Delivery : <<"deliver", d>> \in Frame
        /\ \A f \in Frame : f[1] = "deliver" => f[2] \in Delivery
    BY DEF Frame
  <1> HIDE DEF Frame
  <1>2. s # <<>> => Tail(s) \in Seq(Frame) /\ Head(s) \in Frame
    OBVIOUS
  <1>3. \A f \in Frame : Append(s, f) \in Seq(Frame)
    OBVIOUS
  <1>4. QED
    BY <1>1, <1>2, <1>3

LEMMA ListenerType ==
  ASSUME TypeOK, BrokerInv, GotInv, ListenerStep
  PROVE  TypeOK'
  <1> USE DEF connVars, linkVars, brokerVars, sendVars, listenVars, counters, listenerOnly,
              noteVars, listenerLocal
  <1> HIDE DEF Frame, Delivery
  <1>1. CASE LFinish
    <2>1. ListenType' /\ CountType' /\ SendType'
      BY <1>1 DEF LFinish, LTo, TypeOK, ListenType, ListenStage, CountType, SendType
    <2>2. QED
      BY <1>1, <2>1, CloseType, TypePartsNext DEF LFinish
  <1>2. CASE LTop
    <2>1. ListenType'
      BY <1>2 DEF LTop, TypeOK, ListenType, ListenStage
    <2>2. LinkType' /\ faults' \in 0..MaxFaults
      BY <1>2, ConnectTypes, TypeKept DEF LTop, Connect, NoSocket, TypeOK
    <2>3. CountType' /\ BrokerType' /\ SendType'
      BY <1>2, <2>2, TypeKept DEF LTop, CountType, TypeOK
    <2>4. QED
      BY <2>1, <2>2, <2>3, TypePartsNext
  <1>3. CASE LSetup
    BY <1>3 DEF LSetup, LTo, TypeOK, ListenStage
  <1>4. CASE \E i \in todo : LBind(i)
    BY <1>4 DEF LBind, LTo, TypeOK, ListenStage
  <1>5. CASE LConsume
    <2>1. consumer' \in Conns \cup {None} /\ lastTag' \in 0..Cardinality(In)
      BY <1>5, Bounds DEF LConsume, TypeOK
    <2>2. QED
      BY <1>5, <2>1 DEF LConsume, LTo, TypeOK, ListenStage
  <1>6. CASE LFailed
    <2>1. ListenType'
      BY <1>6 DEF LFailed, LTo, TypeOK, ListenType, ListenStage
    <2>2. QED
      BY <1>6, <2>1, CloseType, TypeKept, TypePartsNext DEF LFailed
  <1>7. CASE LLeave
    BY <1>7 DEF LLeave, LTo, TypeOK, ListenStage
  <1>8. CASE LSelect \/ LIdle
    BY <1>8 DEF LSelect, LIdle, LTo, TypeOK, ListenStage
  <1>9. CASE LReadAck
    <2>1. frames' \in Seq(Frame)
      BY <1>9, FrameSeq DEF LReadAck, Reading, TypeOK
    <2>2. blocks' \in Seq(Out) /\ got' \in Delivery \cup Out \cup {None}
      <3>1. CASE blocks = <<>>
        BY <1>9, <3>1 DEF LReadAck, TypeOK
      <3>2. CASE blocks # <<>>
        <4>1. Head(blocks) \in Out /\ Tail(blocks) \in Seq(Out)
          BY <3>2 DEF TypeOK
        <4>2. QED
          BY <1>9, <3>2, <4>1 DEF LReadAck
      <3>3. QED
        BY <3>1, <3>2
    <2>3. LinkType' /\ ListenType'
      BY <1>9, <2>1, <2>2 DEF LReadAck, Reading, TypeOK, LinkType, ListenType, ListenStage
    <2>4. QED
      BY <1>9, <2>3, TypeKept, TypePartsNext DEF LReadAck
  <1>10. CASE LReadDelivery
    <2>1. frames' \in Seq(Frame) /\ got' \in Delivery
      BY <1>10, FrameSeq DEF LReadDelivery, Reading, TypeOK
    <2>2. LinkType' /\ ListenType'
      BY <1>10, <2>1 DEF LReadDelivery, Reading, TypeOK, LinkType, ListenType, ListenStage
    <2>3. QED
      BY <1>10, <2>2, TypeKept, TypePartsNext DEF LReadDelivery
  <1>11. CASE LReadOther
    <2>1. ListenType'
      BY <1>11 DEF LReadOther, Reading, TypeOK, ListenType, ListenStage
    <2>2. QED
      BY <1>11, <2>1, CloseType, TypeKept, TypePartsNext DEF LReadOther
  <1>12. CASE LAckBlock
    <2>1. out' \in [Out -> OutState]
      BY <1>12 DEF LAckBlock, TypeOK, OutState
    <2>2. QED
      BY <1>12, <2>1 DEF LAckBlock, LTo, TypeOK, ListenStage
  <1>13. CASE LAckBlockFails
    <2>1. faults' \in 0..MaxFaults
      BY <1>13, Bounds DEF LAckBlockFails, TypeOK
    <2>2. QED
      BY <1>13, <2>1 DEF LAckBlockFails, LTo, TypeOK, ListenStage
  <1>14. CASE LSave
    <2>1. got.msg \in In
      BY <1>14 DEF LSave, LTo, GotInv, Delivery
    <2>2. QED
      BY <1>14, <2>1 DEF LSave, LTo, TypeOK, ListenStage
  <1>15. CASE LSaveFails
    <2>1. faults' \in 0..MaxFaults
      BY <1>15, Bounds DEF LSaveFails, TypeOK
    <2>2. QED
      BY <1>15, <2>1 DEF LSaveFails, LTo, TypeOK, ListenStage
  <1>16. CASE LAck
    <2>1. frames' \in Seq(Frame)
      BY <1>16, FrameSeq DEF LAck, TypeOK
    <2>2. acked' \subseteq In /\ unacked' \subseteq Delivery
      BY <1>16 DEF LAck, TypeOK, Delivery
    <2>3. LinkType'
      <3>1. shut' \subseteq {"in", "out"}
        BY <1>16 DEF LAck, TypeOK
      <3>2. UNCHANGED <<connVars, link, unrouted>>
        BY <1>16 DEF LAck
      <3>3. QED
        BY <2>1, <3>1, <3>2 DEF LinkType, TypeOK
    <2>4. BrokerType'
      <3>1. UNCHANGED <<group, destExists, routed, consumer, deviceQueue, lastTag, bound>>
        BY <1>16 DEF LAck
      <3>2. QED
        BY <2>2, <3>1 DEF BrokerType, TypeOK
    <2>5. ListenType'
      <3>1. /\ lStage' \in ListenStage
            /\ got' \in Delivery \cup Out \cup {None}
        BY <1>16 DEF LAck, TypeOK, ListenStage
      <3>2. UNCHANGED <<restartRequested, todo, lsock, cancelled, stored, announced, owned>>
        BY <1>16 DEF LAck
      <3>3. QED
        BY <3>1, <3>2 DEF ListenType, TypeOK
    <2>6. SendType' /\ CountType'
      <3>1. UNCHANGED <<sendVars, counters>>
        BY <1>16 DEF LAck, listenerOnly
      <3>2. QED
        BY <3>1, TypeKept
    <2>7. QED
      BY <2>3, <2>4, <2>5, <2>6, TypePartsNext
  <1>17. CASE LPost
    <2>1. got.msg \in In
      BY <1>17 DEF LPost, LTo, GotInv, Delivery
    <2>2. QED
      BY <1>17, <2>1 DEF LPost, LTo, TypeOK, ListenStage
  <1>18. QED
    BY <1>1, <1>2, <1>3, <1>4, <1>5, <1>6, <1>7, <1>8, <1>9, <1>10, <1>11, <1>12, <1>13,
       <1>14, <1>15, <1>16, <1>17 DEF ListenerStep

LEMMA OtherType ==
  ASSUME TypeOK, LinkInv, BrokerInv, BrokerStep \/ Environment
  PROVE  TypeOK'
  <1> USE DEF connVars, linkVars, brokerVars, sendVars, listenVars, counters, senderOnly,
              noteVars
  <1> HIDE DEF Frame, Delivery
  <1>1. ASSUME NEW c \in Conns, Reap(c) PROVE TypeOK'
    BY <1>1, ForgetType DEF Reap, TypeOK
  <1>2. ASSUME NEW n \in 1..Len(unrouted), Route(n) PROVE TypeOK'
    <2>1. frames \in Seq(Frame) /\ unrouted \in Seq(Out)
      BY DEF TypeOK
    <2>2. frames' \in Seq(Frame)
      <3>1. /\ <<<<"ack">>>> \in Seq(Frame) /\ <<<<"return">>>> \in Seq(Frame)
            /\ <<>> \in Seq(Frame) /\ <<"close">> \in Frame
        BY DEF Frame
      <3>2. /\ frames \o <<>> \o <<<<"ack">>>> \in Seq(Frame)
            /\ frames \o <<<<"return">>>> \o <<<<"ack">>>> \in Seq(Frame)
            /\ Append(frames, <<"close">>) \in Seq(Frame)
        BY <2>1, <3>1
      <3>3. QED
        BY <1>2, <3>2 DEF Route
    <2>3. SubSeq(unrouted, 1, n) \in Seq(Out)
      BY <2>1
    <2>4. Range(SubSeq(unrouted, 1, n)) \subseteq Out
      BY <2>3 DEF Range
    <2>5. unrouted' \in Seq(Out)
      <3>1. SubSeq(unrouted, n + 1, Len(unrouted)) \in Seq(Out) /\ <<>> \in Seq(Out)
        BY <2>1
      <3>2. QED
        BY <1>2, <3>1 DEF Route
    <2>6. LinkType' /\ BrokerType'
      BY <1>2, <2>2, <2>4, <2>5 DEF Route, TypeOK, LinkType, BrokerType
    <2>7. QED
      BY <1>2, <2>6, TypeKept, TypePartsNext DEF Route
  <1>3. ASSUME NEW n \in In, Deliver(n) PROVE TypeOK'
    <2> DEFINE d == [on |-> conn, tag |-> lastTag + 1, msg |-> n]
    <2>1. lastTag + 1 \in 1..Cardinality(In)
      <3>1. conn \in Conns /\ conn = consumer /\ n \in deviceQueue
        BY <1>3 DEF Deliver, LinkInv, TypeOK
      <3>2. QED
        <4>1. lastTag + 1 <= Cardinality(In)
          BY <3>1, TagBound, TransportAssumption
        <4>2. QED
          BY <4>1, Bounds DEF TypeOK
    <2>2. d \in Delivery
      BY <1>3, <2>1 DEF Deliver, LinkInv, TypeOK, Delivery
    <2>3. frames' \in Seq(Frame)
      BY <1>3, <2>2, FrameSeq DEF Deliver, TypeOK
    <2>4. QED
      BY <1>3, <2>1, <2>2, <2>3 DEF Deliver, TypeOK
  <1>4. CASE Drop
    <2>1. faults' \in 0..MaxFaults
      BY <1>4, Bounds DEF Drop, TypeOK
    <2>2. unrouted' \in Seq(Out)
      BY <1>4 DEF Drop
    <2>3. LinkType' /\ CountType'
      BY <1>4, <2>1, <2>2 DEF Drop, LinkType, CountType, TypeOK
    <2>4. BrokerType'
      BY <1>4 DEF Drop, BrokerType, TypeOK
    <2>5. QED
      BY <1>4, <2>3, <2>4, TypeKept, TypePartsNext DEF Drop
  <1>5. CASE BrokerRestart
    <2>1. brokerRestarts' \in 0..MaxBrokerRestarts
      BY <1>5, Bounds DEF BrokerRestart, TypeOK
    <2>2. unrouted' \in Seq(Out)
      BY <1>5 DEF BrokerRestart
    <2>3. LinkType'
      BY <1>5, <2>2 DEF BrokerRestart, LinkType, TypeOK
    <2>4. BrokerType'
      <3>1. /\ group' \in GroupState /\ consumer' = None
            /\ unacked' = {} /\ deviceQueue' = {}
            /\ UNCHANGED <<destExists, routed, lastTag, bound, acked>>
        BY <1>5 DEF BrokerRestart, GroupState
      <3>2. QED
        BY <3>1 DEF BrokerType, TypeOK
    <2>5. CountType'
      BY <1>5, <2>1 DEF BrokerRestart, CountType, TypeOK
    <2>6. QED
      BY <1>5, <2>3, <2>4, <2>5, TypeKept, TypePartsNext DEF BrokerRestart
  <1>6. CASE Expire
    <2>1. ListenType' /\ CountType'
      BY <1>6, Bounds DEF Expire, TypeOK, ListenType, CountType
    <2>2. QED
      BY <1>6, <2>1, CloseType, TypeKept, TypePartsNext DEF Expire
  <1>7. CASE Stop
    BY <1>7 DEF Stop, TypeOK
  <1>8. ASSUME NEW m \in Out, Submit(m) PROVE TypeOK'
    <2>1. sendQueue' \in Seq(Out)
      BY <1>8 DEF Submit, TypeOK
    <2>2. out' \in [Out -> OutState]
      BY <1>8 DEF Submit, TypeOK, OutState
    <2>3. QED
      BY <1>8, <2>1, <2>2 DEF Submit, TypeOK
  <1>9. ASSUME NEW m \in Out, NotifyAll(m) PROVE TypeOK'
    <2>1. sendQueue' \in Seq(Out)
      BY <1>9 DEF NotifyAll, TypeOK
    <2>2. QED
      BY <1>9, <2>1, Bounds DEF NotifyAll, TypeOK
  <1>10. ASSUME NEW i \in Idents, OwnIdentity(i) PROVE TypeOK'
    BY <1>10 DEF OwnIdentity, TypeOK
  <1>11. QED
    BY <1>1, <1>2, <1>3, <1>4, <1>5, <1>6, <1>7, <1>8, <1>9, <1>10 DEF BrokerStep, Environment

-----------------------------------------------------------------------------
(* Incoming messages                                                       *)

InInv == LinkInv /\ BrokerInv /\ FrameInv /\ GotInv /\ AckedIsStored

(* The consumer stays, or ends with all it had; nothing is delivered.      *)
Calm ==
    /\ consumer' \in {None, consumer}
    /\ unacked' = IF consumer' = consumer THEN unacked ELSE {}
    /\ deviceQueue' \subseteq deviceQueue
        \cup IF consumer' = consumer THEN {} ELSE Msgs(unacked)
    /\ acked' = acked /\ lastTag' = lastTag
    /\ Carried(frames') \subseteq Carried(frames)
    /\ Carried(frames') # {} => conn' = conn /\ (link' => link /\ consumer' = consumer)
    /\ LinkInv'

(* The listener does not take, save or post a delivery.                    *)
GotKept ==
    /\ lStage' \in {"got", "saved", "posting"} => lStage' = lStage /\ got' = got
    /\ stored' = stored

LEMMA CalmStep ==
  ASSUME TypeOK, InInv, Calm, GotKept
  PROVE  InInv'
  <1> USE DEF InInv
  <1>1. CASE consumer' = consumer
    <2>1. unacked' = unacked /\ deviceQueue' \subseteq deviceQueue
      BY <1>1 DEF Calm
    <2>2. BrokerInv'
      BY <1>1, <2>1 DEF BrokerInv, Calm, Msgs
    <2>3. \A d : Tagged(d) => Tagged(d)'
      BY <1>1, <2>1 DEF Tagged, Calm
    <2>4. FrameInv'
      BY <1>1, <2>3 DEF FrameInv, Calm
    <2>5. GotInv'
      BY <2>3 DEF GotInv, GotKept
    <2>6. QED
      BY <2>2, <2>4, <2>5 DEF Calm, GotKept, AckedIsStored
  <1>2. CASE consumer' # consumer
    <2>1. consumer' = None /\ unacked' = {}
      BY <1>2 DEF Calm
    <2>2. deviceQueue' \cap acked' = {}
      BY <1>2 DEF Calm, BrokerInv, Msgs
    <2>3. BrokerInv'
      BY <2>1, <2>2 DEF BrokerInv
    <2>4. \A d : Tagged(d)'
      BY <2>1 DEF Tagged
    <2>5. FrameInv'
      BY <1>2, <2>4 DEF FrameInv, Calm
    <2>6. GotInv'
      BY <2>4 DEF GotInv, GotKept
    <2>7. QED
      BY <2>3, <2>5, <2>6 DEF Calm, GotKept, AckedIsStored
  <1>3. QED
    BY <1>1, <1>2

LEMMA ForgetCalm ==
  ASSUME TypeOK, BrokerInv, NEW c, c # None, Forget(c)
  PROVE  /\ consumer' = IF consumer = c THEN None ELSE consumer
         /\ unacked' = IF consumer' = consumer THEN unacked ELSE {}
         /\ deviceQueue' \subseteq deviceQueue
              \cup IF consumer' = consumer THEN {} ELSE Msgs(unacked)
  <1>1. CASE consumer = c
    BY <1>1 DEF Forget, BrokerInv, Msgs
  <1>2. CASE consumer # c
    <2>1. unacked' = unacked
      BY <1>2 DEF Forget, BrokerInv
    <2>2. QED
      BY <1>2, <2>1 DEF Forget
  <1>3. QED
    BY <1>1, <1>2

LEMMA CloseCalm ==
  ASSUME TypeOK, LinkInv, BrokerInv, Close
  PROVE  Calm
  <1>1. CASE link
    <2>1. conn # None /\ Forget(conn)
      BY <1>1 DEF LinkInv, Close
    <2>2. QED
      BY <2>1, ForgetCalm, Empty DEF Calm, Close, LinkInv
  <1>2. CASE ~link
    BY <1>2, Empty DEF Calm, Close, LinkInv
  <1>3. QED
    BY <1>1, <1>2

(* The broker hears nothing of a new connection until a channel is used.   *)
LEMMA ConnectCalm ==
  ASSUME TypeOK, LinkInv, BrokerInv, NoSocket \/ Connect \/ ConnectThrows,
         UNCHANGED brokerVars
  PROVE  Calm
  <1>1. CASE NoSocket
    BY <1>1 DEF NoSocket, Calm, LinkInv, linkVars, brokerVars
  <1>2. ASSUME NEW works \in BOOLEAN, Open(works) PROVE Calm
    <2>1. conn' \in Conns /\ Carried(frames') = {} /\ ready' = works /\ link' = works
      BY <1>2, FreshConnType, Empty DEF Open
    <2>2. LinkInv'
      BY <2>1, TransportAssumption DEF LinkInv
    <2>3. QED
      BY <2>1, <2>2 DEF Calm, brokerVars
  <1>3. QED
    BY <1>1, <1>2 DEF Connect, ConnectThrows

(* The sender leaves the deliveries alone.                                 *)
LEMMA SenderCalm ==
  ASSUME TypeOK, LinkInv, BrokerInv, SenderStep
  PROVE  Calm /\ GotKept
  <1> USE DEF connVars, linkVars, brokerVars, listenVars, counters, senderOnly, brokerKept,
              GotKept
  <1>1. CASE SConnect
    BY <1>1, ConnectCalm DEF SConnect
  <1>2. CASE SFailed
    BY <1>2, CloseCalm DEF SFailed
  <1>3. CASE SBegin \/ SConnected \/ SDiscard \/ SSkipDeclare \/ SSent
    BY <1>3 DEF SBegin, SConnected, SDiscard, SSkipDeclare, SSent, Calm, LinkInv
  <1>4. CASE SLookupFails \/ SDeclare \/ SOpenProbe \/ SDefine
    BY <1>4 DEF SLookupFails, SDeclare, SOpenProbe, SDefine, Calm, LinkInv
  <1>5. CASE SBind \/ SPublish \/ SPublishFails
    BY <1>5 DEF SBind, SPublish, SPublishFails, Calm, LinkInv
  <1>6. CASE SProbe
    <2>1. link' => link
      BY <1>6 DEF SProbe
    <2>2. QED
      BY <1>6, <2>1 DEF SProbe, Calm, LinkInv
  <1>7. QED
    BY <1>1, <1>2, <1>3, <1>4, <1>5, <1>6 DEF SenderStep

Taking == LConsume \/ LReadDelivery \/ LSave \/ LAck

LEMMA ListenerCalm ==
  ASSUME TypeOK, LinkInv, BrokerInv, ListenerStep, ~Taking
  PROVE  Calm /\ GotKept
  <1> USE DEF connVars, linkVars, brokerVars, counters, listenerOnly, noteVars, listenerLocal,
              GotKept
  <1>1. CASE LTop
    <2>1. CASE ready /\ UNCHANGED <<connVars, linkVars, faults>>
      BY <1>1, <2>1 DEF LTop, Calm, LinkInv
    <2>2. CASE NoSocket \/ Connect \/ ConnectThrows
      BY <1>1, <2>2, ConnectCalm DEF LTop
    <2>3. QED
      BY <1>1, <2>1, <2>2 DEF LTop
  <1>2. CASE LFinish \/ LFailed \/ LReadOther
    BY <1>2, CloseCalm DEF LFinish, LFailed, LReadOther, LTo
  <1>3. CASE LSetup \/ LLeave \/ LSelect \/ LIdle
    BY <1>3 DEF LSetup, LLeave, LSelect, LIdle, LTo, Calm, LinkInv
  <1>4. ASSUME NEW i \in todo, LBind(i) PROVE Calm /\ GotKept
    BY <1>4 DEF LBind, LTo, Calm, LinkInv
  <1>5. CASE LReadAck
    <2>1. Carried(frames') \subseteq Carried(frames)
      BY <1>5, CarriedTail DEF LReadAck, Reading, TypeOK
    <2>2. QED
      BY <1>5, <2>1 DEF LReadAck, Calm, LinkInv
  <1>6. CASE LAckBlock \/ LAckBlockFails \/ LSaveFails \/ LPost
    BY <1>6 DEF LAckBlock, LAckBlockFails, LSaveFails, LPost, LTo, Calm, LinkInv
  <1>7. QED
    BY <1>1, <1>2, <1>3, <1>4, <1>5, <1>6 DEF ListenerStep, Taking

LEMMA OtherCalm ==
  ASSUME TypeOK, LinkInv, BrokerInv, FrameInv, BrokerStep \/ Environment,
         ~ \E n \in In : Deliver(n)
  PROVE  Calm /\ GotKept
  <1> USE DEF connVars, linkVars, brokerVars, listenVars, counters, senderOnly, noteVars,
              GotKept
  <1>1. ASSUME NEW c \in Conns, Reap(c) PROVE Calm /\ GotKept
    <2>1. /\ consumer' = IF consumer = c THEN None ELSE consumer
          /\ unacked' = IF consumer' = consumer THEN unacked ELSE {}
          /\ deviceQueue' \subseteq deviceQueue
               \cup IF consumer' = consumer THEN {} ELSE Msgs(unacked)
      BY <1>1, ForgetCalm, TransportAssumption DEF Reap
    <2>2. Carried(frames) # {} => (link => consumer' = consumer)
      BY <1>1, <2>1 DEF Reap, FrameInv
    <2>3. QED
      BY <1>1, <2>1, <2>2 DEF Reap, Calm, LinkInv
  <1>2. ASSUME NEW n \in 1..Len(unrouted), Route(n) PROVE Calm /\ GotKept
    <2>1. frames \in Seq(Frame)
      BY DEF TypeOK
    <2>2. /\ <<"ack">> \in Frame /\ <<"return">> \in Frame /\ <<"close">> \in Frame
          /\ <<"ack">>[1] # "deliver" /\ <<"return">>[1] # "deliver"
          /\ <<"close">>[1] # "deliver"
      BY DEF Frame
    <2>3. /\ Carried(Append(frames, <<"close">>)) = Carried(frames)
          /\ Carried(Append(frames, <<"ack">>)) = Carried(frames)
          /\ Carried(Append(Append(frames, <<"return">>), <<"ack">>)) = Carried(frames)
      <3> HIDE DEF Frame
      <3>1. Append(frames, <<"return">>) \in Seq(Frame)
        BY <2>1, <2>2
      <3>2. QED
        BY <2>1, <2>2, <3>1, CarriedAppend
    <2>4. /\ frames \o <<>> \o <<<<"ack">>>> = Append(frames, <<"ack">>)
          /\ frames \o <<<<"return">>>> \o <<<<"ack">>>>
                = Append(Append(frames, <<"return">>), <<"ack">>)
      BY <2>1
    <2>5. Carried(frames') = Carried(frames)
      BY <1>2, <2>3, <2>4 DEF Route
    <2>6. QED
      BY <1>2, <2>5 DEF Route, Calm, LinkInv
  <1>3. CASE Expire
    BY <1>3, CloseCalm DEF Expire
  <1>4. CASE BrokerRestart
    <2>1. consumer = None => unacked = {}
      BY TransportAssumption DEF BrokerInv, TypeOK, Delivery
    <2>2. QED
      BY <1>4, <2>1 DEF BrokerRestart, Calm, LinkInv
  <1>5. CASE Drop \/ Stop
    BY <1>5 DEF Drop, Stop, Calm, LinkInv
  <1>6. ASSUME NEW m \in Out, Submit(m) \/ NotifyAll(m) PROVE Calm /\ GotKept
    BY <1>6 DEF Submit, NotifyAll, Calm, LinkInv
  <1>7. ASSUME NEW i \in Idents, OwnIdentity(i) PROVE Calm /\ GotKept
    BY <1>7 DEF OwnIdentity, Calm, LinkInv
  <1>8. QED
    BY <1>1, <1>2, <1>3, <1>4, <1>5, <1>6, <1>7 DEF BrokerStep, Environment

(* A new delivery has a tag of its own.                                    *)
LEMMA DeliverStep ==
  ASSUME TypeOK, InInv, NEW n \in In, Deliver(n)
  PROVE  InInv'
  <1> USE DEF InInv
  <1>1. /\ conn \in Conns /\ conn # None /\ consumer = conn /\ link
        /\ lastTag \in Nat /\ lastTag + 1 \in 1..Cardinality(In)
    <2>1. conn # None /\ consumer = conn /\ n \in deviceQueue /\ link
      BY DEF Deliver, LinkInv
    <2>2. lastTag + 1 <= Cardinality(In)
      BY <2>1, TagBound
    <2>3. QED
      BY <2>1, <2>2, Bounds DEF TypeOK
  <1>2. PICK d \in Delivery : d = [on |-> conn, tag |-> lastTag + 1, msg |-> n]
    BY <1>1 DEF Delivery
  <1>3. d.on = conn /\ d.tag = lastTag + 1 /\ d.msg = n
    BY <1>2
  <1>4. /\ unacked' = unacked \cup {d} /\ deviceQueue' = deviceQueue \ {n}
        /\ lastTag' = lastTag + 1 /\ n \in deviceQueue
        /\ UNCHANGED <<conn, ready, link, consumer, acked, lStage, got, stored>>
    BY <1>2 DEF Deliver, connVars, listenVars
  <1>5. Carried(frames') \subseteq Carried(frames) \cup {d}
    <2>1. <<"deliver", d>> \in Frame
      BY DEF Frame
    <2>2. Carried(Append(frames, <<"deliver", d>>)) \subseteq Carried(frames) \cup {<<"deliver", d>>[2]}
      BY <2>1, CarriedAppend DEF TypeOK
    <2>3. QED
      BY <1>2, <2>2 DEF Deliver
  <1>6. \A e \in unacked : e.tag \in Nat /\ e.tag <= lastTag
    BY DEF TypeOK, BrokerInv, Delivery
  <1>7. BrokerInv'
    <2>1. \A e \in unacked' : /\ e.on = consumer' /\ e.tag <= lastTag'
                              /\ e.msg \notin deviceQueue' \cup acked'
      BY <1>1, <1>4, <1>6, <1>3 DEF BrokerInv
    <2>2. \A e, f \in unacked' : e.tag = f.tag \/ e.msg = f.msg => e = f
      BY <1>1, <1>4, <1>6, <1>3 DEF BrokerInv
    <2>3. deviceQueue' \cap acked' = {}
      BY <1>4 DEF BrokerInv
    <2>4. lastTag' <= Cardinality(acked' \cup Msgs(unacked'))
      <3> DEFINE seen == acked \cup Msgs(unacked)
      <3>1. acked' \cup Msgs(unacked') = seen \cup {n}
        BY <1>4, <1>3 DEF Msgs
      <3>2. seen \subseteq In /\ n \notin seen
        BY <1>4 DEF Msgs, TypeOK, BrokerInv, Delivery
      <3>3. IsFiniteSet(seen)
        BY <3>2, TransportAssumption, FS_Subset
      <3>4. Cardinality(seen \cup {n}) = Cardinality(seen) + 1 /\ Cardinality(seen) \in Nat
        BY <3>2, <3>3, FS_AddElement, FS_CardinalityType
      <3>5. lastTag <= Cardinality(seen)
        BY <1>1 DEF BrokerInv
      <3>6. lastTag + 1 <= Cardinality(seen \cup {n})
        BY <3>4, <3>5, <1>1
      <3>7. QED
        BY <3>1, <3>6, <1>4
    <2>5. QED
      BY <2>1, <2>2, <2>3, <2>4 DEF BrokerInv
  <1>8. ASSUME NEW e \in Delivery, Tagged(e) PROVE Tagged(e)'
    <2>1. consumer' \in {None, e.on} /\ e.tag <= lastTag /\ e.tag \in Nat
      BY <1>1, <1>4, <1>8 DEF Tagged, Delivery
    <2>2. \A f \in unacked' : f.tag = e.tag => f = e
      BY <1>1, <1>4, <1>8, <1>3, <2>1 DEF Tagged
    <2>3. QED
      BY <1>1, <1>4, <2>1, <2>2 DEF Tagged
  <1>9. Tagged(d)'
    BY <1>1, <1>4, <1>6, <1>3 DEF Tagged
  <1>10. FrameInv'
    <2>1. Carried(frames) \subseteq Delivery
      BY CarriedType DEF TypeOK
    <2>2. QED
      BY <1>1, <1>4, <1>5, <1>8, <1>9, <1>3, <2>1 DEF FrameInv
  <1>11. GotInv'
    BY <1>4, <1>8 DEF GotInv
  <1>12. QED
    BY <1>4, <1>7, <1>10, <1>11 DEF LinkInv, AckedIsStored

(* A new consumer counts from nothing.                                     *)
LEMMA ConsumeStep ==
  ASSUME TypeOK, InInv, LConsume
  PROVE  InInv'
  <1> USE DEF InInv, connVars, linkVars
  <1>1. lStage' \notin {"got", "saved", "posting"} /\ stored' = stored
    BY DEF LConsume, LTo, noteVars
  <1>2. CASE CallOk("in") /\ consumer = None
    <2>1. unacked = {}
      BY <1>2, TransportAssumption DEF BrokerInv, TypeOK, Delivery
    <2>2. Carried(frames) = {}
      BY <1>2, CarriedType DEF FrameInv, CallOk, LinkInv
    <2>3. /\ consumer' = conn /\ lastTag' = 0 /\ unacked' = {} /\ frames' = frames
          /\ UNCHANGED <<conn, ready, link, deviceQueue, acked>>
      BY <1>2, <2>1 DEF LConsume
    <2>4. Cardinality(acked \cup Msgs(unacked')) \in Nat
      <3>1. acked \cup Msgs(unacked') \subseteq In
        BY <2>3 DEF TypeOK, Msgs
      <3>2. QED
        BY <3>1, TransportAssumption, FS_Subset, FS_CardinalityType
    <2>5. BrokerInv'
      BY <2>3, <2>4 DEF BrokerInv
    <2>6. FrameInv' /\ GotInv'
      BY <1>1, <2>2, <2>3 DEF FrameInv, GotInv
    <2>7. QED
      BY <1>1, <2>3, <2>5, <2>6 DEF LinkInv, AckedIsStored
  <1>3. CASE ~(CallOk("in") /\ consumer = None)
    <2>1. Calm /\ GotKept
      BY <1>1, <1>3 DEF LConsume, Calm, GotKept, LinkInv
    <2>2. QED
      BY <2>1, CalmStep
  <1>4. QED
    BY <1>2, <1>3

LEMMA ReadStep ==
  ASSUME TypeOK, InInv, LReadDelivery
  PROVE  InInv'
  <1> USE DEF InInv, connVars, brokerVars
  <1>1. /\ got' \in Carried(frames) /\ Carried(frames') \subseteq Carried(frames)
        /\ got' \in Delivery
    BY CarriedTail, CarriedHead, FrameSeq DEF LReadDelivery, Reading, TypeOK
  <1>2. lStage' = "got" /\ stored' = stored
    BY DEF LReadDelivery
  <1>3. /\ UNCHANGED <<conn, ready, link, consumer, deviceQueue, lastTag, unacked, acked>>
        /\ \A d : Tagged(d)' <=> Tagged(d)
    BY DEF LReadDelivery, Tagged
  <1>4. FrameInv' /\ BrokerInv' /\ LinkInv'
    BY <1>1, <1>3 DEF FrameInv, BrokerInv, LinkInv
  <1>5. GotInv'
    BY <1>1, <1>2, <1>3 DEF GotInv, FrameInv
  <1>6. QED
    BY <1>2, <1>3, <1>4, <1>5 DEF AckedIsStored

LEMMA SaveStep ==
  ASSUME TypeOK, InInv, LSave
  PROVE  InInv'
  <1> USE DEF InInv, connVars, linkVars, brokerVars, listenerLocal
  <1>1. /\ UNCHANGED <<conn, ready, link, frames, consumer, deviceQueue, lastTag, unacked,
                       acked, got>>
        /\ \A d : Tagged(d)' <=> Tagged(d)
    BY DEF LSave, Tagged
  <1>2. lStage = "got" /\ lStage' = "saved" /\ stored' = stored \cup {got.msg}
    BY DEF LSave, LTo
  <1>3. FrameInv' /\ BrokerInv' /\ LinkInv'
    BY <1>1 DEF FrameInv, BrokerInv, LinkInv
  <1>4. GotInv'
    BY <1>1, <1>2 DEF GotInv
  <1>5. QED
    BY <1>1, <1>2, <1>3, <1>4 DEF AckedIsStored

(* What is acked is the delivery that was saved, or nothing: its tag means *)
(* no other on any connection.                                             *)
LEMMA AckStep ==
  ASSUME TypeOK, InInv, LAck
  PROVE  InInv'
  <1> USE DEF InInv, connVars
  <1> DEFINE meant == {d \in unacked : d.on = conn /\ d.tag = got.tag}
             all == acked \cup Msgs(unacked)
  <1>1. /\ lStage = "saved" /\ got \in Delivery /\ Tagged(got) /\ got.msg \in stored
        /\ stored' = stored
    BY DEF LAck, GotInv
  <1>2. meant \subseteq {got}
    BY <1>1 DEF Tagged
  <1>3. UNCHANGED <<conn, ready, link, consumer, deviceQueue, lastTag>>
    BY DEF LAck
  <1>4. \/ UNCHANGED <<acked, unacked>>
        \/ acked' = acked \cup Msgs(meant) /\ unacked' = unacked \ meant
    BY DEF LAck, Msgs
  <1>5. Carried(frames') = Carried(frames)
    <2>1. <<"close">> \in Frame /\ <<"close">>[1] # "deliver"
      BY DEF Frame
    <2>2. Carried(Append(frames, <<"close">>)) = Carried(frames)
      BY <2>1, CarriedAppend DEF TypeOK
    <2>3. QED
      BY <2>2 DEF LAck
  <1>6. unacked' \subseteq unacked /\ acked' \cup Msgs(unacked') = acked \cup Msgs(unacked)
    BY <1>4 DEF Msgs
  <1>7. BrokerInv'
    <2>1. \A d \in unacked' : d.msg \notin acked'
      <3>1. \A d \in unacked : d \notin meant => d.msg \notin Msgs(meant)
        BY <1>2 DEF Msgs, BrokerInv
      <3>2. QED
        BY <1>4, <3>1 DEF BrokerInv
    <2>2. deviceQueue' \cap acked' = {}
      BY <1>3, <1>4 DEF BrokerInv, Msgs
    <2>3. QED
      BY <1>3, <1>6, <2>1, <2>2 DEF BrokerInv
  <1>8. \A d : Tagged(d) => Tagged(d)'
    BY <1>3, <1>6 DEF Tagged
  <1>9. FrameInv' /\ LinkInv'
    BY <1>3, <1>5, <1>8 DEF FrameInv, LinkInv
  <1>10. lStage' \in {"posting", "top"} /\ (lStage' = "posting" => got' = got)
    BY DEF LAck
  <1>11. GotInv'
    BY <1>1, <1>8, <1>10 DEF GotInv
  <1>12. AckedIsStored'
    BY <1>1, <1>2, <1>4 DEF AckedIsStored, Msgs
  <1>13. QED
    BY <1>7, <1>9, <1>11, <1>12

LEMMA InStep ==
  ASSUME TypeOK, InInv, Next
  PROVE  InInv'
  <1>1. CASE SenderStep
    BY <1>1, SenderCalm, CalmStep DEF InInv
  <1>2. CASE ListenerStep
    BY <1>2, ListenerCalm, CalmStep, ConsumeStep, ReadStep, SaveStep, AckStep
       DEF InInv, Taking
  <1>3. CASE BrokerStep \/ Environment
    BY <1>3, OtherCalm, CalmStep, DeliverStep DEF InInv
  <1>4. QED
    BY <1>1, <1>2, <1>3 DEF Next

-----------------------------------------------------------------------------
(* Outgoing messages                                                       *)

OutInv == GroupInv /\ BlockInv /\ SentWasRouted

(* The blocks stay as they are, and nothing new waits for them.            *)
BlocksKept ==
    /\ blocks' = blocks /\ (ready' => ready)
    /\ Cardinality(Acks(frames')) <= Cardinality(Acks(frames))
    /\ Routing' => Routing /\ unrouted' = unrouted
    /\ ~Routing' => unrouted' = <<>>

(* There is no connection, or a new one.                                   *)
BlocksReset ==
    /\ ready' => blocks' = <<>> /\ Acks(frames') = {}
    /\ unrouted' = <<>>

(* No block is taken or run.                                               *)
NoAck ==
    /\ lStage' = "acked" => lStage = "acked" /\ got' = got
    /\ routed \subseteq routed'
    /\ \A m \in Out : out'[m] = "processed" => out[m] = "processed"

LEMMA BlockStep ==
  ASSUME TypeOK, TypeOK', BlockInv, SentWasRouted, BlocksKept \/ BlocksReset, NoAck
  PROVE  BlockInv' /\ SentWasRouted'
  <1>1. ~Routing' => unrouted' = <<>>
    BY DEF BlocksKept, BlocksReset
  <1>2. ready' => \E k \in Nat : Split(k)'
    <2>1. CASE BlocksKept
      <3>1. ASSUME NEW k \in Nat, Split(k) PROVE Split(k)'
        <4>1. Cardinality(Acks(frames')) <= k
          <5>1. Cardinality(Acks(frames)) \in Nat /\ Cardinality(Acks(frames')) \in Nat
            BY AcksFinite DEF TypeOK
          <5>2. Cardinality(Acks(frames')) <= Cardinality(Acks(frames))
            BY <2>1 DEF BlocksKept
          <5>3. Cardinality(Acks(frames)) <= k
            BY <3>1 DEF Split
          <5>4. QED
            BY <5>1, <5>2, <5>3
        <4>2. QED
          BY <2>1, <3>1, <4>1 DEF BlocksKept, Split, NoAck
      <3>2. QED
        BY <2>1, <3>1 DEF BlocksKept, BlockInv
    <2>2. CASE BlocksReset
      <3>1. ready' => Split(0)'
        BY <2>2, FS_EmptySet DEF BlocksReset, Split
      <3>2. QED
        BY <3>1
    <2>3. QED
      BY <2>1, <2>2
  <1>3. lStage' = "acked" => got' \in routed'
    BY DEF BlockInv, NoAck
  <1>4. SentWasRouted'
    BY DEF SentWasRouted, NoAck
  <1>5. QED
    BY <1>1, <1>2, <1>3, <1>4 DEF BlockInv

LEMMA CloseResets ==
  ASSUME Close
  PROVE  BlocksReset /\ routed \subseteq routed'
  BY DEF Close, BlocksReset

LEMMA ConnectResets ==
  ASSUME LinkInv, BlockInv, NoSocket \/ Connect \/ ConnectThrows
  PROVE  BlocksReset
  <1>1. CASE NoSocket
    BY <1>1 DEF NoSocket, BlocksReset, LinkInv, BlockInv, Routing, linkVars
  <1>2. ASSUME NEW works \in BOOLEAN, Open(works) PROVE BlocksReset
    BY <1>2, Empty DEF Open, BlocksReset
  <1>3. QED
    BY <1>1, <1>2 DEF Connect, ConnectThrows

LEMMA SenderBlocks ==
  ASSUME TypeOK, LinkInv, BlockInv, SenderStep, ~SPublish
  PROVE  (BlocksKept \/ BlocksReset) /\ NoAck
  <1> USE DEF connVars, linkVars, brokerVars, listenVars, counters, senderOnly, brokerKept,
              STo, SRetry, sendVars
  <1>0. Cardinality(Acks(frames)) \in Nat
    BY AcksFinite DEF TypeOK
  <1>1. CASE SConnect
    BY <1>1, ConnectResets DEF SConnect, NoAck
  <1>2. CASE SFailed
    BY <1>2, CloseResets DEF SFailed, NoAck
  <1>3. CASE SBegin \/ SConnected \/ SSkipDeclare \/ SSent \/ SPublishFails
    BY <1>0, <1>3 DEF SBegin, SConnected, SSkipDeclare, SSent, SPublishFails, BlocksKept,
                      NoAck, Routing, BlockInv
  <1>4. CASE SLookupFails \/ SDeclare \/ SOpenProbe \/ SDefine
    BY <1>0, <1>4 DEF SLookupFails, SDeclare, SOpenProbe, SDefine, BlocksKept, NoAck, Routing, BlockInv
  <1>5. CASE SProbe
    <2>1. link' \in BOOLEAN /\ (link' => link)
      BY <1>5 DEF SProbe, TypeOK
    <2>2. QED
      BY <1>0, <1>5, <2>1 DEF SProbe, BlocksKept, NoAck, Routing, BlockInv
  <1>6. CASE SBind
    BY <1>0, <1>6 DEF SBind, BlocksKept, NoAck, Routing, BlockInv
  <1>7. CASE SDiscard
    BY <1>0, <1>7 DEF SDiscard, BlocksKept, NoAck, Routing, BlockInv, TypeOK
  <1>8. QED
    BY <1>1, <1>2, <1>3, <1>4, <1>5, <1>6, <1>7 DEF SenderStep

LEMMA ListenerBlocks ==
  ASSUME TypeOK, LinkInv, BlockInv, ListenerStep, ~LReadAck, ~LAckBlock
  PROVE  (BlocksKept \/ BlocksReset) /\ NoAck
  <1> USE DEF connVars, linkVars, brokerVars, sendVars, counters, listenerOnly, noteVars,
              listenerLocal, LTo
  <1>0. Cardinality(Acks(frames)) \in Nat
    BY AcksFinite DEF TypeOK
  <1>1. CASE LTop
    <2>1. CASE ready /\ UNCHANGED <<connVars, linkVars, faults>>
      BY <1>0, <1>1, <2>1 DEF LTop, BlocksKept, NoAck, Routing, BlockInv
    <2>2. CASE NoSocket \/ Connect \/ ConnectThrows
      BY <1>1, <2>2, ConnectResets DEF LTop, NoAck
    <2>3. QED
      BY <1>1, <2>1, <2>2 DEF LTop
  <1>2. CASE LFinish \/ LFailed \/ LReadOther
    BY <1>2, CloseResets DEF LFinish, LFailed, LReadOther, NoAck
  <1>3. CASE LSetup \/ LConsume \/ (\E i \in todo : LBind(i))
    BY <1>0, <1>3 DEF LSetup, LConsume, LBind, BlocksKept, NoAck, Routing, BlockInv
  <1>4. CASE LLeave \/ LSelect \/ LIdle
    BY <1>0, <1>4 DEF LLeave, LSelect, LIdle, BlocksKept, NoAck, Routing, BlockInv
  <1>5. CASE LReadDelivery
    <2>1. Cardinality(Acks(frames')) <= Cardinality(Acks(frames))
      BY <1>0, <1>5, AcksTail DEF LReadDelivery, Reading, TypeOK
    <2>2. QED
      BY <1>5, <2>1 DEF LReadDelivery, BlocksKept, NoAck, Routing, BlockInv
  <1>6. CASE LAckBlockFails \/ LSave \/ LSaveFails \/ LPost
    BY <1>0, <1>6 DEF LAckBlockFails, LSave, LSaveFails, LPost, BlocksKept, NoAck, Routing,
                      BlockInv
  <1>7. CASE LAck
    <2>1. Cardinality(Acks(Append(frames, <<"close">>))) = Cardinality(Acks(frames))
      <3>1. <<"close">> \in Frame /\ <<"close">>[1] # "ack"
        BY DEF Frame
      <3>2. QED
        BY <1>0, <3>1, AcksAppend DEF TypeOK
    <2>2. Cardinality(Acks(frames')) <= Cardinality(Acks(frames))
      <3>1. CASE frames' = frames
        BY <1>0, <3>1
      <3>2. CASE frames' = Append(frames, <<"close">>)
        BY <1>0, <2>1, <3>2
      <3>3. QED
        BY <1>7, <3>1, <3>2 DEF LAck
    <2>3. Routing' <=> Routing
      BY <1>7 DEF LAck, Routing
    <2>4. QED
      BY <1>7, <2>2, <2>3 DEF LAck, BlocksKept, NoAck, BlockInv
  <1>8. QED
    BY <1>1, <1>2, <1>3, <1>4, <1>5, <1>6, <1>7 DEF ListenerStep

LEMMA OtherBlocks ==
  ASSUME TypeOK, LinkInv, BlockInv, BrokerStep \/ Environment,
         ~ \E n \in 1..Len(unrouted) : Route(n)
  PROVE  (BlocksKept \/ BlocksReset) /\ NoAck
  <1> USE DEF connVars, linkVars, brokerVars, sendVars, listenVars, counters, senderOnly,
              noteVars
  <1>0. Cardinality(Acks(frames)) \in Nat
    BY AcksFinite DEF TypeOK
  <1>1. ASSUME NEW c \in Conns, Reap(c) PROVE BlocksKept /\ NoAck
    BY <1>0, <1>1 DEF Reap, BlocksKept, NoAck, Routing, BlockInv
  <1>2. ASSUME NEW n \in In, Deliver(n) PROVE BlocksKept /\ NoAck
    <2>1. PICK d : d \in {[on |-> conn, tag |-> lastTag + 1, msg |-> n]}
      OBVIOUS
    <2>2. frames' = Append(frames, <<"deliver", d>>) /\ UNCHANGED <<link, shut, unrouted>>
      BY <1>2, <2>1 DEF Deliver
    <2>3. Acks(frames') = Acks(frames)
      <3>1. frames \in Seq(Frame)
        BY DEF TypeOK
      <3> HIDE DEF Frame
      <3>2. /\ DOMAIN frames' = 1..(Len(frames) + 1)
            /\ DOMAIN frames = 1..Len(frames) /\ Len(frames) \in Nat
            /\ frames'[Len(frames) + 1] = <<"deliver", d>>
            /\ \A i \in 1..Len(frames) : frames'[i] = frames[i]
        BY <2>2, <3>1
      <3>3. <<"deliver", d>>[1] # "ack"
        OBVIOUS
      <3>4. QED
        BY <3>2, <3>3 DEF Acks
    <2>4. QED
      BY <1>0, <1>2, <2>2, <2>3 DEF Deliver, BlocksKept, NoAck, Routing, BlockInv
  <1>3. CASE Expire
    BY <1>3, CloseResets DEF Expire, NoAck
  <1>4. CASE Drop \/ BrokerRestart \/ Stop
    BY <1>0, <1>4 DEF Drop, BrokerRestart, Stop, BlocksKept, NoAck, Routing, BlockInv
  <1>5. ASSUME NEW m \in Out, Submit(m) \/ NotifyAll(m) PROVE BlocksKept /\ NoAck
    BY <1>0, <1>5 DEF Submit, NotifyAll, BlocksKept, NoAck, Routing, BlockInv, TypeOK
  <1>6. ASSUME NEW i \in Idents, OwnIdentity(i) PROVE BlocksKept /\ NoAck
    BY <1>0, <1>6 DEF OwnIdentity, BlocksKept, NoAck, Routing, BlockInv
  <1>7. QED
    BY <1>1, <1>2, <1>3, <1>4, <1>5, <1>6 DEF BrokerStep, Environment

(* The new block waits behind the others, as its message does.             *)
LEMMA PublishStep ==
  ASSUME TypeOK, TypeOK', OutInv, SPublish
  PROVE  BlockInv' /\ SentWasRouted'
  <1> USE DEF OutInv
  <1>1. /\ ready /\ Message \in Out /\ blocks' = Append(blocks, Message)
        /\ unrouted' = IF Routing THEN Append(unrouted, Message) ELSE unrouted
        /\ UNCHANGED <<ready, link, shut, frames, routed, out, lStage, got>>
    BY MessageType DEF SPublish, STo, CallOk, Routing, GroupInv, brokerVars, listenVars
  <1>2. Routing' <=> Routing
    BY <1>1 DEF Routing
  <1>3. PICK k \in Nat : Split(k)
    BY <1>1 DEF BlockInv
  <1>4. blocks \in Seq(Out) /\ unrouted \in Seq(Out) /\ k \in 0..Len(blocks)
    BY <1>3 DEF TypeOK, Split
  <1>5. Split(k)'
    <2>1. /\ Len(blocks') = Len(blocks) + 1 /\ blocks'[Len(blocks) + 1] = Message
          /\ \A i \in 1..Len(blocks) : blocks'[i] = blocks[i]
      BY <1>1, <1>4
    <2>2. k \in 0..Len(blocks') /\ \A i \in 1..k : blocks'[i] \in routed'
      BY <1>1, <1>3, <1>4, <2>1 DEF Split
    <2>3. Cardinality(Acks(frames')) <= k
      BY <1>1, <1>3 DEF Split
    <2>4. ASSUME Routing
          PROVE  /\ Len(unrouted') = Len(blocks') - k
                 /\ \A i \in 1..Len(unrouted') : unrouted'[i] = blocks'[k + i]
      <3>1. /\ unrouted' = Append(unrouted, Message) /\ Len(unrouted) = Len(blocks) - k
            /\ \A i \in 1..Len(unrouted) : unrouted[i] = blocks[k + i]
        BY <1>1, <1>3, <2>4 DEF Split
      <3>2. /\ Len(unrouted') = Len(unrouted) + 1
            /\ unrouted'[Len(unrouted) + 1] = Message
            /\ \A i \in 1..Len(unrouted) : unrouted'[i] = unrouted[i]
        BY <1>1, <1>4, <3>1
      <3>3. k + (Len(unrouted) + 1) = Len(blocks) + 1
        BY <1>4, <3>1
      <3>4. \A i \in 1..Len(unrouted) : k + i \in 1..Len(blocks)
        BY <1>4, <3>1
      <3>5. QED
        BY <1>4, <2>1, <3>1, <3>2, <3>3, <3>4
    <2>5. QED
      BY <1>2, <2>2, <2>3, <2>4 DEF Split
  <1>6. ~Routing' => unrouted' = <<>>
    BY <1>1, <1>2 DEF BlockInv
  <1>7. (lStage' = "acked" => got' \in routed') /\ SentWasRouted'
    BY <1>1 DEF BlockInv, SentWasRouted
  <1>8. QED
    BY <1>5, <1>6, <1>7 DEF BlockInv

(* Messages are routed in the order of the blocks, and one confirmation is *)
(* not more than the messages it stands for.                               *)
LEMMA RouteStep ==
  ASSUME TypeOK, TypeOK', OutInv, NEW n \in 1..Len(unrouted), Route(n)
  PROVE  BlockInv' /\ SentWasRouted'
  <1> USE DEF OutInv
  <1>1. /\ link /\ UNCHANGED <<ready, blocks, link, out, lStage, got>>
        /\ routed \subseteq routed'
    BY DEF Route, connVars, sendVars, listenVars
  <1>2. (lStage' = "acked" => got' \in routed') /\ SentWasRouted'
    BY <1>1 DEF BlockInv, SentWasRouted
  <1>3. frames \in Seq(Frame) /\ unrouted \in Seq(Out) /\ blocks \in Seq(Out)
    BY DEF TypeOK
  <1>4. unrouted # <<>> /\ Routing
    BY <1>3 DEF BlockInv
  <1>5. CASE group = "none"
    <2>1. shut' = shut \cup {"out"} /\ unrouted' = <<>> /\ frames' = Append(frames, <<"close">>)
      BY <1>5 DEF Route
    <2>2. ~Routing'
      BY <2>1 DEF Routing
    <2>3. <<"close">> \in Frame /\ <<"close">>[1] # "ack"
      BY DEF Frame
    <2>4. Cardinality(Acks(frames')) = Cardinality(Acks(frames))
      BY <1>3, <2>1, <2>3, AcksAppend, AcksFinite
    <2>5. \A k \in Nat : Split(k) => Split(k)'
      BY <1>1, <2>2, <2>4 DEF Split
    <2>6. QED
      BY <1>1, <1>2, <2>1, <2>5 DEF BlockInv
  <1>6. CASE group # "none"
    <2>1. group = "bound"
      BY <1>4, <1>6 DEF GroupInv
    <2>2. /\ routed' = routed \cup Range(SubSeq(unrouted, 1, n))
          /\ unrouted' = SubSeq(unrouted, n + 1, Len(unrouted))
          /\ frames' = frames \o <<>> \o <<<<"ack">>>> /\ shut' = shut
      BY <1>6, <2>1 DEF Route
    <2>3. frames' = Append(frames, <<"ack">>)
      BY <1>3, <2>2
    <2>4. Cardinality(Acks(frames')) = Cardinality(Acks(frames)) + 1
      <3>1. <<"ack">> \in Frame /\ <<"ack">>[1] = "ack"
        BY DEF Frame
      <3>2. QED
        BY <1>3, <2>3, <3>1, AcksAppend
    <2>5. Routing'
      BY <1>1, <1>4, <2>2 DEF Routing
    <2>6. ASSUME NEW k \in Nat, Split(k) PROVE Split(k + n)'
      <3>1. /\ k \in 0..Len(blocks) /\ Len(unrouted) = Len(blocks) - k
            /\ \A i \in 1..k : blocks[i] \in routed
            /\ Cardinality(Acks(frames)) <= k
            /\ \A i \in 1..Len(unrouted) : unrouted[i] = blocks[k + i]
        BY <1>4, <2>6 DEF Split
      <3>2. k + n \in 0..Len(blocks) /\ n \in Nat /\ 1 <= n
        BY <1>3, <3>1
      <3>3. ASSUME NEW i \in 1..(k + n) PROVE blocks[i] \in routed'
        <4>1. CASE i <= k
          BY <3>1, <4>1, <1>1, <3>2
        <4>2. CASE i > k
          <5>1. i - k \in 1..n /\ i - k \in 1..Len(unrouted) /\ k + (i - k) = i
            BY <3>1, <3>2, <4>2, <1>3
          <5>2. blocks[i] = unrouted[i - k]
            BY <3>1, <5>1
          <5>3. /\ DOMAIN SubSeq(unrouted, 1, n) = 1..n
                /\ SubSeq(unrouted, 1, n)[i - k] = unrouted[i - k]
            BY <1>3, <3>2, <5>1
          <5>4. unrouted[i - k] \in Range(SubSeq(unrouted, 1, n))
            BY <5>1, <5>3 DEF Range
          <5>5. QED
            BY <2>2, <5>2, <5>4
        <4>3. QED
          BY <4>1, <4>2, <3>2
      <3>4. Cardinality(Acks(frames')) <= k + n
        <4>1. \A a, b \in Nat, m \in Nat : a <= k /\ b = a + 1 /\ 1 <= m => b <= k + m
          BY <2>6
        <4>2. Cardinality(Acks(frames)) \in Nat
          BY <1>3, AcksFinite
        <4>3. Cardinality(Acks(frames')) \in Nat
          BY <2>4, <4>2
        <4>4. QED
          BY <2>4, <3>1, <3>2, <4>1, <4>2, <4>3
      <3>5. Len(unrouted') = Len(blocks) - (k + n)
        <4>1. Len(unrouted) \in Nat /\ n + 1 \in Nat /\ n <= Len(unrouted)
          BY <1>3, <3>2
        <4>2. Len(SubSeq(unrouted, n + 1, Len(unrouted))) = Len(unrouted) - n
          BY <1>3, <4>1
        <4>3. Len(unrouted') = Len(unrouted) - n
          BY <2>2, <4>2
        <4>4. Len(blocks) \in Nat
          BY <1>3
        <4>5. QED
          BY <2>6, <3>1, <3>2, <4>1, <4>3, <4>4
      <3>6. ASSUME NEW i \in 1..Len(unrouted') PROVE unrouted'[i] = blocks[(k + n) + i]
        <4>1. /\ i \in 1..Len(SubSeq(unrouted, n + 1, Len(unrouted)))
              /\ SubSeq(unrouted, n + 1, Len(unrouted))[i] = unrouted'[i]
          BY <2>2, <3>6
        <4>2. n + i \in 1..Len(unrouted) /\ unrouted'[i] = unrouted[n + i]
          <5>1. /\ n \in Nat /\ 1 <= n /\ n <= Len(unrouted)
                /\ Len(unrouted) \in Nat
            BY <1>3, <3>2
          <5>2. /\ Len(SubSeq(unrouted, n + 1, Len(unrouted))) = Len(unrouted) - n
                /\ \A j \in 1..(Len(unrouted) - n) :
                      SubSeq(unrouted, n + 1, Len(unrouted))[j] = unrouted[n + j]
            BY <1>3, <5>1
          <5>3. i \in 1..(Len(unrouted) - n)
            BY <4>1, <5>2
          <5>4. n + i \in 1..Len(unrouted)
            BY <5>1, <5>3
          <5>5. QED
            BY <4>1, <5>2, <5>3, <5>4
        <4>3. unrouted[n + i] = blocks[k + (n + i)]
          BY <3>1, <4>2
        <4>4. k + (n + i) = (k + n) + i
          BY <2>6, <3>2, <3>6
        <4>5. QED
          BY <4>2, <4>3, <4>4
      <3>7. QED
        BY <1>1, <3>2, <3>3, <3>4, <3>5, <3>6 DEF Split
    <2>7. QED
      BY <1>1, <1>2, <2>5, <2>6 DEF BlockInv
  <1>7. QED
    BY <1>5, <1>6

(* A confirmation that is read is one of a routed message.                 *)
LEMMA ReadAckStep ==
  ASSUME TypeOK, TypeOK', OutInv, LReadAck
  PROVE  BlockInv' /\ SentWasRouted'
  <1> USE DEF OutInv
  <1>1. /\ ready /\ frames # <<>> /\ Head(frames)[1] = "ack" /\ frames' = Tail(frames)
        /\ UNCHANGED <<ready, link, shut, unrouted, routed, out>>
    BY DEF LReadAck, Reading, brokerVars, listenerOnly, sendVars
  <1>2. frames \in Seq(Frame) /\ blocks \in Seq(Out) /\ unrouted \in Seq(Out)
    BY DEF TypeOK
  <1>3. PICK k \in Nat : Split(k)
    BY <1>1 DEF BlockInv
  <1>4. /\ Cardinality(Acks(frames')) = Cardinality(Acks(frames)) - 1
        /\ Cardinality(Acks(frames)) \in Nat /\ Cardinality(Acks(frames')) \in Nat
    BY <1>1, <1>2, AcksTail, AcksFinite DEF TypeOK
  <1>5. /\ k \in 0..Len(blocks) /\ 1 <= k
        /\ Cardinality(Acks(frames')) <= k - 1
        /\ \A i \in 1..k : blocks[i] \in routed
    BY <1>2, <1>3, <1>4 DEF Split
  <1>6. /\ blocks # <<>> /\ lStage' = "acked" /\ got' = Head(blocks) /\ blocks' = Tail(blocks)
        /\ Len(blocks') = Len(blocks) - 1 /\ Head(blocks) = blocks[1]
        /\ \A i \in 1..(Len(blocks) - 1) : blocks'[i] = blocks[i + 1]
    <2>1. blocks # <<>>
      BY <1>2, <1>5
    <2>2. lStage' = "acked" /\ got' = Head(blocks) /\ blocks' = Tail(blocks)
      BY <2>1 DEF LReadAck
    <2>3. QED
      BY <1>2, <2>1, <2>2
  <1>7. Routing' <=> Routing
    BY <1>1 DEF Routing
  <1>8. Split(k - 1)'
    <2>1. k - 1 \in 0..Len(blocks') /\ \A i \in 1..(k - 1) : blocks'[i] \in routed'
      <3>1. \A i \in 1..(k - 1) : i \in 1..(Len(blocks) - 1) /\ i + 1 \in 1..k
        BY <1>2, <1>5
      <3>2. QED
        BY <1>1, <1>2, <1>5, <1>6, <3>1
    <2>2. ASSUME Routing
          PROVE  /\ Len(unrouted') = Len(blocks') - (k - 1)
                 /\ \A i \in 1..Len(unrouted') : unrouted'[i] = blocks'[(k - 1) + i]
      <3>1. /\ Len(unrouted) = Len(blocks) - k
            /\ \A i \in 1..Len(unrouted) : unrouted[i] = blocks[k + i]
        BY <1>3, <2>2 DEF Split
      <3>2. \A i \in 1..Len(unrouted) : /\ (k - 1) + i \in 1..(Len(blocks) - 1)
                                        /\ ((k - 1) + i) + 1 = k + i
        BY <1>2, <1>5, <3>1
      <3>3. \A i \in 1..Len(unrouted) : blocks'[(k - 1) + i] = blocks[k + i]
        BY <1>6, <3>2
      <3>4. QED
        BY <1>1, <1>2, <1>5, <1>6, <3>1, <3>3
    <2>3. QED
      BY <1>5, <1>7, <2>1, <2>2 DEF Split
  <1>9. got' \in routed'
    BY <1>1, <1>5, <1>6
  <1>10. (~Routing' => unrouted' = <<>>) /\ SentWasRouted'
    BY <1>1, <1>7 DEF BlockInv, SentWasRouted
  <1>11. k - 1 \in Nat
    BY <1>5
  <1>12. QED
    BY <1>8, <1>9, <1>10, <1>11 DEF BlockInv

LEMMA AckBlockStep ==
  ASSUME TypeOK, TypeOK', OutInv, LAckBlock
  PROVE  BlockInv' /\ SentWasRouted'
  <1> USE DEF OutInv
  <1>1. /\ lStage = "acked" /\ lStage' = "loop" /\ out' = [out EXCEPT ![got] = "processed"]
        /\ UNCHANGED <<ready, blocks, link, shut, frames, unrouted, routed>>
    BY DEF LAckBlock, LTo, connVars, linkVars, brokerVars
  <1>2. \A k : Split(k)' <=> Split(k)
    BY <1>1 DEF Split, Routing
  <1>3. BlockInv'
    BY <1>1, <1>2 DEF BlockInv, Routing
  <1>4. SentWasRouted'
    BY <1>1 DEF BlockInv, SentWasRouted, TypeOK
  <1>5. QED
    BY <1>3, <1>4

(* What is published has been declared, unless the broker lost it.         *)
LEMMA GroupStep ==
  ASSUME TypeOK, OutInv, Next
  PROVE  GroupInv'
  <1> USE DEF OutInv, connVars, linkVars, brokerVars, sendVars, listenVars, counters,
              senderOnly, listenerOnly, listenerLocal, noteVars, brokerKept
  <1> DEFINE kept == UNCHANGED <<sStage, declared, sendQueue>> /\ group' \in {group, "none"}
             calm == kept /\ (unrouted' # <<>> => unrouted # <<>>)
  <1>0. calm => GroupInv'
    BY DEF GroupInv
  <1>1. CASE SenderStep
    <2>1. CASE SBegin \/ SConnected \/ SDiscard
      BY <2>1 DEF SBegin, SConnected, SDiscard, STo, GroupInv
    <2>2. CASE SConnect
      <3>1. unrouted' # <<>> => unrouted # <<>>
        BY <2>2 DEF SConnect, NoSocket, Connect, ConnectThrows, Open
      <3>2. CASE UNCHANGED sendVars
        BY <1>0, <2>2, <3>1, <3>2 DEF SConnect
      <3>3. CASE SRetry
        BY <2>2, <3>1, <3>3 DEF SConnect, SRetry, GroupInv
      <3>4. QED
        BY <2>2, <3>2, <3>3 DEF SConnect
    <2>3. CASE SSkipDeclare
      BY <2>3 DEF SSkipDeclare, STo, GroupInv
    <2>4. CASE SLookupFails \/ SDeclare
      BY <2>4 DEF SLookupFails, SDeclare, STo, GroupInv
    <2>5. CASE SOpenProbe
      BY <2>5 DEF SOpenProbe, STo, GroupInv
    <2>6. CASE SProbe
      <3>1. sStage = "probe" /\ sStage' # "publish"
        BY <2>6 DEF SProbe, STo
      <3>2. (unrouted' # <<>> => unrouted # <<>>) /\ UNCHANGED <<group, declared, sendQueue>>
        BY <2>6 DEF SProbe, STo
      <3>3. QED
        BY <3>1, <3>2 DEF GroupInv
    <2>7. CASE SDefine
      BY <2>7 DEF SDefine, STo, GroupInv
    <2>8. CASE SBind
      <3>1. /\ sStage = "bind" /\ sendQueue' = sendQueue
            /\ (sStage' = "publish" => declared') /\ (declared => declared')
            /\ (declared' => declared \/ group' = "bound")
            /\ group' \in {group, "bound"}
            /\ (unrouted' # <<>> => unrouted # <<>>)
        BY <2>8 DEF SBind, STo
      <3>2. QED
        BY <3>1 DEF GroupInv
    <2>9. CASE SPublish
      BY <2>9 DEF SPublish, STo, GroupInv
    <2>10. CASE SPublishFails
      BY <2>10 DEF SPublishFails, STo, GroupInv
    <2>11. CASE SSent
      BY <2>11 DEF SSent, GroupInv
    <2>12. CASE SFailed
      BY <2>12 DEF SFailed, SRetry, Close, GroupInv
    <2>13. QED
      BY <1>1, <2>1, <2>2, <2>3, <2>4, <2>5, <2>6, <2>7, <2>8, <2>9, <2>10, <2>11, <2>12
         DEF SenderStep
  <1>2. CASE ListenerStep
    <2>1. CASE LTop
      BY <2>1 DEF LTop, NoSocket, Connect, ConnectThrows, Open, GroupInv
    <2>2. CASE LFinish \/ LFailed \/ LReadOther
      BY <2>2 DEF LFinish, LFailed, LReadOther, Close, GroupInv
    <2>3. CASE LSetup \/ LConsume \/ (\E i \in todo : LBind(i))
      BY <2>3 DEF LSetup, LConsume, LBind, GroupInv
    <2>4. CASE LLeave \/ LSelect \/ LIdle
      BY <2>4 DEF LLeave, LSelect, LIdle, GroupInv
    <2>5. CASE LReadAck \/ LReadDelivery
      BY <2>5 DEF LReadAck, LReadDelivery, GroupInv
    <2>6. CASE LAckBlock \/ LAckBlockFails \/ LSave \/ LSaveFails \/ LAck \/ LPost
      BY <2>6 DEF LAckBlock, LAckBlockFails, LSave, LSaveFails, LAck, LPost, GroupInv
    <2>7. QED
      BY <1>2, <2>1, <2>2, <2>3, <2>4, <2>5, <2>6 DEF ListenerStep
  <1>3. CASE BrokerStep
    <2>1. ASSUME NEW c \in Conns, Reap(c) PROVE GroupInv'
      BY <2>1 DEF Reap, GroupInv
    <2>2. ASSUME NEW n \in 1..Len(unrouted), Route(n) PROVE GroupInv'
      <3>1. unrouted # <<>>
        BY DEF TypeOK
      <3>2. QED
        BY <1>0, <2>2, <3>1 DEF Route
    <2>3. ASSUME NEW n \in In, Deliver(n) PROVE GroupInv'
      BY <2>3 DEF Deliver, GroupInv
    <2>4. QED
      BY <1>3, <2>1, <2>2, <2>3 DEF BrokerStep
  <1>4. CASE Environment
    <2>1. CASE Drop \/ BrokerRestart \/ Stop
      BY <2>1 DEF Drop, BrokerRestart, Stop, GroupInv
    <2>2. CASE Expire
      BY <2>2 DEF Expire, Close, GroupInv
    <2>3. ASSUME NEW m \in Out, Submit(m) \/ NotifyAll(m) PROVE GroupInv'
      <3>1. sendQueue' # <<>>
        BY <2>3 DEF Submit, NotifyAll, TypeOK
      <3>2. QED
        BY <2>3, <3>1 DEF Submit, NotifyAll, GroupInv
    <2>4. ASSUME NEW i \in Idents, OwnIdentity(i) PROVE GroupInv'
      BY <2>4 DEF OwnIdentity, GroupInv
    <2>5. QED
      BY <1>4, <2>1, <2>2, <2>3, <2>4 DEF Environment
  <1>5. QED
    BY <1>1, <1>2, <1>3, <1>4 DEF Next

LEMMA OutStep ==
  ASSUME TypeOK, TypeOK', LinkInv, OutInv, Next
  PROVE  OutInv'
  <1>1. GroupInv'
    BY GroupStep
  <1>2. BlockInv' /\ SentWasRouted'
    <2>1. CASE SenderStep
      BY <2>1, SenderBlocks, BlockStep, PublishStep DEF OutInv
    <2>2. CASE ListenerStep
      BY <2>2, ListenerBlocks, BlockStep, ReadAckStep, AckBlockStep DEF OutInv
    <2>3. CASE BrokerStep \/ Environment
      BY <2>3, OtherBlocks, BlockStep, RouteStep DEF OutInv
    <2>4. QED
      BY <2>1, <2>2, <2>3 DEF Next
  <1>3. QED
    BY <1>1, <1>2 DEF OutInv

-----------------------------------------------------------------------------
(* Theorems                                                                *)

LEMMA TypeStep ==
  ASSUME TypeOK, LinkInv, BrokerInv, GotInv, GroupInv, Next
  PROVE  TypeOK'
  BY SenderType, ListenerType, OtherType DEF Next

LEMMA InitInv == Init => IInv
  <1> SUFFICES ASSUME Init PROVE IInv
    OBVIOUS
  <1>1. TypeOK
    <2>1. LinkType
      <3>1. blocks \in Seq(Out) /\ unrouted \in Seq(Out)
        BY DEF Init
      <3>2. frames \in Seq(Frame)
        BY DEF Init
      <3>3. QED
        BY <3>1, <3>2 DEF Init, LinkType
    <2>2. BrokerType
      BY Bounds DEF Init, BrokerType, GroupState
    <2>3. SendType
      <3>1. sendQueue \in Seq(Out) /\ out \in [Out -> OutState]
        BY DEF Init, OutState
      <3>2. /\ sendPending \subseteq Out /\ sStage \in SendStage
            /\ declared \in BOOLEAN /\ probe \in Conns \cup {None}
        BY DEF Init, SendStage
      <3>3. QED
        BY <3>1, <3>2 DEF SendType
    <2>4. ListenType
      BY DEF Init, ListenType, ListenStage
    <2>5. CountType
      BY Bounds DEF Init, CountType
    <2>6. QED
      BY <2>1, <2>2, <2>3, <2>4, <2>5, TypeParts
  <1>2. LinkInv /\ GotInv /\ GroupInv /\ SentWasRouted /\ AckedIsStored
    BY DEF Init, LinkInv, GotInv, GroupInv, SentWasRouted, AckedIsStored
  <1>3. BrokerInv /\ FrameInv
    BY Empty DEF Init, BrokerInv, FrameInv
  <1>4. BlockInv
    BY DEF Init, BlockInv
  <1>5. QED
    BY <1>1, <1>2, <1>3, <1>4 DEF IInv

LEMMA NextInv == IInv /\ [Next]_vars => IInv'
  <1> SUFFICES ASSUME IInv, [Next]_vars PROVE IInv'
    OBVIOUS
  <1>1. CASE Next
    <2>1. TypeOK'
      BY <1>1, TypeStep DEF IInv
    <2>2. InInv'
      BY <1>1, InStep DEF IInv, InInv
    <2>3. OutInv'
      BY <1>1, <2>1, OutStep DEF IInv, OutInv
    <2>4. QED
      BY <2>1, <2>2, <2>3 DEF IInv, InInv, OutInv
  <1>2. CASE UNCHANGED vars
    <2> USE <1>2 DEF vars, connVars, linkVars, brokerVars, sendVars, listenVars, counters, IInv
    <2>1. TypeOK'
      BY TypeKept, TypePartsNext
    <2>2. LinkInv' /\ BrokerInv' /\ FrameInv' /\ GotInv' /\ AckedIsStored'
      BY DEF LinkInv, BrokerInv, FrameInv, GotInv, AckedIsStored, Tagged
    <2>3. GroupInv' /\ BlockInv' /\ SentWasRouted'
      BY DEF GroupInv, BlockInv, SentWasRouted, Split, Routing
    <2>4. QED
      BY <2>1, <2>2, <2>3
  <1>3. QED
    BY <1>1, <1>2

LEMMA Invariance == Spec => []IInv
  BY InitInv, NextInv, PTL DEF Spec

LEMMA NoUnexpected == IInv => NoUnexpectedAck
  <1> SUFFICES ASSUME IInv, ready PROVE Cardinality(Acks(frames)) + Len(unrouted) <= Len(blocks)
    BY DEF NoUnexpectedAck
  <1>1. PICK k \in Nat : Split(k)
    BY DEF IInv, BlockInv
  <1>2. /\ blocks \in Seq(Out) /\ unrouted \in Seq(Out)
        /\ Cardinality(Acks(frames)) \in Nat
    BY AcksFinite DEF IInv, TypeOK
  <1>3. CASE Routing
    BY <1>1, <1>2, <1>3 DEF Split
  <1>4. CASE ~Routing
    <2>1. Len(unrouted) = 0
      BY <1>4 DEF IInv, BlockInv
    <2>2. QED
      BY <1>1, <1>2, <2>1 DEF Split
  <1>5. QED
    BY <1>3, <1>4

-----------------------------------------------------------------------------
(* The pending list of the sender and its queue.  A message is announced   *)
(* for the first time when its row is new, so it is not in the queue.      *)

Once(s) == \A i, j \in DOMAIN s : s[i] = s[j] => i = j
QueueInv ==
    /\ OneSendPerMessage
    /\ \A m \in sendPending : out[m] # "new"

LEMMA AppendOnce ==
    ASSUME NEW S, NEW s \in Seq(S), NEW x \in S, x \notin Range(s), Once(s)
    PROVE  Range(Append(s, x)) = Range(s) \cup {x} /\ Once(Append(s, x))
  <1>1. /\ DOMAIN s = 1..Len(s) /\ DOMAIN Append(s, x) = 1..(Len(s) + 1) /\ Len(s) \in Nat
        /\ \A i \in DOMAIN s : Append(s, x)[i] = s[i]
        /\ Append(s, x)[Len(s) + 1] = x
    OBVIOUS
  <1>2. \A i \in DOMAIN Append(s, x) : i \in DOMAIN s \/ i = Len(s) + 1
    BY <1>1
  <1>3. \A i \in DOMAIN s : s[i] # x
    BY DEF Range
  <1>4. DOMAIN s \subseteq DOMAIN Append(s, x) /\ Len(s) + 1 \in DOMAIN Append(s, x)
    BY <1>1
  <1>5. Range(Append(s, x)) = Range(s) \cup {x}
    BY <1>1, <1>2, <1>4 DEF Range
  <1>6. Once(Append(s, x))
    BY <1>1, <1>2, <1>3 DEF Once
  <1>7. QED
    BY <1>5, <1>6

LEMMA TailOnce ==
    ASSUME NEW S, NEW s \in Seq(S), s # <<>>, Once(s)
    PROVE  /\ Head(s) \in S /\ Tail(s) \in Seq(S)
           /\ Range(Tail(s)) = Range(s) \ {Head(s)} /\ Once(Tail(s))
           /\ Head(s) \in Range(s)
  <1>1. /\ Head(s) \in S /\ Tail(s) \in Seq(S) /\ Head(s) = s[1] /\ 1 \in DOMAIN s
        /\ \A i \in DOMAIN Tail(s) : i + 1 \in DOMAIN s /\ i + 1 # 1 /\ Tail(s)[i] = s[i + 1]
        /\ \A i \in DOMAIN s : i # 1 => i - 1 \in DOMAIN Tail(s) /\ Tail(s)[i - 1] = s[i]
        /\ \A i, j \in DOMAIN Tail(s) : i + 1 = j + 1 => i = j
    OBVIOUS
  <1>2. Once(Tail(s))
    BY <1>1 DEF Once
  <1>3. Range(Tail(s)) = Range(s) \ {Head(s)}
    <2>1. ASSUME NEW x \in Range(Tail(s)) PROVE x \in Range(s) \ {Head(s)}
      <3>1. PICK i \in DOMAIN Tail(s) : x = Tail(s)[i]
        BY DEF Range
      <3>2. QED
        BY <1>1, <3>1 DEF Range, Once
    <2>2. ASSUME NEW x \in Range(s) \ {Head(s)} PROVE x \in Range(Tail(s))
      <3>1. PICK i \in DOMAIN s : x = s[i]
        BY DEF Range
      <3>2. i # 1
        BY <1>1, <3>1
      <3>3. QED
        BY <1>1, <3>1, <3>2 DEF Range
    <2>3. QED
      BY <2>1, <2>2
  <1>4. QED
    BY <1>1, <1>2, <1>3 DEF Range

LEMMA RetryKeeps ==
    ASSUME IInv, QueueInv, sStage # "idle", SRetry PROVE QueueInv'
  <1>1. sendQueue \in Seq(Out) /\ sendQueue # <<>> /\ Once(sendQueue)
    BY DEF IInv, TypeOK, GroupInv, QueueInv, OneSendPerMessage, Once
  <1>2. /\ Message \in Out /\ Tail(sendQueue) \in Seq(Out) /\ Message \in Range(sendQueue)
        /\ Range(Tail(sendQueue)) = Range(sendQueue) \ {Message} /\ Once(Tail(sendQueue))
    BY <1>1, TailOnce DEF Message
  <1>3. /\ Range(Append(Tail(sendQueue), Message)) = Range(sendQueue)
        /\ Once(Append(Tail(sendQueue), Message))
    <2>1. Message \notin Range(Tail(sendQueue))
      BY <1>2
    <2>2. /\ Range(Append(Tail(sendQueue), Message)) = Range(Tail(sendQueue)) \cup {Message}
          /\ Once(Append(Tail(sendQueue), Message))
      BY <1>2, <2>1, AppendOnce
    <2>3. QED
      BY <1>2, <2>2
  <1>4. sendQueue' = Append(Tail(sendQueue), Message)
    BY DEF SRetry
  <1>5. QED
    BY <1>3, <1>4 DEF QueueInv, OneSendPerMessage, Once, SRetry

LEMMA AnnounceKeeps ==
    ASSUME IInv, QueueInv, NEW m \in Out, m \notin sendPending,
           sendPending' = sendPending \cup {m}, sendQueue' = Append(sendQueue, m),
           \A n \in Out : out'[n] = "new" => out[n] = "new" /\ n # m
    PROVE  QueueInv'
  <1>1. /\ sendQueue \in Seq(Out) /\ Once(sendQueue) /\ Range(sendQueue) = sendPending
        /\ sendPending \subseteq Out
    BY DEF IInv, TypeOK, QueueInv, OneSendPerMessage, Once
  <1>2. Range(sendQueue') = sendPending' /\ Once(sendQueue')
    BY <1>1, AppendOnce
  <1>3. QED
    BY <1>1, <1>2 DEF QueueInv, OneSendPerMessage, Once

LEMMA QueueStep == IInv /\ QueueInv /\ [Next]_vars => QueueInv'
  <1> SUFFICES ASSUME IInv, QueueInv, [Next]_vars PROVE QueueInv'
    OBVIOUS
  <1>0. /\ out \in [Out -> OutState] /\ sendPending \subseteq Out /\ sendQueue \in Seq(Out)
        /\ sStage # "idle" => sendQueue # <<>>
    BY DEF IInv, TypeOK, GroupInv
  <1>1. ASSUME UNCHANGED <<sendPending, sendQueue>>,
               \A m \in Out : out'[m] = "new" => out[m] = "new"
        PROVE  QueueInv'
    BY <1>0, <1>1 DEF QueueInv, OneSendPerMessage
  <1>2. CASE SenderStep
    <2>1. CASE \/ SBegin \/ SConnected \/ SLookupFails \/ SSkipDeclare \/ SDeclare
               \/ SOpenProbe \/ SProbe
               \/ SDefine \/ SBind \/ SPublish \/ SPublishFails
      BY <1>1, <2>1
         DEF SBegin, SConnected, SLookupFails, SSkipDeclare, SDeclare, SOpenProbe, SProbe,
             SDefine, SBind, SPublish, SPublishFails, STo
    <2>2. CASE SDiscard
      BY <1>0, <1>1, <2>2 DEF SDiscard
    <2>3. CASE SConnect
      BY <1>1, <2>3, RetryKeeps DEF SConnect, sendVars
    <2>4. CASE SSent
      <3>1. Once(sendQueue) /\ Range(sendQueue) = sendPending /\ sendQueue # <<>>
        BY <1>0, <2>4 DEF SSent, QueueInv, OneSendPerMessage, Once
      <3>2. Range(sendQueue') = sendPending' /\ Once(sendQueue')
        BY <1>0, <2>4, <3>1, TailOnce DEF SSent, Message
      <3>3. QED
        BY <2>4, <3>2 DEF SSent, QueueInv, OneSendPerMessage, Once
    <2>5. CASE SFailed
      BY <2>5, RetryKeeps DEF SFailed
    <2>6. QED
      BY <1>2, <2>1, <2>2, <2>3, <2>4, <2>5 DEF SenderStep
  <1>3. CASE ListenerStep
    <2>1. CASE LAckBlock
      BY <1>0, <1>1, <2>1 DEF LAckBlock
    <2>2. CASE ~LAckBlock
      <3>1. UNCHANGED sendVars
        BY <1>3, <2>2
           DEF ListenerStep, LFinish, LTop, LSetup, LBind, LConsume, LFailed, LLeave, LSelect,
               LIdle, LReadAck, LReadDelivery, LReadOther, LAckBlockFails, LSave, LSaveFails,
               LAck, LPost, listenerOnly, listenerLocal
      <3>2. QED
        BY <1>1, <3>1 DEF sendVars
    <2>3. QED
      BY <2>1, <2>2
  <1>4. CASE BrokerStep
    BY <1>1, <1>4 DEF BrokerStep, Reap, Route, Deliver, sendVars
  <1>5. CASE Environment
    <2>1. CASE Drop \/ BrokerRestart \/ Expire \/ Stop \/ \E i \in Idents : OwnIdentity(i)
      BY <1>1, <2>1 DEF Drop, BrokerRestart, Expire, Stop, OwnIdentity, sendVars
    <2>2. ASSUME NEW m \in Out, Submit(m) PROVE QueueInv'
      <3>1. m \notin sendPending /\ \A n \in Out : out'[n] = "new" => out[n] = "new" /\ n # m
        BY <1>0, <2>2 DEF Submit, QueueInv
      <3>2. QED
        BY <2>2, <3>1, AnnounceKeeps DEF Submit
    <2>3. ASSUME NEW m \in Out, NotifyAll(m) PROVE QueueInv'
      <3>1. m \notin sendPending /\ \A n \in Out : out'[n] = "new" => out[n] = "new" /\ n # m
        BY <1>0, <2>3 DEF NotifyAll
      <3>2. QED
        BY <2>3, <3>1, AnnounceKeeps DEF NotifyAll
    <2>4. QED
      BY <1>5, <2>1, <2>2, <2>3 DEF Environment
  <1>6. CASE UNCHANGED vars
    BY <1>1, <1>6 DEF vars, sendVars
  <1>7. QED
    BY <1>2, <1>3, <1>4, <1>5, <1>6 DEF Next

-----------------------------------------------------------------------------

(* Every variable of the transport keeps to its type, delivery tags        *)
(* included: a consumer gets no message twice, and no more than there are. *)
THEOREM TransportTypeCorrect == Spec => []TypeOK
  BY Invariance, PTL DEF IInv

(* A message is marked as processed only when the broker has put it in the *)
(* recipient's queue, whichever connections broke and were replaced, and   *)
(* although confirmations are matched to blocks by position only           *)
(* (AMQPConnectionManager.m:443-450, AMQPSenderService.m:161-188).         *)
THEOREM SentMessagesWereRouted == Spec => []SentWasRouted
  BY Invariance, PTL DEF IInv

(* Every confirmation finds a block: `Unexpected basic ack from broker' is *)
(* never thrown (AMQPConnectionManager.m:443-446).                         *)
THEOREM ConfirmationsFindBlocks == Spec => []NoUnexpectedAck
  BY Invariance, NoUnexpected, PTL

(* The broker forgets a message for this device only when its row has been *)
(* saved, although the tag is acked on whatever connection there is by     *)
(* then (AMQPListenerThread.m:190-192, AMQPConnectionManager.m:529-543).   *)
THEOREM AckedMessagesAreStored == Spec => []AckedIsStored
  BY Invariance, PTL DEF IInv

(* A message has one send operation exactly while it is in the pending     *)
(* list, however often it is announced while an operation is being retried *)
(* without asking the list (ObjectPipelineService.m:117-123, 186-190,      *)
(* AMQPSenderService.m:64-92).                                             *)
THEOREM MessagesHaveOneSend == Spec => []OneSendPerMessage
  <1>1. Init => QueueInv
    BY DEF Init, QueueInv, OneSendPerMessage, Range
  <1>2. QueueInv => OneSendPerMessage
    BY DEF QueueInv
  <1>3. QED
    BY <1>1, <1>2, Invariance, QueueStep, PTL DEF Spec
==============================================================================
