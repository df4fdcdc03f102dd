-------------------------- MODULE MessageFlowProofs --------------------------
(* The safety of MessageFlow, for any number of objects and of troubles.   *)
EXTENDS MessageFlow, FiniteSetTheorems, TLAPS

-----------------------------------------------------------------------------
(* The inductive invariant                                                 *)

(* The number of every encoding is used up in the sender's store, and in   *)
(* its file, unless the row is, or would be, lost with it, or a save of    *)
(* the other queue has taken the number back.                              *)
NumberInv ==
    /\ \A e \in Encodings : e \in unkept \cup raced \/ encodings[e].number < Out.number
    /\ file[Sender] # None =>
          \A e \in Encodings :
             \/ e \in unkept \cup raced
             \/ encodings[e].number < file[Sender].number
             \/ e \in Out.rows \ file[Sender].rows
    /\ \A e, f \in Encodings :
          e # f /\ encodings[e].number = encodings[f].number =>
             {e, f} \cap (unkept \cup raced) # {}

(* A queue is at an object of its own, which knows of no encoding before   *)
(* the operation has saved one, and the encoding is of that object.        *)
JobInv ==
    /\ \A q \in Queues :
          job[q] # None =>
             /\ QueueOf(job[q]) = q /\ job[q] \in Out.objs
             /\ encoding[q] = 0 => job[q] \in Unencoded
    /\ \A q \in Queues : encoding[q] # 0 => ObjOf(encoding[q]) = job[q]

(* An object knows of its encoding, will soon, or is torn, and only a torn *)
(* one has two.                                                            *)
TornInv ==
    /\ \A e \in Encodings :
          (\E q \in Queues : e = encoding[q]) \/ e \in Out.marked \/ ObjOf(e) \in torn
    /\ \A e, f \in Encodings : e # f /\ ObjOf(e) = ObjOf(f) => ObjOf(e) \in torn

(* What the receiver made an object of has its hash, and the rows that     *)
(* have one and are still there differ; in its store and in its file.      *)
Hashed(c) ==
    /\ c.made \subseteq c.hashed \ c.dropped
    /\ \A r, s \in c.hashed \ (c.dropped \cup c.forgotten) :
          EncodingOf(r) = EncodingOf(s) => r = s
HashInv ==
    /\ Hashed(In)
    /\ file[Receiver] # None => Hashed(file[Receiver])
    /\ decoding # 0 => decoding \in In.hashed \ (In.dropped \cup In.forgotten)

IInv == TypeOK /\ NumberInv /\ JobInv /\ TornInv /\ HashInv

-----------------------------------------------------------------------------
(* Saves, and what a step that changes little preserves                    *)

Domains == DOMAIN memory = Devices /\ DOMAIN file = Devices

(* A save changes the store of its device, and may void the file's state.  *)
SavedBySender ==
    /\ Domains' /\ In' = In /\ file'[Receiver] = file[Receiver]
    /\ file'[Sender] \in {file[Sender], None}
SavedByReceiver ==
    /\ Domains' /\ Out' = Out /\ file'[Sender] = file[Sender]
    /\ file'[Receiver] \in {file[Receiver], None}
NotSaved ==
    /\ Domains' /\ Out' = Out /\ In' = In
    /\ file'[Sender] = file[Sender] /\ file'[Receiver] = file[Receiver]

LEMMA SenderSaves ==
  ASSUME Domains, NEW c, Store!Save(Sender, c) \/ Store!SaveRoot(Sender, c)
  PROVE  SavedBySender /\ Out' = c
  BY DEF SavedBySender, Domains, Store!Save, Store!SaveRoot, Devices, Sender, Receiver, Out, In

LEMMA ReceiverSaves ==
  ASSUME Domains, NEW c, Store!Save(Receiver, c) \/ Store!SaveRoot(Receiver, c)
  PROVE  SavedByReceiver /\ In' = c
  BY DEF SavedByReceiver, Domains, Store!Save, Store!SaveRoot, Devices, Sender, Receiver, Out, In

LEMMA NobodySaves ==
  ASSUME Domains, UNCHANGED storeVars PROVE NotSaved
  BY DEF NotSaved, Domains, storeVars, Out, In

(* The sender encodes nothing and loses nothing.                           *)
LEMMA SenderKeeps ==
  ASSUME NumberInv, JobInv, TornInv,
         UNCHANGED <<encodings, job, encoding, torn, unkept, raced>>,
         file'[Sender] \in {file[Sender], None}, Out.objs \subseteq Out'.objs,
         Out'.number = Out.number, Out.rows \subseteq Out'.rows, Out'.marked = Out.marked
  PROVE  NumberInv' /\ JobInv' /\ TornInv'
  BY DEF NumberInv, JobInv, TornInv, Encodings, Unencoded, ObjOf

(* The receiver's store keeps what the invariant is about.                 *)
LEMMA ReceiverKeeps ==
  ASSUME HashInv, UNCHANGED <<deliveries, decoding>>,
         file'[Receiver] \in {file[Receiver], None}, In' = In
  PROVE  HashInv'
  BY DEF HashInv, Hashed, EncodingOf

(* What is typed stays so as long as nothing is encoded or received.       *)
LEMMA SenderTypeKept ==
  ASSUME SenderTypeOK, UNCHANGED <<encodings, job, ctx, encoding, unkept, raced>>,
         Out' \in SenderContents, ready' \subseteq Encodings,
         file'[Sender] \in {file[Sender], None}
  PROVE  SenderTypeOK'
  BY DEF SenderTypeOK, SenderContents, Encodings

LEMMA ReceiverTypeKept ==
  ASSUME ReceiverTypeOK, UNCHANGED <<encodings, deliveries>>,
         published \subseteq published', reading' \in {reading, None}, heard' \subseteq Rows,
         decoding' \in Rows \cup {0}, In' \in ReceiverContents,
         file'[Receiver] \in {file[Receiver], None}
  PROVE  ReceiverTypeOK'
  BY DEF ReceiverTypeOK, ReceiverContents, Rows, EncodingOf, Encodings

LEMMA BrokerTypeKept ==
  ASSUME BrokerTypeOK, UNCHANGED <<encodings, published>>,
         mailbox' \subseteq mailbox, unconfirmed' \subseteq unconfirmed
  PROVE  BrokerTypeOK'
  BY DEF BrokerTypeOK, Copies, Encodings

Counts ==
    /\ torn \cup lost \cup wasted \cup expired \subseteq Objs
    /\ spent \in 0..Budget

LEMMA SpendCounts ==
  ASSUME spent \in 0..Budget, NEW cost \in Nat, Spend(cost) PROVE spent' \in 0..Budget
  BY FlowAssumption DEF Spend

LEMMA TroubleCounts ==
  ASSUME spent \in 0..Budget, Trouble PROVE spent' \in 0..Budget
  BY SpendCounts DEF Trouble

LEMMA TypeParts ==
  TypeOK <=> Domains /\ SenderTypeOK /\ BrokerTypeOK /\ ReceiverTypeOK /\ Counts
  BY DEF TypeOK, Domains, Counts

(* Encodings of objects.                                                   *)
LEMMA ObjTyped ==
  ASSUME SenderTypeOK, NEW e \in Encodings
  PROVE  ObjOf(e) \in Objs /\ encodings[e].number \in Nat
  <1> DEFINE Record == [obj : Objs, number : Nat]
  <1>1. encodings \in Seq(Record)
    BY DEF SenderTypeOK
  <1>2. encodings[e] \in Record
    <2> HIDE DEF Record
    <2> QED BY <1>1 DEF Encodings
  <1>3. QED
    BY <1>2 DEF ObjOf

LEMMA RowTyped ==
  ASSUME SenderTypeOK, ReceiverTypeOK, NEW r \in Rows PROVE RowObj(r) \in Objs
  BY ObjTyped DEF ReceiverTypeOK, RowObj

LEMMA ReceiverUntouched ==
  ASSUME IInv, UNCHANGED <<encodings, deliveries, reading, heard, decoding>>,
         published \subseteq published', In' = In, file'[Receiver] \in {file[Receiver], None}
  PROVE  ReceiverTypeOK' /\ HashInv'
  BY ReceiverKeeps, ReceiverTypeKept DEF IInv, TypeOK, ReceiverTypeOK

LEMMA SenderUntouched ==
  ASSUME IInv, UNCHANGED <<encodeVars, ready, torn, unkept, raced>>,
         Out' = Out, file'[Sender] = file[Sender]
  PROVE  SenderTypeOK' /\ NumberInv' /\ JobInv' /\ TornInv'
  BY SenderKeeps, SenderTypeKept DEF IInv, TypeOK, SenderTypeOK, encodeVars

LEMMA Together ==
  ASSUME Domains', SenderTypeOK', BrokerTypeOK', ReceiverTypeOK', Counts',
         NumberInv', JobInv', TornInv', HashInv'
  PROVE  IInv'
  BY DEF IInv, TypeOK, Domains, Counts

-----------------------------------------------------------------------------
(* The steps of the sender                                                 *)

LEMMA WriteKeeps ==
  ASSUME IInv, NEW o \in Objs, Write(o) PROVE IInv'
  <1>1. Domains /\ SenderTypeOK /\ BrokerTypeOK /\ ReceiverTypeOK /\ Counts
    BY TypeParts DEF IInv
  <1>2. SavedBySender /\ Out' = [Out EXCEPT !.objs = @ \cup {o}]
    BY <1>1, SenderSaves DEF Write
  <1>3. UNCHANGED <<sendVars, brokerVars, receiveVars, history>> /\ Spend(ObjectCost)
    BY DEF Write
  <1> USE <1>2, <1>3 DEF sendVars, encodeVars, brokerVars, receiveVars, history, SavedBySender
  <1>4. Out' \in SenderContents /\ Out'.number = Out.number /\ Out'.rows = Out.rows
        /\ Out'.marked = Out.marked /\ Out.objs \subseteq Out'.objs
    BY <1>1 DEF SenderTypeOK, SenderContents
  <1>5. NumberInv' /\ JobInv' /\ TornInv' /\ SenderTypeOK'
    BY <1>1, <1>4, SenderKeeps, SenderTypeKept DEF IInv, SenderTypeOK
  <1>6. ReceiverTypeOK' /\ HashInv'
    BY ReceiverUntouched
  <1>7. BrokerTypeOK' /\ Counts'
    BY <1>1, BrokerTypeKept, SpendCounts, FlowAssumption DEF Counts
  <1>8. QED
    BY <1>5, <1>6, <1>7, Together

LEMMA LoadKeeps ==
  ASSUME IInv, NEW o \in Objs, Load(o) PROVE IInv'
  <1>1. Domains /\ SenderTypeOK /\ BrokerTypeOK /\ ReceiverTypeOK /\ Counts
    BY TypeParts DEF IInv
  <1> DEFINE p == QueueOf(o)
  <1>2. /\ p \in Queues /\ job[p] = None /\ o \in Unencoded
        /\ job' = [job EXCEPT ![p] = o] /\ ctx' = [ctx EXCEPT ![p] = Out.number]
        /\ UNCHANGED <<storeVars, encodings, encoding, ready, unconfirmed, brokerVars,
                       receiveVars, history, spent>>
    BY DEF Load, QueueOf, Queues
  <1>3. NotSaved
    BY <1>1, <1>2, NobodySaves
  <1> USE DEF brokerVars, receiveVars, history, NotSaved
  <1>4. SenderTypeOK'
    <2>1. job' \in [Queues -> Objs \cup {None}] /\ ctx' \in [Queues -> Nat]
      BY <1>1, <1>2 DEF SenderTypeOK, SenderContents
    <2>2. QED
      BY <1>1, <1>2, <1>3, <2>1 DEF SenderTypeOK, SenderContents, Encodings
  <1>5. NumberInv' /\ TornInv'
    BY <1>2, <1>3 DEF IInv, NumberInv, TornInv, Encodings, ObjOf
  <1>6. JobInv'
    <2>1. Unencoded' = Unencoded
      BY <1>2, <1>3 DEF Unencoded, ObjOf
    <2>2. encoding[p] = 0
      BY <1>1, <1>2, ObjTyped, FlowAssumption DEF IInv, JobInv, SenderTypeOK
    <2>3. \A q \in Queues : job'[q] = IF q = p THEN o ELSE job[q]
      BY <1>1, <1>2 DEF SenderTypeOK
    <2>4. o \in Out.objs
      BY <1>2 DEF Unencoded
    <2>5. QED
      BY <1>2, <1>3, <2>1, <2>2, <2>3, <2>4 DEF IInv, JobInv, ObjOf
  <1>7. ReceiverTypeOK' /\ HashInv'
    BY <1>2, <1>3, ReceiverUntouched
  <1>8. BrokerTypeOK' /\ Counts'
    BY <1>1, <1>2, BrokerTypeKept DEF Counts
  <1>9. QED
    BY <1>3, <1>4, <1>5, <1>6, <1>7, <1>8, Together

LEMMA EncodeKeeps ==
  ASSUME IInv, NEW q \in Queues, Encode(q) PROVE IInv'
  <1> DEFINE n == Len(encodings)
             Record == [obj : Objs, number : Nat]
             o == job[q]
             new == [obj |-> o, number |-> ctx[q]]
  <1>1. Domains /\ SenderTypeOK /\ BrokerTypeOK /\ ReceiverTypeOK /\ Counts
    BY TypeParts DEF IInv
  <1>2. /\ o # None /\ encoding[q] = 0
        /\ encodings' = Append(encodings, new)
        /\ encoding' = [encoding EXCEPT ![q] = n + 1]
        /\ raced' = raced \cup {e \in Encodings :
                                   encodings[e].number \in ctx[q]..(Out.number - 1)}
        /\ UNCHANGED <<job, ctx, ready, unconfirmed, brokerVars, receiveVars, torn, unkept,
                       lost, wasted, expired, spent>>
    BY DEF Encode
  <1>3. SavedBySender /\ Out' = [Out EXCEPT !.rows = @ \cup {n + 1}, !.number = ctx[q] + 1]
    BY <1>1, SenderSaves DEF Encode
  <1> USE DEF brokerVars, receiveVars, SavedBySender
  <1>4. /\ Out.number \in Nat /\ ctx[q] \in Nat /\ n \in Nat /\ o \in Objs
        /\ new \in Record /\ encodings \in Seq(Record)
    BY <1>1, <1>2 DEF SenderTypeOK, SenderContents
  <1>5. /\ encodings' \in Seq(Record) /\ Encodings' = 1..(n + 1)
        /\ Encodings' = Encodings \cup {n + 1} /\ n + 1 \notin Encodings
        /\ \A e \in Encodings : encodings'[e] = encodings[e]
        /\ encodings'[n + 1] = new
    <2> HIDE DEF new, Record
    <2> QED BY <1>2, <1>4 DEF Encodings
  <1>6. /\ Out'.rows = Out.rows \cup {n + 1} /\ Out'.number = ctx[q] + 1
        /\ Out'.marked = Out.marked
    BY <1>1, <1>3 DEF SenderTypeOK, SenderContents
  <1>7. SenderContents \subseteq SenderContents'
    BY <1>5 DEF SenderContents
  <1>8. Out' \in SenderContents'
    <2>1. Out \in SenderContents' /\ n + 1 \in Encodings' /\ ctx[q] + 1 \in Nat
      BY <1>1, <1>4, <1>5, <1>7 DEF SenderTypeOK
    <2>2. QED
      BY <1>3, <2>1 DEF SenderContents
  <1>9. SenderTypeOK'
    <2>1. file'[Sender] \in SenderContents' \cup {None}
      BY <1>1, <1>3, <1>7 DEF SenderTypeOK
    <2>2. encoding' \in [Queues -> Encodings' \cup {0}]
      BY <1>1, <1>2, <1>5 DEF SenderTypeOK
    <2>3. ready' \cup unkept' \cup raced' \subseteq Encodings'
      BY <1>1, <1>2, <1>5 DEF SenderTypeOK
    <2>4. QED
      BY <1>1, <1>2, <1>5, <1>8, <2>1, <2>2, <2>3 DEF SenderTypeOK
  <1>10. BrokerTypeOK'
    BY <1>1, <1>2, <1>5 DEF BrokerTypeOK, Copies
  <1>11. ReceiverTypeOK'
    BY <1>1, <1>2, <1>3, <1>5 DEF ReceiverTypeOK, ReceiverContents, Rows, EncodingOf
  <1>12. Counts'
    BY <1>1, <1>2 DEF Counts
  <1>13. NumberInv'
    <2>1. /\ \A e \in Encodings : encodings[e].number \in Nat
          /\ \A e \in Encodings : encodings'[e].number = encodings[e].number
          /\ encodings'[n + 1].number = ctx[q]
      BY <1>1, <1>5, ObjTyped
    (* A number that is not below the one saved has been taken back.       *)
    <2>2. \A e \in Encodings :
             e \in unkept' \cup raced' \/ encodings[e].number < ctx[q]
      BY <1>2, <1>4, <2>1 DEF IInv, NumberInv
    <2>3. unkept' = unkept /\ raced \subseteq raced'
      BY <1>2
    <2> HIDE DEF new
    <2>4. \A e \in Encodings' : e \in unkept' \cup raced' \/ encodings'[e].number < Out'.number
      <3>1. ctx[q] < Out'.number /\ ctx[q] \in Nat /\ Out'.number \in Nat
        BY <1>4, <1>6
      <3>2. \A e \in Encodings : encodings[e].number < ctx[q] => encodings[e].number < Out'.number
        BY <2>1, <3>1
      <3>3. QED
        BY <1>5, <2>1, <2>2, <3>1, <3>2
    <2>5. ASSUME file'[Sender] # None, NEW e \in Encodings'
          PROVE  \/ e \in unkept' \cup raced'
                 \/ encodings'[e].number < file'[Sender].number
                 \/ e \in Out'.rows \ file'[Sender].rows
      <3>1. file'[Sender] = file[Sender] /\ file[Sender].rows \subseteq Encodings
        BY <1>1, <1>3, <2>5 DEF SenderTypeOK, SenderContents
      <3>2. CASE e = n + 1
        BY <1>5, <1>6, <3>1, <3>2
      <3>3. CASE e \in Encodings
        BY <1>6, <2>1, <2>3, <2>5, <3>1, <3>3 DEF IInv, NumberInv
      <3>4. QED
        BY <1>5, <3>2, <3>3
    <2>6. \A e, f \in Encodings' :
            e # f /\ encodings'[e].number = encodings'[f].number =>
               {e, f} \cap (unkept' \cup raced') # {}
      <3>1. \A e, f \in Encodings :
              e # f /\ encodings[e].number = encodings[f].number =>
                 {e, f} \cap (unkept' \cup raced') # {}
        BY <2>3 DEF IInv, NumberInv
      <3>2. \A e \in Encodings : encodings[e].number = ctx[q] => e \in unkept' \cup raced'
        BY <1>4, <2>2
      <3>3. QED
        BY <1>5, <2>1, <3>1, <3>2
    <2>7. QED
      BY <2>4, <2>5, <2>6 DEF NumberInv
  (* Encodings of the object are torn: it knows of none, and the other     *)
  (* queue is at an object of its own.                                     *)
  <1>14. /\ \A e \in Encodings : ObjOf(e) = o => o \in torn
         /\ \A e \in Encodings : e # 0 /\ encodings'[e].obj = encodings[e].obj
         /\ encodings'[n + 1].obj = o
    <2>1. QueueOf(o) = q /\ o \in Unencoded
      BY <1>2 DEF IInv, JobInv
    <2>2. \A e \in Encodings : e # 0
      BY DEF Encodings
    <2>3. ASSUME NEW e \in Encodings, ObjOf(e) = o, NEW p \in Queues, e = encoding[p]
          PROVE  FALSE
      <3>1. p # q
        BY <1>2, <2>2, <2>3
      <3>2. job[p] = o
        BY <2>2, <2>3 DEF IInv, JobInv
      <3>3. QED
        BY <1>2, <2>1, <3>1, <3>2 DEF IInv, JobInv
    <2>4. QED
      BY <1>5, <2>1, <2>2, <2>3 DEF IInv, TornInv, Unencoded
  <1>15. JobInv'
    <2>1. Unencoded' = Unencoded /\ Out'.objs = Out.objs
      <3>1. Out.marked \subseteq Encodings /\ Out'.objs = Out.objs
        BY <1>1, <1>3 DEF SenderTypeOK, SenderContents
      <3>2. QED
        BY <1>6, <1>14, <3>1 DEF Unencoded, ObjOf
    <2>2. \A p \in Queues : encoding'[p] = IF p = q THEN n + 1 ELSE encoding[p]
      BY <1>1, <1>2 DEF SenderTypeOK
    <2>3. \A p \in Queues : encoding[p] # 0 => encodings'[encoding[p]].obj = job[p]
      BY <1>1, <1>14 DEF IInv, JobInv, SenderTypeOK, ObjOf
    <2>4. n + 1 # 0
      BY <1>4
    <2>5. \A p \in Queues : encoding'[p] # 0 => encodings'[encoding'[p]].obj = job'[p]
      <3>1. job' = job /\ encodings'[n + 1].obj = job[q]
        BY <1>2, <1>14
      <3> HIDE DEF new, o
      <3>2. QED
        BY <2>2, <2>3, <3>1
    <2>6. \A p \in Queues : encoding'[p] = 0 => encoding[p] = 0
      BY <2>2, <2>4
    <2>7. QED
      BY <1>2, <2>1, <2>5, <2>6 DEF IInv, JobInv, ObjOf
  <1>16. TornInv'
    <2>1. n + 1 = encoding'[q]
      BY <1>1, <1>2 DEF SenderTypeOK
    <2>2. \A e \in Encodings, p \in Queues : e = encoding[p] => e = encoding'[p]
      BY <1>1, <1>2, <1>14 DEF SenderTypeOK
    <2>3. \A e \in Encodings' : \/ \E p \in Queues : e = encoding'[p]
                                \/ e \in Out'.marked
                                \/ encodings'[e].obj \in torn'
      BY <1>2, <1>5, <1>6, <1>14, <2>1, <2>2 DEF IInv, TornInv, ObjOf
    <2>4. \A e, f \in Encodings' :
            e # f /\ encodings'[e].obj = encodings'[f].obj => encodings'[e].obj \in torn'
      <3>1. \A e, f \in Encodings :
              e # f /\ encodings[e].obj = encodings[f].obj => encodings[e].obj \in torn
        BY DEF IInv, TornInv, ObjOf
      <3>2. torn' = torn
        BY <1>2
      <3>3. \A e \in Encodings : encodings'[e].obj = o => o \in torn
        BY <1>14 DEF ObjOf
      <3> HIDE DEF new, o
      <3>4. QED
        BY <1>5, <1>14, <3>1, <3>2, <3>3
    <2>5. QED
      BY <2>3, <2>4 DEF TornInv, ObjOf
  <1>17. HashInv'
    BY <1>2, <1>3, ReceiverKeeps DEF IInv
  <1>18. QED
    BY <1>3, <1>9, <1>10, <1>11, <1>12, <1>13, <1>15, <1>16, <1>17, Together

LEMMA FinishKeeps ==
  ASSUME IInv, NEW q \in Queues, Finish(q) PROVE IInv'
  <1> DEFINE e == encoding[q]
  <1>1. Domains /\ SenderTypeOK /\ BrokerTypeOK /\ ReceiverTypeOK /\ Counts
    BY TypeParts DEF IInv
  <1>2. SavedBySender /\ Out' = [Out EXCEPT !.marked = @ \cup {e}]
    BY <1>1, SenderSaves DEF Finish
  <1>3. /\ e \in Encodings /\ e # 0 /\ ready' = ready \cup {e} /\ EndOperation(q)
        /\ UNCHANGED <<encodings, unconfirmed, brokerVars, receiveVars, history, spent>>
    BY <1>1 DEF Finish, SenderTypeOK
  <1> USE DEF brokerVars, receiveVars, history, SavedBySender
  <1>4. /\ Out' \in SenderContents /\ Out'.number = Out.number /\ Out'.rows = Out.rows
        /\ Out'.marked = Out.marked \cup {e} /\ Out'.objs = Out.objs
    BY <1>1, <1>2, <1>3 DEF SenderTypeOK, SenderContents
  <1>5. /\ \A p \in Queues : job'[p] = IF p = q THEN None ELSE job[p]
        /\ \A p \in Queues : encoding'[p] = IF p = q THEN 0 ELSE encoding[p]
    BY <1>1, <1>3 DEF SenderTypeOK, EndOperation
  <1>6. SenderTypeOK'
    <2>1. /\ job' \in [Queues -> Objs \cup {None}] /\ ctx' \in [Queues -> Nat]
          /\ encoding' \in [Queues -> Encodings \cup {0}]
      BY <1>1, <1>3 DEF SenderTypeOK, EndOperation
    <2>2. QED
      BY <1>1, <1>2, <1>3, <1>4, <2>1 DEF SenderTypeOK, SenderContents, Encodings
  <1>7. NumberInv'
    BY <1>2, <1>3, <1>4 DEF IInv, NumberInv, Encodings
  <1>8. JobInv'
    (* The other queue's object is another one, and still unencoded.       *)
    <2>1. ASSUME NEW p \in Queues, p # q, job[p] # None, encoding[p] = 0
          PROVE  job[p] \in Unencoded'
      <3>1. job[p] \in Unencoded /\ QueueOf(job[p]) = p
        BY <2>1 DEF IInv, JobInv
      <3>2. ObjOf(e) = job[q] /\ ObjOf(e) \in Objs
        BY <1>1, <1>3, ObjTyped DEF IInv, JobInv
      <3>3. ObjOf(e) # job[p]
        BY <2>1, <3>1, <3>2, FlowAssumption DEF IInv, JobInv
      <3>4. QED
        BY <1>3, <1>4, <3>1, <3>3 DEF Unencoded, ObjOf
    <2>2. \A p \in Queues :
             job'[p] # None =>
                /\ QueueOf(job'[p]) = p /\ job'[p] \in Out'.objs
                /\ encoding'[p] = 0 => job'[p] \in Unencoded'
      BY <1>4, <1>5, <2>1 DEF IInv, JobInv
    <2>3. \A p \in Queues : encoding'[p] # 0 => encodings'[encoding'[p]].obj = job'[p]
      BY <1>3, <1>5 DEF IInv, JobInv, ObjOf
    <2>4. QED
      BY <2>2, <2>3 DEF JobInv, ObjOf
  <1>9. TornInv'
    BY <1>3, <1>4, <1>5 DEF IInv, TornInv, Encodings, ObjOf
  <1>10. ReceiverTypeOK' /\ HashInv'
    BY <1>2, <1>3, ReceiverUntouched
  <1>11. BrokerTypeOK' /\ Counts'
    BY <1>1, <1>3, BrokerTypeKept DEF Counts
  <1>12. QED
    BY <1>2, <1>6, <1>7, <1>8, <1>9, <1>10, <1>11, Together

LEMMA FinishFailsKeeps ==
  ASSUME IInv, NEW q \in Queues, FinishFails(q) PROVE IInv'
  <1> DEFINE e == encoding[q]
  <1>1. Domains /\ SenderTypeOK /\ BrokerTypeOK /\ ReceiverTypeOK /\ Counts
    BY TypeParts DEF IInv
  <1>2. /\ e \in Encodings /\ torn' = torn \cup {ObjOf(e)} /\ EndOperation(q)
        /\ UNCHANGED <<storeVars, encodings, ready, unconfirmed, brokerVars, receiveVars, unkept,
                       raced, lost, wasted, expired>>
    BY <1>1 DEF FinishFails, SenderTypeOK
  <1>3. NotSaved
    BY <1>1, <1>2, NobodySaves
  <1> USE DEF brokerVars, receiveVars, NotSaved
  <1>4. /\ \A p \in Queues : job'[p] = IF p = q THEN None ELSE job[p]
        /\ \A p \in Queues : encoding'[p] = IF p = q THEN 0 ELSE encoding[p]
    BY <1>1, <1>2 DEF SenderTypeOK, EndOperation
  <1>5. SenderTypeOK'
    <2>1. /\ job' \in [Queues -> Objs \cup {None}] /\ ctx' \in [Queues -> Nat]
          /\ encoding' \in [Queues -> Encodings \cup {0}]
      BY <1>1, <1>2 DEF SenderTypeOK, EndOperation
    <2>2. QED
      BY <1>1, <1>2, <1>3, <2>1 DEF SenderTypeOK, SenderContents, Encodings
  <1>6. NumberInv'
    BY <1>2, <1>3 DEF IInv, NumberInv, Encodings
  <1>7. JobInv' /\ TornInv'
    BY <1>2, <1>3, <1>4 DEF IInv, JobInv, TornInv, Encodings, Unencoded, ObjOf
  <1>8. ReceiverTypeOK' /\ HashInv'
    BY <1>2, <1>3, ReceiverUntouched
  <1>9. BrokerTypeOK'
    BY <1>1, <1>2, BrokerTypeKept
  <1>10. Counts'
    BY <1>1, <1>2, ObjTyped, TroubleCounts DEF Counts, FinishFails
  <1>11. QED
    BY <1>3, <1>5, <1>6, <1>7, <1>8, <1>9, <1>10, Together

LEMMA PublishKeeps ==
  ASSUME IInv, NEW e \in Encodings, Publish(e) PROVE IInv'
  <1> DEFINE earlier == {c \in published : c[1] = e}
             copy == <<e, Cardinality(earlier) + 1>>
  <1>1. Domains /\ SenderTypeOK /\ BrokerTypeOK /\ ReceiverTypeOK /\ Counts
    BY TypeParts DEF IInv
  <1>2. /\ published' = published \cup {copy} /\ mailbox' = mailbox \cup {copy}
        /\ unconfirmed' = unconfirmed \cup {copy}
        /\ UNCHANGED <<storeVars, encodeVars, ready, receiveVars, history>>
        /\ Trouble \/ UNCHANGED spent
    BY DEF Publish
  <1>3. NotSaved
    BY <1>1, <1>2, NobodySaves
  <1> USE DEF encodeVars, receiveVars, history, NotSaved
  <1>4. copy \in Copies
    <2>1. IsFiniteSet(earlier)
      BY <1>1, FS_Subset DEF BrokerTypeOK
    <2>2. Cardinality(earlier) \in Nat
      BY <2>1, FS_CardinalityType
    <2>3. QED
      BY <2>2 DEF Copies
  <1>5. BrokerTypeOK'
    <2>1. IsFiniteSet(published')
      BY <1>1, <1>2, FS_AddElement DEF BrokerTypeOK
    <2> HIDE DEF copy
    <2>2. QED
      BY <1>1, <1>2, <1>4, <2>1 DEF BrokerTypeOK, Copies, Encodings
  <1>6. SenderTypeOK' /\ NumberInv' /\ JobInv' /\ TornInv'
    BY <1>2, <1>3, SenderUntouched
  <1>7. ReceiverTypeOK' /\ HashInv'
    BY <1>2, <1>3, ReceiverUntouched
  <1>8. Counts'
    BY <1>1, <1>2, TroubleCounts DEF Counts
  <1>9. QED
    BY <1>3, <1>5, <1>6, <1>7, <1>8, Together

LEMMA ConfirmKeeps ==
  ASSUME IInv, NEW c \in published, Confirm(c) PROVE IInv'
  <1>1. Domains /\ SenderTypeOK /\ BrokerTypeOK /\ ReceiverTypeOK /\ Counts
    BY TypeParts DEF IInv
  <1>2. SavedBySender /\ Out' = [Out EXCEPT !.sent = @ \cup {c[1]}]
    BY <1>1, SenderSaves DEF Confirm
  <1>3. /\ unconfirmed' = unconfirmed \ {c}
        /\ UNCHANGED <<encodeVars, ready, brokerVars, receiveVars, history, spent>>
    BY DEF Confirm
  <1> USE DEF encodeVars, brokerVars, receiveVars, history, SavedBySender
  <1>4. c[1] \in Encodings
    BY <1>1 DEF BrokerTypeOK, Copies
  <1>5. /\ Out' \in SenderContents /\ Out'.number = Out.number /\ Out'.rows = Out.rows
        /\ Out'.marked = Out.marked /\ Out'.objs = Out.objs
    BY <1>1, <1>2, <1>4 DEF SenderTypeOK, SenderContents
  <1>6. NumberInv' /\ JobInv' /\ TornInv' /\ SenderTypeOK'
    BY <1>1, <1>2, <1>3, <1>5, SenderKeeps, SenderTypeKept DEF IInv, SenderTypeOK
  <1>7. ReceiverTypeOK' /\ HashInv'
    BY <1>2, <1>3, ReceiverUntouched
  <1>8. BrokerTypeOK' /\ Counts'
    BY <1>1, <1>3, BrokerTypeKept DEF Counts
  <1>9. QED
    BY <1>2, <1>6, <1>7, <1>8, Together

-----------------------------------------------------------------------------
(* The steps of the receiver                                               *)

LEMMA ReceiveKeeps ==
  ASSUME IInv, NEW c \in published, Receive(c) PROVE IInv'
  <1>1. Domains /\ SenderTypeOK /\ BrokerTypeOK /\ ReceiverTypeOK /\ Counts
    BY TypeParts DEF IInv
  <1> DEFINE n == Len(deliveries)
             Pair == Nat \X Nat
  <1>2. SavedByReceiver /\ In' = [In EXCEPT !.rows = @ \cup {n + 1}]
    BY <1>1, ReceiverSaves DEF Receive
  <1>3. /\ c \in mailbox /\ deliveries' = Append(deliveries, c) /\ reading' = c
        /\ UNCHANGED <<sendVars, brokerVars, heard, decoding, history, spent>>
    BY DEF Receive
  <1> USE DEF sendVars, encodeVars, brokerVars, history, SavedByReceiver
  <1>4. c \in Copies /\ c \in Pair /\ c[1] \in Encodings /\ n \in Nat
        /\ deliveries \in Seq(Pair)
    <2>1. c \in Copies
      BY <1>1 DEF BrokerTypeOK
    <2>2. deliveries \in Seq(Pair)
      BY <1>1 DEF ReceiverTypeOK
    <2>3. n \in Nat
      BY <2>2
    <2>4. Encodings \subseteq Nat
      BY DEF Encodings
    <2>5. QED
      BY <2>1, <2>2, <2>3, <2>4 DEF Copies
  <1>5. /\ deliveries' \in Seq(Pair) /\ Rows' = Rows \cup {n + 1} /\ n + 1 \notin Rows
        /\ \A r \in Rows : deliveries'[r] = deliveries[r]
        /\ deliveries'[n + 1] = c
    <2> HIDE DEF Pair
    <2> QED BY <1>3, <1>4 DEF Rows
  <1>6. ReceiverContents \subseteq ReceiverContents'
    BY <1>5 DEF ReceiverContents
  <1>7. In' \in ReceiverContents'
    <2>1. In \in ReceiverContents' /\ n + 1 \in Rows'
      BY <1>1, <1>5, <1>6 DEF ReceiverTypeOK
    <2>2. QED
      BY <1>2, <2>1 DEF ReceiverContents
  <1>8. ReceiverTypeOK'
    <2>1. file'[Receiver] \in ReceiverContents' \cup {None}
      BY <1>1, <1>2, <1>6 DEF ReceiverTypeOK
    <2>2. \A r \in Rows' : deliveries'[r][1] \in Encodings'
      BY <1>1, <1>3, <1>4, <1>5 DEF ReceiverTypeOK, EncodingOf, Encodings
    <2>3. reading' \in published' \cup {None} /\ heard' \subseteq Rows'
          /\ decoding' \in Rows' \cup {0} /\ Len(deliveries') \in Rows'
      BY <1>1, <1>3, <1>4, <1>5 DEF ReceiverTypeOK, BrokerTypeOK
    <2>4. QED
      BY <1>5, <1>7, <2>1, <2>2, <2>3 DEF ReceiverTypeOK, EncodingOf
  <1>9. SenderTypeOK' /\ NumberInv' /\ JobInv' /\ TornInv'
    BY <1>2, <1>3, SenderUntouched
  <1>10. BrokerTypeOK' /\ Counts'
    BY <1>1, <1>3, BrokerTypeKept DEF Counts
  <1>11. HashInv'
    <2>1. /\ In'.made = In.made /\ In'.hashed = In.hashed /\ In'.dropped = In.dropped
          /\ In'.forgotten = In.forgotten
      BY <1>1, <1>2 DEF ReceiverTypeOK, ReceiverContents
    <2>2. In.hashed \subseteq Rows /\ (file[Receiver] # None => file[Receiver].hashed \subseteq Rows)
      BY <1>1 DEF ReceiverTypeOK, ReceiverContents
    <2>3. /\ Hashed(In)
          /\ file[Receiver] # None => Hashed(file[Receiver])
          /\ decoding # 0 => decoding \in In.hashed \ (In.dropped \cup In.forgotten)
      BY DEF IInv, HashInv
    <2>4. \A r \in Rows : deliveries'[r][1] = deliveries[r][1]
      BY <1>5
    <2>5. \A r, s \in In.hashed \ (In.dropped \cup In.forgotten) :
             deliveries'[r][1] = deliveries'[s][1] => r = s
      BY <2>2, <2>3, <2>4 DEF Hashed, EncodingOf
    <2>6. Hashed(In)'
      BY <2>1, <2>3, <2>5 DEF Hashed, EncodingOf
    <2>7. ASSUME file'[Receiver] # None PROVE Hashed(file[Receiver])'
      <3>1. file'[Receiver] = file[Receiver] /\ file[Receiver] # None
        BY <1>2, <2>7
      <3>2. QED
        BY <2>2, <2>3, <2>4, <3>1 DEF Hashed, EncodingOf
    <2>8. QED
      BY <1>2, <1>3, <2>1, <2>3, <2>6, <2>7 DEF HashInv
  <1>12. QED
    BY <1>2, <1>8, <1>9, <1>10, <1>11, Together

LEMMA AckKeeps ==
  ASSUME IInv, Ack PROVE IInv'
  <1>1. Domains /\ SenderTypeOK /\ BrokerTypeOK /\ ReceiverTypeOK /\ Counts
    BY TypeParts DEF IInv
  <1>2. NotSaved
    BY <1>1, NobodySaves DEF Ack
  <1> USE DEF sendVars, encodeVars, brokerVars, history, NotSaved
  <1>3. SenderTypeOK' /\ NumberInv' /\ JobInv' /\ TornInv'
    BY <1>2, SenderUntouched DEF Ack
  <1>4. HashInv'
    BY <1>2, ReceiverKeeps DEF Ack, IInv
  <1>5. ReceiverTypeOK'
    BY <1>1, <1>2, ReceiverTypeKept DEF Ack, ReceiverTypeOK
  <1>6. BrokerTypeOK' /\ Counts'
    BY <1>1, BrokerTypeKept DEF Ack, Counts
  <1>7. QED
    BY <1>2, <1>3, <1>4, <1>5, <1>6, Together

LEMMA AckFailsKeeps ==
  ASSUME IInv, AckFails PROVE IInv'
  <1>1. Domains /\ SenderTypeOK /\ BrokerTypeOK /\ ReceiverTypeOK /\ Counts
    BY TypeParts DEF IInv
  <1>2. NotSaved
    BY <1>1, NobodySaves DEF AckFails
  <1> USE DEF sendVars, encodeVars, brokerVars, history, NotSaved
  <1>3. SenderTypeOK' /\ NumberInv' /\ JobInv' /\ TornInv'
    BY <1>2, SenderUntouched DEF AckFails
  <1>4. HashInv'
    BY <1>2, ReceiverKeeps DEF AckFails, IInv
  <1>5. ReceiverTypeOK'
    BY <1>1, <1>2, ReceiverTypeKept DEF AckFails, ReceiverTypeOK
  <1>6. BrokerTypeOK' /\ Counts'
    BY <1>1, BrokerTypeKept, TroubleCounts DEF AckFails, Counts
  <1>7. QED
    BY <1>2, <1>3, <1>4, <1>5, <1>6, Together

LEMMA DropKeeps ==
  ASSUME IInv, NEW r \in Rows, Drop(r) PROVE IInv'
  <1>1. Domains /\ SenderTypeOK /\ BrokerTypeOK /\ ReceiverTypeOK /\ Counts
    BY TypeParts DEF IInv
  <1>2. SavedByReceiver /\ In' = [In EXCEPT !.dropped = @ \cup {r}]
    BY <1>1, ReceiverSaves DEF Drop
  <1> USE DEF sendVars, encodeVars, brokerVars, receiveVars, history, SavedByReceiver
  <1>3. /\ decoding' = decoding /\ r \in Rows
        /\ UNCHANGED <<sendVars, brokerVars, deliveries, reading, heard, history, spent>>
    BY <1>1 DEF Drop, ReceiverTypeOK
  <1>4. /\ In' \in ReceiverContents /\ In'.dropped = In.dropped \cup {r}
        /\ In'.made = In.made /\ In'.hashed = In.hashed /\ In'.forgotten = In.forgotten
    BY <1>1, <1>2, <1>3 DEF ReceiverTypeOK, ReceiverContents
  <1>5. HashInv'
    BY <1>2, <1>3, <1>4 DEF Drop, Undecided, IInv, HashInv, Hashed, EncodingOf
  <1>6. ReceiverTypeOK'
    BY <1>1, <1>2, <1>3, <1>4, ReceiverTypeKept DEF ReceiverTypeOK
  <1>7. SenderTypeOK' /\ NumberInv' /\ JobInv' /\ TornInv'
    BY <1>2, <1>3, SenderUntouched
  <1>8. BrokerTypeOK' /\ Counts'
    BY <1>1, <1>3, BrokerTypeKept DEF Counts
  <1>9. QED
    BY <1>2, <1>5, <1>6, <1>7, <1>8, Together

LEMMA HashKeeps ==
  ASSUME IInv, NEW r \in Rows, Hash(r) PROVE IInv'
  <1>1. Domains /\ SenderTypeOK /\ BrokerTypeOK /\ ReceiverTypeOK /\ Counts
    BY TypeParts DEF IInv
  <1>2. SavedByReceiver /\ In' = [In EXCEPT !.hashed = @ \cup {r}]
    BY <1>1, ReceiverSaves DEF Hash
  <1> USE DEF sendVars, encodeVars, brokerVars, receiveVars, history, SavedByReceiver
  <1>3. /\ decoding' = r /\ r \in Rows
        /\ UNCHANGED <<sendVars, brokerVars, deliveries, reading, heard, history, spent>>
    BY <1>1 DEF Hash, ReceiverTypeOK
  <1>4. /\ In' \in ReceiverContents /\ In'.hashed = In.hashed \cup {r}
        /\ In'.made = In.made /\ In'.dropped = In.dropped /\ In'.forgotten = In.forgotten
    BY <1>1, <1>2, <1>3 DEF ReceiverTypeOK, ReceiverContents
  <1>5. HashInv'
    BY <1>2, <1>3, <1>4 DEF Hash, Undecided, Known, IInv, HashInv, Hashed, EncodingOf
  <1>6. ReceiverTypeOK'
    BY <1>1, <1>2, <1>3, <1>4, ReceiverTypeKept DEF ReceiverTypeOK
  <1>7. SenderTypeOK' /\ NumberInv' /\ JobInv' /\ TornInv'
    BY <1>2, <1>3, SenderUntouched
  <1>8. BrokerTypeOK' /\ Counts'
    BY <1>1, <1>3, BrokerTypeKept DEF Counts
  <1>9. QED
    BY <1>2, <1>5, <1>6, <1>7, <1>8, Together

LEMMA MakeKeeps ==
  ASSUME IInv, Make PROVE IInv'
  <1>1. Domains /\ SenderTypeOK /\ BrokerTypeOK /\ ReceiverTypeOK /\ Counts
    BY TypeParts DEF IInv
  <1>2. SavedByReceiver /\ In' = [In EXCEPT !.made = @ \cup {decoding}]
    BY <1>1, ReceiverSaves DEF Make
  <1> USE DEF sendVars, encodeVars, brokerVars, receiveVars, history, SavedByReceiver
  <1>3. /\ decoding' = 0 /\ decoding \in Rows
        /\ UNCHANGED <<sendVars, brokerVars, deliveries, reading, heard, history, spent>>
    BY <1>1 DEF Make, ReceiverTypeOK
  <1>4. /\ In' \in ReceiverContents /\ In'.made = In.made \cup {decoding}
        /\ In'.hashed = In.hashed /\ In'.dropped = In.dropped /\ In'.forgotten = In.forgotten
    BY <1>1, <1>2, <1>3 DEF ReceiverTypeOK, ReceiverContents
  <1>5. HashInv'
    <2>1. decoding # 0
      BY DEF Make
    <2>2. QED
      BY <1>2, <1>3, <1>4, <2>1 DEF IInv, HashInv, Hashed, EncodingOf
  <1>6. ReceiverTypeOK'
    BY <1>1, <1>2, <1>3, <1>4, ReceiverTypeKept DEF ReceiverTypeOK
  <1>7. SenderTypeOK' /\ NumberInv' /\ JobInv' /\ TornInv'
    BY <1>2, <1>3, SenderUntouched
  <1>8. BrokerTypeOK' /\ Counts'
    BY <1>1, <1>3, BrokerTypeKept DEF Counts
  <1>9. QED
    BY <1>2, <1>5, <1>6, <1>7, <1>8, Together

LEMMA ShowKeeps ==
  ASSUME IInv, NEW r \in Rows, Show(r) PROVE IInv'
  <1>1. Domains /\ SenderTypeOK /\ BrokerTypeOK /\ ReceiverTypeOK /\ Counts
    BY TypeParts DEF IInv
  <1>2. SavedByReceiver /\ In' = [In EXCEPT !.shown = @ \cup {r}]
    BY <1>1, ReceiverSaves DEF Show
  <1> USE DEF sendVars, encodeVars, brokerVars, receiveVars, history, SavedByReceiver
  <1>3. /\ decoding' = decoding /\ r \in Rows
        /\ UNCHANGED <<sendVars, brokerVars, deliveries, reading, heard, history, spent>>
    BY <1>1 DEF Show, ReceiverTypeOK
  <1>4. /\ In' \in ReceiverContents /\ In'.shown = In.shown \cup {r}
        /\ In'.made = In.made /\ In'.hashed = In.hashed /\ In'.dropped = In.dropped /\ In'.forgotten = In.forgotten
    BY <1>1, <1>2, <1>3 DEF ReceiverTypeOK, ReceiverContents
  <1>5. HashInv'
    BY <1>2, <1>3, <1>4 DEF IInv, HashInv, Hashed, EncodingOf
  <1>6. ReceiverTypeOK'
    BY <1>1, <1>2, <1>3, <1>4, ReceiverTypeKept DEF ReceiverTypeOK
  <1>7. SenderTypeOK' /\ NumberInv' /\ JobInv' /\ TornInv'
    BY <1>2, <1>3, SenderUntouched
  <1>8. BrokerTypeOK' /\ Counts'
    BY <1>1, <1>3, BrokerTypeKept DEF Counts
  <1>9. QED
    BY <1>2, <1>5, <1>6, <1>7, <1>8, Together

LEMMA MakeFailsKeeps ==
  ASSUME IInv, MakeFails PROVE IInv'
  <1>1. Domains /\ SenderTypeOK /\ BrokerTypeOK /\ ReceiverTypeOK /\ Counts
    BY TypeParts DEF IInv
  <1>2. NotSaved
    BY <1>1, NobodySaves DEF MakeFails
  <1>3. /\ decoding \in Rows /\ decoding' = 0 /\ wasted' = wasted \cup {RowObj(decoding)}
        /\ UNCHANGED <<storeVars, sendVars, brokerVars, deliveries, reading, heard, torn, unkept,
                       raced, lost, expired>>
    BY <1>1 DEF MakeFails, ReceiverTypeOK
  <1> USE DEF sendVars, encodeVars, brokerVars, NotSaved
  <1>4. SenderTypeOK' /\ NumberInv' /\ JobInv' /\ TornInv'
    BY <1>2, <1>3, SenderUntouched
  <1>5. HashInv'
    BY <1>2, <1>3 DEF IInv, HashInv, Hashed, EncodingOf
  <1>6. ReceiverTypeOK'
    BY <1>1, <1>2, <1>3, ReceiverTypeKept DEF ReceiverTypeOK
  <1>7. BrokerTypeOK'
    BY <1>1, <1>3, BrokerTypeKept
  <1>8. Counts'
    BY <1>1, <1>3, RowTyped, TroubleCounts DEF Counts, MakeFails
  <1>9. QED
    BY <1>2, <1>4, <1>5, <1>6, <1>7, <1>8, Together

-----------------------------------------------------------------------------
(* The main queues and restarts                                            *)

LEMMA StallKeeps ==
  ASSUME IInv, NEW d \in Devices, Stall(d) PROVE IInv'
  <1>1. Domains /\ SenderTypeOK /\ BrokerTypeOK /\ ReceiverTypeOK /\ Counts
    BY TypeParts DEF IInv
  <1>2. /\ Domains' /\ Out' = Out /\ In' = In
        /\ file'[Sender] \in {file[Sender], Out} /\ file'[Receiver] \in {file[Receiver], In}
    BY <1>1 DEF Stall, Store!Stall, Domains, Devices, Sender, Receiver, Out, In
  <1>3. UNCHANGED <<sendVars, brokerVars, receiveVars, history>>
    BY DEF Stall
  <1> USE DEF sendVars, encodeVars, brokerVars, receiveVars, history
  <1>4. SenderTypeOK'
    BY <1>1, <1>2, <1>3 DEF SenderTypeOK, SenderContents, Encodings
  <1>5. ReceiverTypeOK'
    BY <1>1, <1>2, <1>3 DEF ReceiverTypeOK, ReceiverContents, Rows, EncodingOf, Encodings
  <1>6. NumberInv'
    BY <1>2, <1>3 DEF IInv, NumberInv, Encodings
  <1>7. JobInv' /\ TornInv'
    BY <1>2, <1>3 DEF IInv, JobInv, TornInv, Encodings, Unencoded, ObjOf
  <1>8. HashInv'
    BY <1>2, <1>3 DEF IInv, HashInv, Hashed, EncodingOf
  <1>9. BrokerTypeOK' /\ Counts'
    BY <1>1, <1>3, BrokerTypeKept, TroubleCounts DEF Stall, Counts
  <1>10. QED
    BY <1>2, <1>4, <1>5, <1>6, <1>7, <1>8, <1>9, Together

LEMMA RestartSenderKeeps ==
  ASSUME IInv, RestartSender PROVE IInv'
  <1> DEFINE disk == file[Sender]
  <1>1. Domains /\ SenderTypeOK /\ BrokerTypeOK /\ ReceiverTypeOK /\ Counts
    BY TypeParts DEF IInv
  <1>2. PICK old \in SUBSET {ObjOf(e) : e \in disk.marked \ disk.sent} :
           /\ Store!Reopen(Sender, CleanSender(disk, old))
           /\ expired' = expired \cup old
    BY DEF RestartSender
  <1>3. disk # None /\ disk \in SenderContents
    BY <1>1 DEF RestartSender, Store!MayEnd, SenderTypeOK
  <1>4. SavedBySender /\ file'[Sender] = None /\ Out' = CleanSender(disk, old)
    <2>1. Store!SaveRoot(Sender, CleanSender(disk, old))
      BY <1>2 DEF Store!Reopen
    <2>2. file'[Sender] = None
      BY <1>1, <2>1 DEF Store!SaveRoot, Domains, Devices
    <2>3. QED
      BY <1>1, <2>1, <2>2, SenderSaves
  <1>5. /\ job' = [q \in Queues |-> None] /\ ctx' = [q \in Queues |-> 0]
        /\ encoding' = [q \in Queues |-> 0] /\ unconfirmed' = {} /\ ready' = disk.rows
        /\ unkept' = unkept \cup (Out.rows \ disk.rows)
        /\ torn' = torn \cup {ObjOf(e) : e \in Encodings \ disk.marked}
        /\ UNCHANGED <<encodings, brokerVars, receiveVars, raced, lost, wasted, spent>>
    BY DEF RestartSender
  <1> USE DEF brokerVars, receiveVars, SavedBySender
  <1>6. /\ Out' \in SenderContents /\ Out'.number = disk.number
        /\ Out'.rows \subseteq disk.rows /\ Out'.marked = disk.marked
    BY <1>3, <1>4 DEF CleanSender, SenderContents
  <1>7. SenderTypeOK'
    BY <1>1, <1>3, <1>4, <1>5, <1>6 DEF SenderTypeOK, SenderContents, Encodings
  <1>8. NumberInv'
    BY <1>3, <1>4, <1>5, <1>6 DEF IInv, NumberInv, Encodings
  <1>9. JobInv' /\ TornInv'
    BY <1>5, <1>6 DEF IInv, JobInv, TornInv, Encodings, ObjOf
  <1>10. ReceiverTypeOK' /\ HashInv'
    BY <1>4, <1>5, ReceiverUntouched
  <1>11. BrokerTypeOK'
    BY <1>1, <1>5, BrokerTypeKept
  <1>12. Counts'
    <2>1. disk.marked \subseteq Encodings
      BY <1>3 DEF SenderContents
    <2>2. old \subseteq Objs /\ {ObjOf(e) : e \in Encodings \ disk.marked} \subseteq Objs
      BY <1>1, <2>1, ObjTyped
    <2>3. QED
      BY <1>1, <1>2, <1>5, <2>2 DEF Counts
  <1>13. QED
    BY <1>4, <1>7, <1>8, <1>9, <1>10, <1>11, <1>12, Together

LEMMA RestartReceiverKeeps ==
  ASSUME IInv, RestartReceiver PROVE IInv'
  <1> DEFINE disk == file[Receiver]
             Gone == {r \in In.rows \ disk.rows : deliveries[r] \notin mailbox}
  <1>1. Domains /\ SenderTypeOK /\ BrokerTypeOK /\ ReceiverTypeOK /\ Counts
    BY TypeParts DEF IInv
  <1>2. disk # None /\ disk \in ReceiverContents
    BY <1>1 DEF RestartReceiver, Store!MayEnd, ReceiverTypeOK
  <1>3. SavedByReceiver /\ file'[Receiver] = None /\ In' = CleanReceiver(disk)
    <2>1. Store!SaveRoot(Receiver, CleanReceiver(disk))
      BY DEF RestartReceiver, Store!Reopen
    <2>2. file'[Receiver] = None
      BY <1>1, <2>1 DEF Store!SaveRoot, Domains, Devices
    <2>3. QED
      BY <1>1, <2>1, <2>2, ReceiverSaves
  <1>4. /\ reading' = None /\ decoding' = 0 /\ heard' = disk.rows
        /\ lost' = lost \cup {RowObj(r) : r \in Gone}
        /\ wasted' = wasted \cup {RowObj(r) : r \in disk.hashed \ disk.made}
        /\ UNCHANGED <<sendVars, brokerVars, deliveries, torn, unkept, raced, expired,
                       spent>>
    BY DEF RestartReceiver
  <1> USE DEF sendVars, encodeVars, brokerVars, SavedByReceiver
  <1>5. /\ In' \in ReceiverContents /\ In'.made = disk.made /\ In'.hashed = disk.hashed
        /\ In'.dropped = disk.dropped /\ disk.forgotten \subseteq In'.forgotten
    BY <1>2, <1>3 DEF CleanReceiver, ReceiverContents
  <1>6. HashInv'
    BY <1>2, <1>3, <1>4, <1>5 DEF IInv, HashInv, Hashed, EncodingOf
  <1>7. ReceiverTypeOK'
    BY <1>1, <1>2, <1>3, <1>4, <1>5 DEF ReceiverTypeOK, ReceiverContents, Rows, EncodingOf,
                                        Encodings
  <1>8. SenderTypeOK' /\ NumberInv' /\ JobInv' /\ TornInv'
    BY <1>3, <1>4, SenderUntouched
  <1>9. BrokerTypeOK'
    BY <1>1, <1>4, BrokerTypeKept
  <1>10. Counts'
    <2>1. Gone \subseteq Rows /\ disk.hashed \subseteq Rows
      BY <1>1, <1>2 DEF ReceiverTypeOK, ReceiverContents
    <2>2. {RowObj(r) : r \in Gone} \subseteq Objs
          /\ {RowObj(r) : r \in disk.hashed \ disk.made} \subseteq Objs
      BY <1>1, <2>1, RowTyped
    <2>3. QED
      BY <1>1, <1>4, <2>2 DEF Counts
  <1>11. QED
    BY <1>3, <1>6, <1>7, <1>8, <1>9, <1>10, Together

-----------------------------------------------------------------------------
(* The invariant                                                           *)

LEMMA Initially == Init => IInv
  <1> SUFFICES ASSUME Init PROVE IInv
    OBVIOUS
  <1>1. /\ DOMAIN memory = Devices /\ DOMAIN file = Devices
        /\ Out = [objs |-> {}, rows |-> {}, marked |-> {}, sent |-> {}, number |-> 0]
        /\ In = [rows |-> {}, hashed |-> {}, made |-> {}, shown |-> {}, dropped |-> {},
                 forgotten |-> {}]
        /\ file[Sender] = None /\ file[Receiver] = None
    BY DEF Init, Store!Init, Fresh, Devices, Sender, Receiver, Out, In
  <1>2. Encodings = {} /\ Rows = {}
    BY DEF Init, Encodings, Rows
  <1>3. SenderTypeOK
    BY <1>1, <1>2 DEF Init, SenderTypeOK, SenderContents
  <1>4. ReceiverTypeOK
    BY <1>1, <1>2 DEF Init, ReceiverTypeOK, ReceiverContents
  <1>5. BrokerTypeOK
    BY FS_EmptySet DEF Init, BrokerTypeOK
  <1>6. NumberInv /\ JobInv /\ TornInv /\ HashInv
    BY <1>1, <1>2 DEF Init, NumberInv, JobInv, TornInv, HashInv, Hashed
  <1>7. QED
    BY <1>1, <1>3, <1>4, <1>5, <1>6, FlowAssumption DEF Init, IInv, TypeOK

LEMMA Stays == IInv /\ UNCHANGED vars => IInv'
  <1> SUFFICES ASSUME IInv, UNCHANGED vars PROVE IInv'
    OBVIOUS
  <1> USE DEF vars, storeVars, sendVars, encodeVars, brokerVars, receiveVars, history
  <1>1. NotSaved
    BY NobodySaves, TypeParts DEF IInv
  <1>2. SenderTypeOK' /\ NumberInv' /\ JobInv' /\ TornInv'
    BY <1>1, SenderUntouched DEF NotSaved
  <1>3. ReceiverTypeOK' /\ HashInv'
    BY <1>1, ReceiverUntouched DEF NotSaved
  <1>4. BrokerTypeOK' /\ Counts'
    BY BrokerTypeKept, TypeParts DEF IInv, Counts
  <1>5. QED
    BY <1>1, <1>2, <1>3, <1>4, Together DEF NotSaved

LEMMA Inductive == IInv /\ [Next]_vars => IInv'
  <1> SUFFICES ASSUME IInv, [Next]_vars PROVE IInv'
    OBVIOUS
  <1>1. CASE \E o \in Objs : Write(o) \/ Load(o)
    BY <1>1, WriteKeeps, LoadKeeps
  <1>2. CASE \E q \in Queues : Encode(q) \/ Finish(q) \/ FinishFails(q)
    BY <1>2, EncodeKeeps, FinishKeeps, FinishFailsKeeps
  <1>3. CASE \E e \in Encodings : Publish(e)
    BY <1>3, PublishKeeps
  <1>4. CASE \E c \in published : Confirm(c) \/ Receive(c)
    BY <1>4, ConfirmKeeps, ReceiveKeeps
  <1>5. CASE Ack \/ AckFails
    BY <1>5, AckKeeps, AckFailsKeeps
  <1>6. CASE \E r \in Rows : Decode(r) \/ Show(r)
    BY <1>6, DropKeeps, HashKeeps, ShowKeeps DEF Decode
  <1>7. CASE Make \/ MakeFails
    BY <1>7, MakeKeeps, MakeFailsKeeps
  <1>8. CASE \E d \in Devices : Stall(d)
    BY <1>8, StallKeeps
  <1>9. CASE RestartSender \/ RestartReceiver
    BY <1>9, RestartSenderKeeps, RestartReceiverKeeps
  <1>10. CASE UNCHANGED vars
    BY <1>10, Stays
  <1>11. QED
    BY <1>1, <1>2, <1>3, <1>4, <1>5, <1>6, <1>7, <1>8, <1>9, <1>10 DEF Next

LEMMA Invariant == Spec => []IInv
  BY Initially, Inductive, PTL DEF Spec

-----------------------------------------------------------------------------
(* Nothing is dropped between the stages, and nothing is made up: a second *)
(* invariant, which rests on the first.                                    *)

(* The row of an encoding that its object knows of is there until cleanUp  *)
(* deletes it, and only what was published is marked as sent.              *)
KeptBySender(c) ==
    /\ \A e \in c.marked : e \in c.rows \/ ObjOf(e) \in expired
    /\ \A e \in c.sent : \E d \in published : d[1] = e
SenderInv ==
    /\ KeptBySender(Out)
    /\ file[Sender] # None => KeptBySender(file[Sender])
    /\ \A q \in Queues : encoding[q] # 0 => encoding[q] \in Out.rows
    /\ Out.marked \cap Out.rows \subseteq ready

(* The sender's file has every object, so what was encoded stays written.  *)
WrittenInv ==
    /\ file[Sender] # None => file[Sender].objs = Out.objs
    /\ \A e \in Encodings : ObjOf(e) \in Out.objs

(* What the broker no longer has is in a row that the decoder was told of. *)
MailInv ==
    /\ \A c \in published \ mailbox :
          \/ \E r \in heard \cap In.rows : deliveries[r] = c
          \/ ObjOf(c[1]) \in lost
    /\ reading # None =>
          Len(deliveries) \in In.rows /\ deliveries[Len(deliveries)] = reading

(* A row is deleted as a duplicate only if its object was made, or had its *)
(* hash from an interrupted operation.                                     *)
DecidedBy(c) ==
    /\ c.shown \cup c.forgotten \subseteq c.made
    /\ \A r \in c.dropped : RowObj(r) \in {RowObj(s) : s \in c.made} \cup wasted
DecidedInv ==
    /\ DecidedBy(In)
    /\ file[Receiver] # None => DecidedBy(file[Receiver])
    /\ \A r \in In.hashed \ (In.made \cup In.dropped \cup {decoding}) : RowObj(r) \in wasted

KeptInv == SenderInv /\ WrittenInv /\ MailInv /\ DecidedInv

(* The steps of each device, and what they leave alone.                    *)
SenderStep ==
    \/ \E o \in Objs : Write(o) \/ Load(o)
    \/ \E q \in Queues : Encode(q) \/ Finish(q) \/ FinishFails(q)
    \/ \E e \in Encodings : Publish(e)
    \/ \E c \in published : Confirm(c)
    \/ RestartSender
ReceiverStep ==
    \/ \E c \in published : Receive(c)
    \/ Ack \/ AckFails
    \/ \E r \in Rows : Drop(r) \/ Hash(r) \/ Show(r)
    \/ Make \/ MakeFails
    \/ RestartReceiver

LEMMA StepsOfDevices ==
  Next <=> SenderStep \/ ReceiverStep \/ \E d \in Devices : Stall(d)
  BY DEF Next, SenderStep, ReceiverStep, Decode

LEMMA SenderStepLeaves ==
  ASSUME IInv, SenderStep
  PROVE  /\ UNCHANGED <<receiveVars, lost, wasted>> /\ In' = In
         /\ file'[Receiver] = file[Receiver]
  <1>1. Domains
    BY TypeParts DEF IInv
  <1> USE DEF sendVars, encodeVars, brokerVars, receiveVars, history
  <1>2. ASSUME NEW c, Store!Save(Sender, c) \/ Store!SaveRoot(Sender, c)
        PROVE  In' = In /\ file'[Receiver] = file[Receiver]
    BY <1>1, <1>2, SenderSaves DEF SavedBySender
  <1>3. ASSUME UNCHANGED storeVars
        PROVE  In' = In /\ file'[Receiver] = file[Receiver]
    BY <1>1, <1>3, NobodySaves DEF NotSaved
  <1>4. CASE \E o \in Objs : Write(o)
    BY <1>2, <1>4 DEF Write
  <1>5. CASE \E q \in Queues : Encode(q) \/ Finish(q)
    BY <1>2, <1>5 DEF Encode, Finish
  <1>6. CASE \E q \in Queues : FinishFails(q)
    BY <1>3, <1>6 DEF FinishFails
  <1>7. CASE \E o \in Objs : Load(o)
    BY <1>3, <1>7 DEF Load
  <1>8. CASE \E e \in Encodings : Publish(e)
    BY <1>3, <1>8 DEF Publish
  <1>9. CASE \E c \in published : Confirm(c)
    BY <1>2, <1>9 DEF Confirm
  <1>10. CASE RestartSender
    BY <1>2, <1>10 DEF RestartSender, Store!Reopen
  <1>11. QED
    BY <1>4, <1>5, <1>6, <1>7, <1>8, <1>9, <1>10 DEF SenderStep

LEMMA ReceiverStepLeaves ==
  ASSUME IInv, ReceiverStep
  PROVE  /\ UNCHANGED <<sendVars, published, expired>> /\ Out' = Out
         /\ file'[Sender] = file[Sender]
  <1>1. Domains
    BY TypeParts DEF IInv
  <1> USE DEF sendVars, encodeVars, brokerVars, receiveVars, history
  <1>2. ASSUME NEW c, Store!Save(Receiver, c) \/ Store!SaveRoot(Receiver, c)
        PROVE  Out' = Out /\ file'[Sender] = file[Sender]
    BY <1>1, <1>2, ReceiverSaves DEF SavedByReceiver
  <1>3. ASSUME UNCHANGED storeVars
        PROVE  Out' = Out /\ file'[Sender] = file[Sender]
    BY <1>1, <1>3, NobodySaves DEF NotSaved
  <1>4. CASE \E c \in published : Receive(c)
    BY <1>2, <1>4 DEF Receive
  <1>5. CASE Ack \/ AckFails
    BY <1>3, <1>5 DEF Ack, AckFails
  <1>6. CASE \E r \in Rows : Drop(r) \/ Hash(r) \/ Show(r)
    BY <1>2, <1>6 DEF Drop, Hash, Show
  <1>7. CASE Make
    BY <1>2, <1>7 DEF Make
  <1>8. CASE MakeFails
    BY <1>3, <1>8 DEF MakeFails
  <1>9. CASE RestartReceiver
    BY <1>2, <1>9 DEF RestartReceiver, Store!Reopen
  <1>10. QED
    BY <1>4, <1>5, <1>6, <1>7, <1>8, <1>9 DEF ReceiverStep

(* A main queue that stalls leaves a file that has what was saved then.    *)
LEMMA StallLeaves ==
  ASSUME IInv, NEW d \in Devices, Stall(d)
  PROVE  /\ UNCHANGED <<sendVars, brokerVars, receiveVars, history>>
         /\ Out' = Out /\ In' = In
         /\ file'[Sender] \in {file[Sender], Out} /\ file'[Receiver] \in {file[Receiver], In}
  BY TypeParts DEF Stall, Store!Stall, IInv, Domains, Devices, Sender, Receiver, Out, In

(* What an encoding is of, and a row was made from, never changes.         *)
Steady ==
    /\ \A e \in Encodings : e \in Encodings' /\ ObjOf(e)' = ObjOf(e)
    /\ \A r \in Rows : r \in Rows' /\ deliveries'[r] = deliveries[r] /\ RowObj(r)' = RowObj(r)

LEMMA Appended ==
  ASSUME NEW S, NEW s \in Seq(S), NEW x \in S
  PROVE  /\ Len(Append(s, x)) = Len(s) + 1
         /\ \A i \in 1..Len(s) : i \in 1..Len(Append(s, x)) /\ Append(s, x)[i] = s[i]
         /\ Append(s, x)[Len(s) + 1] = x
  OBVIOUS

LEMMA StepsAreSteady == ASSUME IInv, [Next]_vars PROVE Steady
  <1>1. SenderTypeOK /\ BrokerTypeOK /\ ReceiverTypeOK
    BY TypeParts DEF IInv
  <1>2. ASSUME UNCHANGED <<encodings, deliveries>> PROVE Steady
    BY <1>2 DEF Steady, Encodings, Rows, ObjOf, EncodingOf, RowObj
  <1>3. CASE \E q \in Queues : Encode(q)
    <2>1. PICK q \in Queues : Encode(q)
      BY <1>3
    <2> DEFINE new == [obj |-> job[q], number |-> ctx[q]]
               Record == [obj : Objs, number : Nat]
    <2>2. new \in Record /\ encodings \in Seq(Record)
      BY <1>1, <2>1 DEF Encode, SenderTypeOK
    <2>3. encodings' = Append(encodings, new) /\ deliveries' = deliveries
      BY <2>1 DEF Encode, receiveVars
    <2>4. \A e \in Encodings : e \in Encodings' /\ encodings'[e] = encodings[e]
      <3> HIDE DEF new, Record
      <3> QED BY <2>2, <2>3, Appended DEF Encodings
    <2>5. QED
      BY <1>1, <2>3, <2>4 DEF Steady, Encodings, Rows, ObjOf, EncodingOf, RowObj, ReceiverTypeOK
  <1>4. CASE \E c \in published : Receive(c)
    <2>1. PICK c \in published : Receive(c)
      BY <1>4
    <2>2. deliveries' = Append(deliveries, c) /\ encodings' = encodings
      BY <2>1 DEF Receive, sendVars, encodeVars
    <2>3. c \in Nat \X Nat /\ deliveries \in Seq(Nat \X Nat)
      BY <1>1 DEF BrokerTypeOK, ReceiverTypeOK, Copies, Encodings
    <2>4. \A r \in Rows : r \in Rows' /\ deliveries'[r] = deliveries[r]
      BY <2>2, <2>3, Appended DEF Rows
    <2>5. QED
      BY <2>2, <2>4 DEF Steady, Encodings, ObjOf, EncodingOf, RowObj
  <1>5. CASE ~ (\E q \in Queues : Encode(q)) /\ ~ (\E c \in published : Receive(c))
    <2> USE DEF vars, sendVars, encodeVars, receiveVars
    <2>1. CASE SenderStep
      BY <1>2, <1>5, <2>1 DEF SenderStep, Write, Load, Finish, FinishFails, Publish, Confirm,
                              RestartSender
    <2>2. CASE ReceiverStep
      BY <1>2, <1>5, <2>2 DEF ReceiverStep, Ack, AckFails, Drop, Hash, Show, Make, MakeFails,
                              RestartReceiver
    <2>3. CASE \E d \in Devices : Stall(d)
      BY <1>2, <2>3, StallLeaves
    <2>4. CASE UNCHANGED vars
      BY <1>2, <2>4
    <2>5. QED
      BY <2>1, <2>2, <2>3, <2>4, StepsOfDevices
  <1>6. QED
    BY <1>3, <1>4, <1>5

(* What a store has of encodings and rows is among those there are.        *)
LEMMA SenderContentsTyped ==
  ASSUME NEW c \in SenderContents
  PROVE  c.rows \subseteq Encodings /\ c.marked \subseteq Encodings /\ c.sent \subseteq Encodings
  BY DEF SenderContents

LEMMA ReceiverContentsTyped ==
  ASSUME NEW c \in ReceiverContents
  PROVE  /\ c.rows \subseteq Rows /\ c.hashed \subseteq Rows /\ c.made \subseteq Rows
         /\ c.shown \subseteq Rows /\ c.dropped \subseteq Rows /\ c.forgotten \subseteq Rows
  BY DEF ReceiverContents

(* Contents that stay are still kept by later history.                     *)
LEMMA KeptLater ==
  ASSUME Steady, NEW c \in SenderContents, KeptBySender(c),
         published \subseteq published', expired \subseteq expired'
  PROVE  KeptBySender(c)'
  BY SenderContentsTyped DEF KeptBySender, Steady

LEMMA DecidedLater ==
  ASSUME Steady, NEW c \in ReceiverContents, DecidedBy(c), wasted \subseteq wasted'
  PROVE  DecidedBy(c)'
  BY ReceiverContentsTyped DEF DecidedBy, Steady

(* The sender's stores, as they are left by a step that does not save.     *)
LEMMA SenderInvLater ==
  ASSUME IInv, SenderInv, Steady, UNCHANGED <<encoding, ready>>, Out' = Out,
         file'[Sender] \in {file[Sender], None, Out},
         published \subseteq published', expired \subseteq expired'
  PROVE  SenderInv'
  <1>1. Out \in SenderContents /\ (file[Sender] # None => file[Sender] \in SenderContents)
    BY DEF IInv, TypeOK, SenderTypeOK
  <1>2. KeptBySender(Out)'
    BY <1>1, KeptLater DEF SenderInv, KeptBySender
  <1>3. file'[Sender] # None => KeptBySender(file[Sender])'
    BY <1>1, <1>2, KeptLater DEF SenderInv, KeptBySender
  <1>4. QED
    BY <1>2, <1>3 DEF SenderInv

LEMMA SenderInvKept ==
  ASSUME IInv, IInv', SenderInv, [Next]_vars PROVE SenderInv'
  <1> DEFINE disk == file[Sender]
  <1>1. Domains /\ SenderTypeOK /\ BrokerTypeOK
    BY TypeParts DEF IInv
  <1>2. Steady
    BY StepsAreSteady
  <1>3. Out \in SenderContents /\ (disk # None => disk \in SenderContents)
    BY <1>1 DEF SenderTypeOK
  <1>4. Out.rows \subseteq Encodings /\ Out.marked \subseteq Encodings /\ Out.sent \subseteq Encodings
    BY <1>3, SenderContentsTyped
  <1> USE DEF encodeVars, brokerVars, history
  <1>5. ASSUME SavedBySender, UNCHANGED <<published, expired>>, KeptBySender(Out)',
               \A q \in Queues : encoding'[q] # 0 => encoding'[q] \in Out'.rows,
               Out'.marked \cap Out'.rows \subseteq ready'
        PROVE  SenderInv'
    <2>1. file'[Sender] # None => KeptBySender(file[Sender])'
      BY <1>2, <1>3, <1>5, KeptLater DEF SenderInv, SavedBySender, KeptBySender
    <2>2. QED
      BY <1>5, <2>1 DEF SenderInv
  <1>6. ASSUME NEW o \in Objs, Write(o) PROVE SenderInv'
    <2>1. SavedBySender /\ Out' = [Out EXCEPT !.objs = @ \cup {o}]
      BY <1>1, <1>6, SenderSaves DEF Write
    <2>2. Out'.rows = Out.rows /\ Out'.marked = Out.marked /\ Out'.sent = Out.sent
      BY <1>3, <2>1 DEF SenderContents
    <2>3. UNCHANGED <<encodings, encoding, ready, published, expired>>
      BY <1>6 DEF Write, sendVars
    <2>4. QED
      BY <1>5, <2>1, <2>2, <2>3 DEF SenderInv, KeptBySender, ObjOf
  <1>7. ASSUME NEW q \in Queues, Encode(q) PROVE SenderInv'
    <2> DEFINE n == Len(encodings)
    <2>1. SavedBySender /\ Out' = [Out EXCEPT !.rows = @ \cup {n + 1}, !.number = ctx[q] + 1]
      BY <1>1, <1>7, SenderSaves DEF Encode
    <2>2. Out'.rows = Out.rows \cup {n + 1} /\ Out'.marked = Out.marked /\ Out'.sent = Out.sent
      BY <1>3, <2>1 DEF SenderContents
    <2>3. /\ encoding' = [encoding EXCEPT ![q] = n + 1]
          /\ UNCHANGED <<ready, published, expired>>
      BY <1>7 DEF Encode
    <2>4. n + 1 \notin Encodings
      BY <1>1 DEF Encodings, SenderTypeOK
    <2>5. KeptBySender(Out)'
      BY <1>2, <1>4, <2>2, <2>3 DEF SenderInv, KeptBySender, Steady
    <2>6. \A p \in Queues : encoding'[p] = n + 1 \/ encoding'[p] = encoding[p]
      BY <1>1, <2>3 DEF SenderTypeOK
    <2>7. \A p \in Queues : encoding'[p] # 0 => encoding'[p] \in Out'.rows
      BY <2>2, <2>6 DEF SenderInv
    <2>8. Out'.marked \cap Out'.rows \subseteq ready'
      BY <1>4, <2>2, <2>3, <2>4 DEF SenderInv
    <2>9. QED
      BY <1>5, <2>1, <2>3, <2>5, <2>7, <2>8
  <1>8. ASSUME NEW q \in Queues, Finish(q) PROVE SenderInv'
    <2>1. SavedBySender /\ Out' = [Out EXCEPT !.marked = @ \cup {encoding[q]}]
      BY <1>1, <1>8, SenderSaves DEF Finish
    <2>2. /\ Out'.rows = Out.rows /\ Out'.marked = Out.marked \cup {encoding[q]}
          /\ Out'.sent = Out.sent
      BY <1>3, <2>1 DEF SenderContents
    <2>3. /\ encoding[q] # 0 /\ ready' = ready \cup {encoding[q]}
          /\ UNCHANGED <<encodings, published, expired>>
      BY <1>8 DEF Finish
    <2>4. \A p \in Queues : encoding'[p] # 0 => encoding'[p] = encoding[p]
      BY <1>1, <1>8 DEF Finish, EndOperation, SenderTypeOK
    <2>5. QED
      BY <1>5, <2>1, <2>2, <2>3, <2>4 DEF SenderInv, KeptBySender, ObjOf
  <1>9. ASSUME NEW q \in Queues, FinishFails(q) PROVE SenderInv'
    <2>1. NotSaved
      BY <1>1, <1>9, NobodySaves DEF FinishFails
    <2>2. UNCHANGED <<ready, published, expired>>
      BY <1>9 DEF FinishFails
    <2>3. \A p \in Queues : encoding'[p] # 0 => encoding'[p] = encoding[p]
      BY <1>1, <1>9 DEF FinishFails, EndOperation, SenderTypeOK
    <2>4. KeptBySender(Out)'
      BY <1>2, <1>4, <2>1, <2>2 DEF SenderInv, KeptBySender, Steady, NotSaved
    <2>5. QED
      BY <1>5, <2>1, <2>2, <2>3, <2>4 DEF SenderInv, NotSaved, SavedBySender
  <1>10. CASE \E e \in Encodings : Publish(e)
    <2>1. NotSaved
      BY <1>1, <1>10, NobodySaves DEF Publish
    <2>2. published \subseteq published' /\ UNCHANGED <<encoding, ready, expired>>
      BY <1>10 DEF Publish
    <2>3. QED
      BY <1>2, <2>1, <2>2, SenderInvLater DEF NotSaved
  <1>11. ASSUME NEW c \in published, Confirm(c) PROVE SenderInv'
    <2>1. SavedBySender /\ Out' = [Out EXCEPT !.sent = @ \cup {c[1]}]
      BY <1>1, <1>11, SenderSaves DEF Confirm
    <2>2. Out'.rows = Out.rows /\ Out'.marked = Out.marked /\ Out'.sent = Out.sent \cup {c[1]}
      BY <1>3, <2>1 DEF SenderContents
    <2>3. UNCHANGED <<encodings, encoding, ready, published, expired>>
      BY <1>11 DEF Confirm
    <2>4. QED
      BY <1>5, <2>1, <2>2, <2>3 DEF SenderInv, KeptBySender, ObjOf
  <1>12. CASE RestartSender
    <2>1. PICK old \in SUBSET {ObjOf(e) : e \in disk.marked \ disk.sent} :
            /\ Store!Reopen(Sender, CleanSender(disk, old))
            /\ expired' = expired \cup old
      BY <1>12 DEF RestartSender
    <2>2. disk # None
      BY <1>12 DEF RestartSender, Store!MayEnd
    <2>3. SavedBySender /\ Out' = CleanSender(disk, old)
      BY <1>1, <2>1, SenderSaves DEF Store!Reopen
    <2>4. /\ Out'.rows = {e \in disk.rows : e \in disk.marked => ObjOf(e) \notin old}
          /\ Out'.marked = disk.marked /\ Out'.sent = disk.sent
      BY <1>3, <2>2, <2>3 DEF CleanSender, SenderContents
    <2>5. /\ encoding' = [q \in Queues |-> 0] /\ ready' = disk.rows
          /\ UNCHANGED <<encodings, published>>
      BY <1>12 DEF RestartSender
    <2>6. KeptBySender(Out)'
      BY <2>1, <2>2, <2>4, <2>5 DEF SenderInv, KeptBySender, ObjOf
    <2>7. file'[Sender] = None
      BY <1>1, <2>1 DEF Store!Reopen, Store!SaveRoot, Domains, Devices
    <2>8. QED
      BY <2>4, <2>5, <2>6, <2>7 DEF SenderInv
  <1>13. CASE ReceiverStep
    BY <1>2, <1>13, ReceiverStepLeaves, SenderInvLater DEF sendVars
  <1>14. CASE \E d \in Devices : Stall(d)
    BY <1>2, <1>14, StallLeaves, SenderInvLater DEF sendVars
  <1>15. CASE UNCHANGED vars
    BY <1>1, <1>2, <1>15, NobodySaves, SenderInvLater DEF vars, sendVars, NotSaved
  <1>16. CASE \E o \in Objs : Load(o)
    <2>1. NotSaved /\ UNCHANGED <<encoding, ready, published, expired>>
      BY <1>1, <1>16, NobodySaves DEF Load
    <2>2. QED
      BY <1>2, <2>1, SenderInvLater DEF NotSaved
  <1>17. QED
    BY <1>6, <1>7, <1>8, <1>9, <1>10, <1>11, <1>12, <1>13, <1>14, <1>15, <1>16, StepsOfDevices
       DEF SenderStep

LEMMA WrittenInvKept ==
  ASSUME IInv, WrittenInv, [Next]_vars PROVE WrittenInv'
  <1>1. Domains /\ SenderTypeOK
    BY TypeParts DEF IInv
  <1>2. Steady
    BY StepsAreSteady
  <1>3. Out \in SenderContents /\ (file[Sender] # None => file[Sender] \in SenderContents)
    BY <1>1 DEF SenderTypeOK
  (* Objects are neither written nor encoded.                              *)
  <1>4. ASSUME UNCHANGED encodings, Out'.objs = Out.objs, file'[Sender] \in {file[Sender], None, Out}
        PROVE  WrittenInv'
    BY <1>4 DEF WrittenInv, Encodings, ObjOf
  <1>5. ASSUME NEW o \in Objs, Write(o) PROVE WrittenInv'
    <2>1. Out' = [Out EXCEPT !.objs = @ \cup {o}] /\ file'[Sender] = None
      BY <1>1, <1>5, SenderSaves DEF Write, Store!SaveRoot, Domains, Devices
    <2>2. Out'.objs = Out.objs \cup {o} /\ encodings' = encodings
      BY <1>3, <1>5, <2>1 DEF SenderContents, Write, sendVars, encodeVars
    <2>3. QED
      BY <2>1, <2>2 DEF WrittenInv, Encodings, ObjOf
  <1>6. ASSUME NEW q \in Queues, Encode(q) PROVE WrittenInv'
    <2> DEFINE n == Len(encodings)
               new == [obj |-> job[q], number |-> ctx[q]]
               Record == [obj : Objs, number : Nat]
    <2>1. SavedBySender /\ Out' = [Out EXCEPT !.rows = @ \cup {n + 1}, !.number = ctx[q] + 1]
      BY <1>1, <1>6, SenderSaves DEF Encode
    <2>2. Out'.objs = Out.objs
      BY <1>3, <2>1 DEF SenderContents
    <2>3. job[q] # None /\ job[q] \in Out.objs /\ encodings' = Append(encodings, new)
      BY <1>6 DEF Encode, IInv, JobInv
    <2>4. new \in Record /\ encodings \in Seq(Record)
      BY <1>1, <2>3 DEF SenderTypeOK
    <2>5. Encodings' = Encodings \cup {n + 1} /\ encodings'[n + 1] = new
      <3> HIDE DEF new, Record
      <3> QED BY <2>3, <2>4 DEF Encodings
    <2>6. \A e \in Encodings' : ObjOf(e)' \in Out.objs
      <3>1. \A e \in Encodings : ObjOf(e)' \in Out.objs
        BY <1>2 DEF WrittenInv, Steady
      <3>2. encodings'[n + 1].obj \in Out.objs
        BY <2>3, <2>5
      <3>3. QED
        BY <2>5, <3>1, <3>2 DEF ObjOf
    <2>7. QED
      BY <2>1, <2>2, <2>6 DEF WrittenInv, SavedBySender
  <1>7. ASSUME NEW q \in Queues, Finish(q) PROVE WrittenInv'
    <2>1. SavedBySender /\ Out' = [Out EXCEPT !.marked = @ \cup {encoding[q]}]
      BY <1>1, <1>7, SenderSaves DEF Finish
    <2>2. QED
      BY <1>3, <1>4, <1>7, <2>1 DEF SenderContents, SavedBySender, Finish
  <1>8. CASE \/ \E o \in Objs : Load(o)
             \/ \E q \in Queues : FinishFails(q)
             \/ \E e \in Encodings : Publish(e)
    BY <1>1, <1>4, <1>8, NobodySaves DEF Load, FinishFails, Publish, encodeVars, NotSaved
  <1>9. ASSUME NEW c \in published, Confirm(c) PROVE WrittenInv'
    <2>1. SavedBySender /\ Out' = [Out EXCEPT !.sent = @ \cup {c[1]}]
      BY <1>1, <1>9, SenderSaves DEF Confirm
    <2>2. QED
      BY <1>3, <1>4, <1>9, <2>1 DEF SenderContents, SavedBySender, Confirm, encodeVars
  <1>10. CASE RestartSender
    <2> DEFINE disk == file[Sender]
    <2>1. PICK old : Store!Reopen(Sender, CleanSender(disk, old))
      BY <1>10 DEF RestartSender
    <2>2. disk # None /\ encodings' = encodings
      BY <1>10 DEF RestartSender, Store!MayEnd
    <2>3. Out' = CleanSender(disk, old) /\ file'[Sender] = None
      BY <1>1, <2>1, SenderSaves DEF Store!Reopen, Store!SaveRoot, Domains, Devices
    <2>4. Out'.objs = disk.objs
      BY <1>3, <2>2, <2>3 DEF CleanSender, SenderContents
    <2>5. QED
      BY <1>4, <2>2, <2>3, <2>4 DEF WrittenInv
  <1>11. CASE ReceiverStep
    BY <1>4, <1>11, ReceiverStepLeaves DEF sendVars, encodeVars
  <1>12. CASE \E d \in Devices : Stall(d)
    BY <1>4, <1>12, StallLeaves DEF sendVars, encodeVars
  <1>13. CASE UNCHANGED vars
    BY <1>1, <1>4, <1>13, NobodySaves DEF vars, sendVars, encodeVars, NotSaved
  <1>14. QED
    BY <1>5, <1>6, <1>7, <1>8, <1>9, <1>10, <1>11, <1>12, <1>13, StepsOfDevices DEF SenderStep

(* A step by which the broker drops no copy and the receiver no row.       *)
LEMMA MailLater ==
  ASSUME IInv, MailInv, Steady, published' \ mailbox' \subseteq published \ mailbox,
         In.rows \subseteq In'.rows, heard \subseteq heard', lost \subseteq lost',
         UNCHANGED <<deliveries, reading>>
  PROVE  MailInv'
  <1>1. \A c \in published : c[1] \in Encodings
    BY DEF IInv, TypeOK, BrokerTypeOK, Copies
  <1>2. QED
    BY <1>1 DEF MailInv, Steady

LEMMA MailInvKept ==
  ASSUME IInv, MailInv, [Next]_vars PROVE MailInv'
  <1>1. Domains /\ BrokerTypeOK /\ ReceiverTypeOK
    BY TypeParts DEF IInv
  <1>2. Steady
    BY StepsAreSteady
  <1>3. In \in ReceiverContents /\ In.rows \subseteq Rows /\ heard \subseteq Rows
    BY <1>1, ReceiverContentsTyped DEF ReceiverTypeOK
  <1>4. \A c \in published : c[1] \in Encodings
    BY <1>1 DEF BrokerTypeOK, Copies
  <1> USE DEF brokerVars, receiveVars, history
  <1>5. CASE SenderStep
    <2>1. published' \ mailbox' \subseteq published \ mailbox
      BY <1>5 DEF SenderStep, Write, Load, Encode, Finish, FinishFails, Publish, Confirm,
                      RestartSender
    <2>2. QED
      BY <1>2, <1>5, <2>1, SenderStepLeaves, MailLater
  <1>6. ASSUME NEW c \in published, Receive(c) PROVE MailInv'
    <2> DEFINE n == Len(deliveries)
    <2>1. SavedByReceiver /\ In' = [In EXCEPT !.rows = @ \cup {n + 1}]
      BY <1>1, <1>6, ReceiverSaves DEF Receive
    <2>2. In'.rows = In.rows \cup {n + 1}
      BY <1>3, <2>1 DEF ReceiverContents
    <2>3. /\ deliveries' = Append(deliveries, c) /\ reading' = c
          /\ UNCHANGED <<published, mailbox, heard, lost>>
      BY <1>6 DEF Receive
    <2>4. c \in Nat \X Nat /\ deliveries \in Seq(Nat \X Nat)
      BY <1>1 DEF BrokerTypeOK, ReceiverTypeOK, Copies, Encodings
    <2>5. Len(deliveries') = n + 1 /\ deliveries'[n + 1] = c
      BY <2>3, <2>4, Appended
    <2>6. reading' # None =>
            Len(deliveries') \in In'.rows /\ deliveries'[Len(deliveries')] = reading'
      BY <2>2, <2>3, <2>5
    <2>7. \A d \in published' \ mailbox' :
            \/ \E r \in heard' \cap In'.rows : deliveries'[r] = d
            \/ ObjOf(d[1])' \in lost'
      BY <1>2, <1>3, <1>4, <2>2, <2>3 DEF MailInv, Steady
    <2>8. QED
      BY <2>6, <2>7 DEF MailInv
  <1>7. CASE Ack
    <2>1. NotSaved
      BY <1>1, <1>7, NobodySaves DEF Ack
    <2>2. /\ reading # None /\ reading' = None
          /\ mailbox' = mailbox \ {reading} /\ heard' = heard \cup {Len(deliveries)}
          /\ UNCHANGED <<published, deliveries, lost>>
      BY <1>7 DEF Ack
    <2>3. \A c \in published' \ mailbox' :
            \/ \E r \in heard' \cap In'.rows : deliveries'[r] = c
            \/ ObjOf(c[1])' \in lost'
      BY <1>2, <1>4, <2>1, <2>2 DEF MailInv, Steady, NotSaved
    <2>4. QED
      BY <2>2, <2>3 DEF MailInv
  <1>8. CASE AckFails
    <2>1. NotSaved
      BY <1>1, <1>8, NobodySaves DEF AckFails
    <2>2. reading' = None /\ UNCHANGED <<published, mailbox, deliveries, heard, lost>>
      BY <1>8 DEF AckFails
    <2>3. QED
      BY <1>2, <1>4, <2>1, <2>2 DEF MailInv, Steady, NotSaved
  <1>9. ASSUME NEW r \in Rows, Drop(r) \/ Hash(r) \/ Show(r) PROVE MailInv'
    <2>1. PICK c : /\ Store!Save(Receiver, c) /\ c.rows = In.rows
                   /\ UNCHANGED <<brokerVars, deliveries, reading, heard, lost>>
      BY <1>3, <1>9 DEF Drop, Hash, Show, ReceiverContents
    <2>2. In'.rows = In.rows
      BY <1>1, <2>1, ReceiverSaves
    <2>3. QED
      BY <1>2, <2>1, <2>2, MailLater
  <1>10. CASE Make
    <2>1. PICK c : /\ Store!Save(Receiver, c) /\ c.rows = In.rows
                   /\ UNCHANGED <<brokerVars, deliveries, reading, heard, lost>>
      BY <1>3, <1>10 DEF Make, ReceiverContents
    <2>2. In'.rows = In.rows
      BY <1>1, <2>1, ReceiverSaves
    <2>3. QED
      BY <1>2, <2>1, <2>2, MailLater
  <1>11. CASE MakeFails
    <2>1. NotSaved /\ UNCHANGED <<brokerVars, deliveries, reading, heard, lost>>
      BY <1>1, <1>11, NobodySaves DEF MakeFails
    <2>2. QED
      BY <1>2, <2>1, MailLater DEF NotSaved
  <1>12. CASE RestartReceiver
    <2> DEFINE disk == file[Receiver]
    <2>1. disk # None /\ disk \in ReceiverContents
      BY <1>1, <1>12 DEF RestartReceiver, Store!MayEnd, ReceiverTypeOK
    <2>2. In' = CleanReceiver(disk)
      BY <1>1, <1>12, ReceiverSaves DEF RestartReceiver, Store!Reopen
    <2>3. In'.rows = disk.rows
      BY <2>1, <2>2 DEF CleanReceiver, ReceiverContents
    <2>4. /\ reading' = None /\ heard' = disk.rows
          /\ lost' = lost \cup {RowObj(r) : r \in {s \in In.rows \ disk.rows :
                                                      deliveries[s] \notin mailbox}}
          /\ UNCHANGED <<encodings, deliveries, brokerVars>>
      BY <1>12 DEF RestartReceiver, sendVars, encodeVars
    <2>5. ASSUME NEW c \in published \ mailbox
          PROVE  \/ \E r \in heard' \cap In'.rows : deliveries'[r] = c
                 \/ ObjOf(c[1])' \in lost'
      <3>1. CASE \E r \in heard \cap In.rows : deliveries[r] = c
        <4>1. PICK r \in heard \cap In.rows : deliveries[r] = c
          BY <3>1
        <4>2. CASE r \in disk.rows
          BY <2>3, <2>4, <4>1, <4>2
        <4>3. CASE r \notin disk.rows
          <5>1. RowObj(r) \in lost'
            BY <2>4, <2>5, <4>1, <4>3
          <5>2. ObjOf(c[1])' = RowObj(r)
            BY <1>2, <1>4, <2>5, <4>1 DEF RowObj, EncodingOf, Steady
          <5>3. QED
            BY <5>1, <5>2
        <4>4. QED
          BY <4>2, <4>3
      <3>2. CASE ObjOf(c[1]) \in lost
        BY <1>2, <1>4, <2>4, <3>2 DEF Steady
      <3>3. QED
        BY <3>1, <3>2 DEF MailInv
    <2>6. QED
      BY <2>4, <2>5 DEF MailInv
  <1>13. CASE \E d \in Devices : Stall(d)
    BY <1>2, <1>13, StallLeaves, MailLater
  <1>14. CASE UNCHANGED vars
    BY <1>1, <1>2, <1>14, NobodySaves, MailLater DEF vars, NotSaved
  <1>15. QED
    BY <1>5, <1>6, <1>7, <1>8, <1>9, <1>10, <1>11, <1>12, <1>13, <1>14, StepsOfDevices
       DEF ReceiverStep

(* A step after which the receiver's store has decided what it had.        *)
LEMMA DecidedInvLater ==
  ASSUME IInv, DecidedInv, Steady, wasted \subseteq wasted',
         file'[Receiver] \in {file[Receiver], None}, DecidedBy(In)',
         \A r \in In'.hashed \ (In'.made \cup In'.dropped \cup {decoding'}) : RowObj(r)' \in wasted'
  PROVE  DecidedInv'
  <1>1. file'[Receiver] # None => DecidedBy(file[Receiver])'
    BY DecidedLater DEF IInv, TypeOK, ReceiverTypeOK, DecidedInv, DecidedBy
  <1>2. QED
    BY <1>1 DEF DecidedInv

(* One that leaves the receiver's store alone.                             *)
LEMMA DecidedInvStays ==
  ASSUME IInv, DecidedInv, Steady, UNCHANGED <<wasted, decoding>>, In' = In,
         file'[Receiver] \in {file[Receiver], None, In}
  PROVE  DecidedInv'
  <1>1. In \in ReceiverContents /\ In.hashed \subseteq Rows
    BY ReceiverContentsTyped DEF IInv, TypeOK, ReceiverTypeOK
  <1>2. DecidedBy(In)'
    BY <1>1, DecidedLater DEF DecidedInv, DecidedBy
  <1>3. file'[Receiver] # None => DecidedBy(file[Receiver])'
    BY <1>1, <1>2, DecidedLater DEF IInv, TypeOK, ReceiverTypeOK, DecidedInv, DecidedBy
  <1>4. QED
    BY <1>1, <1>2, <1>3 DEF DecidedInv, Steady

LEMMA DecidedInvKept ==
  ASSUME IInv, DecidedInv, [Next]_vars PROVE DecidedInv'
  <1>1. Domains /\ ReceiverTypeOK
    BY TypeParts DEF IInv
  <1>2. Steady
    BY StepsAreSteady
  <1>3. /\ In \in ReceiverContents /\ In.hashed \subseteq Rows /\ In.made \subseteq Rows
        /\ In.dropped \subseteq Rows /\ decoding \in Rows \cup {0}
    BY <1>1, ReceiverContentsTyped DEF ReceiverTypeOK
  <1> USE DEF brokerVars, receiveVars, history
  <1>4. CASE SenderStep
    BY <1>2, <1>4, SenderStepLeaves, DecidedInvStays
  <1>5. ASSUME NEW c \in published, Receive(c) PROVE DecidedInv'
    <2>1. /\ SavedByReceiver /\ In' = [In EXCEPT !.rows = @ \cup {Len(deliveries) + 1}]
          /\ UNCHANGED <<decoding, wasted>>
      BY <1>1, <1>5, ReceiverSaves DEF Receive
    <2>2. /\ In'.hashed = In.hashed /\ In'.made = In.made /\ In'.dropped = In.dropped
          /\ In'.shown = In.shown /\ In'.forgotten = In.forgotten
      BY <1>3, <2>1 DEF ReceiverContents
    <2>3. DecidedBy(In)'
      BY <1>2, <1>3, <2>1, <2>2 DEF DecidedInv, DecidedBy, Steady
    <2>4. QED
      BY <1>2, <1>3, <2>1, <2>2, <2>3, DecidedInvLater DEF DecidedInv, SavedByReceiver, Steady
  <1>6. CASE Ack \/ AckFails
    BY <1>1, <1>2, <1>6, NobodySaves, DecidedInvStays DEF Ack, AckFails, NotSaved
  <1>7. ASSUME NEW r \in Rows, Drop(r) PROVE DecidedInv'
    <2>1. /\ SavedByReceiver /\ In' = [In EXCEPT !.dropped = @ \cup {r}]
          /\ UNCHANGED <<decoding, wasted>> /\ decoding = 0
      BY <1>1, <1>7, ReceiverSaves DEF Drop
    <2>2. /\ In'.hashed = In.hashed /\ In'.made = In.made /\ In'.dropped = In.dropped \cup {r}
          /\ In'.shown = In.shown /\ In'.forgotten = In.forgotten
      BY <1>3, <2>1 DEF ReceiverContents
    (* The row with the same hash was made, or its operation interrupted.  *)
    <2>3. PICK s \in In.hashed \ (In.dropped \cup In.forgotten) : RowObj(s) = RowObj(r)
      BY <1>7 DEF Drop, Known, RowObj
    <2>4. s \in In.made \/ RowObj(s) \in wasted
      BY <1>3, <2>1, <2>3 DEF DecidedInv, Rows
    <2>5. RowObj(r) \in {RowObj(t) : t \in In.made} \cup wasted
      BY <2>3, <2>4
    <2>6. DecidedBy(In)'
      BY <1>2, <1>3, <2>1, <2>2, <2>5 DEF DecidedInv, DecidedBy, Steady
    <2>7. QED
      BY <1>2, <1>3, <2>1, <2>2, <2>6, DecidedInvLater DEF DecidedInv, SavedByReceiver, Steady
  <1>8. ASSUME NEW r \in Rows, Hash(r) PROVE DecidedInv'
    <2>1. /\ SavedByReceiver /\ In' = [In EXCEPT !.hashed = @ \cup {r}]
          /\ decoding = 0 /\ decoding' = r /\ wasted' = wasted
      BY <1>1, <1>8, ReceiverSaves DEF Hash
    <2>2. /\ In'.hashed = In.hashed \cup {r} /\ In'.made = In.made /\ In'.dropped = In.dropped
          /\ In'.shown = In.shown /\ In'.forgotten = In.forgotten
      BY <1>3, <2>1 DEF ReceiverContents
    <2>3. DecidedBy(In)'
      BY <1>2, <1>3, <2>1, <2>2 DEF DecidedInv, DecidedBy, Steady
    <2>4. QED
      BY <1>2, <1>3, <2>1, <2>2, <2>3, DecidedInvLater
         DEF DecidedInv, SavedByReceiver, Steady, Rows
  <1>9. CASE Make
    <2>1. /\ SavedByReceiver /\ In' = [In EXCEPT !.made = @ \cup {decoding}]
          /\ decoding # 0 /\ decoding' = 0 /\ wasted' = wasted
      BY <1>1, <1>9, ReceiverSaves DEF Make
    <2>2. /\ In'.hashed = In.hashed /\ In'.made = In.made \cup {decoding}
          /\ In'.dropped = In.dropped /\ In'.shown = In.shown /\ In'.forgotten = In.forgotten
      BY <1>3, <2>1 DEF ReceiverContents
    <2>3. DecidedBy(In)'
      BY <1>2, <1>3, <2>1, <2>2 DEF DecidedInv, DecidedBy, Steady
    <2>4. QED
      BY <1>2, <1>3, <2>1, <2>2, <2>3, DecidedInvLater DEF DecidedInv, SavedByReceiver, Steady
  <1>10. CASE MakeFails
    <2>1. /\ NotSaved /\ decoding' = 0 /\ decoding # 0
          /\ wasted' = wasted \cup {RowObj(decoding)}
      BY <1>1, <1>10, NobodySaves DEF MakeFails
    <2>2. DecidedBy(In)'
      BY <1>2, <1>3, <2>1 DEF DecidedInv, DecidedBy, Steady, NotSaved
    <2>3. QED
      BY <1>2, <1>3, <2>1, <2>2, DecidedInvLater DEF DecidedInv, NotSaved, Steady
  <1>11. ASSUME NEW r \in Rows, Show(r) PROVE DecidedInv'
    <2>1. /\ SavedByReceiver /\ In' = [In EXCEPT !.shown = @ \cup {r}]
          /\ r \in In.made /\ UNCHANGED <<decoding, wasted>>
      BY <1>1, <1>11, ReceiverSaves DEF Show
    <2>2. /\ In'.hashed = In.hashed /\ In'.made = In.made /\ In'.dropped = In.dropped
          /\ In'.shown = In.shown \cup {r} /\ In'.forgotten = In.forgotten
      BY <1>3, <2>1 DEF ReceiverContents
    <2>3. DecidedBy(In)'
      BY <1>2, <1>3, <2>1, <2>2 DEF DecidedInv, DecidedBy, Steady
    <2>4. QED
      BY <1>2, <1>3, <2>1, <2>2, <2>3, DecidedInvLater DEF DecidedInv, SavedByReceiver, Steady
  <1>12. CASE RestartReceiver
    <2> DEFINE disk == file[Receiver]
    <2>1. disk # None /\ disk \in ReceiverContents
      BY <1>1, <1>12 DEF RestartReceiver, Store!MayEnd, ReceiverTypeOK
    <2>2. In' = CleanReceiver(disk) /\ file'[Receiver] = None
      BY <1>1, <1>12, ReceiverSaves
         DEF RestartReceiver, Store!Reopen, Store!SaveRoot, Domains, Devices
    <2>3. /\ In'.hashed = disk.hashed /\ In'.made = disk.made /\ In'.dropped = disk.dropped
          /\ In'.shown = disk.shown /\ In'.forgotten = disk.forgotten \cup disk.shown
      BY <2>1, <2>2 DEF CleanReceiver, ReceiverContents
    <2>4. /\ disk.hashed \subseteq Rows /\ disk.made \subseteq Rows /\ disk.dropped \subseteq Rows
      BY <2>1, ReceiverContentsTyped
    <2>5. wasted' = wasted \cup {RowObj(r) : r \in disk.hashed \ disk.made}
      BY <1>12 DEF RestartReceiver
    <2>6. DecidedBy(In)'
      BY <1>2, <2>1, <2>3, <2>4, <2>5 DEF DecidedInv, DecidedBy, Steady
    <2>7. \A r \in In'.hashed \ In'.made : RowObj(r)' \in wasted'
      BY <1>2, <2>3, <2>4, <2>5 DEF Steady
    <2>8. QED
      BY <2>2, <2>6, <2>7 DEF DecidedInv
  <1>13. CASE \E d \in Devices : Stall(d)
    BY <1>2, <1>13, StallLeaves, DecidedInvStays
  <1>14. CASE UNCHANGED vars
    BY <1>1, <1>2, <1>14, NobodySaves, DecidedInvStays DEF vars, NotSaved
  <1>15. QED
    BY <1>4, <1>5, <1>6, <1>7, <1>8, <1>9, <1>10, <1>11, <1>12, <1>13, <1>14, StepsOfDevices
       DEF ReceiverStep

LEMMA KeptInitially == Init => KeptInv
  <1> SUFFICES ASSUME Init PROVE KeptInv
    OBVIOUS
  <1>1. /\ Out = [objs |-> {}, rows |-> {}, marked |-> {}, sent |-> {}, number |-> 0]
        /\ In = [rows |-> {}, hashed |-> {}, made |-> {}, shown |-> {}, dropped |-> {},
                 forgotten |-> {}]
        /\ file[Sender] = None /\ file[Receiver] = None
    BY DEF Init, Store!Init, Fresh, Devices, Sender, Receiver, Out, In
  <1>2. Encodings = {} /\ published = {} /\ reading = None /\ encoding = [q \in Queues |-> 0]
    BY DEF Init, Encodings
  <1>3. QED
    BY <1>1, <1>2 DEF KeptInv, SenderInv, KeptBySender, WrittenInv, MailInv, DecidedInv, DecidedBy

LEMMA KeptInvariant == Spec => [](IInv /\ KeptInv)
  <1>1. IInv /\ KeptInv /\ [Next]_vars => (IInv /\ KeptInv)'
    BY Inductive, SenderInvKept, WrittenInvKept, MailInvKept, DecidedInvKept DEF KeptInv
  <1>2. QED
    BY <1>1, Initially, KeptInitially, PTL DEF Spec

-----------------------------------------------------------------------------
(* The path is a Courier                                                   *)

(* What the receiver shows and has forgotten is in its file as it was when *)
(* the main queue stalled.                                                 *)
ScreenInv ==
    file[Receiver] # None =>
        /\ file[Receiver].forgotten = In.forgotten
        /\ file[Receiver].shown \subseteq In.shown

(* Nothing is written, shown or excused.                                   *)
Unnoticed ==
    /\ Out'.objs = Out.objs /\ In'.shown = In.shown /\ In'.forgotten = In.forgotten
    /\ UNCHANGED <<torn, lost, wasted, expired>>

(* The steps of the receiver that the user does not notice.                *)
LEMMA ReceiverUnnoticed ==
  ASSUME IInv,
         \/ \E c \in published : Receive(c)
         \/ Ack \/ AckFails \/ Make
         \/ \E r \in Rows : Drop(r) \/ Hash(r)
  PROVE  Unnoticed /\ file'[Receiver] \in {file[Receiver], None}
  <1>1. Domains /\ In \in ReceiverContents
    BY TypeParts DEF IInv, TypeOK, ReceiverTypeOK
  <1>2. ASSUME NEW c, Store!Save(Receiver, c), UNCHANGED history,
               c.shown = In.shown, c.forgotten = In.forgotten
        PROVE  Unnoticed /\ file'[Receiver] \in {file[Receiver], None}
    BY <1>1, <1>2, ReceiverSaves DEF SavedByReceiver, Unnoticed, history
  <1>3. CASE Ack \/ AckFails
    BY <1>1, <1>3, NobodySaves DEF Ack, AckFails, NotSaved, Unnoticed, history
  <1>4. CASE \E c \in published : Receive(c)
    BY <1>1, <1>2, <1>4 DEF Receive, ReceiverContents
  <1>5. CASE Make
    BY <1>1, <1>2, <1>5 DEF Make, ReceiverContents
  <1>6. CASE \E r \in Rows : Drop(r) \/ Hash(r)
    BY <1>1, <1>2, <1>6 DEF Drop, Hash, ReceiverContents
  <1>7. QED
    BY <1>3, <1>4, <1>5, <1>6

(* Those of the sender.                                                    *)
LEMMA SenderUnnoticed ==
  ASSUME IInv,
         \/ \E o \in Objs : Load(o)
         \/ \E q \in Queues : Encode(q) \/ Finish(q)
         \/ \E e \in Encodings : Publish(e)
         \/ \E c \in published : Confirm(c)
  PROVE  Unnoticed
  <1>1. Domains /\ Out \in SenderContents
    BY TypeParts DEF IInv, TypeOK, SenderTypeOK
  <1>2. ASSUME NEW c, Store!Save(Sender, c), UNCHANGED <<torn, lost, wasted, expired>>,
               c.objs = Out.objs
        PROVE  Unnoticed
    BY <1>1, <1>2, SenderSaves DEF SavedBySender, Unnoticed
  <1>3. CASE \E q \in Queues : Encode(q)
    BY <1>1, <1>2, <1>3 DEF Encode, SenderContents
  <1>4. CASE \E q \in Queues : Finish(q)
    BY <1>1, <1>2, <1>4 DEF Finish, SenderContents, history
  <1>5. CASE (\E o \in Objs : Load(o)) \/ \E e \in Encodings : Publish(e)
    BY <1>1, <1>5, NobodySaves DEF Load, Publish, NotSaved, Unnoticed, history
  <1>6. CASE \E c \in published : Confirm(c)
    BY <1>1, <1>2, <1>6 DEF Confirm, SenderContents, history
  <1>7. QED
    BY <1>3, <1>4, <1>5, <1>6

(* A step of the courier that changes nothing.                             *)
LEMMA UnnoticedIsStutter ==
  ASSUME IInv, Steady, Unnoticed PROVE UNCHANGED Path!vars
  <1>1. In.shown \subseteq Rows /\ In.forgotten \subseteq Rows
    BY ReceiverContentsTyped DEF IInv, TypeOK, ReceiverTypeOK
  <1>2. Screen' = Screen /\ Again' = Again /\ Lapsed' = Lapsed
    BY <1>1 DEF Unnoticed, Steady, Screen, Again, Lapsed
  <1>3. QED
    BY <1>2 DEF Unnoticed, Path!vars

(* A failure or a restart, which excuses what was written.                 *)
LEMMA TroubleIsTrouble ==
  ASSUME IInv, Steady, NEW torn2 \in SUBSET Out.objs, NEW more \in SUBSET Out.objs,
         NEW rows \in SUBSET In.shown,
         Out'.objs = Out.objs, In'.shown \subseteq In.shown,
         In'.forgotten = In.forgotten \cup rows,
         torn' = torn \cup torn2, Lapsed' = Lapsed \cup more,
         \A r \in In.shown : RowObj(r) \in Out.objs
  PROVE  Path!Trouble
  <1>1. In.shown \subseteq Rows /\ In.forgotten \subseteq Rows
    BY ReceiverContentsTyped DEF IInv, TypeOK, ReceiverTypeOK
  <1>2. Screen' \subseteq Screen
    BY <1>1 DEF Steady, Screen
  <1> DEFINE new == torn2 \cup {RowObj(r) : r \in rows}
  <1>3. new \in SUBSET Out.objs
    OBVIOUS
  <1>4. {RowObj(r)' : r \in In'.forgotten}
        = {RowObj(r) : r \in In.forgotten} \cup {RowObj(r) : r \in rows}
    BY <1>1 DEF Steady
  <1>5. Again' = Again \cup new
    BY <1>4 DEF Again
  <1> HIDE DEF new
  <1>6. QED
    BY <1>2, <1>3, <1>5 DEF Path!Trouble

(* What a restart of the receiver leaves of what was shown.                *)
LEMMA RestartKeepsDisk ==
  ASSUME IInv, RestartReceiver
  PROVE  /\ file[Receiver] # None /\ file'[Receiver] = None /\ Out' = Out
         /\ In'.shown = file[Receiver].shown
         /\ In'.forgotten = file[Receiver].forgotten \cup file[Receiver].shown
  <1> DEFINE disk == file[Receiver]
  <1>1. Domains /\ ReceiverTypeOK
    BY TypeParts DEF IInv
  <1>2. disk # None /\ disk \in ReceiverContents
    BY <1>1 DEF RestartReceiver, Store!MayEnd, ReceiverTypeOK
  <1>3. In' = CleanReceiver(disk) /\ file'[Receiver] = None /\ SavedByReceiver
    BY <1>1, ReceiverSaves
       DEF RestartReceiver, Store!Reopen, Store!SaveRoot, Domains, Devices
  <1>4. QED
    BY <1>2, <1>3 DEF CleanReceiver, ReceiverContents, SavedByReceiver

LEMMA ShowShows ==
  ASSUME IInv, NEW r \in Rows, Show(r)
  PROVE  /\ r \in In.made \ In.shown /\ Out' = Out /\ UNCHANGED history
         /\ In'.shown = In.shown \cup {r} /\ In'.forgotten = In.forgotten
         /\ file'[Receiver] \in {file[Receiver], None}
  <1>1. Domains /\ In \in ReceiverContents
    BY TypeParts DEF IInv, TypeOK, ReceiverTypeOK
  <1>2. SavedByReceiver /\ In' = [In EXCEPT !.shown = @ \cup {r}]
    BY <1>1, ReceiverSaves DEF Show
  <1>3. QED
    BY <1>1, <1>2 DEF Show, ReceiverContents, SavedByReceiver

LEMMA ScreenInvKept ==
  ASSUME IInv, ScreenInv, [Next]_vars PROVE ScreenInv'
  <1>1. Domains
    BY TypeParts DEF IInv
  <1>2. CASE SenderStep
    BY <1>2, SenderStepLeaves DEF ScreenInv
  <1>3. CASE \/ \E c \in published : Receive(c)
             \/ Ack \/ AckFails \/ Make
             \/ \E r \in Rows : Drop(r) \/ Hash(r)
    BY <1>3, ReceiverUnnoticed DEF ScreenInv, Unnoticed
  <1>4. CASE MakeFails
    BY <1>1, <1>4, NobodySaves DEF MakeFails, NotSaved, ScreenInv
  <1>5. CASE \E r \in Rows : Show(r)
    BY <1>5, ShowShows DEF ScreenInv
  <1>6. CASE RestartReceiver
    BY <1>6, RestartKeepsDisk DEF ScreenInv
  <1>7. CASE \E d \in Devices : Stall(d)
    BY <1>7, StallLeaves DEF ScreenInv
  <1>8. CASE UNCHANGED vars
    BY <1>1, <1>8, NobodySaves DEF vars, NotSaved, ScreenInv
  <1>9. QED
    BY <1>2, <1>3, <1>4, <1>5, <1>6, <1>7, <1>8, StepsOfDevices DEF ReceiverStep

(* What is shown was written, and a second copy has its excuse.            *)
LEMMA ShowIsShow ==
  ASSUME IInv, Steady, DecidedInv, MadeWasWritten, ShownOnceUnlessExcused,
         NEW r \in Rows, Show(r)
  PROVE  RowObj(r) \in Objs /\ Path!Show(RowObj(r))
  <1>1. /\ r \in In.made \ In.shown /\ Out' = Out /\ UNCHANGED history
        /\ In'.shown = In.shown \cup {r} /\ In'.forgotten = In.forgotten
    BY ShowShows
  <1>2. In.shown \subseteq Rows /\ In.forgotten \subseteq Rows /\ In.shown \subseteq In.made
    BY ReceiverContentsTyped DEF IInv, TypeOK, ReceiverTypeOK, DecidedInv, DecidedBy
  <1> DEFINE c == <<RowObj(r), r>>
  <1>3. Screen' = Screen \cup {c} /\ c \notin Screen
    BY <1>1, <1>2 DEF Steady, Screen
  <1>4. Again' = Again /\ Lapsed' = Lapsed
    BY <1>1, <1>2 DEF Steady, Again, Lapsed, history
  <1>5. RowObj(r) \in Path!Seen => RowObj(r) \in Again
    <2> SUFFICES ASSUME RowObj(r) \in Path!Seen PROVE RowObj(r) \in Again
      OBVIOUS
    <2>1. PICK s \in In.shown : RowObj(s) = RowObj(r)
      BY DEF Path!Seen, Screen
    <2>2. RowObj(r) \in torn \/ {r, s} \cap In.forgotten # {}
      BY <1>1, <1>2, <2>1 DEF ShownOnceUnlessExcused
    <2>3. QED
      BY <2>1, <2>2 DEF Again
  <1>6. RowObj(r) \in Out.objs
    BY <1>1 DEF MadeWasWritten
  <1>7. RowObj(r) \in Objs
    BY RowTyped DEF IInv, TypeOK
  <1>8. QED
    BY <1>1, <1>3, <1>4, <1>5, <1>6, <1>7 DEF Path!Show

LEMMA TroublesAreTrouble ==
  ASSUME IInv, Steady, KeptInv, ScreenInv,
         (\E q \in Queues : FinishFails(q)) \/ RestartSender \/ MakeFails \/ RestartReceiver
  PROVE  Path!Trouble
  <1>1. Domains /\ SenderTypeOK /\ ReceiverTypeOK
    BY TypeParts DEF IInv
  <1>2. /\ Out \in SenderContents /\ In \in ReceiverContents
        /\ In.rows \subseteq Rows /\ In.shown \subseteq Rows
    BY <1>1, ReceiverContentsTyped DEF SenderTypeOK, ReceiverTypeOK
  <1>3. \A e \in Encodings : ObjOf(e) \in Out.objs
    BY DEF KeptInv, WrittenInv
  <1>4. \A r \in Rows : RowObj(r) \in Out.objs
    BY <1>1, <1>3 DEF ReceiverTypeOK, RowObj
  <1>5. ASSUME NEW torn2 \in SUBSET Out.objs, NEW more \in SUBSET Out.objs,
               Out'.objs = Out.objs, In' = In, torn' = torn \cup torn2,
               Lapsed' = Lapsed \cup more
        PROVE  Path!Trouble
    BY <1>2, <1>4, <1>5, TroubleIsTrouble, {} \in SUBSET In.shown
  <1>6. CASE \E q \in Queues : FinishFails(q)
    <2>1. PICK q \in Queues : FinishFails(q)
      BY <1>6
    <2> DEFINE e == encoding[q]
    <2>2. NotSaved /\ torn' = torn \cup {ObjOf(e)} /\ e \in Encodings
          /\ UNCHANGED <<lost, wasted, expired>>
      BY <1>1, <2>1, NobodySaves DEF FinishFails, SenderTypeOK
    <2>3. Lapsed' = Lapsed \cup {} /\ {ObjOf(e)} \in SUBSET Out.objs
          /\ {} \in SUBSET Out.objs
      BY <1>3, <2>2 DEF Lapsed
    <2>4. QED
      BY <1>5, <2>2, <2>3 DEF NotSaved
  <1>7. CASE RestartSender
    <2> DEFINE disk == file[Sender]
               torn2 == {ObjOf(e) : e \in Encodings \ disk.marked}
    <2>1. PICK old \in SUBSET {ObjOf(e) : e \in disk.marked \ disk.sent} :
             /\ Store!Reopen(Sender, CleanSender(disk, old))
             /\ expired' = expired \cup old
      BY <1>7 DEF RestartSender
    <2>2. disk # None /\ disk \in SenderContents /\ disk.objs = Out.objs
      BY <1>1, <1>7 DEF RestartSender, Store!MayEnd, SenderTypeOK, KeptInv, WrittenInv
    <2>3. SavedBySender /\ Out' = CleanSender(disk, old)
      BY <1>1, <2>1, SenderSaves DEF Store!Reopen
    <2>4. Out'.objs = Out.objs
      BY <2>2, <2>3 DEF CleanSender, SenderContents
    <2>5. torn' = torn \cup torn2 /\ UNCHANGED <<lost, wasted>>
      BY <1>7 DEF RestartSender
    <2>6. Lapsed' = Lapsed \cup old
      BY <2>1, <2>5 DEF Lapsed
    <2>7. torn2 \in SUBSET Out.objs /\ old \in SUBSET Out.objs
      BY <1>3, <2>2, SenderContentsTyped
    <2> HIDE DEF torn2
    <2>8. QED
      BY <1>5, <2>3, <2>4, <2>5, <2>6, <2>7 DEF SavedBySender
  <1>8. CASE MakeFails
    <2>1. /\ NotSaved /\ decoding \in Rows /\ wasted' = wasted \cup {RowObj(decoding)}
          /\ UNCHANGED <<torn, lost, expired>>
      BY <1>1, <1>8, NobodySaves DEF MakeFails, ReceiverTypeOK
    <2>2. /\ Lapsed' = Lapsed \cup {RowObj(decoding)} /\ torn' = torn \cup {}
          /\ {RowObj(decoding)} \in SUBSET Out.objs /\ {} \in SUBSET Out.objs
      BY <1>4, <2>1 DEF Lapsed
    <2>3. QED
      BY <1>5, <2>1, <2>2 DEF NotSaved
  <1>9. CASE RestartReceiver
    <2> DEFINE disk == file[Receiver]
               Gone == {r \in In.rows \ disk.rows : deliveries[r] \notin mailbox}
               more == {RowObj(r) : r \in Gone} \cup {RowObj(r) : r \in disk.hashed \ disk.made}
    <2>1. /\ disk # None /\ Out' = Out /\ In'.shown = disk.shown
          /\ In'.forgotten = disk.forgotten \cup disk.shown
      BY <1>9, RestartKeepsDisk
    <2>2. /\ disk.forgotten = In.forgotten /\ disk.shown \in SUBSET In.shown
          /\ disk.hashed \subseteq Rows
      BY <1>1, <2>1, ReceiverContentsTyped DEF ScreenInv, ReceiverTypeOK
    <2>3. /\ lost' = lost \cup {RowObj(r) : r \in Gone}
          /\ wasted' = wasted \cup {RowObj(r) : r \in disk.hashed \ disk.made}
          /\ UNCHANGED <<torn, expired>>
      BY <1>9 DEF RestartReceiver
    <2>4. Lapsed' = Lapsed \cup more
      BY <2>3 DEF Lapsed
    <2>5. Gone \subseteq Rows
      BY <1>2
    <2>6. more \in SUBSET Out.objs
      <3> HIDE DEF Gone
      <3> QED BY <1>4, <2>2, <2>5
    <2>7. \A r \in In.shown : RowObj(r) \in Out.objs
      BY <1>2, <1>4
    <2>8. torn' = torn \cup {} /\ {} \in SUBSET Out.objs
      BY <2>3
    <2> HIDE DEF more, Gone
    <2>9. QED
      BY <2>1, <2>2, <2>4, <2>6, <2>7, <2>8, TroubleIsTrouble
  <1>10. QED
    BY <1>6, <1>7, <1>8, <1>9

LEMMA WriteIsWrite ==
  ASSUME IInv, Steady, NEW o \in Objs, Write(o) PROVE Path!Write(o)
  <1>1. Domains /\ Out \in SenderContents
    BY TypeParts DEF IInv, TypeOK, SenderTypeOK
  <1>2. SavedBySender /\ Out' = [Out EXCEPT !.objs = @ \cup {o}]
    BY <1>1, SenderSaves DEF Write
  <1>3. In.shown \subseteq Rows /\ In.forgotten \subseteq Rows
    BY ReceiverContentsTyped DEF IInv, TypeOK, ReceiverTypeOK
  <1>4. Screen' = Screen /\ Again' = Again /\ Lapsed' = Lapsed
    BY <1>2, <1>3 DEF SavedBySender, Write, Steady, Screen, Again, Lapsed, history
  <1>5. QED
    BY <1>1, <1>2, <1>4 DEF Write, IsNext, Path!Write, SenderContents

LEMMA CourierStep ==
  ASSUME IInv, KeptInv, ScreenInv, MadeWasWritten, ShownOnceUnlessExcused, [Next]_vars
  PROVE  [Path!Next]_(Path!vars)
  <1>1. Domains
    BY TypeParts DEF IInv
  <1>2. Steady
    BY StepsAreSteady
  <1>3. CASE \E o \in Objs : Write(o)
    BY <1>2, <1>3, WriteIsWrite DEF Path!Next
  <1>4. CASE \/ \E o \in Objs : Load(o)
             \/ \E q \in Queues : Encode(q) \/ Finish(q)
             \/ \E e \in Encodings : Publish(e)
             \/ \E c \in published : Confirm(c)
    BY <1>2, <1>4, SenderUnnoticed, UnnoticedIsStutter
  <1>5. CASE \/ \E c \in published : Receive(c)
             \/ Ack \/ AckFails \/ Make
             \/ \E r \in Rows : Drop(r) \/ Hash(r)
    BY <1>2, <1>5, ReceiverUnnoticed, UnnoticedIsStutter
  <1>6. CASE \E r \in Rows : Show(r)
    BY <1>2, <1>6, ShowIsShow DEF Path!Next, KeptInv
  <1>7. CASE \/ \E q \in Queues : FinishFails(q)
             \/ RestartSender \/ MakeFails \/ RestartReceiver
    BY <1>2, <1>7, TroublesAreTrouble DEF Path!Next
  <1>8. CASE (\E d \in Devices : Stall(d)) \/ UNCHANGED vars
    <2>1. Unnoticed
      BY <1>1, <1>8, StallLeaves, NobodySaves DEF Unnoticed, vars, history, NotSaved
    <2>2. QED
      BY <1>2, <2>1, UnnoticedIsStutter
  <1>9. QED
    BY <1>3, <1>4, <1>5, <1>6, <1>7, <1>8, StepsOfDevices DEF SenderStep, ReceiverStep

-----------------------------------------------------------------------------
(* The theorems                                                            *)

(* The stores, what is on the way between them and the history keep their  *)
(* types, and a copy the listener works on has its row                     *)
(* (AMQPListenerThread.m:180-196).                                         *)
THEOREM FlowTypeCorrect == Spec => []TypeOK
  <1>1. IInv => TypeOK
    BY DEF IInv
  <1>2. QED
    BY <1>1, Invariant, PTL

(* However the two encode queues interleave, no two published encodings    *)
(* carry one number, unless a restart took one of them out of the sender's *)
(* file (PersistentModelStore.m:157-171), or a save of an operation that   *)
(* had read an older number set it back for one of them                    *)
(* (TransportManager.m:117, MessageEncodeService.m:61-79).                 *)
THEOREM NumbersRepeatOnlyIfTakenBack == Spec => []NumbersUniqueUnlessTakenBack
  <1>1. IInv => NumbersUniqueUnlessTakenBack
    BY DEF IInv, TypeOK, BrokerTypeOK, Copies, NumberInv, NumbersUniqueUnlessTakenBack
  <1>2. QED
    BY <1>1, Invariant, PTL

(* The receiver makes one object of an object the user wrote, whichever    *)
(* files were behind, unless the sender encoded it again or cleanUp had    *)
(* deleted the row with the hash (TransportManager.m:215-218).             *)
THEOREM ObjectsAreShownOnce == Spec => []ShownOnceUnlessExcused
  <1>1. IInv => ShownOnceUnlessExcused
    <2> SUFFICES ASSUME IInv, NEW r \in In.made, NEW s \in In.made,
                        r # s, RowObj(r) = RowObj(s), RowObj(r) \notin torn
                 PROVE  EncodingOf(r) = EncodingOf(s) /\ {r, s} \cap In.forgotten # {}
      BY DEF ShownOnceUnlessExcused
    <2>1. EncodingOf(r) \in Encodings /\ EncodingOf(s) \in Encodings
      BY DEF IInv, TypeOK, ReceiverTypeOK, ReceiverContents
    <2>2. EncodingOf(r) = EncodingOf(s)
      BY <2>1 DEF IInv, TornInv, RowObj
    <2>3. QED
      BY <2>2 DEF IInv, HashInv, Hashed
  <1>2. QED
    BY <1>1, Invariant, PTL

(* No step drops an object the user wrote between two places: neither the  *)
(* ack before the announcement (AMQPListenerThread.m:190-196), nor the     *)
(* delete of a duplicate (MessageDecodeService.m:186-190), nor a restart;  *)
(* it is lost only where WrittenIsShown says so.                           *)
THEOREM WrittenObjectsAreKept == Spec => []WrittenIsKept
  <1>1. IInv /\ KeptInv => WrittenIsKept
    <2> SUFFICES ASSUME IInv, KeptInv, NEW o \in Out.objs, o \notin Unencoded,
                        o \notin lost \cup wasted \cup expired
                 PROVE  \/ \E e \in ready \cap (Out.rows \ Out.sent) : ObjOf(e) = o
                        \/ \E c \in mailbox : ObjOf(c[1]) = o
                        \/ \E r \in In.made \cup (heard \cap Undecided) : RowObj(r) = o
      BY DEF WrittenIsKept
    <2>1. PICK e \in Out.marked : ObjOf(e) = o
      BY DEF Unencoded
    <2>2. e \in ready \cap Out.rows
      BY <2>1 DEF KeptInv, SenderInv, KeptBySender
    <2>3. CASE e \notin Out.sent
      BY <2>1, <2>2, <2>3
    <2>4. CASE e \in Out.sent
      <3>1. PICK c \in published : c[1] = e
        BY <2>4 DEF KeptInv, SenderInv, KeptBySender
      <3>2. CASE c \in mailbox
        BY <2>1, <3>1, <3>2
      <3>3. CASE c \notin mailbox
        <4>1. PICK r \in heard \cap In.rows : deliveries[r] = c
          BY <2>1, <3>1, <3>3 DEF KeptInv, MailInv
        <4>2. RowObj(r) = o
          BY <2>1, <3>1, <4>1 DEF RowObj, EncodingOf
        <4>3. \/ r \in Undecided \/ r \in In.made
              \/ \E s \in In.made : RowObj(s) = o
          BY <4>1, <4>2 DEF KeptInv, DecidedInv, DecidedBy, Undecided
        <4>4. QED
          BY <4>1, <4>2, <4>3
      <3>4. QED
        BY <3>2, <3>3
    <2>5. QED
      BY <2>3, <2>4
  <1>2. QED
    BY <1>1, KeptInvariant, PTL

(* The receiver makes objects only of what the sender still has: the main  *)
(* store saves to the file at once (PersistentModelStore.m:224-246).       *)
THEOREM NothingIsInvented == Spec => []MadeWasWritten
  <1>1. IInv /\ KeptInv => MadeWasWritten
    <2>1. IInv => \A r \in In.made : EncodingOf(r) \in Encodings
      BY ReceiverContentsTyped DEF IInv, TypeOK, ReceiverTypeOK
    <2>2. QED
      BY <2>1 DEF KeptInv, WrittenInv, MadeWasWritten, RowObj
  <1>2. QED
    BY <1>1, KeptInvariant, PTL

(* From one user to the other the path is a Courier: whatever fails on the *)
(* way, and whichever application ends with a file that lags behind, what  *)
(* one writes stays written, only that is shown to the other, one copy at  *)
(* a time, and a second one only if an encoding of it was torn or cleanUp  *)
(* deleted its row (ObjHelper.m:74-96, MessageEncodeService.m:241-243,     *)
(* MessageDecodeService.m:186-190, PersistentModelStore.m:157-171).        *)
THEOREM FlowIsCourier == Spec => IsCourier
  <1>1. Init => Path!Init /\ ScreenInv
    <2> SUFFICES ASSUME Init PROVE Path!Init /\ ScreenInv
      OBVIOUS
    <2>1. /\ Out.objs = {} /\ In.shown = {} /\ In.forgotten = {} /\ file[Receiver] = None
      BY DEF Init, Store!Init, Fresh, Devices, Sender, Receiver, Out, In
    <2>2. Screen = {} /\ Again = {} /\ Lapsed = {}
      BY <2>1 DEF Init, Screen, Again, Lapsed
    <2>3. QED
      BY <2>1, <2>2 DEF Path!Init, ScreenInv
  <1>2. IInv /\ ScreenInv /\ [Next]_vars => ScreenInv'
    BY ScreenInvKept
  <1>3. IInv /\ KeptInv /\ ScreenInv /\ MadeWasWritten /\ ShownOnceUnlessExcused /\ [Next]_vars
        => [Path!Next]_(Path!vars)
    BY CourierStep
  <1>4. QED
    BY <1>1, <1>2, <1>3, KeptInvariant, NothingIsInvented, ObjectsAreShownOnce, PTL
       DEF Spec, IsCourier, Path!Spec
=============================================================================
