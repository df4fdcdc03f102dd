------------------------ MODULE FeedMembershipProofs ------------------------
(* The safety of FeedMembership, for any number of users.                  *)
EXTENDS FeedMembership, TLAPS

-----------------------------------------------------------------------------
(* The inductive invariant                                                 *)

(* Who has the feed is in it, and who has a request to process has it.     *)
SelfInv ==
    /\ \A u \in Users : HasFeed(u) => u \in members[u]
    /\ \A u \in joining : HasFeed(u)
    /\ \A r \in requests : HasFeed(r[1])

(* v lists u, or will by a message on the way, or has deleted the feed.    *)
Knows(v, u) == u \in members[v] \/ ToldOf(v, u) \/ v \in deleted

(* Everybody whom a message puts in a list knows its receiver.             *)
NetInv == \A m \in net : \A v \in m.list \cup {m.from} : Knows(v, m.to)

IInv == TypeOK /\ SelfInv /\ NetInv /\ MembersAreMutual

(* u has said, or is about to say, whom he lists.                          *)
Speaks(u) == u \in joining \/ (\E o \in unsent : o.by = u /\ o.kind \notin Blind) \/ u \in halted

LEMMA Mutual ==
  MembersAreMutual <=> \A u, v \in Users : v \in members[u] => Knows(v, u) \/ Speaks(u)
  BY DEF MembersAreMutual, Knows, Speaks

-----------------------------------------------------------------------------
(* What steps preserve                                                     *)

LEMMA Initially == Init => IInv
  BY MembershipAssumption
     DEF Init, IInv, TypeOK, SelfInv, NetInv, MembersAreMutual, HasFeed

LEMMA ActTyped ==
  ASSUME acts \in 0..MaxActs, Act PROVE acts' \in 0..MaxActs
  BY MembershipAssumption DEF Act

(* A user changes his own list, speaks, and leaves the messages alone.     *)
LEMMA UserSpeaks ==
  ASSUME IInv, NEW u \in Users, NEW list \in SUBSET Users,
         members' = [members EXCEPT ![u] = list], members[u] \subseteq list, u \in list,
         Speaks(u)', \A w \in Users : Speaks(w) => Speaks(w)',
         UNCHANGED <<net, deleted>>,
         joining' \subseteq joining \cup {u}, requests' \subseteq requests
  PROVE  SelfInv' /\ NetInv' /\ MembersAreMutual'
  <1>1. \A w \in Users : members[w] \subseteq members'[w]
    BY DEF IInv, TypeOK
  <1>2. \A v, w \in Users : Knows(v, w) => Knows(v, w)'
    BY <1>1 DEF Knows, ToldOf
  <1>3. SelfInv'
    BY <1>1 DEF IInv, TypeOK, SelfInv, HasFeed
  <1>4. NetInv'
    BY <1>2 DEF IInv, NetInv, TypeOK, Messages
  <1>5. \A w, v \in Users : v \in members'[w] => Knows(v, w)' \/ Speaks(w)'
    <2> SUFFICES ASSUME NEW w \in Users, NEW v \in Users, v \in members'[w], w # u
                 PROVE  Knows(v, w)' \/ Speaks(w)'
      OBVIOUS
    <2>1. v \in members[w]
      BY DEF IInv, TypeOK
    <2>2. QED
      BY <1>2, <2>1, Mutual DEF IInv
  <1>6. QED
    BY <1>3, <1>4, <1>5, Mutual DEF MembersAreMutual, Knows, Speaks

LEMMA SendTyped ==
  ASSUME unsent \subseteq Objects, NEW u \in Users, NEW kind \in Kinds, Send(u, kind)
  PROVE  unsent' \subseteq Objects /\ unsent \subseteq unsent'
  BY DEF Send, Objects

LEMMA SendSpeaks ==
  ASSUME NEW u \in Users, NEW kind \in Kinds, Send(u, kind), halted' = halted,
         \/ joining' = joining
         \/ joining' = joining \ {u} /\ kind \notin Blind
  PROVE  /\ kind \notin Blind => Speaks(u)'
         /\ \A w \in Users : Speaks(w) => Speaks(w)'
  <1> DEFINE o == [by |-> u, kind |-> kind]
  <1>1. o \in unsent' /\ o.by = u /\ o.kind = kind
    BY DEF Send
  <1>2. unsent \subseteq unsent'
    BY DEF Send
  <1>3. kind \notin Blind => Speaks(u)'
    BY <1>1 DEF Speaks
  <1>4. ASSUME NEW w \in Users, Speaks(w) PROVE Speaks(w)'
    <2>1. CASE w \in joining
      BY <1>3, <2>1 DEF Speaks
    <2>2. CASE \E p \in unsent : p.by = w /\ p.kind \notin Blind
      BY <1>2, <2>2 DEF Speaks
    <2>3. CASE w \in halted
      BY <2>3 DEF Speaks
    <2>4. QED
      BY <1>4, <2>1, <2>2, <2>3 DEF Speaks
  <1>5. QED
    BY <1>3, <1>4

LEMMA Hello == "hello" \in Kinds \ Blind /\ "join" \in Kinds \ Blind
  BY DEF Kinds, Blind

LEMMA CreateKeeps ==
  ASSUME IInv, NEW s \in SUBSET Users, Create(s) PROVE IInv'
  <1>1. TypeOK'
    BY MembershipAssumption, SendTyped
       DEF IInv, TypeOK, Create, Kinds, history
  <1>2. Speaks(Founder)' /\ \A w \in Users : Speaks(w) => Speaks(w)'
    BY MembershipAssumption, SendSpeaks, Hello DEF Create, history
  <1>3. Founder \in Users /\ members[Founder] = {} /\ s \cup {Founder} \in SUBSET Users
    BY MembershipAssumption DEF Create, HasFeed
  <1>4. SelfInv' /\ NetInv' /\ MembersAreMutual'
    BY <1>2, <1>3, UserSpeaks DEF Create, history
  <1>5. QED
    BY <1>1, <1>4 DEF IInv

LEMMA AddKeeps ==
  ASSUME IInv, NEW u \in Users, NEW s \in SUBSET Users, Add(u, s) PROVE IInv'
  <1>1. TypeOK'
    BY SendTyped, ActTyped DEF IInv, TypeOK, Add, Kinds, history
  <1>2. Speaks(u)' /\ \A w \in Users : Speaks(w) => Speaks(w)'
    BY SendSpeaks, Hello DEF Add, history
  <1>3. members[u] \cup s \in SUBSET Users /\ u \in members[u]
    BY DEF IInv, TypeOK, SelfInv, Add
  <1>4. SelfInv' /\ NetInv' /\ MembersAreMutual'
    BY <1>2, <1>3, UserSpeaks DEF Add, history
  <1>5. QED
    BY <1>1, <1>4 DEF IInv

(* Steps that leave lists and messages alone.                              *)
LEMMA OnlySpeech ==
  ASSUME IInv, UNCHANGED <<members, net, deleted, requests>>,
         joining' \subseteq joining,
         \A w \in Users : Speaks(w) => Speaks(w)'
  PROVE  SelfInv' /\ NetInv' /\ MembersAreMutual'
  <1>1. \A v, w \in Users : Knows(v, w) => Knows(v, w)'
    BY DEF Knows, ToldOf
  <1>2. \A u, v \in Users : v \in members'[u] => Knows(v, u)' \/ Speaks(u)'
    BY <1>1, Mutual DEF IInv
  <1>3. NetInv'
    BY <1>1 DEF IInv, NetInv, TypeOK, Messages
  <1>4. QED
    BY <1>2, <1>3 DEF IInv, SelfInv, HasFeed, MembersAreMutual, Knows, Speaks

LEMMA TalkKeeps ==
  ASSUME IInv, NEW u \in Users, NEW kind \in Kinds, Talk(u, kind) PROVE IInv'
  <1>1. TypeOK'
    BY SendTyped, ActTyped DEF IInv, TypeOK, Talk, history
  <1>2. \A w \in Users : Speaks(w) => Speaks(w)'
    BY SendSpeaks, Hello DEF Talk, history
  <1>3. QED
    BY <1>1, <1>2, OnlySpeech DEF IInv, Talk, history

LEMMA WriteOnKeeps ==
  ASSUME IInv, NEW u \in Users, WriteOn(u) PROVE IInv'
  <1>1. TypeOK'
    BY SendTyped DEF IInv, TypeOK, WriteOn, Kinds, history
  <1>2. \A w \in Users : Speaks(w) => Speaks(w)'
    BY SendSpeaks, Hello DEF WriteOn, history
  <1>3. QED
    BY <1>1, <1>2, OnlySpeech DEF IInv, WriteOn, history

LEMMA RequestKeeps ==
  ASSUME IInv, NEW u \in Users, Request(u) PROVE IInv'
  <1>1. TypeOK'
    BY SendTyped DEF IInv, TypeOK, Request, Kinds, history
  <1>2. \A w \in Users : Speaks(w) => Speaks(w)'
    BY SendSpeaks, Hello DEF Request, history
  <1>3. QED
    BY <1>1, <1>2, OnlySpeech DEF IInv, Request, history

LEMMA HaltKeeps ==
  ASSUME IInv, NEW u \in Users, Halt(u) PROVE IInv'
  <1>1. TypeOK'
    BY ActTyped DEF IInv, TypeOK, Halt
  <1>2. \A w \in Users : Speaks(w) => Speaks(w)'
    BY DEF Halt, Speaks
  <1>3. QED
    BY <1>1, <1>2, OnlySpeech DEF IInv, Halt

LEMMA JoinKeeps ==
  ASSUME IInv, NEW u \in Users, NEW s \in Users, Join(u, s) PROVE IInv'
  <1>1. TypeOK'
    BY ActTyped DEF IInv, TypeOK, Join, history
  <1>2. Speaks(u)' /\ \A w \in Users : Speaks(w) => Speaks(w)'
    BY DEF Join, Speaks, history
  <1>3. {u, s} \in SUBSET Users /\ members[u] = {}
    BY DEF Join, HasFeed
  <1>4. SelfInv' /\ NetInv' /\ MembersAreMutual'
    BY <1>2, <1>3, UserSpeaks DEF Join, history
  <1>5. QED
    BY <1>1, <1>4 DEF IInv

LEMMA IntroduceKeeps ==
  ASSUME IInv, NEW u \in Users, NEW j \in Users, Introduce(u, j) PROVE IInv'
  <1>1. TypeOK'
    BY SendTyped DEF IInv, TypeOK, Introduce, Kinds, history
  <1>2. Speaks(u)' /\ \A w \in Users : Speaks(w) => Speaks(w)'
    BY SendSpeaks, Hello DEF Introduce, history
  <1>3. HasFeed(u)
    BY DEF IInv, SelfInv, Introduce
  <1>4. members[u] \cup {j} \in SUBSET Users /\ u \in members[u]
    BY <1>3 DEF IInv, TypeOK, SelfInv
  <1>5. SelfInv' /\ NetInv' /\ MembersAreMutual'
    BY <1>2, <1>4, UserSpeaks DEF Introduce, history
  <1>6. QED
    BY <1>1, <1>5 DEF IInv

LEMMA DeleteKeeps ==
  ASSUME IInv, NEW u \in Users, Delete(u) PROVE IInv'
  <1>1. TypeOK'
    BY ActTyped DEF IInv, TypeOK, Delete
  <1>2. \A w \in Users : members'[w] = IF w = u THEN {} ELSE members[w]
    BY DEF IInv, TypeOK, Delete
  <1>3. \A v, w \in Users : Knows(v, w) => Knows(v, w)'
    BY <1>2 DEF Knows, ToldOf, Delete
  <1>4. SelfInv'
    <2>1. \A w \in joining' : w \in Users /\ w # u /\ w \in joining
      BY DEF IInv, TypeOK, Delete, Free
    <2>2. \A r \in requests' : r[1] \in Users /\ r[1] # u /\ r \in requests
      BY DEF IInv, TypeOK, Delete
    <2>3. QED
      BY <1>2, <2>1, <2>2 DEF IInv, SelfInv, HasFeed
  <1>5. NetInv'
    BY <1>3 DEF IInv, NetInv, TypeOK, Messages, Delete
  <1>6. \A w, v \in Users : v \in members'[w] => Knows(v, w)' \/ Speaks(w)'
    <2> SUFFICES ASSUME NEW w \in Users, NEW v \in Users, v \in members[w], w # u
                 PROVE  Knows(v, w)' \/ Speaks(w)'
      BY <1>2
    <2>1. Speaks(w) => Speaks(w)'
      BY DEF Speaks, Delete
    <2>2. QED
      BY <1>3, <2>1, Mutual DEF IInv
  <1>7. QED
    BY <1>1, <1>4, <1>5, <1>6, Mutual DEF IInv, MembersAreMutual, Knows, Speaks

(* The messages of an encoding tell each receiver what he needs to know:   *)
(* for a blind one only the sender is put in a list, and he lists him.     *)
LEMMA EncodeKeeps ==
  ASSUME IInv, NEW o \in unsent, Encode(o) PROVE IInv'
  <1> DEFINE u == o.by
             M(w) == [from |-> u, to |-> w, kind |-> o.kind,
                      list |-> Named(o.kind, members[u], w)]
  <1>1. u \in Users /\ o.kind \in Kinds
    BY DEF IInv, TypeOK, Objects
  <1>2. net' = net \cup {M(w) : w \in members[u] \ {u}}
    BY DEF Encode
  <1>3. \A w \in members[u] \ {u} :
           /\ w \in Users /\ u \in members[u] /\ M(w) \in Messages
    BY <1>1 DEF IInv, TypeOK, SelfInv, HasFeed, Messages, Named, Blind
  <1>4. TypeOK'
    BY <1>2, <1>3 DEF IInv, TypeOK, Encode, history
  <1>5. \A v, w \in Users : Knows(v, w) => Knows(v, w)'
    BY <1>2 DEF Knows, ToldOf, Encode, history
  <1>6. ASSUME o.kind \notin Blind
        PROVE  \A w, v \in members[u] : v # u => Knows(v, w)'
    <2> SUFFICES ASSUME NEW w \in members[u], NEW v \in members[u], v # u
                 PROVE  Knows(v, w)'
      OBVIOUS
    <2>1. M(v) \in net' /\ M(v).to = v /\ M(v).list = members[u]
      BY <1>2, <1>6 DEF Named
    <2>2. QED
      BY <2>1 DEF Knows, ToldOf
  <1>7. NetInv'
    <2> SUFFICES ASSUME NEW m \in net', NEW v \in m.list \cup {m.from}
                 PROVE  Knows(v, m.to)'
      BY DEF NetInv
    <2>1. CASE m \in net
      BY <1>5, <2>1 DEF IInv, NetInv, TypeOK, Messages
    <2>2. CASE \E w \in members[u] \ {u} : m = M(w)
      <3>1. PICK w \in members[u] \ {u} : m = M(w)
        BY <2>2
      <3>2. m.to = w /\ m.from = u /\ m.list = Named(o.kind, members[u], w)
        BY <3>1
      <3>3. CASE v = u
        BY <3>2, <3>3 DEF Knows, Encode
      <3>4. CASE v # u /\ o.kind \in Blind
        BY <1>2, <3>1, <3>2, <3>4 DEF Knows, ToldOf, Named
      <3>5. CASE v # u /\ o.kind \notin Blind
        BY <1>6, <3>2, <3>5 DEF Named
      <3>6. QED
        BY <3>3, <3>4, <3>5
    <2>3. QED
      BY <1>2, <2>1, <2>2
  <1>8. \A w, v \in Users : v \in members'[w] => Knows(v, w)' \/ Speaks(w)'
    <2> SUFFICES ASSUME NEW w \in Users, NEW v \in Users, v \in members[w], Speaks(w)
                 PROVE  Knows(v, w)' \/ Speaks(w)'
      BY <1>5, Mutual DEF IInv, Encode
    <2>1. CASE w = u /\ o.kind \notin Blind
      <3>1. CASE v = u
        BY <2>1, <3>1 DEF Knows, Encode
      <3>2. CASE v # u
        BY <1>3, <1>6, <2>1, <3>2
      <3>3. QED
        BY <3>1, <3>2
    <2>2. CASE w # u \/ o.kind \in Blind
      BY <2>2 DEF Speaks, Encode, history
    <2>3. QED
      BY <2>1, <2>2
  <1>9. SelfInv'
    BY DEF IInv, SelfInv, HasFeed, Encode
  <1>10. QED
    BY <1>4, <1>7, <1>8, <1>9, Mutual DEF IInv, MembersAreMutual, Knows, Speaks

(* Everybody the receiver lists from now on knows him; whom a message that *)
(* is gone told of someone lists him now.                                  *)
LEMMA DecodeKeeps ==
  ASSUME IInv, NEW m \in net, Decode(m) PROVE IInv'
  <1> DEFINE w == m.to
  <1>1. /\ m \in Messages /\ w \in Users /\ m.from \in Users
        /\ m.list \subseteq Users /\ w \in m.list
    BY DEF IInv, TypeOK, Messages
  <1>2. /\ members' = [members EXCEPT ![w] = Expand(members[w], m)]
        /\ net' = net \ {m} /\ UNCHANGED <<unsent, joining, deleted, halted, acts>>
    BY DEF Decode, history
  <1>3. /\ members[w] \cup m.list \subseteq Expand(members[w], m)
        /\ Expand(members[w], m) \subseteq members[w] \cup m.list \cup {m.from}
    BY DEF Expand
  <1>4. /\ members'[w] = Expand(members[w], m)
        /\ \A x \in Users : x # w => members'[x] = members[x]
    BY <1>1, <1>2 DEF IInv, TypeOK
  <1>5. TypeOK'
    BY <1>1, <1>2, <1>3 DEF IInv, TypeOK, Decode
  <1>6. \A v, x \in Users : Knows(v, x) => Knows(v, x)'
    BY <1>1, <1>2, <1>3, <1>4 DEF Knows, ToldOf
  <1>7. SelfInv'
    <2>1. \A r \in requests' : r \in requests \/ r[1] = w
      BY DEF Decode
    <2>2. \A r \in requests' : r[1] \in Users
      BY <1>5 DEF TypeOK
    <2>3. w \in members'[w]
      BY <1>1, <1>3, <1>4
    <2>4. \A x \in Users : x # w => members'[x] = members[x]
      BY <1>4
    <2>5. joining' = joining /\ joining \subseteq Users
      BY <1>2 DEF IInv, TypeOK
    <2>6. QED
      BY <2>1, <2>2, <2>3, <2>4, <2>5 DEF IInv, SelfInv, HasFeed
  <1>8. NetInv'
    BY <1>2, <1>6 DEF IInv, NetInv, TypeOK, Messages
  <1>9. \A x, v \in Users : v \in members'[x] => Knows(v, x)' \/ Speaks(x)'
    <2> SUFFICES ASSUME NEW x \in Users, NEW v \in Users, v \in members'[x]
                 PROVE  Knows(v, x)' \/ Speaks(x)'
      OBVIOUS
    <2>1. CASE v \in members[x]
      <3>1. Knows(v, x) \/ Speaks(x)
        BY <2>1, Mutual DEF IInv
      <3>2. QED
        BY <1>2, <1>6, <3>1 DEF Speaks
    <2>2. CASE x = w /\ v \in m.list \cup {m.from}
      BY <1>6, <2>2 DEF IInv, NetInv
    <2>3. QED
      BY <1>3, <1>4, <2>1, <2>2
  <1>10. QED
    BY <1>5, <1>7, <1>8, <1>9, Mutual DEF IInv, MembersAreMutual, Knows, Speaks

-----------------------------------------------------------------------------
(* The theorems                                                            *)

LEMMA Inductive == IInv /\ [Next]_vars => IInv'
  <1> SUFFICES ASSUME IInv, [Next]_vars PROVE IInv'
    OBVIOUS
  <1>1. CASE \E s \in SUBSET Users : Create(s) \/ \E u \in Users : Add(u, s)
    BY <1>1, CreateKeeps, AddKeeps
  <1>2. CASE \E u \in Users, kind \in Kinds : Talk(u, kind)
    BY <1>2, TalkKeeps
  <1>3. CASE \E u \in Users : WriteOn(u) \/ Request(u) \/ Halt(u) \/ Delete(u)
    BY <1>3, WriteOnKeeps, RequestKeeps, HaltKeeps, DeleteKeeps
  <1>4. CASE \E u, v \in Users : Join(u, v) \/ Introduce(u, v)
    BY <1>4, JoinKeeps, IntroduceKeeps
  <1>5. CASE \E o \in unsent : Encode(o)
    BY <1>5, EncodeKeeps
  <1>6. CASE \E m \in net : Decode(m)
    BY <1>6, DecodeKeeps
  <1>7. CASE UNCHANGED vars
    BY <1>7 DEF IInv, TypeOK, SelfInv, NetInv, MembersAreMutual, HasFeed, Knows,
                ToldOf, vars, localVars, history
  <1>8. QED
    BY <1>1, <1>2, <1>3, <1>4, <1>5, <1>6, <1>7 DEF Next

LEMMA Invariant == Spec => []IInv
  BY Initially, Inductive, PTL DEF Spec

(* The lists, the objects and the messages keep their types; that every    *)
(* message that is not blind names its sender needs that who writes to a   *)
(* feed is in it (MessageEncodeService.m:125-152).                         *)
THEOREM MembershipTypeCorrect == Spec => []TypeOK
  <1>1. IInv => TypeOK
    BY DEF IInv
  <1>2. QED
    BY <1>1, Invariant, PTL

(* Whoever is listed by a user lists him, or will, unless he deleted the   *)
(* feed or the user's join was cut short (MessageDecodeService.m:249-285,  *)
(* NearbyFeed.m:133-135).                                                  *)
THEOREM ListedUsersListBack == Spec => []MembersAreMutual
  <1>1. IInv => MembersAreMutual
    BY DEF IInv
  <1>2. QED
    BY <1>1, Invariant, PTL

(* Once nothing is on the way and nobody deleted the feed or was cut off   *)
(* while joining, listing is mutual: no member writes to somebody who does *)
(* not write back (MessageDecodeService.m:249-285).                        *)
THEOREM QuietListsAreMutual ==
    Spec => [](Quiet /\ deleted = {} /\ halted = {} =>
                  \A u, v \in Users : v \in members[u] <=> u \in members[v])
  <1>1. IInv => (Quiet /\ deleted = {} /\ halted = {} =>
                    \A u, v \in Users : v \in members[u] <=> u \in members[v])
    BY DEF IInv, MembersAreMutual, ToldOf, Quiet
  <1>2. QED
    BY <1>1, Invariant, PTL
=============================================================================
