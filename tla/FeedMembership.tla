---------------------------- MODULE FeedMembership ----------------------------
(***************************************************************************)
(* Who is in a feed: an expanding feed has a list of members on each       *)
(* device, and nobody keeps them equal.  A message goes to the members the *)
(* sender lists when it is encoded, and names them, unless it is blind;    *)
(* who receives it adds those named to his own list.  People are added by  *)
(* a member, or ask to join, and a user may delete the feed.               *)
(*                                                                         *)
(* A user has one device and one identity here.  What happens to a message *)
(* between the devices is the subject of MessageFlow: it arrives, once, in *)
(* any order.  Two messages on the way that say the same to the same user  *)
(* are one, since the second adds nothing.                                 *)
(***************************************************************************)
EXTENDS Naturals

CONSTANTS
    Users,
    Founder,      \* who creates the feed
    Writers,      \* who writes on when the feed changes no more
    MaxActs       \* bound on what the users do, and on restarts

ASSUME MembershipAssumption ==
    Founder \in Users /\ Writers \subseteq Users /\ MaxActs \in Nat

VARIABLES
    members,      \* [Users -> SUBSET Users]: of the feed, {} if there is none
    unsent,       \* objects saved and not encoded
    net,          \* messages on the way
    requests,     \* <<user, joiner>>: JoinRequestObjs that are not processed
    joining,      \* users who have saved the feed they join, and no request
    acts,
    (* history *)
    deleted,      \* users who deleted the feed
    halted        \* users whose application ended while they were joining

localVars == <<members, unsent, requests, joining>>
history == <<deleted, halted>>
vars == <<localVars, net, acts, history>>

(* Likes and deletions are blind; hello is any other object, among them    *)
(* the IntroductionObj, of which the receiver uses nothing but the list.   *)
Kinds == {"hello", "join", "like"}
Blind == {"like"}
Objects == [by : Users, kind : Kinds]
Messages ==
    {m \in [from : Users, to : Users, kind : Kinds, list : SUBSET Users] :
        /\ m.from # m.to
        /\ IF m.kind \in Blind THEN m.list = {m.to} ELSE {m.from, m.to} \subseteq m.list}

TypeOK ==
    /\ members \in [Users -> SUBSET Users]
    /\ unsent \subseteq Objects /\ net \subseteq Messages
    /\ requests \subseteq Users \X Users
    /\ joining \cup deleted \cup halted \subseteq Users
    /\ acts \in 0..MaxActs

Init ==
    /\ members = [u \in Users |-> {}]
    /\ unsent = {} /\ net = {} /\ requests = {} /\ joining = {}
    /\ acts = 0 /\ deleted = {} /\ halted = {}

HasFeed(u) == members[u] # {}
Free(u) == u \notin joining
Act == acts < MaxActs /\ acts' = acts + 1

Send(u, kind) == unsent' = unsent \cup {[by |-> u, kind |-> kind]}

-----------------------------------------------------------------------------
(* The users                                                               *)

(* createExpandingFeedWithParticipants, with an introduction.  The         *)
(* capability is random: nobody creates this feed again.                   *)
Create(selection) ==
    /\ acts = 0 /\ \A u \in Users : ~HasFeed(u)
    /\ selection # {} /\ Founder \notin selection
    /\ members' = [members EXCEPT ![Founder] = selection \cup {Founder}]
    /\ Send(Founder, "hello")
    /\ UNCHANGED <<net, requests, joining, acts, history>>

(* friendsSelected, in the feed: the save of the object saves the members. *)
(* (If the selection is listed already this is Talk.)                      *)
Add(u, selection) ==
    /\ HasFeed(u) /\ Free(u) /\ Act
    /\ ~(selection \subseteq members[u])
    /\ members' = [members EXCEPT ![u] = @ \cup selection]
    /\ Send(u, "hello")
    /\ UNCHANGED <<net, requests, joining, history>>

(* Any object: a picture, a like, a deletion.                              *)
Talk(u, kind) ==
    /\ HasFeed(u) /\ Free(u) /\ Act
    /\ kind # "join"
    /\ Send(u, kind)
    /\ UNCHANGED <<members, net, requests, joining, history>>

(* Users who list each other list the same users.                          *)
Agree == \A u \in Users : \A v \in members[u] : members[v] = members[u]

Quiet == unsent = {} /\ net = {} /\ requests = {} /\ joining = {}

(* More of it, when the feed changes no more.  Only what can change a list *)
(* is left in.                                                             *)
WriteOn(u) ==
    /\ u \in Writers
    /\ acts = MaxActs /\ Quiet
    /\ \E v \in members[u] : ~(members[u] \subseteq members[v])
    /\ Send(u, "hello")
    /\ UNCHANGED <<members, net, requests, joining, acts, history>>

(* join, of a feed someone has shared nearby: a feed is saved with two     *)
(* members ...                                                             *)
Join(u, sharer) ==
    /\ ~HasFeed(u) /\ u # sharer /\ Free(u)
    /\ HasFeed(sharer) \/ sharer \in deleted
    /\ Act
    /\ members' = [members EXCEPT ![u] = {u, sharer}]
    /\ joining' = joining \cup {u}
    /\ UNCHANGED <<unsent, net, requests, history>>

(* ... and then the request to join.                                       *)
Request(u) ==
    /\ u \in joining
    /\ joining' = joining \ {u}
    /\ Send(u, "join")
    /\ UNCHANGED <<members, net, requests, acts, history>>

(* The application ends in between: join finds the feed from now on, and   *)
(* sends nothing.                                                          *)
Halt(u) ==
    /\ u \in joining /\ Act
    /\ joining' = joining \ {u}
    /\ halted' = halted \cup {u}
    /\ UNCHANGED <<members, unsent, net, requests, deleted>>

(* deleteFeedAndMembersAndObjs: also those not encoded, or not processed.  *)
Delete(u) ==
    /\ HasFeed(u) /\ Free(u) /\ Act
    /\ members' = [members EXCEPT ![u] = {}]
    /\ unsent' = {o \in unsent : o.by # u}
    /\ requests' = {r \in requests : r[1] # u}
    /\ deleted' = deleted \cup {u}
    /\ UNCHANGED <<net, joining, halted>>

-----------------------------------------------------------------------------
(* The services                                                            *)

(* Whom a message for one of the recipients names.                         *)
Named(kind, recipients, to) == IF kind \in Blind THEN {to} ELSE recipients

(* Mutant: the sender does not name himself.                               *)
EncodeForOthers(o) ==
    /\ o \in unsent
    /\ unsent' = unsent \ {o}
    /\ net' = net \cup
           {[from |-> o.by, to |-> u, kind |-> o.kind,
             list |-> Named(o.kind, members[o.by] \ {o.by}, u)] : u \in members[o.by] \ {o.by}}
    /\ UNCHANGED <<members, requests, joining, acts, history>>

(* The recipients are the members at the time of encoding.                 *)
Encode(o) ==
    /\ o \in unsent
    /\ unsent' = unsent \ {o}
    /\ net' = net \cup
           {[from |-> o.by, to |-> u, kind |-> o.kind,
             list |-> Named(o.kind, members[o.by], u)] : u \in members[o.by] \ {o.by}}
    /\ UNCHANGED <<members, requests, joining, acts, history>>

(* Mutant: a feed that is there stays as it is.                            *)
ExpandNot(known, m) == IF known = {} THEN m.list \cup {m.from} ELSE known

(* A new feed has the sender and those named; one that is there gets those *)
(* named.                                                                  *)
Expand(known, m) == IF known = {} THEN m.list \cup {m.from} ELSE known \cup m.list

Decode(m) ==
    /\ m \in net
    /\ net' = net \ {m}
    /\ members' = [members EXCEPT ![m.to] = Expand(@, m)]
    /\ requests' = IF m.kind = "join" THEN requests \cup {<<m.to, m.from>>} ELSE requests
    /\ UNCHANGED <<unsent, joining, acts, history>>

(* Mutant: the joiner is attached, and nobody is told.                     *)
IntroduceQuietly(u, joiner) ==
    /\ <<u, joiner>> \in requests
    /\ requests' = requests \ {<<u, joiner>>}
    /\ members' = [members EXCEPT ![u] = @ \cup {joiner}]
    /\ UNCHANGED <<unsent, net, joining, acts, history>>

(* processObjWithRecord: the joiner is attached, and introduced to all the *)
(* members.  An interrupted operation does this again, to the same effect. *)
Introduce(u, joiner) ==
    /\ <<u, joiner>> \in requests
    /\ requests' = requests \ {<<u, joiner>>}
    /\ members' = [members EXCEPT ![u] = @ \cup {joiner}]
    /\ Send(u, "hello")
    /\ UNCHANGED <<net, joining, acts, history>>

Next ==
    \/ \E s \in SUBSET Users : Create(s) \/ \E u \in Users : Add(u, s)
    \/ \E u \in Users, kind \in Kinds : Talk(u, kind)
    \/ \E u \in Users :
          \/ WriteOn(u)
          \/ \E v \in Users : Join(u, v) \/ Introduce(u, v)
          \/ Request(u) \/ Halt(u) \/ Delete(u)
    \/ \E o \in unsent : Encode(o)
    \/ \E m \in net : Decode(m)

Spec == Init /\ [][Next]_vars

(* What is saved is encoded, sent, decoded and processed; a user ends what *)
(* he has begun, and the writers go on.                                    *)
Fairness ==
    /\ \A u \in Users : WF_vars(Request(u)) /\ WF_vars(WriteOn(u))
    /\ \A u \in Users, k \in Kinds : WF_vars(Encode([by |-> u, kind |-> k]))
    /\ \A m \in Messages : WF_vars(Decode(m))
    /\ \A u, v \in Users : WF_vars(Introduce(u, v))

FairSpec == Spec /\ Fairness

-----------------------------------------------------------------------------
(* Properties                                                              *)

ToldOf(u, v) == \E m \in net : m.to = u /\ v \in m.list

(* If a user lists another one, then the other one lists him too, or will, *)
(* by a message on the way or by one that is not encoded yet, unless the   *)
(* other one has deleted the feed (FeedManager.m:132), or the user's       *)
(* application ended between the two saves of join (NearbyFeed.m:133-135). *)
MembersAreMutual ==
    \A u, v \in Users :
        v \in members[u] =>
            \/ u \in members[v] \/ ToldOf(v, u)
            \/ u \in joining \/ \E o \in unsent : o.by = u /\ o.kind \notin Blind
            \/ v \in deleted \/ u \in halted

(* Who joins a feed gets to know all members that somebody he lists knows, *)
(* and they him (JoinRequestObj.m:63-85), unless one of them deletes the   *)
(* feed, or the joiner's application ends too early.                       *)
JoinerMeetsAll ==
    \A u \in Users : \A v \in Users \ {u} :
        (u \in joining /\ \E s \in members[u] : v \in members[s]) ~>
            \/ v \in members[u] /\ u \in members[v]
            \/ ({u, v} \cup members[u]) \cap deleted # {} \/ u \in halted

(* However people were added, at the same time or not, joined, or deleted  *)
(* the feed, and whatever a blind message that arrived first has made      *)
(* (MessageDecodeService.m:249-270): if all who have the feed write on,    *)
(* those who list each other get equal lists.                              *)
ListsAgree == (acts = MaxActs) ~> []Agree
===============================================================================
