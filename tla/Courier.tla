-------------------------------- MODULE Courier --------------------------------
(***************************************************************************)
(* What the path of a message promises to the user at either end of it,    *)
(* without the services, the stores and the broker in between: what one    *)
(* writes the other is shown, once.  Failures can take away from the       *)
(* receiver what he was shown, but never from the sender what he has       *)
(* written; they alone can excuse that an object is shown again, or not at *)
(* all.                                                                    *)
(***************************************************************************)
CONSTANTS
    Objs

VARIABLES
    written,   \* the objects the sender has in the feed
    screen,    \* what the receiver is shown of them: <<object, copy>>
    again,     \* objects that may be shown again
    lapsed     \* objects that may not be shown at all

vars == <<written, screen, again, lapsed>>

Seen == {c[1] : c \in screen}

Init ==
    /\ written = {} /\ screen = {}
    /\ again = {} /\ lapsed = {}

Write(o) ==
    /\ o \notin written
    /\ written' = written \cup {o}
    /\ UNCHANGED <<screen, again, lapsed>>

Show(o) ==
    /\ o \in written
    /\ o \in Seen => o \in again
    /\ \E c \in screen' : c[1] = o /\ c \notin screen /\ screen' = screen \cup {c}
    /\ UNCHANGED <<written, again, lapsed>>

(* An operation fails, or an application ends and starts again with an     *)
(* older store: the receiver's may lack what was shown.  What a failure    *)
(* excuses it excuses for good, and only of what was written before.       *)
Trouble ==
    /\ screen' \subseteq screen
    /\ \E more \in SUBSET written : again' = again \cup more
    /\ \E more \in SUBSET written : lapsed' = lapsed \cup more
    /\ UNCHANGED written

Next ==
    \/ \E o \in Objs : Write(o) \/ Show(o)
    \/ Trouble

Spec == Init /\ [][Next]_vars
===============================================================================
