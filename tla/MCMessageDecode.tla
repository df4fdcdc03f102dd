--------------------------- MODULE MCMessageDecode ---------------------------
(* Small instances of MessageDecode for TLC.                               *)
EXTENDS MessageDecode, TLC
CONSTANTS r1, r2, r3, r4, p1, p2, p3, p4, fix, exp

(* Two copies of one message and another message in the same feed.         *)
Copies == r1 :> p1 @@ r2 :> p1 @@ r3 :> p2
OneExpandingFeed == p1 :> exp @@ p2 :> exp

(* Four messages; all but the first do not get as far as an object.        *)
Distinct == r1 :> p1 @@ r2 :> p2 @@ r3 :> p3 @@ r4 :> p4
OneFixedFeed == p1 :> fix @@ p2 :> None @@ p3 :> None @@ p4 :> None
=============================================================================
