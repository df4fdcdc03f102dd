--------------------------- MODULE MCObjProcessor ----------------------------
(* Small instances of ObjProcessor for TLC.                                *)
EXTENDS ObjProcessor, TLC
CONSTANTS p, c1, c2, d

(* A picture and two replies to it.  Times are in tenths of a second; c1,  *)
(* where it is the user's own, has a fraction.                             *)
Replies == p :> None @@ c1 :> p @@ c2 :> p
NoDeletions == p :> None @@ c1 :> None @@ c2 :> None
Replied == p :> 10 @@ c1 :> 39 @@ c2 :> 30

(* The same, and the deletion of the picture.                              *)
Thread == Replies @@ d :> None
DeletesPicture == NoDeletions @@ d :> p
ThreadTimes == Replied @@ d :> 40
=============================================================================
