--------------------------- MODULE MCMessageEncode ---------------------------
(* Small instances of MessageEncode for TLC.                               *)
EXTENDS MessageEncode, TLC
CONSTANTS o1, o2, s, r1, r2, q0, q1

OneSender == [o \in Objs |-> s]

(* A profile for everybody and an object; one of two recipients gets both. *)
SharedRcpt == o1 :> {r1, r2} @@ o2 :> {r1}
BothQueues == o1 :> q0 @@ o2 :> q1

(* Objects of one queue, for one recipient.                                *)
OneRcpt == [o \in Objs |-> {r1}]
SecondQueue == [o \in Objs |-> q1]
=============================================================================
