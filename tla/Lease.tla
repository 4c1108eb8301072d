------------------------------- MODULE Lease --------------------------------
(***************************************************************************)
(* What claimOnce promises, without a clock, a record or an alarm: every   *)
(* key has at most one owner, takes one only while it has none, and loses  *)
(* it by a release or by time.  A key never passes from one owner to the   *)
(* next without having been free.  One step may touch several keys, as     *)
(* time does.                                                              *)
(***************************************************************************)
CONSTANTS LeaseKeys, Holders, NoHolder

VARIABLE owner

Init == owner = [k \in LeaseKeys |-> NoHolder]

Acquire(k, h) == owner[k] = NoHolder /\ owner'[k] = h

GiveUp(k) == owner[k] # NoHolder /\ owner'[k] = NoHolder

Keep(k) == owner'[k] = owner[k]

Next == \A k \in LeaseKeys : Keep(k) \/ GiveUp(k) \/ \E h \in Holders : Acquire(k, h)

Spec == Init /\ [][Next]_owner
=============================================================================
