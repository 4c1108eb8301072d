----------------------------- MODULE MCImportRun -----------------------------
(* ImportRun for TLC. *)
EXTENDS ImportRun, TLC

CONSTANTS w1, w2, gone

\* Two speakers, one of them with an address, and two sessions of the other's.
Small == {1, 2, 3, 4}
SmallPhase == <<2, 2, 3, 3>>
SmallCast == [e \in {3, 4} |-> {1}]
OwnIds == [e \in Entities |-> e]
\* A room and a session whose numbers are the same.
Three == {1, 2, 3}
SameIds == <<1, 2, 1>>
RoomPhase == <<1, 2, 3>>
RoomCast == [e \in {3} |-> {2}]
\* One invocation is like the other.
Alike == Permutations({w1, w2})
=============================================================================
