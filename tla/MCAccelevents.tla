---------------------------- MODULE MCAccelevents ----------------------------
(* AcceleventsSync for TLC. *)
EXTENDS AcceleventsSync

CONSTANTS h1, h2

One == {1}
Two == {1, 2}
Three == {1, 2, 3}
All == <<"taxonomy", "speaker", "submission">>
FullCast == <<{}, {}, {1, 2}>>
TagAndSession == <<"taxonomy", "submission">>
Session == [e \in {1} |-> "submission"]
SpeakerAndSession == <<"speaker", "submission">>
Tag == [e \in {1} |-> "taxonomy"]
NoNeeds == [e \in Entities |-> {}]
Cast == <<{}, {1}>>
=============================================================================
