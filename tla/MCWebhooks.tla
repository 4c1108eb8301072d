----------------------------- MODULE MCWebhooks -----------------------------
(* Webhooks for TLC. *)
EXTENDS Webhooks

CONSTANTS s1, s2, gone, a1, w1, w2

OneEach == <<w1, w2>>
First == <<w1>>
=============================================================================
