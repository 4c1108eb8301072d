---------------------------- MODULE MCClaimGuard ----------------------------
(* ClaimGuard for TLC: three callers, a short and a long lease, an alarm    *)
(* that comes one tick after the expiry.                                    *)
EXTENDS ClaimGuard

CONSTANTS h1, h2, h3

MCHolders == {h1, h2, h3}
MCTtls == {1, 3}
=============================================================================
