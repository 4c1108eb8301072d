------------------------------ MODULE ClaimKey ------------------------------
(***************************************************************************)
(* What one ClaimGuard Durable Object stores for its key, and what its two *)
(* requests do to it, as operators: the ClaimGuard module turns them into  *)
(* a service of its own, and the sweeps that take leases (Outbox,          *)
(* Prescreen, ...) apply them to the keys they claim.                      *)
(*                                                                         *)
(* The code stores the instant a claim expires and compares it with the    *)
(* object's clock.  The model stores the time LEFT, so expiresAt > at is   *)
(* left > 0 and a tick of the clock counts every live lease down.  No run  *)
(* needs a last instant then.                                              *)
(***************************************************************************)
EXTENDS Naturals

CONSTANTS Holders,   \* the identities that can appear in a ClaimRequest
          NoHolder   \* stands for the absence of one

ASSUME NoHolderAssumption == NoHolder \notin Holders

\* storage.get(CLAIM_KEY) when nothing is stored.
NoClaim == [holder |-> NoHolder, left |-> 0]

Claims == [holder : Holders, left : Nat] \cup {NoClaim}

\* existing !== undefined && existing.expiresAt > at
Live(claim) == claim.left > 0

\* Mutant of Grants: the record is not compared with the caller.
GrantsAnybody(claim, h) == TRUE

\* The answer to /claim: a live record refuses everybody but its own holder.
Grants(claim, h) == Live(claim) => claim.holder = h

\* The record after /claim.  A repeat by the live holder does not extend it.
AfterClaim(claim, h, ttl) ==
    IF Live(claim) THEN claim ELSE [holder |-> h, left |-> ttl]

\* The answer to /release, and the record after it: only its holder, live or
\* lapsed, removes a record.
Releases(claim, h) == claim.holder = h

\* Mutants of AfterRelease: the holder check dropped, the expiry left behind.
AfterAnyRelease(claim, h) == NoClaim
AfterHalfRelease(claim, h) ==
    IF Releases(claim, h) THEN [claim EXCEPT !.holder = NoHolder] ELSE claim

AfterRelease(claim, h) == IF Releases(claim, h) THEN NoClaim ELSE claim

\* One tick of the clock on a duration, and on a record.
Less(t) == IF t = 0 THEN 0 ELSE t - 1
Aged(claim) == [claim EXCEPT !.left = Less(@)]
=============================================================================
