------------------------------- MODULE Outbox -------------------------------
(***************************************************************************)
(* The email outbox: producers that queue messages, and sweeps that send   *)
(* them.                                                                   *)
(*                                                                         *)
(* A row of the EmailOutbox table is one message.  Airtable offers neither *)
(* a transaction nor a compare-and-swap, so every read and every write of  *)
(* a row is a step of its own and anything may happen between two of them. *)
(* What grants the right to send is the row's key in the ClaimGuard        *)
(* (claim), a lease of Lease ticks from the moment of the claim.  The      *)
(* lease COLUMNS of a row (holder, left) only record that decision: the    *)
(* listing skips a row whose recorded lease has not lapsed, and a sender   *)
(* re-reads the holder before it writes an outcome (the fence).            *)
(*                                                                         *)
(* A sweep is one invocation of the reminders job, with a holder of its    *)
(* own.  It lists the due rows once and works through that listing, so all *)
(* it knows of a row (seen) may be stale when it gets to it.  A model has  *)
(* finitely many holders, so an identity is used again once no key and no  *)
(* row records it any more.                                                *)
(*                                                                         *)
(* Every call can fail: refused, or carried out with its answer lost.  An  *)
(* Airtable refusal carries an HTTP status like the provider's does.  A    *)
(* sweep can die between any two calls.                                    *)
(***************************************************************************)
EXTENDS ClaimKey, Integers, FiniteSets

CONSTANTS Keys,         \* idempotency keys, numbered in the order of sendAt
          Producers,    \* callers of enqueueEmails
          MaxAttempts,  \* MAX_ATTEMPTS of the drain
          Lease,        \* LEASE_MS, in ticks
          Limit,        \* DRAIN_LIMIT, the rows one sweep lists
          Overlap       \* may a sweep start while another one is running?

ASSUME KeysAssumption == Keys \subseteq Nat
ASSUME MaxAttemptsAssumption == MaxAttempts \in Nat \ {0}
ASSUME LeaseAssumption == Lease \in Nat \ {0}
ASSUME LimitAssumption == Limit \in Nat \ {0}
ASSUME OverlapAssumption == Overlap \in BOOLEAN

VARIABLES row,       \* [Keys -> the row's columns, or Absent]
          claim,     \* [Keys -> the ClaimGuard record of outbox:<row>]
          sweep,     \* [Holders -> where that invocation is]
          producer,  \* [Producers -> the keys it found missing and will upsert]
          accepted,  \* the keys whose message the mail provider accepted
          calls      \* [Keys -> calls of the provider so far], a history variable

vars == <<row, claim, sweep, producer, accepted, calls>>

Statuses == {"queued", "sending", "sent", "failed", "dead"}

Absent == [status |-> "absent", attempts |-> 0, holder |-> NoHolder, left |-> 0]
Rows == [status : Statuses, attempts : 0 .. MaxAttempts,
         holder : Holders \cup {NoHolder}, left : 0 .. Lease] \cup {Absent}

\* The calls a sweep makes for a row, in order; each is about to be made.
Stages == {"idle", "claim", "reap", "record", "send", "fence", "mark", "catch", "fail"}

Idle == [pc |-> "idle", due |-> {}, seen |-> [k \in Keys |-> 0],
         age |-> 0, permanent |-> FALSE, overtaken |-> FALSE]

TypeOK ==
    /\ row \in [Keys -> Rows]
    /\ claim \in [Keys -> Claims]
    /\ sweep \in [Holders -> [pc : Stages, due : SUBSET Keys,
                              seen : [Keys -> 0 .. MaxAttempts], age : 0 .. Lease,
                              permanent : BOOLEAN, overtaken : BOOLEAN]]
    /\ producer \in [Producers -> SUBSET Keys]
    /\ accepted \subseteq Keys
    /\ calls \in [Keys -> Nat]

Init ==
    /\ row = [k \in Keys |-> Absent]
    /\ claim = [k \in Keys |-> NoClaim]
    /\ sweep = [s \in Holders |-> Idle]
    /\ producer = [p \in Producers |-> {}]
    /\ accepted = {}
    /\ calls = [k \in Keys |-> 0]
-----------------------------------------------------------------------------
\* The row a sweep is at: the oldest of those left of its listing.
Current(s) == CHOOSE k \in sweep[s].due : \A j \in sweep[s].due : k <= j

(* Producers: enqueueEmails reads which keys exist, then upserts the rest.  *)

\* Mutant of Missing: every key is written, whether the outbox holds it or not.
Wanted(keys) == keys

Missing(keys) == {k \in keys : row[k] = Absent}

ReadKeys(p) ==
    /\ producer[p] = {}
    /\ \E keys \in SUBSET Keys : producer' = [producer EXCEPT ![p] = Missing(keys)]
    /\ UNCHANGED <<row, claim, sweep, accepted, calls>>

\* The sweeps, those marked that are about to write an outcome of a row in keys
\* while somebody else, not s, writes that row.
Overtaken(keys, s) ==
    [t \in Holders |-> IF t # s /\ sweep[t].pc \in {"mark", "fail"} /\ Current(t) \in keys
                         THEN [sweep[t] EXCEPT !.overtaken = TRUE]
                         ELSE sweep[t]]

\* outboxFields, the create shape: on a row that exists by now it resets status
\* and attempts and leaves the lease columns.
Queued(r) == [status |-> "queued", attempts |-> 0, holder |-> r.holder, left |-> r.left]

\* A batch may fail after some of its rows.
Upsert(p) ==
    /\ producer[p] # {}
    /\ \E landed \in SUBSET producer[p] :
         /\ row' = [k \in Keys |-> IF k \in landed THEN Queued(row[k]) ELSE row[k]]
         /\ sweep' = Overtaken(landed, NoHolder)
    /\ producer' = [producer EXCEPT ![p] = {}]
    /\ UNCHANGED <<claim, accepted, calls>>
-----------------------------------------------------------------------------
(* A sweep.                                                                 *)

Oldest(keys, n) == {k \in keys : Cardinality({j \in keys : j < k}) < n}

\* The attempt this send would be, by what the listing said.
Attempt(s) == sweep[s].seen[Current(s)] + 1

\* The sweep after it is done with its row: the next one, or the end.
Done(s) ==
    LET rest == sweep[s].due \ {Current(s)}
    IN  IF rest = {} THEN Idle
        ELSE [sweep[s] EXCEPT !.pc = "claim", !.due = rest, !.seen[Current(s)] = 0,
                              !.permanent = FALSE, !.overtaken = FALSE]

At(s, stage) == sweep[s].pc = stage
Goto(s, stage) == [sweep[s] EXCEPT !.pc = stage]
Thrown(s, permanent) == [sweep[s] EXCEPT !.pc = "catch", !.permanent = permanent,
                                         !.overtaken = FALSE]

MoveTo(s, next) == sweep' = [sweep EXCEPT ![s] = next]

\* Write the current row: carried out and answered, carried out with the answer
\* lost, or refused.
Write(s, new, next, thrown) ==
    LET k == Current(s)
        landed(after) == /\ row' = [row EXCEPT ![k] = new]
                         /\ sweep' = [Overtaken({k}, s) EXCEPT ![s] = after]
    IN  \/ landed(next)
        \/ \E after \in thrown : landed(after)
        \/ \E after \in thrown : MoveTo(s, after) /\ UNCHANGED row

\* outboxOutcomeFields: an outcome clears the lease columns.
Outcome(status, attempts) ==
    [status |-> status, attempts |-> attempts, holder |-> NoHolder, left |-> 0]

\* Mutant of Due: a row somebody began to send is not listed again.
DueUntried(k) == row[k].status \in {"queued", "failed"} /\ row[k].left = 0

\* dueOutboxRows: unfinished, and no recorded lease that still runs.
Due(k) == row[k].status \in {"queued", "failed", "sending"} /\ row[k].left = 0

\* Every invocation has a holder nobody has seen.  A lapsed record in the guard
\* is as good as none, whoever it names.
Fresh(s) == \A k \in Keys : row[k].holder # s /\ ~ (Live(claim[k]) /\ claim[k].holder = s)

List(s) ==
    /\ At(s, "idle")
    /\ Fresh(s)
    /\ Overlap \/ \A t \in Holders : At(t, "idle")
    /\ LET due == Oldest({k \in Keys : Due(k)}, Limit)
       IN  /\ due # {}
           /\ MoveTo(s, [Idle EXCEPT !.pc = "claim", !.due = due,
                           !.seen = [k \in Keys |-> IF k \in due THEN row[k].attempts ELSE 0]])
    /\ UNCHANGED <<row, claim, producer, accepted, calls>>

\* Mutant of Granted: nothing is reaped.
GrantedUncapped(s) ==
    /\ At(s, "claim")
    /\ Grants(claim[Current(s)], s)
    /\ claim' = [claim EXCEPT ![Current(s)] = AfterClaim(@, s, Lease)]
    /\ MoveTo(s, Goto(s, "record"))
    /\ UNCHANGED <<row, producer, accepted, calls>>

\* claimOnce on the current row.  Granted, a row whose listed attempts reached
\* the cap is reaped and any other sent; denied, the row is skipped; thrown,
\* the sweep is over, whether the guard granted or not.
Granted(s) ==
    /\ At(s, "claim")
    /\ Grants(claim[Current(s)], s)
    /\ claim' = [claim EXCEPT ![Current(s)] = AfterClaim(@, s, Lease)]
    /\ MoveTo(s, Goto(s, IF sweep[s].seen[Current(s)] >= MaxAttempts THEN "reap" ELSE "record"))
    /\ UNCHANGED <<row, producer, accepted, calls>>

Denied(s) ==
    /\ At(s, "claim")
    /\ ~ Grants(claim[Current(s)], s)
    /\ claim' = [claim EXCEPT ![Current(s)] = AfterClaim(@, s, Lease)]
    /\ MoveTo(s, Done(s))
    /\ UNCHANGED <<row, producer, accepted, calls>>

ClaimThrows(s) ==
    /\ At(s, "claim")
    /\ \/ UNCHANGED claim
       \/ claim' = [claim EXCEPT ![Current(s)] = AfterClaim(@, s, Lease)]
    /\ MoveTo(s, Idle)
    /\ UNCHANGED <<row, producer, accepted, calls>>

\* The reap is not fenced and not in the try: a throw ends the sweep.
Reap(s) ==
    /\ At(s, "reap")
    /\ Write(s, Outcome("dead", sweep[s].seen[Current(s)]), Done(s), {Idle})
    /\ UNCHANGED <<claim, producer, accepted, calls>>

\* Mutant of Record: the attempt is counted only with its outcome.
RecordUncounted(s) ==
    /\ At(s, "record")
    /\ Write(s, [status |-> "sending", attempts |-> sweep[s].seen[Current(s)], holder |-> s,
                  left |-> Lease - sweep[s].age],
             Goto(s, "send"), {Thrown(s, p) : p \in BOOLEAN})
    /\ UNCHANGED <<claim, producer, accepted, calls>>

\* The attempt and the lease are recorded before the provider is called; the
\* lease counts from the start of the sweep.
Record(s) ==
    /\ At(s, "record")
    /\ Write(s, [status |-> "sending", attempts |-> Attempt(s), holder |-> s,
                  left |-> Lease - sweep[s].age],
             Goto(s, "send"), {Thrown(s, p) : p \in BOOLEAN})
    /\ UNCHANGED <<claim, producer, accepted, calls>>

\* Building the attachments fails, and the provider is not called.
AttachmentsFail(s) ==
    /\ At(s, "send")
    /\ \E p \in BOOLEAN : MoveTo(s, Thrown(s, p))
    /\ UNCHANGED <<row, claim, producer, accepted, calls>>

\* Mutant of Send: the response is not checked for a refusal.
SendUnchecked(s) ==
    /\ At(s, "send")
    /\ calls' = [calls EXCEPT ![Current(s)] = @ + 1]
    /\ accepted' \in {accepted, accepted \cup {Current(s)}}
    /\ MoveTo(s, Goto(s, "fence"))
    /\ UNCHANGED <<row, claim, producer>>

\* The provider accepts, with or without the answer arriving, or refuses, for
\* now or for good.  It collapses what carries an idempotency key it knows.
Send(s) ==
    /\ At(s, "send")
    /\ calls' = [calls EXCEPT ![Current(s)] = @ + 1]
    /\ \/ /\ accepted' = accepted \cup {Current(s)}
          /\ MoveTo(s, Goto(s, "fence")) \/ MoveTo(s, Thrown(s, FALSE))
       \/ /\ \E p \in BOOLEAN : MoveTo(s, Thrown(s, p))
          /\ UNCHANGED accepted
    /\ UNCHANGED <<row, claim, producer>>

\* Mutant of StillHolds: nobody looks who holds the row now.
HoldsAnyway(s) == TRUE

\* stillHolds: does the row still record this sweep?  A read that fails says no.
StillHolds(s) == row[Current(s)].holder = s

Fence(s, from, to) ==
    /\ At(s, from)
    /\ \/ StillHolds(s) /\ MoveTo(s, [Goto(s, to) EXCEPT !.overtaken = FALSE])
       \/ MoveTo(s, Done(s))
    /\ UNCHANGED <<row, claim, producer, accepted, calls>>

MarkSent(s) ==
    /\ At(s, "mark")
    /\ Write(s, Outcome("sent", Attempt(s)), Done(s), {Thrown(s, p) : p \in BOOLEAN})
    /\ UNCHANGED <<claim, producer, accepted, calls>>

MarkFailed(s) ==
    /\ At(s, "fail")
    /\ LET dead == Attempt(s) >= MaxAttempts \/ sweep[s].permanent
       IN  Write(s, Outcome(IF dead THEN "dead" ELSE "failed", Attempt(s)), Done(s), {Idle})
    /\ UNCHANGED <<claim, producer, accepted, calls>>

\* The worker is gone.
Die(s) ==
    /\ ~ At(s, "idle")
    /\ MoveTo(s, Idle)
    /\ UNCHANGED <<row, claim, producer, accepted, calls>>

Tick ==
    /\ row' = [k \in Keys |-> [row[k] EXCEPT !.left = Less(@)]]
    /\ claim' = [k \in Keys |-> Aged(claim[k])]
    /\ sweep' = [s \in Holders |->
                   IF At(s, "idle") \/ sweep[s].age = Lease THEN sweep[s]
                   ELSE [sweep[s] EXCEPT !.age = @ + 1]]
    /\ UNCHANGED <<producer, accepted, calls>>

Next ==
    \/ \E p \in Producers : ReadKeys(p) \/ Upsert(p)
    \/ \E s \in Holders :
         \/ List(s) \/ Granted(s) \/ Denied(s) \/ ClaimThrows(s)
         \/ Reap(s) \/ Record(s) \/ AttachmentsFail(s) \/ Send(s)
         \/ Fence(s, "fence", "mark") \/ MarkSent(s)
         \/ Fence(s, "catch", "fail") \/ MarkFailed(s)
         \/ Die(s)
    \/ Tick

Spec == Init /\ [][Next]_vars

\* The cron trigger starts a sweep again and again, a sweep that is not killed
\* goes on, time passes, and the guard and Airtable are not down forever.
FairSpec ==
    /\ Spec
    /\ WF_vars(Tick)
    /\ WF_vars(\E s \in Holders : List(s))
    /\ \A s \in Holders :
         /\ WF_vars(\/ Denied(s) \/ Send(s) \/ MarkSent(s) \/ MarkFailed(s)
                    \/ Fence(s, "fence", "mark") \/ Fence(s, "catch", "fail"))
         /\ SF_vars(Granted(s))
         /\ SF_vars(Reap(s) /\ row' # row)
         /\ SF_vars(Record(s) /\ row' # row)
-----------------------------------------------------------------------------
(***************************************************************************)
(* No row claims a delivery that did not happen: a row recorded as sent is *)
(* one whose message the provider accepted, whatever sweeps overlapped,    *)
(* died, or wrote late.                                                    *)
(***************************************************************************)
SentWasDelivered == \A k \in Keys : row[k].status = "sent" => k \in accepted

(***************************************************************************)
(* Every call of the provider was counted on the row before it was made,   *)
(* so a sender that dies in mid-flight has spent an attempt and the cap    *)
(* bounds the calls.  For sweeps that do not overlap.                      *)
(***************************************************************************)
CallsCounted == \A k \in Keys : calls[k] <= row[k].attempts

(***************************************************************************)
(* A recorded outcome is final: a row that is sent or dead is never queued *)
(* again, re-leased or given another outcome.                              *)
(***************************************************************************)
OutcomeStays ==
    [][\A k \in Keys : row[k].status \in {"sent", "dead"} => row'[k].status = row[k].status]_vars

(***************************************************************************)
(* The fence: a row recorded as sent becomes failed only through a sender  *)
(* that was overtaken between its fence read and its write, the narrow     *)
(* window Airtable leaves open; one that lost its lease earlier finds out. *)
(***************************************************************************)
OnlyOvertakenRegress ==
    [][\A k \in Keys : row[k].status = "sent" /\ row'[k].status = "failed" =>
         \E s \in Holders : sweep[s].pc = "fail" /\ sweep[s].overtaken]_vars

(***************************************************************************)
(* A queued message is not stranded: whatever crashes and whatever calls   *)
(* fail, its row is recorded as sent or dead in the end.                   *)
(***************************************************************************)
QueuedMailSettles ==
    \A k \in Keys : row[k] # Absent ~> row[k].status \in {"sent", "dead"}

(***************************************************************************)
(* For sweeps that do not overlap and one producer at a time, a row is the *)
(* message an organizer expects it to be.                                  *)
(***************************************************************************)
OutcomeOf(k) ==
    CASE row[k] = Absent                          -> "none"
      [] row[k].status \in {"sent", "dead"}       -> row[k].status
      [] OTHER                                    -> "underway"

M == INSTANCE Message WITH
    Messages <- Keys,
    outcome <- [k \in Keys |-> OutcomeOf(k)],
    delivered <- accepted

ImplementsMessage == M!Spec
=============================================================================
