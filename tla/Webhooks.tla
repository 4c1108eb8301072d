------------------------------ MODULE Webhooks ------------------------------
(***************************************************************************)
(* Webhooks: announcements queue one delivery per subscription, sweeps     *)
(* POST them, and a subscription may be deleted at any time.               *)
(*                                                                         *)
(* A delivery row is leased, counted and fenced like a row of the email    *)
(* outbox.  What is different: the listing joins the endpoint on, and      *)
(* retires the deliveries that lost theirs, without a lease; a POST that   *)
(* fails is a result and not an exception; the outcome is two writes, the  *)
(* delivery and then the subscription's health, and a failure of the       *)
(* second one lands in the same catch as everything else; and an outcome   *)
(* leaves leaseExpiresAt as it was, which spaces the retries.              *)
(*                                                                         *)
(* The health columns decide nothing, so the second write appears only as  *)
(* a call that may fail.  Calls fail as they do in Outbox, MaxFaults times *)
(* in all, receivers as often as they like; a read that fails before the   *)
(* claims ends the sweep, like a death.                                    *)
(***************************************************************************)
EXTENDS ClaimKey, Integers, FiniteSets

CONSTANTS Deliveries,   \* delivery keys, numbered in the order of sendAt
          Subs,         \* subscriptions
          SubOf,        \* [Deliveries -> Subs]
          Announcers,   \* callers of enqueueWebhookEvent, one occurrence at a time
          MaxAttempts,  \* WEBHOOK_MAX_ATTEMPTS
          Lease,        \* WEBHOOK_LEASE_MS, in ticks
          Limit,        \* DRAIN_LIMIT
          Gone,         \* the holder that stands for every sweep that is over
          MaxFaults,    \* failed calls and deaths, all told
          Overlap       \* may a sweep start while another one is running?

ASSUME DeliveriesAssumption == Deliveries \subseteq Nat /\ SubOf \in [Deliveries -> Subs]
ASSUME GoneAssumption == Gone \in Holders
ASSUME BoundsAssumption ==
    /\ MaxAttempts \in Nat \ {0}
    /\ Lease \in Nat \ {0}
    /\ Limit \in Nat \ {0}
    /\ MaxFaults \in Nat
    /\ Overlap \in BOOLEAN

Sweeps == Holders \ {Gone}

VARIABLES row,        \* [Deliveries -> the row's columns, or Absent]
          subs,       \* the subscriptions that exist
          claim,      \* [Deliveries -> the ClaimGuard record of webhook-delivery:<row>]
          sweep,      \* [Sweeps -> where that invocation is]
          announcer,  \* [Announcers -> the deliveries it found missing and will upsert]
          accepted,   \* the deliveries their receiver answered 2xx, or took unanswered
          faults,     \* what is left of MaxFaults
          posts       \* [Deliveries -> POSTs so far], a history variable

vars == <<row, subs, claim, sweep, announcer, accepted, faults, posts>>

Statuses == {"queued", "sending", "sent", "failed", "dead"}

Absent == [status |-> "absent", attempts |-> 0, holder |-> NoHolder, left |-> 0]
Rows == [status : Statuses, attempts : 0 .. MaxAttempts,
         holder : Holders \cup {NoHolder}, left : 0 .. Lease] \cup {Absent}

\* The calls of a sweep; each is about to be made.  "outcome" and "health" are
\* the two writes of an outcome, inside the try or after its catch.
Stages == {"idle", "join", "retire", "claim", "record", "post", "fence",
           "outcome", "health", "catch"}
Verdicts == {"none", "sent", "failed", "dead"}

Idle == [pc |-> "idle", due |-> {}, orphans |-> {}, seen |-> [d \in Deliveries |-> 0],
         verdict |-> "none", try |-> FALSE, overtaken |-> FALSE, age |-> 0]

TypeOK ==
    /\ row \in [Deliveries -> Rows]
    /\ subs \subseteq Subs
    /\ claim \in [Deliveries -> Claims]
    /\ sweep \in [Sweeps -> [pc : Stages, due : SUBSET Deliveries, orphans : SUBSET Deliveries,
                              seen : [Deliveries -> 0 .. MaxAttempts], verdict : Verdicts,
                              try : BOOLEAN, overtaken : BOOLEAN, age : 0 .. Lease]]
    /\ announcer \in [Announcers -> SUBSET Deliveries]
    /\ accepted \subseteq Deliveries
    /\ faults \in 0 .. MaxFaults
    /\ posts \in [Deliveries -> Nat]

Init ==
    /\ row = [d \in Deliveries |-> Absent]
    /\ subs = Subs
    /\ claim = [d \in Deliveries |-> NoClaim]
    /\ sweep = [s \in Sweeps |-> Idle]
    /\ announcer = [a \in Announcers |-> {}]
    /\ accepted = {}
    /\ faults = MaxFaults
    /\ posts = [d \in Deliveries |-> 0]
-----------------------------------------------------------------------------
At(s, stage) == sweep[s].pc = stage
Current(s) == CHOOSE d \in sweep[s].due : \A e \in sweep[s].due : d <= e
Goto(s, stage) == [sweep[s] EXCEPT !.pc = stage]
Become(s, next) == sweep' = [sweep EXCEPT ![s] = next]

\* What goes wrong uses up the budget.
Fault == faults > 0 /\ faults' = faults - 1
Fine == UNCHANGED faults

Oldest(ds, n) == {d \in ds : Cardinality({e \in ds : e < d}) < n}

Done(s) ==
    LET rest == sweep[s].due \ {Current(s)}
    IN  IF rest = {} THEN Idle
        ELSE [sweep[s] EXCEPT !.pc = "claim", !.due = rest, !.seen[Current(s)] = 0,
                              !.verdict = "none", !.try = FALSE, !.overtaken = FALSE]

\* A throw inside the try goes to its catch, any other one ends the sweep.
Thrown(s) == IF sweep[s].try THEN [Goto(s, "catch") EXCEPT !.overtaken = FALSE] ELSE Idle

\* The sweeps, those marked that are about to write an outcome of a row in ds
\* while somebody else, not s, writes that row.
Overtaken(ds, s) ==
    [t \in Sweeps |-> IF t # s /\ At(t, "outcome") /\ Current(t) \in ds
                         THEN [sweep[t] EXCEPT !.overtaken = TRUE] ELSE sweep[t]]

\* Write rows ds of sweep s: answered, answer lost, refused.
Write(s, ds, new, answered, thrown) ==
    LET landed(after) == /\ row' = [d \in Deliveries |-> IF d \in ds THEN new[d] ELSE row[d]]
                         /\ sweep' = [Overtaken(ds, s) EXCEPT ![s] = after]
    IN  \/ landed(answered) /\ Fine
        \/ landed(thrown) /\ Fault
        \/ Become(s, thrown) /\ Fault /\ UNCHANGED row

(* Announcing, and deleting a subscription.                                 *)

\* Mutant of Missing: every delivery is written, whether there is one or not.
Wanted(ds) == ds

Missing(ds) == {d \in ds : row[d] = Absent}

\* The matching subscriptions are read first and the existing keys after them,
\* which is as if the keys were read of subscriptions that may be gone by now.
ReadKeys(a) ==
    /\ announcer[a] = {}
    /\ \E ds \in SUBSET {d \in Deliveries : SubOf[d] \in subs} :
         announcer' = [announcer EXCEPT ![a] = Missing(ds)]
    /\ UNCHANGED <<row, subs, claim, sweep, accepted, faults, posts>>

\* The create shape, which leaves the lease columns of a row that exists by now.
Queued(r) == [status |-> "queued", attempts |-> 0, holder |-> r.holder, left |-> r.left]

\* A batch may fail after some of its rows, and no row can link to a record
\* that is gone.
Upsert(a) ==
    /\ announcer[a] # {}
    /\ \E landed \in SUBSET {d \in announcer[a] : SubOf[d] \in subs} :
         /\ row' = [d \in Deliveries |-> IF d \in landed THEN Queued(row[d]) ELSE row[d]]
         /\ sweep' = Overtaken(landed, NoHolder)
    /\ announcer' = [announcer EXCEPT ![a] = {}]
    /\ UNCHANGED <<subs, claim, accepted, faults, posts>>

DeleteWebhook(w) ==
    /\ w \in subs
    /\ subs' = subs \ {w}
    /\ UNCHANGED <<row, claim, sweep, announcer, accepted, faults, posts>>
-----------------------------------------------------------------------------
(* A sweep: the listing.                                                    *)

\* Mutant of Due: a row somebody began to send is not listed again.
DueUntried(d) == row[d].status \in {"queued", "failed"} /\ row[d].left = 0

Due(d) == row[d].status \in {"queued", "failed", "sending"} /\ row[d].left = 0

\* Every invocation has a holder nobody has seen: what records the identity it is
\* given here records a sweep that is over.
Forget(s, holder) == IF holder = s THEN Gone ELSE holder

\* All that is due is read, and the limit comes after the join.
List(s) ==
    /\ At(s, "idle")
    /\ Overlap \/ \A t \in Sweeps : At(t, "idle")
    /\ LET due == {d \in Deliveries : Due(d)}
       IN  /\ due # {}
           /\ Become(s, [Idle EXCEPT !.pc = "join", !.due = due,
                           !.seen = [d \in Deliveries |-> IF d \in due THEN row[d].attempts ELSE 0]])
    /\ row' = [d \in Deliveries |-> [row[d] EXCEPT !.holder = Forget(s, @)]]
    /\ claim' = [d \in Deliveries |-> [claim[d] EXCEPT !.holder = Forget(s, @)]]
    /\ UNCHANGED <<subs, announcer, accepted, faults, posts>>

\* The sweep with its rows to send: the seen attempts of the others are dropped.
Sending(s, due) ==
    IF due = {} THEN Idle
    ELSE [sweep[s] EXCEPT !.pc = "claim", !.due = due, !.orphans = {},
                          !.seen = [d \in Deliveries |-> IF d \in due THEN @[d] ELSE 0]]

Join(s) ==
    /\ At(s, "join")
    /\ LET orphans == {d \in sweep[s].due : SubOf[d] \notin subs}
           deliverable == Oldest(sweep[s].due \ orphans, Limit)
       IN  Become(s, IF orphans = {} THEN Sending(s, deliverable)
                     ELSE [Goto(s, "retire") EXCEPT !.due = deliverable,
                                                    !.orphans = Oldest(orphans, Limit)])
    /\ UNCHANGED <<row, subs, claim, announcer, accepted, faults, posts>>

Retired(d) == [row[d] EXCEPT !.status = "dead", !.holder = NoHolder]

\* Mutant of Retire: orphans are dropped from the listing and nothing is written.
RetireNothing(s) ==
    /\ At(s, "retire")
    /\ Become(s, Sending(s, sweep[s].due))
    /\ UNCHANGED <<row, subs, claim, announcer, accepted, faults, posts>>

\* Without a lease, and without reading the rows again.
Retire(s) ==
    /\ At(s, "retire")
    /\ \E landed \in SUBSET sweep[s].orphans :
         /\ row' = [d \in Deliveries |-> IF d \in landed THEN Retired(d) ELSE row[d]]
         /\ \/ /\ landed = sweep[s].orphans
               /\ sweep' = [Overtaken(landed, s) EXCEPT ![s] = Sending(s, sweep[s].due)]
               /\ Fine
            \/ sweep' = [Overtaken(landed, s) EXCEPT ![s] = Idle] /\ Fault
    /\ UNCHANGED <<subs, claim, announcer, accepted, posts>>

Attempt(s) == sweep[s].seen[Current(s)] + 1

\* Granted, a row whose listed attempts reached the cap is reaped, and any other
\* one sent; denied, it is skipped; thrown, the sweep is over.
Claim(s) ==
    LET d == Current(s)
        asked == [claim EXCEPT ![d] = AfterClaim(@, s, Lease)]
        granted == IF sweep[s].seen[d] >= MaxAttempts
                     THEN [Goto(s, "outcome") EXCEPT !.verdict = "dead"]
                     ELSE [Goto(s, "record") EXCEPT !.try = TRUE]
    IN  /\ At(s, "claim")
        /\ \/ claim' = asked /\ Become(s, IF Grants(claim[d], s) THEN granted ELSE Done(s)) /\ Fine
           \/ claim' \in {claim, asked} /\ Become(s, Idle) /\ Fault
        /\ UNCHANGED <<row, subs, announcer, accepted, posts>>

\* The attempts a sweep writes: a reap leaves what it listed.
Counted(s) == IF sweep[s].seen[Current(s)] >= MaxAttempts THEN MaxAttempts ELSE Attempt(s)

\* Mutant of Record: the attempt is counted with its outcome.
RecordUncounted(s) ==
    /\ At(s, "record")
    /\ Write(s, {Current(s)},
             [d \in {Current(s)} |-> [status |-> "sending", attempts |-> sweep[s].seen[d],
                                      holder |-> s, left |-> Lease - sweep[s].age]],
             Goto(s, "post"), Thrown(s))
    /\ UNCHANGED <<subs, claim, announcer, accepted, posts>>

\* The attempt is counted before the POST; the lease column counts from the
\* start of the sweep.
Record(s) ==
    /\ At(s, "record")
    /\ Write(s, {Current(s)},
             [d \in {Current(s)} |-> [status |-> "sending", attempts |-> Attempt(s),
                                      holder |-> s, left |-> Lease - sweep[s].age]],
             Goto(s, "post"), Thrown(s))
    /\ UNCHANGED <<subs, claim, announcer, accepted, posts>>

SigningFails(s) ==
    /\ At(s, "post")
    /\ Become(s, Thrown(s)) /\ Fault
    /\ UNCHANGED <<row, subs, claim, announcer, accepted, posts>>

\* classifyWebhookOutcome of an answer that is neither 2xx nor a refusal for good.
Transient(s) == IF Attempt(s) >= MaxAttempts THEN "dead" ELSE "failed"

\* The receiver takes it and answers 2xx, or takes it unanswered (a timeout), or
\* fails, for now or for good.
Post(s) ==
    LET answer(verdict) == Become(s, [Goto(s, "fence") EXCEPT !.verdict = verdict])
    IN  /\ At(s, "post")
        /\ posts' = [posts EXCEPT ![Current(s)] = @ + 1]
        /\ \/ accepted' = accepted \cup {Current(s)} /\ (answer("sent") \/ answer(Transient(s)))
           \/ UNCHANGED accepted /\ (answer(Transient(s)) \/ answer("dead"))
        /\ UNCHANGED <<row, subs, claim, announcer, faults>>

\* Mutant of StillHolds: nobody looks who holds the row now.
HoldsAnyway(s) == TRUE

\* A read that fails says no.
StillHolds(s) == row[Current(s)].holder = s

\* The fence after the POST, and the one in the catch, which decides anew and is
\* outside the try.
Fence(s) ==
    /\ At(s, "fence")
    /\ \/ Become(s, IF StillHolds(s) THEN Goto(s, "outcome") ELSE Done(s)) /\ Fine
       \/ Become(s, Done(s)) /\ Fault
    /\ UNCHANGED <<row, subs, claim, announcer, accepted, posts>>

Catch(s) ==
    /\ At(s, "catch")
    /\ \/ /\ Become(s, IF StillHolds(s)
                         THEN [Goto(s, "outcome") EXCEPT !.verdict = Transient(s), !.try = FALSE]
                         ELSE Done(s))
          /\ Fine
       \/ Become(s, Done(s)) /\ Fault
    /\ UNCHANGED <<row, subs, claim, announcer, accepted, posts>>

\* The first write of an outcome: the delivery, its holder cleared.
WriteOutcome(s) ==
    /\ At(s, "outcome")
    /\ Write(s, {Current(s)},
             [d \in {Current(s)} |-> [row[d] EXCEPT !.status = sweep[s].verdict,
                                                    !.attempts = Counted(s), !.holder = NoHolder]],
             [Goto(s, "health") EXCEPT !.overtaken = FALSE], Thrown(s))
    /\ UNCHANGED <<subs, claim, announcer, accepted, posts>>

\* The second: the subscription's health, refused if the subscription is gone.
WriteHealth(s) ==
    /\ At(s, "health")
    /\ IF SubOf[Current(s)] \in subs
         THEN (Become(s, Done(s)) /\ Fine) \/ (Become(s, Thrown(s)) /\ Fault)
         ELSE Become(s, Thrown(s)) /\ Fine
    /\ UNCHANGED <<row, subs, claim, announcer, accepted, posts>>

\* The isolate ends, or a read of the listing fails.
Die(s) ==
    /\ ~ At(s, "idle")
    /\ Become(s, Idle) /\ Fault
    /\ UNCHANGED <<row, subs, claim, announcer, accepted, posts>>

Tick ==
    /\ row' = [d \in Deliveries |-> [row[d] EXCEPT !.left = Less(@)]]
    /\ claim' = [d \in Deliveries |-> Aged(claim[d])]
    /\ sweep' = [s \in Sweeps |-> IF At(s, "idle") \/ sweep[s].age = Lease THEN sweep[s]
                                   ELSE [sweep[s] EXCEPT !.age = @ + 1]]
    /\ UNCHANGED <<subs, announcer, accepted, faults, posts>>

Deliver(s) ==
    \/ Join(s) \/ Retire(s) \/ Claim(s) \/ Record(s) \/ Post(s)
    \/ Fence(s) \/ Catch(s) \/ WriteOutcome(s) \/ WriteHealth(s)

Next ==
    \/ \E a \in Announcers : ReadKeys(a) \/ Upsert(a)
    \/ \E w \in Subs : DeleteWebhook(w)
    \/ \E s \in Sweeps : List(s) \/ Deliver(s) \/ SigningFails(s) \/ Die(s)
    \/ Tick

Spec == Init /\ [][Next]_vars

\* Cron starts sweeps again and again, a sweep that is not killed goes on, and
\* time passes.
FairSpec ==
    /\ Spec
    /\ WF_vars(Tick)
    /\ WF_vars(\E s \in Sweeps : List(s))
    /\ \A s \in Sweeps : WF_vars(Deliver(s))
-----------------------------------------------------------------------------
(***************************************************************************)
(* A delivery shown as sent is one its receiver took, whatever sweeps      *)
(* overlapped, whichever of the two outcome writes failed, and whenever    *)
(* the subscription went away.                                             *)
(***************************************************************************)
SentWasAccepted == \A d \in Deliveries : row[d].status = "sent" => d \in accepted

(***************************************************************************)
(* A POST is counted on its row before it is made, so a sender that dies   *)
(* in mid-flight has spent an attempt.  For sweeps that do not overlap.    *)
(***************************************************************************)
PostsCounted == \A d \in Deliveries : posts[d] <= row[d].attempts

(***************************************************************************)
(* Every delivery settles: whatever dies, is refused or is deleted, its    *)
(* row ends as sent or dead, and no set of deliveries without a            *)
(* subscription keeps one with a subscription from its turn.               *)
(***************************************************************************)
DeliveriesSettle ==
    \A d \in Deliveries : row[d] # Absent ~> row[d].status \in {"sent", "dead"}

(***************************************************************************)
(* For sweeps that do not overlap and one announcer, a delivery is what a  *)
(* subscriber expects: queued, taken by the receiver before it is shown as *)
(* sent, given up, and its outcome final.  In particular the health write, *)
(* which comes second in the same try and fails when the subscription was  *)
(* deleted meanwhile, does not make the catch undo the outcome.            *)
(***************************************************************************)
OutcomeOf(d) ==
    CASE row[d] = Absent                    -> "none"
      [] row[d].status \in {"sent", "dead"} -> row[d].status
      [] OTHER                              -> "underway"

M == INSTANCE Message WITH
    Messages <- Deliveries,
    outcome <- [d \in Deliveries |-> OutcomeOf(d)],
    delivered <- accepted

ImplementsMessage == M!Spec
=============================================================================
