---------------------------- MODULE WebhooksProofs ----------------------------
(***************************************************************************)
(* What webhook delivery guarantees for any number of deliveries,          *)
(* subscriptions, sweeps and announcers, any attempt cap, lease and limit, *)
(* proved by TLAPS.                                                        *)
(*                                                                         *)
(* IInv says for sweeps that overlap as they like that what is about to be *)
(* recorded as sent was taken by its receiver.  SerialInv says for sweeps  *)
(* that do not overlap, and one announcer, that a sweep finds its rows as  *)
(* it listed them, and that a row which still names the sweep as holder    *)
(* has no outcome yet: which is why the catch, whatever threw, undoes none.*)
(***************************************************************************)
EXTENDS Webhooks, TLAPS, WellFoundedInduction

-----------------------------------------------------------------------------
(* Least elements, and the guard's verdicts.                                 *)

LessThan == {p \in Nat \X Nat : p[1] < p[2]}

(* Every non-empty set of natural numbers has a least element.               *)
LEMMA LeastNatural ==
  ASSUME NEW S, S \subseteq Nat, S # {}
  PROVE  \E k \in S : \A j \in S : k <= j
<1>1. IsWellFoundedOn(LessThan, Nat)
  BY NatLessThanWellFounded, Zenon DEF OpToRel, LessThan
<1>2. \E k \in S : \A j \in S : ~ (<<j, k>> \in LessThan)
  BY <1>1, WFMin, Zenon
<1>3. \A j, k \in Nat : <<j, k>> \in LessThan <=> j < k
  BY DEF LessThan
<1>4. \A j, k \in Nat : ~ (j < k) => k <= j
  OBVIOUS
<1>5. QED
  BY <1>2, <1>3, <1>4

(* What the guard stores stays a claim.                                      *)
LEMMA ClaimTypes ==
  ASSUME NEW c \in Claims, NEW h \in Holders, NEW ttl \in Nat
  PROVE  AfterClaim(c, h, ttl) \in Claims /\ AfterRelease(c, h) \in Claims /\ Aged(c) \in Claims
  BY DEF AfterClaim, AfterRelease, Releases, Aged, Less, Claims, NoClaim, Live

-----------------------------------------------------------------------------
SweepStates == [pc : Stages, due : SUBSET Deliveries, orphans : SUBSET Deliveries,
                seen : [Deliveries -> 0 .. MaxAttempts], verdict : Verdicts,
                try : BOOLEAN, overtaken : BOOLEAN, age : 0 .. Lease]

\* The row a sweep in state r is at.
RowOf(r) == CHOOSE d \in r.due : \A e \in r.due : d <= e

Outcomes == {"sent", "failed", "dead"}

SweepOK(r, acc) ==
    /\ r \in SweepStates
    /\ r.pc \notin {"idle", "retire"} => r.due # {}
    /\ r.pc = "record" => r.seen[RowOf(r)] < MaxAttempts
    /\ r.pc \in {"fence", "outcome"} => r.verdict \in Outcomes /\ (r.verdict = "sent" => RowOf(r) \in acc)

SweepsOK == sweep \in [Sweeps -> SweepStates] /\ \A s \in Sweeps : SweepOK(sweep[s], accepted)

IInv == TypeOK /\ SweepsOK /\ SentWasAccepted

(* The row a sweep is at is one of those left of its listing.                *)
LEMMA RowOfInDue ==
  ASSUME NEW r \in SweepStates, r.due # {}
  PROVE  RowOf(r) \in r.due /\ RowOf(r) \in Deliveries /\ \A e \in r.due : RowOf(r) <= e
<1>1. r.due \subseteq Nat
  BY DeliveriesAssumption DEF SweepStates
<1>2. \E d \in r.due : \A e \in r.due : d <= e
  BY <1>1, LeastNatural
<1>3. RowOf(r) \in r.due /\ \A e \in r.due : RowOf(r) <= e
  BY <1>2 DEF RowOf
<1>4. QED
  BY <1>3 DEF SweepStates

(* Current(s) is the head of the sweep's state.                              *)
LEMMA CurrentIsRowOf ==
  ASSUME NEW s \in Sweeps
  PROVE  Current(s) = RowOf(sweep[s])
BY DEF Current, RowOf

\* Row r with an outcome.
Ended(r, status, n) == [r EXCEPT !.status = status, !.attempts = n, !.holder = NoHolder]

(* What the writes of a row make of it.                                      *)
LEMMA RowFacts ==
  ASSUME NEW r \in Rows
  PROVE  /\ r.attempts \in 0 .. MaxAttempts /\ r.holder \in Holders \cup {NoHolder}
         /\ r.left \in 0 .. Lease /\ (r = Absent <=> r.status \notin Statuses)
         /\ Queued(r) \in Rows /\ Queued(r).status = "queued" /\ Queued(r).attempts = 0
<1> USE BoundsAssumption
<1>1. /\ r.attempts \in 0 .. MaxAttempts /\ r.holder \in Holders \cup {NoHolder}
      /\ r.left \in 0 .. Lease /\ (r = Absent <=> r.status \notin Statuses)
  BY DEF Rows, Absent, Statuses
<1>2. Queued(r) \in Rows /\ Queued(r).status = "queued" /\ Queued(r).attempts = 0
  BY <1>1 DEF Queued, Rows, Statuses
<1>3. QED
  BY <1>1, <1>2

(* An outcome.                                                               *)
LEMMA EndedRow ==
  ASSUME NEW r \in Rows, NEW status \in Statuses, NEW n \in 0 .. MaxAttempts
  PROVE  /\ Ended(r, status, n) \in Rows /\ Ended(r, status, n).status = status
         /\ Ended(r, status, n).attempts = n /\ Ended(r, status, n).holder = NoHolder
<1>1. r \in [status : Statuses \cup {"absent"}, attempts : 0 .. MaxAttempts,
              holder : Holders \cup {NoHolder}, left : 0 .. Lease]
  BY BoundsAssumption DEF Rows, Absent
<1>2. QED
  BY <1>1 DEF Rows, Ended

(* A retired row keeps its attempts.                                         *)
LEMMA RetiredRow ==
  ASSUME NEW d \in Deliveries, row[d] \in Rows
  PROVE  Retired(d) = Ended(row[d], "dead", row[d].attempts)
<1>1. row[d] \in [status : Statuses \cup {"absent"}, attempts : 0 .. MaxAttempts,
                  holder : Holders \cup {NoHolder}, left : 0 .. Lease]
  BY BoundsAssumption DEF Rows, Absent
<1>2. QED
  BY <1>1 DEF Retired, Ended

(* What time and a new invocation make of it.                                *)
LEMMA RowAges ==
  ASSUME NEW r \in Rows, NEW s \in Sweeps
  PROVE  /\ LET q == [r EXCEPT !.left = Less(@)]
            IN  q \in Rows /\ q.status = r.status /\ q.attempts = r.attempts /\ q.holder = r.holder
         /\ LET q == [r EXCEPT !.holder = Forget(s, @)]
            IN  q \in Rows /\ q.status = r.status /\ q.attempts = r.attempts /\ q.holder # s
<1> USE BoundsAssumption
<1>1. r = [status |-> r.status, attempts |-> r.attempts, holder |-> r.holder, left |-> r.left]
      /\ r.left \in 0 .. Lease /\ Less(r.left) \in 0 .. Lease /\ r.holder \in Holders \cup {NoHolder}
  BY DEF Rows, Absent, Less
<1>2. LET q == [r EXCEPT !.left = Less(@)]
      IN  q \in Rows /\ q.status = r.status /\ q.attempts = r.attempts /\ q.holder = r.holder
  <2> DEFINE q == [r EXCEPT !.left = Less(@)]
  <2>1. q = [status |-> r.status, attempts |-> r.attempts, holder |-> r.holder, left |-> Less(r.left)]
    BY <1>1
  <2> HIDE DEF q
  <2>2. q \in Rows
    <3>1. CASE r = Absent
      BY <2>1, <3>1 DEF Rows, Absent, Less
    <3>2. CASE r # Absent
      BY <1>1, <2>1, <3>2 DEF Rows
    <3>3. QED
      BY <3>1, <3>2
  <2>3. QED
    BY <2>1, <2>2 DEF q
<1>3. LET q == [r EXCEPT !.holder = Forget(s, @)]
      IN  q \in Rows /\ q.status = r.status /\ q.attempts = r.attempts /\ q.holder # s
  <2> DEFINE q == [r EXCEPT !.holder = Forget(s, @)]
             h == Forget(s, r.holder)
  <2>1. q = [status |-> r.status, attempts |-> r.attempts, holder |-> h, left |-> r.left]
    BY <1>1
  <2>2. h \in Holders \cup {NoHolder} /\ h # s /\ (r.holder = NoHolder => h = NoHolder)
    BY <1>1, GoneAssumption, NoHolderAssumption DEF Forget, Sweeps
  <2> HIDE DEF q, h
  <2>3. q \in Rows
    <3>1. CASE r = Absent
      BY <2>1, <2>2, <3>1 DEF Rows, Absent
    <3>2. CASE r # Absent
      BY <1>1, <2>1, <2>2, <3>2 DEF Rows
    <3>3. QED
      BY <3>1, <3>2
  <2>4. QED
    BY <2>1, <2>2, <2>3 DEF q
<1>4. QED
  BY <1>2, <1>3

(* The states a sweep goes to within its row: r1 is that of s at another     *)
(* stage, with this verdict.                                                 *)
Like(r1, s, stage, verdict) ==
    /\ r1 \in SweepStates /\ r1.pc = stage /\ r1.verdict = verdict
    /\ r1.due = sweep[s].due /\ r1.orphans = sweep[s].orphans /\ r1.seen = sweep[s].seen
    /\ RowOf(r1) = Current(s)

(* All the ways the sweep's state is changed there.                          *)
LEMMA Forms ==
  ASSUME NEW s \in Sweeps, sweep[s] \in SweepStates, NEW stage \in Stages, NEW v \in Verdicts
  PROVE  /\ Like(Goto(s, stage), s, stage, sweep[s].verdict)
         /\ Like([Goto(s, stage) EXCEPT !.verdict = v], s, stage, v)
         /\ Like([Goto(s, stage) EXCEPT !.verdict = v, !.try = FALSE], s, stage, v)
         /\ Like([Goto(s, stage) EXCEPT !.try = TRUE], s, stage, sweep[s].verdict)
         /\ Like([Goto(s, stage) EXCEPT !.overtaken = FALSE], s, stage, sweep[s].verdict)
         /\ Thrown(s) = Idle \/ Like(Thrown(s), s, "catch", sweep[s].verdict)
<1> DEFINE r == sweep[s]
           Near(r1) == /\ r1 \in SweepStates /\ r1.due = r.due /\ r1.orphans = r.orphans
                       /\ r1.seen = r.seen
<1>1. ASSUME NEW r1, Near(r1), NEW stage1, NEW v1, r1.pc = stage1, r1.verdict = v1
      PROVE  Like(r1, s, stage1, v1)
  BY <1>1 DEF RowOf, Current, Like
<1>2. ASSUME NEW stage1 \in Stages
      PROVE  Goto(s, stage1) \in SweepStates /\ Near(Goto(s, stage1)) /\ Goto(s, stage1).pc = stage1
             /\ Goto(s, stage1).verdict = r.verdict
  BY DEF Goto, SweepStates
<1>3. ASSUME NEW g \in SweepStates, Near(g)
      PROVE  /\ LET q == [g EXCEPT !.verdict = v]
                IN  Near(q) /\ q.pc = g.pc /\ q.verdict = v
             /\ LET q == [g EXCEPT !.verdict = v, !.try = FALSE]
                IN  Near(q) /\ q.pc = g.pc /\ q.verdict = v
             /\ LET q == [g EXCEPT !.try = TRUE]
                IN  Near(q) /\ q.pc = g.pc /\ q.verdict = g.verdict
             /\ LET q == [g EXCEPT !.overtaken = FALSE]
                IN  Near(q) /\ q.pc = g.pc /\ q.verdict = g.verdict
  BY <1>3 DEF SweepStates
<1> HIDE DEF Near
<1>4. ASSUME NEW stage1 \in Stages
      PROVE  /\ Like(Goto(s, stage1), s, stage1, r.verdict)
             /\ Like([Goto(s, stage1) EXCEPT !.verdict = v], s, stage1, v)
             /\ Like([Goto(s, stage1) EXCEPT !.verdict = v, !.try = FALSE], s, stage1, v)
             /\ Like([Goto(s, stage1) EXCEPT !.try = TRUE], s, stage1, r.verdict)
             /\ Like([Goto(s, stage1) EXCEPT !.overtaken = FALSE], s, stage1, r.verdict)
  <2> DEFINE g == Goto(s, stage1)
             q1 == [g EXCEPT !.verdict = v]
             q2 == [g EXCEPT !.verdict = v, !.try = FALSE]
             q3 == [g EXCEPT !.try = TRUE]
             q4 == [g EXCEPT !.overtaken = FALSE]
  <2>1. g \in SweepStates /\ Near(g) /\ g.pc = stage1 /\ g.verdict = r.verdict
    BY <1>2
  <2> HIDE DEF g
  <2>2. /\ Near(q1) /\ q1.pc = g.pc /\ q1.verdict = v
        /\ Near(q2) /\ q2.pc = g.pc /\ q2.verdict = v
        /\ Near(q3) /\ q3.pc = g.pc /\ q3.verdict = g.verdict
        /\ Near(q4) /\ q4.pc = g.pc /\ q4.verdict = g.verdict
    BY <1>3, <2>1
  <2> HIDE DEF q1, q2, q3, q4
  <2>3. /\ Like(g, s, stage1, r.verdict) /\ Like(q1, s, stage1, v) /\ Like(q2, s, stage1, v)
        /\ Like(q3, s, stage1, r.verdict) /\ Like(q4, s, stage1, r.verdict)
    BY <1>1, <2>1, <2>2
  <2>4. QED
    BY <2>3 DEF g, q1, q2, q3, q4
<1>5. Thrown(s) = Idle \/ Like(Thrown(s), s, "catch", r.verdict)
  <2>1. "catch" \in Stages
    BY DEF Stages
  <2>2. QED
    BY <1>4, <2>1 DEF Thrown
<1>6. QED
  BY <1>4, <1>5

(* The next row of the listing, and the rows that are left of the join.      *)
LEMMA NextRows ==
  ASSUME NEW s \in Sweeps, sweep[s] \in SweepStates, NEW ds \in SUBSET Deliveries
  PROVE  /\ Idle \in SweepStates /\ Idle.pc = "idle" /\ Idle.due = {} /\ Idle.orphans = {}
         /\ \/ Sending(s, ds) = Idle
            \/ /\ Sending(s, ds) \in SweepStates /\ Sending(s, ds).pc = "claim"
               /\ ds # {} /\ Sending(s, ds).due = ds /\ Sending(s, ds).orphans = {}
               /\ \A d \in ds : Sending(s, ds).seen[d] = sweep[s].seen[d]
         /\ sweep[s].due # {} =>
              \/ Done(s) = Idle
              \/ /\ Done(s) \in SweepStates /\ Done(s).pc = "claim" /\ Done(s).due # {}
                 /\ Done(s).due = sweep[s].due \ {Current(s)} /\ Done(s).orphans = sweep[s].orphans
                 /\ \A d \in Done(s).due : Done(s).seen[d] = sweep[s].seen[d]
<1> USE BoundsAssumption
<1> DEFINE r == sweep[s]
<1>1. Idle \in SweepStates /\ Idle.pc = "idle" /\ Idle.due = {} /\ Idle.orphans = {}
  BY DEF Idle, SweepStates, Stages, Verdicts
<1>2. r = [pc |-> r.pc, due |-> r.due, orphans |-> r.orphans, seen |-> r.seen, verdict |-> r.verdict,
           try |-> r.try, overtaken |-> r.overtaken, age |-> r.age]
      /\ r.seen \in [Deliveries -> 0 .. MaxAttempts] /\ 0 \in 0 .. MaxAttempts
  BY DEF SweepStates
<1>3. ASSUME ds # {}
      PROVE  /\ Sending(s, ds) \in SweepStates /\ Sending(s, ds).pc = "claim"
             /\ ds # {} /\ Sending(s, ds).due = ds /\ Sending(s, ds).orphans = {}
             /\ \A d \in ds : Sending(s, ds).seen[d] = sweep[s].seen[d]
  <2> DEFINE seen == [d \in Deliveries |-> IF d \in ds THEN r.seen[d] ELSE 0]
             q == [pc |-> "claim", due |-> ds, orphans |-> {}, seen |-> seen, verdict |-> r.verdict,
                   try |-> r.try, overtaken |-> r.overtaken, age |-> r.age]
  <2>1. Sending(s, ds) = q
    BY <1>2, <1>3 DEF Sending
  <2>2. seen \in [Deliveries -> 0 .. MaxAttempts] /\ \A d \in ds : seen[d] = r.seen[d]
    BY <1>2
  <2> HIDE DEF seen
  <2>3. q \in SweepStates
    BY <2>2 DEF SweepStates, Stages
  <2> HIDE DEF q
  <2>4. /\ q.pc = "claim" /\ q.due = ds /\ q.orphans = {} /\ q.seen = seen
    BY DEF q
  <2>5. QED
    BY <1>3, <2>1, <2>2, <2>3, <2>4
<1>4. ds = {} => Sending(s, ds) = Idle
  BY DEF Sending
<1>5. ASSUME r.due # {}, Done(s) # Idle
      PROVE  /\ Done(s) \in SweepStates /\ Done(s).pc = "claim" /\ Done(s).due # {}
             /\ Done(s).due = sweep[s].due \ {Current(s)} /\ Done(s).orphans = sweep[s].orphans
             /\ \A d \in Done(s).due : Done(s).seen[d] = sweep[s].seen[d]
  <2> DEFINE c == Current(s)
             rest == r.due \ {c}
             seen == [r.seen EXCEPT ![c] = 0]
             q == [pc |-> "claim", due |-> rest, orphans |-> r.orphans, seen |-> seen, verdict |-> "none",
                   try |-> FALSE, overtaken |-> FALSE, age |-> r.age]
  <2>1. rest # {}
    BY <1>5 DEF Done
  <2>2. Done(s) = [r EXCEPT !.pc = "claim", !.due = rest, !.seen[c] = 0,
                            !.verdict = "none", !.try = FALSE, !.overtaken = FALSE]
    BY <1>5 DEF Done
  <2>3. Done(s) = q
    BY <1>2, <2>2
  <2>4. seen \in [Deliveries -> 0 .. MaxAttempts] /\ \A d \in rest : seen[d] = r.seen[d]
    BY <1>2 DEF SweepStates
  <2>5. rest \subseteq Deliveries
    BY DEF SweepStates
  <2> HIDE DEF seen, rest, c
  <2>6. q \in SweepStates
    BY <2>4, <2>5 DEF SweepStates, Stages, Verdicts
  <2>7. /\ q.pc = "claim" /\ q.due = rest /\ q.orphans = r.orphans /\ q.seen = seen
    OBVIOUS
  <2> HIDE DEF q
  <2>8. QED
    BY <2>1, <2>3, <2>4, <2>6, <2>7 DEF rest, c
<1>6. QED
  BY <1>1, <1>3, <1>4, <1>5

-----------------------------------------------------------------------------
(* Overlapping sweeps: every step keeps IInv.                                *)

(* A sweep at its row stays in order when the stage it goes to allows it.    *)
LEMMA LikeOK ==
  ASSUME SweepsOK, NEW s \in Sweeps, sweep[s].due # {}, NEW acc, NEW r1, NEW stage, NEW v,
         Like(r1, s, stage, v), stage # "idle",
         stage = "record" => sweep[s].seen[Current(s)] < MaxAttempts,
         stage \in {"fence", "outcome"} => v \in Outcomes /\ (v = "sent" => Current(s) \in acc)
  PROVE  SweepOK(r1, acc)
BY DEF Like, SweepOK

(* The states a sweep goes to whatever it was about to do.                   *)
LEMMA AfterOK ==
  ASSUME SweepsOK, NEW s \in Sweeps, NEW acc, accepted \subseteq acc
  PROVE  /\ SweepOK(Idle, acc)
         /\ \A ds \in SUBSET Deliveries : SweepOK(Sending(s, ds), acc)
         /\ sweep[s].due # {} => SweepOK(Done(s), acc) /\ SweepOK(Thrown(s), acc)
<1>1. sweep[s] \in SweepStates
  BY DEF SweepsOK
<1>2. SweepOK(Idle, acc)
  BY <1>1, NextRows DEF SweepOK
<1>3. ASSUME NEW ds \in SUBSET Deliveries PROVE SweepOK(Sending(s, ds), acc)
  BY <1>1, <1>2, NextRows DEF SweepOK
<1>4. ASSUME sweep[s].due # {} PROVE SweepOK(Done(s), acc)
  <2>1. Done(s) = Idle \/ (Done(s) \in SweepStates /\ Done(s).pc = "claim" /\ Done(s).due # {})
    BY <1>1, <1>4, NextRows
  <2>2. QED
    BY <1>2, <2>1 DEF SweepOK
<1>5. ASSUME sweep[s].due # {} PROVE SweepOK(Thrown(s), acc)
  <2>1. "catch" \in Stages /\ "none" \in Verdicts
    BY DEF Stages, Verdicts
  <2>2. Thrown(s) = Idle \/ Like(Thrown(s), s, "catch", sweep[s].verdict)
    BY <1>1, <2>1, Forms
  <2>3. Like(Thrown(s), s, "catch", sweep[s].verdict) => SweepOK(Thrown(s), acc)
    BY <1>5, LikeOK
  <2>4. QED
    BY <1>2, <2>2, <2>3
<1>6. QED
  BY <1>2, <1>3, <1>4, <1>5

(* Marking a sweep as overtaken changes nothing else of it.                  *)
LEMMA OvertakenOK ==
  ASSUME SweepsOK, NEW ds, NEW s
  PROVE  /\ Overtaken(ds, s) \in [Sweeps -> SweepStates]
         /\ \A t \in Sweeps : SweepOK(Overtaken(ds, s)[t], accepted)
<1>1. ASSUME NEW t \in Sweeps
      PROVE  SweepOK(Overtaken(ds, s)[t], accepted)
  <2> DEFINE r == sweep[t]
             r1 == [r EXCEPT !.overtaken = TRUE]
  <2>1. Overtaken(ds, s)[t] \in {r, r1}
    BY DEF Overtaken
  <2>2. SweepOK(r, accepted) /\ r \in SweepStates
    BY DEF SweepsOK
  <2>3. r1 \in SweepStates /\ r1.pc = r.pc /\ r1.due = r.due /\ r1.seen = r.seen /\ r1.verdict = r.verdict
    BY <2>2 DEF SweepStates
  <2> HIDE DEF r1
  <2>4. RowOf(r1) = RowOf(r)
    BY <2>3 DEF RowOf
  <2>5. SweepOK(r1, accepted)
    BY <2>2, <2>3, <2>4 DEF SweepOK
  <2>6. QED
    BY <2>1, <2>2, <2>5
<1>2. \A t \in Sweeps : Overtaken(ds, s)[t] \in SweepStates
  BY <1>1 DEF SweepOK
<1>3. QED
  BY <1>1, <1>2 DEF Overtaken

(* The budget of faults.                                                     *)
LEMMA FaultsOK ==
  ASSUME TypeOK, Fine \/ Fault
  PROVE  faults' \in 0 .. MaxFaults
BY BoundsAssumption DEF TypeOK, Fine, Fault

(* A step of one sweep that writes no row.                                   *)
LEMMA QuietOK ==
  ASSUME IInv, NEW s \in Sweeps, NEW next, Become(s, next), SweepOK(next, accepted'),
         accepted \subseteq accepted', accepted' \subseteq Deliveries, faults' \in 0 .. MaxFaults,
         claim' \in [Deliveries -> Claims], posts' \in [Deliveries -> Nat],
         UNCHANGED <<row, subs, announcer>>
  PROVE  IInv'
<1>1. sweep' = [sweep EXCEPT ![s] = next] /\ next \in SweepStates
  BY DEF Become, SweepOK
<1>2. \A t \in Sweeps : SweepOK(sweep[t], accepted')
  BY DEF IInv, SweepsOK, SweepOK
<1>3. SweepsOK'
  BY <1>1, <1>2 DEF IInv, SweepsOK
<1>4. TypeOK'
  BY <1>3 DEF IInv, TypeOK, SweepsOK, SweepStates
<1>5. SentWasAccepted'
  BY DEF IInv, SentWasAccepted
<1>6. QED
  BY <1>3, <1>4, <1>5 DEF IInv

(* A step of one sweep that wrote rows, none of them to sent untaken.        *)
LEMMA LandedOK ==
  ASSUME IInv, NEW s \in Sweeps, NEW ds, NEW after, SweepOK(after, accepted),
         sweep' = [Overtaken(ds, s) EXCEPT ![s] = after], row' \in [Deliveries -> Rows],
         \A d \in Deliveries : row'[d].status = "sent" => row[d].status = "sent" \/ d \in accepted,
         faults' \in 0 .. MaxFaults, UNCHANGED <<subs, claim, announcer, accepted, posts>>
  PROVE  IInv'
<1>1. after \in SweepStates
  BY DEF SweepOK
<1>2. /\ Overtaken(ds, s) \in [Sweeps -> SweepStates]
      /\ \A t \in Sweeps : SweepOK(Overtaken(ds, s)[t], accepted)
  BY OvertakenOK DEF IInv
<1>3. SweepsOK'
  BY <1>1, <1>2 DEF SweepsOK
<1>4. TypeOK'
  BY <1>3 DEF IInv, TypeOK, SweepsOK, SweepStates
<1>5. SentWasAccepted'
  BY DEF IInv, SentWasAccepted
<1>6. QED
  BY <1>3, <1>4, <1>5 DEF IInv

(* A write of the current row, carried out or not.                           *)
LEMMA WriteOK ==
  ASSUME IInv, NEW s \in Sweeps, sweep[s].due # {}, NEW new,
         new[Current(s)] \in Rows, new[Current(s)].status = "sent" => Current(s) \in accepted,
         NEW answered, SweepOK(answered, accepted), NEW thrown, SweepOK(thrown, accepted),
         Write(s, {Current(s)}, new, answered, thrown), UNCHANGED <<subs, claim, announcer, accepted, posts>>
  PROVE  IInv'
<1> DEFINE c == Current(s)
<1>1. faults' \in 0 .. MaxFaults
  BY FaultsOK DEF Write, IInv
<1>2. ASSUME NEW after, SweepOK(after, accepted),
             row' = [d \in Deliveries |-> IF d \in {c} THEN new[d] ELSE row[d]],
             sweep' = [Overtaken({c}, s) EXCEPT ![s] = after]
      PROVE  IInv'
  <2>1. row' \in [Deliveries -> Rows]
    BY <1>2 DEF IInv, TypeOK
  <2>2. \A d \in Deliveries : row'[d].status = "sent" => row[d].status = "sent" \/ d \in accepted
    BY <1>2
  <2>3. QED
    BY <1>1, <1>2, <2>1, <2>2, LandedOK
<1>3. ASSUME Become(s, thrown), UNCHANGED row
      PROVE  IInv'
  BY <1>1, <1>3, QuietOK DEF IInv, TypeOK
<1>4. QED
  BY <1>2, <1>3 DEF Write

(* The values of a sweep at its row.                                         *)
LEMMA BusyValues ==
  ASSUME IInv, NEW s \in Sweeps, sweep[s].pc \notin {"idle", "retire"}
  PROVE  /\ sweep[s] \in SweepStates /\ sweep[s].due # {} /\ Current(s) = RowOf(sweep[s])
         /\ Current(s) \in Deliveries /\ Current(s) \in sweep[s].due
         /\ sweep[s].seen[Current(s)] \in 0 .. MaxAttempts /\ sweep[s].age \in 0 .. Lease
         /\ Counted(s) \in 0 .. MaxAttempts
         /\ sweep[s].pc = "record" => Attempt(s) \in 0 .. MaxAttempts
         /\ sweep[s].pc \in {"fence", "outcome"} =>
              sweep[s].verdict \in Outcomes /\ (sweep[s].verdict = "sent" => Current(s) \in accepted)
<1> USE BoundsAssumption
<1>1. SweepOK(sweep[s], accepted) /\ sweep[s] \in SweepStates /\ sweep[s].due # {}
      /\ Current(s) = RowOf(sweep[s])
  BY CurrentIsRowOf DEF IInv, SweepsOK, SweepOK
<1>2. Current(s) \in Deliveries /\ Current(s) \in sweep[s].due
  BY <1>1, RowOfInDue
<1>3. sweep[s].seen[Current(s)] \in 0 .. MaxAttempts /\ sweep[s].age \in 0 .. Lease
  BY <1>1, <1>2 DEF SweepStates
<1>4. Counted(s) \in 0 .. MaxAttempts
  BY <1>3 DEF Counted, Attempt
<1>5. sweep[s].pc = "record" => Attempt(s) \in 0 .. MaxAttempts
  BY <1>1, <1>3 DEF SweepOK, Attempt
<1>6. QED
  BY <1>1, <1>2, <1>3, <1>4, <1>5 DEF SweepOK

(* Announcing and deleting: a queued row is not a sent one.                  *)
LEMMA AnnounceOK ==
  ASSUME IInv, \/ \E a \in Announcers : ReadKeys(a) \/ Upsert(a)
               \/ \E w \in Subs : DeleteWebhook(w)
  PROVE  IInv'
<1>1. ASSUME NEW a \in Announcers, ReadKeys(a) PROVE IInv'
  <2>1. announcer' \in [Announcers -> SUBSET Deliveries]
    BY <1>1 DEF ReadKeys, Missing, IInv, TypeOK
  <2>2. QED
    BY <1>1, <2>1 DEF ReadKeys, IInv, TypeOK, SweepsOK, SentWasAccepted
<1>2. ASSUME NEW a \in Announcers, Upsert(a) PROVE IInv'
  <2>1. PICK landed \in SUBSET {d \in announcer[a] : SubOf[d] \in subs} :
          /\ row' = [d \in Deliveries |-> IF d \in landed THEN Queued(row[d]) ELSE row[d]]
          /\ sweep' = Overtaken(landed, NoHolder)
    BY <1>2 DEF Upsert
  <2>2. SweepsOK'
    BY <1>2, <2>1, OvertakenOK DEF IInv, SweepsOK, Upsert
  <2>3. \A d \in Deliveries : Queued(row[d]) \in Rows /\ Queued(row[d]).status = "queued"
    BY RowFacts DEF IInv, TypeOK
  <2>4. row' \in [Deliveries -> Rows]
    BY <2>1, <2>3 DEF IInv, TypeOK
  <2>5. announcer' \in [Announcers -> SUBSET Deliveries]
    BY <1>2 DEF Upsert, IInv, TypeOK
  <2>6. TypeOK'
    BY <1>2, <2>2, <2>4, <2>5 DEF Upsert, IInv, TypeOK, SweepsOK, SweepStates
  <2>7. SentWasAccepted'
    BY <1>2, <2>1, <2>3 DEF Upsert, IInv, SentWasAccepted
  <2>8. QED
    BY <2>2, <2>6, <2>7 DEF IInv
<1>3. ASSUME NEW w \in Subs, DeleteWebhook(w) PROVE IInv'
  BY <1>3 DEF DeleteWebhook, IInv, TypeOK, SweepsOK, SentWasAccepted
<1>4. QED
  BY <1>1, <1>2, <1>3

(* The listing, which forgets who an earlier invocation of the sweep was.    *)
LEMMA ListOK ==
  ASSUME IInv, NEW s \in Sweeps, List(s)
  PROVE  IInv'
<1> USE BoundsAssumption
<1> DEFINE due == {d \in Deliveries : Due(d)}
           seen == [d \in Deliveries |-> IF d \in due THEN row[d].attempts ELSE 0]
           next == [Idle EXCEPT !.pc = "join", !.due = due, !.seen = seen]
<1>1. /\ row' = [d \in Deliveries |-> [row[d] EXCEPT !.holder = Forget(s, @)]]
      /\ claim' = [d \in Deliveries |-> [claim[d] EXCEPT !.holder = Forget(s, @)]]
      /\ UNCHANGED <<subs, announcer, accepted, faults, posts>>
  BY DEF List
<1>2. due # {} /\ Become(s, next)
  BY DEF List
<1>3. \A d \in Deliveries : /\ row'[d] \in Rows /\ row'[d].status = row[d].status
                            /\ row[d].attempts \in 0 .. MaxAttempts
  <2> SUFFICES ASSUME NEW d \in Deliveries
               PROVE  /\ row'[d] \in Rows /\ row'[d].status = row[d].status
                      /\ row[d].attempts \in 0 .. MaxAttempts
    OBVIOUS
  <2>1. row[d] \in Rows /\ row'[d] = [row[d] EXCEPT !.holder = Forget(s, @)]
    BY <1>1 DEF IInv, TypeOK
  <2>2. LET q == [row[d] EXCEPT !.holder = Forget(s, @)]
        IN  q \in Rows /\ q.status = row[d].status /\ q.attempts = row[d].attempts /\ q.holder # s
    BY <2>1, RowAges
  <2>3. row[d].attempts \in 0 .. MaxAttempts
    BY <2>1, RowFacts
  <2>4. QED
    BY <2>1, <2>2, <2>3
<1>4. claim' \in [Deliveries -> Claims]
  <2>1. ASSUME NEW d \in Deliveries PROVE [claim[d] EXCEPT !.holder = Forget(s, @)] \in Claims
    <3>1. claim[d] \in Claims /\ Gone \in Holders /\ NoHolder # s
      BY GoneAssumption, NoHolderAssumption DEF IInv, TypeOK, Sweeps
    <3>2. QED
      BY <3>1 DEF Claims, NoClaim, Forget
  <2>2. QED
    BY <1>1, <2>1
<1>5. due \subseteq Deliveries /\ seen \in [Deliveries -> 0 .. MaxAttempts]
  BY <1>3
<1> HIDE DEF due, seen
<1>6. next \in SweepStates /\ next.pc = "join" /\ next.due = due
  <2>1. Idle \in SweepStates
    BY DEF Idle, SweepStates, Stages, Verdicts
  <2>2. QED
    BY <1>5, <2>1 DEF SweepStates, Stages
<1> HIDE DEF next
<1>7. SweepOK(next, accepted)
  BY <1>2, <1>6 DEF SweepOK
<1>8. SweepsOK'
  BY <1>1, <1>2, <1>6, <1>7 DEF Become, IInv, SweepsOK
<1>9. row' \in [Deliveries -> Rows]
  BY <1>1, <1>3
<1>10. TypeOK'
  BY <1>1, <1>4, <1>8, <1>9 DEF IInv, TypeOK, SweepsOK, SweepStates
<1>11. SentWasAccepted'
  BY <1>1, <1>3 DEF IInv, SentWasAccepted
<1>12. QED
  BY <1>8, <1>10, <1>11 DEF IInv

\* The sweep that goes on to retire.
Retiring(s, due, orphans) == [Goto(s, "retire") EXCEPT !.due = due, !.orphans = orphans]

(* The join: what it takes of the listing is of the listing.                 *)
LEMMA JoinRows ==
  ASSUME NEW s \in Sweeps, At(s, "join"), Join(s), sweep[s] \in SweepStates
  PROVE  \E due \in SUBSET sweep[s].due, orphans \in SUBSET sweep[s].due :
           /\ due \cap orphans = {} /\ UNCHANGED <<row, subs, claim, announcer, accepted, faults, posts>>
           /\ \/ Become(s, Sending(s, due))
              \/ Become(s, Retiring(s, due, orphans))
<1> DEFINE all == {d \in sweep[s].due : SubOf[d] \notin subs}
           due == Oldest(sweep[s].due \ all, Limit)
           orphans == Oldest(all, Limit)
<1>1. due \subseteq sweep[s].due \ all /\ orphans \subseteq all
  BY DEF Oldest
<1>2. /\ UNCHANGED <<row, subs, claim, announcer, accepted, faults, posts>>
      /\ \/ Become(s, Sending(s, due))
         \/ Become(s, Retiring(s, due, orphans))
  BY DEF Join, Retiring
<1> HIDE DEF due, orphans
<1>3. QED
  BY <1>1, <1>2

(* It has the rows the join gave it.                                         *)
LEMMA RetireForm ==
  ASSUME NEW s \in Sweeps, sweep[s] \in SweepStates,
         NEW due \in SUBSET Deliveries, NEW orphans \in SUBSET Deliveries
  PROVE  /\ Retiring(s, due, orphans) \in SweepStates /\ Retiring(s, due, orphans).pc = "retire"
         /\ Retiring(s, due, orphans).due = due /\ Retiring(s, due, orphans).orphans = orphans
         /\ Retiring(s, due, orphans).seen = sweep[s].seen
<1> DEFINE g == Goto(s, "retire")
<1>1. g \in SweepStates /\ g.pc = "retire" /\ g.seen = sweep[s].seen
  BY DEF Goto, SweepStates, Stages
<1> HIDE DEF g
<1>2. LET next == [g EXCEPT !.due = due, !.orphans = orphans]
      IN  /\ next \in SweepStates /\ next.pc = g.pc /\ next.due = due
          /\ next.orphans = orphans /\ next.seen = g.seen
  BY <1>1 DEF SweepStates
<1>3. QED
  BY <1>1, <1>2 DEF g, Retiring

(* The join, and the retirement of what lost its subscription.               *)
LEMMA RetiringOK ==
  ASSUME IInv, NEW s \in Sweeps, Join(s) \/ Retire(s)
  PROVE  IInv'
<1>a. SweepsOK /\ sweep[s] \in SweepStates /\ sweep[s].due \in SUBSET Deliveries
      /\ sweep[s].orphans \in SUBSET Deliveries
  BY DEF IInv, SweepsOK, SweepStates
<1>1. CASE Join(s)
  <2>1. PICK due \in SUBSET sweep[s].due, orphans \in SUBSET sweep[s].due :
           /\ due \cap orphans = {} /\ UNCHANGED <<row, subs, claim, announcer, accepted, faults, posts>>
           /\ \/ Become(s, Sending(s, due))
              \/ Become(s, Retiring(s, due, orphans))
    BY <1>a, <1>1, JoinRows DEF Join
  <2>2. SweepOK(Sending(s, due), accepted')
    BY <1>a, <2>1, AfterOK
  <2>3. SweepOK(Retiring(s, due, orphans), accepted')
    BY <1>a, RetireForm DEF SweepOK
  <2>4. PICK next : Become(s, next) /\ SweepOK(next, accepted')
    BY <2>1, <2>2, <2>3
  <2>5. QED
    BY <2>1, <2>4, QuietOK DEF IInv, TypeOK
<1>2. CASE Retire(s)
  <2>1. PICK landed \in SUBSET sweep[s].orphans, after \in {Idle, Sending(s, sweep[s].due)} :
          /\ row' = [d \in Deliveries |-> IF d \in landed THEN Retired(d) ELSE row[d]]
          /\ sweep' = [Overtaken(landed, s) EXCEPT ![s] = after]
          /\ Fine \/ Fault
    BY <1>2 DEF Retire
  <2>2. UNCHANGED <<subs, claim, announcer, accepted, posts>>
    BY <1>2 DEF Retire
  <2>3. SweepOK(after, accepted)
    BY <1>a, AfterOK
  <2>4. \A d \in Deliveries : Retired(d) \in Rows /\ Retired(d).status = "dead"
    <3> SUFFICES ASSUME NEW d \in Deliveries PROVE Retired(d) \in Rows /\ Retired(d).status = "dead"
      OBVIOUS
    <3>1. row[d] \in Rows /\ "dead" \in Statuses
      BY DEF IInv, TypeOK, Statuses
    <3>2. Retired(d) = Ended(row[d], "dead", row[d].attempts) /\ row[d].attempts \in 0 .. MaxAttempts
      BY <3>1, RowFacts, RetiredRow
    <3>3. QED
      BY <3>1, <3>2, EndedRow
  <2>5. /\ row' \in [Deliveries -> Rows]
        /\ \A d \in Deliveries : row'[d].status = "sent" => row[d].status = "sent" \/ d \in accepted
    BY <2>1, <2>4 DEF IInv, TypeOK
  <2>6. faults' \in 0 .. MaxFaults
    BY <2>1, FaultsOK DEF IInv
  <2>7. QED
    BY <2>1, <2>2, <2>3, <2>5, <2>6, LandedOK
<1>3. QED
  BY <1>1, <1>2

(* Claiming: a row is only sent while what was listed is below the cap.      *)
LEMMA ClaimOK ==
  ASSUME IInv, NEW s \in Sweeps, Claim(s)
  PROVE  IInv'
<1> USE BoundsAssumption
<1> DEFINE c == Current(s)
<1>a. sweep[s].pc = "claim" /\ SweepsOK
  BY DEF Claim, At, IInv
<1>b. /\ sweep[s] \in SweepStates /\ sweep[s].due # {} /\ c \in Deliveries
      /\ sweep[s].seen[c] \in 0 .. MaxAttempts
  BY <1>a, BusyValues
<1>1. claim' \in [Deliveries -> Claims] /\ UNCHANGED <<row, subs, announcer, accepted, posts>>
  <2>1. claim \in [Deliveries -> Claims] /\ s \in Holders
    BY DEF IInv, TypeOK, Sweeps
  <2>2. AfterClaim(claim[c], s, Lease) \in Claims
    BY <1>b, <2>1, ClaimTypes
  <2>3. claim' \in {claim, [claim EXCEPT ![c] = AfterClaim(@, s, Lease)]}
        /\ UNCHANGED <<row, subs, announcer, accepted, posts>>
    BY DEF Claim
  <2>4. QED
    BY <2>1, <2>2, <2>3
<1>2. faults' \in 0 .. MaxFaults
  BY FaultsOK DEF Claim, IInv
<1>3. SweepOK(Idle, accepted) /\ SweepOK(Done(s), accepted)
  BY <1>a, <1>b, AfterOK
<1>4. SweepOK([Goto(s, "outcome") EXCEPT !.verdict = "dead"], accepted)
  <2>1. "outcome" \in Stages /\ "dead" \in Verdicts /\ "dead" \in Outcomes /\ "dead" # "sent"
    BY DEF Stages, Verdicts, Outcomes
  <2>2. Like([Goto(s, "outcome") EXCEPT !.verdict = "dead"], s, "outcome", "dead")
    BY <1>b, <2>1, Forms
  <2>3. QED
    BY <1>a, <1>b, <2>1, <2>2, LikeOK
<1>5. ASSUME ~ (sweep[s].seen[c] >= MaxAttempts)
      PROVE  SweepOK([Goto(s, "record") EXCEPT !.try = TRUE], accepted)
  <2>1. "record" \in Stages /\ sweep[s].seen[c] < MaxAttempts /\ "dead" \in Verdicts
    BY <1>b, <1>5 DEF Stages, Verdicts
  <2>2. Like([Goto(s, "record") EXCEPT !.try = TRUE], s, "record", sweep[s].verdict)
    BY <1>b, <2>1, Forms
  <2>3. QED
    BY <1>a, <1>b, <2>1, <2>2, LikeOK
<1>6. PICK next : Become(s, next) /\ SweepOK(next, accepted')
  BY <1>1, <1>3, <1>4, <1>5 DEF Claim
<1>7. QED
  BY <1>1, <1>2, <1>6, QuietOK DEF IInv, TypeOK

(* The attempt, and the outcome.                                             *)
LEMMA WritingOK ==
  ASSUME IInv, NEW s \in Sweeps, Record(s) \/ WriteOutcome(s)
  PROVE  IInv'
<1> USE BoundsAssumption
<1> DEFINE c == Current(s)
<1>a. sweep[s].pc \in {"record", "outcome"} /\ SweepsOK
  BY DEF Record, WriteOutcome, At, IInv
<1>b. /\ sweep[s] \in SweepStates /\ sweep[s].due # {} /\ c \in Deliveries
      /\ sweep[s].age \in 0 .. Lease /\ Counted(s) \in 0 .. MaxAttempts
      /\ sweep[s].pc = "record" => Attempt(s) \in 0 .. MaxAttempts
      /\ sweep[s].pc = "outcome" =>
              sweep[s].verdict \in Outcomes /\ (sweep[s].verdict = "sent" => c \in accepted)
  BY <1>a, BusyValues
<1>c. SweepOK(Thrown(s), accepted) /\ "none" \in Verdicts
  BY <1>a, <1>b, AfterOK DEF Verdicts
<1>1. CASE Record(s)
  <2> DEFINE new == [d \in {c} |-> [status |-> "sending", attempts |-> Attempt(s),
                                    holder |-> s, left |-> Lease - sweep[s].age]]
  <2>1. sweep[s].pc = "record" /\ Write(s, {c}, new, Goto(s, "post"), Thrown(s))
        /\ UNCHANGED <<subs, claim, announcer, accepted, posts>>
    BY <1>1 DEF Record, At
  <2>2. new[c] \in Rows /\ new[c].status = "sending"
    <3>1. Attempt(s) \in 0 .. MaxAttempts /\ Lease - sweep[s].age \in 0 .. Lease /\ s \in Holders
      BY <1>b, <2>1 DEF Sweeps
    <3>2. QED
      BY <3>1 DEF Rows, Statuses
  <2> HIDE DEF new
  <2>3. SweepOK(Goto(s, "post"), accepted)
    <3>1. "post" \in Stages
      BY DEF Stages
    <3>2. Like(Goto(s, "post"), s, "post", sweep[s].verdict)
      BY <1>b, <1>c, <3>1, Forms
    <3>3. QED
      BY <1>a, <1>b, <3>2, LikeOK
  <2>4. QED
    BY <1>b, <1>c, <2>1, <2>2, <2>3, WriteOK
<1>2. CASE WriteOutcome(s)
  <2> DEFINE new == [d \in {c} |-> [row[d] EXCEPT !.status = sweep[s].verdict,
                                                  !.attempts = Counted(s), !.holder = NoHolder]]
  <2>1. sweep[s].pc = "outcome"
        /\ Write(s, {c}, new, [Goto(s, "health") EXCEPT !.overtaken = FALSE], Thrown(s))
        /\ UNCHANGED <<subs, claim, announcer, accepted, posts>>
    BY <1>2 DEF WriteOutcome, At
  <2>2. new[c] \in Rows /\ new[c].status = sweep[s].verdict
    <3>1. row[c] \in Rows /\ sweep[s].verdict \in Statuses
      BY <1>b, <2>1 DEF IInv, TypeOK, Outcomes, Statuses
    <3>2. new[c] = Ended(row[c], sweep[s].verdict, Counted(s))
      BY DEF Ended
    <3>3. Ended(row[c], sweep[s].verdict, Counted(s)) \in Rows
          /\ Ended(row[c], sweep[s].verdict, Counted(s)).status = sweep[s].verdict
      <4> HIDE DEF new, c
      <4>1. QED
        BY <1>b, <3>1, EndedRow
    <3> HIDE DEF new
    <3>4. QED
      BY <3>2, <3>3
  <2> HIDE DEF new
  <2>3. SweepOK([Goto(s, "health") EXCEPT !.overtaken = FALSE], accepted)
    <3>1. "health" \in Stages
      BY DEF Stages
    <3>2. Like([Goto(s, "health") EXCEPT !.overtaken = FALSE], s, "health", sweep[s].verdict)
      BY <1>b, <1>c, <3>1, Forms
    <3>3. QED
      BY <1>a, <1>b, <3>2, LikeOK
  <2>4. QED
    BY <1>b, <1>c, <2>1, <2>2, <2>3, WriteOK
<1>3. QED
  BY <1>1, <1>2

(* The steps at a row that write none.                                       *)
LEMMA MovingOK ==
  ASSUME IInv, NEW s \in Sweeps,
         SigningFails(s) \/ Post(s) \/ Fence(s) \/ Catch(s) \/ WriteHealth(s) \/ Die(s)
  PROVE  IInv'
<1> DEFINE c == Current(s)
<1>a. SweepsOK /\ UNCHANGED <<row, subs, claim, announcer>>
      /\ claim \in [Deliveries -> Claims] /\ posts \in [Deliveries -> Nat] /\ accepted \subseteq Deliveries
      /\ faults' \in 0 .. MaxFaults
  <2>1. UNCHANGED <<row, subs, claim, announcer>> /\ (Fine \/ Fault)
    BY DEF SigningFails, Post, Fence, Catch, WriteHealth, Die, Fine
  <2>2. QED
    BY <2>1, FaultsOK DEF IInv, TypeOK
<1>1. CASE Die(s)
  <2>1. SweepOK(Idle, accepted)
    BY <1>a, AfterOK
  <2>2. QED
    BY <1>a, <1>1, <2>1, QuietOK DEF Die
<1>2. ASSUME sweep[s].pc \in {"post", "fence", "catch", "health"}
      PROVE  /\ sweep[s] \in SweepStates /\ sweep[s].due # {} /\ c \in Deliveries
             /\ SweepOK(Done(s), accepted) /\ SweepOK(Thrown(s), accepted)
  BY <1>a, <1>2, BusyValues, AfterOK
<1>3. CASE SigningFails(s)
  BY <1>a, <1>2, <1>3, QuietOK DEF SigningFails, At
<1>4. CASE WriteHealth(s)
  BY <1>a, <1>2, <1>4, QuietOK DEF WriteHealth, At
<1>5. CASE Post(s)
  <2>1. /\ accepted' \in {accepted, accepted \cup {c}} /\ sweep[s].pc = "post"
        /\ posts' = [posts EXCEPT ![c] = posts[c] + 1]
    BY <1>5 DEF Post, At
  <2>2. accepted \subseteq accepted' /\ accepted' \subseteq Deliveries /\ c \in Deliveries
    BY <1>a, <1>2, <2>1
  <2>3. posts' \in [Deliveries -> Nat]
    <3>1. posts[c] + 1 \in Nat
      BY <1>a, <2>2
    <3>2. QED
      BY <1>a, <2>1, <3>1
  <2>4. PICK v \in Outcomes : /\ Become(s, [Goto(s, "fence") EXCEPT !.verdict = v])
                              /\ v = "sent" => c \in accepted'
    BY <1>5 DEF Post, Transient, Outcomes
  <2>5. "fence" \in Stages /\ v \in Verdicts
    BY DEF Stages, Verdicts, Outcomes
  <2>6. Like([Goto(s, "fence") EXCEPT !.verdict = v], s, "fence", v)
    BY <1>2, <2>1, <2>5, Forms
  <2>7. SweepOK([Goto(s, "fence") EXCEPT !.verdict = v], accepted')
    BY <1>a, <1>2, <2>1, <2>4, <2>6, LikeOK
  <2>8. QED
    BY <1>a, <2>2, <2>3, <2>4, <2>7, QuietOK
<1>6. CASE Fence(s)
  <2>1. sweep[s].pc = "fence" /\ accepted' = accepted /\ posts' = posts
    BY <1>6 DEF Fence, At
  <2>2. "outcome" \in Stages /\ "none" \in Verdicts
    BY DEF Stages, Verdicts
  <2>3. sweep[s].verdict \in Outcomes /\ (sweep[s].verdict = "sent" => c \in accepted)
    BY <2>1, BusyValues
  <2>4. Like(Goto(s, "outcome"), s, "outcome", sweep[s].verdict)
    BY <1>2, <2>1, <2>2, Forms
  <2>5. SweepOK(Goto(s, "outcome"), accepted)
    BY <1>a, <1>2, <2>1, <2>3, <2>4, LikeOK
  <2>6. PICK next : Become(s, next) /\ SweepOK(next, accepted)
    BY <1>2, <1>6, <2>1, <2>5 DEF Fence
  <2>7. QED
    BY <1>a, <2>1, <2>6, QuietOK
<1>7. CASE Catch(s)
  <2>1. sweep[s].pc = "catch" /\ accepted' = accepted /\ posts' = posts
    BY <1>7 DEF Catch, At
  <2> DEFINE v == Transient(s)
  <2>2. "outcome" \in Stages /\ v \in Verdicts /\ v \in Outcomes /\ v # "sent"
    BY DEF Stages, Verdicts, Transient, Outcomes
  <2>3. Catch(s) => \/ Become(s, [Goto(s, "outcome") EXCEPT !.verdict = v, !.try = FALSE])
                    \/ Become(s, Done(s))
    BY DEF Catch
  <2> HIDE DEF v
  <2>4. Like([Goto(s, "outcome") EXCEPT !.verdict = v, !.try = FALSE], s, "outcome", v)
    BY <1>2, <2>1, <2>2, Forms
  <2>5. SweepOK([Goto(s, "outcome") EXCEPT !.verdict = v, !.try = FALSE], accepted)
    BY <1>a, <1>2, <2>1, <2>2, <2>4, LikeOK
  <2>6. PICK next : Become(s, next) /\ SweepOK(next, accepted)
    BY <1>2, <1>7, <2>1, <2>3, <2>5
  <2>7. QED
    BY <1>a, <2>1, <2>6, QuietOK
<1>8. QED
  BY <1>1, <1>3, <1>4, <1>5, <1>6, <1>7

(* A sweep that grows older is at the same row and stage.                    *)
LEMMA OlderSweep ==
  ASSUME NEW r \in SweepStates, NEW s \in Sweeps, r = sweep[s], Tick
  PROVE  /\ sweep'[s] \in SweepStates /\ sweep'[s].pc = r.pc /\ sweep'[s].due = r.due
         /\ sweep'[s].orphans = r.orphans /\ sweep'[s].seen = r.seen
         /\ sweep'[s].verdict = r.verdict /\ RowOf(sweep'[s]) = RowOf(r)
<1> DEFINE r1 == [r EXCEPT !.age = @ + 1]
<1>1. sweep'[s] = IF r.pc = "idle" \/ r.age = Lease THEN r ELSE r1
  BY DEF Tick, At
<1>2. ASSUME r.age # Lease
      PROVE  /\ r1 \in SweepStates /\ r1.pc = r.pc /\ r1.due = r.due /\ r1.orphans = r.orphans
             /\ r1.seen = r.seen /\ r1.verdict = r.verdict
  <2>1. r.age + 1 \in 0 .. Lease
    BY <1>2, BoundsAssumption DEF SweepStates
  <2>2. QED
    BY <2>1 DEF SweepStates
<1> HIDE DEF r1
<1>3. /\ sweep'[s] \in SweepStates /\ sweep'[s].pc = r.pc /\ sweep'[s].due = r.due
      /\ sweep'[s].orphans = r.orphans /\ sweep'[s].seen = r.seen /\ sweep'[s].verdict = r.verdict
  BY <1>1, <1>2
<1>4. QED
  BY <1>3 DEF RowOf

(* Time passes.                                                              *)
LEMMA TickOK ==
  ASSUME IInv, Tick
  PROVE  IInv'
<1>1. ASSUME NEW d \in Deliveries
      PROVE  row'[d] \in Rows /\ row'[d].status = row[d].status
  <2>1. row[d] \in Rows /\ row'[d] = [row[d] EXCEPT !.left = Less(@)]
    BY DEF IInv, TypeOK, Tick
  <2>2. \A s \in Sweeps : row'[d] \in Rows /\ row'[d].status = row[d].status
    BY <2>1, RowAges
  <2>3. CASE Sweeps # {}
    BY <2>2, <2>3
  <2>4. CASE Sweeps = {}
    BY <2>1, <2>4, BoundsAssumption DEF Rows, Absent, Less
  <2>5. QED
    BY <2>3, <2>4
<1>2. row' \in [Deliveries -> Rows]
  <2>1. row' = [d \in Deliveries |-> row'[d]]
    BY DEF Tick
  <2>2. QED
    BY <1>1, <2>1
<1>3. claim' \in [Deliveries -> Claims]
  <2>1. claim' = [d \in Deliveries |-> Aged(claim[d])] /\ claim \in [Deliveries -> Claims]
    BY DEF Tick, IInv, TypeOK
  <2>2. \A c \in Claims : Aged(c) \in Claims
    BY DEF Aged, Less, Claims, NoClaim
  <2>3. QED
    BY <2>1, <2>2
<1>4. ASSUME NEW s \in Sweeps
      PROVE  SweepOK(sweep'[s], accepted) /\ sweep'[s] \in SweepStates
  BY OlderSweep DEF IInv, SweepsOK, SweepOK
<1>5. SweepsOK'
  <2>1. sweep' = [s \in Sweeps |-> sweep'[s]] /\ accepted' = accepted
    BY DEF Tick
  <2>2. sweep' \in [Sweeps -> SweepStates]
    BY <1>4, <2>1
  <2>3. QED
    BY <1>4, <2>1, <2>2 DEF SweepsOK
<1>6. TypeOK'
  BY <1>2, <1>3, <1>5 DEF Tick, IInv, TypeOK, SweepsOK, SweepStates
<1>7. SentWasAccepted'
  BY <1>1 DEF Tick, IInv, SentWasAccepted
<1>8. QED
  BY <1>5, <1>6, <1>7 DEF IInv

(* The invariant holds throughout.                                           *)
LEMMA IInvHolds == Spec => []IInv
<1>1. Init => IInv
  <2> SUFFICES ASSUME Init PROVE IInv
    OBVIOUS
  <2>1. Idle \in SweepStates /\ Idle.pc = "idle"
    BY BoundsAssumption DEF Idle, SweepStates, Stages, Verdicts
  <2>2. SweepsOK
    BY <2>1 DEF Init, SweepsOK, SweepOK
  <2>3. TypeOK
    BY <2>2, BoundsAssumption DEF Init, TypeOK, SweepsOK, SweepStates, Rows, Claims
  <2>4. SentWasAccepted
    BY DEF Init, SentWasAccepted, Absent
  <2>5. QED
    BY <2>2, <2>3, <2>4 DEF IInv
<1>2. IInv /\ [Next]_vars => IInv'
  <2> SUFFICES ASSUME IInv, [Next]_vars PROVE IInv'
    OBVIOUS
  <2>1. CASE UNCHANGED vars
    BY <2>1 DEF vars, IInv, TypeOK, SweepsOK, SweepOK, SentWasAccepted
  <2>2. QED
    BY <2>1, AnnounceOK, ListOK, RetiringOK, ClaimOK, WritingOK, MovingOK, TickOK DEF Next, Deliver
<1>3. QED
  BY <1>1, <1>2, PTL DEF Spec

(***************************************************************************)
(* Type correctness, and with it the cap on attempts: no delivery records  *)
(* more than MaxAttempts, however sweeps overlap.                          *)
(***************************************************************************)
THEOREM WebhooksTypeCorrect == Spec => []TypeOK
<1>1. IInv => TypeOK
  BY DEF IInv
<1>2. QED
  BY <1>1, IInvHolds, PTL

(***************************************************************************)
(* A delivery shown as sent was taken by its receiver (deliver.ts          *)
(* records the outcome of the POST it made itself), whatever overlaps,     *)
(* whichever write fails and whenever the subscription goes away.          *)
(***************************************************************************)
THEOREM WebhooksSentWasAccepted == Spec => []SentWasAccepted
<1>1. IInv => SentWasAccepted
  BY DEF IInv
<1>2. QED
  BY <1>1, IInvHolds, PTL

-----------------------------------------------------------------------------
(***************************************************************************)
(* Sweeps that do not overlap, and one announcer.  What the sweep at work  *)
(* listed is then still so when it gets to it, for nobody else writes the  *)
(* rows; and a row that still names it as holder has been begun and not    *)
(* been settled, which the catch relies on: it is told by the holder       *)
(* whether the write that threw, of whichever kind, was an outcome's.      *)
(***************************************************************************)
Open == {"queued", "failed", "sending"}

\* Counted, of a sweep in state r.
CountedIn(r) == IF r.seen[RowOf(r)] >= MaxAttempts THEN MaxAttempts ELSE r.seen[RowOf(r)] + 1

Untouched(r, s, rows, d) ==
    rows[d].status \in Open /\ rows[d].attempts = r.seen[d] /\ rows[d].holder # s

\* What sweep s, in state r, may count on of the row it is at.
AtRow(r, s, q, n) ==
    /\ r.pc \in {"post", "fence"} => q.status \in Open /\ q.attempts = r.seen[RowOf(r)] + 1
    /\ r.pc = "post" => n < q.attempts
    /\ r.pc = "outcome" \/ (r.pc = "catch" /\ q.holder = s) =>
         q.status \in Open /\ q.attempts <= CountedIn(r)
    /\ r.pc = "health" => q.holder # s

Listed(r, s, rows, ps) ==
    /\ r.pc = "idle" => r.due = {}
    /\ r.pc # "retire" => r.orphans = {}
    /\ r.orphans \cap r.due = {}
    /\ \A d \in r.orphans : rows[d].status \in Open
    /\ \A d \in r.due : rows[d] # Absent
    /\ \A d \in r.due : d # RowOf(r) \/ r.pc \in {"join", "retire", "claim", "record"} =>
         Untouched(r, s, rows, d)
    /\ r.due # {} => AtRow(r, s, rows[RowOf(r)], ps[RowOf(r)])

OneSweep == \A s, t \in Sweeps : sweep[s].pc # "idle" /\ sweep[t].pc # "idle" => s = t

NotYetQueued == \A a \in Announcers : \A d \in announcer[a] : row[d] = Absent

SerialInv ==
    /\ OneSweep
    /\ NotYetQueued
    /\ PostsCounted
    /\ \A s \in Sweeps : Listed(sweep[s], s, row, posts)

(* The values of the sweep at work.                                          *)
LEMMA SerialValues ==
  ASSUME IInv, SerialInv, NEW s \in Sweeps
  PROVE  /\ Listed(sweep[s], s, row, posts) /\ sweep[s] \in SweepStates /\ SweepsOK
         /\ sweep[s].due \in SUBSET Deliveries /\ sweep[s].orphans \in SUBSET Deliveries
         /\ row \in [Deliveries -> Rows] /\ posts \in [Deliveries -> Nat]
         /\ sweep[s].pc \notin {"idle", "retire"} =>
              /\ sweep[s].due # {} /\ sweep[s].orphans = {} /\ Current(s) = RowOf(sweep[s])
              /\ Current(s) \in Deliveries /\ Current(s) \in sweep[s].due
              /\ row[Current(s)] # Absent /\ Counted(s) = CountedIn(sweep[s])
              /\ AtRow(sweep[s], s, row[Current(s)], posts[Current(s)])
<1>1. /\ Listed(sweep[s], s, row, posts) /\ sweep[s] \in SweepStates /\ SweepsOK
      /\ row \in [Deliveries -> Rows] /\ posts \in [Deliveries -> Nat]
  BY DEF IInv, SerialInv, TypeOK, SweepsOK
<1>2. sweep[s].due \in SUBSET Deliveries /\ sweep[s].orphans \in SUBSET Deliveries
  BY <1>1 DEF SweepStates
<1>3. ASSUME sweep[s].pc \notin {"idle", "retire"}
      PROVE  /\ sweep[s].due # {} /\ sweep[s].orphans = {} /\ Current(s) = RowOf(sweep[s])
             /\ Current(s) \in Deliveries /\ Current(s) \in sweep[s].due
             /\ row[Current(s)] # Absent /\ Counted(s) = CountedIn(sweep[s])
             /\ AtRow(sweep[s], s, row[Current(s)], posts[Current(s)])
  <2>1. /\ sweep[s].due # {} /\ Current(s) = RowOf(sweep[s])
        /\ Current(s) \in Deliveries /\ Current(s) \in sweep[s].due
    BY <1>3, BusyValues
  <2>2. Counted(s) = CountedIn(sweep[s])
    BY <2>1 DEF Counted, CountedIn, Attempt
  <2>3. QED
    BY <1>1, <1>3, <2>1, <2>2 DEF Listed
<1>4. QED
  BY <1>1, <1>2, <1>3

(* Nobody else is about to write an outcome.                                 *)
LEMMA NobodyOvertaken ==
  ASSUME IInv, SerialInv, NEW ds, NEW s,
         \/ s \in Sweeps /\ sweep[s].pc # "idle"
         \/ \A t \in Sweeps : sweep[t].due \cap ds = {}
  PROVE  Overtaken(ds, s) = sweep
<1>1. ASSUME NEW t \in Sweeps PROVE Overtaken(ds, s)[t] = sweep[t]
  <2>1. CASE s \in Sweeps /\ sweep[s].pc # "idle"
    <3>1. t = s \/ sweep[t].pc = "idle"
      BY <2>1 DEF SerialInv, OneSweep
    <3>2. QED
      BY <3>1 DEF Overtaken, At
  <2>2. CASE \A u \in Sweeps : sweep[u].due \cap ds = {}
    <3>1. sweep[t].pc = "outcome" => Current(t) \notin ds
      BY <2>2, SerialValues
    <3>2. QED
      BY <3>1 DEF Overtaken, At
  <2>3. QED
    BY <2>1, <2>2
<1>2. sweep \in [Sweeps -> SweepStates]
  BY DEF IInv, SweepsOK
<1>3. QED
  BY <1>1, <1>2 DEF Overtaken

(* A step of the sweep at work, which writes only rows that were there.      *)
LEMMA SerialMove ==
  ASSUME IInv, SerialInv, NEW s \in Sweeps, sweep[s].pc # "idle",
         NEW next, sweep' = [sweep EXCEPT ![s] = next], Listed(next, s, row', posts'),
         \A d \in Deliveries : row[d] = Absent => row'[d] = Absent,
         \A d \in Deliveries : posts'[d] <= row'[d].attempts, announcer' = announcer
  PROVE  SerialInv'
<1>1. sweep \in [Sweeps -> SweepStates] /\ announcer \in [Announcers -> SUBSET Deliveries]
  BY DEF IInv, SweepsOK, TypeOK
<1>2. OneSweep'
  BY <1>1 DEF SerialInv, OneSweep
<1>3. NotYetQueued'
  BY <1>1 DEF SerialInv, NotYetQueued
<1>4. PostsCounted'
  BY DEF PostsCounted
<1>5. ASSUME NEW t \in Sweeps PROVE Listed(sweep'[t], t, row', posts')
  <2>1. CASE t = s
    BY <1>1, <2>1
  <2>2. CASE t # s
    <3>1. sweep'[t] = sweep[t] /\ sweep[t].pc = "idle"
      BY <1>1, <2>2 DEF SerialInv, OneSweep
    <3>2. Listed(sweep[t], t, row, posts)
      BY DEF SerialInv
    <3>3. QED
      BY <3>1, <3>2 DEF Listed
  <2>3. QED
    BY <2>1, <2>2
<1>6. QED
  BY <1>2, <1>3, <1>4, <1>5 DEF SerialInv

(* The states a sweep goes to from its row, which was all it wrote.          *)
LEMMA AtRowListed ==
  ASSUME IInv, SerialInv, NEW s \in Sweeps, sweep[s].pc \notin {"idle", "retire"}, NEW rows, NEW ps,
         \A d \in Deliveries \ {Current(s)} : rows[d] = row[d]
  PROVE  /\ Listed(Idle, s, rows, ps) /\ Listed(Done(s), s, rows, ps)
         /\ \A r1, stage, v :
              /\ Like(r1, s, stage, v) /\ stage \notin {"idle", "join", "retire", "claim"}
              /\ rows[Current(s)] # Absent /\ AtRow(r1, s, rows[Current(s)], ps[Current(s)])
              /\ stage = "record" => Untouched(sweep[s], s, rows, Current(s))
              => Listed(r1, s, rows, ps)
         /\ /\ rows[Current(s)] # Absent
            /\ rows[Current(s)].holder = s =>
                 rows[Current(s)].status \in Open /\ rows[Current(s)].attempts <= Counted(s)
            => Listed(Thrown(s), s, rows, ps)
<1> DEFINE c == Current(s)
           r == sweep[s]
<1>1. /\ Listed(r, s, row, posts) /\ r \in SweepStates
      /\ r.due # {} /\ r.orphans = {} /\ c = RowOf(r) /\ c \in Deliveries /\ c \in r.due
      /\ r.due \in SUBSET Deliveries /\ Counted(s) = CountedIn(r)
  BY SerialValues
<1>2. \A d \in r.due : d # c => rows[d] # Absent /\ Untouched(r, s, rows, d)
  BY <1>1 DEF Listed, Untouched
<1>3. Listed(Idle, s, rows, ps)
  BY DEF Listed, Idle
<1>4. Listed(Done(s), s, rows, ps)
  <2>1. CASE Done(s) # Idle
    <3>1. /\ Done(s).pc = "claim" /\ Done(s).due = r.due \ {c} /\ Done(s).orphans = {}
          /\ \A d \in Done(s).due : Done(s).seen[d] = r.seen[d]
      BY <1>1, <2>1, NextRows
    <3>2. \A d \in Done(s).due : rows[d] # Absent /\ Untouched(Done(s), s, rows, d)
      BY <1>2, <3>1 DEF Untouched
    <3>3. QED
      BY <3>1, <3>2 DEF Listed, AtRow
  <2>2. QED
    BY <1>3, <2>1
<1>5. ASSUME NEW r1, NEW stage, NEW v, Like(r1, s, stage, v),
             stage \notin {"idle", "join", "retire", "claim"},
             rows[c] # Absent, AtRow(r1, s, rows[c], ps[c]),
             stage = "record" => Untouched(r, s, rows, c)
      PROVE  Listed(r1, s, rows, ps)
  <2>1. r1.pc = stage /\ r1.due = r.due /\ r1.orphans = {} /\ r1.seen = r.seen /\ RowOf(r1) = c
    BY <1>1, <1>5 DEF Like
  <2>2. \A d \in r1.due : rows[d] # Absent
    BY <1>2, <1>5, <2>1
  <2>3. ASSUME NEW d \in r1.due, d # RowOf(r1) \/ r1.pc \in {"join", "retire", "claim", "record"}
        PROVE  Untouched(r1, s, rows, d)
    <3>1. Untouched(r, s, rows, d)
      BY <1>2, <1>5, <2>1, <2>3
    <3>2. QED
      BY <2>1, <3>1 DEF Untouched
  <2>4. AtRow(r1, s, rows[RowOf(r1)], ps[RowOf(r1)])
    BY <1>5, <2>1
  <2>5. QED
    BY <1>5, <2>1, <2>2, <2>3, <2>4 DEF Listed
<1>6. ASSUME rows[c] # Absent, rows[c].holder = s => rows[c].status \in Open /\ rows[c].attempts <= Counted(s)
      PROVE  Listed(Thrown(s), s, rows, ps)
  <2>1. "catch" \in Stages /\ "none" \in Verdicts
    BY DEF Stages, Verdicts
  <2>2. Thrown(s) = Idle \/ Like(Thrown(s), s, "catch", r.verdict)
    BY <1>1, <2>1, Forms
  <2>3. CASE Like(Thrown(s), s, "catch", r.verdict)
    <3>1. Thrown(s).pc = "catch" /\ CountedIn(Thrown(s)) = Counted(s)
      BY <1>1, <2>3 DEF Like, CountedIn
    <3>2. AtRow(Thrown(s), s, rows[c], ps[c])
      BY <1>6, <3>1 DEF AtRow
    <3>3. QED
      BY <1>5, <1>6, <2>3, <3>2
  <2>4. QED
    BY <1>3, <2>2, <2>3
<1>7. QED
  BY <1>3, <1>4, <1>5, <1>6

(* The listing: the rows are as it finds them, and none names the sweep.     *)
LEMMA ListSerial ==
  ASSUME ~ Overlap, IInv, SerialInv, NEW s \in Sweeps, List(s)
  PROVE  SerialInv'
<1> DEFINE due == {d \in Deliveries : Due(d)}
           seen == [d \in Deliveries |-> IF d \in due THEN row[d].attempts ELSE 0]
           next == [Idle EXCEPT !.pc = "join", !.due = due, !.seen = seen]
<1>1. /\ row' = [d \in Deliveries |-> [row[d] EXCEPT !.holder = Forget(s, @)]]
      /\ UNCHANGED <<announcer, posts>> /\ \A t \in Sweeps : sweep[t].pc = "idle"
      /\ sweep' = [sweep EXCEPT ![s] = next]
  BY DEF List, Become, At
<1>2. /\ row \in [Deliveries -> Rows] /\ sweep \in [Sweeps -> SweepStates]
      /\ announcer \in [Announcers -> SUBSET Deliveries]
  BY DEF IInv, TypeOK, SweepsOK
<1>3. ASSUME NEW d \in Deliveries
      PROVE  /\ row'[d].status = row[d].status /\ row'[d].attempts = row[d].attempts /\ row'[d].holder # s
             /\ row'[d] \in Rows
  <2>1. LET q == [row[d] EXCEPT !.holder = Forget(s, @)]
        IN  q \in Rows /\ q.status = row[d].status /\ q.attempts = row[d].attempts /\ q.holder # s
    BY <1>2, RowAges
  <2>2. QED
    BY <1>1, <2>1
<1>4. ASSUME NEW d \in Deliveries, row[d] = Absent PROVE row'[d] = Absent
  <2>1. row'[d].status \notin Statuses
    BY <1>2, <1>3, <1>4, RowFacts
  <2>2. QED
    BY <1>3, <2>1 DEF Rows
<1>5. due \subseteq Deliveries /\ \A d \in due : row[d].status \in Open /\ seen[d] = row[d].attempts
  BY DEF Due, Open
<1> HIDE DEF due, seen
<1>6. next.pc = "join" /\ next.due = due /\ next.orphans = {} /\ next.seen = seen
  BY DEF Idle
<1> HIDE DEF next
<1>7. \A d \in due : row'[d] # Absent /\ Untouched(next, s, row', d)
  BY <1>3, <1>5, <1>6 DEF Untouched, Open, Absent
<1>8. Listed(next, s, row', posts')
  BY <1>6, <1>7 DEF Listed, AtRow
<1>9. ASSUME NEW t \in Sweeps PROVE Listed(sweep'[t], t, row', posts')
  <2>1. CASE t = s
    BY <1>1, <1>2, <1>8, <2>1
  <2>2. CASE t # s
    <3>1. sweep'[t] = sweep[t] /\ sweep[t].pc = "idle" /\ Listed(sweep[t], t, row, posts)
      BY <1>1, <1>2, <2>2 DEF SerialInv
    <3>2. QED
      BY <3>1 DEF Listed
  <2>3. QED
    BY <2>1, <2>2
<1>10. OneSweep'
  BY <1>1, <1>2 DEF OneSweep
<1>11. NotYetQueued'
  BY <1>1, <1>2, <1>4 DEF SerialInv, NotYetQueued
<1>12. PostsCounted'
  BY <1>1, <1>3 DEF SerialInv, PostsCounted
<1>13. QED
  BY <1>9, <1>10, <1>11, <1>12 DEF SerialInv

(* The rows the join leaves to send are still as listed once others, which   *)
(* lost their subscription, are retired.                                     *)
LEMMA SendingListed ==
  ASSUME IInv, SerialInv, NEW s \in Sweeps, sweep[s].pc \in {"join", "retire"},
         NEW due \in SUBSET sweep[s].due, NEW rows, NEW ps, \A d \in due : rows[d] = row[d]
  PROVE  Listed(Sending(s, due), s, rows, ps)
<1>1. /\ Listed(sweep[s], s, row, posts) /\ sweep[s] \in SweepStates
      /\ due \in SUBSET Deliveries
  BY SerialValues
<1>2. Sending(s, due) = Idle \/
      /\ Sending(s, due).pc = "claim" /\ Sending(s, due).due = due /\ Sending(s, due).orphans = {}
      /\ \A d \in due : Sending(s, due).seen[d] = sweep[s].seen[d]
  BY <1>1, NextRows
<1>3. CASE Sending(s, due) = Idle
  BY <1>3 DEF Listed, Idle
<1>4. CASE Sending(s, due) # Idle
  <2>1. \A d \in due : rows[d] # Absent /\ Untouched(Sending(s, due), s, rows, d)
    BY <1>1, <1>2, <1>4 DEF Listed, Untouched
  <2>2. QED
    BY <1>2, <1>4, <2>1 DEF Listed, AtRow
<1>5. QED
  BY <1>3, <1>4

(* The join, and the retirement of what lost its subscription.               *)
LEMMA RetiringSerial ==
  ASSUME IInv, SerialInv, NEW s \in Sweeps, Join(s) \/ Retire(s)
  PROVE  SerialInv'
<1>a. /\ Listed(sweep[s], s, row, posts) /\ sweep[s] \in SweepStates
      /\ sweep[s].due \in SUBSET Deliveries /\ sweep[s].orphans \in SUBSET Deliveries
      /\ row \in [Deliveries -> Rows] /\ posts \in [Deliveries -> Nat]
  BY SerialValues
<1>1. CASE Join(s)
  <2>1. PICK due \in SUBSET sweep[s].due, orphans \in SUBSET sweep[s].due :
           /\ due \cap orphans = {} /\ UNCHANGED <<row, subs, claim, announcer, accepted, faults, posts>>
           /\ \/ Become(s, Sending(s, due))
              \/ Become(s, Retiring(s, due, orphans))
    BY <1>a, <1>1, JoinRows DEF Join
  <2>2. sweep[s].pc = "join"
    BY <1>1 DEF Join, At
  <2>3. Listed(Sending(s, due), s, row, posts)
    BY <2>1, <2>2, SendingListed
  <2>4. Listed(Retiring(s, due, orphans), s, row, posts)
    <3> DEFINE next == Retiring(s, due, orphans)
    <3>1. /\ next.pc = "retire" /\ next.due = due /\ next.orphans = orphans
          /\ next.seen = sweep[s].seen
      BY <1>a, RetireForm
    <3> HIDE DEF next
    <3>2. \A d \in sweep[s].due : row[d] # Absent /\ Untouched(next, s, row, d)
      BY <1>a, <2>2, <3>1 DEF Listed, Untouched
    <3>3. Listed(next, s, row, posts)
      BY <2>1, <3>1, <3>2 DEF Listed, Untouched, AtRow
    <3>4. QED
      BY <3>3 DEF next
  <2>5. PICK next : sweep' = [sweep EXCEPT ![s] = next] /\ Listed(next, s, row, posts)
    BY <2>1, <2>3, <2>4 DEF Become
  <2>6. QED
    BY <2>1, <2>2, <2>5, SerialMove DEF SerialInv, PostsCounted
<1>2. CASE Retire(s)
  <2>1. PICK landed \in SUBSET sweep[s].orphans, after \in {Idle, Sending(s, sweep[s].due)} :
          /\ row' = [d \in Deliveries |-> IF d \in landed THEN Retired(d) ELSE row[d]]
          /\ sweep' = [Overtaken(landed, s) EXCEPT ![s] = after]
    BY <1>2 DEF Retire
  <2>2. sweep[s].pc = "retire" /\ UNCHANGED <<announcer, posts>>
    BY <1>2 DEF Retire, At
  <2>3. sweep' = [sweep EXCEPT ![s] = after]
    BY <2>1, <2>2, NobodyOvertaken
  <2>4. \A d \in landed : d \notin sweep[s].due /\ d \in Deliveries /\ row[d].status \in Open
    BY <1>a DEF Listed
  <2>5. \A d \in sweep[s].due : row'[d] = row[d]
    BY <1>a, <2>1, <2>4
  <2>6. Listed(after, s, row', posts')
    <3>1. Listed(Sending(s, sweep[s].due), s, row', posts')
      BY <2>2, <2>5, SendingListed
    <3>2. QED
      BY <2>1, <3>1 DEF Listed, Idle
  <2>7. \A d \in Deliveries : row[d] = Absent => row'[d] = Absent
    BY <2>1, <2>4 DEF Open, Absent
  <2>8. ASSUME NEW d \in Deliveries PROVE row'[d].attempts = row[d].attempts
    <3>1. Retired(d).attempts = row[d].attempts
      <4>1. Retired(d) = Ended(row[d], "dead", row[d].attempts) /\ row[d].attempts \in 0 .. MaxAttempts
        BY <1>a, RowFacts, RetiredRow
      <4>2. row[d] \in Rows /\ "dead" \in Statuses
        BY <1>a DEF Statuses
      <4>3. Ended(row[d], "dead", row[d].attempts).attempts = row[d].attempts
        BY <4>1, <4>2, EndedRow
      <4>4. QED
        BY <4>1, <4>3
    <3>2. QED
      BY <2>1, <3>1
  <2>9. \A d \in Deliveries : posts'[d] <= row'[d].attempts
    BY <2>2, <2>8 DEF SerialInv, PostsCounted
  <2>10. QED
    BY <2>2, <2>3, <2>6, <2>7, <2>9, SerialMove
<1>3. QED
  BY <1>1, <1>2

(* Claiming.                                                                 *)
LEMMA ClaimSerial ==
  ASSUME IInv, SerialInv, NEW s \in Sweeps, Claim(s)
  PROVE  SerialInv'
<1> USE BoundsAssumption
<1> DEFINE c == Current(s)
           r == sweep[s]
<1>1. r.pc = "claim" /\ UNCHANGED <<row, announcer, posts>>
  BY DEF Claim, At
<1>2. /\ Listed(r, s, row, posts) /\ r \in SweepStates /\ r.due # {} /\ r.orphans = {}
      /\ c = RowOf(r) /\ c \in Deliveries /\ c \in r.due /\ row[c] # Absent
      /\ row \in [Deliveries -> Rows] /\ posts \in [Deliveries -> Nat]
  BY <1>1, SerialValues
<1>3. Untouched(r, s, row, c) /\ r.seen[c] \in 0 .. MaxAttempts
  BY <1>1, <1>2 DEF Listed, SweepStates
<1>4. Listed(Idle, s, row, posts) /\ Listed(Done(s), s, row, posts)
  BY <1>1, AtRowListed
<1>5. ASSUME NEW r1, NEW stage, NEW v, Like(r1, s, stage, v), stage \in {"record", "outcome"},
             AtRow(r1, s, row[c], posts[c])
      PROVE  Listed(r1, s, row, posts)
  BY <1>1, <1>2, <1>3, <1>5, AtRowListed
<1>6. ASSUME r.seen[c] >= MaxAttempts
      PROVE  Listed([Goto(s, "outcome") EXCEPT !.verdict = "dead"], s, row, posts)
  <2> DEFINE next == [Goto(s, "outcome") EXCEPT !.verdict = "dead"]
  <2>1. "outcome" \in Stages /\ "dead" \in Verdicts
    BY DEF Stages, Verdicts
  <2>2. Like(next, s, "outcome", "dead")
    BY <1>2, <2>1, Forms
  <2> HIDE DEF next
  <2>3. next.pc = "outcome" /\ CountedIn(next) = MaxAttempts
    BY <1>2, <1>6, <2>2 DEF Like, CountedIn
  <2>4. row[c].attempts = r.seen[c] /\ row[c].status \in Open
    BY <1>3 DEF Untouched
  <2>5. row[c].attempts <= MaxAttempts
    BY <1>3, <2>4
  <2>6. AtRow(next, s, row[c], posts[c])
    BY <2>3, <2>4, <2>5 DEF AtRow
  <2>7. Listed(next, s, row, posts)
    BY <1>5, <2>2, <2>6
  <2>8. QED
    BY <2>7 DEF next
<1>7. Listed([Goto(s, "record") EXCEPT !.try = TRUE], s, row, posts)
  <2> DEFINE next == [Goto(s, "record") EXCEPT !.try = TRUE]
  <2>1. "record" \in Stages /\ "none" \in Verdicts
    BY DEF Stages, Verdicts
  <2>2. Like(next, s, "record", r.verdict)
    BY <1>2, <2>1, Forms
  <2> HIDE DEF next
  <2>3. AtRow(next, s, row[c], posts[c])
    BY <2>2 DEF AtRow, Like
  <2>4. Listed(next, s, row, posts)
    BY <1>5, <2>2, <2>3
  <2>5. QED
    BY <2>4 DEF next
<1>8. PICK next : sweep' = [sweep EXCEPT ![s] = next] /\ Listed(next, s, row, posts)
  BY <1>4, <1>6, <1>7 DEF Claim, Become
<1>9. QED
  BY <1>1, <1>8, SerialMove DEF SerialInv, PostsCounted

(* A write of the sweep at work: done, done and not answered, or refused.    *)
LEMMA WriteSerial ==
  ASSUME IInv, SerialInv, NEW s \in Sweeps, sweep[s].pc \notin {"idle", "retire"},
         NEW new, NEW answered, Write(s, {Current(s)}, new, answered, Thrown(s)),
         new[Current(s)] # Absent, row[Current(s)].attempts <= new[Current(s)].attempts,
         new[Current(s)].attempts \in Nat,
         row[Current(s)].holder = s =>
           row[Current(s)].status \in Open /\ row[Current(s)].attempts <= Counted(s),
         new[Current(s)].holder = s =>
           new[Current(s)].status \in Open /\ new[Current(s)].attempts <= Counted(s),
         \E stage, v : /\ Like(answered, s, stage, v) /\ stage \in {"post", "health"}
                       /\ AtRow(answered, s, new[Current(s)], posts[Current(s)]),
         UNCHANGED <<announcer, posts>>
  PROVE  SerialInv'
<1> DEFINE c == Current(s)
<1>1. /\ c \in Deliveries /\ c \in sweep[s].due /\ row[c] # Absent
      /\ row \in [Deliveries -> Rows] /\ posts \in [Deliveries -> Nat]
  BY SerialValues
<1>2. \A d \in Deliveries : posts[d] <= row[d].attempts
  BY DEF SerialInv, PostsCounted
<1>3. row[c].attempts \in Nat /\ posts[c] \in Nat
  BY <1>1, RowFacts, BoundsAssumption
<1>4. CASE /\ row' = [d \in Deliveries |-> IF d \in {c} THEN new[d] ELSE row[d]]
           /\ \E after \in {answered, Thrown(s)} : sweep' = [Overtaken({c}, s) EXCEPT ![s] = after]
  <2>1. PICK after \in {answered, Thrown(s)} : sweep' = [Overtaken({c}, s) EXCEPT ![s] = after]
    BY <1>4
  <2>2. sweep' = [sweep EXCEPT ![s] = after]
    BY <2>1, NobodyOvertaken
  <2>3. row'[c] = new[c] /\ \A d \in Deliveries \ {c} : row'[d] = row[d]
    BY <1>1, <1>4
  <2>4. posts' = posts
    OBVIOUS
  <2>5. Listed(Thrown(s), s, row', posts')
    BY <2>3, AtRowListed
  <2>6. Listed(answered, s, row', posts')
    <3>1. PICK stage, v : /\ Like(answered, s, stage, v) /\ stage \in {"post", "health"}
                          /\ AtRow(answered, s, new[c], posts[c])
      OBVIOUS
    <3>2. QED
      BY <2>3, <2>4, <3>1, AtRowListed
  <2>7. \A d \in Deliveries : row[d] = Absent => row'[d] = Absent
    BY <1>1, <2>3
  <2>8. \A d \in Deliveries : posts'[d] <= row'[d].attempts
    <3>1. posts[c] <= new[c].attempts
      BY <1>1, <1>2, <1>3
    <3>2. QED
      BY <1>2, <2>3, <2>4, <3>1
  <2>9. QED
    BY <2>1, <2>2, <2>5, <2>6, <2>7, <2>8, SerialMove
<1>5. CASE Become(s, Thrown(s)) /\ UNCHANGED row
  <2>1. Listed(Thrown(s), s, row', posts')
    BY <1>1, <1>5, AtRowListed
  <2>2. sweep' = [sweep EXCEPT ![s] = Thrown(s)]
    BY <1>5 DEF Become
  <2>3. QED
    BY <1>2, <1>5, <2>1, <2>2, SerialMove
<1>6. QED
  BY <1>4, <1>5 DEF Write

(* The attempt is counted before the POST, and an outcome keeps the count.   *)
LEMMA WritingSerial ==
  ASSUME IInv, SerialInv, NEW s \in Sweeps, Record(s) \/ WriteOutcome(s)
  PROVE  SerialInv'
<1> USE BoundsAssumption
<1> DEFINE c == Current(s)
           r == sweep[s]
<1>1. r.pc \in {"record", "outcome"} /\ UNCHANGED <<announcer, posts>>
  BY DEF Record, WriteOutcome, At
<1>2. /\ Listed(r, s, row, posts) /\ r \in SweepStates /\ r.due # {} /\ c = RowOf(r)
      /\ c \in Deliveries /\ c \in r.due /\ Counted(s) = CountedIn(r)
      /\ row \in [Deliveries -> Rows] /\ posts \in [Deliveries -> Nat]
      /\ AtRow(r, s, row[c], posts[c])
  BY <1>1, SerialValues
<1>3. /\ posts[c] <= row[c].attempts /\ row[c].attempts \in Nat /\ posts[c] \in Nat
      /\ r.seen[c] \in Nat /\ Attempt(s) = r.seen[c] + 1 /\ Counted(s) \in Nat
  <2>1. r.seen[c] \in Nat /\ Counted(s) \in Nat
    BY <1>1, BusyValues
  <2>2. row[c].attempts \in Nat
    BY <1>2, RowFacts
  <2>3. QED
    BY <1>2, <2>1, <2>2 DEF SerialInv, PostsCounted, Attempt
<1>4. s # NoHolder
  BY NoHolderAssumption DEF Sweeps
<1>5. CASE Record(s)
  <2> DEFINE new == [d \in {c} |-> [status |-> "sending", attempts |-> Attempt(s),
                                    holder |-> s, left |-> Lease - r.age]]
  <2>1. r.pc = "record" /\ Write(s, {c}, new, Goto(s, "post"), Thrown(s))
    BY <1>5 DEF Record, At
  <2>2. new[c].status = "sending" /\ new[c].attempts = Attempt(s) /\ new[c] # Absent
    BY DEF Absent
  <2> HIDE DEF new
  <2>3. row[c].attempts = r.seen[c] /\ row[c].holder # s
    BY <1>2, <2>1 DEF Listed, Untouched
  <2>4. Counted(s) = Attempt(s)
    <3>1. r.seen[c] < MaxAttempts
      BY <1>2, <2>1 DEF IInv, SweepsOK, SweepOK
    <3>2. QED
      BY <1>3, <3>1 DEF Counted
  <2>5. Like(Goto(s, "post"), s, "post", r.verdict)
    <3>1. "post" \in Stages /\ "none" \in Verdicts
      BY DEF Stages, Verdicts
    <3>2. QED
      BY <1>2, <3>1, Forms
  <2>6. AtRow(Goto(s, "post"), s, new[c], posts[c])
    <3>1. /\ Goto(s, "post").pc = "post" /\ RowOf(Goto(s, "post")) = c
          /\ Goto(s, "post").seen = r.seen
      BY <2>5 DEF Like
    <3>2. posts[c] < new[c].attempts /\ new[c].attempts = r.seen[c] + 1
      BY <1>3, <2>2, <2>3
    <3>3. QED
      BY <2>2, <3>1, <3>2 DEF AtRow, Open
  <2>7. /\ row[c].attempts <= new[c].attempts /\ new[c].attempts \in Nat
        /\ new[c].status \in Open /\ new[c].attempts <= Counted(s)
    BY <1>3, <2>2, <2>3, <2>4 DEF Open
  <2>8. \E stage, v : /\ Like(Goto(s, "post"), s, stage, v) /\ stage \in {"post", "health"}
                      /\ AtRow(Goto(s, "post"), s, new[c], posts[c])
    BY <2>5, <2>6
  <2>9. QED
    BY <1>1, <2>1, <2>2, <2>3, <2>7, <2>8, WriteSerial
<1>6. CASE WriteOutcome(s)
  <2> DEFINE new == [d \in {c} |-> [row[d] EXCEPT !.status = r.verdict,
                                                  !.attempts = Counted(s), !.holder = NoHolder]]
             next == [Goto(s, "health") EXCEPT !.overtaken = FALSE]
  <2>1. r.pc = "outcome" /\ Write(s, {c}, new, next, Thrown(s))
    BY <1>6 DEF WriteOutcome, At
  <2>2. new[c] = Ended(row[c], r.verdict, Counted(s))
    BY DEF Ended
  <2>3. Like(next, s, "health", r.verdict)
    <3>1. "health" \in Stages /\ "none" \in Verdicts
      BY DEF Stages, Verdicts
    <3>2. QED
      BY <1>2, <3>1, Forms
  <2> HIDE DEF new, next
  <2>4. r.verdict \in Statuses /\ Counted(s) \in 0 .. MaxAttempts /\ row[c] \in Rows
    BY <1>2, <2>1, BusyValues DEF Outcomes, Statuses
  <2>5. /\ new[c] \in Rows /\ new[c].status = r.verdict /\ new[c].attempts = Counted(s)
        /\ new[c].holder = NoHolder
    BY <2>2, <2>4, EndedRow
  <2>6. new[c] # Absent
    BY <2>4, <2>5, RowFacts
  <2>7. row[c].status \in Open /\ row[c].attempts <= Counted(s)
    BY <1>2, <2>1 DEF AtRow
  <2>8. AtRow(next, s, new[c], posts[c])
    BY <1>4, <2>3, <2>5 DEF AtRow, Like
  <2>9. \E stage, v : /\ Like(next, s, stage, v) /\ stage \in {"post", "health"}
                      /\ AtRow(next, s, new[c], posts[c])
    BY <2>3, <2>8
  <2>10. QED
    BY <1>1, <1>3, <1>4, <2>1, <2>5, <2>6, <2>7, <2>9, WriteSerial
<1>7. QED
  BY <1>5, <1>6

(* The POST, the fences and the health write.                                *)
LEMMA MovingSerial ==
  ASSUME IInv, SerialInv, NEW s \in Sweeps,
         SigningFails(s) \/ Post(s) \/ Fence(s) \/ Catch(s) \/ WriteHealth(s) \/ Die(s)
  PROVE  SerialInv'
<1> USE BoundsAssumption
<1> DEFINE c == Current(s)
           r == sweep[s]
<1>1. UNCHANGED <<row, announcer>> /\ r.pc # "idle"
  BY DEF SigningFails, Post, Fence, Catch, WriteHealth, Die, At
<1>2. ASSUME NEW next, sweep' = [sweep EXCEPT ![s] = next], Listed(next, s, row, posts), posts' = posts
      PROVE  SerialInv'
  BY <1>1, <1>2, SerialMove DEF SerialInv, PostsCounted
<1>3. CASE Die(s)
  <2>1. sweep' = [sweep EXCEPT ![s] = Idle] /\ posts' = posts
    BY <1>3 DEF Die, Become
  <2>2. Listed(Idle, s, row, posts)
    BY DEF Listed, Idle
  <2>3. QED
    BY <1>2, <2>1, <2>2
<1>4. ASSUME r.pc \in {"post", "fence", "catch", "health"}
      PROVE  /\ r \in SweepStates /\ c = RowOf(r) /\ c \in Deliveries
             /\ row[c] # Absent /\ Counted(s) = CountedIn(r) /\ AtRow(r, s, row[c], posts[c])
             /\ row \in [Deliveries -> Rows] /\ posts \in [Deliveries -> Nat]
             /\ row[c].attempts \in 0 .. MaxAttempts /\ r.seen[c] \in Nat
             /\ Listed(Done(s), s, row, posts)
  <2>1. row[c].attempts \in 0 .. MaxAttempts
    BY <1>4, SerialValues, RowFacts
  <2>2. r.seen[c] \in Nat
    BY <1>4, BusyValues
  <2>3. QED
    BY <1>4, <2>1, <2>2, SerialValues, AtRowListed
<1>5. ASSUME r.pc \in {"post", "fence"}
      PROVE  row[c].status \in Open /\ row[c].attempts = r.seen[c] + 1 /\ row[c].attempts <= Counted(s)
  <2>1. row[c].status \in Open /\ row[c].attempts = r.seen[c] + 1
    BY <1>4, <1>5 DEF AtRow
  <2>2. ~ (r.seen[c] >= MaxAttempts)
    BY <1>4, <1>5, <2>1
  <2>3. QED
    BY <1>4, <1>5, <2>1, <2>2 DEF Counted, Attempt
<1>6. CASE SigningFails(s)
  <2>1. r.pc = "post" /\ posts' = posts /\ sweep' = [sweep EXCEPT ![s] = Thrown(s)]
    BY <1>6 DEF SigningFails, At, Become
  <2>2. Listed(Thrown(s), s, row, posts)
    BY <1>4, <1>5, <2>1, AtRowListed
  <2>3. QED
    BY <1>2, <2>1, <2>2
<1>7. CASE WriteHealth(s)
  <2>1. r.pc = "health" /\ posts' = posts
        /\ \E next \in {Done(s), Thrown(s)} : sweep' = [sweep EXCEPT ![s] = next]
    BY <1>7 DEF WriteHealth, At, Become
  <2>2. row[c].holder # s
    BY <1>4, <2>1 DEF AtRow
  <2>3. Listed(Thrown(s), s, row, posts)
    BY <1>4, <2>1, <2>2, AtRowListed
  <2>4. QED
    BY <1>2, <1>4, <2>1, <2>3
<1>8. CASE Post(s)
  <2>1. r.pc = "post" /\ posts' = [posts EXCEPT ![c] = posts[c] + 1]
    BY <1>8 DEF Post, At
  <2>2. PICK v \in Outcomes : sweep' = [sweep EXCEPT ![s] = [Goto(s, "fence") EXCEPT !.verdict = v]]
    BY <1>8 DEF Post, Transient, Outcomes, Become
  <2> DEFINE next == [Goto(s, "fence") EXCEPT !.verdict = v]
  <2>3. Like(next, s, "fence", v)
    <3>1. "fence" \in Stages /\ v \in Verdicts
      BY DEF Stages, Verdicts, Outcomes
    <3>2. QED
      BY <1>4, <2>1, <3>1, Forms
  <2> HIDE DEF next
  <2>4. AtRow(next, s, row[c], posts'[c])
    BY <1>5, <2>1, <2>3 DEF AtRow, Like
  <2>5. Listed(next, s, row, posts')
    BY <1>4, <2>1, <2>3, <2>4, AtRowListed
  <2>6. ASSUME NEW d \in Deliveries PROVE posts'[d] <= row[d].attempts
    <3>1. CASE d = c
      <4>1. posts[c] < row[c].attempts
        BY <1>4, <2>1 DEF AtRow
      <4>2. posts'[c] = posts[c] + 1 /\ posts[c] \in Nat
        BY <1>4, <2>1
      <4>3. QED
        BY <1>4, <2>1, <3>1, <4>1, <4>2
    <3>2. CASE d # c
      BY <1>4, <2>1, <3>2 DEF SerialInv, PostsCounted
    <3>3. QED
      BY <3>1, <3>2
  <2>7. sweep' = [sweep EXCEPT ![s] = next]
    BY <2>2 DEF next
  <2>8. QED
    BY <1>1, <2>5, <2>6, <2>7, SerialMove
<1>9. CASE Fence(s)
  <2>1. r.pc = "fence" /\ posts' = posts
        /\ \E next \in {Done(s), Goto(s, "outcome")} : sweep' = [sweep EXCEPT ![s] = next]
    BY <1>9 DEF Fence, At, Become
  <2>2. Like(Goto(s, "outcome"), s, "outcome", r.verdict)
    <3>1. "outcome" \in Stages /\ "none" \in Verdicts
      BY DEF Stages, Verdicts
    <3>2. QED
      BY <1>4, <2>1, <3>1, Forms
  <2>3. Goto(s, "outcome").pc = "outcome" /\ CountedIn(Goto(s, "outcome")) = Counted(s)
    BY <1>4, <2>1, <2>2 DEF Like, CountedIn
  <2>4. AtRow(Goto(s, "outcome"), s, row[c], posts[c])
    BY <1>5, <2>1, <2>3 DEF AtRow
  <2>5. Listed(Goto(s, "outcome"), s, row, posts)
    BY <1>4, <2>1, <2>2, <2>4, AtRowListed
  <2>6. QED
    BY <1>2, <1>4, <2>1, <2>5
<1>10. CASE Catch(s)
  <2> DEFINE v == Transient(s)
             next == [Goto(s, "outcome") EXCEPT !.verdict = v, !.try = FALSE]
  <2>1. /\ r.pc = "catch" /\ posts' = posts
        /\ \/ sweep' = [sweep EXCEPT ![s] = Done(s)]
           \/ sweep' = [sweep EXCEPT ![s] = next] /\ row[c].holder = s
    BY <1>10 DEF Catch, At, Become, StillHolds
  <2>2. v \in Verdicts
    BY DEF Transient, Verdicts
  <2> HIDE DEF v
  <2>3. Like(next, s, "outcome", v)
    <3>1. "outcome" \in Stages
      BY DEF Stages
    <3>2. QED
      BY <1>4, <2>1, <2>2, <3>1, Forms
  <2> HIDE DEF next
  <2>4. next.pc = "outcome" /\ CountedIn(next) = Counted(s)
    BY <1>4, <2>1, <2>3 DEF Like, CountedIn
  <2>5. row[c].holder = s => AtRow(next, s, row[c], posts[c])
    BY <1>4, <2>1, <2>4 DEF AtRow
  <2>6. row[c].holder = s => Listed(next, s, row, posts)
    BY <1>4, <2>1, <2>3, <2>5, AtRowListed
  <2>7. QED
    BY <1>2, <1>4, <2>1, <2>6
<1>11. QED
  BY <1>3, <1>6, <1>7, <1>8, <1>9, <1>10

(* The one announcer queues rows that are not there, which no sweep lists.   *)
LEMMA AnnounceSerial ==
  ASSUME \A a, b \in Announcers : a = b, IInv, SerialInv,
         \/ \E a \in Announcers : ReadKeys(a) \/ Upsert(a)
         \/ \E w \in Subs : DeleteWebhook(w)
  PROVE  SerialInv'
<1>a. /\ row \in [Deliveries -> Rows] /\ sweep \in [Sweeps -> SweepStates]
      /\ announcer \in [Announcers -> SUBSET Deliveries] /\ posts \in [Deliveries -> Nat]
  BY DEF IInv, TypeOK, SweepsOK
<1>1. ASSUME NEW w \in Subs, DeleteWebhook(w) PROVE SerialInv'
  BY <1>1 DEF DeleteWebhook, SerialInv, OneSweep, NotYetQueued, PostsCounted
<1>2. ASSUME NEW a \in Announcers, ReadKeys(a) PROVE SerialInv'
  <2>1. PICK ds \in SUBSET Deliveries : announcer' = [announcer EXCEPT ![a] = Missing(ds)]
    BY <1>2 DEF ReadKeys
  <2>2. NotYetQueued'
    BY <1>a, <1>2, <2>1 DEF ReadKeys, SerialInv, NotYetQueued, Missing
  <2>3. UNCHANGED <<row, sweep, posts>>
    BY <1>2 DEF ReadKeys
  <2>4. QED
    BY <2>2, <2>3 DEF SerialInv, OneSweep, PostsCounted
<1>3. ASSUME NEW a \in Announcers, Upsert(a) PROVE SerialInv'
  <2>1. PICK landed \in SUBSET {d \in announcer[a] : SubOf[d] \in subs} :
          /\ row' = [d \in Deliveries |-> IF d \in landed THEN Queued(row[d]) ELSE row[d]]
          /\ sweep' = Overtaken(landed, NoHolder)
    BY <1>3 DEF Upsert
  <2>2. announcer' = [announcer EXCEPT ![a] = {}] /\ posts' = posts
    BY <1>3 DEF Upsert
  <2>3. \A d \in landed : d \in Deliveries /\ row[d] = Absent
    BY <1>a, <2>1 DEF SerialInv, NotYetQueued
  <2>4. NotYetQueued'
    <3>1. \A b \in Announcers : announcer'[b] = {}
      BY <1>a, <2>2
    <3>2. QED
      BY <3>1 DEF NotYetQueued
  <2>5. PostsCounted'
    <3>1. ASSUME NEW d \in Deliveries PROVE posts[d] <= row'[d].attempts
      <4>1. posts[d] <= row[d].attempts
        BY DEF SerialInv, PostsCounted
      <4>2. d \in landed => row[d].attempts = 0 /\ row'[d].attempts = 0
        BY <2>1, <2>3 DEF Absent, Queued
      <4>3. d \notin landed => row'[d] = row[d]
        BY <2>1
      <4>4. QED
        BY <4>1, <4>2, <4>3
    <3>2. QED
      BY <2>2, <3>1 DEF PostsCounted
  <2>6. \A t \in Sweeps : \A d \in sweep[t].due \cup sweep[t].orphans : d \notin landed
    <3>1. \A t \in Sweeps : Listed(sweep[t], t, row, posts)
      BY DEF SerialInv
    <3>2. QED
      BY <2>3, <3>1 DEF Listed, Open, Absent
  <2>7. sweep' = sweep
    BY <2>1, <2>6, NobodyOvertaken
  <2>8. ASSUME NEW t \in Sweeps PROVE Listed(sweep[t], t, row', posts)
    <3>1. \A d \in sweep[t].due \cup sweep[t].orphans : row'[d] = row[d]
      BY <1>a, <2>1, <2>6 DEF SweepStates
    <3>2. sweep[t].due # {} => row'[RowOf(sweep[t])] = row[RowOf(sweep[t])]
      BY <1>a, <3>1, RowOfInDue
    <3>3. Listed(sweep[t], t, row, posts)
      BY DEF SerialInv
    <3>4. QED
      BY <3>1, <3>2, <3>3 DEF Listed, Untouched
  <2>9. QED
    BY <2>2, <2>4, <2>5, <2>7, <2>8 DEF SerialInv, OneSweep
<1>4. QED
  BY <1>1, <1>2, <1>3

(* Time changes no attempt, status or holder of a row, and no listing.       *)
LEMMA TickSerial ==
  ASSUME IInv, SerialInv, Tick
  PROVE  SerialInv'
<1>a. /\ row \in [Deliveries -> Rows] /\ sweep \in [Sweeps -> SweepStates]
      /\ announcer \in [Announcers -> SUBSET Deliveries]
  BY DEF IInv, TypeOK, SweepsOK
<1>1. posts' = posts /\ announcer' = announcer
  BY DEF Tick
<1>2. ASSUME NEW d \in Deliveries
      PROVE  /\ row'[d].status = row[d].status /\ row'[d].attempts = row[d].attempts
             /\ row'[d].holder = row[d].holder
  <2>1. row'[d] = [row[d] EXCEPT !.left = Less(@)]
    BY DEF Tick
  <2>2. QED
    BY <1>a, <2>1 DEF Rows, Absent
<1>3. ASSUME NEW d \in Deliveries PROVE row'[d] = Absent <=> row[d] = Absent
  <2>1. row[d] = Absent => row'[d] = Absent
    BY DEF Tick, Absent, Less
  <2>2. row'[d] = Absent => row[d].status \notin Statuses
    BY <1>2 DEF Absent, Statuses
  <2>3. QED
    BY <1>a, <2>1, <2>2 DEF Rows
<1>4. ASSUME NEW s \in Sweeps
      PROVE  sweep'[s].pc = sweep[s].pc /\ Listed(sweep'[s], s, row', posts)
  <2>1. /\ sweep'[s].pc = sweep[s].pc /\ sweep'[s].due = sweep[s].due
        /\ sweep'[s].orphans = sweep[s].orphans /\ sweep'[s].seen = sweep[s].seen
        /\ RowOf(sweep'[s]) = RowOf(sweep[s])
    BY <1>a, OlderSweep
  <2>2. Listed(sweep[s], s, row, posts)
    BY DEF SerialInv
  <2>3. sweep[s].due \subseteq Deliveries /\ sweep[s].orphans \subseteq Deliveries
    BY <1>a DEF SweepStates
  <2>4. sweep[s].due # {} => RowOf(sweep[s]) \in Deliveries
    BY <1>a, RowOfInDue
  <2>5. CountedIn(sweep'[s]) = CountedIn(sweep[s])
    BY <2>1 DEF CountedIn
  <2>6. ASSUME sweep[s].due # {}
        PROVE  AtRow(sweep'[s], s, row'[RowOf(sweep[s])], posts[RowOf(sweep[s])])
    BY <1>2, <2>1, <2>2, <2>4, <2>5, <2>6 DEF Listed, AtRow
  <2>7. \A d \in sweep[s].due : /\ row[d] # Absent => row'[d] # Absent
                                /\ Untouched(sweep[s], s, row, d) => Untouched(sweep'[s], s, row', d)
    BY <1>2, <1>3, <2>1, <2>3 DEF Untouched
  <2>8. \A d \in sweep[s].orphans : row'[d].status = row[d].status
    BY <1>2, <2>3
  <2>9. QED
    BY <2>1, <2>2, <2>6, <2>7, <2>8 DEF Listed
<1>5. OneSweep'
  BY <1>4 DEF SerialInv, OneSweep
<1>6. NotYetQueued'
  BY <1>a, <1>1, <1>3 DEF SerialInv, NotYetQueued
<1>7. PostsCounted'
  BY <1>1, <1>2 DEF SerialInv, PostsCounted
<1>8. QED
  BY <1>1, <1>4, <1>5, <1>6, <1>7 DEF SerialInv

(* Sweeps that do not overlap and one announcer: the rows are as listed.     *)
LEMMA SerialInvHolds ==
  ASSUME ~ Overlap, \A a, b \in Announcers : a = b
  PROVE  Spec => []SerialInv
<1>1. Init => SerialInv
  <2> SUFFICES ASSUME Init PROVE SerialInv
    OBVIOUS
  <2>1. \A s \in Sweeps : Listed(sweep[s], s, row, posts) /\ sweep[s].pc = "idle"
    BY DEF Init, Listed, Idle
  <2>2. QED
    BY <2>1 DEF Init, SerialInv, OneSweep, NotYetQueued, PostsCounted, Absent
<1>2. IInv /\ SerialInv /\ [Next]_vars => SerialInv'
  <2> SUFFICES ASSUME IInv, SerialInv, [Next]_vars PROVE SerialInv'
    OBVIOUS
  <2>1. CASE UNCHANGED vars
    BY <2>1 DEF vars, SerialInv, OneSweep, NotYetQueued, PostsCounted
  <2>2. ASSUME NEW s \in Sweeps, List(s) PROVE SerialInv'
    BY <2>2, ListSerial
  <2>3. CASE \E a \in Announcers : ReadKeys(a) \/ Upsert(a)
    BY <2>3, AnnounceSerial
  <2>4. CASE \E w \in Subs : DeleteWebhook(w)
    BY <2>4, AnnounceSerial
  <2>5. QED
    BY <2>1, <2>2, <2>3, <2>4, RetiringSerial, ClaimSerial, WritingSerial, MovingSerial, TickSerial
       DEF Next, Deliver
<1>3. QED
  BY <1>1, <1>2, IInvHolds, PTL DEF Spec

(***************************************************************************)
(* Every POST was counted on its row before it was made, so a sender that  *)
(* dies in mid-flight has spent an attempt and the cap on attempts is a    *)
(* cap on POSTs (deliver.ts, the lease write that comes before the POST):  *)
(* for sweeps that do not overlap and one announcer, whatever fails, dies, *)
(* is retired or deleted in between.                                       *)
(***************************************************************************)
THEOREM WebhooksPostsCounted ==
  ASSUME ~ Overlap, \A a, b \in Announcers : a = b
  PROVE  Spec => []PostsCounted
<1>1. SerialInv => PostsCounted
  BY DEF SerialInv
<1>2. QED
  BY <1>1, SerialInvHolds, PTL

-----------------------------------------------------------------------------
\* What a subscriber sees of a delivery in a given status.
Shown(status) ==
    IF status = "absent" THEN "none" ELSE IF status \in {"sent", "dead"} THEN status ELSE "underway"

(* The outcome of a delivery goes by its status.                             *)
LEMMA OutcomeByStatus ==
  ASSUME NEW d \in Deliveries
  PROVE  /\ row[d] \in Rows => OutcomeOf(d) = Shown(row[d].status)
         /\ row'[d] \in Rows => OutcomeOf(d)' = Shown(row'[d].status)
<1>1. Absent.status = "absent" /\ \A r \in Rows : r # Absent => r.status \in Statuses
  BY DEF Rows, Absent
<1>2. \A r \in Rows : r = Absent <=> r.status = "absent"
  BY <1>1 DEF Statuses
<1>3. QED
  BY <1>2 DEF OutcomeOf, Shown

\* A step that leaves the outcomes, queues some deliveries, gives some up,
\* has one taken by its receiver, or shows one as sent.
Stays == accepted' = accepted /\ \A d \in Deliveries : OutcomeOf(d)' = OutcomeOf(d)

Becomes(ms, from, to) ==
    /\ accepted' = accepted /\ \A m \in ms : OutcomeOf(m) = from
    /\ \A d \in Deliveries : OutcomeOf(d)' = IF d \in ms THEN to ELSE OutcomeOf(d)

Taken(m) ==
    /\ OutcomeOf(m) = "underway" /\ accepted' = accepted \cup {m}
    /\ \A d \in Deliveries : OutcomeOf(d)' = OutcomeOf(d)

(* What a step of sweeps and an announcer who do not meet does to the rows.  *)
LEMMA MessageStep ==
  ASSUME ~ Overlap, IInv, IInv', SerialInv, [Next]_vars
  PROVE  \/ Stays
         \/ \E ms \in SUBSET Deliveries : Becomes(ms, "none", "underway") \/ Becomes(ms, "underway", "dead")
         \/ \E m \in Deliveries : Taken(m) \/ (Becomes({m}, "underway", "sent") /\ m \in accepted)
<1>a. row \in [Deliveries -> Rows] /\ row' \in [Deliveries -> Rows]
  BY DEF IInv, TypeOK
<1>b. \A d \in Deliveries : OutcomeOf(d) = Shown(row[d].status) /\ OutcomeOf(d)' = Shown(row'[d].status)
  BY <1>a, OutcomeByStatus
<1>c. \A status \in Open : Shown(status) = "underway"
  BY DEF Shown, Open
<1>1. ASSUME accepted' = accepted, \A d \in Deliveries : Shown(row'[d].status) = Shown(row[d].status)
      PROVE  Stays
  BY <1>b, <1>1 DEF Stays
<1>2. ASSUME UNCHANGED row, UNCHANGED accepted
      PROVE  Stays
  BY <1>1, <1>2
<1>3. ASSUME accepted' = accepted,
             \A d \in Deliveries : row'[d].status = row[d].status
      PROVE  Stays
  BY <1>1, <1>3
<1>4. CASE Tick
  <2>1. ASSUME NEW d \in Deliveries PROVE row'[d].status = row[d].status
    <3>1. row'[d] = [row[d] EXCEPT !.left = Less(@)]
      BY <1>4 DEF Tick
    <3>2. QED
      BY <1>a, <3>1 DEF Rows, Absent
  <2>2. accepted' = accepted
    BY <1>4 DEF Tick
  <2>3. QED
    BY <1>3, <2>1, <2>2
<1>5. ASSUME NEW s \in Sweeps, List(s) PROVE Stays
  <2>1. ASSUME NEW d \in Deliveries PROVE row'[d].status = row[d].status
    <3>1. row'[d] = [row[d] EXCEPT !.holder = Forget(s, @)]
      BY <1>5 DEF List
    <3>2. QED
      BY <1>a, <3>1 DEF Rows, Absent
  <2>2. accepted' = accepted
    BY <1>5 DEF List
  <2>3. QED
    BY <1>3, <2>1, <2>2
<1>6. ASSUME NEW a \in Announcers, Upsert(a)
      PROVE  \E ms \in SUBSET Deliveries : Becomes(ms, "none", "underway")
  <2>1. PICK landed \in SUBSET {d \in announcer[a] : SubOf[d] \in subs} :
          row' = [d \in Deliveries |-> IF d \in landed THEN Queued(row[d]) ELSE row[d]]
    BY <1>6 DEF Upsert
  <2>2. landed \in SUBSET Deliveries /\ \A d \in landed : row[d] = Absent
    BY DEF IInv, TypeOK, SerialInv, NotYetQueued
  <2>3. \A d \in landed : OutcomeOf(d) = "none"
    BY <1>b, <2>2 DEF Shown, Absent
  <2>4. \A d \in Deliveries : row'[d].status = IF d \in landed THEN "queued" ELSE row[d].status
    BY <2>1 DEF Queued
  <2>5. \A d \in Deliveries : OutcomeOf(d)' = IF d \in landed THEN "underway" ELSE OutcomeOf(d)
    BY <1>b, <1>c, <2>4 DEF Open
  <2>6. accepted' = accepted
    BY <1>6 DEF Upsert
  <2>7. QED
    BY <2>2, <2>3, <2>5, <2>6 DEF Becomes
<1>7. ASSUME NEW s \in Sweeps, Retire(s)
      PROVE  \E ms \in SUBSET Deliveries : Becomes(ms, "underway", "dead")
  <2>1. PICK landed \in SUBSET sweep[s].orphans :
          row' = [d \in Deliveries |-> IF d \in landed THEN Retired(d) ELSE row[d]]
    BY <1>7 DEF Retire
  <2>2. landed \in SUBSET Deliveries /\ \A d \in landed : row[d].status \in Open
    BY SerialValues DEF Listed
  <2>3. \A d \in landed : OutcomeOf(d) = "underway"
    BY <1>b, <1>c, <2>2
  <2>4. ASSUME NEW d \in Deliveries
        PROVE  row'[d].status = IF d \in landed THEN "dead" ELSE row[d].status
    <3>1. row[d] \in Rows /\ row[d].attempts \in 0 .. MaxAttempts /\ "dead" \in Statuses
      BY <1>a, RowFacts DEF Statuses
    <3>2. Ended(row[d], "dead", row[d].attempts).status = "dead"
      BY <3>1, EndedRow
    <3>3. Retired(d).status = "dead"
      BY <3>1, <3>2, RetiredRow
    <3>4. QED
      BY <2>1, <3>3
  <2>5. Shown("dead") = "dead"
    BY DEF Shown
  <2>6. \A d \in Deliveries : OutcomeOf(d)' = IF d \in landed THEN "dead" ELSE OutcomeOf(d)
    BY <1>b, <2>4, <2>5
  <2>7. accepted' = accepted
    BY <1>7 DEF Retire
  <2>8. QED
    BY <2>2, <2>3, <2>6, <2>7 DEF Becomes
<1>8. ASSUME NEW s \in Sweeps, Record(s) \/ WriteOutcome(s)
      PROVE  \/ Stays
             \/ \E m \in Deliveries : \/ Becomes({m}, "underway", "dead")
                                      \/ Becomes({m}, "underway", "sent") /\ m \in accepted
  <2>1. sweep[s].pc \in {"record", "outcome"} /\ accepted' = accepted
    BY <1>8 DEF Record, WriteOutcome, At
  <2>2. PICK m \in Deliveries : m = Current(s)
    BY <2>1, SerialValues
  <2>3. row[m].status \in Open
    BY <2>1, <2>2, SerialValues DEF Listed, Untouched, AtRow
  <2>4. /\ sweep[s].verdict \in Statuses \/ Record(s)
        /\ sweep[s].pc = "outcome" => sweep[s].verdict \in Outcomes /\ (sweep[s].verdict = "sent" => m \in accepted)
        /\ Counted(s) \in 0 .. MaxAttempts
    BY <1>8, <2>1, <2>2, BusyValues DEF Outcomes, Statuses, WriteOutcome, At
  <2>5. UNCHANGED row \/
          \E status \in Open \cup {"sent", "dead"} :
            /\ status = "sent" => m \in accepted
            /\ \A d \in Deliveries : row'[d].status = IF d = m THEN status ELSE row[d].status
    <3>1. CASE Record(s)
      <4>1. UNCHANGED row \/
              row' = [d \in Deliveries |-> IF d \in {m}
                        THEN [e \in {m} |-> [status |-> "sending", attempts |-> Attempt(s),
                                             holder |-> s, left |-> Lease - sweep[s].age]][d]
                        ELSE row[d]]
        BY <2>2, <3>1 DEF Record, Write
      <4>2. UNCHANGED row \/ \A d \in Deliveries : row'[d].status = IF d = m THEN "sending" ELSE row[d].status
        BY <4>1
      <4>3. QED
        BY <4>2 DEF Open
    <3>2. CASE WriteOutcome(s)
      <4> DEFINE v == sweep[s].verdict
      <4>1. UNCHANGED row \/
              row' = [d \in Deliveries |-> IF d \in {m}
                        THEN [e \in {m} |-> [row[e] EXCEPT !.status = v, !.attempts = Counted(s),
                                                           !.holder = NoHolder]][d]
                        ELSE row[d]]
        BY <2>2, <3>2 DEF WriteOutcome, Write
      <4>2. UNCHANGED row \/ \A d \in Deliveries : row'[d] = IF d = m THEN Ended(row[m], v, Counted(s)) ELSE row[d]
        BY <4>1 DEF Ended
      <4>3. v \in Outcomes /\ v \in Statuses /\ (v = "sent" => m \in accepted)
        BY <2>4, <3>2 DEF WriteOutcome, At, Outcomes, Statuses
      <4>4. Ended(row[m], v, Counted(s)).status = v
        BY <1>a, <2>4, <4>3, EndedRow
      <4>5. v \in Open \cup {"sent", "dead"}
        BY <4>3 DEF Outcomes, Open
      <4>6. QED
        BY <4>2, <4>3, <4>4, <4>5
    <3>3. QED
      BY <1>8, <3>1, <3>2
  <2>6. CASE UNCHANGED row
    BY <1>2, <2>1, <2>6
  <2>7. ASSUME NEW status \in Open \cup {"sent", "dead"}, status = "sent" => m \in accepted,
               \A d \in Deliveries : row'[d].status = IF d = m THEN status ELSE row[d].status
        PROVE  \/ Stays
               \/ Becomes({m}, "underway", "dead")
               \/ Becomes({m}, "underway", "sent") /\ m \in accepted
    <3>1. OutcomeOf(m) = "underway"
      BY <1>b, <1>c, <2>3
    <3>2. \A d \in Deliveries : OutcomeOf(d)' = IF d = m THEN Shown(status) ELSE OutcomeOf(d)
      BY <1>b, <2>7
    <3>3. CASE status \in Open
      BY <1>c, <2>1, <3>1, <3>2, <3>3 DEF Stays
    <3>4. CASE status \in {"sent", "dead"}
      <4>1. Shown(status) = status
        BY <3>4 DEF Shown
      <4>2. Becomes({m}, "underway", status)
        BY <2>1, <3>1, <3>2, <4>1 DEF Becomes
      <4>3. QED
        BY <2>7, <3>4, <4>2
    <3>5. QED
      BY <2>7, <3>3, <3>4
  <2>8. QED
    BY <2>5, <2>6, <2>7
<1>9. ASSUME NEW s \in Sweeps, Post(s)
      PROVE  Stays \/ \E m \in Deliveries : Taken(m)
  <2>1. sweep[s].pc = "post" /\ accepted' \in {accepted, accepted \cup {Current(s)}} /\ row' = row
    BY <1>9 DEF Post, At
  <2>2. Current(s) \in Deliveries /\ row[Current(s)].status \in Open
    BY <2>1, SerialValues DEF AtRow
  <2>3. \A d \in Deliveries : OutcomeOf(d)' = OutcomeOf(d)
    BY <1>b, <2>1
  <2>4. OutcomeOf(Current(s)) = "underway"
    BY <1>b, <1>c, <2>2
  <2>5. QED
    BY <2>1, <2>2, <2>3, <2>4 DEF Stays, Taken
<1>10. ASSUME NEW s \in Sweeps, Record(s) \/ WriteOutcome(s)
       PROVE  \/ Stays
              \/ \E ms \in SUBSET Deliveries : Becomes(ms, "none", "underway") \/ Becomes(ms, "underway", "dead")
              \/ \E m \in Deliveries : Taken(m) \/ (Becomes({m}, "underway", "sent") /\ m \in accepted)
  <2>1. \A m \in Deliveries : {m} \in SUBSET Deliveries
    OBVIOUS
  <2>2. QED
    BY <1>8, <1>10, <2>1
<1>11. ASSUME NEW s \in Sweeps, \/ Join(s) \/ Claim(s) \/ SigningFails(s) \/ Fence(s) \/ Catch(s)
                                \/ WriteHealth(s) \/ Die(s)
       PROVE  UNCHANGED row /\ UNCHANGED accepted
  BY <1>11 DEF Join, Claim, SigningFails, Fence, Catch, WriteHealth, Die
<1>12. ASSUME \/ \E a \in Announcers : ReadKeys(a)
              \/ \E w \in Subs : DeleteWebhook(w)
              \/ UNCHANGED vars
       PROVE  UNCHANGED row /\ UNCHANGED accepted
  BY <1>12 DEF ReadKeys, DeleteWebhook, vars
<1>13. QED
  BY <1>2, <1>4, <1>5, <1>6, <1>7, <1>9, <1>10, <1>11, <1>12 DEF Next, Deliver

(***************************************************************************)
(* A delivery is the message a subscriber expects it to be: once queued it *)
(* is on its way until it is sent, which only happens to one the receiver  *)
(* took, or given up, several at once when their subscription went away,   *)
(* and neither is ever taken back: not by the catch, whichever write threw *)
(* (deliver.ts).  For sweeps that do not overlap and one announcer.        *)
(***************************************************************************)
THEOREM WebhooksImplementsMessage ==
  ASSUME ~ Overlap, \A a, b \in Announcers : a = b
  PROVE  Spec => ImplementsMessage
<1>1. Init => M!Init
  <2> SUFFICES ASSUME Init PROVE M!Init
    OBVIOUS
  <2>1. \A d \in Deliveries : row[d] = Absent
    BY DEF Init
  <2>2. \A d \in Deliveries : OutcomeOf(d) = "none"
    BY <2>1, OutcomeByStatus DEF Rows, Shown, Absent
  <2>3. QED
    BY <2>2 DEF Init, M!Init
<1>2. IInv /\ IInv' /\ SerialInv /\ [Next]_vars
        => [M!Next]_(<<[d \in Deliveries |-> OutcomeOf(d)], accepted>>)
  <2> SUFFICES ASSUME IInv, IInv', SerialInv, [Next]_vars
               PROVE  [M!Next]_(<<[d \in Deliveries |-> OutcomeOf(d)], accepted>>)
    OBVIOUS
  <2>1. Stays => UNCHANGED <<[d \in Deliveries |-> OutcomeOf(d)], accepted>>
    BY DEF Stays
  <2>2. ASSUME NEW ms \in SUBSET Deliveries, Becomes(ms, "none", "underway") PROVE M!Queue(ms)
    BY <2>2 DEF M!Queue, Becomes
  <2>3. ASSUME NEW ms \in SUBSET Deliveries, Becomes(ms, "underway", "dead") PROVE M!GiveUp(ms)
    BY <2>3 DEF M!GiveUp, Becomes
  <2>4. ASSUME NEW m \in Deliveries, Taken(m) PROVE M!Deliver(m)
    BY <2>4 DEF M!Deliver, Taken
  <2>5. ASSUME NEW m \in Deliveries, Becomes({m}, "underway", "sent"), m \in accepted PROVE M!Sent(m)
    BY <2>5 DEF M!Sent, Becomes
  <2>6. QED
    BY <2>1, <2>2, <2>3, <2>4, <2>5, MessageStep DEF M!Next
<1>3. QED
  BY <1>1, <1>2, IInvHolds, SerialInvHolds, PTL DEF Spec, ImplementsMessage, M!Spec
=============================================================================
