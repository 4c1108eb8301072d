---------------------------- MODULE OutboxProofs ----------------------------
(***************************************************************************)
(* What the outbox guarantees for any number of rows, sweeps and producers,*)
(* any attempt cap and any lease, proved by TLAPS.                         *)
(*                                                                         *)
(* Three invariants, each carried through a step by the one before it:     *)
(*   IInv       what a sweep's position tells of its row, however sweeps   *)
(*              overlap: sent rows were delivered;                         *)
(*   FenceInv   what the fence read found is still so unless the sweep was *)
(*              overtaken: only such a sweep undoes an outcome;            *)
(*   SerialInv  for sweeps that do not overlap and one producer, the rows  *)
(*              are as listed: calls are counted, outcomes are final.      *)
(***************************************************************************)
EXTENDS Outbox, TLAPS, WellFoundedInduction

-----------------------------------------------------------------------------
(* Least elements, and the guard's verdicts.                                 *)

LessThan == {p \in Nat \X Nat : p[1] < p[2]}

(* Every non-empty set of natural numbers has a least element.               *)
LEMMA LeastNatural ==
  ASSUME NEW S, S \subseteq Nat, S # {}
  PROVE  \E k \in S : \A j \in S : k <= j
<1>1. IsWellFoundedOn(LessThan, Nat)
  BY NatLessThanWellFounded, Zenon DEF OpToRel, LessThan
<1>2. \E k \in S : \A j \in S : ~ (<<j, k>> \in LessThan)
  BY <1>1, WFMin, Zenon
<1>3. \A j, k \in Nat : <<j, k>> \in LessThan <=> j < k
  BY DEF LessThan
<1>4. \A j, k \in Nat : ~ (j < k) => k <= j
  OBVIOUS
<1>5. QED
  BY <1>2, <1>3, <1>4

(* What the guard stores stays a claim.                                      *)
LEMMA ClaimTypes ==
  ASSUME NEW c \in Claims, NEW h \in Holders, NEW ttl \in Nat
  PROVE  AfterClaim(c, h, ttl) \in Claims /\ AfterRelease(c, h) \in Claims /\ Aged(c) \in Claims
  BY DEF AfterClaim, AfterRelease, Releases, Aged, Less, Claims, NoClaim, Live

-----------------------------------------------------------------------------
(***************************************************************************)
(* The inductive invariant.  That a sent row was delivered needs to be     *)
(* known of the sweeps that are about to say so, and that the attempts     *)
(* stay within the cap needs to be known of every sweep past the reaping.  *)
(* RowOf(r) is the row a sweep in state r is at.                            *)
(***************************************************************************)
SweepStates == [pc : Stages, due : SUBSET Keys, seen : [Keys -> 0 .. MaxAttempts],
                age : 0 .. Lease, permanent : BOOLEAN, overtaken : BOOLEAN]

RowOf(r) == CHOOSE k \in r.due : \A j \in r.due : k <= j

SweepOK(r, acc) ==
    /\ r \in SweepStates
    /\ r.pc # "idle" => r.due # {}
    /\ r.pc \in {"record", "send", "fence", "mark", "catch", "fail"} =>
         r.seen[RowOf(r)] < MaxAttempts
    /\ r.pc \in {"fence", "mark"} => RowOf(r) \in acc

SweepsOK == sweep \in [Holders -> SweepStates] /\ \A s \in Holders : SweepOK(sweep[s], accepted)

IInv == TypeOK /\ SweepsOK /\ SentWasDelivered

(* The row a sweep is at is one of those left of its listing.                *)
LEMMA RowOfInDue ==
  ASSUME NEW r \in SweepStates, r.due # {}
  PROVE  RowOf(r) \in r.due /\ RowOf(r) \in Keys
<1>1. r.due \subseteq Nat
  BY KeysAssumption DEF SweepStates
<1>2. \E k \in r.due : \A j \in r.due : k <= j
  BY <1>1, LeastNatural
<1>3. RowOf(r) \in r.due
  BY <1>2 DEF RowOf
<1>4. QED
  BY <1>3 DEF SweepStates

(* Current(s) is the head of the sweep's state.                              *)
LEMMA CurrentIsRowOf ==
  ASSUME NEW s \in Holders
  PROVE  Current(s) = RowOf(sweep[s])
  BY DEF Current, RowOf

(* A sweep that is done with its row is in order, at the next one or idle.   *)
LEMMA DoneOK ==
  ASSUME SweepsOK, NEW s \in Holders, sweep[s].pc # "idle"
  PROVE  SweepOK(Done(s), accepted) /\ SweepOK(Idle, accepted)
<1> DEFINE r == sweep[s]
           k == Current(s)
           rest == r.due \ {k}
<1> USE MaxAttemptsAssumption, LeaseAssumption
<1>1. r \in SweepStates
  BY DEF SweepsOK
<1>2. SweepOK(Idle, accepted)
  BY DEF SweepOK, SweepStates, Idle, Stages
<1>3. CASE rest = {}
  BY <1>2, <1>3 DEF Done
<1>4. CASE rest # {}
  <2>1. Done(s) = [r EXCEPT !.pc = "claim", !.due = rest, !.seen[k] = 0,
                            !.permanent = FALSE, !.overtaken = FALSE]
    BY <1>4, Zenon DEF Done
  <2>2. r.seen \in [Keys -> 0 .. MaxAttempts]
    BY <1>1 DEF SweepStates
  <2>3. [r.seen EXCEPT ![k] = 0] \in [Keys -> 0 .. MaxAttempts]
    <3>1. 0 \in 0 .. MaxAttempts
      OBVIOUS
    <3>2. QED
      BY <2>2, <3>1, Zenon
  <2>4. Done(s) = [pc |-> "claim", due |-> rest, seen |-> [r.seen EXCEPT ![k] = 0],
                   age |-> r.age, permanent |-> FALSE, overtaken |-> FALSE]
    BY <2>1, <1>1 DEF SweepStates
  <2>5. Done(s) \in SweepStates
    BY <2>3, <2>4, <1>1 DEF SweepStates, Stages
  <2>6. QED
    BY <1>2, <1>4, <2>4, <2>5 DEF SweepOK
<1>5. QED
  BY <1>2, <1>3, <1>4

(* Marking a sweep as overtaken leaves it in order.                          *)
LEMMA OvertakenOK ==
  ASSUME SweepsOK, NEW keys, NEW s
  PROVE  /\ Overtaken(keys, s) \in [Holders -> SweepStates]
         /\ \A t \in Holders : SweepOK(Overtaken(keys, s)[t], accepted)
<1>1. ASSUME NEW t \in Holders
      PROVE  SweepOK(Overtaken(keys, s)[t], accepted)
  <2> DEFINE r == sweep[t]
             r1 == [r EXCEPT !.overtaken = TRUE]
  <2>1. Overtaken(keys, s)[t] \in {r, r1}
    BY DEF Overtaken
  <2>2. SweepOK(r, accepted) /\ r \in SweepStates
    BY DEF SweepsOK
  <2>3. r1 \in SweepStates /\ r1.pc = r.pc /\ r1.due = r.due /\ r1.seen = r.seen
    BY <2>2 DEF SweepStates
  <2>4. RowOf(r1) = RowOf(r)
    BY <2>3 DEF RowOf
  <2>5. SweepOK(r1, accepted)
    BY <2>2, <2>3, <2>4 DEF SweepOK
  <2>6. QED
    BY <2>1, <2>2, <2>5
<1>2. \A t \in Holders : Overtaken(keys, s)[t] \in SweepStates
  BY <1>1 DEF SweepOK
<1>3. QED
  BY <1>1, <1>2 DEF Overtaken

(* A step that only moves one sweep, to a state in order.                    *)
LEMMA MoveOK ==
  ASSUME IInv, NEW s \in Holders, NEW next, MoveTo(s, next),
         SweepOK(next, accepted'), accepted \subseteq accepted'
  PROVE  SweepsOK'
<1>1. sweep' = [sweep EXCEPT ![s] = next] /\ next \in SweepStates
  BY DEF MoveTo, SweepOK
<1>2. \A t \in Holders : SweepOK(sweep[t], accepted')
  BY DEF IInv, SweepsOK, SweepOK
<1>3. QED
  BY <1>1, <1>2 DEF IInv, SweepsOK

(* A write of the current row, carried out or not, by a sweep that goes on   *)
(* to a state in order: only an accepted message is recorded as sent.        *)
LEMMA WriteOK ==
  ASSUME IInv, NEW s \in Holders, sweep[s].pc # "idle",
         NEW new \in Rows, new.status = "sent" => Current(s) \in accepted,
         NEW next, SweepOK(next, accepted),
         NEW thrown, \A after \in thrown : SweepOK(after, accepted),
         Write(s, new, next, thrown),
         UNCHANGED <<claim, producer, accepted, calls>>
  PROVE  IInv'
<1> DEFINE k == Current(s)
<1>1. k \in Keys
  BY RowOfInDue, CurrentIsRowOf DEF IInv, SweepsOK, SweepOK
<1>2. ASSUME NEW after, SweepOK(after, accepted),
             row' = [row EXCEPT ![k] = new],
             sweep' = [Overtaken({k}, s) EXCEPT ![s] = after]
      PROVE  IInv'
  <2>1. after \in SweepStates
    BY <1>2 DEF SweepOK
  <2>2. /\ Overtaken({k}, s) \in [Holders -> SweepStates]
        /\ \A t \in Holders : SweepOK(Overtaken({k}, s)[t], accepted)
    BY OvertakenOK DEF IInv
  <2>3. SweepsOK'
    BY <1>2, <2>1, <2>2 DEF SweepsOK
  <2>4. TypeOK'
    BY <1>1, <1>2, <2>3 DEF IInv, TypeOK, SweepsOK, SweepStates
  <2>5. SentWasDelivered'
    BY <1>1, <1>2 DEF IInv, TypeOK, SentWasDelivered
  <2>6. QED
    BY <2>3, <2>4, <2>5 DEF IInv
<1>3. ASSUME NEW after, SweepOK(after, accepted), MoveTo(s, after), UNCHANGED row
      PROVE  IInv'
  <2>1. SweepsOK'
    BY <1>3, MoveOK
  <2>2. QED
    BY <1>3, <2>1 DEF IInv, TypeOK, SweepsOK, SweepStates, SentWasDelivered
<1>4. QED
  BY <1>2, <1>3 DEF Write

(* A step of one sweep that writes no row.                                   *)
LEMMA QuietOK ==
  ASSUME IInv, NEW s \in Holders, NEW next, MoveTo(s, next),
         SweepOK(next, accepted'), accepted \subseteq accepted', accepted' \subseteq Keys,
         claim' \in [Keys -> Claims], calls' \in [Keys -> Nat], UNCHANGED <<row, producer>>
  PROVE  IInv'
<1>1. SweepsOK'
  BY MoveOK
<1>2. TypeOK'
  BY <1>1 DEF IInv, TypeOK, SweepsOK, SweepStates
<1>3. SentWasDelivered'
  BY DEF IInv, SentWasDelivered
<1>4. QED
  BY <1>1, <1>2, <1>3 DEF IInv

(* The states a busy sweep can go to within its row.                         *)
LEMMA GotoOK ==
  ASSUME SweepsOK, NEW s \in Holders, sweep[s].pc # "idle", NEW acc, accepted \subseteq acc
  PROVE  /\ SweepOK(Goto(s, "reap"), acc)
         /\ sweep[s].seen[Current(s)] < MaxAttempts =>
              /\ \A stage \in {"record", "send", "catch", "fail"} :
                   /\ SweepOK(Goto(s, stage), acc)
                   /\ SweepOK([Goto(s, stage) EXCEPT !.overtaken = FALSE], acc)
              /\ \A p \in BOOLEAN : SweepOK(Thrown(s, p), acc)
              /\ Current(s) \in acc =>
                   /\ SweepOK(Goto(s, "fence"), acc)
                   /\ SweepOK([Goto(s, "mark") EXCEPT !.overtaken = FALSE], acc)
<1> DEFINE r == sweep[s]
<1>1. r \in SweepStates /\ r.due # {} /\ Current(s) = RowOf(r)
  BY CurrentIsRowOf DEF SweepsOK, SweepOK
<1>2. ASSUME NEW r1 \in SweepStates, r1.due = r.due, r1.seen = r.seen
      PROVE  RowOf(r1) = Current(s)
  BY <1>1, <1>2 DEF RowOf
<1>3. \A stage \in Stages :
        /\ Goto(s, stage) \in SweepStates
        /\ Goto(s, stage).pc = stage /\ Goto(s, stage).due = r.due /\ Goto(s, stage).seen = r.seen
        /\ LET r1 == [Goto(s, stage) EXCEPT !.overtaken = FALSE]
           IN  r1 \in SweepStates /\ r1.pc = stage /\ r1.due = r.due /\ r1.seen = r.seen
  BY <1>1 DEF Goto, SweepStates
<1>4. \A p \in BOOLEAN :
        /\ Thrown(s, p) \in SweepStates
        /\ Thrown(s, p).pc = "catch" /\ Thrown(s, p).due = r.due /\ Thrown(s, p).seen = r.seen
  BY <1>1 DEF Thrown, SweepStates, Stages
<1>5. ASSUME NEW r1 \in SweepStates, r1.due = r.due, r1.seen = r.seen,
             r1.pc \in {"record", "send", "fence", "mark", "catch", "fail"} =>
               r.seen[Current(s)] < MaxAttempts,
             r1.pc \in {"fence", "mark"} => Current(s) \in acc
      PROVE  SweepOK(r1, acc)
  BY <1>1, <1>2, <1>5 DEF SweepOK
<1>6. SweepOK(Goto(s, "reap"), acc)
  BY <1>3, <1>5 DEF Stages
<1>7. ASSUME r.seen[Current(s)] < MaxAttempts, NEW stage \in {"record", "send", "catch", "fail"}
      PROVE  SweepOK(Goto(s, stage), acc) /\ SweepOK([Goto(s, stage) EXCEPT !.overtaken = FALSE], acc)
  BY <1>3, <1>5, <1>7 DEF Stages
<1>8. ASSUME r.seen[Current(s)] < MaxAttempts, NEW p \in BOOLEAN
      PROVE  SweepOK(Thrown(s, p), acc)
  BY <1>4, <1>5, <1>8
<1>9. ASSUME r.seen[Current(s)] < MaxAttempts, Current(s) \in acc
      PROVE  SweepOK(Goto(s, "fence"), acc) /\ SweepOK([Goto(s, "mark") EXCEPT !.overtaken = FALSE], acc)
  BY <1>3, <1>5, <1>9 DEF Stages
<1>10. QED
  BY <1>6, <1>7, <1>8, <1>9

(* The values a busy sweep works with.                                       *)
LEMMA BusyValues ==
  ASSUME SweepsOK, NEW s \in Holders, sweep[s].pc # "idle"
  PROVE  /\ Current(s) \in Keys
         /\ sweep[s].seen[Current(s)] \in 0 .. MaxAttempts
         /\ sweep[s].age \in 0 .. Lease
         /\ sweep[s].pc \in {"record", "send", "fence", "mark", "catch", "fail"} =>
              sweep[s].seen[Current(s)] < MaxAttempts /\ Attempt(s) \in 0 .. MaxAttempts
         /\ sweep[s].pc \in {"fence", "mark"} => Current(s) \in accepted
<1> USE MaxAttemptsAssumption
<1>1. SweepOK(sweep[s], accepted) /\ sweep[s] \in SweepStates
  BY DEF SweepsOK
<1>2. Current(s) = RowOf(sweep[s]) /\ Current(s) \in Keys
  BY <1>1, RowOfInDue, CurrentIsRowOf DEF SweepOK
<1>3. sweep[s].seen[Current(s)] \in 0 .. MaxAttempts /\ sweep[s].age \in 0 .. Lease
  BY <1>1, <1>2 DEF SweepStates
<1>4. QED
  BY <1>1, <1>2, <1>3 DEF SweepOK, Attempt

(* A producer queues only what nobody sent: the create shape is not "sent".  *)
LEMMA ProducerOK ==
  ASSUME IInv, NEW p \in Producers, ReadKeys(p) \/ Upsert(p)
  PROVE  IInv'
<1>1. CASE ReadKeys(p)
  BY <1>1 DEF ReadKeys, Missing, IInv, TypeOK, SweepsOK, SweepStates, SentWasDelivered
<1>2. CASE Upsert(p)
  <2>1. PICK landed \in SUBSET producer[p] :
          /\ row' = [k \in Keys |-> IF k \in landed THEN Queued(row[k]) ELSE row[k]]
          /\ sweep' = Overtaken(landed, NoHolder)
    BY <1>2 DEF Upsert
  <2>2. SweepsOK'
    BY <1>2, <2>1, OvertakenOK DEF IInv, SweepsOK, Upsert
  <2>3. ASSUME NEW k \in Keys
        PROVE  Queued(row[k]) \in Rows
    <3>1. row[k].holder \in Holders \cup {NoHolder} /\ row[k].left \in 0 .. Lease
      BY LeaseAssumption DEF IInv, TypeOK, Rows, Absent
    <3>2. QED
      BY <3>1, MaxAttemptsAssumption DEF Queued, Rows, Statuses
  <2>4. row' \in [Keys -> Rows]
    BY <2>1, <2>3 DEF IInv, TypeOK
  <2>5. producer' \in [Producers -> SUBSET Keys]
    BY <1>2 DEF Upsert, IInv, TypeOK
  <2>6. TypeOK'
    BY <1>2, <2>2, <2>4, <2>5 DEF Upsert, IInv, TypeOK, SweepsOK, SweepStates
  <2>7. \A k \in Keys : Queued(row[k]).status = "queued"
    BY DEF Queued
  <2>8. SentWasDelivered'
    BY <1>2, <2>1, <2>7 DEF Upsert, IInv, SentWasDelivered
  <2>9. QED
    BY <2>2, <2>6, <2>8 DEF IInv
<1>3. QED
  BY <1>1, <1>2

(* The steps of a sweep before it may send.                                  *)
LEMMA ListingOK ==
  ASSUME IInv, NEW s \in Holders, List(s)
  PROVE  IInv'
<1> DEFINE due == Oldest({k \in Keys : Due(k)}, Limit)
           seen == [k \in Keys |-> IF k \in due THEN row[k].attempts ELSE 0]
           next == [Idle EXCEPT !.pc = "claim", !.due = due, !.seen = seen]
<1>1. due # {} /\ MoveTo(s, next) /\ UNCHANGED <<row, claim, producer, accepted, calls>>
  BY DEF List
<1>2. due \subseteq Keys
  BY DEF Oldest
<1>3. seen \in [Keys -> 0 .. MaxAttempts]
  BY MaxAttemptsAssumption DEF IInv, TypeOK, Rows, Absent
<1> HIDE DEF due, seen
<1>4. Idle \in SweepStates
  BY MaxAttemptsAssumption, LeaseAssumption DEF Idle, SweepStates, Stages
<1>5. next \in SweepStates /\ next.pc = "claim" /\ next.due = due
  BY <1>2, <1>3, <1>4 DEF SweepStates, Stages
<1> HIDE DEF next
<1>6. SweepOK(next, accepted')
  BY <1>1, <1>5 DEF SweepOK
<1>7. QED
  BY <1>1, <1>6, QuietOK DEF IInv, TypeOK

(* claimOnce, whatever it answers, moves the sweep to a state in order: only *)
(* a row whose listed attempts are below the cap goes on to be sent.         *)
LEMMA ClaimingOK ==
  ASSUME IInv, NEW s \in Holders, Granted(s) \/ Denied(s) \/ ClaimThrows(s)
  PROVE  IInv'
<1>1. SweepsOK /\ sweep[s].pc = "claim"
  BY DEF IInv, Granted, Denied, ClaimThrows, At
<1>2. Current(s) \in Keys /\ sweep[s].seen[Current(s)] \in 0 .. MaxAttempts
  BY <1>1, BusyValues
<1>3. claim' \in [Keys -> Claims]
  <2>1. claim \in [Keys -> Claims]
    BY DEF IInv, TypeOK
  <2>2. AfterClaim(claim[Current(s)], s, Lease) \in Claims
    BY <1>2, <2>1, ClaimTypes, LeaseAssumption
  <2>3. claim' \in {claim, [claim EXCEPT ![Current(s)] = AfterClaim(@, s, Lease)]}
    BY DEF Granted, Denied, ClaimThrows
  <2>4. QED
    BY <2>1, <2>2, <2>3
<1>4. accepted' = accepted /\ UNCHANGED <<row, producer, accepted, calls>>
  BY DEF Granted, Denied, ClaimThrows
<1>5. PICK next : MoveTo(s, next) /\ SweepOK(next, accepted)
  <2>1. SweepOK(Done(s), accepted) /\ SweepOK(Idle, accepted)
    BY <1>1, DoneOK
  <2>2. /\ SweepOK(Goto(s, "reap"), accepted)
        /\ sweep[s].seen[Current(s)] < MaxAttempts => SweepOK(Goto(s, "record"), accepted)
    BY <1>1, GotoOK
  <2>3. ~ (sweep[s].seen[Current(s)] >= MaxAttempts) => sweep[s].seen[Current(s)] < MaxAttempts
    BY <1>2, MaxAttemptsAssumption
  <2>4. QED
    BY <2>1, <2>2, <2>3 DEF Granted, Denied, ClaimThrows
<1>6. QED
  BY <1>3, <1>4, <1>5, QuietOK DEF IInv, TypeOK

(* The steps that write the row.                                             *)
LEMMA WritingOK ==
  ASSUME IInv, NEW s \in Holders, Reap(s) \/ Record(s) \/ MarkSent(s) \/ MarkFailed(s)
  PROVE  IInv'
<1>1. SweepsOK /\ sweep[s].pc # "idle"
  BY DEF IInv, Reap, Record, MarkSent, MarkFailed, At
<1>2. /\ SweepOK(Done(s), accepted) /\ SweepOK(Idle, accepted)
      /\ sweep[s].seen[Current(s)] \in 0 .. MaxAttempts
      /\ sweep[s].age \in 0 .. Lease
  BY <1>1, DoneOK, BusyValues
<1> USE MaxAttemptsAssumption, LeaseAssumption
<1>3. \A status \in {"dead", "sent", "failed"}, n \in 0 .. MaxAttempts :
        Outcome(status, n) \in Rows /\ Outcome(status, n).status = status
  BY DEF Outcome, Rows, Statuses
<1>4. CASE Reap(s)
  BY <1>1, <1>2, <1>3, <1>4, WriteOK DEF Reap
<1>5. ASSUME sweep[s].pc \in {"record", "mark", "fail"}
      PROVE  /\ Attempt(s) \in 0 .. MaxAttempts
             /\ \A after \in {Thrown(s, p) : p \in BOOLEAN} : SweepOK(after, accepted)
             /\ SweepOK(Goto(s, "send"), accepted)
  BY <1>1, <1>5, BusyValues, GotoOK
<1>6. CASE Record(s)
  <2>1. sweep[s].pc = "record"
    BY <1>6 DEF Record, At
  <2>2. Lease - sweep[s].age \in 0 .. Lease
    BY <1>2
  <2> DEFINE new == [status |-> "sending", attempts |-> Attempt(s), holder |-> s,
                     left |-> Lease - sweep[s].age]
  <2>3. new \in Rows /\ new.status # "sent"
    BY <1>5, <2>1, <2>2 DEF Rows, Statuses
  <2>4. QED
    BY <1>1, <1>5, <1>6, <2>1, <2>3, WriteOK DEF Record
<1>7. CASE MarkSent(s)
  <2>1. sweep[s].pc = "mark" /\ Current(s) \in accepted
    BY <1>1, <1>7, BusyValues DEF MarkSent, At
  <2>2. QED
    BY <1>1, <1>2, <1>3, <1>5, <1>7, <2>1, WriteOK DEF MarkSent
<1>8. CASE MarkFailed(s)
  <2>1. sweep[s].pc = "fail"
    BY <1>8 DEF MarkFailed, At
  <2>2. \A dead \in BOOLEAN :
          /\ Outcome(IF dead THEN "dead" ELSE "failed", Attempt(s)) \in Rows
          /\ Outcome(IF dead THEN "dead" ELSE "failed", Attempt(s)).status # "sent"
    BY <1>3, <1>5, <2>1
  <2>3. QED
    BY <1>1, <1>2, <1>8, <2>2, WriteOK DEF MarkFailed
<1>9. QED
  BY <1>4, <1>6, <1>7, <1>8

(* The steps that touch nothing but the sweep and the provider.              *)
LEMMA SendingOK ==
  ASSUME IInv, NEW s \in Holders,
         \/ AttachmentsFail(s) \/ Send(s) \/ Die(s)
         \/ Fence(s, "fence", "mark") \/ Fence(s, "catch", "fail")
  PROVE  IInv'
<1>1. SweepsOK /\ sweep[s].pc # "idle" /\ accepted \subseteq Keys
  BY DEF IInv, TypeOK, AttachmentsFail, Send, Fence, Die, At
<1>2. /\ SweepOK(Done(s), accepted) /\ SweepOK(Idle, accepted)
      /\ Current(s) \in Keys
  BY <1>1, DoneOK, BusyValues
<1>3. claim \in [Keys -> Claims] /\ calls \in [Keys -> Nat]
  BY DEF IInv, TypeOK
<1>4. CASE Die(s)
  BY <1>1, <1>2, <1>3, <1>4, QuietOK DEF Die
<1>5. CASE AttachmentsFail(s)
  <2>1. \A p \in BOOLEAN : SweepOK(Thrown(s, p), accepted)
    BY <1>1, <1>5, BusyValues, GotoOK DEF AttachmentsFail, At
  <2>2. QED
    BY <1>1, <1>3, <1>5, <2>1, QuietOK DEF AttachmentsFail
<1>6. CASE Send(s)
  <2>1. /\ accepted \subseteq accepted' /\ accepted' \subseteq Keys
        /\ UNCHANGED <<row, claim, producer>>
    BY <1>1, <1>2, <1>6 DEF Send
  <2>2. calls' \in [Keys -> Nat]
    <3>1. calls' = [calls EXCEPT ![Current(s)] = calls[Current(s)] + 1]
      BY <1>6 DEF Send
    <3>2. calls[Current(s)] + 1 \in Nat
      BY <1>2, <1>3
    <3>3. QED
      BY <1>3, <3>1, <3>2
  <2>3. sweep[s].seen[Current(s)] < MaxAttempts
    BY <1>1, <1>6, BusyValues DEF Send, At
  <2>4. /\ \A p \in BOOLEAN : SweepOK(Thrown(s, p), accepted')
        /\ Current(s) \in accepted' => SweepOK(Goto(s, "fence"), accepted')
    BY <1>1, <2>1, <2>3, GotoOK
  <2>5. PICK next : MoveTo(s, next) /\ SweepOK(next, accepted')
    BY <1>6, <2>4 DEF Send
  <2>6. QED
    BY <1>3, <2>1, <2>2, <2>5, QuietOK
<1>7. CASE Fence(s, "fence", "mark") \/ Fence(s, "catch", "fail")
  <2>1. sweep[s].pc \in {"fence", "catch"} /\ sweep[s].seen[Current(s)] < MaxAttempts
    BY <1>1, <1>7, BusyValues DEF Fence, At
  <2>2. SweepOK([Goto(s, "fail") EXCEPT !.overtaken = FALSE], accepted)
    BY <1>1, <2>1, GotoOK
  <2>3. sweep[s].pc = "fence" => SweepOK([Goto(s, "mark") EXCEPT !.overtaken = FALSE], accepted)
    BY <1>1, <2>1, BusyValues, GotoOK
  <2>4. PICK next : MoveTo(s, next) /\ SweepOK(next, accepted)
    BY <1>2, <1>7, <2>2, <2>3 DEF Fence, At
  <2>5. QED
    BY <1>1, <1>3, <1>7, <2>4, QuietOK DEF Fence
<1>8. QED
  BY <1>4, <1>5, <1>6, <1>7

(* Time passes: leases run down, sweeps grow old, nothing else.              *)
LEMMA TickOK ==
  ASSUME IInv, Tick
  PROVE  IInv'
<1> USE LeaseAssumption, MaxAttemptsAssumption
<1>1. ASSUME NEW k \in Keys
      PROVE  /\ [row[k] EXCEPT !.left = Less(@)] \in Rows
             /\ [row[k] EXCEPT !.left = Less(@)].status = row[k].status
  <2>1. row[k] \in Rows
    BY DEF IInv, TypeOK
  <2>2. row[k].left \in 0 .. Lease /\ Less(row[k].left) \in 0 .. Lease
    BY <2>1 DEF Rows, Absent, Less
  <2>3. CASE row[k] = Absent
    <3>1. [Absent EXCEPT !.left = Less(@)] = Absent
      BY DEF Absent, Less
    <3>2. QED
      BY <2>3, <3>1 DEF Rows
  <2>4. CASE row[k] # Absent
    BY <2>1, <2>2, <2>4 DEF Rows
  <2>5. QED
    BY <2>3, <2>4
<1>2. row' \in [Keys -> Rows] /\ \A k \in Keys : row'[k].status = row[k].status
  <2>1. row' = [k \in Keys |-> [row[k] EXCEPT !.left = Less(@)]]
    BY DEF Tick
  <2>2. QED
    BY <1>1, <2>1
<1>3. claim' \in [Keys -> Claims]
  <2>1. claim' = [k \in Keys |-> Aged(claim[k])] /\ claim \in [Keys -> Claims]
    BY DEF Tick, IInv, TypeOK
  <2>2. \A c \in Claims : Aged(c) \in Claims
    BY DEF Aged, Less, Claims, NoClaim
  <2>3. QED
    BY <2>1, <2>2
<1>4. ASSUME NEW s \in Holders
      PROVE  SweepOK(sweep'[s], accepted) /\ sweep'[s] \in SweepStates
  <2> DEFINE r == sweep[s]
             r1 == [r EXCEPT !.age = @ + 1]
  <2>1. SweepOK(r, accepted) /\ r \in SweepStates
    BY DEF IInv, SweepsOK
  <2>2. sweep'[s] = IF r.pc = "idle" \/ r.age = Lease THEN r ELSE r1
    BY DEF Tick, At
  <2>3. ASSUME r.age # Lease
        PROVE  SweepOK(r1, accepted) /\ r1 \in SweepStates
    <3>1. r.age + 1 \in 0 .. Lease
      BY <2>1, <2>3 DEF SweepStates
    <3>2. r1 \in SweepStates /\ r1.pc = r.pc /\ r1.due = r.due /\ r1.seen = r.seen
      BY <2>1, <3>1 DEF SweepStates
    <3>3. RowOf(r1) = RowOf(r)
      BY <3>2 DEF RowOf
    <3>4. QED
      BY <2>1, <3>2, <3>3 DEF SweepOK
  <2>4. QED
    BY <2>1, <2>2, <2>3
<1>5. SweepsOK'
  <2>1. DOMAIN sweep' = Holders /\ sweep' = [s \in Holders |-> sweep'[s]]
    BY DEF Tick
  <2>2. accepted' = accepted
    BY DEF Tick
  <2>3. sweep' \in [Holders -> SweepStates]
    BY <1>4, <2>1
  <2>4. QED
    BY <1>4, <2>2, <2>3 DEF SweepsOK
<1>6. TypeOK'
  BY <1>2, <1>3, <1>5 DEF Tick, IInv, TypeOK, SweepsOK, SweepStates
<1>7. SentWasDelivered'
  BY <1>2 DEF Tick, IInv, SentWasDelivered
<1>8. QED
  BY <1>5, <1>6, <1>7 DEF IInv

-----------------------------------------------------------------------------
(* An empty outbox satisfies the invariant.                                  *)
LEMMA InitIInv == Init => IInv
<1> SUFFICES ASSUME Init
             PROVE  IInv
  OBVIOUS
<1> USE LeaseAssumption, MaxAttemptsAssumption
<1>1. Idle \in SweepStates /\ Idle.pc = "idle"
  BY DEF Idle, SweepStates, Stages
<1>2. SweepsOK
  BY <1>1 DEF Init, SweepsOK, SweepOK
<1>3. TypeOK
  BY <1>2 DEF Init, TypeOK, SweepsOK, SweepStates, Rows, Claims
<1>4. SentWasDelivered
  BY DEF Init, SentWasDelivered, Absent
<1>5. QED
  BY <1>2, <1>3, <1>4 DEF IInv

(* Every step keeps it.                                                      *)
LEMMA NextIInv == IInv /\ [Next]_vars => IInv'
<1> SUFFICES ASSUME IInv, [Next]_vars
             PROVE  IInv'
  OBVIOUS
<1>1. ASSUME NEW p \in Producers, ReadKeys(p) \/ Upsert(p)
      PROVE  IInv'
  BY <1>1, ProducerOK
<1>2. ASSUME NEW s \in Holders, List(s)
      PROVE  IInv'
  BY <1>2, ListingOK
<1>3. ASSUME NEW s \in Holders, Granted(s) \/ Denied(s) \/ ClaimThrows(s)
      PROVE  IInv'
  BY <1>3, ClaimingOK
<1>4. ASSUME NEW s \in Holders, Reap(s) \/ Record(s) \/ MarkSent(s) \/ MarkFailed(s)
      PROVE  IInv'
  BY <1>4, WritingOK
<1>5. ASSUME NEW s \in Holders,
             \/ AttachmentsFail(s) \/ Send(s) \/ Die(s)
             \/ Fence(s, "fence", "mark") \/ Fence(s, "catch", "fail")
      PROVE  IInv'
  BY <1>5, SendingOK
<1>6. ASSUME Tick
      PROVE  IInv'
  BY <1>6, TickOK
<1>7. ASSUME UNCHANGED vars
      PROVE  IInv'
  BY <1>7 DEF vars, IInv, TypeOK, SweepsOK, SweepOK, SentWasDelivered
<1>8. QED
  BY <1>1, <1>2, <1>3, <1>4, <1>5, <1>6, <1>7 DEF Next

(* The invariant holds in every reachable state.                             *)
THEOREM OutboxInvariance == Spec => []IInv
<1>1. Init => IInv
  BY InitIInv
<1>2. IInv /\ [Next]_vars => IInv'
  BY NextIInv
<1>3. QED
  BY <1>1, <1>2, PTL DEF Spec

(***************************************************************************)
(* Type correctness, and with it the cap: no row ever records more than    *)
(* MaxAttempts attempts, for any number of sweeps at once and whatever the *)
(* listings they worked from.                                              *)
(***************************************************************************)
THEOREM OutboxTypeCorrect == Spec => []TypeOK
<1>1. IInv => TypeOK
  BY DEF IInv
<1>2. QED
  BY <1>1, OutboxInvariance, PTL

(***************************************************************************)
(* A row recorded as sent is one whose message the provider accepted, for  *)
(* any number of overlapping, dying and overtaken sweeps.                  *)
(***************************************************************************)
THEOREM OutboxSentWasDelivered == Spec => []SentWasDelivered
<1>1. IInv => SentWasDelivered
  BY DEF IInv
<1>2. QED
  BY <1>1, OutboxInvariance, PTL

-----------------------------------------------------------------------------
(***************************************************************************)
(* The fence.  A recorded outcome names no holder, and a sweep that is     *)
(* about to write a failure still holds its row unless it was overtaken.   *)
(***************************************************************************)
Outcomes == {"sent", "dead", "failed"}

NobodyHolds == \A k \in Keys : row[k].status \in Outcomes => row[k].holder = NoHolder

FenceOK(r, s, rows) == r.pc = "fail" /\ ~ r.overtaken => rows[RowOf(r)].holder = s

FenceInv == NobodyHolds /\ \A s \in Holders : FenceOK(sweep[s], s, row)

(* What a sweep goes to keeps its row, but for the next one of the listing.  *)
LEMMA SameRow ==
  ASSUME SweepsOK, NEW s \in Holders
  PROVE  /\ \A stage \in Stages :
              /\ Goto(s, stage).pc = stage /\ RowOf(Goto(s, stage)) = Current(s)
              /\ Goto(s, stage).due = sweep[s].due /\ Goto(s, stage).seen = sweep[s].seen
              /\ LET r == [Goto(s, stage) EXCEPT !.overtaken = FALSE]
                 IN  r.pc = stage /\ RowOf(r) = Current(s)
                     /\ r.due = sweep[s].due /\ r.seen = sweep[s].seen
         /\ \A p \in BOOLEAN :
              /\ Thrown(s, p).pc = "catch" /\ RowOf(Thrown(s, p)) = Current(s)
              /\ Thrown(s, p).due = sweep[s].due /\ Thrown(s, p).seen = sweep[s].seen
         /\ Done(s) = Idle \/
              /\ Done(s).pc = "claim" /\ Done(s).due = sweep[s].due \ {Current(s)}
              /\ \A k \in Done(s).due : Done(s).seen[k] = sweep[s].seen[k]
         /\ Idle.pc = "idle" /\ Idle.due = {}
<1> DEFINE r == sweep[s]
<1>1. r \in SweepStates
  BY DEF SweepsOK
<1>2. ASSUME NEW stage \in Stages
      PROVE  /\ Goto(s, stage).pc = stage /\ RowOf(Goto(s, stage)) = Current(s)
             /\ Goto(s, stage).due = r.due /\ Goto(s, stage).seen = r.seen
             /\ LET r1 == [Goto(s, stage) EXCEPT !.overtaken = FALSE]
                IN  r1.pc = stage /\ RowOf(r1) = Current(s) /\ r1.due = r.due /\ r1.seen = r.seen
  BY <1>1 DEF Goto, SweepStates, RowOf, Current
<1>3. ASSUME NEW p \in BOOLEAN
      PROVE  /\ Thrown(s, p).pc = "catch" /\ RowOf(Thrown(s, p)) = Current(s)
             /\ Thrown(s, p).due = r.due /\ Thrown(s, p).seen = r.seen
  BY <1>1 DEF Thrown, SweepStates, RowOf, Current
<1>4. Done(s) = Idle \/
        /\ Done(s).pc = "claim" /\ Done(s).due = r.due \ {Current(s)}
        /\ \A k \in Done(s).due : Done(s).seen[k] = r.seen[k]
  <2> DEFINE rest == r.due \ {Current(s)}
             next == [r EXCEPT !.pc = "claim", !.due = rest, !.seen[Current(s)] = 0,
                              !.permanent = FALSE, !.overtaken = FALSE]
  <2>1. Done(s) = Idle \/ Done(s) = next
    BY DEF Done
  <2>2. next.pc = "claim" /\ next.due = rest /\ next.seen = [r.seen EXCEPT ![Current(s)] = 0]
    BY <1>1 DEF SweepStates
  <2>3. \A k \in rest : [r.seen EXCEPT ![Current(s)] = 0][k] = r.seen[k]
    BY <1>1 DEF SweepStates
  <2> HIDE DEF next, rest
  <2>4. next.pc = "claim" /\ next.due = rest /\ \A k \in next.due : next.seen[k] = r.seen[k]
    BY <2>2, <2>3
  <2>5. QED
    BY <2>1, <2>4 DEF rest
<1>5. Idle.pc = "idle" /\ Idle.due = {}
  BY DEF Idle
<1>6. QED
  BY <1>2, <1>3, <1>4, <1>5

(* A write, carried out or not, of a row that names no holder if it is an    *)
(* outcome: whoever was about to fail that row is overtaken.                 *)
LEMMA WriteFence ==
  ASSUME IInv, FenceInv, NEW s \in Holders, sweep[s].pc # "idle",
         NEW new, new.status \in Outcomes => new.holder = NoHolder,
         NEW next, next.pc # "fail", NEW thrown, \A after \in thrown : after.pc # "fail",
         Write(s, new, next, thrown)
  PROVE  FenceInv'
<1> DEFINE k == Current(s)
<1>1. k \in Keys /\ \A t \in Holders : sweep[t] \in SweepStates /\ Current(t) = RowOf(sweep[t])
  BY BusyValues, CurrentIsRowOf DEF IInv, SweepsOK
<1>a. row \in [Keys -> Rows] /\ sweep \in [Holders -> SweepStates]
  BY DEF IInv, TypeOK, SweepsOK
<1>2. ASSUME NEW after, after.pc # "fail", row' = [row EXCEPT ![k] = new],
             sweep' = [Overtaken({k}, s) EXCEPT ![s] = after]
      PROVE  FenceInv'
  <2>1. NobodyHolds'
    BY <1>1, <1>a, <1>2 DEF FenceInv, NobodyHolds
  <2>2. ASSUME NEW t \in Holders PROVE FenceOK(sweep'[t], t, row')
    <3>1. CASE t = s
      BY <1>2, <3>1 DEF Overtaken, FenceOK
    <3>2. CASE t # s /\ sweep[t].pc = "fail" /\ Current(t) = k
      <4>1. sweep'[t] = [sweep[t] EXCEPT !.overtaken = TRUE]
        BY <1>2, <3>2 DEF Overtaken
      <4>2. sweep'[t].overtaken = TRUE
        BY <1>1, <4>1 DEF SweepStates
      <4>3. QED
        BY <4>2 DEF FenceOK
    <3>3. CASE t # s /\ ~ (sweep[t].pc = "fail" /\ Current(t) = k)
      <4>1. sweep'[t] = sweep[t] \/ sweep'[t] = [sweep[t] EXCEPT !.overtaken = TRUE]
        BY <1>2, <3>3 DEF Overtaken
      <4>2. CASE sweep'[t] = sweep[t]
        <5>1. FenceOK(sweep[t], t, row)
          BY DEF FenceInv
        <5>2. sweep[t].pc = "fail" => RowOf(sweep[t]) \in Keys \ {k}
          BY <1>1, <3>3, BusyValues DEF IInv
        <5>3. sweep[t].pc = "fail" => row'[RowOf(sweep[t])] = row[RowOf(sweep[t])]
          BY <1>a, <1>2, <5>2
        <5>4. QED
          BY <4>2, <5>1, <5>3 DEF FenceOK
      <4>3. CASE sweep'[t] = [sweep[t] EXCEPT !.overtaken = TRUE]
        BY <1>1, <4>3 DEF SweepStates, FenceOK
      <4>4. QED
        BY <4>1, <4>2, <4>3
    <3>4. QED
      BY <3>1, <3>2, <3>3
  <2>3. QED
    BY <2>1, <2>2 DEF FenceInv
<1>3. ASSUME NEW after, after.pc # "fail", MoveTo(s, after), UNCHANGED row
      PROVE  FenceInv'
  BY <1>a, <1>3 DEF MoveTo, FenceInv, NobodyHolds, FenceOK
<1>4. QED
  BY <1>2, <1>3 DEF Write

(* The steps that write a row.                                               *)
LEMMA WritingFence ==
  ASSUME IInv, FenceInv, NEW s \in Holders, Reap(s) \/ Record(s) \/ MarkSent(s) \/ MarkFailed(s)
  PROVE  FenceInv'
<1>1. sweep[s].pc # "idle" /\ SweepsOK
  BY DEF Reap, Record, MarkSent, MarkFailed, At, IInv
<1>2. /\ Idle.pc # "fail" /\ Done(s).pc # "fail" /\ Goto(s, "send").pc # "fail"
      /\ \A p \in BOOLEAN : Thrown(s, p).pc # "fail"
  BY <1>1, SameRow DEF Stages
<1>3. \A status, attempts : Outcome(status, attempts).holder = NoHolder
  BY DEF Outcome
<1>4. CASE Record(s)
  <2> DEFINE new == [status |-> "sending", attempts |-> Attempt(s), holder |-> s,
                     left |-> Lease - sweep[s].age]
  <2>1. Write(s, new, Goto(s, "send"), {Thrown(s, p) : p \in BOOLEAN}) /\ new.status \notin Outcomes
    BY <1>4 DEF Record, Outcomes
  <2> HIDE DEF new
  <2>2. QED
    BY <1>1, <1>2, <2>1, WriteFence
<1>5. ASSUME Reap(s) \/ MarkSent(s) \/ MarkFailed(s)
      PROVE  FenceInv'
  <2>1. PICK status, attempts, thrown : Write(s, Outcome(status, attempts), Done(s), thrown)
               /\ (thrown = {Idle} \/ thrown = {Thrown(s, p) : p \in BOOLEAN})
    BY <1>5, Zenon DEF Reap, MarkSent, MarkFailed
  <2>2. \A after \in thrown : after.pc # "fail"
    BY <1>2, <2>1
  <2>3. QED
    BY <1>1, <1>2, <1>3, <2>1, <2>2, WriteFence
<1>6. QED
  BY <1>4, <1>5

(* The other steps of a sweep: only one that still holds its row goes on to  *)
(* fail it.                                                                  *)
LEMMA MovingFence ==
  ASSUME IInv, FenceInv, NEW s \in Holders,
         \/ List(s) \/ Granted(s) \/ Denied(s) \/ ClaimThrows(s) \/ AttachmentsFail(s) \/ Send(s) \/ Die(s)
         \/ Fence(s, "fence", "mark") \/ Fence(s, "catch", "fail")
  PROVE  FenceInv'
<1>a. SweepsOK /\ sweep \in [Holders -> SweepStates]
  BY DEF IInv, SweepsOK
<1>1. /\ Idle.pc # "fail" /\ Done(s).pc # "fail"
      /\ \A stage \in {"reap", "record", "fence"} : Goto(s, stage).pc # "fail"
      /\ [Goto(s, "mark") EXCEPT !.overtaken = FALSE].pc # "fail"
      /\ \A p \in BOOLEAN : Thrown(s, p).pc # "fail"
      /\ RowOf([Goto(s, "fail") EXCEPT !.overtaken = FALSE]) = Current(s)
  <2>1. {"reap", "record", "fence", "mark", "fail"} \subseteq Stages
    BY DEF Stages
  <2>2. QED
    BY <1>a, <2>1, SameRow
<1>2. UNCHANGED row
  BY DEF List, Granted, Denied, ClaimThrows, AttachmentsFail, Send, Die, Fence
<1>3. PICK next : MoveTo(s, next) /\ FenceOK(next, s, row)
  <2>1. CASE List(s)
    <3> DEFINE due == Oldest({k \in Keys : Due(k)}, Limit)
               seen == [k \in Keys |-> IF k \in due THEN row[k].attempts ELSE 0]
               next == [Idle EXCEPT !.pc = "claim", !.due = due, !.seen = seen]
    <3>1. MoveTo(s, next)
      BY <2>1 DEF List
    <3> HIDE DEF due, seen
    <3>2. next.pc = "claim"
      BY DEF Idle
    <3>3. QED
      BY <3>1, <3>2 DEF FenceOK
  <2>2. CASE Fence(s, "catch", "fail")
    BY <1>1, <2>2 DEF Fence, FenceOK, StillHolds
  <2>3. CASE Fence(s, "fence", "mark")
    BY <1>1, <2>3 DEF Fence, FenceOK
  <2>4. CASE Granted(s)
    BY <1>1, <2>4 DEF Granted, FenceOK
  <2>5. CASE Denied(s) \/ ClaimThrows(s) \/ AttachmentsFail(s) \/ Send(s) \/ Die(s)
    BY <1>1, <2>5 DEF Denied, ClaimThrows, AttachmentsFail, Send, Die, FenceOK
  <2>6. QED
    BY <2>1, <2>2, <2>3, <2>4, <2>5
<1>4. sweep' = [sweep EXCEPT ![s] = next]
  BY <1>3 DEF MoveTo
<1>5. \A t \in Holders : FenceOK(sweep'[t], t, row)
  BY <1>a, <1>3, <1>4 DEF FenceInv
<1>6. QED
  BY <1>2, <1>5 DEF FenceInv, NobodyHolds

(* A row whose lease runs down is otherwise the same row.                    *)
LEMMA AgedRow ==
  ASSUME NEW r \in Rows, NEW left
  PROVE  LET r1 == [r EXCEPT !.left = left]
         IN  r1.status = r.status /\ r1.attempts = r.attempts /\ r1.holder = r.holder
<1>1. CASE r = Absent
  BY <1>1 DEF Absent
<1>2. CASE r # Absent
  BY <1>2 DEF Rows
<1>3. QED
  BY <1>1, <1>2

(* What producers and the clock do leaves every holder in place.             *)
LEMMA OthersFence ==
  ASSUME IInv, FenceInv, Tick \/ \E p \in Producers : ReadKeys(p) \/ Upsert(p)
  PROVE  FenceInv'
<1>a. row \in [Keys -> Rows] /\ sweep \in [Holders -> SweepStates] /\ SweepsOK
  BY DEF IInv, TypeOK, SweepsOK
<1>1. CASE \E p \in Producers : ReadKeys(p)
  BY <1>1 DEF ReadKeys, FenceInv, NobodyHolds, FenceOK
<1>2. ASSUME NEW p \in Producers, Upsert(p) PROVE FenceInv'
  <2>1. PICK landed \in SUBSET producer[p] :
          /\ row' = [k \in Keys |-> IF k \in landed THEN Queued(row[k]) ELSE row[k]]
          /\ sweep' = Overtaken(landed, NoHolder)
    BY <1>2 DEF Upsert
  <2>2. \A k \in Keys : /\ row'[k].holder = row[k].holder
                        /\ row'[k].status \in Outcomes => row'[k].status = row[k].status
    BY <2>1 DEF Queued, Outcomes
  <2>3. ASSUME NEW t \in Holders PROVE FenceOK(sweep'[t], t, row')
    <3>1. sweep[t] \in SweepStates /\ FenceOK(sweep[t], t, row) /\ RowOf(sweep[t]) = Current(t)
          /\ (sweep[t].pc = "fail" => Current(t) \in Keys)
      BY <1>a, CurrentIsRowOf, BusyValues DEF FenceInv
    <3>2. CASE sweep'[t] = sweep[t]
      BY <2>2, <3>1, <3>2 DEF FenceOK
    <3>3. CASE sweep'[t] = [sweep[t] EXCEPT !.overtaken = TRUE]
      BY <3>1, <3>3 DEF SweepStates, FenceOK
    <3>4. QED
      BY <2>1, <3>2, <3>3 DEF Overtaken
  <2>4. QED
    BY <2>2, <2>3 DEF FenceInv, NobodyHolds
<1>3. CASE Tick
  <2>1. \A k \in Keys : row'[k].holder = row[k].holder /\ row'[k].status = row[k].status
    <3> SUFFICES ASSUME NEW k \in Keys
                 PROVE  row'[k].holder = row[k].holder /\ row'[k].status = row[k].status
      OBVIOUS
    <3>1. row'[k] = [row[k] EXCEPT !.left = Less(row[k].left)]
      BY <1>3 DEF Tick
    <3>2. row[k] \in Rows
      BY <1>a
    <3>3. QED
      BY <3>1, <3>2, AgedRow
  <2>2. ASSUME NEW t \in Holders PROVE FenceOK(sweep'[t], t, row')
    <3>1. sweep[t] \in SweepStates /\ FenceOK(sweep[t], t, row) /\ RowOf(sweep[t]) = Current(t)
          /\ (sweep[t].pc = "fail" => Current(t) \in Keys)
      BY <1>a, CurrentIsRowOf, BusyValues DEF FenceInv
    <3>2. sweep'[t].pc = sweep[t].pc /\ sweep'[t].due = sweep[t].due
          /\ sweep'[t].overtaken = sweep[t].overtaken
      BY <1>3, <3>1 DEF Tick, SweepStates
    <3>3. RowOf(sweep'[t]) = RowOf(sweep[t])
      BY <3>2 DEF RowOf
    <3>4. QED
      BY <2>1, <3>1, <3>2, <3>3 DEF FenceOK
  <2>3. QED
    BY <2>1, <2>2 DEF FenceInv, NobodyHolds
<1>4. QED
  BY <1>1, <1>2, <1>3

(* The fence's part of the invariant holds throughout.                       *)
LEMMA FenceInvHolds == Spec => []FenceInv
<1>1. Init => FenceInv
  BY DEF Init, FenceInv, NobodyHolds, FenceOK, Outcomes, Absent, Idle
<1>2. IInv /\ FenceInv /\ [Next]_vars => FenceInv'
  <2> SUFFICES ASSUME IInv, FenceInv, [Next]_vars PROVE FenceInv'
    OBVIOUS
  <2>1. CASE UNCHANGED vars
    BY <2>1 DEF vars, FenceInv, NobodyHolds, FenceOK
  <2>2. QED
    BY <2>1, WritingFence, MovingFence, OthersFence DEF Next
<1>3. QED
  BY <1>1, <1>2, OutboxInvariance, PTL DEF Spec

(* An outcome is given to a row by the sweep that is at it.                  *)
LEMMA OutcomeStep ==
  ASSUME IInv, [Next]_vars, NEW k \in Keys, row[k].status = "sent", row'[k].status = "failed"
  PROVE  \E s \in Holders : sweep[s].pc = "fail" /\ Current(s) = k
<1>a. row \in [Keys -> Rows]
  BY DEF IInv, TypeOK
<1>1. ASSUME NEW s \in Holders, NEW new, NEW next, NEW thrown, Write(s, new, next, thrown)
      PROVE  k = Current(s) /\ new.status = "failed"
  BY <1>a, <1>1 DEF Write
<1>2. ASSUME NEW s \in Holders, Reap(s) \/ Record(s) \/ MarkSent(s) PROVE FALSE
  <2>1. PICK new, next, thrown : Write(s, new, next, thrown) /\ new.status \in {"dead", "sending", "sent"}
    BY <1>2 DEF Reap, Record, MarkSent, Outcome
  <2>2. QED
    BY <1>1, <2>1
<1>3. ASSUME NEW s \in Holders, MarkFailed(s) PROVE sweep[s].pc = "fail" /\ Current(s) = k
  <2>1. sweep[s].pc = "fail" /\ \E new, next, thrown : Write(s, new, next, thrown)
    BY <1>3, Zenon DEF MarkFailed, At
  <2>2. QED
    BY <1>1, <2>1
<1>4. ASSUME NEW p \in Producers, Upsert(p) PROVE FALSE
  BY <1>4 DEF Upsert, Queued
<1>5. ASSUME Tick PROVE FALSE
  <2>1. row'[k] = [row[k] EXCEPT !.left = Less(@)]
    BY <1>5 DEF Tick
  <2>2. QED
    BY <1>a, <2>1, AgedRow
<1>6. ASSUME UNCHANGED row PROVE FALSE
  BY <1>6
<1>7. QED
  BY <1>2, <1>3, <1>4, <1>5, <1>6 DEF Next, vars, ReadKeys, List, Granted, Denied, ClaimThrows,
     AttachmentsFail, Send, Fence, Die

(***************************************************************************)
(* A row recorded as sent becomes failed only through a sender that was    *)
(* overtaken between its fence read and its write (outbox.ts, stillHolds), *)
(* for any number of sweeps and producers at once.                         *)
(***************************************************************************)
THEOREM OutboxOnlyOvertakenRegress == Spec => OnlyOvertakenRegress
<1>1. IInv /\ FenceInv /\ [Next]_vars =>
        \A k \in Keys : row[k].status = "sent" /\ row'[k].status = "failed" =>
          \E s \in Holders : sweep[s].pc = "fail" /\ sweep[s].overtaken
  <2> SUFFICES ASSUME IInv, FenceInv, [Next]_vars, NEW k \in Keys, row[k].status = "sent",
                      row'[k].status = "failed"
               PROVE  \E s \in Holders : sweep[s].pc = "fail" /\ sweep[s].overtaken
    OBVIOUS
  <2>1. PICK s \in Holders : sweep[s].pc = "fail" /\ Current(s) = k
    BY OutcomeStep
  <2>2. row[k].holder = NoHolder
    BY DEF FenceInv, NobodyHolds, Outcomes
  <2>3. FenceOK(sweep[s], s, row) /\ RowOf(sweep[s]) = k
    BY <2>1, CurrentIsRowOf DEF FenceInv
  <2>4. sweep[s].overtaken
    BY <2>1, <2>2, <2>3, NoHolderAssumption DEF FenceOK
  <2>5. QED
    BY <2>1, <2>4
<1>2. QED
  BY <1>1, OutboxInvariance, FenceInvHolds, PTL DEF Spec, OnlyOvertakenRegress

-----------------------------------------------------------------------------
(***************************************************************************)
(* Sweeps that do not overlap, and one producer at a time.  What the sweep *)
(* at work read of its rows is then still so when it gets to them: nobody  *)
(* else writes them.  Listed(r, rows, cs) says it of a sweep in state r,   *)
(* row by row and stage by stage; a sweep that was told of a failure does  *)
(* not know whether its write landed, but it then finds no holder.         *)
(***************************************************************************)
Open == {"queued", "failed", "sending"}

Listed(r, rows, cs) ==
    /\ r.pc = "idle" => r.due = {}
    /\ \A k \in r.due : k # RowOf(r) \/ r.pc \in {"claim", "reap", "record"} =>
         rows[k].status \in Open /\ rows[k].attempts = r.seen[k]
    /\ r.pc \in {"send", "fence", "mark"} =>
         rows[RowOf(r)].status \in Open /\ rows[RowOf(r)].attempts = r.seen[RowOf(r)] + 1
    /\ r.pc = "send" => cs[RowOf(r)] <= r.seen[RowOf(r)]
    /\ r.pc \in {"catch", "fail"} =>
         /\ rows[RowOf(r)].attempts <= r.seen[RowOf(r)] + 1
         /\ rows[RowOf(r)].status \in Statuses
    /\ r.pc = "fail" => rows[RowOf(r)].status \in Open
    /\ r.pc = "catch" => rows[RowOf(r)].status \in Open \/ rows[RowOf(r)].holder = NoHolder

OneSweep == \A s, t \in Holders : sweep[s].pc # "idle" /\ sweep[t].pc # "idle" => s = t

NotYetQueued == \A p \in Producers : \A k \in producer[p] : row[k] = Absent

SerialInv ==
    /\ OneSweep
    /\ NotYetQueued
    /\ CallsCounted
    /\ \A s \in Holders : Listed(sweep[s], row, calls)

(* The rows of the sweep at work are there, so no producer is queueing them. *)
LEMMA ListedRows ==
  ASSUME IInv, SerialInv, NEW s \in Holders, sweep[s].pc # "idle", NEW k \in sweep[s].due
  PROVE  row[k] # Absent /\ row[k].status \in Statuses
<1>1. Listed(sweep[s], row, calls) /\ sweep[s] \in SweepStates
  BY DEF SerialInv, IInv, SweepsOK
<1>2. k # RowOf(sweep[s]) \/ sweep[s].pc \in {"claim", "reap", "record"} => row[k].status \in Statuses
  BY <1>1 DEF Listed, Open, Statuses
<1>3. sweep[s].pc \in {"send", "fence", "mark", "catch", "fail"} => row[RowOf(sweep[s])].status \in Statuses
  BY <1>1 DEF Listed, Open, Statuses
<1>4. row[k].status \in Statuses
  BY <1>1, <1>2, <1>3 DEF SweepStates, Stages
<1>5. QED
  BY <1>4 DEF Absent, Statuses

(* The next row of a listing is as the listing said, if only the one before  *)
(* it was written.                                                           *)
LEMMA DoneListed ==
  ASSUME SweepsOK, SerialInv, NEW s \in Holders, sweep[s].pc # "idle", NEW rows, NEW cs,
         \A k \in sweep[s].due : k # Current(s) => rows[k] = row[k]
  PROVE  Listed(Done(s), rows, cs) /\ Listed(Idle, rows, cs)
<1>1. Listed(Idle, rows, cs)
  BY DEF Listed, Idle
<1>2. Listed(sweep[s], row, calls) /\ Current(s) = RowOf(sweep[s])
  BY CurrentIsRowOf DEF SerialInv
<1>3. CASE Done(s) # Idle
  <2>1. /\ Done(s).pc = "claim" /\ Done(s).due = sweep[s].due \ {Current(s)}
        /\ \A k \in Done(s).due : Done(s).seen[k] = sweep[s].seen[k]
    BY <1>3, SameRow
  <2>2. \A k \in Done(s).due : rows[k].status \in Open /\ rows[k].attempts = Done(s).seen[k]
    BY <1>2, <2>1 DEF Listed
  <2>3. QED
    BY <1>1, <2>1, <2>2 DEF Listed
<1>4. QED
  BY <1>1, <1>3

(* A step of the sweep at work, which writes no other row than the current.  *)
LEMMA SerialMove ==
  ASSUME IInv, SerialInv, NEW s \in Holders, sweep[s].pc # "idle",
         NEW next, sweep' = [sweep EXCEPT ![s] = next], Listed(next, row', calls'),
         \A k \in Keys \ {Current(s)} : row'[k] = row[k] /\ calls'[k] = calls[k],
         calls'[Current(s)] <= row'[Current(s)].attempts,
         producer' = producer
  PROVE  SerialInv'
<1>1. sweep \in [Holders -> SweepStates] /\ Current(s) \in sweep[s].due
  BY RowOfInDue, CurrentIsRowOf DEF IInv, SweepsOK, SweepOK
<1>2. OneSweep'
  BY <1>1 DEF SerialInv, OneSweep
<1>3. row[Current(s)] # Absent
  BY <1>1, ListedRows
<1>4. producer \in [Producers -> SUBSET Keys]
  BY DEF IInv, TypeOK
<1>5. NotYetQueued'
  BY <1>3, <1>4 DEF SerialInv, NotYetQueued
<1>6. CallsCounted'
  BY DEF SerialInv, CallsCounted
<1>7. ASSUME NEW t \in Holders PROVE Listed(sweep'[t], row', calls')
  <2>1. CASE t = s
    BY <1>1, <2>1
  <2>2. CASE t # s
    <3>1. sweep'[t] = sweep[t] /\ sweep[t].pc = "idle"
      BY <1>1, <2>2 DEF SerialInv, OneSweep
    <3>2. Listed(sweep[t], row, calls)
      BY DEF SerialInv
    <3>3. QED
      BY <3>1, <3>2 DEF Listed
  <2>3. QED
    BY <2>1, <2>2
<1>8. QED
  BY <1>2, <1>5, <1>6, <1>7 DEF SerialInv

(* A write by the sweep at work: carried out or not, nobody else moves.      *)
LEMMA SerialWrite ==
  ASSUME IInv, SerialInv, NEW s \in Holders, sweep[s].pc # "idle",
         NEW new, NEW next, NEW thrown, Write(s, new, next, thrown)
  PROVE  \/ \E after \in {next} \cup thrown :
              sweep' = [sweep EXCEPT ![s] = after] /\ row' = [row EXCEPT ![Current(s)] = new]
         \/ \E after \in thrown : sweep' = [sweep EXCEPT ![s] = after] /\ row' = row
<1>1. Overtaken({Current(s)}, s) = sweep
  <2>1. sweep \in [Holders -> SweepStates]
    BY DEF IInv, SweepsOK
  <2>2. \A t \in Holders \ {s} : sweep[t].pc = "idle"
    BY DEF SerialInv, OneSweep
  <2>3. \A t \in Holders : Overtaken({Current(s)}, s)[t] = sweep[t]
    BY <2>2 DEF Overtaken
  <2>4. QED
    BY <2>1, <2>3 DEF Overtaken
<1>2. QED
  BY <1>1, Zenon DEF Write, MoveTo

(* The values of the sweep at work.                                          *)
LEMMA SerialValues ==
  ASSUME IInv, SerialInv, NEW s \in Holders, sweep[s].pc # "idle"
  PROVE  /\ Current(s) \in Keys /\ Current(s) \in sweep[s].due /\ Current(s) = RowOf(sweep[s])
         /\ Listed(sweep[s], row, calls) /\ row \in [Keys -> Rows] /\ calls \in [Keys -> Nat]
         /\ row[Current(s)].attempts \in Nat /\ row[Current(s)].status \in Statuses
         /\ calls[Current(s)] <= row[Current(s)].attempts /\ calls[Current(s)] \in Nat
         /\ sweep[s].seen[Current(s)] \in Nat /\ Attempt(s) = sweep[s].seen[Current(s)] + 1
<1>1. SweepOK(sweep[s], accepted) /\ sweep[s] \in SweepStates /\ Current(s) = RowOf(sweep[s])
  BY CurrentIsRowOf DEF IInv, SweepsOK
<1>2. Current(s) \in Keys /\ Current(s) \in sweep[s].due
  BY <1>1, RowOfInDue DEF SweepOK
<1>3. row \in [Keys -> Rows] /\ calls \in [Keys -> Nat]
  BY DEF IInv, TypeOK
<1>4. row[Current(s)].attempts \in Nat
  BY <1>2, <1>3, MaxAttemptsAssumption DEF Rows, Absent
<1>5. row[Current(s)].status \in Statuses
  BY <1>2, ListedRows
<1>6. calls[Current(s)] <= row[Current(s)].attempts /\ calls[Current(s)] \in Nat
  BY <1>2, <1>3 DEF SerialInv, CallsCounted
<1>7. sweep[s].seen[Current(s)] \in Nat
  BY <1>1, <1>2, MaxAttemptsAssumption DEF SweepStates
<1>8. QED
  BY <1>1, <1>2, <1>3, <1>4, <1>5, <1>6, <1>7 DEF Attempt, SerialInv

(* The steps that write a row.                                               *)
LEMMA WritingSerial ==
  ASSUME IInv, SerialInv, NEW s \in Holders, Reap(s) \/ Record(s) \/ MarkSent(s) \/ MarkFailed(s)
  PROVE  SerialInv'
<1> DEFINE k == Current(s)
           seen == sweep[s].seen[k]
<1>1. sweep[s].pc \in {"reap", "record", "mark", "fail"} /\ producer' = producer /\ calls' = calls
  BY DEF Reap, Record, MarkSent, MarkFailed, At
<1>2. /\ k \in Keys /\ k \in sweep[s].due /\ k = RowOf(sweep[s])
      /\ Listed(sweep[s], row, calls) /\ row \in [Keys -> Rows] /\ calls \in [Keys -> Nat]
      /\ row[k].attempts \in Nat /\ row[k].status \in Statuses
      /\ calls[k] <= row[k].attempts /\ calls[k] \in Nat /\ seen \in Nat /\ Attempt(s) = seen + 1
  BY <1>1, SerialValues
<1>3. /\ row[k].attempts <= seen + 1
      /\ sweep[s].pc \in {"reap", "record"} => row[k].attempts = seen /\ row[k].status \in Open
      /\ sweep[s].pc \in {"mark", "fail"} => row[k].status \in Open
  BY <1>1, <1>2 DEF Listed
<1>4. SweepsOK /\ sweep[s].pc # "idle"
  BY <1>1 DEF IInv
<1>5. ASSUME NEW new, NEW after, sweep' = [sweep EXCEPT ![s] = after],
             row' = row \/ row' = [row EXCEPT ![k] = new],
             row[k].attempts <= new.attempts, new.attempts \in Nat,
             Listed(after, row', calls)
      PROVE  SerialInv'
  <2>1. calls[k] <= row'[k].attempts
    BY <1>2, <1>5
  <2>2. \A j \in Keys \ {k} : row'[j] = row[j]
    BY <1>2, <1>5
  <2>3. QED
    BY <1>1, <1>4, <1>5, <2>1, <2>2, SerialMove
<1>6. ASSUME NEW rows, \A j \in Keys \ {k} : rows[j] = row[j]
      PROVE  Listed(Done(s), rows, calls) /\ Listed(Idle, rows, calls)
  <2>1. sweep[s].due \subseteq Keys
    BY DEF IInv, SweepsOK, SweepStates
  <2>2. \A j \in sweep[s].due : j # Current(s) => rows[j] = row[j]
    BY <1>6, <2>1
  <2>3. QED
    BY <1>4, <2>2, DoneListed
<1>7. ASSUME NEW rows, NEW p \in BOOLEAN, \A j \in Keys \ {k} : rows[j] = row[j],
             rows[k].status \in Statuses, rows[k].attempts <= seen + 1,
             rows[k].status \in Open \/ rows[k].holder = NoHolder
      PROVE  Listed(Thrown(s, p), rows, calls)
  <2>1. /\ Thrown(s, p).pc = "catch" /\ RowOf(Thrown(s, p)) = k
        /\ Thrown(s, p).due = sweep[s].due /\ Thrown(s, p).seen = sweep[s].seen
    BY <1>4, SameRow
  <2>2. sweep[s].due \subseteq Keys
    BY DEF IInv, SweepsOK, SweepStates
  <2>3. QED
    BY <1>2, <1>7, <2>1, <2>2 DEF Listed
<1>8. CASE Reap(s)
  <2> DEFINE new == Outcome("dead", seen)
  <2>1. Write(s, new, Done(s), {Idle}) /\ new.attempts = seen /\ sweep[s].pc = "reap"
    BY <1>8 DEF Reap, Outcome, At
  <2> HIDE DEF new, k, seen
  <2>2. PICK after \in {Done(s), Idle} : sweep' = [sweep EXCEPT ![s] = after] /\ (row' = row \/ row' = [row EXCEPT ![k] = new])
    BY <1>4, <2>1, SerialWrite DEF k
  <2>3. \A j \in Keys \ {k} : row'[j] = row[j]
    BY <1>2, <2>2
  <2>4. Listed(after, row', calls)
    BY <1>6, <2>2, <2>3
  <2>5. row[k].attempts <= new.attempts /\ new.attempts \in Nat
    BY <1>2, <1>3, <2>1
  <2>6. QED
    BY <1>5, <2>2, <2>4, <2>5
<1>9. CASE MarkFailed(s)
  <2> DEFINE dead == Attempt(s) >= MaxAttempts \/ sweep[s].permanent
             new == Outcome(IF dead THEN "dead" ELSE "failed", Attempt(s))
  <2>1. Write(s, new, Done(s), {Idle}) /\ new.attempts = Attempt(s)
    BY <1>9 DEF MarkFailed, Outcome
  <2> HIDE DEF new, k, seen
  <2>2. PICK after \in {Done(s), Idle} : sweep' = [sweep EXCEPT ![s] = after] /\ (row' = row \/ row' = [row EXCEPT ![k] = new])
    BY <1>4, <2>1, SerialWrite DEF k
  <2>3. \A j \in Keys \ {k} : row'[j] = row[j]
    BY <1>2, <2>2
  <2>4. Listed(after, row', calls)
    BY <1>6, <2>2, <2>3
  <2>5. row[k].attempts <= new.attempts /\ new.attempts \in Nat
    BY <1>2, <1>3, <2>1
  <2>6. QED
    BY <1>5, <2>2, <2>4, <2>5
<1>10. CASE MarkSent(s)
  <2> DEFINE new == Outcome("sent", Attempt(s))
             thrown == {Thrown(s, p) : p \in BOOLEAN}
  <2>1. Write(s, new, Done(s), thrown) /\ new.attempts = Attempt(s) /\ new.status \in Statuses
        /\ new.holder = NoHolder /\ sweep[s].pc = "mark"
    BY <1>10 DEF MarkSent, Outcome, Statuses, At
  <2> HIDE DEF new, k, seen, thrown
  <2>2. PICK after \in {Done(s)} \cup thrown : sweep' = [sweep EXCEPT ![s] = after] /\ (row' = row \/ row' = [row EXCEPT ![k] = new])
    BY <1>4, <2>1, SerialWrite DEF k
  <2>3. \A j \in Keys \ {k} : row'[j] = row[j]
    BY <1>2, <2>2
  <2>4. row'[k].status \in Statuses /\ row'[k].attempts <= seen + 1
        /\ (row'[k].status \in Open \/ row'[k].holder = NoHolder)
    BY <1>2, <1>3, <2>1, <2>2
  <2>5. Listed(after, row', calls)
    BY <1>6, <1>7, <2>2, <2>3, <2>4 DEF thrown
  <2>6. row[k].attempts <= new.attempts /\ new.attempts \in Nat
    BY <1>2, <1>3, <2>1
  <2>7. QED
    BY <1>5, <2>2, <2>5, <2>6
<1>11. CASE Record(s)
  <2> DEFINE new == [status |-> "sending", attempts |-> Attempt(s), holder |-> s,
                     left |-> Lease - sweep[s].age]
             thrown == {Thrown(s, p) : p \in BOOLEAN}
             next == Goto(s, "send")
  <2>1. Write(s, new, next, thrown) /\ new.attempts = Attempt(s) /\ new.status \in Statuses
        /\ new.status \in Open /\ sweep[s].pc = "record"
    BY <1>11 DEF Record, Statuses, Open, At
  <2>a. next.pc = "send" /\ RowOf(next) = k /\ next.due = sweep[s].due /\ next.seen = sweep[s].seen
    BY <1>4, SameRow DEF Stages
  <2> HIDE DEF new, k, seen, thrown, next
  <2>2. PICK after : sweep' = [sweep EXCEPT ![s] = after]
               /\ \/ row' = [row EXCEPT ![k] = new] /\ (after = next \/ after \in thrown)
                  \/ row' = row /\ after \in thrown
    BY <1>4, <2>1, SerialWrite DEF k
  <2>b. row[k].attempts <= new.attempts /\ new.attempts \in Nat
    BY <1>2, <1>3, <2>1
  <2>3. \A j \in Keys \ {k} : row'[j] = row[j]
    BY <1>2, <2>2
  <2>4. row'[k].status \in Statuses /\ row'[k].attempts <= seen + 1 /\ row'[k].status \in Open
    BY <1>2, <1>3, <2>1, <2>2
  <2>5. after \in thrown => Listed(after, row', calls)
    BY <1>7, <2>3, <2>4 DEF thrown
  <2>6. CASE after = next /\ row' = [row EXCEPT ![k] = new]
    <3>1. sweep[s].due \subseteq Keys
      BY DEF IInv, SweepsOK, SweepStates
    <3>2. row'[k].status \in Open /\ row'[k].attempts = seen + 1 /\ calls[k] <= seen
      BY <1>2, <1>3, <2>1, <2>6
    <3>3. Listed(next, row', calls)
      BY <1>2, <2>1, <2>a, <2>3, <3>1, <3>2 DEF Listed, seen
    <3>4. QED
      BY <1>5, <2>2, <2>6, <2>b, <3>3
  <2>7. QED
    BY <1>5, <2>2, <2>5, <2>6, <2>b
<1>12. QED
  BY <1>8, <1>9, <1>10, <1>11

(* A sweep starts only when none is at work, and lists the rows as they are. *)
LEMMA ListingSerial ==
  ASSUME ~ Overlap, IInv, SerialInv, NEW s \in Holders, List(s)
  PROVE  SerialInv'
<1> DEFINE due == Oldest({k \in Keys : Due(k)}, Limit)
           seen == [k \in Keys |-> IF k \in due THEN row[k].attempts ELSE 0]
           next == [Idle EXCEPT !.pc = "claim", !.due = due, !.seen = seen]
<1>1. MoveTo(s, next) /\ UNCHANGED <<row, producer, calls>> /\ \A t \in Holders : sweep[t].pc = "idle"
  BY DEF List, At
<1>2. due \subseteq Keys /\ \A k \in due : row[k].status \in Open
  BY DEF Oldest, Due, Open
<1>3. \A k \in due : seen[k] = row[k].attempts
  BY <1>2
<1> HIDE DEF due, seen
<1>4. next.pc = "claim" /\ next.due = due /\ next.seen = seen
  BY DEF Idle
<1> HIDE DEF next
<1>5. Listed(next, row, calls)
  BY <1>2, <1>3, <1>4 DEF Listed
<1>6. sweep \in [Holders -> SweepStates] /\ sweep' = [sweep EXCEPT ![s] = next]
  BY <1>1 DEF IInv, SweepsOK, MoveTo
<1>7. QED
  BY <1>1, <1>5, <1>6 DEF SerialInv, OneSweep, NotYetQueued, CallsCounted

(* The steps of the sweep at work that write no row.                         *)
LEMMA MovingSerial ==
  ASSUME IInv, SerialInv, NEW s \in Holders,
         \/ Granted(s) \/ Denied(s) \/ ClaimThrows(s) \/ AttachmentsFail(s) \/ Send(s) \/ Die(s)
         \/ Fence(s, "fence", "mark") \/ Fence(s, "catch", "fail")
  PROVE  SerialInv'
<1> DEFINE k == Current(s)
           seen == sweep[s].seen[k]
<1>1. sweep[s].pc # "idle" /\ row' = row /\ producer' = producer /\ SweepsOK
  BY DEF IInv, Granted, Denied, ClaimThrows, AttachmentsFail, Send, Die, Fence, At
<1>2. /\ k \in Keys /\ k \in sweep[s].due /\ k = RowOf(sweep[s])
      /\ Listed(sweep[s], row, calls) /\ row \in [Keys -> Rows] /\ calls \in [Keys -> Nat]
      /\ row[k].attempts \in Nat /\ row[k].status \in Statuses
      /\ calls[k] <= row[k].attempts /\ calls[k] \in Nat /\ seen \in Nat
  BY <1>1, SerialValues
<1>3. ASSUME NEW next, MoveTo(s, next), calls' = calls, Listed(next, row, calls)
      PROVE  SerialInv'
  BY <1>1, <1>2, <1>3, SerialMove DEF MoveTo
<1>4. \A cs : Listed(Done(s), row, cs) /\ Listed(Idle, row, cs)
  BY <1>1, DoneListed
<1>5. ASSUME NEW r, NEW cs, r.due = sweep[s].due, r.seen = sweep[s].seen, RowOf(r) = k,
             \/ r.pc = "catch" /\ row[k].attempts <= seen + 1
                /\ (row[k].status \in Open \/ row[k].holder = NoHolder)
             \/ r.pc = "fail" /\ row[k].attempts <= seen + 1 /\ row[k].status \in Open
             \/ r.pc \in {"fence", "mark"} /\ row[k].attempts = seen + 1 /\ row[k].status \in Open
      PROVE  Listed(r, row, cs)
  BY <1>2, <1>5 DEF Listed
<1>6. CASE Granted(s)
  <2>1. PICK stage \in {"reap", "record"} : MoveTo(s, Goto(s, stage)) /\ sweep[s].pc = "claim" /\ calls' = calls
    BY <1>6 DEF Granted, At
  <2>a. stage \in Stages
    BY DEF Stages
  <2>2. /\ Goto(s, stage).pc = stage /\ RowOf(Goto(s, stage)) = k
        /\ Goto(s, stage).due = sweep[s].due /\ Goto(s, stage).seen = sweep[s].seen
    BY <1>1, <2>a, SameRow
  <2>3. Listed(Goto(s, stage), row, calls)
    BY <1>2, <2>1, <2>2 DEF Listed
  <2>4. QED
    BY <1>3, <2>1, <2>3
<1>7. CASE Denied(s) \/ ClaimThrows(s) \/ Die(s)
  BY <1>3, <1>4, <1>7 DEF Denied, ClaimThrows, Die
<1>8. ASSUME NEW p \in BOOLEAN
      PROVE  Thrown(s, p).pc = "catch" /\ RowOf(Thrown(s, p)) = k
             /\ Thrown(s, p).due = sweep[s].due /\ Thrown(s, p).seen = sweep[s].seen
  BY <1>1, SameRow
<1>9. CASE AttachmentsFail(s)
  <2>1. PICK p \in BOOLEAN : MoveTo(s, Thrown(s, p)) /\ sweep[s].pc = "send" /\ calls' = calls
    BY <1>9 DEF AttachmentsFail, At
  <2>2. row[k].attempts = seen + 1 /\ row[k].status \in Open
    BY <1>2, <2>1 DEF Listed
  <2>a. row[k].attempts <= seen + 1
    BY <1>2, <2>2
  <2>3. Listed(Thrown(s, p), row, calls)
    BY <1>5, <1>8, <2>2, <2>a
  <2>4. QED
    BY <1>3, <2>1, <2>3
<1>10. CASE Send(s)
  <2>1. sweep[s].pc = "send" /\ calls' = [calls EXCEPT ![k] = @ + 1]
        /\ (MoveTo(s, Goto(s, "fence")) \/ \E p \in BOOLEAN : MoveTo(s, Thrown(s, p)))
    BY <1>10 DEF Send, At
  <2>2. row[k].attempts = seen + 1 /\ row[k].status \in Open /\ calls[k] <= seen
    BY <1>2, <2>1 DEF Listed
  <2>a. row[k].attempts <= seen + 1
    BY <1>2, <2>2
  <2>3. /\ Goto(s, "fence").pc = "fence" /\ RowOf(Goto(s, "fence")) = k
        /\ Goto(s, "fence").due = sweep[s].due /\ Goto(s, "fence").seen = sweep[s].seen
    BY <1>1, SameRow DEF Stages
  <2>4. Listed(Goto(s, "fence"), row, calls')
    BY <1>5, <2>2, <2>3
  <2>5. \A p \in BOOLEAN : Listed(Thrown(s, p), row, calls')
    BY <1>5, <1>8, <2>2, <2>a
  <2>6. PICK next : sweep' = [sweep EXCEPT ![s] = next] /\ Listed(next, row, calls')
    BY <2>1, <2>4, <2>5 DEF MoveTo
  <2>7. calls'[k] = calls[k] + 1 /\ \A j \in Keys \ {k} : calls'[j] = calls[j]
    BY <1>2, <2>1
  <2>8. calls'[k] <= row'[k].attempts
    BY <1>1, <1>2, <2>2, <2>7
  <2> HIDE DEF seen
  <2>9. QED
    BY <1>1, <2>6, <2>7, <2>8, SerialMove
<1>11. CASE Fence(s, "fence", "mark")
  <2> DEFINE r == [Goto(s, "mark") EXCEPT !.overtaken = FALSE]
  <2>1. sweep[s].pc = "fence" /\ calls' = calls /\ (MoveTo(s, r) \/ MoveTo(s, Done(s)))
    BY <1>11 DEF Fence, At
  <2>2. row[k].attempts = seen + 1 /\ row[k].status \in Open
    BY <1>2, <2>1 DEF Listed
  <2>3. r.pc = "mark" /\ RowOf(r) = k /\ r.due = sweep[s].due /\ r.seen = sweep[s].seen
    BY <1>1, SameRow DEF Stages
  <2> HIDE DEF r
  <2>4. Listed(r, row, calls)
    BY <1>5, <2>2, <2>3
  <2>5. QED
    BY <1>3, <1>4, <2>1, <2>4
<1>12. CASE Fence(s, "catch", "fail")
  <2> DEFINE r == [Goto(s, "fail") EXCEPT !.overtaken = FALSE]
  <2>1. sweep[s].pc = "catch" /\ calls' = calls /\ ((row[k].holder = s /\ MoveTo(s, r)) \/ MoveTo(s, Done(s)))
    BY <1>12 DEF Fence, At, StillHolds
  <2>2. row[k].attempts <= seen + 1 /\ (row[k].status \in Open \/ row[k].holder = NoHolder)
    BY <1>2, <2>1 DEF Listed
  <2>3. r.pc = "fail" /\ RowOf(r) = k /\ r.due = sweep[s].due /\ r.seen = sweep[s].seen
    BY <1>1, SameRow DEF Stages
  <2> HIDE DEF r
  <2>4. row[k].holder = s => Listed(r, row, calls)
    BY <1>5, <2>2, <2>3, NoHolderAssumption
  <2>5. QED
    BY <1>3, <1>4, <2>1, <2>4
<1>13. QED
  BY <1>6, <1>7, <1>9, <1>10, <1>11, <1>12

(* The one producer queues rows that are not there: none a sweep has listed. *)
LEMMA ProducingSerial ==
  ASSUME \A p, q \in Producers : p = q, IInv, SerialInv, NEW p \in Producers, ReadKeys(p) \/ Upsert(p)
  PROVE  SerialInv'
<1>a. /\ row \in [Keys -> Rows] /\ sweep \in [Holders -> SweepStates] /\ SweepsOK
      /\ producer \in [Producers -> SUBSET Keys] /\ calls \in [Keys -> Nat]
  BY DEF IInv, TypeOK, SweepsOK
<1>1. CASE ReadKeys(p)
  <2>1. PICK keys \in SUBSET Keys : producer' = [producer EXCEPT ![p] = Missing(keys)]
    BY <1>1 DEF ReadKeys
  <2>2. UNCHANGED <<row, sweep, calls>>
    BY <1>1 DEF ReadKeys
  <2>3. \A k \in Missing(keys) : row[k] = Absent
    BY DEF Missing
  <2>4. NotYetQueued'
    BY <1>a, <2>1, <2>2, <2>3 DEF SerialInv, NotYetQueued
  <2>5. QED
    BY <2>2, <2>4 DEF SerialInv, OneSweep, CallsCounted
<1>2. CASE Upsert(p)
  <2>1. PICK landed \in SUBSET producer[p] :
          /\ row' = [k \in Keys |-> IF k \in landed THEN Queued(row[k]) ELSE row[k]]
          /\ sweep' = Overtaken(landed, NoHolder)
    BY <1>2 DEF Upsert
  <2>2. calls' = calls /\ producer' = [producer EXCEPT ![p] = {}]
    BY <1>2 DEF Upsert
  <2>3. \A k \in landed : k \in Keys /\ row[k] = Absent
    BY <1>a DEF SerialInv, NotYetQueued
  <2>4. NotYetQueued'
    <3>1. \A q \in Producers : producer'[q] = {}
      BY <1>a, <2>2
    <3>2. QED
      BY <3>1 DEF NotYetQueued
  <2>5. CallsCounted'
    <3>1. \A k \in landed : calls[k] <= 0
      BY <2>3 DEF SerialInv, CallsCounted, Absent
    <3>2. \A k \in Keys : row'[k].attempts = IF k \in landed THEN 0 ELSE row[k].attempts
      BY <2>1 DEF Queued
    <3>3. QED
      BY <2>2, <3>1, <3>2 DEF SerialInv, CallsCounted
  <2>6. \A s \in Holders : \A k \in sweep[s].due : k \notin landed
    <3>1. \A s \in Holders : sweep[s].pc = "idle" => sweep[s].due = {}
      BY DEF SerialInv, Listed
    <3>2. QED
      BY <2>3, <3>1, ListedRows
  <2>7. sweep' = sweep
    <3>1. \A s \in Holders : sweep[s].pc # "idle" => Current(s) \in sweep[s].due
      BY SerialValues
    <3>2. \A s \in Holders : Overtaken(landed, NoHolder)[s] = sweep[s]
      BY <2>6, <3>1 DEF Overtaken
    <3>3. QED
      BY <1>a, <2>1, <3>2 DEF Overtaken
  <2>8. ASSUME NEW s \in Holders PROVE Listed(sweep[s], row', calls)
    <3>1. \A k \in sweep[s].due : row'[k] = row[k]
      BY <1>a, <2>1, <2>6 DEF SweepStates
    <3>2. sweep[s].pc # "idle" => row'[RowOf(sweep[s])] = row[RowOf(sweep[s])]
      BY <3>1, SerialValues
    <3>3. Listed(sweep[s], row, calls)
      BY DEF SerialInv
    <3>4. QED
      BY <3>1, <3>2, <3>3 DEF Listed
  <2>9. QED
    BY <2>2, <2>4, <2>5, <2>7, <2>8 DEF SerialInv, OneSweep
<1>3. QED
  BY <1>1, <1>2

(* Time changes no attempt, status or holder of a row, and no listing.       *)
LEMMA TickSerial ==
  ASSUME IInv, SerialInv, Tick
  PROVE  SerialInv'
<1>a. row \in [Keys -> Rows] /\ sweep \in [Holders -> SweepStates] /\ SweepsOK
      /\ producer \in [Producers -> SUBSET Keys]
  BY DEF IInv, TypeOK, SweepsOK
<1>1. \A k \in Keys : /\ row'[k].status = row[k].status /\ row'[k].attempts = row[k].attempts
                      /\ row'[k].holder = row[k].holder
  <2> SUFFICES ASSUME NEW k \in Keys
               PROVE  /\ row'[k].status = row[k].status /\ row'[k].attempts = row[k].attempts
                      /\ row'[k].holder = row[k].holder
    OBVIOUS
  <2>1. row'[k] = [row[k] EXCEPT !.left = Less(row[k].left)]
    BY DEF Tick
  <2>2. row[k] \in Rows
    BY <1>a
  <2>3. QED
    BY <2>1, <2>2, AgedRow
<1>2. \A k \in Keys : row[k] = Absent => row'[k] = Absent
  BY DEF Tick, Absent, Less
<1>3. calls' = calls /\ producer' = producer
  BY DEF Tick
<1>4. ASSUME NEW s \in Holders
      PROVE  /\ sweep'[s].pc = sweep[s].pc /\ sweep'[s].due = sweep[s].due
             /\ sweep'[s].seen = sweep[s].seen /\ Listed(sweep'[s], row', calls)
  <2>1. sweep[s] \in SweepStates /\ Listed(sweep[s], row, calls)
    BY <1>a DEF SerialInv
  <2>2. sweep'[s].pc = sweep[s].pc /\ sweep'[s].due = sweep[s].due /\ sweep'[s].seen = sweep[s].seen
    BY <2>1 DEF Tick, SweepStates
  <2>3. RowOf(sweep'[s]) = RowOf(sweep[s])
    BY <2>2 DEF RowOf
  <2>4. sweep[s].due \subseteq Keys /\ (sweep[s].pc # "idle" => RowOf(sweep[s]) \in Keys)
    BY <2>1, SerialValues DEF SweepStates
  <2>5. Listed(sweep'[s], row', calls)
    BY <1>1, <2>1, <2>2, <2>3, <2>4 DEF Listed
  <2>6. QED
    BY <2>2, <2>5
<1>5. OneSweep' /\ NotYetQueued' /\ CallsCounted'
  BY <1>a, <1>1, <1>2, <1>3, <1>4 DEF SerialInv, OneSweep, NotYetQueued, CallsCounted
<1>6. QED
  BY <1>3, <1>4, <1>5 DEF SerialInv

(* Sweeps that do not overlap and one producer: the rows are as listed.      *)
LEMMA SerialInvHolds ==
  ASSUME ~ Overlap, \A p, q \in Producers : p = q
  PROVE  Spec => []SerialInv
<1>1. Init => SerialInv
  BY DEF Init, SerialInv, OneSweep, NotYetQueued, CallsCounted, Listed, Idle, Absent
<1>2. IInv /\ SerialInv /\ [Next]_vars => SerialInv'
  <2> SUFFICES ASSUME IInv, SerialInv, [Next]_vars PROVE SerialInv'
    OBVIOUS
  <2>1. CASE UNCHANGED vars
    BY <2>1 DEF vars, SerialInv, OneSweep, NotYetQueued, CallsCounted
  <2>2. ASSUME NEW p \in Producers, ReadKeys(p) \/ Upsert(p) PROVE SerialInv'
    BY <2>2, ProducingSerial
  <2>3. ASSUME NEW s \in Holders, List(s) PROVE SerialInv'
    BY <2>3, ListingSerial
  <2>4. QED
    BY <2>1, <2>2, <2>3, WritingSerial, MovingSerial, TickSerial DEF Next
<1>3. QED
  BY <1>1, <1>2, OutboxInvariance, PTL DEF Spec

(***************************************************************************)
(* Every call of the provider was counted on the row before it was made    *)
(* (outbox.ts records the attempt, then sends), so the cap on attempts is  *)
(* a cap on calls: for sweeps that do not overlap and one producer at a    *)
(* time, whatever fails or dies in between.                                *)
(***************************************************************************)
THEOREM OutboxCallsCounted ==
  ASSUME ~ Overlap, \A p, q \in Producers : p = q
  PROVE  Spec => []CallsCounted
<1>1. SerialInv => CallsCounted
  BY DEF SerialInv
<1>2. QED
  BY <1>1, SerialInvHolds, PTL

-----------------------------------------------------------------------------
(* What an organizer sees of a row in a given status.                        *)
Shown(status) ==
    IF status = "absent" THEN "none" ELSE IF status \in {"sent", "dead"} THEN status ELSE "underway"

(* The outcome of a row goes by its status.                                  *)
LEMMA OutcomeByStatus ==
  ASSUME NEW k \in Keys
  PROVE  /\ row[k] \in Rows => OutcomeOf(k) = Shown(row[k].status)
         /\ row'[k] \in Rows => OutcomeOf(k)' = Shown(row'[k].status)
<1>1. Absent.status = "absent" /\ \A r \in Rows : r # Absent => r.status \in Statuses
  BY DEF Rows, Absent
<1>2. \A r \in Rows : r = Absent <=> r.status = "absent"
  BY <1>1 DEF Statuses
<1>3. QED
  BY <1>2 DEF OutcomeOf, Shown

(* What a step of sweeps and a producer who do not meet does to the rows.    *)
LEMMA MessageStep ==
  ASSUME ~ Overlap, IInv, IInv', SerialInv, [Next]_vars
  PROVE  \/ \E ms \in SUBSET Keys :
              /\ accepted' = accepted
              /\ \A m \in ms : OutcomeOf(m) = "none"
              /\ \A k \in Keys : OutcomeOf(k)' = IF k \in ms THEN "underway" ELSE OutcomeOf(k)
         \/ \E m \in Keys :
              /\ OutcomeOf(m) = "underway" /\ accepted' = accepted \cup {m}
              /\ \A k \in Keys : OutcomeOf(k)' = OutcomeOf(k)
         \/ \E m \in Keys :
              /\ OutcomeOf(m) = "underway" /\ accepted' = accepted
              /\ \/ OutcomeOf(m)' = "sent" /\ m \in accepted
                 \/ OutcomeOf(m)' = "dead"
              /\ \A k \in Keys \ {m} : OutcomeOf(k)' = OutcomeOf(k)
<1>a. row \in [Keys -> Rows] /\ row' \in [Keys -> Rows]
  BY DEF IInv, TypeOK
<1>b. \A k \in Keys : OutcomeOf(k) = Shown(row[k].status) /\ OutcomeOf(k)' = Shown(row'[k].status)
  BY <1>a, OutcomeByStatus
<1>c. \A status \in Open : Shown(status) = "underway"
  BY DEF Shown, Open
<1>1. ASSUME accepted' = accepted, \A k \in Keys : Shown(row'[k].status) = Shown(row[k].status)
      PROVE  \E ms \in SUBSET Keys :
              /\ accepted' = accepted
              /\ \A m \in ms : OutcomeOf(m) = "none"
              /\ \A k \in Keys : OutcomeOf(k)' = IF k \in ms THEN "underway" ELSE OutcomeOf(k)
  <2>1. /\ \A m \in {} : OutcomeOf(m) = "none"
        /\ \A k \in Keys : OutcomeOf(k)' = IF k \in {} THEN "underway" ELSE OutcomeOf(k)
    BY <1>b, <1>1
  <2>2. {} \in SUBSET Keys
    OBVIOUS
  <2>3. QED
    BY <1>1, <2>1, <2>2
<1>2. CASE UNCHANGED row /\ UNCHANGED accepted
  BY <1>1, <1>2
<1>3. CASE Tick
  <2>1. ASSUME NEW k \in Keys PROVE row'[k].status = row[k].status
    <3>1. row'[k] = [row[k] EXCEPT !.left = Less(row[k].left)]
      BY <1>3 DEF Tick
    <3>2. row[k] \in Rows
      BY <1>a
    <3>3. QED
      BY <3>1, <3>2, AgedRow
  <2>2. accepted' = accepted
    BY <1>3 DEF Tick
  <2>3. QED
    BY <1>1, <2>1, <2>2
<1>4. ASSUME NEW p \in Producers, Upsert(p)
      PROVE  \E ms \in SUBSET Keys :
              /\ accepted' = accepted
              /\ \A m \in ms : OutcomeOf(m) = "none"
              /\ \A k \in Keys : OutcomeOf(k)' = IF k \in ms THEN "underway" ELSE OutcomeOf(k)
  <2>1. PICK landed \in SUBSET producer[p] :
          row' = [k \in Keys |-> IF k \in landed THEN Queued(row[k]) ELSE row[k]]
    BY <1>4 DEF Upsert
  <2>2. landed \in SUBSET Keys /\ \A k \in landed : row[k] = Absent
    BY DEF IInv, TypeOK, SerialInv, NotYetQueued
  <2>3. \A k \in landed : OutcomeOf(k) = "none"
    BY <1>b, <2>2 DEF Shown, Absent
  <2>4. \A k \in Keys : row'[k].status = IF k \in landed THEN "queued" ELSE row[k].status
    BY <2>1 DEF Queued
  <2>5. \A k \in Keys : OutcomeOf(k)' = IF k \in landed THEN "underway" ELSE OutcomeOf(k)
    BY <1>b, <1>c, <2>4 DEF Open
  <2>6. accepted' = accepted
    BY <1>4 DEF Upsert
  <2>7. QED
    BY <2>2, <2>3, <2>5, <2>6
<1>5. ASSUME NEW s \in Holders, Reap(s) \/ Record(s) \/ MarkSent(s) \/ MarkFailed(s)
      PROVE  /\ accepted' = accepted /\ Current(s) \in Keys /\ row[Current(s)].status \in Open
             /\ row' = row \/ \E new : row' = [row EXCEPT ![Current(s)] = new] /\
                  (new.status \in Open \cup {"dead"} \/ (new.status = "sent" /\ Current(s) \in accepted))
  <2>1. sweep[s].pc \in {"reap", "record", "mark", "fail"} /\ accepted' = accepted
    BY <1>5 DEF Reap, Record, MarkSent, MarkFailed, At
  <2>2. Current(s) \in Keys /\ row[Current(s)].status \in Open
    BY <2>1, SerialValues DEF Listed
  <2>3. sweep[s].pc = "mark" => Current(s) \in accepted
    BY BusyValues DEF IInv
  <2>4. PICK new, next, thrown : Write(s, new, next, thrown) /\
          (new.status \in Open \cup {"dead"} \/ (new.status = "sent" /\ Current(s) \in accepted))
    <3>1. CASE Reap(s)
      BY <3>1 DEF Reap, Outcome
    <3>2. CASE Record(s)
      BY <3>2 DEF Record, Open
    <3>3. CASE MarkSent(s)
      BY <2>3, <3>3 DEF MarkSent, Outcome, At
    <3>4. CASE MarkFailed(s)
      <4> DEFINE dead == Attempt(s) >= MaxAttempts \/ sweep[s].permanent
                 new == Outcome(IF dead THEN "dead" ELSE "failed", Attempt(s))
      <4>1. Write(s, new, Done(s), {Idle})
        BY <3>4 DEF MarkFailed
      <4>2. new.status \in {"dead", "failed"}
        BY DEF Outcome
      <4> HIDE DEF new
      <4>3. QED
        BY <4>1, <4>2 DEF Open
    <3>5. QED
      BY <1>5, <3>1, <3>2, <3>3, <3>4
  <2>5. row' = row \/ row' = [row EXCEPT ![Current(s)] = new]
    BY <2>4 DEF Write
  <2>6. QED
    BY <2>1, <2>2, <2>4, <2>5
<1>6. ASSUME NEW s \in Holders, Reap(s) \/ Record(s) \/ MarkSent(s) \/ MarkFailed(s), row' # row
      PROVE  \/ accepted' = accepted /\ \A k \in Keys : Shown(row'[k].status) = Shown(row[k].status)
             \/ \E m \in Keys :
                  /\ OutcomeOf(m) = "underway" /\ accepted' = accepted
                  /\ \/ OutcomeOf(m)' = "sent" /\ m \in accepted
                     \/ OutcomeOf(m)' = "dead"
                  /\ \A k \in Keys \ {m} : OutcomeOf(k)' = OutcomeOf(k)
  <2>1. PICK m \in Keys : m = Current(s)
    BY <1>5, <1>6
  <2>2. accepted' = accepted /\ row[m].status \in Open
    BY <1>5, <1>6, <2>1
  <2>3. PICK new : row' = [row EXCEPT ![m] = new] /\
                  (new.status \in Open \cup {"dead"} \/ (new.status = "sent" /\ m \in accepted))
    BY <1>5, <1>6, <2>1
  <2>4. row'[m] = new /\ \A k \in Keys \ {m} : row'[k] = row[k]
    BY <1>a, <2>3
  <2>5. OutcomeOf(m) = "underway"
    BY <1>b, <1>c, <2>2
  <2>6. CASE new.status \in Open
    BY <1>c, <2>2, <2>4, <2>6
  <2>7. CASE new.status \in {"sent", "dead"}
    <3>1. OutcomeOf(m)' = new.status
      BY <1>b, <2>4, <2>7 DEF Shown
    <3>2. new.status = "sent" => m \in accepted
      BY <2>3 DEF Open
    <3>3. \A k \in Keys \ {m} : OutcomeOf(k)' = OutcomeOf(k)
      BY <1>b, <2>4
    <3>4. QED
      BY <2>2, <2>5, <2>7, <3>1, <3>2, <3>3
  <2>8. QED
    BY <2>3, <2>6, <2>7
<1>7. ASSUME NEW s \in Holders, Send(s), accepted' # accepted
      PROVE  /\ Current(s) \in Keys /\ OutcomeOf(Current(s)) = "underway"
             /\ accepted' = accepted \cup {Current(s)}
             /\ \A k \in Keys : OutcomeOf(k)' = OutcomeOf(k)
  <2>1. sweep[s].pc = "send" /\ accepted' = accepted \cup {Current(s)} /\ row' = row
    BY <1>7 DEF Send, At
  <2>2. Current(s) \in Keys /\ row[Current(s)].status \in Open
    BY <2>1, SerialValues DEF Listed
  <2>3. QED
    BY <1>b, <1>c, <2>1, <2>2
<1>8. ASSUME NEW s \in Holders, Reap(s) \/ Record(s) \/ MarkSent(s) \/ MarkFailed(s), row' = row
      PROVE  UNCHANGED row /\ UNCHANGED accepted
  BY <1>5, <1>8
<1>9. CASE \E s \in Holders : Reap(s) \/ Record(s) \/ MarkSent(s) \/ MarkFailed(s)
  <2>1. PICK s \in Holders : Reap(s) \/ Record(s) \/ MarkSent(s) \/ MarkFailed(s)
    BY <1>9
  <2>2. CASE row' = row
    BY <1>2, <1>8, <2>1, <2>2
  <2>3. CASE row' # row
    BY <1>1, <1>6, <2>1, <2>3
  <2>4. QED
    BY <2>2, <2>3
<1>10. CASE \E s \in Holders : Send(s)
  <2>1. PICK s \in Holders : Send(s)
    BY <1>10
  <2>2. CASE accepted' = accepted
    BY <1>2, <2>1, <2>2 DEF Send
  <2>3. CASE accepted' # accepted
    BY <1>7, <2>1, <2>3
  <2>4. QED
    BY <2>2, <2>3
<1>11. QED
  BY <1>2, <1>3, <1>4, <1>9, <1>10 DEF Next, vars, ReadKeys, List, Granted, Denied, ClaimThrows,
     AttachmentsFail, Fence, Die

(***************************************************************************)
(* A row is the message an organizer expects it to be: once queued it is   *)
(* on its way until it is sent, which only happens to one the provider     *)
(* has, or given up, and neither is ever taken back.  For sweeps that do   *)
(* not overlap and one producer at a time; the runs show either to be      *)
(* needed.                                                                 *)
(***************************************************************************)
THEOREM OutboxImplementsMessage ==
  ASSUME ~ Overlap, \A p, q \in Producers : p = q
  PROVE  Spec => ImplementsMessage
<1>1. Init => M!Init
  <2> SUFFICES ASSUME Init PROVE M!Init
    OBVIOUS
  <2>1. \A k \in Keys : row[k] = Absent
    BY DEF Init
  <2>2. \A k \in Keys : OutcomeOf(k) = "none"
    BY <2>1, OutcomeByStatus DEF Rows, Shown, Absent
  <2>3. QED
    BY <2>2 DEF Init, M!Init
<1>2. IInv /\ IInv' /\ SerialInv /\ [Next]_vars => [M!Next]_(<<[k \in Keys |-> OutcomeOf(k)], accepted>>)
  <2> SUFFICES ASSUME IInv, IInv', SerialInv, [Next]_vars
               PROVE  M!Next
    OBVIOUS
  <2>1. ASSUME NEW ms \in SUBSET Keys, accepted' = accepted,
               \A m \in ms : OutcomeOf(m) = "none",
               \A k \in Keys : OutcomeOf(k)' = IF k \in ms THEN "underway" ELSE OutcomeOf(k)
        PROVE  M!Queue(ms)
    BY <2>1 DEF M!Queue
  <2>2. ASSUME NEW m \in Keys, OutcomeOf(m) = "underway", accepted' = accepted \cup {m},
               \A k \in Keys : OutcomeOf(k)' = OutcomeOf(k)
        PROVE  M!Deliver(m)
    BY <2>2 DEF M!Deliver
  <2>3. ASSUME NEW m \in Keys, OutcomeOf(m) = "underway", accepted' = accepted,
               \/ OutcomeOf(m)' = "sent" /\ m \in accepted
               \/ OutcomeOf(m)' = "dead",
               \A k \in Keys \ {m} : OutcomeOf(k)' = OutcomeOf(k)
        PROVE  M!Sent(m) \/ \E ms \in SUBSET Keys : M!GiveUp(ms)
    <3>1. CASE OutcomeOf(m)' = "sent" /\ m \in accepted
      BY <2>3, <3>1 DEF M!Sent
    <3>2. CASE OutcomeOf(m)' = "dead"
      <4>1. M!GiveUp({m}) /\ {m} \in SUBSET Keys
        BY <2>3, <3>2 DEF M!GiveUp
      <4>2. QED
        BY <4>1
    <3>3. QED
      BY <2>3, <3>1, <3>2
  <2>4. QED
    BY <2>1, <2>2, <2>3, MessageStep DEF M!Next
<1>3. QED
  BY <1>1, <1>2, OutboxInvariance, SerialInvHolds, PTL DEF Spec, ImplementsMessage, M!Spec
=============================================================================
