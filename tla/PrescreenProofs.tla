-------------------------- MODULE PrescreenProofs --------------------------
(***************************************************************************)
(* What the AI pre-screen guarantees for any number of submissions, drains *)
(* and presses, any attempt cap, batch and lease, proved by TLAPS.         *)
(*                                                                         *)
(* The argument has layers.  Each is an invariant of its own, carried      *)
(* through a step with the help of those below it:                         *)
(*   TypeInv     the variables' types, which need no timing at all;        *)
(*   DrainsHold  a drain at work holds its submission (no slow drains);    *)
(*   NewRows     one press at a time, hence one row each, but for creates  *)
(*               sent again after they had landed (presses apart);         *)
(*   LabelInv    labels tell the truth (both);                             *)
(*   Pending, CallsInv  one scoring per queueing, and the cap on calls     *)
(*               (presses apart, drains that do not overlap).              *)
(***************************************************************************)
EXTENDS Prescreen, TLAPS, WellFoundedInduction, FiniteSetTheorems, SequenceTheorems

-----------------------------------------------------------------------------
(* Least elements, and the guard's verdicts.                                 *)

LessThan == {p \in Nat \X Nat : p[1] < p[2]}

(* Every non-empty set of natural numbers has a least element.               *)
LEMMA LeastNatural ==
  ASSUME NEW S, S \subseteq Nat, S # {}
  PROVE  \E k \in S : \A j \in S : k <= j
<1>1. IsWellFoundedOn(LessThan, Nat)
  BY NatLessThanWellFounded, Zenon DEF OpToRel, LessThan
<1>2. \E k \in S : \A j \in S : ~ (<<j, k>> \in LessThan)
  BY <1>1, WFMin, Zenon
<1>3. \A j, k \in Nat : <<j, k>> \in LessThan <=> j < k
  BY DEF LessThan
<1>4. \A j, k \in Nat : ~ (j < k) => k <= j
  OBVIOUS
<1>5. QED
  BY <1>2, <1>3, <1>4

\* Inside a lease.
HeldBy(c, h) == Live(c) /\ c.holder = h

(* What the guard stores stays a claim.                                      *)
LEMMA ClaimTypes ==
  ASSUME NEW c \in Claims, NEW h \in Holders, NEW ttl \in Nat
  PROVE  AfterClaim(c, h, ttl) \in Claims /\ AfterRelease(c, h) \in Claims /\ Aged(c) \in Claims
  BY DEF AfterClaim, AfterRelease, Releases, Aged, Less, Claims, NoClaim, Live

(* A granted claim is held by who asked; nobody else's request, claim or     *)
(* release, touches a lease that runs.                                       *)
LEMMA LeaseStays ==
  ASSUME NEW c \in Claims, NEW h \in Holders, NEW g \in Holders, NEW ttl \in Nat \ {0}
  PROVE  /\ Grants(c, h) => HeldBy(AfterClaim(c, h, ttl), h)
         /\ HeldBy(c, g) => HeldBy(AfterClaim(c, h, ttl), g)
         /\ HeldBy(c, g) /\ h # g => AfterRelease(c, h) = c
         /\ HeldBy(c, g) /\ c.left # 1 => HeldBy(Aged(c), g)
         /\ HeldBy(c, g) /\ Grants(c, h) => h = g
  BY DEF AfterClaim, AfterRelease, Releases, Aged, Less, Claims, NoClaim, Live, HeldBy, Grants

-----------------------------------------------------------------------------
Seens == UNION {[R -> 0 .. MaxAttempts - 1] : R \in SUBSET (Nat \ {0})}
DrainStates == [pc : {"idle", "claim", "release"} \cup Working, seen : Seens, mocked : BOOLEAN]
PressStates == [pc : {"idle", "read", "create", "lost", "reset", "release"},
                create : SUBSET Submissions, reset : SUBSET (Nat \ {0})]

DrainTypes ==
    /\ drain \in [Drains -> DrainStates]
    /\ \A d \in Drains : /\ DOMAIN drain[d].seen \subseteq DOMAIN job
                         /\ drain[d].pc # "idle" => DOMAIN drain[d].seen # {}
PressTypes ==
    /\ press \in [Presses -> PressStates]
    /\ \A p \in Presses : press[p].create \subseteq assigned /\ press[p].reset \subseteq DOMAIN job
RestTypes ==
    /\ review \in [Submissions -> {"none", "sample", "live"}]
    /\ assigned \subseteq Submissions
    /\ sample \in BOOLEAN
    /\ claim \in [Submissions -> Claims] /\ round \in Claims
    /\ calls \in [Submissions -> 0 .. CallsBound]
    /\ settled \subseteq Submissions /\ resent \subseteq Submissions

TypeInv == job \in Seq(Jobs) /\ RestTypes /\ DrainTypes /\ PressTypes

-----------------------------------------------------------------------------
(* Rows.                                                                     *)

(* The row a drain in state r is at.                                         *)
RowIn(r) == CHOOSE j \in DOMAIN r.seen : \A i \in DOMAIN r.seen : j <= i

(* Row(d) is the head of what the drain has left of its listing.             *)
LEMMA RowIsRowIn == \A d \in Drains : Row(d) = RowIn(drain[d])
  BY DEF Row, RowIn

(* The domain of what a drain has seen, and the values in it.                *)
LEMMA SeenTypes ==
  ASSUME NEW r \in DrainStates
  PROVE  /\ DOMAIN r.seen \subseteq Nat
         /\ \A j \in DOMAIN r.seen : r.seen[j] \in 0 .. MaxAttempts - 1
         /\ r.seen \in [DOMAIN r.seen -> 0 .. MaxAttempts - 1]
<1>1. r.seen \in Seens
  BY DEF DrainStates
<1>2. PICK R \in SUBSET (Nat \ {0}) : r.seen \in [R -> 0 .. MaxAttempts - 1]
  BY <1>1 DEF Seens
<1>3. QED
  BY <1>2

(* A busy drain is at one of the rows it listed.                             *)
LEMMA RowListed ==
  ASSUME NEW r \in DrainStates, DOMAIN r.seen # {}
  PROVE  RowIn(r) \in DOMAIN r.seen
<1>1. \E j \in DOMAIN r.seen : \A i \in DOMAIN r.seen : j <= i
  BY SeenTypes, LeastNatural
<1>2. QED
  BY <1>1 DEF RowIn

(* The submission of a busy drain's row, and the row as it was listed.       *)
LEMMA BusyDrain ==
  ASSUME TypeInv, NEW d \in Drains, ~ At(d, "idle")
  PROVE  /\ Row(d) \in DOMAIN drain[d].seen /\ Row(d) \in DOMAIN job
         /\ job[Row(d)] \in Jobs /\ Sub(d) \in Submissions
         /\ drain[d].seen[Row(d)] \in 0 .. MaxAttempts - 1
         /\ claim[Sub(d)] \in Claims
<1>1. drain[d] \in DrainStates /\ DOMAIN drain[d].seen # {} /\ DOMAIN drain[d].seen \subseteq DOMAIN job
  BY DEF TypeInv, DrainTypes, At
<1>2. Row(d) \in DOMAIN drain[d].seen
  BY <1>1, RowListed, RowIsRowIn
<1>3. job[Row(d)] \in Jobs
  BY <1>1, <1>2 DEF TypeInv
<1>4. Sub(d) \in Submissions
  BY <1>3 DEF Sub, Jobs
<1>5. QED
  BY <1>1, <1>2, <1>3, <1>4, SeenTypes DEF TypeInv, RestTypes

(* Patching a row leaves the others as they were.                            *)
LEMMA JobPatched ==
  ASSUME job \in Seq(Jobs), NEW j \in DOMAIN job, NEW r \in Jobs, r.submission = job[j].submission,
         job' = [job EXCEPT ![j] = r]
  PROVE  /\ job' \in Seq(Jobs) /\ DOMAIN job' = DOMAIN job
         /\ job'[j] = r /\ \A i \in DOMAIN job : i # j => job'[i] = job[i]
         /\ \A i \in DOMAIN job : job'[i].submission = job[i].submission
<1>1. j \in 1 .. Len(job) /\ DOMAIN job = 1 .. Len(job)
  BY LenProperties
<1>2. job' \in Seq(Jobs)
  BY <1>1, ExceptSeq
<1>3. QED
  BY <1>2

(* A listed set of rows reset, the others left alone.                        *)
LEMMA JobReset ==
  ASSUME job \in Seq(Jobs), NEW landed,
         job' = [j \in DOMAIN job |-> IF j \in landed THEN Queued(job[j].submission) ELSE job[j]]
  PROVE  /\ job' \in Seq(Jobs) /\ DOMAIN job' = DOMAIN job
         /\ \A i \in DOMAIN job : i \notin landed => job'[i] = job[i]
         /\ \A i \in DOMAIN job : i \in landed => job'[i] = Queued(job[i].submission)
         /\ \A i \in DOMAIN job : job'[i].submission = job[i].submission
<1> USE NumbersAssumption
<1>1. Len(job) \in Nat /\ DOMAIN job = 1 .. Len(job) /\ job \in [1 .. Len(job) -> Jobs]
  BY LenProperties
<1>2. \A j \in DOMAIN job : Queued(job[j].submission) \in Jobs
  BY <1>1 DEF Queued, Jobs
<1>3. job' \in [1 .. Len(job) -> Jobs]
  BY <1>1, <1>2
<1>4. job' \in Seq(Jobs)
  BY <1>1, <1>3, SeqDef
<1>5. QED
  BY <1>4 DEF Queued

(* New rows come after the old ones, one for each submission of the batch.   *)
LEMMA JobAppended ==
  ASSUME job \in Seq(Jobs), NEW subs \in SUBSET Submissions, Enqueue(subs)
  PROVE  /\ job' \in Seq(Jobs) /\ DOMAIN job \subseteq DOMAIN job'
         /\ \A j \in DOMAIN job : job'[j] = job[j]
         /\ \A j \in DOMAIN job' \ DOMAIN job : \E s \in subs : job'[j] = Queued(s)
         /\ \A i, j \in DOMAIN job' \ DOMAIN job :
              job'[i].submission = job'[j].submission => i = j
<1> USE NumbersAssumption
<1> DEFINE n == Cardinality(subs)
<1>1. IsFiniteSet(subs)
  BY SubmissionsAssumption, FS_Subset
<1>2. n \in Nat
  BY <1>1, FS_CardinalityType
<1> HIDE DEF n
<1>3. PICK order \in [1 .. n -> subs] :
        /\ \A s \in subs : \E i \in DOMAIN order : order[i] = s
        /\ job' = job \o [i \in DOMAIN order |-> Queued(order[i])]
  BY DEF Enqueue, n
<1>4. \A i, j \in 1 .. n : order[i] = order[j] => i = j
  <2>1. IsFiniteSet(1 .. n) /\ Cardinality(1 .. n) = n
    BY <1>2, FS_Interval
  <2>2. order \in Surjection(1 .. n, subs)
    BY <1>3 DEF Surjection
  <2>3. order \in Injection(1 .. n, subs)
    BY <2>1, <2>2, FS_SurjSameCardinalityImpliesInj DEF n
  <2>4. QED
    BY <2>3 DEF Injection, IsInjective
<1> DEFINE new == [i \in 1 .. n |-> Queued(order[i])]
<1>5. \A s \in Submissions : Queued(s) \in Jobs /\ Queued(s).submission = s
  BY DEF Queued, Jobs
<1>6. new \in [1 .. n -> Jobs]
  BY <1>3, <1>5
<1>7. new \in Seq(Jobs) /\ Len(new) = n
  <2>1. new \in Seq(Jobs)
    BY <1>2, <1>6, SeqDef
  <2>2. Len(new) \in Nat /\ DOMAIN new = 1 .. Len(new)
    BY <2>1, LenProperties
  <2>3. DOMAIN new = 1 .. n
    BY <1>6
  <2>4. \A k \in Nat : Cardinality(1 .. k) = k
    BY FS_Interval
  <2>5. Cardinality(1 .. n) = n /\ Cardinality(1 .. Len(new)) = Len(new) /\ 1 .. n = 1 .. Len(new)
    BY <1>2, <2>2, <2>3, <2>4, Zenon
  <2>6. QED
    BY <2>1, <2>5, Zenon
<1>8. job' = job \o new
  BY <1>3
<1>9. \A i \in 1 .. n : new[i] = Queued(order[i]) /\ new[i].submission = order[i] /\ order[i] \in subs
  BY <1>3, <1>5
<1> HIDE DEF new
<1>10. /\ job' \in Seq(Jobs) /\ Len(job') = Len(job) + n
       /\ \A i \in 1 .. Len(job) + n : job'[i] = IF i <= Len(job) THEN job[i] ELSE new[i - Len(job)]
  BY <1>7, <1>8, ConcatProperties
<1>11. Len(job) \in Nat /\ DOMAIN job = 1 .. Len(job) /\ DOMAIN job' = 1 .. Len(job) + n
  BY <1>10, LenProperties
<1>12. \A j \in DOMAIN job' \ DOMAIN job : j - Len(job) \in 1 .. n /\ job'[j] = new[j - Len(job)]
  BY <1>2, <1>10, <1>11
<1>13. DOMAIN job \subseteq DOMAIN job' /\ \A j \in DOMAIN job : job'[j] = job[j]
  BY <1>2, <1>10, <1>11
<1>14. \A i, j \in DOMAIN job' \ DOMAIN job :
         job'[i].submission = job'[j].submission => i = j
  <2> SUFFICES ASSUME NEW i \in DOMAIN job' \ DOMAIN job, NEW j \in DOMAIN job' \ DOMAIN job,
                      job'[i].submission = job'[j].submission
               PROVE  i = j
    OBVIOUS
  <2>1. i - Len(job) = j - Len(job)
    BY <1>4, <1>9, <1>12
  <2>2. i \in Nat /\ j \in Nat /\ Len(job) \in Nat
    BY <1>2, <1>11
  <2>3. QED
    BY <2>1, <2>2
<1>15. \A j \in DOMAIN job' \ DOMAIN job : \E s \in subs : job'[j] = Queued(s)
  BY <1>9, <1>12
<1>16. QED
  BY <1>10, <1>13, <1>14, <1>15

-----------------------------------------------------------------------------
(* The states of a drain.                                                    *)

(* An idle drain has no row left.                                            *)
LEMMA IdleDrainOK == IdleDrain \in DrainStates /\ IdleDrain.pc = "idle" /\ DOMAIN IdleDrain.seen = {}
<1>1. << >> \in [{} -> 0 .. MaxAttempts - 1]
  OBVIOUS
<1>2. {} \in SUBSET (Nat \ {0}) /\ << >> \in Seens
  BY <1>1 DEF Seens
<1>3. QED
  BY <1>2 DEF IdleDrain, DrainStates

(* Within its row a drain keeps its listing.                                 *)
LEMMA GotoOK ==
  ASSUME TypeInv, NEW d \in Drains, NEW stage \in {"claim", "release"} \cup Working
  PROVE  LET next == [drain[d] EXCEPT !.pc = stage]
         IN  /\ next \in DrainStates /\ next.pc = stage
             /\ next.seen = drain[d].seen /\ next.mocked = drain[d].mocked
<1>1. drain[d] \in DrainStates
  BY DEF TypeInv, DrainTypes
<1>2. QED
  BY <1>1 DEF DrainStates

(* The row a drain is at depends on its listing only.                        *)
LEMMA SameSeen ==
  ASSUME NEW r, NEW q, r.seen = q.seen
  PROVE  RowIn(r) = RowIn(q)
  BY DEF RowIn

(* Where a drain goes after its row: nowhere, or to the next one it listed.  *)
NextRow(d, next) ==
    \/ next = IdleDrain
    \/ /\ next.pc = "claim" /\ next.mocked = drain[d].mocked
       /\ DOMAIN next.seen = DOMAIN drain[d].seen \ {Row(d)} /\ DOMAIN next.seen # {}
       /\ \A j \in DOMAIN next.seen : next.seen[j] = drain[d].seen[j]

(* Onward goes there.                                                        *)
LEMMA OnwardOK ==
  ASSUME TypeInv, NEW d \in Drains, ~ At(d, "idle"), Onward(d)
  PROVE  \E next \in DrainStates : Go(d, next) /\ NextRow(d, next)
<1> DEFINE r == drain[d]
           left == DOMAIN r.seen \ {Row(d)}
           seen == [j \in left |-> r.seen[j]]
<1>1. r \in DrainStates /\ r.seen \in [DOMAIN r.seen -> 0 .. MaxAttempts - 1]
  BY SeenTypes DEF TypeInv, DrainTypes
<1>2. CASE left = {}
  BY <1>2, IdleDrainOK DEF Onward, NextRow
<1>3. CASE left # {}
  <2>1. seen \in [left -> 0 .. MaxAttempts - 1]
    BY <1>1
  <2>2. DOMAIN r.seen \subseteq Nat \ {0}
    <3>1. r.seen \in Seens
      BY <1>1 DEF DrainStates
    <3>2. QED
      BY <3>1 DEF Seens
  <2>3. seen \in Seens
    BY <2>1, <2>2 DEF Seens
  <2> DEFINE next == [r EXCEPT !.pc = "claim", !.seen = seen]
  <2> HIDE DEF seen
  <2>4. next \in DrainStates /\ next.pc = "claim" /\ next.seen = seen /\ next.mocked = r.mocked
    BY <1>1, <2>3 DEF DrainStates
  <2> USE DEF seen
  <2>5. Go(d, next)
    BY <1>3 DEF Onward
  <2> HIDE DEF next
  <2>6. NextRow(d, next)
    BY <1>3, <2>4 DEF NextRow
  <2>7. QED
    BY <2>4, <2>5, <2>6
<1>4. QED
  BY <1>2, <1>3

(* A drain that moves to a state in order, over rows that are all there.     *)
LEMMA GoOK ==
  ASSUME TypeInv, NEW d \in Drains, NEW next \in DrainStates, Go(d, next),
         DOMAIN job \subseteq DOMAIN job', DOMAIN next.seen \subseteq DOMAIN job,
         next.pc # "idle" => DOMAIN next.seen # {}
  PROVE  DrainTypes' /\ drain'[d] = next /\ \A e \in Drains : e # d => drain'[e] = drain[e]
  BY DEF TypeInv, DrainTypes, Go

(* A press that moves to a state in order.                                   *)
LEMMA MoveOK ==
  ASSUME TypeInv, NEW p \in Presses, NEW next \in PressStates, Move(p, next),
         DOMAIN job \subseteq DOMAIN job', UNCHANGED assigned,
         next.create \subseteq assigned, next.reset \subseteq DOMAIN job
  PROVE  PressTypes' /\ press'[p] = next /\ \A q \in Presses : q # p => press'[q] = press[q]
  BY DEF TypeInv, PressTypes, Move

(* What nobody moved stays in order.                                         *)
LEMMA StayOK ==
  ASSUME TypeInv, DOMAIN job \subseteq DOMAIN job'
  PROVE  /\ UNCHANGED drain => DrainTypes'
         /\ UNCHANGED <<press, assigned>> => PressTypes'
  BY DEF TypeInv, DrainTypes, PressTypes

(* The states of a press that has something left to do.                      *)
LEMMA StageOK ==
  ASSUME NEW create \in SUBSET Submissions, NEW reset \in SUBSET (Nat \ {0})
  PROVE  /\ Stage(create, reset) \in PressStates /\ IdlePress \in PressStates
         /\ Stage(create, reset).create = create /\ Stage(create, reset).reset = reset
         /\ Stage(create, reset).pc = "create" => create # {}
         /\ Stage(create, reset).pc \in {"create", "reset", "release"}
         /\ IdlePress.pc = "idle" /\ IdlePress.create = {} /\ IdlePress.reset = {}
  BY DEF Stage, IdlePress, PressStates

-----------------------------------------------------------------------------
(* What the parts of a drain's steps do.                                     *)

\* Drain d is at another stage of the row it was at; the others are where they were.
SameRow(d) ==
    /\ drain'[d].seen = drain[d].seen /\ drain'[d].mocked = drain[d].mocked
    /\ \A e \in Drains : e # d => drain'[e] = drain[e]

\* Drain d is done with its row.
OtherRow(d) ==
    /\ NextRow(d, drain'[d])
    /\ \A e \in Drains : e # d => drain'[e] = drain[e]

\* Only row j is written, and not with another submission.
WritesRow(j) ==
    /\ job' \in Seq(Jobs) /\ DOMAIN job' = DOMAIN job
    /\ \A i \in DOMAIN job : i # j => job'[i] = job[i]
    /\ \A i \in DOMAIN job : job'[i].submission = job[i].submission

(* A call that is not a write of the row.                                    *)
LEMMA GotoStep ==
  ASSUME TypeInv, NEW d \in Drains, ~ At(d, "idle"), NEW stage \in {"claim", "release"} \cup Working,
         Goto(d, stage), UNCHANGED job
  PROVE  DrainTypes' /\ SameRow(d) /\ drain'[d].pc = stage
<1> DEFINE next == [drain[d] EXCEPT !.pc = stage]
<1>1. next \in DrainStates /\ next.pc = stage /\ next.seen = drain[d].seen /\ next.mocked = drain[d].mocked
  BY GotoOK
<1>2. Go(d, next)
  BY DEF Goto
<1>3. DOMAIN drain[d].seen \subseteq DOMAIN job /\ DOMAIN drain[d].seen # {}
  BY DEF TypeInv, DrainTypes, At
<1> HIDE DEF next
<1>4. DrainTypes' /\ drain'[d] = next /\ \A e \in Drains : e # d => drain'[e] = drain[e]
  BY <1>1, <1>2, <1>3, GoOK
<1>5. QED
  BY <1>1, <1>4 DEF SameRow

(* On to the next row.                                                       *)
LEMMA OnwardStep ==
  ASSUME TypeInv, NEW d \in Drains, ~ At(d, "idle"), Onward(d), UNCHANGED job
  PROVE  DrainTypes' /\ OtherRow(d)
<1>1. PICK next \in DrainStates : Go(d, next) /\ NextRow(d, next)
  BY OnwardOK
<1>2. DOMAIN next.seen \subseteq DOMAIN job /\ (next.pc # "idle" => DOMAIN next.seen # {})
  BY <1>1, IdleDrainOK DEF NextRow, TypeInv, DrainTypes
<1>3. DrainTypes' /\ drain'[d] = next /\ \A e \in Drains : e # d => drain'[e] = drain[e]
  BY <1>1, <1>2, GoOK
<1>4. QED
  BY <1>1, <1>3 DEF OtherRow

(* Over.                                                                     *)
LEMMA StopStep ==
  ASSUME TypeInv, NEW d \in Drains, Go(d, IdleDrain), UNCHANGED job
  PROVE  DrainTypes' /\ OtherRow(d)
  BY GoOK, IdleDrainOK DEF OtherRow, NextRow

(* A write of the row, whatever becomes of it.                               *)
LEMMA UpdateStep ==
  ASSUME TypeInv, NEW d \in Drains, ~ At(d, "idle"),
         NEW patched \in Jobs, patched.submission = Sub(d),
         NEW ok \in {"claim", "release"} \cup Working, NEW failed \in {"claim", "release"} \cup Working,
         Update(d, patched, ok, failed)
  PROVE  /\ WritesRow(Row(d)) /\ job'[Row(d)] \in {job[Row(d)], patched}
         /\ DrainTypes' /\ SameRow(d) /\ drain'[d].pc \in {ok, failed}
         /\ drain'[d].pc # failed => job'[Row(d)] = patched
<1> DEFINE j == Row(d)
<1>1. j \in DOMAIN job /\ job \in Seq(Jobs) /\ patched.submission = job[j].submission
  BY BusyDrain DEF TypeInv, Sub
<1>2. PICK stage \in {ok, failed} :
        /\ Goto(d, stage)
        /\ job' = [job EXCEPT ![j] = patched] \/ (job' = job /\ stage = failed)
  BY DEF Update
<1>3. WritesRow(j) /\ job'[j] \in {job[j], patched} /\ (job' # job \/ stage # failed => job'[j] = patched)
  BY <1>1, <1>2, JobPatched DEF WritesRow
<1> DEFINE next == [drain[d] EXCEPT !.pc = stage]
<1>4. next \in DrainStates /\ next.pc = stage /\ next.seen = drain[d].seen /\ next.mocked = drain[d].mocked
  BY GotoOK
<1>5. Go(d, next)
  BY <1>2 DEF Goto
<1>6. DOMAIN drain[d].seen \subseteq DOMAIN job /\ DOMAIN drain[d].seen # {}
  BY DEF TypeInv, DrainTypes, At
<1> HIDE DEF next
<1>7. DrainTypes' /\ drain'[d] = next /\ \A e \in Drains : e # d => drain'[e] = drain[e]
  BY <1>3, <1>4, <1>5, <1>6, GoOK DEF WritesRow
<1>8. QED
  BY <1>2, <1>3, <1>4, <1>7 DEF SameRow

(* A row patched with an outcome.                                            *)
LEMMA Patches ==
  ASSUME NEW r \in Jobs
  PROVE  /\ \A m \in BOOLEAN :
              LET done == [r EXCEPT !.status = "done", !.mocked = m]
              IN  /\ done \in Jobs /\ done.submission = r.submission /\ done.attempts = r.attempts
                  /\ done.status = "done" /\ done.mocked = m
         /\ LET failed == [r EXCEPT !.status = "failed"]
            IN  /\ failed \in Jobs /\ failed.submission = r.submission
                /\ failed.attempts = r.attempts /\ failed.status = "failed"
  BY DEF Jobs

(* What the stamp of a drain's row does.                                     *)
LEMMA StampStep ==
  ASSUME TypeInv, NEW d \in Drains, Stamp(d)
  PROVE  /\ WritesRow(Row(d)) /\ DrainTypes' /\ SameRow(d) /\ drain'[d].pc \in {"score", "release"}
         /\ \/ job'[Row(d)] = job[Row(d)]
            \/ /\ job'[Row(d)].status = "running"
               /\ job'[Row(d)].attempts = drain[d].seen[Row(d)] + 1
         /\ drain'[d].pc = "score" =>
              /\ job'[Row(d)].status = "running"
              /\ job'[Row(d)].attempts = drain[d].seen[Row(d)] + 1
<1> DEFINE n == drain[d].seen[Row(d)] + 1
           patched == [job[Row(d)] EXCEPT !.status = "running", !.attempts = n]
<1>1. ~ At(d, "idle") /\ Update(d, patched, "score", "release")
  BY DEF Stamp, At
<1>2. job[Row(d)] \in Jobs /\ drain[d].seen[Row(d)] \in 0 .. MaxAttempts - 1
  BY <1>1, BusyDrain
<1>3. n \in 0 .. MaxAttempts
  BY <1>2, NumbersAssumption
<1> HIDE DEF n
<1>4. patched \in Jobs /\ patched.submission = Sub(d) /\ patched.status = "running" /\ patched.attempts = n
  BY <1>2, <1>3 DEF Jobs, Sub
<1> HIDE DEF patched
<1>5. /\ WritesRow(Row(d)) /\ job'[Row(d)] \in {job[Row(d)], patched}
      /\ DrainTypes' /\ SameRow(d) /\ drain'[d].pc \in {"score", "release"}
      /\ drain'[d].pc # "release" => job'[Row(d)] = patched
  BY <1>1, <1>4, UpdateStep DEF Working
<1>6. QED
  BY <1>4, <1>5 DEF n

(* What recording the outcome does.                                          *)
LEMMA DoneStep ==
  ASSUME TypeInv, NEW d \in Drains, Done(d)
  PROVE  /\ WritesRow(Row(d)) /\ DrainTypes' /\ SameRow(d) /\ drain'[d].pc \in {"release", "catch"}
         /\ job'[Row(d)].attempts = job[Row(d)].attempts
         /\ \/ job'[Row(d)] = job[Row(d)]
            \/ job'[Row(d)].status = "done" /\ job'[Row(d)].mocked = drain[d].mocked
         /\ drain'[d].pc = "release" => job'[Row(d)].status = "done"
<1> DEFINE patched == [job[Row(d)] EXCEPT !.status = "done", !.mocked = drain[d].mocked]
<1>1. ~ At(d, "idle") /\ Update(d, patched, "release", "catch")
  BY DEF Done, At
<1>2. job[Row(d)] \in Jobs /\ drain[d].mocked \in BOOLEAN
  BY <1>1, BusyDrain DEF TypeInv, DrainTypes, DrainStates
<1>3. /\ patched \in Jobs /\ patched.submission = Sub(d) /\ patched.attempts = job[Row(d)].attempts
      /\ patched.status = "done" /\ patched.mocked = drain[d].mocked
  BY <1>2, Patches DEF Sub
<1> HIDE DEF patched
<1>4. /\ WritesRow(Row(d)) /\ job'[Row(d)] \in {job[Row(d)], patched}
      /\ DrainTypes' /\ SameRow(d) /\ drain'[d].pc \in {"release", "catch"}
      /\ drain'[d].pc # "catch" => job'[Row(d)] = patched
  BY <1>1, <1>3, UpdateStep DEF Working
<1>5. QED
  BY <1>3, <1>4

(* What recording a failure does.                                            *)
LEMMA CatchStep ==
  ASSUME TypeInv, NEW d \in Drains, Catch(d)
  PROVE  /\ WritesRow(Row(d)) /\ DrainTypes' /\ SameRow(d) /\ drain'[d].pc = "release"
         /\ job'[Row(d)].attempts = job[Row(d)].attempts
         /\ job'[Row(d)] = job[Row(d)] \/ job'[Row(d)].status = "failed"
<1> DEFINE patched == [job[Row(d)] EXCEPT !.status = "failed"]
<1>1. ~ At(d, "idle") /\ Update(d, patched, "release", "release")
  BY DEF Catch, At
<1>2. job[Row(d)] \in Jobs
  BY <1>1, BusyDrain
<1>3. /\ patched \in Jobs /\ patched.submission = Sub(d) /\ patched.attempts = job[Row(d)].attempts
      /\ patched.status = "failed"
  BY <1>2, Patches DEF Sub
<1> HIDE DEF patched
<1>4. /\ WritesRow(Row(d)) /\ job'[Row(d)] \in {job[Row(d)], patched}
      /\ DrainTypes' /\ SameRow(d) /\ drain'[d].pc \in {"release"}
  BY <1>1, <1>3, UpdateStep DEF Working
<1>5. QED
  BY <1>3, <1>4

-----------------------------------------------------------------------------
(* Types.                                                                    *)

(* The initial types.                                                        *)
LEMMA InitTypes == Init => TypeInv
<1> SUFFICES ASSUME Init PROVE TypeInv
  OBVIOUS
<1>1. job \in Seq(Jobs)
  BY EmptySeq DEF Init
<1>2. RestTypes
  BY NumbersAssumption, ModesAssumption DEF Init, RestTypes, Claims, CallsBound
<1>3. DrainTypes
  BY IdleDrainOK DEF Init, DrainTypes
<1>4. PressTypes
  BY DEF Init, PressTypes, PressStates, IdlePress
<1>5. QED
  BY <1>1, <1>2, <1>3, <1>4 DEF TypeInv

(* Queueing keeps the types, and forgets the calls of what is queued.        *)
LEMMA EnqueueTypes ==
  ASSUME TypeInv, NEW subs \in SUBSET Submissions, Enqueue(subs),
         UNCHANGED <<review, assigned, sample, claim, round, drain, settled>>
  PROVE  /\ job' \in Seq(Jobs) /\ DrainTypes' /\ DOMAIN job \subseteq DOMAIN job'
         /\ resent' \subseteq Submissions => RestTypes'
<1>1. job' \in Seq(Jobs) /\ DOMAIN job \subseteq DOMAIN job'
  BY JobAppended DEF TypeInv
<1>2. calls' \in [Submissions -> 0 .. CallsBound]
  BY NumbersAssumption DEF Enqueue, TypeInv, RestTypes, CallsBound
<1>3. QED
  BY <1>1, <1>2, StayOK DEF TypeInv, RestTypes

(* A press keeps the types.                                                  *)
LEMMA PressTyping ==
  ASSUME TypeInv, NEW p \in Presses,
         \/ Press(p) \/ PressRead(p) \/ Create(p) \/ SentAgain(p) \/ Land(p)
         \/ Reset(p) \/ PressReleases(p) \/ PressDies(p)
  PROVE  TypeInv'
<1> USE NumbersAssumption
<1>a. /\ press[p] \in PressStates /\ press[p].create \subseteq assigned /\ assigned \subseteq Submissions
      /\ press[p].reset \subseteq DOMAIN job /\ p \in Holders /\ IdlePress \in PressStates
      /\ IdlePress.create = {} /\ IdlePress.reset = {}
  BY StageOK, InvocationsAssumption DEF TypeInv, PressTypes, RestTypes
<1>b. DOMAIN job \subseteq Nat \ {0}
  BY LenProperties DEF TypeInv
<1>c. /\ press[p].create \in SUBSET Submissions /\ press[p].reset \in SUBSET (Nat \ {0})
      /\ {} \in SUBSET Submissions /\ {} \in SUBSET (Nat \ {0})
  BY <1>a, <1>b
<1>1. CASE Press(p)
  <2>1. round' \in Claims
    <3>1. round \in Claims /\ Lease \in Nat
      BY DEF TypeInv, RestTypes
    <3>2. AfterClaim(round, p, Lease) \in Claims
      BY <1>a, <3>1, ClaimTypes
    <3>3. QED
      BY <1>1, <3>1, <3>2 DEF Press
  <2>2. [IdlePress EXCEPT !.pc = "read"] \in PressStates
    BY DEF IdlePress, PressStates
  <2>3. PressTypes'
    <3>1. CASE UNCHANGED press
      BY <1>1, <3>1, StayOK DEF Press
    <3>2. CASE Move(p, [IdlePress EXCEPT !.pc = "read"])
      BY <1>1, <2>2, <3>2, MoveOK DEF Press, IdlePress
    <3>3. QED
      BY <1>1, <3>1, <3>2 DEF Press
  <2>4. QED
    BY <1>1, <2>1, <2>3, StayOK DEF Press, TypeInv, RestTypes
<1>2. CASE PressRead(p)
  <2>1. ToCreate \subseteq assigned /\ ToReset \subseteq DOMAIN job
    BY DEF ToCreate, ToReset, Requeueable, First, RowsOf
  <2>2. Stage(ToCreate, ToReset) \in PressStates /\ Stage(ToCreate, ToReset).create = ToCreate
        /\ Stage(ToCreate, ToReset).reset = ToReset
    BY <2>1, <1>a, <1>b, StageOK
  <2>3. PressTypes'
    BY <1>2, <2>1, <2>2, MoveOK DEF PressRead
  <2>4. QED
    BY <1>2, <2>3, StayOK DEF PressRead, TypeInv, RestTypes
<1>3. CASE Create(p) \/ SentAgain(p) \/ Land(p)
  <2>1. PICK subs \in SUBSET press[p].create :
          /\ Enqueue(subs)
          /\ \/ Move(p, Stage({}, press[p].reset))
             \/ Move(p, [pc |-> "lost", create |-> press[p].create \ subs, reset |-> {}])
             \/ Move(p, IdlePress)
             \/ UNCHANGED press
          /\ resent' \in {resent, resent \cup subs}
    BY <1>3 DEF Create, SentAgain, Land
  <2>2. UNCHANGED <<review, assigned, sample, claim, round, drain, settled>>
    BY <1>3 DEF Create, SentAgain, Land
  <2>3. job' \in Seq(Jobs) /\ RestTypes' /\ DrainTypes' /\ DOMAIN job \subseteq DOMAIN job'
    <3>1. resent' \subseteq Submissions
      BY <1>a, <2>1 DEF TypeInv, RestTypes
    <3>2. QED
      BY <1>a, <2>1, <2>2, <3>1, EnqueueTypes
  <2>4. /\ Stage({}, press[p].reset) \in PressStates
        /\ Stage({}, press[p].reset).create = {} /\ Stage({}, press[p].reset).reset = press[p].reset
    BY <1>c, StageOK
  <2>5. [pc |-> "lost", create |-> press[p].create \ subs, reset |-> {}] \in PressStates
    BY <1>a DEF PressStates
  <2>6. PressTypes'
    BY <1>a, <2>1, <2>2, <2>3, <2>4, <2>5, MoveOK, StayOK
  <2>7. QED
    BY <2>3, <2>6 DEF TypeInv
<1>4. CASE Reset(p)
  <2>1. PICK landed \in SUBSET press[p].reset :
          /\ job' = [j \in DOMAIN job |-> IF j \in landed THEN Queued(job[j].submission) ELSE job[j]]
          /\ calls' = [s \in Submissions |->
                         IF s \in {job[j].submission : j \in landed} THEN 0 ELSE calls[s]]
          /\ settled' = settled \ {job[j].submission : j \in landed}
          /\ Move(p, Stage({}, {})) \/ Move(p, IdlePress)
    BY <1>4 DEF Reset
  <2>2. job' \in Seq(Jobs) /\ DOMAIN job' = DOMAIN job
    BY <2>1, JobReset DEF TypeInv
  <2>3. RestTypes'
    BY <1>4, <2>1 DEF Reset, TypeInv, RestTypes, CallsBound
  <2>4. Stage({}, {}) \in PressStates /\ Stage({}, {}).create = {} /\ Stage({}, {}).reset = {}
    BY <1>c, StageOK
  <2>5. PressTypes'
    BY <1>4, <1>a, <2>1, <2>2, <2>4, MoveOK DEF Reset
  <2>6. QED
    BY <1>4, <2>2, <2>3, <2>5, StayOK DEF Reset, TypeInv
<1>5. CASE PressReleases(p)
  <2>1. round' \in Claims
    BY <1>5, <1>a, ClaimTypes DEF PressReleases, TypeInv, RestTypes
  <2>2. PressTypes'
    BY <1>5, <1>a, MoveOK DEF PressReleases
  <2>3. QED
    BY <1>5, <2>1, <2>2, StayOK DEF PressReleases, TypeInv, RestTypes
<1>6. CASE PressDies(p)
  <2>1. PressTypes'
    BY <1>6, <1>a, MoveOK DEF PressDies
  <2>2. QED
    BY <1>6, <2>1, StayOK DEF PressDies, TypeInv, RestTypes
<1>7. QED
  BY <1>1, <1>2, <1>3, <1>4, <1>5, <1>6

\* A drain that starts, with all it listed.
Starts(d) ==
    /\ drain[d].pc = "idle" /\ drain'[d].pc = "claim"
    /\ DOMAIN drain'[d].seen = Eligible
    /\ \A e \in Drains : e # d => drain'[e] = drain[e]

(* What a start does: the rows it lists can be attempted.                    *)
LEMMA StartStep ==
  ASSUME TypeInv, NEW d \in Drains, Start(d)
  PROVE  /\ DrainTypes' /\ Starts(d)
         /\ \A j \in Eligible : j \in DOMAIN job /\ Attemptable(job[j]) /\ drain'[d].seen[j] = job[j].attempts
<1> DEFINE seen == [j \in Eligible |-> job[j].attempts]
           next == [pc |-> "claim", seen |-> seen, mocked |-> sample]
<1>1. Eligible \subseteq {j \in DOMAIN job : Attemptable(job[j])}
  BY DEF Eligible, First
<1>2. DOMAIN job \subseteq Nat \ {0} /\ \A j \in DOMAIN job : job[j] \in Jobs
  BY LenProperties DEF TypeInv
<1>3. seen \in [Eligible -> 0 .. MaxAttempts - 1]
  <2>1. \A j \in Eligible : job[j].attempts \in 0 .. MaxAttempts - 1
    BY <1>1, <1>2, NumbersAssumption DEF Jobs, Attemptable
  <2>2. QED
    BY <2>1
<1>4. seen \in Seens
  BY <1>1, <1>2, <1>3 DEF Seens
<1>5. next \in DrainStates /\ next.pc = "claim" /\ next.seen = seen /\ DOMAIN seen = Eligible
  <2> HIDE DEF seen
  <2>1. next \in DrainStates
    BY <1>4 DEF DrainStates, TypeInv, RestTypes
  <2>2. QED
    BY <2>1 DEF seen
<1>6. Go(d, next) /\ Eligible # {} /\ drain[d].pc = "idle" /\ UNCHANGED job
  BY DEF Start, At
<1>7. \A j \in Eligible : seen[j] = job[j].attempts
  OBVIOUS
<1> HIDE DEF next, seen
<1>8. DrainTypes' /\ drain'[d] = next /\ \A e \in Drains : e # d => drain'[e] = drain[e]
  BY <1>1, <1>5, <1>6, GoOK
<1>9. Starts(d)
  BY <1>5, <1>6, <1>8 DEF Starts
<1>10. QED
  BY <1>1, <1>5, <1>7, <1>8, <1>9

(* A drain keeps the types.                                                  *)
LEMMA DrainTyping ==
  ASSUME TypeInv, NEW d \in Drains,
         \/ Start(d) \/ Claim(d) \/ Stamp(d) \/ Score(d) \/ Save(d) \/ Done(d)
         \/ Catch(d) \/ Release(d) \/ Die(d)
  PROVE  TypeInv'
<1>a. ~ At(d, "idle") => /\ Sub(d) \in Submissions /\ claim[Sub(d)] \in Claims
  BY BusyDrain
<1>b. d \in Holders /\ Lease \in Nat
  BY InvocationsAssumption, NumbersAssumption
<1>1. CASE Start(d)
  <2>1. DrainTypes'
    BY <1>1, StartStep DEF Starts
  <2>2. QED
    BY <1>1, <2>1, StayOK DEF Start, TypeInv, RestTypes
<1>2. CASE Claim(d)
  <2>1. claim' \in [Submissions -> Claims]
    <3>1. AfterClaim(claim[Sub(d)], d, Lease) \in Claims
      BY <1>2, <1>a, <1>b, ClaimTypes DEF Claim, At
    <3>2. QED
      BY <1>2, <3>1 DEF Claim, TypeInv, RestTypes
  <2>2. DrainTypes'
    BY <1>2, GotoStep, OnwardStep, StopStep DEF Claim, At, Working
  <2>3. QED
    BY <1>2, <2>1, <2>2, StayOK DEF Claim, TypeInv, RestTypes
<1>3. CASE Stamp(d)
  <2>1. DrainTypes' /\ WritesRow(Row(d))
    BY <1>3, StampStep
  <2>2. QED
    BY <1>3, <2>1, StayOK DEF Stamp, WritesRow, TypeInv, RestTypes
<1>4. CASE Score(d)
  <2>1. calls' \in [Submissions -> 0 .. CallsBound]
    BY <1>4, <1>a, NumbersAssumption DEF Score, At, TypeInv, RestTypes, CallsBound
  <2>2. DrainTypes'
    BY <1>4, GotoStep DEF Score, At, Working
  <2>3. QED
    BY <1>4, <2>1, <2>2, StayOK DEF Score, TypeInv, RestTypes
<1>5. CASE Save(d)
  <2>1. review' \in [Submissions -> {"none", "sample", "live"}]
    BY <1>5, <1>a DEF Save, At, TypeInv, RestTypes
  <2>2. DrainTypes'
    BY <1>5, GotoStep DEF Save, At, Working
  <2>3. QED
    BY <1>5, <2>1, <2>2, StayOK DEF Save, TypeInv, RestTypes
<1>6. CASE Done(d)
  <2>1. DrainTypes' /\ WritesRow(Row(d))
    BY <1>6, DoneStep
  <2>2. settled' \subseteq Submissions
    BY <1>6, <1>a DEF Done, At, TypeInv, RestTypes
  <2>3. QED
    BY <1>6, <2>1, <2>2, StayOK DEF Done, WritesRow, TypeInv, RestTypes
<1>7. CASE Catch(d)
  <2>1. DrainTypes' /\ WritesRow(Row(d))
    BY <1>7, CatchStep
  <2>2. QED
    BY <1>7, <2>1, StayOK DEF Catch, WritesRow, TypeInv, RestTypes
<1>8. CASE Release(d)
  <2>1. AfterRelease(claim[Sub(d)], d) \in Claims
    BY <1>8, <1>a, <1>b, ClaimTypes DEF Release, At
  <2>2. claim' \in [Submissions -> Claims]
    BY <1>8, <2>1 DEF Release, TypeInv, RestTypes
  <2>3. DrainTypes'
    BY <1>8, OnwardStep DEF Release, At
  <2>4. QED
    BY <1>8, <2>2, <2>3, StayOK DEF Release, TypeInv, RestTypes
<1>9. CASE Die(d)
  <2>1. DrainTypes'
    BY <1>9, StopStep DEF Die
  <2>2. QED
    BY <1>9, <2>1, StayOK DEF Die, TypeInv, RestTypes
<1>10. QED
  BY <1>1, <1>2, <1>3, <1>4, <1>5, <1>6, <1>7, <1>8, <1>9

(* Every step keeps the types.                                               *)
LEMMA NextTypes == TypeInv /\ [Next]_vars => TypeInv'
<1> SUFFICES ASSUME TypeInv, [Next]_vars PROVE TypeInv'
  OBVIOUS
<1>1. CASE \E s \in Submissions : Assign(s)
  BY <1>1 DEF Assign, TypeInv, RestTypes, DrainTypes, PressTypes
<1>2. CASE GoLive
  BY <1>2 DEF GoLive, TypeInv, RestTypes, DrainTypes, PressTypes
<1>3. CASE Tick
  <2>1. \A c \in Claims : Aged(c) \in Claims
    BY DEF Aged, Less, Claims, NoClaim
  <2>2. QED
    BY <1>3, <2>1 DEF Tick, TypeInv, RestTypes, DrainTypes, PressTypes
<1>4. CASE UNCHANGED vars
  BY <1>4 DEF vars, TypeInv, RestTypes, DrainTypes, PressTypes
<1>5. QED
  BY <1>1, <1>2, <1>3, <1>4, PressTyping, DrainTyping DEF Next

(* Every reachable state has the types of the proof.                         *)
THEOREM Types == Spec => []TypeInv
  BY InitTypes, NextTypes, PTL DEF Spec

(* The pre-screen's variables keep their types, whatever is slow or overlaps.*)
THEOREM TypeCorrect == Spec => []TypeOK
<1>1. TypeInv => TypeOK
  BY SeenTypes DEF TypeInv, RestTypes, DrainTypes, PressTypes, DrainStates, PressStates, TypeOK
<1>2. QED
  BY <1>1, Types, PTL

-----------------------------------------------------------------------------
(* Leases of drains.                                                         *)

\* The drain steps, by name, and those of a press.
DrainStep(d) ==
    \/ Start(d) \/ Claim(d) \/ Stamp(d) \/ Score(d) \/ Save(d) \/ Done(d)
    \/ Catch(d) \/ Release(d) \/ Die(d)
PressStep(p) ==
    \/ Press(p) \/ PressRead(p) \/ Create(p) \/ SentAgain(p) \/ Land(p)
    \/ Reset(p) \/ PressReleases(p) \/ PressDies(p)

(* A row never goes away, nor does it change its submission.                 *)
LEMMA RowsStay ==
  ASSUME TypeInv, [Next]_vars
  PROVE  DOMAIN job \subseteq DOMAIN job' /\ \A j \in DOMAIN job : job'[j].submission = job[j].submission
<1>1. ASSUME NEW p \in Presses, Create(p) \/ SentAgain(p) \/ Land(p)
      PROVE  DOMAIN job \subseteq DOMAIN job' /\ \A j \in DOMAIN job : job'[j] = job[j]
  <2>1. PICK subs \in SUBSET press[p].create : Enqueue(subs)
    BY <1>1 DEF Create, SentAgain, Land
  <2>2. subs \in SUBSET Submissions
    BY DEF TypeInv, PressTypes, RestTypes
  <2>3. QED
    BY <2>1, <2>2, JobAppended DEF TypeInv
<1>2. ASSUME NEW p \in Presses, Reset(p)
      PROVE  DOMAIN job' = DOMAIN job /\ \A j \in DOMAIN job : job'[j].submission = job[j].submission
  BY <1>2, JobReset DEF Reset, TypeInv
<1>3. ASSUME NEW d \in Drains, Stamp(d) \/ Done(d) \/ Catch(d)
      PROVE  WritesRow(Row(d))
  BY <1>3, StampStep, DoneStep, CatchStep
<1>4. CASE UNCHANGED job
  BY <1>4
<1>5. QED
  BY <1>1, <1>2, <1>3, <1>4 DEF WritesRow, Next, vars, Press, PressRead, PressReleases, PressDies,
     Start, Claim, Score, Save, Release, Die, Assign, GoLive, Tick

(* What was sent again stays so.                                             *)
LEMMA ResentGrows ==
  ASSUME [Next]_vars
  PROVE  resent \subseteq resent'
  BY DEF Next, vars, Press, PressRead, Create, SentAgain, Land, Reset, PressReleases, PressDies,
     Start, Claim, Stamp, Score, Save, Done, Catch, Release, Die, Assign, GoLive, Tick

(* A busy drain that keeps its listing is at the same row and submission.    *)
LEMMA KeepsSub ==
  ASSUME TypeInv, [Next]_vars, NEW d \in Drains, ~ At(d, "idle"), drain'[d].seen = drain[d].seen
  PROVE  Row(d)' = Row(d) /\ Sub(d)' = Sub(d)
<1>1. Row(d)' = RowIn(drain'[d]) /\ Row(d) = RowIn(drain[d])
  BY DEF Row, RowIn
<1>2. Row(d)' = Row(d)
  BY <1>1, SameSeen
<1>3. Row(d) \in DOMAIN job
  BY BusyDrain
<1>4. QED
  BY <1>2, <1>3, RowsStay DEF Sub

(* A drain between its claim and the outcome of its row holds the submission.*)
DrainsHold == \A d \in Drains : drain[d].pc \in Working => HeldBy(claim[Sub(d)], d)

(* The leases are not lost, unless a drain outlives its own.                 *)
LEMMA DrainsKeep ==
  ASSUME "drain" \notin Slow, TypeInv, DrainsHold, [Next]_vars
  PROVE  DrainsHold'
<1> SUFFICES ASSUME NEW e \in Drains, drain'[e].pc \in Working
             PROVE  HeldBy(claim'[Sub(e)'], e)
  BY DEF DrainsHold
<1>a. Drains \subseteq Holders /\ Lease \in Nat \ {0} /\ \A s \in Submissions : claim[s] \in Claims
  BY InvocationsAssumption, NumbersAssumption DEF TypeInv, RestTypes
<1>b. ASSUME drain'[e] = drain[e]
      PROVE  /\ drain[e].pc \in Working /\ Sub(e)' = Sub(e) /\ Sub(e) \in Submissions
             /\ claim[Sub(e)] \in Claims /\ HeldBy(claim[Sub(e)], e)
  BY <1>b, KeepsSub, BusyDrain DEF DrainsHold, At, Working
<1>1. CASE UNCHANGED <<drain, claim>>
  BY <1>1, <1>b
<1>2. ASSUME NEW d \in Drains, Claim(d)
      PROVE  HeldBy(claim'[Sub(e)'], e)
  <2>1. Sub(d) \in Submissions /\ ~ At(d, "idle") /\ UNCHANGED job /\ claim[Sub(d)] \in Claims
    BY <1>2, BusyDrain DEF Claim, At
  <2>2. claim' = [claim EXCEPT ![Sub(d)] = AfterClaim(@, d, Lease)] \/ UNCHANGED claim
    BY <1>2 DEF Claim
  <2>3. ASSUME OtherRow(d)
        PROVE  e # d /\ drain'[e] = drain[e]
    BY <2>3 DEF OtherRow, NextRow, IdleDrain, Working
  <2>4. CASE drain'[e] = drain[e]
    <3>1. HeldBy(AfterClaim(claim[Sub(e)], d, Lease), e)
      BY <1>a, <1>b, <2>4, LeaseStays
    <3>2. QED
      BY <1>b, <2>2, <2>4, <3>1 DEF TypeInv, RestTypes
  <2>5. CASE Grants(claim[Sub(d)], d) /\ Goto(d, "stamp")
    <3>1. SameRow(d)
      BY <2>1, <2>5, GotoStep DEF Working
    <3>2. CASE e # d
      BY <2>4, <3>1, <3>2 DEF SameRow
    <3>3. CASE e = d /\ claim' = [claim EXCEPT ![Sub(d)] = AfterClaim(@, d, Lease)]
      <4>1. Sub(d)' = Sub(d)
        BY <2>1, <3>1, KeepsSub DEF SameRow
      <4>2. HeldBy(AfterClaim(claim[Sub(d)], d, Lease), d)
        BY <1>a, <2>1, <2>5, LeaseStays
      <4>3. QED
        BY <2>1, <3>3, <4>1, <4>2 DEF TypeInv, RestTypes
    <3>4. CASE e = d /\ Go(d, IdleDrain)
      BY <2>1, <3>4, StopStep, <2>3
    <3>5. QED
      BY <1>2, <3>2, <3>3, <3>4 DEF Claim
  <2>6. CASE Onward(d) \/ Go(d, IdleDrain)
    BY <2>1, <2>3, <2>4, <2>6, OnwardStep, StopStep
  <2>7. QED
    BY <1>2, <2>5, <2>6 DEF Claim
<1>3. ASSUME NEW d \in Drains, Release(d)
      PROVE  HeldBy(claim'[Sub(e)'], e)
  <2>1. ~ At(d, "idle") /\ UNCHANGED job /\ Sub(d) \in Submissions
    BY <1>3, BusyDrain DEF Release, At
  <2>2. OtherRow(d)
    BY <1>3, <2>1, OnwardStep DEF Release
  <2>3. e # d /\ drain'[e] = drain[e]
    BY <2>2 DEF OtherRow, NextRow, IdleDrain, Working
  <2>4. AfterRelease(claim[Sub(e)], d) = claim[Sub(e)]
    BY <1>a, <1>b, <2>3, LeaseStays
  <2>5. QED
    BY <1>3, <1>b, <2>3, <2>4 DEF Release, TypeInv, RestTypes
<1>4. ASSUME NEW d \in Drains, Start(d) \/ Die(d)
      PROVE  HeldBy(claim'[Sub(e)'], e)
  <2>1. UNCHANGED <<job, claim>>
    BY <1>4 DEF Start, Die
  <2>2. Starts(d) \/ OtherRow(d)
    BY <1>4, <2>1, StartStep, StopStep DEF Die
  <2>3. e # d /\ drain'[e] = drain[e]
    BY <2>2 DEF Starts, OtherRow, NextRow, IdleDrain, Working
  <2>4. QED
    BY <1>b, <2>1, <2>3
<1>5. ASSUME NEW d \in Drains, Stamp(d) \/ Score(d) \/ Save(d) \/ Done(d) \/ Catch(d)
      PROVE  HeldBy(claim'[Sub(e)'], e)
  <2>1. UNCHANGED claim /\ drain[d].pc \in Working
    BY <1>5 DEF Stamp, Score, Save, Done, Catch, At, Working
  <2>2. SameRow(d)
    BY <1>5, <2>1, StampStep, DoneStep, CatchStep, GotoStep DEF Score, Save, At, Working
  <2>3. CASE e # d
    BY <1>b, <2>1, <2>2, <2>3 DEF SameRow
  <2>4. CASE e = d
    BY <2>1, <2>2, <2>4, KeepsSub DEF SameRow, DrainsHold, At, Working
  <2>5. QED
    BY <2>3, <2>4
<1>6. CASE Tick
  <2>1. drain'[e] = drain[e] /\ claim' = [s \in Submissions |-> Aged(claim[s])]
    BY <1>6 DEF Tick
  <2>2. claim[Sub(e)].left # 1
    BY <1>6, <1>b, <2>1 DEF Tick, Lapsing, HeldBy
  <2>3. HeldBy(Aged(claim[Sub(e)]), e)
    BY <1>a, <1>b, <2>1, <2>2, LeaseStays
  <2>4. QED
    BY <1>b, <2>1, <2>3
<1>7. QED
  BY <1>1, <1>2, <1>3, <1>4, <1>5, <1>6 DEF Next, vars, Press, PressRead, Create, SentAgain, Land, Reset,
     PressReleases, PressDies, Assign, GoLive

(***************************************************************************)
(* The drains' leases work: no two drains are between the claim and the    *)
(* outcome of one submission, when no drain outlives a lease.              *)
(***************************************************************************)
THEOREM ScoringIsExclusive ==
  ASSUME "drain" \notin Slow
  PROVE  Spec => []ScoringExclusive
<1>1. Init => DrainsHold
  BY DEF Init, DrainsHold, IdleDrain, Working
<1>2. TypeInv /\ DrainsHold /\ [Next]_vars => DrainsHold'
  BY DrainsKeep
<1>3. DrainsHold => ScoringExclusive
  BY DEF DrainsHold, HeldBy, ScoringExclusive
<1>4. QED
  BY <1>1, <1>2, <1>3, Types, PTL DEF Spec

-----------------------------------------------------------------------------
(* Presses.                                                                  *)

\* Presses do not meet: none outlives its lease, or there is only one.
PressesApart == "press" \notin Slow \/ \A p, q \in Presses : p = q

\* Between its claim and the last of its writes, landed or lost.
Pressing(p) == press[p].pc \notin {"idle", "release"}

PressesHold == \A p \in Presses : Pressing(p) => HeldBy(round, p)
OnePress == \A p, q \in Presses : Pressing(p) /\ Pressing(q) => p = q

(* A press moves itself only.                                                *)
LEMMA PressMoves ==
  ASSUME TypeInv, NEW p \in Presses, PressStep(p)
  PROVE  \A q \in Presses : q # p => press'[q] = press[q]
  BY DEF PressStep, Press, PressRead, Create, SentAgain, Land, Reset, PressReleases, PressDies, Move,
     TypeInv, PressTypes

(* Only a press moves a press or claims the round.                           *)
LEMMA OthersPressNot ==
  ASSUME [Next]_vars
  PROVE  \/ \E p \in Presses : PressStep(p)
         \/ Tick
         \/ UNCHANGED <<press, round>>
  BY DEF Next, vars, PressStep, Start, Claim, Stamp, Score, Save, Done, Catch, Release, Die, Assign, GoLive

(* The round stays with the press that holds it, unless it outlives the lease*)
LEMMA PressesKeep ==
  ASSUME "press" \notin Slow, TypeInv, PressesHold, [Next]_vars
  PROVE  PressesHold'
<1> SUFFICES ASSUME NEW q \in Presses, Pressing(q)'
             PROVE  HeldBy(round', q)
  BY DEF PressesHold
<1>a. Presses \subseteq Holders /\ Lease \in Nat \ {0} /\ round \in Claims
  BY InvocationsAssumption, NumbersAssumption DEF TypeInv, RestTypes
<1>1. ASSUME NEW p \in Presses, PressStep(p), q # p
      PROVE  HeldBy(round', q)
  <2>1. HeldBy(round, q)
    BY <1>1, PressMoves DEF PressesHold, Pressing
  <2>2. round' \in {round, AfterClaim(round, p, Lease), AfterRelease(round, p)}
    BY <1>1 DEF PressStep, Press, PressRead, Create, SentAgain, Land, Reset, PressReleases, PressDies
  <2>3. HeldBy(AfterClaim(round, p, Lease), q) /\ AfterRelease(round, p) = round
    BY <1>1, <1>a, <2>1, LeaseStays
  <2>4. QED
    BY <2>1, <2>2, <2>3
<1>2. CASE Press(q)
  <2>1. press[q].pc = "idle"
    BY <1>2 DEF Press
  <2>2. press'[q].pc # "idle"
    BY DEF Pressing
  <2>3. round' = AfterClaim(round, q, Lease) /\ Grants(round, q)
    BY <1>2, <2>1, <2>2 DEF Press
  <2>4. QED
    BY <1>a, <2>3, LeaseStays
<1>3. CASE PressRead(q) \/ Create(q) \/ SentAgain(q) \/ Land(q) \/ Reset(q)
  BY <1>3 DEF PressesHold, Pressing, PressRead, Create, SentAgain, Land, Reset
<1>4. CASE PressReleases(q) \/ PressDies(q)
  <2>1. press'[q] = IdlePress
    BY <1>4 DEF PressReleases, PressDies, Move, TypeInv, PressTypes
  <2>2. QED
    BY <2>1 DEF Pressing, IdlePress
<1>5. CASE Tick
  <2>1. press' = press /\ round' = Aged(round)
    BY <1>5 DEF Tick
  <2>2. HeldBy(round, q) /\ round.left # 1
    BY <1>5, <2>1 DEF Tick, Lapsing, PressesHold, Pressing, HeldBy
  <2>3. QED
    BY <1>a, <2>1, <2>2, LeaseStays
<1>6. CASE UNCHANGED <<press, round>>
  BY <1>6 DEF PressesHold, Pressing
<1>7. QED
  BY <1>1, <1>2, <1>3, <1>4, <1>5, <1>6, OthersPressNot DEF PressStep

(* So one press at a time is at work.                                        *)
LEMMA OneAtATime ==
  ASSUME PressesApart
  PROVE  Spec => []OnePress
<1>1. CASE \A p, q \in Presses : p = q
  <2>1. OnePress
    BY <1>1 DEF OnePress
  <2>2. QED
    BY <2>1, PTL
<1>2. CASE "press" \notin Slow
  <2>1. Init => PressesHold
    BY DEF Init, PressesHold, Pressing, IdlePress
  <2>2. TypeInv /\ PressesHold /\ [Next]_vars => PressesHold'
    BY <1>2, PressesKeep
  <2>3. PressesHold => OnePress
    BY DEF PressesHold, OnePress, HeldBy
  <2>4. QED
    BY <2>1, <2>2, <2>3, Types, PTL DEF Spec
<1>3. QED
  BY <1>1, <1>2 DEF PressesApart

\* What a press is about to create has no row yet, or is sent again.
NewRows ==
    \A p \in Presses : press[p].pc \in {"create", "lost"} =>
        \A s \in press[p].create \ resent : RowsOf(s) = {}

(* New rows are those of submissions that had none or were sent again.       *)
LEMMA EnqueueRows ==
  ASSUME TypeInv, OneRowEach, NEW subs \in SUBSET Submissions, Enqueue(subs),
         resent \subseteq resent', \A s \in subs \ resent' : RowsOf(s) = {}
  PROVE  /\ OneRowEach'
         /\ \A s : s \notin subs => RowsOf(s)' = RowsOf(s)
<1>1. /\ DOMAIN job \subseteq DOMAIN job' /\ \A j \in DOMAIN job : job'[j] = job[j]
      /\ \A j \in DOMAIN job' \ DOMAIN job : \E s \in subs : job'[j] = Queued(s)
      /\ \A i, j \in DOMAIN job' \ DOMAIN job : job'[i].submission = job'[j].submission => i = j
  BY JobAppended DEF TypeInv
<1>2. \A j \in DOMAIN job' \ DOMAIN job : job'[j].submission \in subs
  BY <1>1 DEF Queued
<1>3. \A j \in DOMAIN job : job[j].submission \notin subs \ resent'
  BY DEF RowsOf
<1>4. OneRowEach'
  BY <1>1, <1>2, <1>3 DEF OneRowEach
<1>5. \A s : s \notin subs => RowsOf(s)' = RowsOf(s)
  BY <1>1, <1>2 DEF RowsOf
<1>6. QED
  BY <1>4, <1>5

(* Rows that keep their submissions.                                         *)
LEMMA SameRows ==
  ASSUME DOMAIN job' = DOMAIN job, \A j \in DOMAIN job : job'[j].submission = job[j].submission
  PROVE  /\ \A s : RowsOf(s)' = RowsOf(s)
         /\ OneRowEach /\ resent \subseteq resent' => OneRowEach'
  BY DEF RowsOf, OneRowEach

(* Only a create adds rows.                                                  *)
LEMMA NoNewRows ==
  ASSUME TypeInv, [Next]_vars, \A p \in Presses : ~ (Create(p) \/ SentAgain(p) \/ Land(p))
  PROVE  DOMAIN job' = DOMAIN job
<1>1. ASSUME NEW p \in Presses, Reset(p)
      PROVE  DOMAIN job' = DOMAIN job
  BY <1>1 DEF Reset
<1>2. ASSUME NEW d \in Drains, Stamp(d) \/ Done(d) \/ Catch(d)
      PROVE  WritesRow(Row(d))
  BY <1>2, StampStep, DoneStep, CatchStep
<1>3. QED
  BY <1>1, <1>2 DEF WritesRow, Next, vars, Press, PressRead, PressReleases, PressDies,
     Start, Claim, Score, Save, Release, Die, Assign, GoLive, Tick

(* The rows of a submission are created by one press, after it saw none.     *)
LEMMA RowsKeep ==
  ASSUME TypeInv, OnePress, NewRows, OneRowEach, [Next]_vars
  PROVE  NewRows' /\ OneRowEach'
<1>0. resent \subseteq resent'
  BY ResentGrows
<1>1. ASSUME NEW p \in Presses, Create(p) \/ SentAgain(p) \/ Land(p)
      PROVE  NewRows' /\ OneRowEach'
  <2>1. PICK subs \in SUBSET press[p].create :
          /\ Enqueue(subs)
          /\ press'[p].pc \in {"create", "lost"} =>
               press'[p].create \ resent' = press[p].create \ (resent' \cup subs)
          /\ resent' = resent \/ (resent' = resent \cup subs /\ UNCHANGED press)
    <3>1. CASE Land(p)
      BY <3>1 DEF Land, Move, IdlePress, TypeInv, PressTypes
    <3>2. CASE Create(p)
      <4>1. Stage({}, press[p].reset).pc \notin {"create", "lost"}
        BY DEF Stage
      <4>2. QED
        BY <3>2, <4>1 DEF Create, Move, TypeInv, PressTypes
    <3>3. CASE SentAgain(p)
      BY <3>3 DEF SentAgain
    <3>4. QED
      BY <1>1, <3>1, <3>2, <3>3
  <2>2. press[p].pc \in {"create", "lost"} /\ subs \in SUBSET Submissions
    BY <1>1 DEF Create, SentAgain, Land, TypeInv, PressTypes, RestTypes
  <2>3. \A s \in press[p].create \ resent : RowsOf(s) = {}
    BY <2>2 DEF NewRows
  <2>4. OneRowEach' /\ \A s : s \notin subs => RowsOf(s)' = RowsOf(s)
    BY <1>0, <2>1, <2>2, <2>3, EnqueueRows
  <2>5. \A q \in Presses : q # p => press'[q].pc \notin {"create", "lost"}
    BY <1>1, <2>2, PressMoves DEF PressStep, OnePress, Pressing
  <2>6. NewRows'
    BY <1>0, <2>1, <2>3, <2>4, <2>5 DEF NewRows
  <2>7. QED
    BY <2>4, <2>6
<1>2. CASE \A p \in Presses : ~ (Create(p) \/ SentAgain(p) \/ Land(p))
  <2>1. (\A s : RowsOf(s)' = RowsOf(s)) /\ OneRowEach'
    BY <1>0, <1>2, NoNewRows, RowsStay, SameRows
  <2>2. ASSUME NEW q \in Presses, press'[q].pc \in {"create", "lost"}, NEW s \in press'[q].create \ resent
        PROVE  RowsOf(s) = {}
    <3>1. CASE press'[q] = press[q]
      BY <2>2, <3>1 DEF NewRows
    <3>2. CASE PressRead(q)
      <4>1. Stage(ToCreate, ToReset).create = ToCreate
        BY DEF Stage
      <4>2. press'[q].create = ToCreate
        BY <3>2, <4>1 DEF PressRead, Move, TypeInv, PressTypes
      <4>3. QED
        BY <2>2, <4>2 DEF ToCreate
    <3>3. CASE Press(q) \/ Reset(q) \/ PressReleases(q) \/ PressDies(q)
      <4>1. Stage({}, {}).pc = "release"
        BY DEF Stage
      <4>2. QED
        BY <2>2, <3>1, <3>3, <4>1 DEF Press, Reset, PressReleases, PressDies, Move, IdlePress, TypeInv, PressTypes
    <3>4. QED
      BY <1>2, <3>1, <3>2, <3>3, OthersPressNot, PressMoves DEF PressStep, Tick
  <2>3. NewRows'
    BY <1>0, <2>1, <2>2 DEF NewRows
  <2>4. QED
    BY <2>1, <2>3
<1>3. QED
  BY <1>1, <1>2

(* At every reachable state, when presses do not meet.                       *)
LEMMA RowsInvariance ==
  ASSUME PressesApart
  PROVE  Spec => [](NewRows /\ OneRowEach)
<1>1. Init => NewRows /\ OneRowEach
  BY DEF Init, NewRows, OneRowEach, IdlePress
<1>2. TypeInv /\ OnePress /\ NewRows /\ OneRowEach /\ [Next]_vars => NewRows' /\ OneRowEach'
  BY RowsKeep
<1>3. QED
  BY <1>1, <1>2, OneAtATime, Types, PTL DEF Spec

(***************************************************************************)
(* The progress line never counts a submission twice, but for what was     *)
(* sent again: one row each, when no press outlives its lease or there is  *)
(* only one.  A second row takes the scheduler's retry of a landed create, *)
(* whatever presses race, die or leave in the air.                         *)
(***************************************************************************)
THEOREM OneRowForEach ==
  ASSUME PressesApart
  PROVE  Spec => []OneRowEach
  BY RowsInvariance, PTL

-----------------------------------------------------------------------------
(* Labels.                                                                   *)

Label(mocked) == IF mocked THEN "sample" ELSE "live"

\* The row of a drain that scores is not a finished one, and the review of a
\* drain that has saved it is what that drain will say it is.
AtScore ==
    \A d \in Drains : drain[d].pc \in {"score", "save"} /\ Sub(d) \notin resent =>
        job[Row(d)].status # "done"
AtDone ==
    \A d \in Drains : drain[d].pc = "done" /\ Sub(d) \notin resent =>
        review[Sub(d)] = Label(drain[d].mocked)

LabelInv == LabelIsTrue /\ AtScore /\ AtDone

(* Drains that stay where they are, over rows and reviews that stay as good. *)
LEMMA LabelsStand ==
  ASSUME TypeInv, LabelInv, [Next]_vars, UNCHANGED review,
         NEW moved \in SUBSET Drains,
         \A d \in moved : drain'[d].pc \notin {"score", "save", "done"},
         \A d \in Drains \ moved : drain'[d] = drain[d],
         \A j \in DOMAIN job : job'[j] = job[j] \/ job'[j].status # "done",
         \A j \in DOMAIN job' \ DOMAIN job : job'[j].status # "done"
  PROVE  LabelInv'
<1>1. ASSUME NEW d \in Drains, drain'[d].pc \in {"score", "save", "done"}
      PROVE  /\ drain'[d] = drain[d] /\ Row(d)' = Row(d) /\ Sub(d)' = Sub(d)
             /\ Row(d) \in DOMAIN job /\ ~ At(d, "idle")
  <2>1. drain'[d] = drain[d] /\ ~ At(d, "idle")
    BY <1>1 DEF At
  <2>2. QED
    BY <2>1, KeepsSub, BusyDrain
<1>0. resent \subseteq resent'
  BY ResentGrows
<1>2. LabelIsTrue'
  BY <1>0, RowsStay DEF LabelInv, LabelIsTrue
<1>3. AtScore'
  BY <1>0, <1>1 DEF LabelInv, AtScore
<1>4. AtDone'
  BY <1>0, <1>1 DEF LabelInv, AtDone
<1>5. QED
  BY <1>2, <1>3, <1>4 DEF LabelInv

(* One drain is somewhere else, the rows and the reviews as good as before.  *)
LEMMA OneMoves ==
  ASSUME TypeInv, LabelInv, [Next]_vars, UNCHANGED review,
         NEW d \in Drains, drain'[d].pc \notin {"score", "save", "done"},
         \A e \in Drains : e # d => drain'[e] = drain[e],
         DOMAIN job' = DOMAIN job,
         \A j \in DOMAIN job : job'[j] = job[j] \/ job'[j].status # "done"
  PROVE  LabelInv'
<1>1. {d} \in SUBSET Drains /\ \A e \in {d} : drain'[e].pc \notin {"score", "save", "done"}
  OBVIOUS
<1>2. /\ \A e \in Drains \ {d} : drain'[e] = drain[e]
      /\ \A j \in DOMAIN job' \ DOMAIN job : job'[j].status # "done"
  OBVIOUS
<1>3. QED
  BY <1>1, <1>2, LabelsStand

(* A press never makes a label false.                                        *)
LEMMA PressLabels ==
  ASSUME TypeInv, LabelInv, [Next]_vars, NEW p \in Presses, PressStep(p)
  PROVE  LabelInv'
<1>1. UNCHANGED <<review, drain>>
  BY DEF PressStep, Press, PressRead, Create, SentAgain, Land, Reset, PressReleases, PressDies
<1>2. /\ \A j \in DOMAIN job : job'[j] = job[j] \/ job'[j].status # "done"
      /\ \A j \in DOMAIN job' \ DOMAIN job : job'[j].status # "done"
  <2>1. CASE Create(p) \/ SentAgain(p) \/ Land(p)
    <3>1. PICK subs \in SUBSET press[p].create : Enqueue(subs)
      BY <2>1 DEF Create, SentAgain, Land
    <3>2. subs \in SUBSET Submissions
      BY DEF TypeInv, PressTypes, RestTypes
    <3>3. /\ \A j \in DOMAIN job : job'[j] = job[j]
          /\ \A j \in DOMAIN job' \ DOMAIN job : \E s \in subs : job'[j] = Queued(s)
      BY <3>1, <3>2, JobAppended DEF TypeInv
    <3>4. QED
      BY <3>3 DEF Queued
  <2>2. CASE Reset(p)
    <3>1. PICK landed : job' = [j \in DOMAIN job |->
                                  IF j \in landed THEN Queued(job[j].submission) ELSE job[j]]
      BY <2>2 DEF Reset
    <3>2. QED
      BY <3>1 DEF Queued
  <2>3. CASE UNCHANGED job
    BY <2>3
  <2>4. QED
    BY <2>1, <2>2, <2>3 DEF PressStep, Press, PressRead, PressReleases, PressDies
<1>3. {} \in SUBSET Drains /\ \A d \in Drains \ {} : drain'[d] = drain[d]
  BY <1>1
<1>4. QED
  BY <1>1, <1>2, <1>3, LabelsStand

(* Two drains at work are at different rows.                                 *)
LEMMA WorkersApart ==
  ASSUME ScoringExclusive,
         NEW d \in Drains, NEW e \in Drains, d # e, drain[d].pc \in Working, drain[e].pc \in Working
  PROVE  Sub(d) # Sub(e) /\ Row(d) # Row(e)
  BY DEF ScoringExclusive, Sub

(* Nor does a drain, if it is alone at its submission's only row.            *)
LEMMA DrainLabels ==
  ASSUME TypeInv, LabelInv, ScoringExclusive, OneRowEach, [Next]_vars, NEW d \in Drains, DrainStep(d)
  PROVE  LabelInv'
<1>1. CASE Start(d) \/ Claim(d) \/ Release(d) \/ Die(d)
  <2>1. UNCHANGED <<job, review>>
    BY <1>1 DEF Start, Claim, Release, Die
  <2>2. CASE Start(d) \/ Release(d) \/ Die(d)
    <3>1. Starts(d) \/ OtherRow(d)
      BY <2>1, <2>2, StartStep, OnwardStep, StopStep DEF Release, Die, At
    <3>2. drain'[d].pc \in {"claim", "idle"} /\ \A e \in Drains : e # d => drain'[e] = drain[e]
      BY <3>1 DEF Starts, OtherRow, NextRow, IdleDrain
    <3>3. QED
      BY <2>1, <3>2, OneMoves
  <2>3. CASE Claim(d)
    <3>1. (SameRow(d) /\ drain'[d].pc = "stamp") \/ OtherRow(d)
      BY <2>1, <2>3, GotoStep, OnwardStep, StopStep DEF Claim, At, Working
    <3>2. /\ drain'[d].pc \in {"claim", "idle", "stamp"}
          /\ \A e \in Drains : e # d => drain'[e] = drain[e]
      BY <3>1 DEF SameRow, OtherRow, NextRow, IdleDrain
    <3>3. QED
      BY <2>1, <3>2, OneMoves
  <2>4. QED
    BY <1>1, <2>2, <2>3
<1>2. CASE Catch(d)
  <2>1. WritesRow(Row(d)) /\ SameRow(d) /\ drain'[d].pc = "release"
        /\ (job'[Row(d)] = job[Row(d)] \/ job'[Row(d)].status = "failed")
    BY <1>2, CatchStep
  <2>2. UNCHANGED review
    BY <1>2 DEF Catch
  <2>3. \A e \in Drains : e # d => drain'[e] = drain[e]
    BY <2>1 DEF SameRow
  <2>4. DOMAIN job' = DOMAIN job /\ \A j \in DOMAIN job : job'[j] = job[j] \/ job'[j].status # "done"
    BY <2>1 DEF WritesRow
  <2>5. QED
    BY <2>1, <2>2, <2>3, <2>4, OneMoves
<1> SUFFICES ASSUME Stamp(d) \/ Score(d) \/ Save(d) \/ Done(d)
             PROVE  LabelInv'
  BY <1>1, <1>2 DEF DrainStep
<1>a. /\ drain[d].pc \in {"stamp", "score", "save", "done"} /\ ~ At(d, "idle")
      /\ resent' = resent
  BY DEF Stamp, Score, Save, Done, At
<1>b. SameRow(d) /\ WritesRow(Row(d))
  <2>1. CASE Stamp(d) \/ Done(d)
    BY <2>1, StampStep, DoneStep
  <2>2. CASE Score(d) \/ Save(d)
    <3>1. UNCHANGED job
      BY <2>2 DEF Score, Save
    <3>2. SameRow(d)
      BY <1>a, <2>2, <3>1, GotoStep DEF Score, Save, Working
    <3>3. QED
      BY <3>1, <3>2 DEF WritesRow, TypeInv
  <2>3. QED
    BY <2>1, <2>2
<1>c. Row(d)' = Row(d) /\ Sub(d)' = Sub(d) /\ Row(d) \in DOMAIN job /\ Sub(d) \in Submissions
      /\ drain'[d].mocked = drain[d].mocked
  BY <1>a, <1>b, KeepsSub, BusyDrain DEF SameRow
<1>d. ASSUME NEW e \in Drains, e # d, drain'[e].pc \in {"score", "save", "done"}
      PROVE  /\ drain'[e] = drain[e] /\ Row(e)' = Row(e) /\ Sub(e)' = Sub(e)
             /\ Sub(e) # Sub(d) /\ Row(e) # Row(d) /\ job'[Row(e)] = job[Row(e)]
  <2>1. drain'[e] = drain[e] /\ ~ At(e, "idle")
    BY <1>b, <1>d DEF SameRow, At
  <2>2. Row(e)' = Row(e) /\ Sub(e)' = Sub(e) /\ Row(e) \in DOMAIN job
    BY <2>1, KeepsSub, BusyDrain
  <2>3. Sub(e) # Sub(d) /\ Row(e) # Row(d)
    BY <1>a, <1>d, <2>1, WorkersApart DEF Working
  <2>4. QED
    BY <1>b, <2>1, <2>2, <2>3 DEF WritesRow
<1>3. CASE Stamp(d) \/ Score(d) \/ Done(d)
  <2>1. UNCHANGED review
    BY <1>3 DEF Stamp, Score, Done
  <2>2. job'[Row(d)].status = "done" =>
          \/ job'[Row(d)] = job[Row(d)]
          \/ job'[Row(d)].mocked = drain[d].mocked /\ drain[d].pc = "done"
    <3>1. CASE Stamp(d)
      BY <3>1, StampStep
    <3>2. CASE Score(d)
      BY <3>2 DEF Score
    <3>3. CASE Done(d)
      BY <3>3, DoneStep DEF Done, At
    <3>4. QED
      BY <1>3, <3>1, <3>2, <3>3
  <2>3. LabelIsTrue'
    <3> SUFFICES ASSUME NEW j \in DOMAIN job, job'[j].status = "done", job[j].submission \notin resent
                 PROVE  review[job[j].submission] = IF job'[j].mocked THEN "sample" ELSE "live"
      BY <1>a, <1>b, <2>1 DEF LabelIsTrue, WritesRow
    <3>1. CASE job'[j] = job[j]
      BY <3>1 DEF LabelInv, LabelIsTrue
    <3>2. CASE job'[j] # job[j]
      <4>1. j = Row(d) /\ job'[j].mocked = drain[d].mocked /\ drain[d].pc = "done"
        BY <1>b, <2>2, <3>2 DEF WritesRow
      <4>2. review[Sub(d)] = Label(drain[d].mocked)
        BY <4>1 DEF LabelInv, AtDone, Sub
      <4>3. QED
        BY <4>1, <4>2 DEF Sub, Label
    <3>3. QED
      BY <3>1, <3>2
  <2>4. AtScore'
    <3>1. drain'[d].pc \in {"score", "save"} /\ Sub(d) \notin resent => job'[Row(d)].status # "done"
      <4>1. CASE Stamp(d)
        BY <4>1, StampStep
      <4>2. CASE Score(d)
        BY <4>2 DEF Score, At, LabelInv, AtScore
      <4>3. CASE Done(d)
        BY <4>3, DoneStep
      <4>4. QED
        BY <1>3, <4>1, <4>2, <4>3
    <3>2. QED
      BY <1>a, <1>c, <1>d, <3>1 DEF LabelInv, AtScore
  <2>5. AtDone'
    <3>1. drain'[d].pc # "done"
      <4>1. CASE Stamp(d) \/ Done(d)
        BY <4>1, StampStep, DoneStep
      <4>2. CASE Score(d)
        BY <1>a, <4>2, GotoStep DEF Score, Working
      <4>3. QED
        BY <1>3, <4>1, <4>2
    <3>2. QED
      BY <1>a, <1>d, <2>1, <3>1 DEF LabelInv, AtDone
  <2>6. QED
    BY <2>3, <2>4, <2>5 DEF LabelInv
<1>4. CASE Save(d)
  <2>1. UNCHANGED job /\ drain[d].pc = "save"
    BY <1>4 DEF Save, At
  <2>2. \A s \in Submissions : s # Sub(d) => review'[s] = review[s]
    BY <1>4 DEF Save, TypeInv, RestTypes
  <2>3. drain'[d].pc \in {"done", "catch"} /\ (drain'[d].pc = "done" => review'[Sub(d)] = Label(drain[d].mocked))
    <3>1. CASE Goto(d, "done") /\ review' = [review EXCEPT ![Sub(d)] = IF drain[d].mocked THEN "sample" ELSE "live"]
      BY <1>a, <1>c, <2>1, <3>1, GotoStep DEF Working, Label, TypeInv, RestTypes
    <3>2. CASE Goto(d, "catch")
      BY <1>a, <2>1, <3>2, GotoStep DEF Working
    <3>3. QED
      BY <1>4, <3>1, <3>2 DEF Save
  <2>4. LabelIsTrue'
    <3> SUFFICES ASSUME NEW j \in DOMAIN job, job[j].status = "done", job[j].submission \notin resent
                 PROVE  review'[job[j].submission] = IF job[j].mocked THEN "sample" ELSE "live"
      BY <1>a, <2>1 DEF LabelIsTrue
    <3>1. job[j].submission \in Submissions
      <4>1. job[j] \in Jobs
        BY DEF TypeInv
      <4>2. QED
        BY <4>1 DEF Jobs
    <3>2. job[j].submission # Sub(d)
      BY <1>c, <2>1 DEF OneRowEach, Sub, LabelInv, AtScore
    <3>3. QED
      BY <2>2, <3>1, <3>2 DEF LabelInv, LabelIsTrue
  <2>5. AtScore'
    BY <1>a, <1>d, <2>1, <2>3 DEF LabelInv, AtScore
  <2>6. AtDone'
    <3>1. ASSUME NEW e \in Drains, e # d, drain'[e].pc = "done", Sub(e)' \notin resent
          PROVE  review'[Sub(e)'] = Label(drain'[e].mocked)
      <4>1. drain'[e] = drain[e] /\ Sub(e)' = Sub(e) /\ Sub(e) # Sub(d)
        BY <1>d, <3>1
      <4>2. Sub(e) \in Submissions
        BY <3>1, <4>1, BusyDrain DEF At
      <4>3. QED
        BY <2>2, <3>1, <4>1, <4>2 DEF LabelInv, AtDone
    <3>2. QED
      BY <1>a, <1>c, <2>3, <3>1 DEF AtDone
  <2>7. QED
    BY <2>4, <2>5, <2>6 DEF LabelInv
<1>5. QED
  BY <1>3, <1>4

(***************************************************************************)
(* A finished row says truly what wrote the review, when no work outlives  *)
(* its lease: what lets a live run replace samples and nothing else.  Of   *)
(* submissions whose create was not sent again, as in the two theorems on  *)
(* drains one after another below.                                         *)
(***************************************************************************)
THEOREM LabelsAreTrue ==
  ASSUME "drain" \notin Slow, PressesApart
  PROVE  Spec => []LabelIsTrue
<1>1. Init => LabelInv
  BY DEF Init, LabelInv, LabelIsTrue, AtScore, AtDone, IdleDrain
<1>2. TypeInv /\ LabelInv /\ ScoringExclusive /\ OneRowEach /\ [Next]_vars => LabelInv'
  <2> SUFFICES ASSUME TypeInv, LabelInv, ScoringExclusive, OneRowEach, [Next]_vars
               PROVE  LabelInv'
    OBVIOUS
  <2>1. CASE (\E s \in Submissions : Assign(s)) \/ GoLive \/ Tick \/ UNCHANGED vars
    <3>1. UNCHANGED <<job, review, drain>>
      BY <2>1 DEF Assign, GoLive, Tick, vars
    <3>2. {} \in SUBSET Drains
      OBVIOUS
    <3>3. QED
      BY <3>1, <3>2, LabelsStand
  <2>2. QED
    BY <2>1, PressLabels, DrainLabels DEF Next, PressStep, DrainStep
<1>3. LabelInv => LabelIsTrue
  BY DEF LabelInv
<1>4. QED
  BY <1>1, <1>2, <1>3, Types, ScoringIsExclusive, OneRowForEach, PTL DEF Spec

-----------------------------------------------------------------------------
(* Drains that do not overlap.                                               *)

OneDrain == \A d, e \in Drains : ~ At(d, "idle") /\ ~ At(e, "idle") => d = e

\* A submission recorded as done has a row, and it says so.
SettledDone == \A s \in settled \ resent : RowsOf(s) # {} /\ \A j \in RowsOf(s) : job[j].status = "done"

\* What a drain still has to do is not settled.
Pending ==
    \A d \in Drains : ~ At(d, "idle") =>
        \A j \in DOMAIN drain[d].seen :
            job[j].submission \in settled \ resent => j = Row(d) /\ At(d, "release")

(* Where a drain step leaves the drain that takes it.                        *)
LEMMA DrainMoves ==
  ASSUME TypeInv, [Next]_vars, NEW d \in Drains, DrainStep(d)
  PROVE  /\ \A e \in Drains : e # d => drain'[e] = drain[e]
         /\ \/ Start(d) /\ Starts(d)
            \/ ~ At(d, "idle") /\ ~ Start(d) /\ SameRow(d) /\ Row(d)' = Row(d) /\ Sub(d)' = Sub(d)
            \/ ~ At(d, "idle") /\ ~ Start(d) /\ OtherRow(d) /\ UNCHANGED job
<1>1. CASE Start(d)
  BY <1>1, StartStep DEF Starts
<1>2. CASE Claim(d) \/ Release(d) \/ Die(d)
  <2>1. ~ At(d, "idle") /\ ~ Start(d) /\ UNCHANGED job
    BY <1>2 DEF Claim, Release, Die, Start, At
  <2>2. SameRow(d) \/ OtherRow(d)
    BY <1>2, <2>1, GotoStep, OnwardStep, StopStep DEF Claim, Release, Die, Working
  <2>3. QED
    BY <2>1, <2>2, KeepsSub DEF SameRow, OtherRow
<1>3. CASE Stamp(d) \/ Done(d) \/ Catch(d) \/ Score(d) \/ Save(d)
  <2>1. ~ At(d, "idle") /\ ~ Start(d)
    BY <1>3 DEF Stamp, Done, Catch, Score, Save, Start, At
  <2>2. SameRow(d)
    <3>1. CASE Stamp(d) \/ Done(d) \/ Catch(d)
      BY <3>1, StampStep, DoneStep, CatchStep
    <3>2. CASE Score(d) \/ Save(d)
      BY <2>1, <3>2, GotoStep DEF Score, Save, Working
    <3>3. QED
      BY <1>3, <3>1, <3>2
  <2>3. QED
    BY <2>1, <2>2, KeepsSub DEF SameRow
<1>4. QED
  BY <1>1, <1>2, <1>3 DEF DrainStep

(* Only a drain step moves a drain.                                          *)
LEMMA OthersDrainNot ==
  ASSUME [Next]_vars
  PROVE  \/ \E d \in Drains : DrainStep(d)
         \/ \E p \in Presses : PressStep(p) /\ UNCHANGED drain
         \/ UNCHANGED <<job, review, drain, calls, settled>>
  BY DEF Next, vars, DrainStep, PressStep, Press, PressRead, Create, SentAgain, Land, Reset, PressReleases,
     PressDies, Assign, GoLive, Tick

(* One drain at a time.                                                      *)
LEMMA OneDrainKeeps ==
  ASSUME ~ Overlap, TypeInv, OneDrain, [Next]_vars
  PROVE  OneDrain'
<1>1. ASSUME NEW d \in Drains, DrainStep(d)
      PROVE  OneDrain'
  <2>1. CASE Start(d)
    BY <1>1, <2>1, DrainMoves DEF Start, OneDrain, At
  <2>2. CASE ~ At(d, "idle")
    BY <1>1, <2>2, DrainMoves DEF OneDrain, At
  <2>3. QED
    BY <1>1, <2>1, <2>2, DrainMoves
<1>2. CASE UNCHANGED drain
  BY <1>2 DEF OneDrain, At
<1>3. QED
  BY <1>1, <1>2, OthersDrainNot

(* A press leaves what is settled done, and what is pending unsettled.       *)
LEMMA PressSettles ==
  ASSUME TypeInv, NewRows, OneRowEach, SettledDone, Pending, [Next]_vars,
         NEW p \in Presses, PressStep(p), UNCHANGED drain
  PROVE  SettledDone' /\ Pending'
<1>0. resent \subseteq resent'
  BY ResentGrows
<1>1. /\ \A s \in settled' \ resent' : s \in settled \ resent /\ RowsOf(s)' = RowsOf(s)
      /\ \A s \in settled' \ resent' : \A j \in RowsOf(s) : job'[j] = job[j]
  <2>1. CASE Create(p) \/ SentAgain(p) \/ Land(p)
    <3>1. PICK subs \in SUBSET press[p].create : Enqueue(subs)
      BY <2>1 DEF Create, SentAgain, Land
    <3>2. subs \in SUBSET Submissions /\ \A s \in subs \ resent' : RowsOf(s) = {}
      BY <1>0, <2>1 DEF Create, SentAgain, Land, NewRows, TypeInv, PressTypes, RestTypes
    <3>3. \A s : s \notin subs => RowsOf(s)' = RowsOf(s)
      BY <1>0, <3>1, <3>2, EnqueueRows
    <3>4. \A j \in DOMAIN job : job'[j] = job[j]
      BY <3>1, <3>2, JobAppended DEF TypeInv
    <3>5. settled' = settled
      BY <2>1 DEF Create, SentAgain, Land
    <3>6. QED
      BY <1>0, <3>2, <3>3, <3>4, <3>5 DEF SettledDone, RowsOf
  <2>2. CASE Reset(p)
    <3>1. PICK landed \in SUBSET press[p].reset :
            /\ job' = [j \in DOMAIN job |-> IF j \in landed THEN Queued(job[j].submission) ELSE job[j]]
            /\ settled' = settled \ {job[j].submission : j \in landed}
      BY <2>2 DEF Reset
    <3>2. /\ DOMAIN job' = DOMAIN job
          /\ \A j \in DOMAIN job : j \notin landed => job'[j] = job[j]
          /\ \A j \in DOMAIN job : job'[j].submission = job[j].submission
      BY <3>1, JobReset DEF TypeInv
    <3>3. \A s : RowsOf(s)' = RowsOf(s)
      BY <3>2, SameRows
    <3>4. QED
      BY <1>0, <3>1, <3>2, <3>3 DEF RowsOf
  <2>3. CASE UNCHANGED <<job, settled>>
    BY <1>0, <2>3 DEF RowsOf
  <2>4. QED
    BY <2>1, <2>2, <2>3 DEF PressStep, Press, PressRead, PressReleases, PressDies
<1>2. SettledDone'
  BY <1>1 DEF SettledDone
<1>3. ASSUME NEW d \in Drains, drain'[d].pc # "idle", NEW j \in DOMAIN drain'[d].seen,
             job'[j].submission \in settled' \ resent'
      PROVE  j = Row(d)' /\ drain'[d].pc = "release"
  <2>1. ~ At(d, "idle") /\ j \in DOMAIN drain[d].seen /\ j \in DOMAIN job
    BY <1>3 DEF At, TypeInv, DrainTypes
  <2>2. job[j].submission \in settled \ resent
    BY <1>1, <1>3, <2>1, RowsStay
  <2>3. QED
    BY <2>1, <2>2, KeepsSub DEF Pending, At
<1>4. QED
  BY <1>2, <1>3 DEF Pending, At

(* A drain that is alone: only it records its row's outcome.                 *)
LEMMA DrainSettles ==
  ASSUME TypeInv, OneRowEach, OneDrain, SettledDone, Pending, [Next]_vars,
         ~ Overlap, NEW d \in Drains, DrainStep(d)
  PROVE  SettledDone' /\ Pending'
<1>a. \A e \in Drains : e # d => drain'[e].pc = "idle"
  <2>1. CASE Start(d)
    BY <2>1, DrainMoves DEF Start, At
  <2>2. CASE ~ At(d, "idle")
    BY <2>2, DrainMoves DEF OneDrain, At
  <2>3. QED
    BY <2>1, <2>2, DrainMoves
<1>0. resent' = resent
  BY DEF DrainStep, Start, Claim, Stamp, Score, Save, Done, Catch, Release, Die
<1>b. Pending' <=> (drain'[d].pc # "idle" => \A j \in DOMAIN drain'[d].seen :
                      job'[j].submission \in settled' \ resent => j = Row(d)' /\ drain'[d].pc = "release")
  BY <1>a, <1>0 DEF Pending, At
<1>1. CASE Start(d)
  <2>1. UNCHANGED <<job, settled>>
    BY <1>1 DEF Start
  <2>2. DOMAIN drain'[d].seen = Eligible /\ \A j \in Eligible : j \in DOMAIN job /\ Attemptable(job[j])
    BY <1>1, StartStep DEF Starts
  <2>3. \A j \in Eligible : job[j].submission \notin settled \ resent
    BY <2>2 DEF SettledDone, RowsOf, Attemptable
  <2>4. SettledDone'
    BY <1>0, <2>1 DEF SettledDone, RowsOf
  <2>5. QED
    BY <1>b, <2>1, <2>2, <2>3, <2>4
<1> SUFFICES ASSUME ~ At(d, "idle"), ~ Start(d)
             PROVE  SettledDone' /\ Pending'
  BY <1>1, DrainMoves
<1>c. Row(d) \in DOMAIN job /\ \A j \in DOMAIN drain[d].seen : j \in DOMAIN job
  BY BusyDrain DEF TypeInv, DrainTypes
<1>2. CASE Claim(d) \/ Release(d) \/ Die(d) \/ Score(d) \/ Save(d)
  <2>1. UNCHANGED <<job, settled>>
    BY <1>2 DEF Claim, Release, Die, Score, Save
  <2>2. SettledDone'
    BY <1>0, <2>1 DEF SettledDone, RowsOf
  <2>3. CASE OtherRow(d)
    BY <1>b, <2>1, <2>2, <2>3 DEF OtherRow, NextRow, IdleDrain, Pending
  <2>4. CASE SameRow(d) /\ Row(d)' = Row(d)
    <3>1. ~ At(d, "release") \/ drain'[d].pc = "release" \/ OtherRow(d)
      <4>1. CASE Release(d)
        BY <2>1, <4>1, OnwardStep DEF Release
      <4>2. CASE Die(d)
        BY <2>1, <4>2, StopStep DEF Die
      <4>3. QED
        BY <1>2, <4>1, <4>2 DEF Claim, Score, Save, At
    <3>2. QED
      BY <1>b, <2>1, <2>2, <2>3, <2>4, <3>1 DEF SameRow, Pending
  <2>5. QED
    BY <2>2, <2>3, <2>4, DrainMoves
<1>3. CASE Stamp(d) \/ Done(d) \/ Catch(d)
  <2>1. ~ At(d, "release")
    BY <1>3 DEF Stamp, Done, Catch, At
  <2>2. Sub(d) \notin settled \ resent
    BY <2>1, BusyDrain DEF Pending, Sub
  <2>3. WritesRow(Row(d)) /\ SameRow(d)
    BY <1>3, StampStep, DoneStep, CatchStep
  <2>4. Row(d)' = Row(d)
    BY <2>3, KeepsSub DEF SameRow
  <2>5. (\A s : RowsOf(s)' = RowsOf(s)) /\ \A s : s # Sub(d) => \A j \in RowsOf(s) : job'[j] = job[j]
    BY <2>3, SameRows DEF WritesRow, RowsOf, Sub
  <2>6. Sub(d) \notin resent => RowsOf(Sub(d)) = {Row(d)}
    BY <1>c DEF RowsOf, Sub, OneRowEach
  <2>7. \/ settled' = settled
        \/ settled' = settled \cup {Sub(d)} /\ job'[Row(d)].status = "done" /\ drain'[d].pc = "release"
    <3>1. CASE Done(d)
      BY <3>1, DoneStep DEF Done
    <3>2. CASE Stamp(d) \/ Catch(d)
      BY <3>2 DEF Stamp, Catch
    <3>3. QED
      BY <1>3, <3>1, <3>2
  <2>8. SettledDone'
    BY <1>0, <2>2, <2>5, <2>6, <2>7 DEF SettledDone
  <2>9. Pending'
    <3> SUFFICES ASSUME NEW j \in DOMAIN drain[d].seen, job'[j].submission \in settled' \ resent
                 PROVE  j = Row(d) /\ drain'[d].pc = "release"
      BY <1>b, <2>3, <2>4 DEF SameRow
    <3>1. /\ j \in DOMAIN job /\ job'[j].submission = job[j].submission
          /\ job[j].submission \notin settled /\ job[j].submission \notin resent
      BY <1>c, <2>1, <2>3 DEF WritesRow, Pending
    <3>2. job[j].submission = Sub(d) /\ drain'[d].pc = "release"
      BY <2>7, <3>1
    <3>3. QED
      BY <1>c, <3>1, <3>2 DEF OneRowEach, Sub
  <2>10. QED
    BY <2>8, <2>9
<1>4. QED
  BY <1>2, <1>3 DEF DrainStep

(***************************************************************************)
(* One submission is not scored twice by drains that do not overlap: what  *)
(* a drain saves was not recorded as done since it was queued.             *)
(***************************************************************************)
THEOREM SavedOnce ==
  ASSUME ~ Overlap, PressesApart
  PROVE  Spec => []NotScoredAgain
<1>1. Init => OneDrain /\ SettledDone /\ Pending
  BY DEF Init, OneDrain, SettledDone, Pending, At, IdleDrain
<1>2. /\ TypeInv /\ NewRows /\ OneRowEach /\ OneDrain /\ SettledDone /\ Pending /\ [Next]_vars
      => OneDrain' /\ SettledDone' /\ Pending'
  <2> SUFFICES ASSUME TypeInv, NewRows, OneRowEach, OneDrain, SettledDone, Pending, [Next]_vars
               PROVE  SettledDone' /\ Pending'
    BY OneDrainKeeps
  <2>1. CASE UNCHANGED <<job, review, drain, calls, settled>>
    BY <2>1, ResentGrows DEF SettledDone, RowsOf, Pending, At, Row
  <2>2. QED
    BY <2>1, PressSettles, DrainSettles, OthersDrainNot
<1>3. TypeInv /\ Pending => NotScoredAgain
  BY BusyDrain DEF Pending, NotScoredAgain, At, Sub
<1>4. QED
  BY <1>1, <1>2, <1>3, Types, RowsInvariance, PTL DEF Spec

-----------------------------------------------------------------------------
(* Model calls.                                                              *)

(***************************************************************************)
(* CallsCapped is not inductive: it says nothing of the attempts.  A row   *)
(* has at most one call more than attempts (a press that resets a row in   *)
(* flight), a listed row no more than that for the attempts it was listed  *)
(* with, and a row about to be scored none more, its attempt having been   *)
(* counted before the call.  All of it for submissions with one row.       *)
(***************************************************************************)
RowCalls ==
    \A j \in DOMAIN job : job[j].submission \notin resent =>
        calls[job[j].submission] <= job[j].attempts + 1
ListedCalls ==
    \A d \in Drains : ~ At(d, "idle") =>
        \A j \in DOMAIN drain[d].seen :
            /\ j # Row(d) \/ drain[d].pc \in {"claim", "stamp"}
            /\ job[j].submission \notin resent
            => calls[job[j].submission] <= drain[d].seen[j] + 1
ScoreCalls ==
    \A d \in Drains : At(d, "score") /\ Sub(d) \notin resent => calls[Sub(d)] <= job[Row(d)].attempts

CallsInv == RowCalls /\ ListedCalls /\ ScoreCalls /\ CallsCapped

(* The numbers involved.                                                     *)
LEMMA CallsNumbers ==
  ASSUME TypeInv
  PROVE  /\ \A s \in Submissions : calls[s] \in Nat
         /\ \A j \in DOMAIN job : /\ job[j] \in Jobs /\ job[j].submission \in Submissions
                                  /\ job[j].attempts \in 0 .. MaxAttempts
         /\ \A d \in Drains : \A j \in DOMAIN drain[d].seen :
              j \in DOMAIN job /\ drain[d].seen[j] \in 0 .. MaxAttempts - 1
<1>1. \A j \in DOMAIN job : job[j] \in Jobs
  BY DEF TypeInv
<1>2. \A j \in DOMAIN job : job[j].submission \in Submissions /\ job[j].attempts \in 0 .. MaxAttempts
  BY <1>1 DEF Jobs
<1>3. \A s \in Submissions : calls[s] \in Nat
  BY NumbersAssumption DEF TypeInv, RestTypes, CallsBound
<1>4. QED
  BY <1>1, <1>2, <1>3, SeenTypes DEF TypeInv, DrainTypes

(* A press forgets calls, and of all the calls of the rows it resets.        *)
LEMMA PressCalls ==
  ASSUME TypeInv, CallsInv, [Next]_vars, NEW p \in Presses, PressStep(p), UNCHANGED drain
  PROVE  CallsInv'
<1>1. /\ \A s \in Submissions : calls'[s] = calls[s] \/ calls'[s] = 0
      /\ \A j \in DOMAIN job : job'[j] = job[j] \/ (calls'[job[j].submission] = 0 /\ job'[j].attempts = 0)
      /\ \A j \in DOMAIN job' \ DOMAIN job : \E s \in Submissions : calls'[s] = 0 /\ job'[j] = Queued(s)
  <2>1. CASE Create(p) \/ SentAgain(p) \/ Land(p)
    <3>1. PICK subs \in SUBSET press[p].create : Enqueue(subs)
      BY <2>1 DEF Create, SentAgain, Land
    <3>2. subs \in SUBSET Submissions
      BY DEF TypeInv, PressTypes, RestTypes
    <3>3. /\ \A j \in DOMAIN job : job'[j] = job[j]
          /\ \A j \in DOMAIN job' \ DOMAIN job : \E s \in subs : job'[j] = Queued(s)
      BY <3>1, <3>2, JobAppended DEF TypeInv
    <3>4. \A s \in Submissions : calls'[s] = IF s \in subs THEN 0 ELSE calls[s]
      BY <3>1 DEF Enqueue
    <3>5. QED
      BY <3>2, <3>3, <3>4
  <2>2. CASE Reset(p)
    <3>1. PICK landed \in SUBSET press[p].reset :
            /\ job' = [j \in DOMAIN job |-> IF j \in landed THEN Queued(job[j].submission) ELSE job[j]]
            /\ calls' = [s \in Submissions |->
                           IF s \in {job[j].submission : j \in landed} THEN 0 ELSE calls[s]]
      BY <2>2 DEF Reset
    <3>2. \A s \in Submissions : calls'[s] = calls[s] \/ calls'[s] = 0
      BY <3>1
    <3>3. \A j \in DOMAIN job : job'[j] = job[j] \/ (j \in landed /\ job'[j].attempts = 0)
      BY <3>1 DEF Queued
    <3>4. \A j \in DOMAIN job : j \in landed => calls'[job[j].submission] = 0
      BY <3>1, CallsNumbers
    <3>5. DOMAIN job' = DOMAIN job
      BY <3>1
    <3>6. QED
      BY <3>2, <3>3, <3>4, <3>5
  <2>3. CASE UNCHANGED <<job, calls>>
    BY <2>3
  <2>4. QED
    BY <2>1, <2>2, <2>3 DEF PressStep, Press, PressRead, PressReleases, PressDies
<1>0. resent \subseteq resent'
  BY ResentGrows
<1>2. \A s \in Submissions : calls'[s] <= calls[s] /\ calls[s] \in Nat /\ calls'[s] \in Nat
  BY <1>1, CallsNumbers
<1>3. RowCalls'
  <2> SUFFICES ASSUME NEW j \in DOMAIN job', job'[j].submission \notin resent'
               PROVE  calls'[job'[j].submission] <= job'[j].attempts + 1
    BY DEF RowCalls
  <2>1. CASE j \in DOMAIN job
    <3>1. /\ job'[j].submission = job[j].submission /\ job[j].submission \in Submissions
          /\ job[j].submission \notin resent
      BY <1>0, <2>1, RowsStay, CallsNumbers
    <3>2. CASE job'[j] = job[j]
      <4>1. calls[job[j].submission] <= job[j].attempts + 1 /\ job[j].attempts \in 0 .. MaxAttempts
        BY <2>1, <3>1, CallsNumbers DEF CallsInv, RowCalls
      <4>2. QED
        BY <1>2, <3>1, <3>2, <4>1, NumbersAssumption
    <3>3. CASE job'[j] # job[j]
      BY <1>1, <2>1, <3>1, <3>3
    <3>4. QED
      BY <3>2, <3>3
  <2>2. CASE j \notin DOMAIN job
    BY <1>1, <2>2 DEF Queued
  <2>3. QED
    BY <2>1, <2>2
<1>4. ListedCalls'
  <2> SUFFICES ASSUME NEW d \in Drains, ~ At(d, "idle"), NEW j \in DOMAIN drain[d].seen,
                      j # Row(d) \/ drain[d].pc \in {"claim", "stamp"},
                      job'[j].submission \notin resent'
               PROVE  calls'[job'[j].submission] <= drain[d].seen[j] + 1
    BY KeepsSub DEF ListedCalls, At
  <2>1. job'[j].submission = job[j].submission /\ job[j].submission \in Submissions
        /\ drain[d].seen[j] \in 0 .. MaxAttempts - 1
    BY RowsStay, CallsNumbers
  <2>2. calls[job[j].submission] <= drain[d].seen[j] + 1
    BY <1>0, <2>1 DEF CallsInv, ListedCalls
  <2>3. QED
    BY <1>2, <2>1, <2>2, NumbersAssumption
<1>5. ScoreCalls'
  <2> SUFFICES ASSUME NEW d \in Drains, At(d, "score"), Sub(d) \notin resent
               PROVE  calls'[Sub(d)] <= job'[Row(d)].attempts
    BY <1>0, KeepsSub DEF ScoreCalls, At
  <2>1. Row(d) \in DOMAIN job /\ Sub(d) \in Submissions /\ Sub(d) = job[Row(d)].submission
    BY BusyDrain DEF At, Sub
  <2>2. calls[Sub(d)] <= job[Row(d)].attempts /\ job[Row(d)].attempts \in 0 .. MaxAttempts
    BY <2>1, CallsNumbers DEF CallsInv, ScoreCalls
  <2>3. CASE job'[Row(d)] = job[Row(d)]
    BY <1>2, <2>1, <2>2, <2>3, NumbersAssumption
  <2>4. CASE job'[Row(d)] # job[Row(d)]
    BY <1>1, <2>1, <2>4
  <2>5. QED
    BY <2>3, <2>4
<1>6. CallsCapped'
  BY <1>0, <1>2, NumbersAssumption DEF CallsInv, CallsCapped
<1>7. QED
  BY <1>3, <1>4, <1>5, <1>6 DEF CallsInv

(* A drain calls after it has counted.                                       *)
LEMMA DrainCalls ==
  ASSUME TypeInv, OneRowEach, OneDrain, CallsInv, [Next]_vars,
         ~ Overlap, NEW d \in Drains, DrainStep(d)
  PROVE  CallsInv'
<1> USE NumbersAssumption
<1>a. \A e \in Drains : e # d => drain'[e].pc = "idle"
  <2>1. CASE Start(d)
    BY <2>1, DrainMoves DEF Start, At
  <2>2. CASE ~ At(d, "idle")
    BY <2>2, DrainMoves DEF OneDrain, At
  <2>3. QED
    BY <2>1, <2>2, DrainMoves
<1>0. resent' = resent
  BY DEF DrainStep, Start, Claim, Stamp, Score, Save, Done, Catch, Release, Die
<1>b. /\ ListedCalls' <=> (drain'[d].pc # "idle" => \A j \in DOMAIN drain'[d].seen :
                             /\ j # Row(d)' \/ drain'[d].pc \in {"claim", "stamp"}
                             /\ job'[j].submission \notin resent
                             => calls'[job'[j].submission] <= drain'[d].seen[j] + 1)
      /\ ScoreCalls' <=> (drain'[d].pc = "score" /\ Sub(d)' \notin resent =>
                            calls'[Sub(d)'] <= job'[Row(d)'].attempts)
  BY <1>0, <1>a DEF ListedCalls, ScoreCalls, At
<1>1. CASE Start(d)
  <2>1. UNCHANGED <<job, calls>>
    BY <1>1 DEF Start
  <2>2. /\ DOMAIN drain'[d].seen = Eligible
        /\ \A j \in Eligible : j \in DOMAIN job /\ drain'[d].seen[j] = job[j].attempts
    BY <1>1, StartStep DEF Starts
  <2>3. RowCalls' /\ CallsCapped'
    BY <1>0, <2>1 DEF CallsInv, RowCalls, CallsCapped
  <2>4. ListedCalls' /\ ScoreCalls'
    <3>1. drain'[d].pc = "claim"
      BY <1>1, StartStep DEF Starts
    <3>2. QED
      BY <1>b, <2>1, <2>2, <3>1 DEF CallsInv, RowCalls
  <2>5. QED
    BY <2>3, <2>4 DEF CallsInv
<1> SUFFICES ASSUME ~ At(d, "idle"), ~ Start(d)
             PROVE  CallsInv'
  BY <1>1, DrainMoves
<1>c. /\ Row(d) \in DOMAIN job /\ Sub(d) \in Submissions /\ Sub(d) = job[Row(d)].submission
      /\ Row(d) \in DOMAIN drain[d].seen
  BY BusyDrain DEF Sub
<1>d. \A j \in DOMAIN drain[d].seen :
        /\ j \in DOMAIN job /\ drain[d].seen[j] \in 0 .. MaxAttempts - 1
        /\ /\ j # Row(d) \/ drain[d].pc \in {"claim", "stamp"}
           /\ job[j].submission \notin resent
           => calls[job[j].submission] <= drain[d].seen[j] + 1
  BY CallsNumbers DEF CallsInv, ListedCalls
<1>2. CASE Claim(d) \/ Release(d) \/ Die(d) \/ Save(d)
  <2>1. UNCHANGED <<job, calls>>
    BY <1>2 DEF Claim, Release, Die, Save
  <2>2. RowCalls' /\ CallsCapped'
    BY <1>0, <2>1 DEF CallsInv, RowCalls, CallsCapped
  <2>3. CASE OtherRow(d)
    BY <1>b, <1>d, <2>1, <2>2, <2>3 DEF OtherRow, NextRow, IdleDrain, CallsInv
  <2>4. CASE SameRow(d) /\ Row(d)' = Row(d)
    <3>1. CASE Claim(d)
      <4>1. drain'[d].pc # "score" \/ OtherRow(d)
        BY <2>1, <3>1, GotoStep, OnwardStep, StopStep DEF Claim, Working
      <4>2. drain[d].pc = "claim"
        BY <3>1 DEF Claim, At
      <4>3. QED
        BY <1>b, <1>d, <2>1, <2>2, <2>3, <2>4, <4>1, <4>2 DEF SameRow, CallsInv
    <3>2. CASE Release(d) \/ Die(d)
      <4>1. OtherRow(d)
        BY <2>1, <3>2, OnwardStep, StopStep DEF Release, Die
      <4>2. QED
        BY <2>3, <4>1
    <3>3. CASE Save(d)
      <4>1. drain'[d].pc \in {"done", "catch"}
        BY <2>1, <3>3, GotoStep DEF Save, Working
      <4>2. QED
        BY <1>b, <1>d, <2>1, <2>2, <2>4, <4>1 DEF SameRow, CallsInv
    <3>4. QED
      BY <1>2, <3>1, <3>2, <3>3
  <2>5. QED
    BY <2>3, <2>4, DrainMoves
<1> SUFFICES ASSUME Stamp(d) \/ Score(d) \/ Done(d) \/ Catch(d)
             PROVE  CallsInv'
  BY <1>2 DEF DrainStep
<1>e. SameRow(d) /\ WritesRow(Row(d)) /\ Row(d)' = Row(d) /\ Sub(d)' = Sub(d)
  <2>1. CASE Stamp(d) \/ Done(d) \/ Catch(d)
    BY <2>1, StampStep, DoneStep, CatchStep, KeepsSub DEF SameRow
  <2>2. CASE Score(d)
    <3>1. UNCHANGED job
      BY <2>2 DEF Score
    <3>2. SameRow(d)
      BY <2>2, <3>1, GotoStep DEF Score, Working
    <3>3. QED
      BY <3>1, <3>2, KeepsSub DEF SameRow, WritesRow, TypeInv
  <2>3. QED
    BY <2>1, <2>2
<1>f. \A j \in DOMAIN job : /\ j # Row(d) /\ Sub(d) \notin resent => job[j].submission # Sub(d)
                            /\ j # Row(d) => job'[j] = job[j]
                            /\ job'[j].submission = job[j].submission
  BY <1>c, <1>e DEF WritesRow, OneRowEach
<1>3. CASE Stamp(d) \/ Done(d) \/ Catch(d)
  <2>1. UNCHANGED calls
    BY <1>3 DEF Stamp, Done, Catch
  <2>2. /\ Sub(d) \notin resent =>
             /\ calls[Sub(d)] <= job'[Row(d)].attempts + 1
             /\ drain'[d].pc = "score" => calls[Sub(d)] <= job'[Row(d)].attempts
        /\ drain'[d].pc \in {"score", "release", "catch"}
    <3>1. CASE Stamp(d)
      <4>1. /\ Sub(d) \notin resent => calls[Sub(d)] <= drain[d].seen[Row(d)] + 1
            /\ drain[d].seen[Row(d)] \in Nat
        BY <1>c, <1>d, <3>1 DEF Stamp, At
      <4>2. Sub(d) \notin resent => calls[Sub(d)] <= job[Row(d)].attempts + 1
        BY <1>c DEF CallsInv, RowCalls
      <4>3. calls[Sub(d)] \in Nat
        BY <1>c, CallsNumbers
      <4>4. QED
        BY <3>1, <4>1, <4>2, <4>3, StampStep
    <3>2. CASE Done(d) \/ Catch(d)
      BY <1>c, <3>2, DoneStep, CatchStep DEF CallsInv, RowCalls
    <3>3. QED
      BY <1>3, <3>1, <3>2
  <2>3. RowCalls'
    BY <1>0, <1>c, <1>e, <1>f, <2>1, <2>2 DEF CallsInv, RowCalls, WritesRow
  <2>4. ListedCalls'
    BY <1>b, <1>d, <1>e, <1>f, <2>1, <2>2 DEF SameRow
  <2>5. ScoreCalls'
    BY <1>b, <1>e, <2>1, <2>2
  <2>6. CallsCapped'
    BY <1>0, <2>1 DEF CallsInv, CallsCapped
  <2>7. QED
    BY <2>3, <2>4, <2>5, <2>6 DEF CallsInv
<1>4. CASE Score(d)
  <2>1. UNCHANGED job /\ drain'[d].pc \in {"save", "catch"}
    BY <1>4, GotoStep DEF Score, Working
  <2>2. /\ \A s \in Submissions : s # Sub(d) => calls'[s] = calls[s]
        /\ calls'[Sub(d)] <= calls[Sub(d)] + 1
    <3>1. calls[Sub(d)] \in Nat
      BY <1>c, CallsNumbers
    <3>2. QED
      BY <1>4, <1>c, <3>1 DEF Score, TypeInv, RestTypes
  <2>3. /\ Sub(d) \notin resent => calls[Sub(d)] <= job[Row(d)].attempts
        /\ job[Row(d)].attempts \in 0 .. MaxAttempts
    BY <1>4, <1>c, CallsNumbers DEF Score, CallsInv, ScoreCalls
  <2>4. calls[Sub(d)] \in Nat /\ calls'[Sub(d)] \in Nat
    <3>1. \A s \in Submissions : calls[s] \in Nat /\ calls'[s] \in Nat
      BY CallsNumbers, NextTypes DEF TypeInv, RestTypes, CallsBound
    <3>2. QED
      BY <1>c, <3>1
  <2>5. Sub(d) \notin resent => calls'[Sub(d)] <= job[Row(d)].attempts + 1 /\ calls'[Sub(d)] <= MaxAttempts + 1
    BY <2>2, <2>3, <2>4
  <2>6. RowCalls'
    <3> SUFFICES ASSUME NEW j \in DOMAIN job, job[j].submission \notin resent
                 PROVE  calls'[job[j].submission] <= job[j].attempts + 1
      BY <1>0, <2>1 DEF RowCalls
    <3>1. job[j].submission \in Submissions
      BY CallsNumbers
    <3>2. QED
      BY <1>c, <1>f, <2>2, <2>5, <3>1 DEF CallsInv, RowCalls
  <2>7. ListedCalls'
    <3> SUFFICES ASSUME NEW j \in DOMAIN drain[d].seen, j # Row(d),
                             job[j].submission \notin resent
                 PROVE  calls'[job[j].submission] <= drain[d].seen[j] + 1
      BY <1>b, <1>e, <2>1 DEF SameRow
    <3>1. j \in DOMAIN job /\ job[j].submission \in Submissions
      BY <1>d, CallsNumbers
    <3>2. job[j].submission # Sub(d)
      BY <1>f, <3>1
    <3>3. calls[job[j].submission] <= drain[d].seen[j] + 1
      BY <1>d
    <3>4. calls'[job[j].submission] = calls[job[j].submission]
      BY <2>2, <3>1, <3>2
    <3>5. QED
      BY <3>3, <3>4
  <2>8. ScoreCalls'
    BY <1>b, <2>1
  <2>9. CallsCapped'
    BY <1>0, <2>2, <2>5 DEF CallsInv, CallsCapped
  <2>10. QED
    BY <2>6, <2>7, <2>8, <2>9 DEF CallsInv
<1>5. QED
  BY <1>3, <1>4

(***************************************************************************)
(* A press buys a submission at most MaxAttempts model calls, and one more *)
(* that was in flight, however often drains die and calls fail, as long as *)
(* drains do not overlap.                                                  *)
(***************************************************************************)
THEOREM CallsAreCapped ==
  ASSUME ~ Overlap, PressesApart
  PROVE  Spec => []CallsCapped
<1>1. Init => OneDrain /\ CallsInv
  BY NumbersAssumption DEF Init, OneDrain, CallsInv, RowCalls, ListedCalls, ScoreCalls, CallsCapped,
     At, IdleDrain
<1>2. TypeInv /\ OneRowEach /\ OneDrain /\ CallsInv /\ [Next]_vars => OneDrain' /\ CallsInv'
  <2> SUFFICES ASSUME TypeInv, OneRowEach, OneDrain, CallsInv, [Next]_vars
               PROVE  CallsInv'
    BY OneDrainKeeps
  <2>1. CASE UNCHANGED <<job, review, drain, calls, settled>>
    BY <2>1, ResentGrows DEF CallsInv, RowCalls, ListedCalls, ScoreCalls, CallsCapped, At, Row, Sub
  <2>2. QED
    BY <2>1, PressCalls, DrainCalls, OthersDrainNot
<1>3. CallsInv => CallsCapped
  BY DEF CallsInv
<1>4. QED
  BY <1>1, <1>2, <1>3, Types, OneRowForEach, PTL DEF Spec
=============================================================================
