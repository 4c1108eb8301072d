------------------------------ MODULE Prescreen -----------------------------
(***************************************************************************)
(* The AI pre-screen of one review round: presses of the button that queue *)
(* the round's submissions, and drains that score what is queued.          *)
(*                                                                         *)
(* A job row is one submission to score.  The base has no uniqueness       *)
(* constraint, so nothing but the presses' claim on the round keeps two    *)
(* rows for one submission away.  A drain lists the rows once, then takes  *)
(* the claim of each row's SUBMISSION, scores it, records the outcome and  *)
(* hands the claim back; all it knows of a row is what the listing said.   *)
(*                                                                         *)
(* Every call can fail, carried out or not; a drain or a press can die     *)
(* between any two calls; a press's rejected create can still land later.  *)
(* The scheduler under every call sends a create again when its answer is   *)
(* lost, so one create can also land twice.                                *)
(* Leases are sized to outlast the work they cover.  Slow names who may    *)
(* nevertheless outlive one.                                               *)
(***************************************************************************)
EXTENDS ClaimKey, Integers, FiniteSets, Sequences

CONSTANTS Submissions,
          Drains, Presses,  \* the invocations, holders of their claims
          MaxAttempts,      \* PRESCREEN_MAX_ATTEMPTS
          Batch,            \* PRESCREEN_BATCH
          MaxJobs,          \* bound: how many rows creates sent again may reach
          Lease,            \* both leases, in ticks
          Overlap,          \* may a drain start while another one is running?
          Slow,             \* those of "drain" and "press" that may outlive a lease
          Sample            \* does the deployment start under the keyless sample?

ASSUME InvocationsAssumption == Drains \subseteq Holders /\ Presses \subseteq Holders
ASSUME SubmissionsAssumption == IsFiniteSet(Submissions)
ASSUME NumbersAssumption == MaxAttempts \in Nat \ {0} /\ Batch \in Nat \ {0} /\ Lease \in Nat \ {0}
                           /\ MaxJobs \in Nat
ASSUME ModesAssumption == Overlap \in BOOLEAN /\ Slow \subseteq {"drain", "press"} /\ Sample \in BOOLEAN

VARIABLES job,       \* the rows, in queue order
          review,    \* [Submissions -> the AI review on the board]
          assigned,  \* the submissions with a reviewer in the round
          sample,    \* isAiMocked(), of the deployment
          claim,     \* [Submissions -> the ClaimGuard record]
          round,     \* the ClaimGuard record of the round
          drain,     \* [Drains -> where that invocation is]
          press,     \* [Presses -> where that invocation is]
          calls,     \* [Submissions -> model calls since it was queued], history
          settled,   \* the submissions recorded as done since, history
          resent     \* those whose create landed and was sent again, history

vars == <<job, review, assigned, sample, claim, round, drain, press, calls, settled, resent>>

\* calls stops counting here: a call too many is seen, a thousand need not be.
CallsBound == MaxAttempts + 2

Jobs == [submission : Submissions, status : {"queued", "running", "done", "failed"},
         attempts : 0 .. MaxAttempts, mocked : BOOLEAN]

\* prescreenJobFields
Queued(s) == [submission |-> s, status |-> "queued", attempts |-> 0, mocked |-> FALSE]

\* seen maps the rows left of the drain's batch to the attempts they had.
IdleDrain == [pc |-> "idle", seen |-> << >>, mocked |-> FALSE]
IdlePress == [pc |-> "idle", create |-> {}, reset |-> {}]

Working == {"stamp", "score", "save", "done", "catch"}

TypeOK ==
    /\ job \in Seq(Jobs)
    /\ review \in [Submissions -> {"none", "sample", "live"}]
    /\ assigned \subseteq Submissions
    /\ sample \in BOOLEAN
    /\ claim \in [Submissions -> Claims] /\ round \in Claims
    /\ \A d \in Drains : /\ drain[d].pc \in {"idle", "claim", "release"} \cup Working
                         /\ DOMAIN drain[d].seen \subseteq DOMAIN job
                         /\ \A j \in DOMAIN drain[d].seen : drain[d].seen[j] \in 0 .. MaxAttempts - 1
                         /\ drain[d].pc # "idle" => DOMAIN drain[d].seen # {}
    /\ \A p \in Presses : /\ press[p].pc \in {"idle", "read", "create", "lost", "reset", "release"}
                          /\ press[p].create \subseteq assigned
                          /\ press[p].reset \subseteq DOMAIN job
    /\ calls \in [Submissions -> 0 .. CallsBound]
    /\ settled \subseteq Submissions /\ resent \subseteq Submissions

Init ==
    /\ job = << >>
    /\ review = [s \in Submissions |-> "none"]
    /\ assigned = {}
    /\ sample = Sample
    /\ claim = [s \in Submissions |-> NoClaim]
    /\ round = NoClaim
    /\ drain = [d \in Drains |-> IdleDrain]
    /\ press = [p \in Presses |-> IdlePress]
    /\ calls = [s \in Submissions |-> 0]
    /\ settled = {}
    /\ resent = {}
-----------------------------------------------------------------------------
(* The queue's policy.                                                      *)

\* Mutant of Attemptable: done is not looked at.
AttemptableDone(r) == r.attempts < MaxAttempts

\* A row left running by a drain that died has to be attempted again.
Attemptable(r) == r.status # "done" /\ r.attempts < MaxAttempts

Stopped(r) == r.status # "done" /\ ~ Attemptable(r)

First(rows, n) == {j \in rows : Cardinality({i \in rows : i < j}) < n}

\* Mutant of Eligible: a row somebody is said to be running is left alone.
EligibleAtRest ==
    First({j \in DOMAIN job : Attemptable(job[j]) /\ job[j].status # "running"}, Batch)

\* eligiblePrescreenJobs
Eligible == First({j \in DOMAIN job : Attemptable(job[j])}, Batch)

RowsOf(s) == {j \in DOMAIN job : job[j].submission = s}

\* requeueableJobId: the oldest row, if all of them have stopped, or if all are
\* samples and this is a live run.
Requeueable(s) ==
    IF \/ \A j \in RowsOf(s) : Stopped(job[j])
       \/ ~ sample /\ \A j \in RowsOf(s) : job[j].mocked
      THEN First(RowsOf(s), 1)
      ELSE {}

\* prescreenTargets
ToCreate == {s \in assigned : RowsOf(s) = {} /\ review[s] = "none"}
ToReset == UNION {Requeueable(s) : s \in {s \in assigned : RowsOf(s) # {}}}
-----------------------------------------------------------------------------
(* A press: claim the round, read, create, reset, release.                  *)

Move(p, next) == press' = [press EXCEPT ![p] = next]

\* The next call of a press that has create and reset still to do.
Stage(create, reset) ==
    [pc |-> IF create # {} THEN "create" ELSE IF reset # {} THEN "reset" ELSE "release",
     create |-> create, reset |-> reset]

Press(p) ==
    /\ press[p].pc = "idle"
    /\ ~ (Live(round) /\ round.holder = p)
    /\ \/ /\ round' = AfterClaim(round, p, Lease)
          /\ \/ Grants(round, p) /\ Move(p, [IdlePress EXCEPT !.pc = "read"])
             \/ UNCHANGED press
       \/ UNCHANGED <<round, press>>
    /\ UNCHANGED <<job, review, assigned, sample, claim, drain, calls, settled, resent>>

\* Mutant of PressRead: the round is handed back once the reads are done.
PressReadReleases(p) ==
    /\ press[p].pc = "read"
    /\ Move(p, Stage(ToCreate, ToReset))
    /\ round' = AfterRelease(round, p)
    /\ UNCHANGED <<job, review, assigned, sample, claim, drain, calls, settled, resent>>

PressRead(p) ==
    /\ press[p].pc = "read"
    /\ Move(p, Stage(ToCreate, ToReset))
    /\ UNCHANGED <<job, review, assigned, sample, claim, round, drain, calls, settled, resent>>

\* New rows for these submissions, in some order.
Enqueue(subs) ==
    /\ \E order \in [1 .. Cardinality(subs) -> subs] :
         /\ \A s \in subs : \E i \in DOMAIN order : order[i] = s
         /\ job' = job \o [i \in DOMAIN order |-> Queued(order[i])]
    /\ calls' = [s \in Submissions |-> IF s \in subs THEN 0 ELSE calls[s]]

\* enqueuePrescreenJobs, batch by batch.  Rejected, the press is over, and what
\* is missing may still land.
Create(p) ==
    /\ press[p].pc = "create"
    /\ \/ /\ Enqueue(press[p].create)
          /\ Move(p, Stage({}, press[p].reset))
       \/ \E landed \in SUBSET press[p].create :
            /\ Enqueue(landed)
            /\ Move(p, [pc |-> "lost", create |-> press[p].create \ landed, reset |-> {}])
    /\ UNCHANGED <<review, assigned, sample, claim, round, drain, settled, resent>>

\* The scheduler's retry: a sending of the create has landed whose answer is lost,
\* and the press, or what it left in the air, is about to send it again.
SentAgain(p) ==
    /\ press[p].pc \in {"create", "lost"}
    /\ \E landed \in SUBSET press[p].create \ {{}} :
         /\ Len(job) + Cardinality(landed) <= MaxJobs
         /\ Enqueue(landed)
         /\ resent' = resent \cup landed
    /\ UNCHANGED <<review, assigned, sample, claim, round, drain, press, settled>>

Land(p) ==
    /\ press[p].pc = "lost"
    /\ \E landed \in SUBSET press[p].create : Enqueue(landed)
    /\ Move(p, IdlePress)
    /\ UNCHANGED <<review, assigned, sample, claim, round, drain, settled, resent>>

\* resetPrescreenJobs
Reset(p) ==
    /\ press[p].pc = "reset"
    /\ \E landed \in SUBSET press[p].reset :
         LET subs == {job[j].submission : j \in landed}
         IN  /\ job' = [j \in DOMAIN job |->
                          IF j \in landed THEN Queued(job[j].submission) ELSE job[j]]
             /\ calls' = [s \in Submissions |-> IF s \in subs THEN 0 ELSE calls[s]]
             /\ settled' = settled \ subs
             /\ \/ landed = press[p].reset /\ Move(p, Stage({}, {}))
                \/ Move(p, IdlePress)
    /\ UNCHANGED <<review, assigned, sample, claim, round, drain, resent>>

PressReleases(p) ==
    /\ press[p].pc = "release"
    /\ round' \in {round, AfterRelease(round, p)}
    /\ Move(p, IdlePress)
    /\ UNCHANGED <<job, review, assigned, sample, claim, drain, calls, settled, resent>>

PressDies(p) ==
    /\ press[p].pc # "idle"
    /\ Move(p, IdlePress)
    /\ UNCHANGED <<job, review, assigned, sample, claim, round, drain, calls, settled, resent>>
-----------------------------------------------------------------------------
(* A drain.                                                                 *)

\* The row a drain is at, and its submission.
Row(d) == CHOOSE j \in DOMAIN drain[d].seen : \A i \in DOMAIN drain[d].seen : j <= i
Sub(d) == job[Row(d)].submission

At(d, stage) == drain[d].pc = stage
Go(d, next) == drain' = [drain EXCEPT ![d] = next]
Goto(d, stage) == Go(d, [drain[d] EXCEPT !.pc = stage])

\* On to the next row of the batch, or over.
Onward(d) ==
    LET left == DOMAIN drain[d].seen \ {Row(d)}
    IN  Go(d, IF left = {} THEN IdleDrain
              ELSE [drain[d] EXCEPT !.pc = "claim", !.seen = [j \in left |-> @[j]]])

Start(d) ==
    /\ At(d, "idle")
    /\ \A s \in Submissions : ~ (Live(claim[s]) /\ claim[s].holder = d)
    /\ Overlap \/ \A e \in Drains : At(e, "idle")
    /\ Eligible # {}
    /\ Go(d, [pc |-> "claim", seen |-> [j \in Eligible |-> job[j].attempts], mocked |-> sample])
    /\ UNCHANGED <<job, review, assigned, sample, claim, round, press, calls, settled, resent>>

\* Granted, denied (the row is somebody else's), or thrown, which ends the drain.
Claim(d) ==
    /\ At(d, "claim")
    /\ \/ /\ claim' = [claim EXCEPT ![Sub(d)] = AfterClaim(@, d, Lease)]
          /\ \/ Grants(claim[Sub(d)], d) /\ Goto(d, "stamp")
             \/ ~ Grants(claim[Sub(d)], d) /\ Onward(d)
             \/ Go(d, IdleDrain)
       \/ Go(d, IdleDrain) /\ UNCHANGED claim
    /\ UNCHANGED <<job, review, assigned, sample, round, press, calls, settled, resent>>

\* updateJob: the patched row is written and the drain goes on as ok says, or
\* the call fails, the row written or not, and it goes on as failed says.
Update(d, patched, ok, failed) ==
    \/ job' = [job EXCEPT ![Row(d)] = patched] /\ Goto(d, ok)
    \/ job' \in {job, [job EXCEPT ![Row(d)] = patched]} /\ Goto(d, failed)

\* Mutant of Stamp: the attempt is not counted before the call.
StampUncounted(d) ==
    /\ At(d, "stamp")
    /\ Update(d, [job[Row(d)] EXCEPT !.status = "running"], "score", "release")
    /\ UNCHANGED <<review, assigned, sample, claim, round, press, calls, settled, resent>>

\* A throw from this first write leaves runOne without a second one.
Stamp(d) ==
    /\ At(d, "stamp")
    /\ Update(d, [job[Row(d)] EXCEPT !.status = "running", !.attempts = drain[d].seen[Row(d)] + 1],
              "score", "release")
    /\ UNCHANGED <<review, assigned, sample, claim, round, press, calls, settled, resent>>

\* Reading the round and the submission may fail before the model is called,
\* and the model's answer may be refused.
Score(d) ==
    /\ At(d, "score")
    /\ \/ /\ calls' = [calls EXCEPT ![Sub(d)] = IF @ = CallsBound THEN @ ELSE @ + 1]
          /\ Goto(d, "save") \/ Goto(d, "catch")
       \/ Goto(d, "catch") /\ UNCHANGED calls
    /\ UNCHANGED <<job, review, assigned, sample, claim, round, press, settled, resent>>

Save(d) ==
    /\ At(d, "save")
    /\ \/ /\ review' = [review EXCEPT ![Sub(d)] = IF drain[d].mocked THEN "sample" ELSE "live"]
          /\ Goto(d, "done") \/ Goto(d, "catch")
       \/ Goto(d, "catch") /\ UNCHANGED review
    /\ UNCHANGED <<job, assigned, sample, claim, round, press, calls, settled, resent>>

\* Mutant of Done: the row does not say what wrote the review.
DoneUnlabelled(d) ==
    /\ At(d, "done")
    /\ Update(d, [job[Row(d)] EXCEPT !.status = "done"], "release", "catch")
    /\ settled' = IF drain'[d].pc = "release" THEN settled \cup {Sub(d)} ELSE settled
    /\ UNCHANGED <<review, assigned, sample, claim, round, press, calls, resent>>

Done(d) ==
    /\ At(d, "done")
    /\ Update(d, [job[Row(d)] EXCEPT !.status = "done", !.mocked = drain[d].mocked],
              "release", "catch")
    /\ settled' = IF drain'[d].pc = "release" THEN settled \cup {Sub(d)} ELSE settled
    /\ UNCHANGED <<review, assigned, sample, claim, round, press, calls, resent>>

Catch(d) ==
    /\ At(d, "catch")
    /\ Update(d, [job[Row(d)] EXCEPT !.status = "failed"], "release", "release")
    /\ UNCHANGED <<review, assigned, sample, claim, round, press, calls, settled, resent>>

\* releaseClaim reports a failure and the drain ignores it.
Release(d) ==
    /\ At(d, "release")
    /\ claim' \in {claim, [claim EXCEPT ![Sub(d)] = AfterRelease(@, d)]}
    /\ Onward(d)
    /\ UNCHANGED <<job, review, assigned, sample, round, press, calls, settled, resent>>

Die(d) ==
    /\ ~ At(d, "idle")
    /\ Go(d, IdleDrain)
    /\ UNCHANGED <<job, review, assigned, sample, claim, round, press, calls, settled, resent>>
-----------------------------------------------------------------------------
(* Around them: an organizer assigns reviewers, the deployment gets a key,  *)
(* time passes.                                                             *)

Assign(s) ==
    /\ s \notin assigned
    /\ assigned' = assigned \cup {s}
    /\ UNCHANGED <<job, review, sample, claim, round, drain, press, calls, settled, resent>>

GoLive ==
    /\ sample
    /\ sample' = FALSE
    /\ UNCHANGED <<job, review, assigned, claim, round, drain, press, calls, settled, resent>>

\* Work that must not be outlived: a drain's between its claim and the outcome,
\* a press's until nothing of it is in the air.
Lapsing(c, h) == c.holder = h /\ c.left = 1

Tick ==
    /\ "drain" \notin Slow =>
         \A d \in Drains : drain[d].pc \in Working => ~ Lapsing(claim[Sub(d)], d)
    /\ "press" \notin Slow =>
         \A p \in Presses : press[p].pc \notin {"idle", "release"} => ~ Lapsing(round, p)
    /\ claim' = [s \in Submissions |-> Aged(claim[s])]
    /\ round' = Aged(round)
    /\ UNCHANGED <<job, review, assigned, sample, drain, press, calls, settled, resent>>

Next ==
    \/ \E p \in Presses :
         \/ Press(p) \/ PressRead(p) \/ Create(p) \/ SentAgain(p) \/ Land(p)
         \/ Reset(p) \/ PressReleases(p) \/ PressDies(p)
    \/ \E d \in Drains :
         \/ Start(d) \/ Claim(d) \/ Stamp(d) \/ Score(d) \/ Save(d) \/ Done(d)
         \/ Catch(d) \/ Release(d) \/ Die(d)
    \/ \E s \in Submissions : Assign(s)
    \/ GoLive
    \/ Tick

Spec == Init /\ [][Next]_vars

\* Cron starts drains again and again, a drain that is not killed goes on, time
\* passes (Tick has to wait for work in a lease, again and again), and neither the
\* guard nor Airtable is down forever.  Nobody has to press.
FairSpec ==
    /\ Spec
    /\ SF_vars(Tick)
    /\ WF_vars(\E d \in Drains : Start(d))
    /\ \A d \in Drains :
         /\ WF_vars(Claim(d) \/ Stamp(d) \/ Score(d) \/ Save(d) \/ Done(d) \/ Catch(d) \/ Release(d))
         /\ SF_vars(Claim(d) /\ drain'[d].pc = "stamp")
         /\ SF_vars(Stamp(d) /\ job' # job)
-----------------------------------------------------------------------------
(***************************************************************************)
(* "Two overlapping ticks cannot double-score": no two drains are between  *)
(* the claim and the outcome of one submission at once, as long as none    *)
(* outlives its lease.                                                     *)
(***************************************************************************)
ScoringExclusive ==
    \A d, e \in Drains : drain[d].pc \in Working /\ drain[e].pc \in Working /\ d # e =>
        Sub(d) # Sub(e)

(***************************************************************************)
(* A finished row says truly what wrote the review on the board.  A live   *)
(* run may replace a sample only because that label can be trusted.  Two   *)
(* rows from a create sent again have one review between them, and one may *)
(* be scored under the sample, the other by the model.                     *)
(***************************************************************************)
LabelIsTrue ==
    \A j \in DOMAIN job : job[j].status = "done" /\ job[j].submission \notin resent =>
        review[job[j].submission] = IF job[j].mocked THEN "sample" ELSE "live"

(***************************************************************************)
(* The progress line never reads "33 of 32": no submission has two rows,   *)
(* whatever presses race, die, fail or leave in the air, as long as none   *)
(* outlives its lease, unless the scheduler sent its create again after a  *)
(* first sending had landed.                                               *)
(***************************************************************************)
OneRowEach ==
    \A i, j \in DOMAIN job :
        job[i].submission = job[j].submission => i = j \/ job[i].submission \in resent

(***************************************************************************)
(* The same without the exception, which is what the claim on the round is *)
(* meant for: "the round would read as 33 of 32 and never finish".         *)
(***************************************************************************)
OneRow == \A i, j \in DOMAIN job : job[i].submission = job[j].submission => i = j

(***************************************************************************)
(* One press buys a submission MaxAttempts model calls, whatever dies or   *)
(* fails, and one more if its last attempt was still in flight when it was *)
(* pressed: the row looks stopped by then.  For drains that do not overlap *)
(* and submissions with one row: a second row buys as many again.          *)
(***************************************************************************)
CallsCapped == \A s \in Submissions \ resent : calls[s] <= MaxAttempts + 1

(***************************************************************************)
(* One submission is not scored twice: a drain never saves a review of a   *)
(* submission that another drain has scored and recorded as done, unless   *)
(* it has a second row.  The code keeps this for drains that do not overlap*)
(***************************************************************************)
NotScoredAgain == \A d \in Drains : drain[d].pc = "save" => Sub(d) \notin settled \ resent

(***************************************************************************)
(* "mocked is written when a run FINISHES": only a row that is done has it.*)
(***************************************************************************)
MockedMeansDone == \A j \in DOMAIN job : job[j].mocked => job[j].status = "done"

(***************************************************************************)
(* The progress line ends: a submission with a row to attempt is scored or *)
(* given up in the end, whatever crashes and whatever calls fail.          *)
(***************************************************************************)
Outstanding(s) == \E j \in RowsOf(s) : Attemptable(job[j])

RoundSettles == \A s \in Submissions : Outstanding(s) ~> ~ Outstanding(s)
=============================================================================
