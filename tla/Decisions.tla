------------------------------ MODULE Decisions ------------------------------
(***************************************************************************)
(* One submission's decision: the presses that move its status             *)
(* (features/submissions/decisions.ts, the two speaker presses of          *)
(* features/portal/actions.ts), the decision mail Notify queues before it  *)
(* commits the status, and the webhook announcement that follows every     *)
(* status write (commit-status.ts).                                        *)
(*                                                                         *)
(* A press reads the submission from the cached list, decides from that    *)
(* copy, and writes without reading again; several presses may be at work  *)
(* at once. The cached copy is dropped by the invalidation that follows a  *)
(* write that answered, or when it lapses. A call may fail, before or      *)
(* after what it does has landed, and a press may end anywhere.            *)
(***************************************************************************)
EXTENDS Naturals, FiniteSets

CONSTANTS
    Callers,     \* the requests that may be at work at once
    Cast,        \* the speakers of the submission
    Submitter,   \* who filed it: one of them, or somebody who is not on the cast
    MaxPresses,  \* bound: presses in a behaviour
    MaxFaults    \* bound: calls that fail, requests that die

ASSUME DecisionsAssumption ==
    /\ IsFiniteSet(Cast)
    /\ MaxPresses \in Nat
    /\ MaxFaults \in Nat

VARIABLES
    row,        \* the submission in the base: its status and notifiedAt
    list,       \* the cached copy of it, or Expired
    press,      \* what each caller is doing
    mails,      \* the decision mails in the outbox, by idempotency key
    announced,  \* the statuses webhooks were queued for, by occurrence key
    presses,    \* presses so far; also the clock that stamps them
    faults,     \* faults so far
    told,       \* history: the last decision mailed to each speaker
    staged,     \* history: how often the status became each queue
    held        \* history: the statuses that were written

vars == <<row, list, press, mails, announced, presses, faults, told, staged, held>>

history == <<told, staged, held>>

Decisions == {"accept", "decline"}

\* SUBMISSION_TRANSITIONS of constants/status.ts.
LegalNext ==
    [draft         |-> {"pending", "withdrawn"},
     pending       |-> {"accept_queue", "decline_queue", "withdrawn"},
     accept_queue  |-> {"pending", "decline_queue", "accepted", "withdrawn"},
     decline_queue |-> {"pending", "accept_queue", "declined", "withdrawn"},
     accepted      |-> {"withdrawn", "decline_queue"},
     declined      |-> {"pending", "accept_queue"},
     withdrawn     |-> {"pending"}]

Status == DOMAIN LegalNext

\* A status, or nothing to write.
NoMove == "none"

\* notifiedAt before the first notification.
Never == 0

Rows == [status : Status, notifiedAt : 0..MaxPresses]

Expired == [status |-> NoMove, notifiedAt |-> Never]

Mails == [to : Cast, decision : Decisions, epoch : 0..MaxPresses]

-----------------------------------------------------------------------------
(* The rules of transitions.ts. *)

CanTransition(from, to) == from = to \/ to \in LegalNext[from]

QueueTarget(decision) ==
    IF decision = "accept" THEN "accept_queue" ELSE "decline_queue"

CommitTarget(from) ==
    CASE from = "accept_queue" -> "accepted"
      [] from = "decline_queue" -> "declined"
      [] OTHER -> NoMove

DecisionOf(committed) ==
    CASE committed = "accepted" -> "accept"
      [] committed = "declined" -> "decline"
      [] OTHER -> "none"

\* "The notified row moves again": mutant of NotifyTarget.
NotifyTargetAgain(r) ==
    IF CommitTarget(r.status) # NoMove THEN CommitTarget(r.status) ELSE
    IF DecisionOf(r.status) = "none" THEN NoMove ELSE r.status

\* What Notify would commit the row to. A row decided without Notify has
\* nothing to move and a mail owed; one that was notified has neither.
NotifyTarget(r) ==
    IF CommitTarget(r.status) # NoMove THEN CommitTarget(r.status) ELSE
    IF r.notifiedAt # Never \/ DecisionOf(r.status) = "none"
    THEN NoMove ELSE r.status

\* An acceptance goes to everybody on the submission, a decline to the one of
\* them who filed it, so to nobody when that is somebody else.
DecisionAudience(decision) == IF decision = "accept" THEN Cast ELSE Cast \cap {Submitter}

-----------------------------------------------------------------------------
(* The presses. A press names what it asks for; Target is what it would write *)
(* on the row it read, or NoMove when it refuses, skips or has nothing to do. *)

Asks ==
    [kind : {"stage"}, to : {QueueTarget(d) : d \in Decisions}]
    \cup [kind : {"chip"}, to : Status]
    \cup [kind : {"notify", "submit", "withdraw"}, to : {NoMove}]

Target(ask, r) ==
    CASE ask.kind \in {"stage", "chip"} ->
            IF ask.to # r.status /\ CanTransition(r.status, ask.to)
            THEN ask.to ELSE NoMove
      [] ask.kind = "notify" -> NotifyTarget(r)
      [] ask.kind = "submit" ->
            IF r.status = "draft" THEN "pending" ELSE NoMove
      [] ask.kind = "withdraw" ->
            IF r.status \in {"draft", "pending"} THEN "withdrawn" ELSE NoMove

Idle == [at |-> "idle"]

\* A press at work: where it stands, the row it read, the status it will
\* write, the instant it stamps (Never unless it is a Notify), the keys it
\* found missing, and whether no other press has been at work meanwhile.
Working ==
    [at : {"keys", "queue", "write", "announce"}, read : Rows, target : Status,
     stamp : 0..MaxPresses, fresh : SUBSET Mails, alone : BOOLEAN]

Init ==
    /\ row \in [status : {"draft", "pending"}, notifiedAt : {Never}]
    /\ list = Expired
    /\ press = [c \in Callers |-> Idle]
    /\ mails = {} /\ announced = {} /\ held = {}
    /\ presses = 0 /\ faults = 0
    /\ told = [p \in Cast |-> "none"]
    /\ staged = [d \in Decisions |-> 0]

AllIdle == \A c \in Callers : press[c] = Idle

\* The others learn that they are not alone.
Disturbed(c) ==
    [b \in Callers |->
        IF b # c /\ press[b] # Idle THEN [press[b] EXCEPT !.alone = FALSE]
        ELSE press[b]]

\* A press reads the list, from the cache when it holds it, and decides.
Press(c, ask) ==
    LET read == IF list = Expired THEN row ELSE list
        target == Target(ask, read)
        notify == ask.kind = "notify"
    IN  /\ press[c] = Idle
        /\ presses < MaxPresses
        /\ target # NoMove
        /\ presses' = presses + 1
        /\ list' = read
        /\ press' = [Disturbed(c) EXCEPT ![c] =
                [at |-> IF notify THEN "keys" ELSE "write",
                 read |-> read, target |-> target,
                 stamp |-> IF notify THEN presses' ELSE Never,
                 fresh |-> {}, alone |-> AllIdle]]
        /\ UNCHANGED <<row, mails, announced, faults, history>>

-----------------------------------------------------------------------------
(* Notify queues the mail first. *)

\* "A fresh instant in every key": mutant of KeyEpoch.
KeyEpochNow(w) == w.stamp

\* The epoch in the key: the notification that is being superseded.
KeyEpoch(w) == w.read.notifiedAt

\* decisionOutboxRows: a mail per recipient.
Wanted(w) ==
    [to : DecisionAudience(DecisionOf(w.target)),
     decision : {DecisionOf(w.target)}, epoch : {KeyEpoch(w)}]

\* "One key found is all found": mutant of Missing.
MissingAll(wanted, known) == IF wanted \cap known = {} THEN wanted ELSE {}

Missing(wanted, known) == wanted \ known

\* existingOutboxKeys: with nothing missing there is nothing to write.
ReadKeys(c) ==
    LET fresh == Missing(Wanted(press[c]), mails) IN
    /\ press[c].at = "keys"
    /\ press' = [press EXCEPT ![c].fresh = fresh,
                              ![c].at = IF fresh = {} THEN "write" ELSE "queue"]
    /\ UNCHANGED <<row, list, mails, announced, presses, faults, history>>

\* The upsert of some rows: a key that has appeared meanwhile is merged.
Upsert(rows) ==
    LET new == rows \ mails
        hit == {m.to : m \in new}
    IN  /\ mails' = mails \cup new
        /\ told' = [p \in Cast |->
                IF p \in hit THEN (CHOOSE m \in new : m.to = p).decision
                ELSE told[p]]

QueueMail(c) ==
    /\ press[c].at = "queue"
    /\ Upsert(press[c].fresh)
    /\ press' = [press EXCEPT ![c].at = "write"]
    /\ UNCHANGED <<row, list, announced, presses, faults, staged, held>>

-----------------------------------------------------------------------------
(* commitStatus: the status, the cache, then the announcement. *)

\* The write of the status. It does not look at the row it writes on, and it
\* leaves notifiedAt alone unless it has an instant to stamp.
SetStatus(w) ==
    /\ row' = [status |-> w.target,
               notifiedAt |-> IF w.stamp = Never THEN row.notifiedAt ELSE w.stamp]
    /\ staged' = [d \in Decisions |->
          IF w.target = QueueTarget(d) /\ row.status # w.target
          THEN staged[d] + 1 ELSE staged[d]]
    /\ held' = held \cup {w.target}

Write(c) ==
    /\ press[c].at = "write"
    /\ SetStatus(press[c])
    /\ list' = Expired
    /\ press' = [press EXCEPT ![c].at = "announce"]
    /\ UNCHANGED <<mails, announced, presses, faults, told>>

\* "Only decisions are announced": mutant of Told.
ToldDecisions(status) == announced \cup ({status} \cap {"accepted", "declined"})

\* The occurrence key names the status: the second time adds nothing.
Told(status) == announced \cup {status}

Announce(c) ==
    /\ press[c].at = "announce"
    /\ announced' = Told(press[c].target)
    /\ press' = [press EXCEPT ![c] = Idle]
    /\ UNCHANGED <<row, list, mails, presses, faults, history>>

\* The cached list gets too old.
Lapse ==
    /\ list # Expired
    /\ list' = Expired
    /\ UNCHANGED <<row, press, mails, announced, presses, faults, history>>

-----------------------------------------------------------------------------
(* Faults. Each ends the press, for this row at least: the mail and the write *)
(* fail into failedCodes or into the action's answer, the announcement is     *)
(* swallowed, a request that dies says nothing.                               *)

Fault(c) ==
    /\ faults < MaxFaults
    /\ faults' = faults + 1
    /\ press' = [press EXCEPT ![c] = Idle]

\* The upsert fails: it is written ten rows at a time, so any part of it may
\* have landed.
QueueFails(c) ==
    /\ press[c].at = "queue"
    /\ Fault(c)
    /\ \E landed \in SUBSET press[c].fresh : Upsert(landed)
    /\ UNCHANGED <<row, list, announced, presses, staged, held>>

\* The status lands and its answer does not: no invalidation, no announcement.
WriteLost(c) ==
    /\ press[c].at = "write"
    /\ Fault(c)
    /\ SetStatus(press[c])
    /\ UNCHANGED <<list, mails, announced, presses, told>>

\* A call fails with nothing done, or the request ends between two calls.
Stop(c) ==
    /\ press[c] # Idle
    /\ Fault(c)
    /\ UNCHANGED <<row, list, mails, announced, presses, history>>

Next ==
    \/ Lapse
    \/ \E c \in Callers :
           \/ \E ask \in Asks : Press(c, ask)
           \/ ReadKeys(c)
           \/ QueueMail(c)
           \/ Write(c)
           \/ Announce(c)
           \/ QueueFails(c)
           \/ WriteLost(c)
           \/ Stop(c)

Spec == Init /\ [][Next]_vars

-----------------------------------------------------------------------------
(***************************************************************************)
(* Types. A mail that is queued has a decision, a stamp is an instant of a *)
(* press that was made, and only a Notify has mail to queue.               *)
(***************************************************************************)
TypeOK ==
    /\ row \in Rows
    /\ list \in Rows \cup {Expired}
    /\ \A c \in Callers : press[c] = Idle \/ press[c] \in Working
    /\ mails \subseteq Mails
    /\ announced \subseteq Status /\ held \subseteq Status
    /\ presses \in 0..MaxPresses /\ faults \in 0..MaxFaults
    /\ told \in [Cast -> Decisions \cup {"none"}]
    /\ staged \in [Decisions -> 0..MaxPresses]

(***************************************************************************)
(* Nobody hears a decision more often than it was made: whatever is        *)
(* pressed again, at once or after a failure, and from however old a copy  *)
(* of the row, a speaker has at most one mail of a decision for each time  *)
(* the submission was put into that decision's queue (decisions.ts:        *)
(* "pressing Notify twice produce[s] one email per recipient").            *)
(***************************************************************************)
ToldOncePerStaging ==
    \A p \in Cast, d \in Decisions :
        Cardinality({m \in mails : m.to = p /\ m.decision = d}) <= staged[d]

\* A Notify is about to commit its decision, and everybody that decision is
\* addressed to was told it last.
Commits(c) == Write(c) /\ press[c].stamp # Never

ToldItsOwn(c) ==
    LET d == DecisionOf(press[c].target) IN \A p \in DecisionAudience(d) : told[p] = d

(***************************************************************************)
(* What Notify commits is what the speakers were told last: when it writes *)
(* a decision and no other press has been at work since it read the row,   *)
(* everybody that decision is addressed to has been mailed it, by this     *)
(* press or by one whose write failed, and nothing else since, as long as  *)
(* at most one call has failed.  It may be addressed to nobody: a decline  *)
(* whose submitter is not on the cast is committed all the same.           *)
(***************************************************************************)
CommittedIsToldLast ==
    [][\A c \in Callers : Commits(c) /\ press[c].alone /\ faults <= 1 => ToldItsOwn(c)]_vars

(***************************************************************************)
(* The same whatever has failed, which is what decision-outbox.ts says of  *)
(* its keys: "A genuinely new decision still sends".                       *)
(***************************************************************************)
NewDecisionStillSends ==
    [][\A c \in Callers : Commits(c) /\ press[c].alone => ToldItsOwn(c)]_vars

(***************************************************************************)
(* What decision-audience.ts calls a bug does not happen, "a silent        *)
(* rejection notification that never dispatches": a decision is not        *)
(* committed as notified with nobody on the submission told it.            *)
(***************************************************************************)
SomebodyIsTold ==
    [][\A c \in Callers : Commits(c) /\ press[c].alone /\ faults = 0 =>
          \E p \in Cast : told[p] = DecisionOf(press[c].target)]_vars

(***************************************************************************)
(* A status no subscriber ever hears of costs a fault: with nobody at work *)
(* the statuses that were written and never announced are at most as many  *)
(* as the calls that failed (commit-status.ts writes, then announces, and  *)
(* nothing looks for the announcement again).                              *)
(***************************************************************************)
OneSilencePerFault ==
    AllIdle => Cardinality(held \ announced) <= faults

(***************************************************************************)
(* What transitions.ts says of a decided row, that Notify always has the   *)
(* mail it still owes to send: with no fault and nobody at work, a row     *)
(* whose submitter is on it and was not told last what it says has         *)
(* something for Notify.                                                   *)
(***************************************************************************)
UntoldIsNotifiable ==
    (AllIdle /\ faults = 0 /\ DecisionOf(row.status) # "none" /\ Submitter \in Cast
             /\ told[Submitter] # DecisionOf(row.status))
        => NotifyTarget(row) # NoMove
=============================================================================
