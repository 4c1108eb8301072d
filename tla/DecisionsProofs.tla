-------------------------- MODULE DecisionsProofs --------------------------
(***************************************************************************)
(* What the presses on one submission guarantee for any number of requests *)
(* at once, any cast, and any number of presses and faults, proved by      *)
(* TLAPS.                                                                  *)
(*                                                                         *)
(* The properties are not inductive: they speak of what has happened, and  *)
(* a step depends on copies of the row that are still in somebody's hands. *)
(*   Silences: the statuses written, not announced, and that no request is *)
(*     about to announce.  Only a fault adds one.                          *)
(*   Epochs(d): the notification instants under which a mail of decision d *)
(*     has been queued, or still could be from a copy of the row that is   *)
(*     in the base, in the cache or in a request.  Only a staging adds one.*)
(*   Pending: the requests that have not written yet, each of which may    *)
(*     still stage; with the stagings they are at most as many as presses. *)
(*   Owing: the requests that have a notification to announce; the mail    *)
(*     under the instant of the stored row is what they queued, or, after  *)
(*     the one fault there may be, what was told last (last section).      *)
(***************************************************************************)
EXTENDS Decisions, TLAPS, FiniteSetTheorems

TypeInv ==
    /\ row \in Rows
    /\ list \in Rows \cup {Expired}
    /\ press \in [Callers -> Working \cup {Idle}]
    /\ mails \subseteq Mails
    /\ presses \in 0..MaxPresses
    /\ faults \in Nat
    /\ staged \in [Decisions -> Nat]

(* A press at work says so.                                                  *)
LEMMA AtWork ==
  ASSUME TypeInv, NEW c \in Callers
  PROVE  press[c] # Idle <=> press[c].at # "idle"
  BY DEF TypeInv, Working, Idle

(* The statuses of the life cycle.                                           *)
LEMMA Statuses ==
  Status = {"draft", "pending", "accept_queue", "decline_queue", "accepted", "declined", "withdrawn"}
  BY DEF Status, LegalNext

-----------------------------------------------------------------------------
(* What a press may write.                                                   *)

\* The status Notify commits a decision to.
Committed(d) == IF d = "accept" THEN "accepted" ELSE "declined"

\* A copy of the row from which decision d can still be mailed.
Counts(r, d) ==
    \/ r.status = QueueTarget(d)
    \/ r.status = Committed(d) /\ r.notifiedAt = Never

(* What Notify would commit a row to is a decision that can be mailed from it*)
LEMMA NotifyMails ==
  ASSUME NEW r \in Rows, NotifyTarget(r) # NoMove
  PROVE  \E d \in Decisions : NotifyTarget(r) = Committed(d) /\ DecisionOf(NotifyTarget(r)) = d /\ Counts(r, d)
  BY Statuses DEF NotifyTarget, CommitTarget, DecisionOf, NoMove, Decisions, Committed, Counts, Rows,
     QueueTarget

(* What a press writes is a status; only from its queue does a press other   *)
(* than Notify reach a decision.                                             *)
LEMMA Targets ==
  ASSUME NEW r \in Rows, NEW ask \in Asks, Target(ask, r) # NoMove
  PROVE  /\ Target(ask, r) \in Status
         /\ ask.kind = "notify" => Target(ask, r) = NotifyTarget(r)
         /\ ask.kind # "notify" => \A d \in Decisions :
              Target(ask, r) = Committed(d) => r.status = QueueTarget(d)
<1>a. r.status \in Status
  BY DEF Rows
<1>1. CASE ask.kind = "notify"
  BY <1>1, NotifyMails, Statuses DEF Target, Committed, Decisions
<1>2. CASE ask.kind \in {"submit", "withdraw"}
  BY <1>2, Statuses DEF Target, NoMove, Committed, Decisions
<1>3. CASE ask.kind \in {"stage", "chip"}
  <2>1. Target(ask, r) = ask.to /\ ask.to # r.status /\ CanTransition(r.status, ask.to)
    BY <1>3 DEF Target, NoMove
  <2>2. ask.to \in LegalNext[r.status]
    BY <2>1 DEF CanTransition
  <2>3. QED
    BY <1>a, <1>3, <2>1, <2>2, Statuses DEF LegalNext, Committed, Decisions, QueueTarget
<1>4. QED
  BY <1>1, <1>2, <1>3 DEF Asks

\* What a press carries, in every state of it.
PressOK(w) ==
    /\ w.at \in {"keys", "queue"} => w.target = NotifyTarget(w.read)
    /\ w.at = "queue" => w.fresh \subseteq Wanted(w)
    /\ IF w.stamp = Never
         THEN \A d \in Decisions : w.target = Committed(d) => w.read.status = QueueTarget(d)
         ELSE \E d \in Decisions : w.target = Committed(d)

\* The copies of the row that are about.
Views == {row} \cup ({list} \ {Expired}) \cup {press[c].read : c \in {c \in Callers : press[c] # Idle}}

\* A row that was never notified has no copy that says it was.
NeverYet == row.notifiedAt = Never => \A r \in Views : r.notifiedAt = Never

Base == TypeInv /\ NeverYet /\ \A c \in Callers : press[c] # Idle => PressOK(press[c])

\* A caller that only learns, at most, that it is not alone.
Stays(c) == press'[c] = press[c] \/ (press[c] # Idle /\ press'[c] = [press[c] EXCEPT !.alone = FALSE])

(* A caller that stays has the same in hand.                                 *)
LEMMA StaysSame ==
  ASSUME Base, NEW c \in Callers, Stays(c)
  PROVE  /\ press'[c] \in Working \cup {Idle} /\ (press'[c] # Idle <=> press[c] # Idle)
         /\ press[c] # Idle => /\ press'[c].read = press[c].read /\ press'[c].target = press[c].target
                               /\ press'[c].at = press[c].at /\ PressOK(press'[c])
                               /\ press'[c].stamp = press[c].stamp
<1>1. CASE press'[c] = press[c]
  BY <1>1 DEF Base, TypeInv
<1>2. CASE press[c] # Idle /\ press'[c] = [press[c] EXCEPT !.alone = FALSE]
  <2> DEFINE w == press[c]
             v == [w EXCEPT !.alone = FALSE]
  <2>1. w \in Working
    BY <1>2 DEF Base, TypeInv
  <2>2. v \in Working /\ v.at = w.at /\ v.read = w.read /\ v.target = w.target /\ v.stamp = w.stamp
        /\ v.fresh = w.fresh
    BY <2>1 DEF Working
  <2>3. v # Idle
    BY <2>2 DEF Working, Idle
  <2>4. PressOK(w)
    BY <1>2 DEF Base
  <2> HIDE DEF v, w
  <2>5. PressOK(v)
    BY <2>2, <2>4 DEF PressOK, Wanted, KeyEpoch
  <2>6. QED
    BY <1>2, <2>2, <2>3, <2>5 DEF v, w
<1>3. QED
  BY <1>1, <1>2 DEF Stays

(* The press of c: what it read was about, the others stay.                  *)
LEMMA PressStep ==
  ASSUME Base, NEW c \in Callers, NEW ask \in Asks, Press(c, ask)
  PROVE  /\ press' \in [Callers -> Working \cup {Idle}] /\ \A b \in Callers \ {c} : Stays(b)
         /\ press[c] = Idle /\ press'[c] # Idle /\ press'[c].at \in {"keys", "write"}
         /\ press'[c].read \in Views /\ PressOK(press'[c])
         /\ list' \in Views /\ list' \in Rows /\ presses' \in 0..MaxPresses
<1> DEFINE read == IF list = Expired THEN row ELSE list
           target == Target(ask, read)
           notify == ask.kind = "notify"
           next == [at |-> IF notify THEN "keys" ELSE "write",
                    read |-> read, target |-> target,
                    stamp |-> IF notify THEN presses' ELSE Never,
                    fresh |-> {}, alone |-> AllIdle]
<1>1. /\ press[c] = Idle /\ presses < MaxPresses /\ target # NoMove /\ presses' = presses + 1
      /\ list' = read /\ press' = [Disturbed(c) EXCEPT ![c] = next]
  BY DEF Press
<1>2. read \in Rows /\ read \in Views
  BY DEF Base, TypeInv, Views
<1>3. presses' \in 1..MaxPresses
  BY <1>1, DecisionsAssumption DEF Base, TypeInv
<1>4. /\ target \in Status /\ (notify => target = NotifyTarget(read))
      /\ ~ notify => \A d \in Decisions : target = Committed(d) => read.status = QueueTarget(d)
  BY <1>1, <1>2, Targets
<1>5. notify => \E d \in Decisions : target = Committed(d)
  BY <1>1, <1>2, <1>4, NotifyMails
<1> HIDE DEF read, target, notify
<1>6. next \in Working
  <2>1. (IF notify THEN presses' ELSE Never) \in 0..MaxPresses
    BY <1>3, DecisionsAssumption DEF Never
  <2>2. AllIdle \in BOOLEAN
    BY DEF AllIdle
  <2>3. QED
    BY <1>2, <1>4, <2>1, <2>2 DEF Working
<1>7. PressOK(next) /\ next # Idle /\ next.at \in {"keys", "write"} /\ next.read = read
  BY <1>3, <1>4, <1>5, <1>6 DEF PressOK, Never, Idle, Working
<1> HIDE DEF next
<1>8. press'[c] = next /\ \A b \in Callers \ {c} : press'[b] = Disturbed(c)[b]
  BY <1>1 DEF Disturbed
<1>9. \A b \in Callers \ {c} : Stays(b)
  BY <1>8 DEF Disturbed, Stays
<1>10. press' \in [Callers -> Working \cup {Idle}]
  <2>1. \A b \in Callers : press'[b] \in Working \cup {Idle}
    BY <1>6, <1>8, <1>9, StaysSame
  <2>2. press' = [b \in Callers |-> press'[b]]
    BY <1>1 DEF Disturbed
  <2>3. QED
    BY <2>1, <2>2
<1>11. QED
  BY <1>1, <1>2, <1>3, <1>7, <1>8, <1>9, <1>10

(* A press that goes on: only where it stands changes.                       *)
LEMMA GoesOn ==
  ASSUME NEW w \in Working, PressOK(w), NEW stage \in {"write", "announce"}
  PROVE  LET v == [w EXCEPT !.at = stage]
         IN  v \in Working /\ v # Idle /\ v.at = stage /\ v.read = w.read /\ v.target = w.target
             /\ v.stamp = w.stamp /\ v.alone = w.alone /\ PressOK(v)
<1> DEFINE v == [w EXCEPT !.at = stage]
<1>1. v \in Working /\ v.at = stage /\ v.read = w.read /\ v.target = w.target /\ v.stamp = w.stamp
      /\ v.alone = w.alone
  BY DEF Working
<1> HIDE DEF v
<1>2. v # Idle
  BY <1>1 DEF Idle, Working
<1>3. PressOK(v)
  BY <1>1 DEF PressOK
<1>4. QED
  BY <1>1, <1>2, <1>3 DEF v

(* What Notify queues is mail of a decision that can be mailed from the copy *)
(* it read, under the instant of that copy.                                  *)
LEMMA WantedMails ==
  ASSUME NEW w \in Working, PressOK(w), w.at \in {"keys", "queue"}
  PROVE  /\ Wanted(w) \subseteq Mails
         /\ \A m \in Wanted(w) : Counts(w.read, m.decision) /\ m.epoch = w.read.notifiedAt
<1>1. w.read \in Rows /\ w.target = NotifyTarget(w.read) /\ NotifyTarget(w.read) # NoMove
  BY Statuses DEF Working, PressOK, NoMove
<1>2. PICK d \in Decisions : DecisionOf(w.target) = d /\ Counts(w.read, d)
  BY <1>1, NotifyMails
<1>3. DecisionAudience(d) \subseteq Cast
  BY DecisionsAssumption DEF DecisionAudience
<1>4. w.read.notifiedAt \in 0..MaxPresses
  BY <1>1 DEF Rows
<1>5. QED
  BY <1>2, <1>3, <1>4 DEF Wanted, KeyEpoch, Mails

(* A step of the press of c after it has read.                               *)
LEMMA LaterStep ==
  ASSUME Base, NEW c \in Callers,
         ReadKeys(c) \/ QueueMail(c) \/ Write(c) \/ Announce(c) \/ QueueFails(c) \/ WriteLost(c) \/ Stop(c)
  PROVE  /\ press[c] \in Working /\ press[c] # Idle /\ PressOK(press[c])
         /\ press' \in [Callers -> Working \cup {Idle}] /\ \A b \in Callers \ {c} : press'[b] = press[b]
         /\ press'[c] # Idle =>
              /\ press'[c].read = press[c].read /\ press'[c].target = press[c].target /\ PressOK(press'[c])
              /\ press'[c].stamp = press[c].stamp /\ press'[c].alone = press[c].alone
         /\ Announce(c) \/ QueueFails(c) \/ WriteLost(c) \/ Stop(c) => press'[c] = Idle
         /\ Write(c) => press'[c] # Idle /\ press'[c].at = "announce"
<1>1. press[c] # Idle /\ press[c] \in Working /\ PressOK(press[c])
  <2>1. press[c] # Idle
    BY DEF ReadKeys, QueueMail, Write, Announce, QueueFails, WriteLost, Stop, Idle
  <2>2. QED
    BY <2>1 DEF Base, TypeInv
<1>2. PICK next : press' = [press EXCEPT ![c] = next] /\ (next = Idle \/
        (next \in Working /\ next # Idle /\ next.read = press[c].read /\ next.target = press[c].target
         /\ next.stamp = press[c].stamp /\ next.alone = press[c].alone
         /\ PressOK(next) /\ (Write(c) => next.at = "announce")
         /\ ~ (Announce(c) \/ QueueFails(c) \/ WriteLost(c) \/ Stop(c))))
        /\ (Write(c) => next # Idle)
  <2>1. CASE ReadKeys(c)
    <3> DEFINE fresh == Missing(Wanted(press[c]), mails)
               stage == IF fresh = {} THEN "write" ELSE "queue"
               next == [press[c] EXCEPT !.fresh = fresh, !.at = stage]
    <3>1. press[c].at = "keys" /\ press' = [press EXCEPT ![c] = next]
      BY <2>1, Zenon DEF ReadKeys
    <3>2. fresh \subseteq Wanted(press[c]) /\ fresh \in SUBSET Mails /\ stage \in {"write", "queue"}
      BY <1>1, <3>1, WantedMails DEF Missing
    <3> HIDE DEF fresh, stage
    <3>a. /\ next \in Working /\ next.at = stage /\ next.read = press[c].read
          /\ next.target = press[c].target /\ next.stamp = press[c].stamp /\ next.fresh = fresh
          /\ next.alone = press[c].alone
      BY <1>1, <3>2 DEF Working
    <3> HIDE DEF next
    <3>b. next # Idle
      BY <3>a DEF Idle, Working
    <3>c. PressOK(next)
      BY <1>1, <3>1, <3>2, <3>a DEF PressOK, Wanted, KeyEpoch
    <3>3. next \in Working /\ next # Idle /\ next.read = press[c].read /\ next.target = press[c].target
          /\ next.stamp = press[c].stamp /\ next.alone = press[c].alone /\ PressOK(next)
      BY <3>a, <3>b, <3>c
    <3>4. ~ (Write(c) \/ Announce(c) \/ QueueFails(c) \/ WriteLost(c) \/ Stop(c))
      <4>1. press'[c] # Idle
        BY <3>1, <3>3 DEF Base, TypeInv
      <4>2. QED
        BY <3>1, <4>1 DEF Write, Announce, QueueFails, WriteLost, Stop, Fault, Base, TypeInv
    <3>5. QED
      BY <3>1, <3>3, <3>4
  <2>2. ASSUME ~ ReadKeys(c), QueueMail(c) \/ Write(c)
        PROVE  \E next : press' = [press EXCEPT ![c] = next]
                 /\ next \in Working /\ next # Idle /\ next.read = press[c].read
                 /\ next.target = press[c].target /\ next.stamp = press[c].stamp
                 /\ next.alone = press[c].alone /\ PressOK(next) /\ (Write(c) => next.at = "announce")
                 /\ ~ (Announce(c) \/ QueueFails(c) \/ WriteLost(c) \/ Stop(c))
    <3> DEFINE stage == IF QueueMail(c) THEN "write" ELSE "announce"
               next == [press[c] EXCEPT !.at = stage]
    <3>1. press' = [press EXCEPT ![c] = next]
      BY <2>2 DEF QueueMail, Write
    <3>2. stage \in {"write", "announce"} /\ (Write(c) => stage = "announce")
      BY DEF QueueMail, Write
    <3> HIDE DEF stage
    <3>3. next \in Working /\ next # Idle /\ next.at = stage /\ next.read = press[c].read
          /\ next.target = press[c].target /\ next.stamp = press[c].stamp
          /\ next.alone = press[c].alone /\ PressOK(next)
      BY <1>1, <3>2, GoesOn
    <3> HIDE DEF next
    <3>4. press'[c] # Idle
      BY <3>1, <3>3 DEF Base, TypeInv
    <3>5. ~ (Announce(c) \/ QueueFails(c) \/ WriteLost(c) \/ Stop(c))
      BY <3>4 DEF Announce, QueueFails, WriteLost, Stop, Fault, Base, TypeInv
    <3>6. QED
      BY <3>1, <3>2, <3>3, <3>5
  <2>3. CASE Announce(c) \/ QueueFails(c) \/ WriteLost(c) \/ Stop(c)
    <3>1. press' = [press EXCEPT ![c] = Idle]
      BY <2>3 DEF Announce, QueueFails, WriteLost, Stop, Fault
    <3>2. ~ Write(c)
      <4>1. press'[c].at = "idle"
        BY <3>1 DEF Base, TypeInv, Idle
      <4>2. ASSUME Write(c) PROVE press'[c].at = "announce"
        BY <1>1, <4>2 DEF Write, Base, TypeInv, Working
      <4>3. QED
        BY <4>1, <4>2
    <3>3. QED
      BY <3>1, <3>2
  <2>4. QED
    BY <2>1, <2>2, <2>3
<1>3. press'[c] = next /\ \A b \in Callers \ {c} : press'[b] = press[b]
  BY <1>2 DEF Base, TypeInv
<1>4. press' \in [Callers -> Working \cup {Idle}]
  BY <1>1, <1>2 DEF Base, TypeInv
<1>5. QED
  BY <1>1, <1>2, <1>3, <1>4

-----------------------------------------------------------------------------
(* Types, and what a press carries.                                          *)

\* Every step but the first of a press.
Later(c) ==
    ReadKeys(c) \/ QueueMail(c) \/ Write(c) \/ Announce(c) \/ QueueFails(c) \/ WriteLost(c) \/ Stop(c)

(* The write of the status: the row is the one meant, with the instant of    *)
(* the press or the one it had, and a queue it newly enters counts it.       *)
LEMMA StatusWrite ==
  ASSUME Base, NEW w \in Working, SetStatus(w)
  PROVE  /\ row' \in Rows /\ row'.status = w.target
         /\ row'.notifiedAt = IF w.stamp = Never THEN row.notifiedAt ELSE w.stamp
         /\ staged' \in [Decisions -> Nat]
         /\ \A d \in Decisions :
              staged'[d] = IF w.target = QueueTarget(d) /\ row.status # w.target
                           THEN staged[d] + 1 ELSE staged[d]
<1>1. /\ row' = [status |-> w.target,
               notifiedAt |-> IF w.stamp = Never THEN row.notifiedAt ELSE w.stamp]
      /\ staged' = [d \in Decisions |->
          IF w.target = QueueTarget(d) /\ row.status # w.target
          THEN staged[d] + 1 ELSE staged[d]]
  BY DEF SetStatus
<1>2. w.target \in Status /\ w.stamp \in 0..MaxPresses /\ row.notifiedAt \in 0..MaxPresses
  BY DEF Base, TypeInv, Rows, Working
<1>3. row' \in Rows /\ row'.status = w.target
      /\ row'.notifiedAt = IF w.stamp = Never THEN row.notifiedAt ELSE w.stamp
  BY <1>1, <1>2 DEF Rows
<1>4. \A d \in Decisions : staged[d] \in Nat
  BY DEF Base, TypeInv
<1>5. QED
  BY <1>1, <1>3, <1>4

(* What a later step leaves: the row as it was, or written by the press; the *)
(* cached copy as it was, or dropped; some of the press's mail queued.       *)
LEMMA LaterEffects ==
  ASSUME Base, NEW c \in Callers, Later(c)
  PROVE  /\ \/ row' = row /\ staged' = staged /\ held' = held
            \/ Write(c) \/ WriteLost(c)
         /\ Write(c) \/ WriteLost(c) => SetStatus(press[c]) /\ press[c].at = "write" /\ mails' = mails
         /\ list' = list \/ list' = Expired
         /\ mails \subseteq mails'
         /\ mails' # mails => press[c].at = "queue" /\ mails' \subseteq mails \cup press[c].fresh
         /\ presses' = presses
         /\ IF QueueFails(c) \/ WriteLost(c) \/ Stop(c) THEN faults' = faults + 1 ELSE faults' = faults
         /\ announced' = IF Announce(c) THEN announced \cup {press[c].target} ELSE announced
<1>a. press[c] \in Working /\ press[c] # Idle
      /\ (Announce(c) \/ QueueFails(c) \/ WriteLost(c) \/ Stop(c) => press'[c] = Idle)
  BY LaterStep DEF Later
<1>b. /\ ReadKeys(c) => press[c].at = "keys" /\ press'[c] # Idle
      /\ QueueMail(c) => press[c].at = "queue" /\ press'[c] # Idle
      /\ Write(c) => press[c].at = "write" /\ press'[c] # Idle
      /\ Announce(c) => press[c].at = "announce"
      /\ QueueFails(c) => press[c].at = "queue"
      /\ WriteLost(c) => press[c].at = "write"
  <2>1. Write(c) => press'[c] # Idle
    BY LaterStep
  <2>2. ASSUME ReadKeys(c) \/ QueueMail(c) PROVE press'[c] # Idle
    <3> DEFINE fresh == Missing(Wanted(press[c]), mails)
    <3>1. CASE ReadKeys(c)
      <4>1. press' = [press EXCEPT ![c] = [press[c] EXCEPT !.fresh = fresh,
                              !.at = IF fresh = {} THEN "write" ELSE "queue"]]
        BY <3>1 DEF ReadKeys
      <4> HIDE DEF fresh
      <4>2. press'[c].at = IF fresh = {} THEN "write" ELSE "queue"
        BY <1>a, <4>1 DEF Base, TypeInv, Working
      <4>3. QED
        BY <4>2 DEF Idle
    <3>2. CASE QueueMail(c)
      <4>1. press'[c].at = "write"
        BY <1>a, <3>2 DEF QueueMail, Base, TypeInv, Working
      <4>2. QED
        BY <4>1 DEF Idle
    <3>3. QED
      BY <2>2, <3>1, <3>2
  <2>3. QED
    BY <2>1, <2>2 DEF ReadKeys, QueueMail, Write, Announce, QueueFails, WriteLost
<1>c. Write(c) \/ WriteLost(c) => SetStatus(press[c]) /\ press[c].at = "write" /\ mails' = mails
  BY DEF Write, WriteLost
<1>1. CASE ReadKeys(c)
  BY <1>1, <1>a, <1>b DEF ReadKeys, history
<1>2. CASE QueueMail(c)
  BY <1>2, <1>a, <1>b DEF QueueMail, Upsert
<1>3. CASE Write(c)
  BY <1>3, <1>a, <1>b DEF Write
<1>4. CASE Announce(c)
  <2>1. ~ (QueueFails(c) \/ WriteLost(c))
    BY <1>4, <1>b
  <2>2. ~ Stop(c)
    BY <1>4 DEF Announce, Stop, Fault, Base, TypeInv
  <2>3. QED
    BY <1>4, <1>b, <1>c, <2>1, <2>2 DEF Announce, Told, history
<1>5. CASE QueueFails(c)
  BY <1>5, <1>a, <1>b DEF QueueFails, Upsert, Fault
<1>6. CASE WriteLost(c)
  BY <1>6, <1>a, <1>b DEF WriteLost, Fault
<1>7. CASE Stop(c)
  <2>1. faults' = faults + 1
    BY <1>7 DEF Stop, Fault
  <2>2. ~ Announce(c)
    BY <1>7 DEF Announce, Stop, Fault, Base, TypeInv
  <2>3. QED
    BY <1>7, <1>a, <1>b, <1>c, <2>1, <2>2 DEF Stop, history
<1>8. QED
  BY <1>1, <1>2, <1>3, <1>4, <1>5, <1>6, <1>7 DEF Later

(* After a later step, a copy of the row is one there was or the new row.    *)
LEMMA LaterViews ==
  ASSUME Base, NEW c \in Callers, Later(c)
  PROVE  Views' \subseteq Views \cup {row'}
<1>1. \A b \in Callers : press'[b] # Idle => press[b] # Idle /\ press'[b].read = press[b].read
  BY LaterStep DEF Later
<1>2. list' = list \/ list' = Expired
  BY LaterEffects
<1>3. QED
  BY <1>1, <1>2 DEF Views

(* A press adds no copy but of the row there is.                             *)
LEMMA PressViews ==
  ASSUME Base, NEW c \in Callers, NEW ask \in Asks, Press(c, ask)
  PROVE  Views' \subseteq Views /\ row' = row
<1>1. row' = row
  BY DEF Press
<1>2. /\ list' \in Views /\ press[c] = Idle /\ press'[c].read \in Views
      /\ \A b \in Callers \ {c} : Stays(b)
  BY PressStep
<1>3. \A b \in Callers \ {c} : press'[b] # Idle => press[b] # Idle /\ press'[b].read = press[b].read
  BY <1>2, StaysSame
<1>4. \A b \in Callers : press'[b] # Idle => press'[b].read \in Views
  BY <1>2, <1>3 DEF Views
<1>5. row \in Views
  BY DEF Views
<1>6. QED
  BY <1>1, <1>2, <1>4, <1>5 DEF Views

(* What a press carries is in order, and a row that was never notified has   *)
(* no copy that was.                                                         *)
LEMMA BaseHolds ==
  Spec => []Base
<1>1. Init => Base
  <2> SUFFICES ASSUME Init PROVE Base
    OBVIOUS
  <2>1. row \in [status : {"draft", "pending"}, notifiedAt : {Never}] /\ list = Expired
        /\ mails = {} /\ presses = 0 /\ faults = 0 /\ press = [c \in Callers |-> Idle]
        /\ staged = [d \in Decisions |-> 0]
    BY DEF Init
  <2>2. row \in Rows
    BY <2>1, Statuses, DecisionsAssumption DEF Rows, Never
  <2>3. TypeInv
    BY <2>1, <2>2, DecisionsAssumption DEF TypeInv
  <2>4. \A c \in Callers : press[c] = Idle
    BY <2>1
  <2>5. Views = {row}
    BY <2>1, <2>4 DEF Views
  <2>6. QED
    BY <2>3, <2>4, <2>5 DEF Base, NeverYet
<1>2. Base /\ [Next]_vars => Base'
  <2> SUFFICES ASSUME Base, [Next]_vars PROVE Base'
    OBVIOUS
  <2>1. CASE UNCHANGED vars
    BY <2>1 DEF Base, TypeInv, NeverYet, Views, PressOK, Wanted, KeyEpoch, vars
  <2>2. CASE Lapse
    <3>1. list' = Expired /\ UNCHANGED <<row, press, mails, presses, faults, staged>>
      BY <2>2 DEF Lapse, history
    <3>2. Views' \subseteq Views
      BY <3>1 DEF Views
    <3>3. QED
      BY <3>1, <3>2 DEF Base, TypeInv, NeverYet, PressOK
  <2>3. ASSUME NEW c \in Callers, NEW ask \in Asks, Press(c, ask) PROVE Base'
    <3>1. /\ press' \in [Callers -> Working \cup {Idle}] /\ \A b \in Callers \ {c} : Stays(b)
          /\ PressOK(press'[c]) /\ list' \in Rows /\ presses' \in 0..MaxPresses
      BY <2>3, PressStep
    <3>2. Views' \subseteq Views /\ row' = row
      BY <2>3, PressViews
    <3>3. mails' = mails /\ faults' = faults /\ staged' = staged
      BY <2>3 DEF Press, history
    <3>4. TypeInv'
      BY <3>1, <3>2, <3>3 DEF Base, TypeInv
    <3>5. NeverYet'
      BY <3>2 DEF Base, NeverYet
    <3>6. \A b \in Callers : press'[b] # Idle => PressOK(press'[b])
      BY <3>1, StaysSame
    <3>7. QED
      BY <3>4, <3>5, <3>6 DEF Base
  <2>4. ASSUME NEW c \in Callers, Later(c) PROVE Base'
    <3>1. /\ press[c] \in Working /\ PressOK(press[c])
          /\ press' \in [Callers -> Working \cup {Idle}] /\ \A b \in Callers \ {c} : press'[b] = press[b]
          /\ press'[c] # Idle => PressOK(press'[c])
      BY <2>4, LaterStep DEF Later
    <3>2. \/ row' = row /\ staged' = staged
          \/ /\ row' \in Rows /\ staged' \in [Decisions -> Nat]
             /\ row'.notifiedAt = IF press[c].stamp = Never THEN row.notifiedAt ELSE press[c].stamp
      BY <2>4, <3>1, LaterEffects, StatusWrite
    <3>3. list' = list \/ list' = Expired
      BY <2>4, LaterEffects
    <3>4. mails' \subseteq Mails
      BY <2>4, <3>1, LaterEffects, WantedMails DEF PressOK, Base, TypeInv
    <3>5. presses' = presses /\ (faults' = faults \/ faults' = faults + 1)
      BY <2>4, LaterEffects
    <3>6. TypeInv'
      BY <3>1, <3>2, <3>3, <3>4, <3>5 DEF Base, TypeInv
    <3>7. row'.notifiedAt = Never => row.notifiedAt = Never
      BY <3>2
    <3>8. NeverYet'
      BY <2>4, <3>7, LaterViews DEF Base, NeverYet
    <3>9. \A b \in Callers : press'[b] # Idle => PressOK(press'[b])
      BY <3>1 DEF Base
    <3>10. QED
      BY <3>6, <3>8, <3>9 DEF Base
  <2>5. QED
    BY <2>1, <2>2, <2>3, <2>4 DEF Next, Later
<1>3. QED
  BY <1>1, <1>2, PTL DEF Spec

-----------------------------------------------------------------------------
(* A status nobody hears of costs a fault.                                   *)

\* The statuses some request is about to announce.
AboutTo == {press[c].target : c \in {c \in Callers : press[c].at = "announce"}}

Silences == (held \ announced) \ AboutTo

SilencesPaid == IsFiniteSet(Silences) /\ Cardinality(Silences) <= faults

(* One element more at most, one fault more: still paid.                     *)
LEMMA OneMore ==
  ASSUME NEW S, NEW T, NEW x, NEW n \in Nat, IsFiniteSet(S), Cardinality(S) <= n,
         T \subseteq S \cup {x}
  PROVE  IsFiniteSet(T) /\ Cardinality(T) <= n + 1
<1>1. IsFiniteSet(S \cup {x}) /\ Cardinality(S) \in Nat
      /\ Cardinality(S \cup {x}) = IF x \in S THEN Cardinality(S) ELSE Cardinality(S) + 1
  BY FS_AddElement, FS_CardinalityType
<1>2. IsFiniteSet(T) /\ Cardinality(T) <= Cardinality(S \cup {x}) /\ Cardinality(T) \in Nat
  BY <1>1, FS_Subset, FS_CardinalityType
<1>3. QED
  BY <1>1, <1>2

(* No element more.                                                          *)
LEMMA NoMore ==
  ASSUME NEW S, NEW T, NEW n \in Nat, IsFiniteSet(S), Cardinality(S) <= n, T \subseteq S
  PROVE  IsFiniteSet(T) /\ Cardinality(T) <= n
<1>1. IsFiniteSet(T) /\ Cardinality(T) <= Cardinality(S)
  BY FS_Subset
<1>2. Cardinality(S) \in Nat /\ Cardinality(T) \in Nat
  BY <1>1, FS_CardinalityType
<1>3. QED
  BY <1>1, <1>2

(* Statuses that were written without being announced, with nobody at work,  *)
(* are at most as many as the calls that failed (commit-status.ts, which     *)
(* writes and then announces), whatever the number of requests at once.      *)
THEOREM SilencesArePaidFor ==
  Spec => []OneSilencePerFault
<1>1. Init => SilencesPaid
  <2>1. Init => Silences = {} /\ faults = 0
    BY DEF Init, Silences
  <2>2. QED
    BY <2>1, FS_EmptySet DEF SilencesPaid
<1>2. Base /\ Base' /\ SilencesPaid /\ [Next]_vars => SilencesPaid'
  <2> SUFFICES ASSUME Base, Base', SilencesPaid, [Next]_vars PROVE SilencesPaid'
    OBVIOUS
  <2>a. faults \in Nat /\ faults' \in Nat
    BY DEF Base, TypeInv
  <2>1. CASE UNCHANGED vars \/ Lapse
    <3>1. Silences' = Silences /\ faults' = faults
      BY <2>1 DEF vars, Lapse, history, Silences, AboutTo
    <3>2. QED
      BY <3>1 DEF SilencesPaid
  <2>2. ASSUME NEW c \in Callers, NEW ask \in Asks, Press(c, ask) PROVE SilencesPaid'
    <3>1. press[c] = Idle /\ \A b \in Callers \ {c} : Stays(b)
      BY <2>2, PressStep
    <3>2. \A b \in Callers : press[b].at = "announce" => press'[b].at = "announce" /\ press'[b].target = press[b].target
      BY <3>1, StaysSame, AtWork DEF Idle, Base
    <3>3. AboutTo \subseteq AboutTo'
      BY <3>2 DEF AboutTo
    <3>4. held' = held /\ announced' = announced /\ faults' = faults
      BY <2>2 DEF Press, history
    <3>5. Silences' \subseteq Silences
      BY <3>3, <3>4 DEF Silences
    <3>6. QED
      BY <2>a, <3>4, <3>5, NoMore DEF SilencesPaid
  <2>3. ASSUME NEW c \in Callers, Later(c) PROVE SilencesPaid'
    <3> DEFINE t == press[c].target
    <3>1. \A b \in Callers \ {c} : press'[b] = press[b]
      BY <2>3, LaterStep DEF Later
    <3>2. AboutTo \subseteq AboutTo' \cup {t}
      BY <3>1 DEF AboutTo
    <3>3. announced \subseteq announced' /\ (Announce(c) => t \in announced')
      BY <2>3, LaterEffects
    <3>4. held' \subseteq held \cup {t} /\ (held' = held \/ Write(c) \/ WriteLost(c))
      BY <2>3, LaterEffects DEF SetStatus
    <3>5. Silences' \subseteq Silences \cup {t}
      BY <3>2, <3>3, <3>4 DEF Silences
    <3>6. CASE QueueFails(c) \/ WriteLost(c) \/ Stop(c)
      <4>1. faults' = faults + 1
        BY <2>3, <3>6, LaterEffects
      <4> HIDE DEF t
      <4>2. QED
        BY <2>a, <3>5, <4>1, OneMore DEF SilencesPaid
    <3>7. CASE ~ (QueueFails(c) \/ WriteLost(c) \/ Stop(c))
      <4>1. faults' = faults
        BY <2>3, <3>7, LaterEffects
      <4>2. Silences' \subseteq Silences
        <5>1. CASE Announce(c)
          BY <3>2, <3>3, <3>4, <3>5, <5>1 DEF Silences
        <5>2. CASE Write(c)
          <6>1. press'[c].at = "announce" /\ press'[c].target = t
            BY <5>2, LaterStep
          <6>2. t \in AboutTo'
            BY <6>1 DEF AboutTo
          <6>3. QED
            BY <3>5, <6>2 DEF Silences
        <5>3. CASE (ReadKeys(c) \/ QueueMail(c)) /\ ~ Write(c)
          <6>1. press[c].at # "announce"
            BY <5>3 DEF ReadKeys, QueueMail
          <6>2. AboutTo \subseteq AboutTo'
            BY <3>1, <6>1 DEF AboutTo
          <6>3. held' = held
            BY <3>4, <3>7, <5>3
          <6>4. QED
            BY <3>3, <6>2, <6>3 DEF Silences
        <5>4. QED
          BY <2>3, <3>7, <5>1, <5>2, <5>3 DEF Later
      <4>3. QED
        BY <2>a, <4>1, <4>2, NoMore DEF SilencesPaid
    <3>8. QED
      BY <3>6, <3>7
  <2>4. QED
    BY <2>1, <2>2, <2>3 DEF Next, Later
<1>3. SilencesPaid => OneSilencePerFault
  <2> SUFFICES ASSUME SilencesPaid, AllIdle PROVE Cardinality(held \ announced) <= faults
    BY DEF OneSilencePerFault
  <2>1. AboutTo = {}
    BY DEF AllIdle, AboutTo, Idle
  <2>2. Silences = held \ announced
    BY <2>1 DEF Silences
  <2>3. QED
    BY <2>2 DEF SilencesPaid
<1>4. QED
  BY <1>1, <1>2, <1>3, BaseHolds, PTL DEF Spec

-----------------------------------------------------------------------------
(* Nobody hears a decision more often than it was made.                      *)

\* The instants under which decision d was mailed, or still could be.
Epochs(d) ==
    {m.epoch : m \in {m \in mails : m.decision = d}}
    \cup {r.notifiedAt : r \in {r \in Views : Counts(r, d)}}

EpochsStaged == \A d \in Decisions : IsFiniteSet(Epochs(d)) /\ Cardinality(Epochs(d)) <= staged[d]

(* The row a press writes can be mailed from under an instant there was, or  *)
(* it was staged anew.                                                       *)
LEMMA WrittenEpoch ==
  ASSUME Base, NEW c \in Callers, Write(c) \/ WriteLost(c), NEW d \in Decisions, Counts(row', d)
  PROVE  row'.notifiedAt \in Epochs(d) \/ staged'[d] = staged[d] + 1
<1> DEFINE w == press[c]
<1>1. w \in Working /\ w # Idle /\ PressOK(w) /\ SetStatus(w)
  BY LaterStep, LaterEffects DEF Later
<1>2. row \in Views /\ w.read \in Views
  BY <1>1 DEF Views
<1>3. /\ row'.status = w.target
      /\ row'.notifiedAt = IF w.stamp = Never THEN row.notifiedAt ELSE w.stamp
      /\ staged'[d] = IF w.target = QueueTarget(d) /\ row.status # w.target
                           THEN staged[d] + 1 ELSE staged[d]
  BY <1>1, StatusWrite
<1>4. CASE w.target = QueueTarget(d)
  <2>1. w.stamp = Never
    BY <1>1, <1>4 DEF PressOK, QueueTarget, Committed, Decisions
  <2>2. CASE row.status = w.target
    BY <1>2, <1>3, <1>4, <2>1, <2>2 DEF Counts, Epochs
  <2>3. QED
    BY <1>3, <1>4, <2>2
<1>5. CASE w.target # QueueTarget(d)
  <2>1. w.target = Committed(d) /\ row'.notifiedAt = Never
    BY <1>3, <1>5 DEF Counts
  <2>2. w.stamp = Never /\ row.notifiedAt = Never
    BY <1>3, <2>1
  <2>3. w.read.notifiedAt = Never
    BY <1>2, <2>2 DEF Base, NeverYet
  <2>4. Counts(w.read, d)
    BY <1>1, <2>1, <2>2 DEF PressOK, Counts
  <2>5. w.read.notifiedAt \in Epochs(d)
    BY <1>2, <2>4 DEF Epochs
  <2>6. QED
    BY <2>1, <2>3, <2>5
<1>6. QED
  BY <1>4, <1>5

(* A later step of a press puts no instant to a decision but that of the row *)
(* it writes.                                                                *)
LEMMA LaterEpochs ==
  ASSUME Base, NEW c \in Callers, Later(c), NEW d \in Decisions
  PROVE  Epochs(d)' \subseteq Epochs(d) \cup (IF Counts(row', d) THEN {row'.notifiedAt} ELSE {})
<1>1. press[c] \in Working /\ press[c] # Idle /\ PressOK(press[c])
  BY LaterStep DEF Later
<1>2. press[c].read \in Views
  BY <1>1 DEF Views
<1>3. \A m \in mails' : m.decision = d => m.epoch \in Epochs(d)
  <2> SUFFICES ASSUME NEW m \in mails', m.decision = d PROVE m.epoch \in Epochs(d)
    OBVIOUS
  <2>1. CASE m \in mails
    BY <2>1 DEF Epochs
  <2>2. CASE m \notin mails
    <3>1. press[c].at = "queue" /\ m \in press[c].fresh
      BY <2>2, LaterEffects
    <3>2. Counts(press[c].read, m.decision) /\ m.epoch = press[c].read.notifiedAt
      BY <1>1, <3>1, WantedMails DEF PressOK
    <3>3. QED
      BY <1>2, <3>2 DEF Epochs
  <2>3. QED
    BY <2>1, <2>2
<1>4. \A r \in Views' : Counts(r, d) =>
        r.notifiedAt \in Epochs(d) \cup (IF Counts(row', d) THEN {row'.notifiedAt} ELSE {})
  <2>1. Views' \subseteq Views \cup {row'}
    BY LaterViews
  <2>2. QED
    BY <2>1 DEF Epochs
<1>5. Epochs(d)' = {m.epoch : m \in {m \in mails' : m.decision = d}}
                   \cup {r.notifiedAt : r \in {r \in Views' : Counts(r, d)}}
  BY DEF Epochs
<1>6. QED
  BY <1>3, <1>4, <1>5

(* A speaker has at most one mail of a decision for each time the submission *)
(* was put into that decision's queue (decisions.ts, the idempotency keys of *)
(* Notify), whatever was pressed, by however many at once, from however old  *)
(* a copy, and whatever failed.                                              *)
THEOREM EachStagingIsToldOnce ==
  Spec => []ToldOncePerStaging
<1>1. Init => EpochsStaged
  <2> SUFFICES ASSUME Init, NEW d \in Decisions
        PROVE IsFiniteSet(Epochs(d)) /\ Cardinality(Epochs(d)) <= staged[d]
    BY DEF EpochsStaged
  <2>1. row.status \in {"draft", "pending"} /\ list = Expired /\ mails = {} /\ staged[d] = 0
        /\ \A c \in Callers : press[c] = Idle
    BY DEF Init
  <2>2. Views = {row}
    BY <2>1 DEF Views
  <2>3. Epochs(d) = {}
    BY <2>1, <2>2 DEF Epochs, Counts, QueueTarget, Committed
  <2>4. QED
    BY <2>1, <2>3, FS_EmptySet
<1>2. Base /\ Base' /\ EpochsStaged /\ [Next]_vars => EpochsStaged'
  <2> SUFFICES ASSUME Base, Base', EpochsStaged, [Next]_vars, NEW d \in Decisions
        PROVE IsFiniteSet(Epochs(d)') /\ Cardinality(Epochs(d)') <= staged'[d]
    BY DEF EpochsStaged
  <2>a. staged[d] \in Nat /\ staged'[d] \in Nat
    BY DEF Base, TypeInv
  <2>b. IsFiniteSet(Epochs(d)) /\ Cardinality(Epochs(d)) <= staged[d]
    BY DEF EpochsStaged
  <2>1. CASE UNCHANGED vars \/ Lapse
    <3>1. row' = row /\ press' = press /\ mails' = mails /\ staged' = staged
          /\ (list' = list \/ list' = Expired)
      BY <2>1 DEF vars, Lapse, history
    <3>2. Views' \subseteq Views
      BY <3>1 DEF Views
    <3>3. Epochs(d)' \subseteq Epochs(d)
      BY <3>1, <3>2 DEF Epochs
    <3>4. QED
      BY <2>a, <2>b, <3>1, <3>3, NoMore
  <2>2. ASSUME NEW c \in Callers, NEW ask \in Asks, Press(c, ask)
        PROVE IsFiniteSet(Epochs(d)') /\ Cardinality(Epochs(d)') <= staged'[d]
    <3>1. mails' = mails /\ staged' = staged
      BY <2>2 DEF Press, history
    <3>2. Views' \subseteq Views
      BY <2>2, PressViews
    <3>3. Epochs(d)' \subseteq Epochs(d)
      BY <3>1, <3>2 DEF Epochs
    <3>4. QED
      BY <2>a, <2>b, <3>1, <3>3, NoMore
  <2>3. ASSUME NEW c \in Callers, Later(c)
        PROVE IsFiniteSet(Epochs(d)') /\ Cardinality(Epochs(d)') <= staged'[d]
    <3>1. Epochs(d)' \subseteq Epochs(d) \cup (IF Counts(row', d) THEN {row'.notifiedAt} ELSE {})
      BY <2>3, LaterEpochs
    <3>2. staged'[d] = staged[d] \/ staged'[d] = staged[d] + 1
      BY <2>3, LaterEffects, LaterStep, StatusWrite DEF Later
    <3>3. CASE Epochs(d)' \subseteq Epochs(d)
      <4>1. IsFiniteSet(Epochs(d)') /\ Cardinality(Epochs(d)') <= staged[d]
        BY <2>a, <2>b, <3>3, NoMore
      <4>2. Cardinality(Epochs(d)') \in Nat
        BY <4>1, FS_CardinalityType
      <4>3. QED
        BY <2>a, <3>2, <4>1, <4>2
    <3>4. CASE ~ (Epochs(d)' \subseteq Epochs(d))
      <4>1. Counts(row', d) /\ row'.notifiedAt \notin Epochs(d)
            /\ Epochs(d)' \subseteq Epochs(d) \cup {row'.notifiedAt}
        BY <3>1, <3>4
      <4>2. Write(c) \/ WriteLost(c)
        <5>1. row' # row
          BY <4>1 DEF Epochs, Views
        <5>2. QED
          BY <2>3, <5>1, LaterEffects
      <4>3. staged'[d] = staged[d] + 1
        BY <4>1, <4>2, WrittenEpoch
      <4>4. IsFiniteSet(Epochs(d)') /\ Cardinality(Epochs(d)') <= staged[d] + 1
        BY <2>a, <2>b, <4>1, OneMore
      <4>5. QED
        BY <4>3, <4>4
    <3>5. QED
      BY <3>3, <3>4
  <2>4. QED
    BY <2>1, <2>2, <2>3 DEF Next, Later
<1>3. Base /\ EpochsStaged => ToldOncePerStaging
  <2> SUFFICES ASSUME Base, EpochsStaged, NEW p \in Cast, NEW d \in Decisions
        PROVE Cardinality({m \in mails : m.to = p /\ m.decision = d}) <= staged[d]
    BY DEF ToldOncePerStaging
  <2> DEFINE M == {m \in mails : m.to = p /\ m.decision = d}
             f == [m \in M |-> m.epoch]
  <2>1. f \in Injection(M, Epochs(d))
    <3>1. \A m \in M : m.epoch \in Epochs(d)
      BY DEF Epochs
    <3>2. f \in [M -> Epochs(d)]
      BY <3>1
    <3>3. \A m, n \in M : m.epoch = n.epoch => m = n
      BY DEF Base, TypeInv, Mails
    <3>4. \A m, n \in M : f[m] = f[n] => m = n
      BY <3>3
    <3> HIDE DEF f, M
    <3>5. QED
      BY <3>2, <3>4 DEF Injection, IsInjective
  <2> HIDE DEF f, M
  <2>2. IsFiniteSet(Epochs(d)) /\ Cardinality(Epochs(d)) <= staged[d]
    BY DEF EpochsStaged
  <2>3. IsFiniteSet(M) /\ Cardinality(M) <= Cardinality(Epochs(d))
    BY <2>1, <2>2, FS_Injection
  <2>4. Cardinality(M) \in Nat /\ Cardinality(Epochs(d)) \in Nat /\ staged[d] \in Nat
    BY <2>2, <2>3, FS_CardinalityType DEF Base, TypeInv
  <2>5. Cardinality(M) <= staged[d]
    BY <2>2, <2>3, <2>4
  <2>6. QED
    BY <2>5 DEF M
<1>4. QED
  BY <1>1, <1>2, <1>3, BaseHolds, PTL DEF Spec

-----------------------------------------------------------------------------
(* Types, with the history: a queue is entered at most once for each press.  *)

\* The requests that have not come to their status write.
Pending == {c \in Callers : press[c].at \in {"keys", "queue", "write"}}

\* A press that is pending has not staged anything yet.
StagedByPresses ==
    IsFiniteSet(Pending) /\ \A d \in Decisions : staged[d] + Cardinality(Pending) <= presses

Histories ==
    /\ announced \subseteq Status /\ held \subseteq Status
    /\ faults \in 0..MaxFaults
    /\ told \in [Cast -> Decisions \cup {"none"}]

(* A later step makes nobody pending, and the status write ends it.          *)
LEMMA LaterPending ==
  ASSUME Base, NEW c \in Callers, Later(c)
  PROVE  /\ Pending' \subseteq Pending
         /\ Write(c) \/ WriteLost(c) => c \in Pending /\ c \notin Pending'
<1>1. /\ \A b \in Callers \ {c} : press'[b] = press[b]
      /\ Announce(c) \/ QueueFails(c) \/ WriteLost(c) \/ Stop(c) => press'[c] = Idle
      /\ Write(c) => press'[c].at = "announce"
  BY LaterStep DEF Later
<1>2. Announce(c) \/ QueueFails(c) \/ WriteLost(c) \/ Stop(c) \/ Write(c) => c \notin Pending'
  BY <1>1 DEF Pending, Idle
<1>3. ReadKeys(c) \/ QueueMail(c) \/ Write(c) \/ WriteLost(c) => c \in Pending
  BY DEF ReadKeys, QueueMail, Write, WriteLost, Pending
<1>4. QED
  BY <1>1, <1>2, <1>3 DEF Pending, Later

(* An upsert of mail tells the speakers decisions.                           *)
LEMMA UpsertTells ==
  ASSUME NEW rows \in SUBSET Mails, told \in [Cast -> Decisions \cup {"none"}], Upsert(rows)
  PROVE  told' \in [Cast -> Decisions \cup {"none"}]
<1> DEFINE new == rows \ mails
           hit == {m.to : m \in new}
           last(p) == CHOOSE m \in new : m.to = p
<1>1. told' = [p \in Cast |-> IF p \in hit THEN last(p).decision ELSE told[p]]
  BY DEF Upsert
<1>2. ASSUME NEW p \in hit PROVE last(p).decision \in Decisions
  <2>1. \E m \in new : m.to = p
    OBVIOUS
  <2>2. last(p) \in new
    BY <2>1
  <2>3. QED
    BY <2>2 DEF Mails
<1> HIDE DEF hit, last
<1>3. QED
  BY <1>1, <1>2

(* Every variable keeps its type: in particular a decision's queue is        *)
(* entered no more often than presses were made (decisions.ts and            *)
(* commit-status.ts: a press writes the status once).                        *)
THEOREM TypeCorrect ==
  Spec => []TypeOK
<1>1. Init => Histories /\ StagedByPresses
  <2> SUFFICES ASSUME Init PROVE Histories /\ StagedByPresses
    OBVIOUS
  <2>1. /\ announced = {} /\ held = {} /\ faults = 0 /\ presses = 0
        /\ told = [p \in Cast |-> "none"] /\ staged = [d \in Decisions |-> 0]
        /\ \A c \in Callers : press[c] = Idle
    BY DEF Init
  <2>2. Pending = {}
    BY <2>1 DEF Pending, Idle
  <2>3. QED
    BY <2>1, <2>2, FS_EmptySet, DecisionsAssumption DEF Histories, StagedByPresses
<1>2. Base /\ Base' /\ Histories /\ [Next]_vars => Histories'
  <2> SUFFICES ASSUME Base, Base', Histories, [Next]_vars PROVE Histories'
    OBVIOUS
  <2>1. CASE UNCHANGED vars \/ Lapse
    BY <2>1 DEF vars, Lapse, history, Histories
  <2>2. ASSUME NEW c \in Callers, NEW ask \in Asks, Press(c, ask) PROVE Histories'
    BY <2>2 DEF Press, history, Histories
  <2>3. ASSUME NEW c \in Callers, Later(c) PROVE Histories'
    <3>1. press[c] \in Working /\ PressOK(press[c])
      BY <2>3, LaterStep DEF Later
    <3>2. press[c].target \in Status
      BY <3>1 DEF Working
    <3>3. announced' \subseteq Status
      BY <2>3, <3>2, LaterEffects DEF Histories
    <3>4. held' \subseteq Status
      BY <2>3, <3>2, LaterEffects DEF SetStatus, Histories
    <3>5. faults' \in 0..MaxFaults
      <4>1. QueueFails(c) \/ WriteLost(c) \/ Stop(c) => faults < MaxFaults
        BY DEF QueueFails, WriteLost, Stop, Fault
      <4>2. IF QueueFails(c) \/ WriteLost(c) \/ Stop(c) THEN faults' = faults + 1 ELSE faults' = faults
        BY <2>3, LaterEffects
      <4>3. QED
        BY <4>1, <4>2, DecisionsAssumption DEF Histories
    <3>6. told' \in [Cast -> Decisions \cup {"none"}]
      <4>1. press[c].fresh \in SUBSET Mails
        BY <3>1 DEF Working
      <4>2. CASE QueueMail(c) \/ QueueFails(c)
        <5>1. PICK rows \in SUBSET Mails : Upsert(rows)
          BY <4>1, <4>2 DEF QueueMail, QueueFails
        <5>2. QED
          BY <5>1, UpsertTells DEF Histories
      <4>3. CASE ~ (QueueMail(c) \/ QueueFails(c))
        BY <2>3, <4>3 DEF Later, ReadKeys, Write, Announce, WriteLost, Stop, history, Histories
      <4>4. QED
        BY <4>2, <4>3
    <3>7. QED
      BY <3>3, <3>4, <3>5, <3>6 DEF Histories
  <2>4. QED
    BY <2>1, <2>2, <2>3 DEF Next, Later
<1>3. Base /\ Base' /\ StagedByPresses /\ [Next]_vars => StagedByPresses'
  <2> SUFFICES ASSUME Base, Base', StagedByPresses, [Next]_vars PROVE StagedByPresses'
    OBVIOUS
  <2>a. presses \in Nat /\ \A d \in Decisions : staged[d] \in Nat /\ staged'[d] \in Nat
    BY DecisionsAssumption DEF Base, TypeInv
  <2>b. Cardinality(Pending) \in Nat /\ IsFiniteSet(Pending)
    BY FS_CardinalityType DEF StagedByPresses
  <2>1. CASE UNCHANGED vars \/ Lapse
    BY <2>1 DEF vars, Lapse, history, StagedByPresses, Pending
  <2>2. ASSUME NEW c \in Callers, NEW ask \in Asks, Press(c, ask) PROVE StagedByPresses'
    <3>1. \A b \in Callers \ {c} : Stays(b)
      BY <2>2, PressStep
    <3>2. \A b \in Callers \ {c} : press'[b].at = press[b].at
      BY <3>1, StaysSame DEF Stays
    <3>3. Pending' \subseteq Pending \cup {c}
      BY <3>2 DEF Pending
    <3>4. IsFiniteSet(Pending') /\ Cardinality(Pending') <= Cardinality(Pending) + 1
      <4>1. IsFiniteSet(Pending \cup {c}) /\ Cardinality(Pending \cup {c}) <= Cardinality(Pending) + 1
            /\ Cardinality(Pending \cup {c}) \in Nat
        <5>1. IsFiniteSet(Pending \cup {c}) /\ Cardinality(Pending \cup {c}) =
                IF c \in Pending THEN Cardinality(Pending) ELSE Cardinality(Pending) + 1
          BY <2>b, FS_AddElement, Zenon
        <5>2. QED
          BY <2>b, <5>1, FS_CardinalityType
      <4>2. PICK n \in Nat : n = Cardinality(Pending \cup {c})
        BY <4>1
      <4>3. IsFiniteSet(Pending') /\ Cardinality(Pending') <= n
        BY <3>3, <4>1, <4>2, NoMore
      <4>4. QED
        BY <4>1, <4>2, <4>3, FS_CardinalityType, <2>b
    <3>5. presses' = presses + 1 /\ staged' = staged
      BY <2>2 DEF Press, history
    <3>6. Cardinality(Pending') \in Nat
      BY <3>4, FS_CardinalityType
    <3>7. QED
      BY <2>a, <2>b, <3>4, <3>5, <3>6 DEF StagedByPresses
  <2>3. ASSUME NEW c \in Callers, Later(c) PROVE StagedByPresses'
    <3>1. presses' = presses /\ Pending' \subseteq Pending
      BY <2>3, LaterEffects, LaterPending
    <3>2. IsFiniteSet(Pending') /\ Cardinality(Pending') <= Cardinality(Pending)
      BY <2>b, <3>1, NoMore
    <3>3. Cardinality(Pending') \in Nat
      BY <3>2, FS_CardinalityType
    <3>4. CASE staged' = staged
      BY <2>a, <2>b, <3>1, <3>2, <3>3, <3>4 DEF StagedByPresses
    <3>5. CASE Write(c) \/ WriteLost(c)
      <4>1. press[c] \in Working /\ SetStatus(press[c])
        BY <2>3, <3>5, LaterStep, LaterEffects DEF Later
      <4>2. \A d \in Decisions : staged'[d] <= staged[d] + 1
        BY <2>a, <4>1, StatusWrite
      <4>3. c \in Pending /\ Pending' \subseteq Pending \ {c}
        BY <2>3, <3>1, <3>5, LaterPending
      <4>4. IsFiniteSet(Pending \ {c}) /\ Cardinality(Pending \ {c}) = Cardinality(Pending) - 1
        BY <2>b, <4>3, FS_RemoveElement
      <4>5. Cardinality(Pending \ {c}) \in Nat
        BY <4>4, FS_CardinalityType
      <4>6. Cardinality(Pending') <= Cardinality(Pending) - 1
        <5>1. PICK n \in Nat : n = Cardinality(Pending \ {c})
          BY <4>5
        <5>2. Cardinality(Pending') <= n
          BY <4>3, <4>4, <5>1, NoMore
        <5>3. QED
          BY <4>4, <5>1, <5>2
      <4>7. QED
        BY <2>a, <2>b, <3>1, <3>2, <3>3, <4>2, <4>6 DEF StagedByPresses
    <3>6. QED
      BY <2>3, <3>4, <3>5, LaterEffects
  <2>4. QED
    BY <2>1, <2>2, <2>3 DEF Next, Later
<1>4. Base /\ Histories /\ StagedByPresses => TypeOK
  <2> SUFFICES ASSUME Base, Histories, StagedByPresses PROVE TypeOK
    OBVIOUS
  <2>1. \A d \in Decisions : staged[d] \in 0..MaxPresses
    <3>1. Cardinality(Pending) \in Nat /\ presses \in 0..MaxPresses
          /\ \A d \in Decisions : staged[d] \in Nat /\ staged[d] + Cardinality(Pending) <= presses
      BY FS_CardinalityType DEF StagedByPresses, Base, TypeInv
    <3>2. QED
      BY <3>1, DecisionsAssumption
  <2>2. staged \in [Decisions -> 0..MaxPresses]
    BY <2>1 DEF Base, TypeInv
  <2>3. QED
    BY <2>2 DEF TypeOK, Base, TypeInv, Histories
<1>5. QED
  BY <1>1, <1>2, <1>3, <1>4, BaseHolds, PTL DEF Spec

-----------------------------------------------------------------------------
(* What Notify commits is what the speakers were told last.                  *)
(*                                                                           *)
(* A Notify queues nothing when it finds the keys of the mail it wants, so   *)
(* what it commits was told last only if those keys were left by an attempt  *)
(* at the same decision. Instants is what makes the keys of one notification *)
(* unlike those of another; Unfailed accounts for every mail the stored row  *)
(* would be keyed like by a Notify that has yet to write; Failed says that   *)
(* a first fault that loses such a Notify leaves mail that was told last.    *)

\* The Notify presses that have not come to their status write.
Owing == {c \in Callers : press[c].at \in {"keys", "queue", "write"} /\ press[c].stamp # Never}

\* Those of them that have their mail in the outbox.
Mailed == {c \in Owing : press[c].at = "write"}

\* The row where the next press may read it.
Held == {row} \cup ({list} \ {Expired})

\* The instants that a copy of the row or the key of a mail bears.
Instants == {r.notifiedAt : r \in Views} \cup {m.epoch : m \in mails}

\* The mail keyed by instant e is what those it is addressed to were told last.
Clean(e) == \A m \in mails : m.epoch = e => told[m.to] = m.decision

\* A stamp is an instant that nothing else bears yet.
StampsNew ==
    /\ \A c \in Callers : press[c].at \in {"keys", "queue"} => press[c].stamp # Never
    /\ \A e \in Instants : e <= presses
    /\ \A c \in Owing : press[c].stamp <= presses /\ press[c].stamp \notin Instants
    /\ \A b, c \in Owing : press[b].stamp = press[c].stamp => b = c

\* Mail m is there for a Notify that is about to write; where it is not what
\* was told last, another one is about to write too.
AccountedFor(m) ==
    \E b \in Mailed :
        m \in Wanted(press[b]) /\ (told[m.to] = m.decision \/ \E x \in Mailed : x # b)

Unfailed ==
    faults = 0 =>
        /\ Held = {row}
        /\ \A m \in mails : m.epoch = row.notifiedAt => AccountedFor(m)

Failed == faults = 1 /\ Owing = {} => \A r \in Held : Clean(r.notifiedAt)

\* A Notify that has been alone at work, by where it stands.
AloneOK(c) ==
    /\ \A b \in Callers \ {c} : press[b] = Idle
    /\ c \in Owing =>
         /\ press[c].at # "write" => Clean(press[c].read.notifiedAt)
         /\ press[c].at = "queue" => press[c].fresh = Wanted(press[c]) \ mails
         /\ press[c].at = "write" =>
              \A p \in DecisionAudience(DecisionOf(press[c].target)) :
                  told[p] = DecisionOf(press[c].target)

Alone == \A c \in Callers : press[c] # Idle /\ press[c].alone /\ faults <= 1 => AloneOK(c)

(* A press: what it has in hand, and that the others are no longer alone.    *)
LEMMA PressDoes ==
  ASSUME Base, NEW c \in Callers, NEW ask \in Asks, Press(c, ask)
  PROVE  /\ press'[c].at = "keys" <=> press'[c].stamp # Never
         /\ press'[c].stamp # Never => press'[c].stamp = presses + 1
         /\ press'[c].alone => AllIdle
         /\ press'[c].read \in Held /\ list' = press'[c].read
         /\ presses' = presses + 1 /\ UNCHANGED <<row, mails, told, faults>>
         /\ \A b \in Callers \ {c} : press'[b] # Idle => ~ press'[b].alone
<1> DEFINE read == IF list = Expired THEN row ELSE list
           target == Target(ask, read)
           notify == ask.kind = "notify"
           next == [at |-> IF notify THEN "keys" ELSE "write",
                    read |-> read, target |-> target,
                    stamp |-> IF notify THEN presses' ELSE Never,
                    fresh |-> {}, alone |-> AllIdle]
<1>1. /\ press[c] = Idle /\ presses' = presses + 1
      /\ list' = read /\ press' = [Disturbed(c) EXCEPT ![c] = next]
      /\ UNCHANGED <<row, mails, told, faults>>
  BY DEF Press, history
<1>2. read \in Held /\ presses + 1 # Never
  BY DecisionsAssumption DEF Held, Base, TypeInv, Never
<1>3. /\ press'[c].at = (IF notify THEN "keys" ELSE "write")
      /\ press'[c].stamp = (IF notify THEN presses' ELSE Never)
      /\ press'[c].alone = AllIdle /\ press'[c].read = read
  BY <1>1 DEF Disturbed
<1>4. ASSUME NEW b \in Callers \ {c}, press'[b] # Idle PROVE ~ press'[b].alone
  <2>1. press'[b] = IF press[b] # Idle THEN [press[b] EXCEPT !.alone = FALSE] ELSE press[b]
    BY <1>1 DEF Disturbed
  <2>2. press[b] # Idle /\ press[b] \in Working
    BY <1>4, <2>1 DEF Base, TypeInv
  <2>3. QED
    BY <2>1, <2>2 DEF Working
<1> HIDE DEF read, notify
<1>5. QED
  BY <1>1, <1>2, <1>3, <1>4

(* The key read: what is missing is what is left to queue.                   *)
LEMMA KeysDo ==
  ASSUME Base, NEW c \in Callers, ReadKeys(c)
  PROVE  /\ press[c].at = "keys" /\ press'[c].fresh = Wanted(press[c]) \ mails
         /\ press'[c].at = IF Wanted(press[c]) \ mails = {} THEN "write" ELSE "queue"
         /\ UNCHANGED <<row, list, mails, told, presses, faults>>
<1> DEFINE fresh == Missing(Wanted(press[c]), mails)
<1>1. press[c] \in Working
  BY LaterStep
<1>2. press[c].at = "keys" /\ UNCHANGED <<row, list, mails, told, presses, faults>>
      /\ press' = [press EXCEPT ![c] = [press[c] EXCEPT !.fresh = fresh,
                              !.at = IF fresh = {} THEN "write" ELSE "queue"]]
  BY DEF ReadKeys, history
<1>a. fresh = Wanted(press[c]) \ mails
  BY DEF Missing
<1> HIDE DEF fresh
<1>3. press'[c].fresh = fresh /\ press'[c].at = IF fresh = {} THEN "write" ELSE "queue"
  BY <1>1, <1>2 DEF Working, Base, TypeInv
<1>4. QED
  BY <1>2, <1>3, <1>a

(* The queueing of the mail.                                                 *)
LEMMA QueueDoes ==
  ASSUME Base, NEW c \in Callers, QueueMail(c)
  PROVE  /\ press[c].at = "queue" /\ press'[c].at = "write" /\ Upsert(press[c].fresh)
         /\ UNCHANGED <<row, list, presses, faults>>
<1>1. press[c] \in Working
  BY LaterStep
<1>2. QED
  BY <1>1 DEF QueueMail, Working, Base, TypeInv

(* An upsert of mail of one decision: a speaker is told that, or nothing new.*)
LEMMA UpsertSays ==
  ASSUME NEW rows \in SUBSET Mails, NEW d, \A m \in rows : m.decision = d, Upsert(rows)
  PROVE  /\ mails' = mails \cup rows
         /\ \A p \in Cast : told'[p] = told[p] \/ told'[p] = d
         /\ \A m \in rows \ mails : told'[m.to] = d
<1> DEFINE new == rows \ mails
           hit == {m.to : m \in new}
           last(p) == CHOOSE m \in new : m.to = p
<1>1. told' = [p \in Cast |-> IF p \in hit THEN last(p).decision ELSE told[p]]
      /\ mails' = mails \cup new
  BY DEF Upsert
<1>2. ASSUME NEW p \in hit PROVE last(p).decision = d
  <2>1. \E m \in new : m.to = p
    OBVIOUS
  <2>2. last(p) \in new
    BY <2>1
  <2>3. QED
    BY <2>2
<1>3. \A m \in new : m.to \in hit /\ m.to \in Cast
  BY DEF Mails
<1>4. mails' = mails \cup rows
  BY <1>1
<1> HIDE DEF hit, last
<1>5. QED
  BY <1>1, <1>2, <1>3, <1>4

(* A press joins those that owe a write only with a new instant.             *)
LEMMA PressOwing ==
  ASSUME Base, NEW c \in Callers, NEW ask \in Asks, Press(c, ask)
  PROVE  /\ c \notin Owing /\ Owing \subseteq Owing' /\ Owing' \subseteq Owing \cup {c}
         /\ Mailed' = Mailed
         /\ \A b \in Owing : press'[b].stamp = press[b].stamp /\ Wanted(press'[b]) = Wanted(press[b])
<1>1. press[c] = Idle /\ \A b \in Callers \ {c} : Stays(b)
  BY PressStep
<1>2. c \notin Owing
  BY <1>1 DEF Owing, Idle
<1>3. ASSUME NEW b \in Callers \ {c}
      PROVE  /\ press'[b].at = press[b].at
             /\ press[b] # Idle => press'[b].stamp = press[b].stamp /\ press'[b].read = press[b].read
                                   /\ press'[b].target = press[b].target
  <2>1. CASE press[b] = Idle
    BY <1>1, <2>1 DEF Stays
  <2>2. CASE press[b] # Idle
    BY <1>1, <2>2, StaysSame
  <2>3. QED
    BY <2>1, <2>2
<1>4. \A b \in Owing : press[b] # Idle
  BY DEF Owing, Idle
<1>5. press'[c].at = "keys" \/ press'[c].stamp = Never
  BY PressDoes
<1>6. \A b \in Callers \ {c} : b \in Owing' <=> b \in Owing
  <2> TAKE b \in Callers \ {c}
  <2>1. CASE press[b] = Idle
    BY <1>3, <2>1 DEF Owing, Idle
  <2>2. CASE press[b] # Idle
    BY <1>3, <2>2 DEF Owing
  <2>3. QED
    BY <2>1, <2>2
<1>7. c \notin Mailed'
  BY <1>5 DEF Mailed, Owing
<1>8. Mailed' = Mailed
  <2>1. \A b \in Callers \ {c} : b \in Mailed' <=> b \in Mailed
    BY <1>3, <1>6 DEF Mailed
  <2>2. c \notin Mailed /\ Mailed \subseteq Callers /\ Mailed' \subseteq Callers
    BY <1>2 DEF Mailed, Owing
  <2>3. QED
    BY <1>7, <2>1, <2>2
<1>9. Owing \subseteq Callers /\ Owing' \subseteq Callers
  BY DEF Owing
<1>10. \A b \in Owing : press'[b].stamp = press[b].stamp /\ Wanted(press'[b]) = Wanted(press[b])
  BY <1>2, <1>3, <1>4, <1>9 DEF Wanted, KeyEpoch
<1>11. QED
  BY <1>2, <1>6, <1>8, <1>9, <1>10

(* A later step lets nobody in, and its press out unless it goes on to write.*)
LEMMA LaterOwing ==
  ASSUME Base, NEW c \in Callers, Later(c)
  PROVE  /\ Owing' \subseteq Owing /\ Owing \ {c} \subseteq Owing' /\ Mailed \ {c} \subseteq Mailed'
         /\ ~ (ReadKeys(c) \/ QueueMail(c)) => c \notin Owing' /\ Mailed' \subseteq Mailed
         /\ \A b \in Owing' : press'[b].stamp = press[b].stamp /\ Wanted(press'[b]) = Wanted(press[b])
<1>1. /\ \A b \in Callers \ {c} : press'[b] = press[b]
      /\ press'[c] # Idle =>
           /\ press'[c].read = press[c].read /\ press'[c].target = press[c].target
           /\ press'[c].stamp = press[c].stamp
      /\ Announce(c) \/ QueueFails(c) \/ WriteLost(c) \/ Stop(c) => press'[c] = Idle
      /\ Write(c) => press'[c].at = "announce"
  BY LaterStep DEF Later
<1>2. ~ (ReadKeys(c) \/ QueueMail(c)) => c \notin Owing'
  BY <1>1 DEF Owing, Idle, Later
<1>3. ReadKeys(c) \/ QueueMail(c) => press[c].at \in {"keys", "queue"}
  BY DEF ReadKeys, QueueMail
<1>4. \A b \in Callers \ {c} : (b \in Owing' <=> b \in Owing) /\ (b \in Mailed' <=> b \in Mailed)
  BY <1>1 DEF Owing, Mailed
<1>5. c \in Owing' => c \in Owing /\ press'[c] # Idle
  <2> SUFFICES ASSUME c \in Owing' PROVE c \in Owing /\ press'[c] # Idle
    OBVIOUS
  <2>1. press'[c].at \in {"keys", "queue", "write"} /\ press'[c].stamp # Never
    BY DEF Owing
  <2>2. press'[c] # Idle
    BY <2>1 DEF Idle
  <2>3. QED
    BY <1>1, <1>2, <1>3, <2>1, <2>2 DEF Owing
<1>6. /\ Owing \subseteq Callers /\ Owing' \subseteq Callers
      /\ Mailed \subseteq Owing /\ Mailed' \subseteq Owing'
  BY DEF Owing, Mailed
<1>7. \A b \in Owing' : press'[b].stamp = press[b].stamp /\ Wanted(press'[b]) = Wanted(press[b])
  BY <1>1, <1>5, <1>6 DEF Wanted, KeyEpoch
<1>8. Owing' \subseteq Owing /\ Owing \ {c} \subseteq Owing' /\ Mailed \ {c} \subseteq Mailed'
  BY <1>4, <1>5, <1>6
<1>9. ~ (ReadKeys(c) \/ QueueMail(c)) => c \notin Owing' /\ Mailed' \subseteq Mailed
  BY <1>2, <1>4, <1>6
<1>10. QED
  BY <1>7, <1>8, <1>9

(* A later step brings no instant but the stamp of a Notify that writes.     *)
LEMMA LaterInstants ==
  ASSUME Base, NEW c \in Callers, Later(c), NEW e \in Instants'
  PROVE  e \in Instants \/ (c \in Owing /\ c \notin Owing' /\ e = press[c].stamp)
<1>1. press[c] \in Working /\ press[c] # Idle /\ PressOK(press[c])
  BY LaterStep DEF Later
<1>2. press[c].read \in Views
  BY <1>1 DEF Views
<1>3. CASE \E m \in mails' : m.epoch = e
  <2>1. PICK m \in mails' : m.epoch = e
    BY <1>3
  <2>2. CASE m \in mails
    BY <2>1, <2>2 DEF Instants
  <2>3. CASE m \notin mails
    <3>1. press[c].at = "queue" /\ m \in press[c].fresh
      BY <2>3, LaterEffects
    <3>2. m.epoch = press[c].read.notifiedAt
      BY <1>1, <3>1, WantedMails DEF PressOK
    <3>3. QED
      BY <1>2, <2>1, <3>2 DEF Instants
  <2>4. QED
    BY <2>2, <2>3
<1>4. CASE \E r \in Views' : r.notifiedAt = e
  <2>1. PICK r \in Views' : r.notifiedAt = e
    BY <1>4
  <2>2. CASE r \in Views
    BY <2>1, <2>2 DEF Instants
  <2>3. CASE r \notin Views
    <3>1. r = row' /\ row' # row
      BY <2>3, LaterViews DEF Views
    <3>2. (Write(c) \/ WriteLost(c)) /\ SetStatus(press[c]) /\ press[c].at = "write"
      BY <3>1, LaterEffects
    <3>3. row'.notifiedAt = IF press[c].stamp = Never THEN row.notifiedAt ELSE press[c].stamp
      BY <1>1, <3>2, StatusWrite
    <3>4. ~ (ReadKeys(c) \/ QueueMail(c))
      BY <3>2 DEF ReadKeys, QueueMail
    <3>5. CASE press[c].stamp = Never
      BY <2>1, <3>1, <3>3, <3>5 DEF Instants, Views
    <3>6. CASE press[c].stamp # Never
      BY <2>1, <3>1, <3>2, <3>3, <3>4, <3>6, LaterOwing DEF Owing
    <3>7. QED
      BY <3>5, <3>6
  <2>4. QED
    BY <2>2, <2>3
<1>5. QED
  BY <1>3, <1>4 DEF Instants

(* A stamp stays new until it is written.                                    *)
LEMMA StampsStep ==
  ASSUME Base, Base', StampsNew, [Next]_vars
  PROVE  StampsNew'
<1>a. presses \in Nat /\ \A c \in Owing : press[c].stamp \in Nat
  BY AtWork, DecisionsAssumption DEF Base, TypeInv, Working, Owing, Idle
<1>1. CASE UNCHANGED vars \/ Lapse
  <2>1. row' = row /\ press' = press /\ mails' = mails /\ presses' = presses
        /\ (list' = list \/ list' = Expired)
    BY <1>1 DEF vars, Lapse, history
  <2>2. Instants' \subseteq Instants /\ Owing' = Owing
    BY <2>1 DEF Instants, Views, Owing
  <2>3. QED
    BY <2>1, <2>2 DEF StampsNew
<1>2. ASSUME NEW c \in Callers, NEW ask \in Asks, Press(c, ask) PROVE StampsNew'
  <2>1. /\ Owing' \subseteq Owing \cup {c} /\ c \notin Owing
        /\ \A b \in Owing : press'[b].stamp = press[b].stamp
    BY <1>2, PressOwing
  <2>2. /\ press'[c].at = "keys" <=> press'[c].stamp # Never
        /\ press'[c].stamp # Never => press'[c].stamp = presses + 1
        /\ presses' = presses + 1 /\ mails' = mails
    BY <1>2, PressDoes
  <2>3. press'[c].at \in {"keys", "write"} /\ \A b \in Callers \ {c} : Stays(b)
    BY <1>2, PressStep
  <2>4. Instants' \subseteq Instants
    BY <1>2, <2>2, PressViews DEF Instants
  <2>5. \A b \in Callers : press'[b].at \in {"keys", "queue"} => press'[b].stamp # Never
    <3> SUFFICES ASSUME NEW b \in Callers \ {c}, press'[b].at \in {"keys", "queue"}
                 PROVE  press'[b].stamp # Never
      BY <2>2, <2>3
    <3>1. Stays(b)
      BY <2>3
    <3>2. press[b] # Idle
      BY <3>1 DEF Stays, Idle
    <3>3. QED
      BY <3>1, <3>2, StaysSame DEF StampsNew
  <2>6. c \in Owing' => press'[c].stamp = presses + 1
    BY <2>2 DEF Owing
  <2>7. \A e \in Instants' : e <= presses
    BY <2>4 DEF StampsNew
  <2>8. \A b \in Owing : press'[b].stamp \in Nat /\ press'[b].stamp <= presses /\ press'[b].stamp \notin Instants'
    BY <1>a, <2>1, <2>4 DEF StampsNew
  <2>9. \A e \in Instants' : e \in Nat
    BY DecisionsAssumption DEF Instants, Views, Base, TypeInv, Rows, Mails, Working
  <2>10. \A e \in Instants' : e <= presses'
    BY <1>a, <2>2, <2>7, <2>9
  <2>11. \A b \in Owing' : press'[b].stamp <= presses' /\ press'[b].stamp \notin Instants'
    <3> TAKE b \in Owing'
    <3>1. CASE b \in Owing
      BY <1>a, <2>2, <2>8, <3>1
    <3>2. CASE b = c
      BY <1>a, <2>2, <2>6, <2>7, <2>9, <3>2
    <3>3. QED
      BY <2>1, <3>1, <3>2
  <2>12. \A b, d \in Owing' : press'[b].stamp = press'[d].stamp => b = d
    <3> TAKE b, d \in Owing'
    <3>1. CASE b \in Owing /\ d \in Owing
      BY <2>1, <3>1 DEF StampsNew
    <3>2. CASE b = c /\ d \in Owing
      BY <1>a, <2>6, <2>8, <3>2
    <3>3. CASE b \in Owing /\ d = c
      BY <1>a, <2>6, <2>8, <3>3
    <3>4. QED
      BY <2>1, <3>1, <3>2, <3>3
  <2>13. QED
    BY <2>5, <2>10, <2>11, <2>12 DEF StampsNew
<1>3. ASSUME NEW c \in Callers, Later(c) PROVE StampsNew'
  <2>1. /\ Owing' \subseteq Owing
        /\ \A b \in Owing' : press'[b].stamp = press[b].stamp
    BY <1>3, LaterOwing
  <2>2. presses' = presses
    BY <1>3, LaterEffects
  <2>3. \A e \in Instants' : e \in Instants \/ (c \in Owing /\ c \notin Owing' /\ e = press[c].stamp)
    BY <1>3, LaterInstants
  <2>4. \A b \in Callers : press'[b].at \in {"keys", "queue"} => press'[b].stamp # Never
    <3> SUFFICES ASSUME NEW b \in Callers, press'[b].at \in {"keys", "queue"} PROVE press'[b].stamp # Never
      OBVIOUS
    <3>1. CASE b # c
      BY <1>3, <3>1, LaterStep DEF Later, StampsNew
    <3>2. CASE b = c
      <4>1. press'[c] # Idle /\ press'[c].stamp = press[c].stamp
        BY <1>3, <3>2, LaterStep DEF Later, Idle
      <4>2. ReadKeys(c) \/ QueueMail(c)
        BY <1>3, <3>2, <4>1, LaterStep DEF Later
      <4>3. QED
        BY <3>2, <4>1, <4>2, KeysDo, QueueDoes DEF StampsNew
    <3>3. QED
      BY <3>1, <3>2
  <2>5. QED
    BY <2>1, <2>2, <2>3, <2>4 DEF StampsNew
<1>4. QED
  BY <1>1, <1>2, <1>3 DEF Next, Later

(* Without a fault the cached copy is the row, and a mail keyed like it is   *)
(* accounted for.                                                            *)
LEMMA UnfailedStep ==
  ASSUME Base, Base', StampsNew, Unfailed, [Next]_vars
  PROVE  Unfailed'
<1>a. faults \in Nat /\ faults' \in Nat
  BY DEF Base, TypeInv
<1>1. CASE UNCHANGED vars \/ Lapse
  <2>1. row' = row /\ press' = press /\ mails' = mails /\ told' = told /\ faults' = faults
        /\ (list' = list \/ list' = Expired)
    BY <1>1 DEF vars, Lapse, history
  <2>2. Mailed' = Mailed /\ Held' \subseteq Held /\ row' \in Held'
    BY <2>1 DEF Mailed, Owing, Held
  <2>3. \A m : AccountedFor(m) => AccountedFor(m)'
    BY <2>1, <2>2 DEF AccountedFor
  <2>4. QED
    BY <2>1, <2>2, <2>3 DEF Unfailed
<1>2. ASSUME NEW c \in Callers, NEW ask \in Asks, Press(c, ask) PROVE Unfailed'
  <2>1. row' = row /\ mails' = mails /\ told' = told /\ faults' = faults /\ list' \in Held
    BY <1>2, PressDoes
  <2>2. Mailed' = Mailed /\ \A b \in Mailed : Wanted(press'[b]) = Wanted(press[b])
    BY <1>2, PressOwing DEF Mailed
  <2>3. \A m : AccountedFor(m) => AccountedFor(m)'
    BY <2>1, <2>2 DEF AccountedFor
  <2>4. Held' \subseteq Held /\ row' \in Held'
    BY <2>1 DEF Held
  <2>5. QED
    BY <2>1, <2>3, <2>4 DEF Unfailed
<1>3. ASSUME NEW c \in Callers, Later(c), faults' = 0
      PROVE  Held' = {row'} /\ \A m \in mails' : m.epoch = row'.notifiedAt => AccountedFor(m)'
  <2>1. faults = 0 /\ ~ (QueueFails(c) \/ WriteLost(c) \/ Stop(c))
    BY <1>a, <1>3, LaterEffects
  <2>2. Held = {row} /\ \A m \in mails : m.epoch = row.notifiedAt => AccountedFor(m)
    BY <2>1 DEF Unfailed
  <2>w. press[c] \in Working /\ PressOK(press[c])
    BY <1>3, LaterStep DEF Later
  <2>m. \A b \in Mailed : b \in Owing /\ press[b].at = "write"
    BY DEF Mailed
  <2>3. ASSUME Mailed \subseteq Mailed', told' = told
        PROVE  \A m : AccountedFor(m) => AccountedFor(m)'
    <3>1. \A b \in Mailed : b \in Mailed' /\ Wanted(press'[b]) = Wanted(press[b])
      BY <1>3, <2>3, LaterOwing DEF Mailed
    <3>2. QED
      BY <2>3, <3>1 DEF AccountedFor
  <2>4. CASE ReadKeys(c)
    <3>1. UNCHANGED <<row, list, mails, told>> /\ press[c].at = "keys"
      BY <2>4, KeysDo
    <3>2. Mailed \subseteq Mailed'
      BY <1>3, <2>m, <3>1, LaterOwing
    <3>3. QED
      BY <2>2, <2>3, <3>1, <3>2 DEF Held
  <2>5. CASE Announce(c)
    <3>1. UNCHANGED <<row, list, mails, told>> /\ press[c].at = "announce"
      BY <2>5 DEF Announce, history
    <3>2. Mailed \subseteq Mailed'
      BY <1>3, <2>m, <3>1, LaterOwing
    <3>3. QED
      BY <2>2, <2>3, <3>1, <3>2 DEF Held
  <2>6. CASE Write(c)
    <3>1. SetStatus(press[c]) /\ press[c].at = "write" /\ mails' = mails /\ list' = Expired /\ told' = told
      BY <2>6 DEF Write
    <3>2. row'.notifiedAt = IF press[c].stamp = Never THEN row.notifiedAt ELSE press[c].stamp
      BY <2>w, <3>1, StatusWrite
    <3>3. Held' = {row'}
      BY <3>1 DEF Held
    <3>4. CASE press[c].stamp = Never
      <4>1. Mailed \subseteq Mailed'
        BY <1>3, <2>m, <3>4, LaterOwing DEF Owing
      <4>2. QED
        BY <2>2, <2>3, <3>1, <3>2, <3>3, <3>4, <4>1
    <3>5. CASE press[c].stamp # Never
      <4>1. c \in Owing
        BY <3>1, <3>5 DEF Owing
      <4>2. \A m \in mails : m.epoch # row'.notifiedAt
        BY <3>2, <3>5, <4>1 DEF StampsNew, Instants
      <4>3. QED
        BY <3>1, <3>3, <4>2
    <3>6. QED
      BY <3>4, <3>5
  <2>7. CASE QueueMail(c)
    <3>1. press[c].at = "queue" /\ press'[c].at = "write" /\ Upsert(press[c].fresh)
          /\ UNCHANGED <<row, list>>
      BY <2>7, QueueDoes
    <3> DEFINE d == DecisionOf(press[c].target)
    <3>2. Wanted(press[c]) \subseteq Mails /\ press[c].fresh \subseteq Wanted(press[c])
      BY <2>w, <3>1, WantedMails DEF PressOK
    <3>3. \A m \in Wanted(press[c]) : m.decision = d
      BY DEF Wanted
    <3>4. press[c].fresh \in SUBSET Mails /\ \A m \in press[c].fresh : m.decision = d
      BY <3>2, <3>3
    <3> HIDE DEF d
    <3>5. mails' = mails \cup press[c].fresh /\ \A m \in press[c].fresh \ mails : told'[m.to] = d
      BY <3>1, <3>4, UpsertSays
    <3>6. c \in Mailed' /\ c \notin Mailed
      <4>1. press'[c] # Idle /\ press'[c].stamp = press[c].stamp
        BY <1>3, <3>1, LaterStep DEF Later, Idle
      <4>2. press[c].stamp # Never
        BY <3>1 DEF StampsNew
      <4>3. QED
        BY <3>1, <4>1, <4>2 DEF Mailed, Owing
    <3>7. Mailed \subseteq Mailed'
      BY <1>3, <3>6, LaterOwing
    <3>8. \A b \in Mailed' : Wanted(press'[b]) = Wanted(press[b])
      BY <1>3, LaterOwing DEF Mailed
    <3>9. ASSUME NEW m \in mails', m.epoch = row'.notifiedAt PROVE AccountedFor(m)'
      <4>1. CASE m \in mails
        <5>1. PICK b \in Mailed : m \in Wanted(press[b])
          BY <2>2, <3>1, <3>9, <4>1 DEF AccountedFor
        <5>2. QED
          BY <3>6, <3>7, <3>8, <5>1 DEF AccountedFor
      <4>2. CASE m \in press[c].fresh \ mails
        BY <3>2, <3>4, <3>5, <3>6, <3>8, <4>2 DEF AccountedFor
      <4>3. QED
        BY <3>5, <3>9, <4>1, <4>2
    <3>10. QED
      BY <2>2, <3>1, <3>9 DEF Held
  <2>8. QED
    BY <1>3, <2>1, <2>4, <2>5, <2>6, <2>7 DEF Later
<1>4. ASSUME NEW c \in Callers, Later(c) PROVE Unfailed'
  BY <1>3, <1>4 DEF Unfailed
<1>5. QED
  BY <1>1, <1>2, <1>4 DEF Next, Later

(* The fault leaves nothing but mail that was told last.                     *)
LEMMA FaultLeaves ==
  ASSUME Base, StampsNew, Unfailed, faults = 0, NEW c \in Callers, Later(c),
         QueueFails(c) \/ WriteLost(c) \/ Stop(c), Owing' = {}
  PROVE  \A r \in Held' : \A m \in mails' : m.epoch = r.notifiedAt => told'[m.to] = m.decision
<1>1. Held = {row} /\ \A m \in mails : m.epoch = row.notifiedAt => AccountedFor(m)
  BY DEF Unfailed
<1>2. Owing \subseteq {c} /\ Mailed \subseteq {c}
  BY LaterOwing DEF Mailed
<1>3. ASSUME NEW m \in mails, m.epoch = row.notifiedAt
      PROVE  told[m.to] = m.decision /\ c \in Mailed
  BY <1>1, <1>2, <1>3 DEF AccountedFor
<1>w. press[c] \in Working /\ PressOK(press[c])
  BY LaterStep
<1>4. CASE Stop(c)
  <2>1. UNCHANGED <<row, list, mails, told>>
    BY <1>4 DEF Stop, history
  <2>2. QED
    BY <1>1, <1>3, <2>1 DEF Held
<1>5. CASE WriteLost(c)
  <2>1. UNCHANGED <<list, mails, told>> /\ SetStatus(press[c]) /\ press[c].at = "write"
    BY <1>5 DEF WriteLost
  <2>2. row'.notifiedAt = IF press[c].stamp = Never THEN row.notifiedAt ELSE press[c].stamp
    BY <1>w, <2>1, StatusWrite
  <2>3. ASSUME NEW m \in mails PROVE m.epoch = row'.notifiedAt => told[m.to] = m.decision
    <3>1. CASE press[c].stamp = Never
      BY <1>3, <2>2, <3>1
    <3>2. CASE press[c].stamp # Never
      <4>1. c \in Owing /\ m.epoch \in Instants
        BY <2>1, <3>2 DEF Owing, Instants
      <4>2. QED
        BY <2>2, <3>2, <4>1 DEF StampsNew
    <3>3. QED
      BY <3>1, <3>2
  <2>4. Held' \subseteq {row', row}
    BY <1>1, <2>1 DEF Held
  <2>5. QED
    BY <1>3, <2>1, <2>3, <2>4
<1>6. CASE QueueFails(c)
  <2>1. press[c].at = "queue" /\ UNCHANGED <<row, list>>
    BY <1>6 DEF QueueFails
  <2>2. PICK landed \in SUBSET press[c].fresh : Upsert(landed)
    BY <1>6 DEF QueueFails
  <2> DEFINE d == DecisionOf(press[c].target)
  <2>3. Wanted(press[c]) \subseteq Mails /\ press[c].fresh \subseteq Wanted(press[c])
    BY <1>w, <2>1, WantedMails DEF PressOK
  <2>4. \A m \in Wanted(press[c]) : m.decision = d
    BY DEF Wanted
  <2>5. landed \in SUBSET Mails /\ \A m \in landed : m.decision = d
    BY <2>3, <2>4
  <2> HIDE DEF d
  <2>6. mails' = mails \cup landed /\ \A m \in landed \ mails : told'[m.to] = d
    BY <2>2, <2>5, UpsertSays
  <2>7. \A m \in mails : m.epoch # row.notifiedAt
    BY <1>3, <2>1 DEF Mailed
  <2>8. Held' = {row}
    BY <1>1, <2>1 DEF Held
  <2>9. QED
    BY <2>5, <2>6, <2>7, <2>8
<1>7. QED
  BY <1>4, <1>5, <1>6

(* What the first fault left stays so until the next Notify.                 *)
LEMMA FailedStep ==
  ASSUME Base, Base', StampsNew, Unfailed, Failed, [Next]_vars
  PROVE  Failed'
<1>a. faults \in Nat /\ faults' \in Nat
  BY DEF Base, TypeInv
<1> SUFFICES ASSUME faults' = 1, Owing' = {}
             PROVE  \A r \in Held' : \A m \in mails' : m.epoch = r.notifiedAt => told'[m.to] = m.decision
  BY DEF Failed, Clean
<1>b. faults = 1 /\ Owing = {} =>
        \A r \in Held : \A m \in mails : m.epoch = r.notifiedAt => told[m.to] = m.decision
  BY DEF Failed, Clean
<1>1. CASE UNCHANGED vars \/ Lapse
  <2>1. row' = row /\ press' = press /\ mails' = mails /\ told' = told /\ faults' = faults
        /\ (list' = list \/ list' = Expired)
    BY <1>1 DEF vars, Lapse, history
  <2>2. Owing' = Owing /\ Held' \subseteq Held
    BY <2>1 DEF Owing, Held
  <2>3. QED
    BY <1>b, <2>1, <2>2
<1>2. ASSUME NEW c \in Callers, NEW ask \in Asks, Press(c, ask)
      PROVE  \A r \in Held' : \A m \in mails' : m.epoch = r.notifiedAt => told'[m.to] = m.decision
  <2>1. row' = row /\ mails' = mails /\ told' = told /\ faults' = faults /\ list' \in Held
    BY <1>2, PressDoes
  <2>2. Owing = {}
    BY <1>2, PressOwing
  <2>3. Held' \subseteq Held
    BY <2>1 DEF Held
  <2>4. QED
    BY <1>b, <2>1, <2>2, <2>3
<1>3. ASSUME NEW c \in Callers, Later(c)
      PROVE  \A r \in Held' : \A m \in mails' : m.epoch = r.notifiedAt => told'[m.to] = m.decision
  <2>1. CASE faults = 0
    <3>1. QueueFails(c) \/ WriteLost(c) \/ Stop(c)
      BY <1>3, <2>1, LaterEffects
    <3>2. QED
      BY <1>3, <2>1, <3>1, FaultLeaves
  <2>2. CASE faults # 0
    <3>1. ~ (QueueFails(c) \/ WriteLost(c) \/ Stop(c))
      BY <1>3, <1>a, <2>2, LaterEffects
    <3>f. faults = 1
      BY <3>1, <1>3 DEF Later, ReadKeys, QueueMail, Write, Announce
    <3>w. press[c] \in Working /\ PressOK(press[c])
      BY <1>3, LaterStep DEF Later
    <3>2. CASE ReadKeys(c) \/ QueueMail(c)
      <4>1. press[c].at \in {"keys", "queue"} /\ press'[c].at \in {"queue", "write"}
        BY <3>2, KeysDo, QueueDoes
      <4>2. press'[c].stamp = press[c].stamp
        BY <1>3, <4>1, LaterStep DEF Later, Idle
      <4>3. c \in Owing'
        BY <4>1, <4>2 DEF Owing, StampsNew
      <4>4. QED
        BY <4>3
    <3>3. CASE Write(c)
      <4>1. SetStatus(press[c]) /\ press[c].at = "write" /\ mails' = mails /\ list' = Expired /\ told' = told
        BY <3>3 DEF Write
      <4>2. row'.notifiedAt = IF press[c].stamp = Never THEN row.notifiedAt ELSE press[c].stamp
        BY <3>w, <4>1, StatusWrite
      <4>3. Held' = {row'} /\ row \in Held
        BY <4>1 DEF Held
      <4>4. CASE press[c].stamp = Never
        <5>1. c \notin Owing
          BY <4>4 DEF Owing
        <5>2. Owing = {}
          BY <1>3, <5>1, LaterOwing
        <5>3. QED
          BY <1>b, <3>f, <4>1, <4>2, <4>3, <4>4, <5>2
      <4>5. CASE press[c].stamp # Never
        <5>1. c \in Owing
          BY <4>1, <4>5 DEF Owing
        <5>2. \A m \in mails : m.epoch # row'.notifiedAt
          BY <4>2, <4>5, <5>1 DEF StampsNew, Instants
        <5>3. QED
          BY <4>1, <4>3, <5>2
      <4>6. QED
        BY <4>4, <4>5
    <3>4. CASE Announce(c)
      <4>1. UNCHANGED <<row, list, mails, told>> /\ press[c].at = "announce"
        BY <3>4 DEF Announce, history
      <4>2. c \notin Owing
        BY <4>1 DEF Owing
      <4>3. Owing = {}
        BY <1>3, <4>2, LaterOwing
      <4>4. Held' = Held
        BY <4>1 DEF Held
      <4>5. QED
        BY <1>b, <3>f, <4>1, <4>3, <4>4
    <3>5. QED
      BY <1>3, <3>1, <3>2, <3>3, <3>4 DEF Later
  <2>3. QED
    BY <2>1, <2>2
<1>4. QED
  BY <1>1, <1>2, <1>3 DEF Next, Later

(* A Notify alone at work goes on to write what was told last.               *)
LEMMA AloneStep ==
  ASSUME Base, Base', StampsNew, Unfailed, Failed, Alone, [Next]_vars
  PROVE  Alone'
<1>a. faults \in Nat /\ faults' \in Nat /\ faults <= faults'
  <2>1. faults' = faults \/ faults' = faults + 1
    BY DEF Next, vars, Lapse, Press, ReadKeys, QueueMail, Write, Announce, QueueFails, WriteLost,
       Stop, Fault
  <2>2. QED
    BY <2>1 DEF Base, TypeInv
<1>1. CASE UNCHANGED vars \/ Lapse
  <2>1. press' = press /\ mails' = mails /\ told' = told /\ faults' = faults
    BY <1>1 DEF vars, Lapse, history
  <2>2. Owing' = Owing
    BY <2>1 DEF Owing
  <2>3. QED
    BY <2>1, <2>2 DEF Alone, AloneOK, Clean
<1>2. ASSUME NEW c \in Callers, NEW ask \in Asks, Press(c, ask) PROVE Alone'
  <2>1. /\ press'[c].at = "keys" <=> press'[c].stamp # Never
        /\ press'[c].alone => AllIdle
        /\ press'[c].read \in Held /\ mails' = mails /\ told' = told
        /\ \A b \in Callers \ {c} : press'[b] # Idle => ~ press'[b].alone
    BY <1>2, PressDoes
  <2>2. \A b \in Callers \ {c} : Stays(b)
    BY <1>2, PressStep
  <2>3. ASSUME press'[c] # Idle, press'[c].alone, faults' <= 1 PROVE AloneOK(c)'
    <3>1. AllIdle
      BY <2>1, <2>3
    <3>2. \A b \in Callers \ {c} : press'[b] = Idle
      BY <2>2, <3>1 DEF AllIdle, Stays
    <3>3. Owing = {} /\ Mailed = {}
      BY <3>1 DEF AllIdle, Owing, Mailed, Idle
    <3>4. Clean(press'[c].read.notifiedAt)
      <4>1. CASE faults = 0
        BY <2>1, <3>3, <4>1 DEF Unfailed, AccountedFor, Clean
      <4>2. CASE faults = 1
        BY <2>1, <3>3, <4>2 DEF Failed
      <4>3. QED
        BY <1>a, <2>3, <4>1, <4>2
    <3>5. c \in Owing' => press'[c].at = "keys"
      BY <2>1 DEF Owing
    <3>6. QED
      BY <2>1, <3>2, <3>4, <3>5 DEF AloneOK, Clean
  <2>4. QED
    BY <2>1, <2>3 DEF Alone
<1>3. ASSUME NEW c \in Callers, Later(c) PROVE Alone'
  <2>1. press[c] # Idle /\ press[c] \in Working /\ PressOK(press[c])
        /\ \A b \in Callers \ {c} : press'[b] = press[b]
    BY <1>3, LaterStep DEF Later
  <2>2. ASSUME NEW b \in Callers \ {c}, press'[b] # Idle, faults' <= 1 PROVE ~ press'[b].alone
    BY <1>a, <2>1, <2>2 DEF Alone, AloneOK
  <2>3. ASSUME press'[c] # Idle, press'[c].alone, faults' <= 1 PROVE AloneOK(c)'
    <3>1. /\ press'[c].read = press[c].read /\ press'[c].target = press[c].target
          /\ press'[c].stamp = press[c].stamp /\ press[c].alone
          /\ Wanted(press'[c]) = Wanted(press[c])
      BY <1>3, <2>3, LaterStep DEF Later, Wanted, KeyEpoch
    <3>2. AloneOK(c)
      BY <1>a, <2>1, <2>3, <3>1 DEF Alone
    <3>3. \A b \in Callers \ {c} : press'[b] = Idle
      BY <2>1, <3>2 DEF AloneOK
    <3>4. c \in Owing' => c \in Owing /\ (ReadKeys(c) \/ QueueMail(c))
      BY <1>3, LaterOwing
    <3> DEFINE e == press[c].read.notifiedAt
               d == DecisionOf(press[c].target)
    <3>5. \A p \in DecisionAudience(d) : [to |-> p, decision |-> d, epoch |-> e] \in Wanted(press[c])
      BY DEF Wanted, KeyEpoch
    <3>6. \A m \in Wanted(press[c]) : m.decision = d /\ m.epoch = e
      BY DEF Wanted, KeyEpoch
    <3>7. CASE c \in Owing' /\ ReadKeys(c)
      <4>1. /\ press[c].at = "keys" /\ press'[c].fresh = Wanted(press[c]) \ mails
            /\ press'[c].at = IF Wanted(press[c]) \ mails = {} THEN "write" ELSE "queue"
            /\ mails' = mails /\ told' = told
        BY <3>7, KeysDo
      <4>2. \A m \in mails : m.epoch = e => told[m.to] = m.decision
        BY <3>2, <3>4, <3>7, <4>1 DEF AloneOK, Clean
      <4>3. ASSUME press'[c].at = "write", NEW p \in DecisionAudience(d) PROVE told'[p] = d
        <5> DEFINE m == [to |-> p, decision |-> d, epoch |-> e]
        <5>1. m \in mails
          BY <3>5, <4>1, <4>3
        <5>2. m.to = p /\ m.decision = d /\ m.epoch = e
          OBVIOUS
        <5> HIDE DEF m, d, e
        <5>3. QED
          BY <4>1, <4>2, <5>1, <5>2
      <4> HIDE DEF d
      <4>4. Clean(press[c].read.notifiedAt)'
        BY <3>1, <4>1, <4>2 DEF Clean
      <4>5. QED
        BY <3>1, <3>3, <4>1, <4>3, <4>4 DEF AloneOK, d
    <3>8. CASE c \in Owing' /\ QueueMail(c)
      <4>1. press[c].at = "queue" /\ press'[c].at = "write" /\ Upsert(press[c].fresh)
        BY <3>8, QueueDoes
      <4>2. /\ press[c].fresh = Wanted(press[c]) \ mails
            /\ \A m \in mails : m.epoch = e => told[m.to] = m.decision
        BY <3>2, <3>4, <3>8, <4>1 DEF AloneOK, Clean
      <4>3. press[c].fresh \in SUBSET Mails /\ \A m \in press[c].fresh : m.decision = d
        BY <2>1, <3>6, <4>1, <4>2, WantedMails
      <4>a. DecisionAudience(d) \subseteq Cast
        BY DecisionsAssumption DEF DecisionAudience
      <4> HIDE DEF d
      <4>4. /\ mails' = mails \cup press[c].fresh
            /\ \A p \in Cast : told'[p] = told[p] \/ told'[p] = d
            /\ \A m \in press[c].fresh \ mails : told'[m.to] = d
        BY <4>1, <4>3, UpsertSays
      <4>5. ASSUME NEW p \in DecisionAudience(d) PROVE told'[p] = d
        <5> DEFINE m == [to |-> p, decision |-> d, epoch |-> e]
        <5>1. m \in Wanted(press[c])
          BY <3>5, <4>5
        <5>2. m.to = p /\ m.decision = d /\ m.epoch = e
          OBVIOUS
        <5> HIDE DEF m, e
        <5>3. CASE m \in mails
          BY <4>2, <4>4, <4>5, <4>a, <5>2, <5>3
        <5>4. CASE m \notin mails
          BY <4>2, <4>4, <5>1, <5>2, <5>4
        <5>5. QED
          BY <5>3, <5>4
      <4>6. QED
        BY <3>1, <3>3, <4>1, <4>5 DEF AloneOK, d
    <3>9. CASE c \notin Owing'
      BY <3>3, <3>9 DEF AloneOK
    <3>10. QED
      BY <3>4, <3>7, <3>8, <3>9
  <2>4. QED
    BY <2>2, <2>3 DEF Alone
<1>4. QED
  BY <1>1, <1>2, <1>3 DEF Next, Later

(* A Notify that has been alone at work since it read the row commits the    *)
(* decision its recipients were told last (decisions.ts: the mail first, the *)
(* status after), for any cast, whoever filed the submission, and any number *)
(* of requests and presses, until a second call has failed: two can leave    *)
(* the mail of a reversed decision under the same keys.                      *)
THEOREM CommittedWasToldLast == Spec => CommittedIsToldLast
<1> DEFINE TellInv == StampsNew /\ Unfailed /\ Failed /\ Alone
<1>1. Init => TellInv
  <2> SUFFICES ASSUME Init PROVE TellInv
    OBVIOUS
  <2>1. /\ row \in [status : {"draft", "pending"}, notifiedAt : {Never}] /\ list = Expired
        /\ mails = {} /\ presses = 0 /\ faults = 0 /\ \A c \in Callers : press[c] = Idle
    BY DEF Init
  <2>2. Owing = {} /\ Views = {row} /\ Held = {row} /\ row.notifiedAt = 0
    BY <2>1 DEF Owing, Views, Held, Idle, Never
  <2>3. Instants = {0}
    BY <2>1, <2>2 DEF Instants
  <2>4. StampsNew
    BY <2>1, <2>2, <2>3 DEF StampsNew, Idle
  <2>5. QED
    BY <2>1, <2>2, <2>4 DEF Unfailed, Failed, Alone
<1>2. Base /\ Base' /\ TellInv /\ [Next]_vars => TellInv'
  BY StampsStep, UnfailedStep, FailedStep, AloneStep
<1>3. TellInv => \A c \in Callers : Commits(c) /\ press[c].alone /\ faults <= 1 => ToldItsOwn(c)
  <2> SUFFICES ASSUME TellInv, NEW c \in Callers, Commits(c), press[c].alone, faults <= 1
               PROVE  ToldItsOwn(c)
    OBVIOUS
  <2>1. press[c].at = "write" /\ c \in Owing /\ press[c] # Idle
    BY DEF Commits, Write, Owing, Idle
  <2>2. QED
    BY <2>1 DEF Alone, AloneOK, ToldItsOwn
<1> HIDE DEF TellInv
<1>4. QED
  BY <1>1, <1>2, <1>3, BaseHolds, PTL DEF Spec, CommittedIsToldLast
=============================================================================
