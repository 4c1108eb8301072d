----------------------------- MODULE RateWindow -----------------------------
(***************************************************************************)
(* The gate in front of Airtable: the rate window of one isolate, and the  *)
(* scheduler's calls that pass through it.                                 *)
(*                                                                         *)
(* The window is module state, shared by every request the isolate serves. *)
(* Calls are admitted one decision at a time, along a chain of promises: a *)
(* call decides when the one that asked before it has.  A decision charges *)
(* the next slot, sleeping until that slot comes; an answer from the cache *)
(* hands the slot back and wakes whoever sleeps on it.                     *)
(*                                                                         *)
(* On Workers a timer does not outlive the request that armed it.  So a    *)
(* request that ends leaves corpses in the chain: calls whose timers never *)
(* fire.  Whether a corpse still runs when somebody else resolves what it  *)
(* waits for, the code's comments tell both ways (Corpses).                *)
(*                                                                         *)
(* An isolate runs one thing at a time: what a resolved promise continues  *)
(* runs before the next timer, answer or request, and timers fire on time. *)
(* Instants are kept as the ticks left until them.                         *)
(***************************************************************************)
EXTENDS Integers, FiniteSets

CONSTANTS Calls,        \* calls of the scheduler, numbered
          Requests,     \* what the isolate serves
          RequestOf,    \* [Calls -> the request a call is made in]
          NoCall,       \* stands for the absence of one
          Spacing,      \* spacingMs, in ticks
          Grace,        \* stallGraceMs, in ticks
          Ceiling,      \* CACHE_HIT_CEILING_MS, in ticks
          MaxAttempts,  \* maxAttempts of one call
          MaxDeaths,    \* the bound on requests that end early
          Corpses       \* what those leave: some of "inert", "resumes"

ASSUME CallsAssumption == Calls \subseteq Nat /\ NoCall \notin Calls
ASSUME RequestOfAssumption == RequestOf \in [Calls -> Requests]
ASSUME TimesAssumption == /\ Spacing \in Nat \ {0} /\ Grace \in Nat \ {0}
                          /\ Ceiling \in 1 .. Spacing - 1
ASSUME BoundsAssumption == /\ MaxAttempts \in Nat \ {0} /\ MaxDeaths \in Nat
                           /\ Corpses \subseteq {"inert", "resumes"}

VARIABLES call,     \* [Calls -> where that call is]
          slot,     \* ticks until nextSlotAt, 0 once it is past
          sleeper,  \* the call whose nap is registered, or NoCall
          due,      \* ticks until sleeperDueAt, negative once it is past
          tail,     \* the call whose decision the next one waits for, or NoCall
          stood,    \* ticks since advancedAt
          dead,     \* the requests that ended early
          inert,    \* those whose corpses do not run again
          since     \* ticks since a call last left for the network, history

vars == <<call, slot, sleeper, due, tail, stood, dead, inert, since>>
window == <<slot, sleeper, due, tail, stood>>

NoTimer == -1
Standing == Spacing + Grace

\* timer is what is left of the call's own timer: its watch on the queue, its
\* nap; in flight, the time it has been away.  clear is history: it asked with no
\* corpse ahead, or once the queue had stood as long as the repair waits, or after
\* such a call.
Resting == [pc |-> "idle", ahead |-> NoCall, timer |-> NoTimer, woken |-> FALSE,
            attempt |-> 0, hit |-> FALSE, charged |-> 0, clear |-> FALSE]

TypeOK ==
    /\ call \in [Calls -> [pc : {"idle", "turn", "nap", "flight", "backoff"},
                           ahead : Calls \cup {NoCall}, timer : Nat \cup {NoTimer}, woken : BOOLEAN,
                           attempt : 0 .. MaxAttempts, hit : BOOLEAN, charged : Nat,
                           clear : BOOLEAN]]
    /\ slot \in Nat
    /\ sleeper \in Calls \cup {NoCall}
    /\ due \in Int /\ due >= -Grace
    /\ tail \in Calls \cup {NoCall}
    /\ stood \in 0 .. Standing
    /\ inert \subseteq dead /\ dead \subseteq Requests
    /\ since \in 0 .. Spacing

Init ==
    /\ call = [c \in Calls |-> Resting]
    /\ slot = 0
    /\ sleeper = NoCall /\ due = 0
    /\ tail = NoCall
    /\ stood = 0
    /\ dead = {} /\ inert = {}
    /\ since = Spacing
-----------------------------------------------------------------------------
At(c, pc) == call[c].pc = pc
Dead(c) == RequestOf[c] \in dead
Inert(c) == RequestOf[c] \in inert

\* queued: between admit and the decision, those that will never decide included.
Queued == {c \in Calls : At(c, "turn") \/ At(c, "nap")}

\* The promise c waits for has been resolved.
TurnCame(c) == At(c, "turn") /\ call[c].ahead = NoCall
Pending(c) == ~ Inert(c) /\ (TurnCame(c) \/ (At(c, "nap") /\ call[c].woken))

\* Nothing is left to run of what has been resolved.
Drained == \A c \in Calls : ~ Pending(c)

AtLeast0(t) == IF t < 0 THEN 0 ELSE t
Less(t) == AtLeast0(t - 1)

(* The queue's two repairs, which any live call may perform for a dead one. *)

\* The registered sleeper is late by the grace period.
Stalled == sleeper # NoCall /\ due <= -Grace

\* releaseStalledHead, on the calls, and on the registration.
Released == IF Stalled THEN [call EXCEPT ![sleeper].woken = TRUE] ELSE call

StillAsleep == IF Stalled THEN NoCall ELSE sleeper
StillDue == IF Stalled THEN 0 ELSE due

\* Mutant of Abandoned: the chain is kept, as it was before the repair.
NeverAbandoned == FALSE

\* abandonStalledQueue, which looks at the registration after the release.
Abandoned == StillAsleep = NoCall /\ Queued # {} /\ stood >= Standing

\* waitForTurn: a watch is armed only while somebody is registered as asleep.
WatchFor == IF StillAsleep = NoCall THEN NoTimer ELSE AtLeast0(StillDue) + Grace

(* admit.  Calls of one request can be made together, before the turns of   *)
(* those already made come; any other starts when all that was resolved has *)
(* run.                                                                     *)
\* Mutant of Turn: callers decide for themselves, as in the first version.
NoQueue == NoCall

\* Whose decision a new caller waits for.
Turn == IF Abandoned THEN NoCall ELSE tail

ClearAhead == stood >= Standing \/ tail = NoCall \/ (call[tail].clear /\ ~ Dead(tail))

Beside(c, x) == At(c, "idle") /\ RequestOf[x] = RequestOf[c] /\ x < c

Ask(c) ==
    /\ At(c, "idle") \/ At(c, "backoff")
    /\ ~ Dead(c)
    /\ \A x \in Calls : Pending(x) => TurnCame(x) /\ Beside(c, x)
    /\ call' = [x \in Calls |->
                  IF x # c THEN [Released[x] EXCEPT !.clear = @ /\ stood < Standing]
                  ELSE [Resting EXCEPT !.pc = "turn",
                                       !.ahead = Turn,
                                       !.timer = IF Queued = {} THEN NoTimer ELSE WatchFor,
                                       !.attempt = call[c].attempt + 1,
                                       !.clear = ClearAhead]]
    /\ sleeper' = StillAsleep /\ due' = StillDue
    /\ tail' = c
    /\ stood' = IF Abandoned THEN 0 ELSE stood
    /\ UNCHANGED <<slot, dead, inert, since>>

\* A waiting call's watch fires: the turn has not come.
Watch(c) ==
    /\ At(c, "turn") /\ call[c].timer = 0
    /\ Drained
    /\ call' = [Released EXCEPT ![c].timer = WatchFor]
    /\ sleeper' = StillAsleep /\ due' = StillDue
    /\ UNCHANGED <<slot, tail, stood, dead, inert, since>>
-----------------------------------------------------------------------------
(* take.                                                                    *)

\* The call after c, if it waits for c, has its turn.
Settled(c, after) ==
    [x \in Calls |-> IF x = c THEN after
                     ELSE IF call[x].ahead = c THEN [call[x] EXCEPT !.ahead = NoCall]
                     ELSE call[x]]

\* queue = admitted.then(...), on either outcome.
Advance(c, after) ==
    /\ call' = Settled(c, after)
    /\ tail' = IF tail = c THEN NoCall ELSE tail
    /\ stood' = 0

\* The slot is charged from the slot, not from now, and the call leaves.  That of a
\* corpse throws instead.
Decide(c) ==
    /\ slot' = slot + Spacing
    /\ IF Dead(c)
         THEN Advance(c, Resting) /\ UNCHANGED since
         ELSE \E hit \in BOOLEAN :
                /\ Advance(c, [call[c] EXCEPT !.pc = "flight", !.timer = 0, !.woken = FALSE,
                                              !.hit = hit, !.charged = slot + Spacing])
                /\ since' = IF hit THEN since ELSE 0

\* Calls made together have their turns in that order.
InOrder(c) == \A x \in Calls : TurnCame(x) /\ RequestOf[x] = RequestOf[c] => c <= x

\* The turn has come and the slot is free.
Go(c) ==
    /\ TurnCame(c) /\ ~ Inert(c) /\ InOrder(c)
    /\ slot = 0
    /\ Decide(c)
    /\ UNCHANGED <<sleeper, due, dead, inert>>

\* The turn has come and the slot has not.  A corpse's nap has no timer, or
\* arming it throws.
Sleep(c) ==
    /\ TurnCame(c) /\ ~ Inert(c) /\ InOrder(c)
    /\ slot > 0
    /\ \/ /\ call' = [call EXCEPT ![c].pc = "nap",
                                  ![c].timer = IF Dead(c) THEN NoTimer ELSE slot]
          /\ sleeper' = c /\ due' = slot
          /\ UNCHANGED <<tail, stood>>
       \/ /\ Dead(c)
          /\ Advance(c, Resting)
          /\ UNCHANGED <<sleeper, due>>
    /\ UNCHANGED <<slot, dead, inert, since>>

\* The nap is over, or somebody ended it.
NapEnds(c) ==
    /\ At(c, "nap") /\ ~ Inert(c)
    /\ call[c].woken \/ (call[c].timer = 0 /\ Drained)
    /\ Decide(c)
    /\ sleeper' = NoCall /\ due' = 0
    /\ UNCHANGED <<dead, inert>>
-----------------------------------------------------------------------------
(* tryOnce, and what verdictFor makes of its outcome.                       *)

\* A first attempt, and nobody has charged since.
Refunds(c) == call[c].attempt = 1 /\ slot = call[c].charged

\* Mutant of WokenByRefund: the slot moves and the sleeper sleeps on.
WakesNobody(x) == FALSE

\* refund wakes whoever is registered.
WokenByRefund(x) == x = sleeper

\* From the cache, within the ceiling; it takes a tick, so that an instant has an end.
Cached(c) ==
    /\ At(c, "flight") /\ call[c].hit /\ call[c].timer > 0
    /\ Drained
    /\ IF Refunds(c)
         THEN /\ slot' = AtLeast0(slot - Spacing)
              /\ sleeper' = NoCall /\ due' = 0
              /\ call' = [x \in Calls |-> IF x = c THEN Resting
                                          ELSE IF WokenByRefund(x) THEN [call[x] EXCEPT !.woken = TRUE]
                                          ELSE call[x]]
         ELSE call' = [call EXCEPT ![c] = Resting] /\ UNCHANGED <<slot, sleeper, due>>
    /\ UNCHANGED <<tail, stood, dead, inert, since>>

\* From Airtable: measured, no answer of its own is that fast.
Answered(c) ==
    /\ At(c, "flight") /\ ~ call[c].hit /\ call[c].timer > Ceiling
    /\ Drained
    /\ call' = [call EXCEPT ![c] = Resting]
    /\ UNCHANGED <<window, dead, inert, since>>

\* Mutant of Exhausted: the attempts are not counted.
NeverExhausted(c) == FALSE

Exhausted(c) == call[c].attempt = MaxAttempts

\* Refused (429, 5xx) or lost on the way, however fast: backoff, or the end.
Refused(c) ==
    /\ At(c, "flight") /\ ~ call[c].hit
    /\ Drained
    /\ call' = [call EXCEPT ![c] = IF Exhausted(c) THEN Resting
                                   ELSE [Resting EXCEPT !.pc = "backoff", !.attempt = call[c].attempt]]
    /\ UNCHANGED <<window, dead, inert, since>>

\* A request ends while calls of it are under way, and its timers with it.
Die(r) ==
    /\ r \notin dead /\ Cardinality(dead) < MaxDeaths
    /\ \E c \in Calls : RequestOf[c] = r /\ ~ At(c, "idle")
    /\ dead' = dead \cup {r}
    /\ \/ "inert" \in Corpses /\ inert' = inert \cup {r}
       \/ "resumes" \in Corpses /\ UNCHANGED inert
    /\ call' = [c \in Calls |-> IF RequestOf[c] # r THEN call[c]
                                ELSE IF c \in Queued THEN [call[c] EXCEPT !.timer = NoTimer]
                                ELSE Resting]
    /\ UNCHANGED <<window, since>>

\* What has to happen before time passes: what was resolved runs, timers fire,
\* and the cache answers within the ceiling.
Waits(c) ==
    /\ ~ Pending(c)
    /\ c \in Queued => call[c].timer # 0
    /\ At(c, "flight") /\ call[c].hit => call[c].timer < Ceiling

Aged(r) ==
    CASE r.pc \in {"turn", "nap"} /\ r.timer > 0 -> [r EXCEPT !.timer = @ - 1]
      [] r.pc = "flight" -> [r EXCEPT !.timer = IF @ > Ceiling THEN @ ELSE @ + 1,
                                      !.charged = Less(@)]
      [] OTHER -> r

Tick ==
    /\ \A c \in Calls : Waits(c)
    /\ call' = [c \in Calls |-> Aged(call[c])]
    /\ slot' = Less(slot)
    /\ due' = IF sleeper = NoCall \/ due = -Grace THEN due ELSE due - 1
    /\ stood' = IF stood = Standing THEN stood ELSE stood + 1
    /\ since' = IF since = Spacing THEN since ELSE since + 1
    /\ UNCHANGED <<sleeper, tail, dead, inert>>

Next ==
    \/ \E c \in Calls : \/ Ask(c) \/ Watch(c) \/ Go(c) \/ Sleep(c) \/ NapEnds(c)
                        \/ Cached(c) \/ Answered(c) \/ Refused(c)
    \/ \E r \in Requests : Die(r)
    \/ Tick

Spec == Init /\ [][Next]_vars

\* What the isolate does of itself.  Nobody has to call, and Airtable need not answer.
Runs(c) == Watch(c) \/ Go(c) \/ Sleep(c) \/ NapEnds(c) \/ Cached(c)

\* The isolate runs what can run, and time passes.
FairSpec == Spec /\ WF_vars(Tick \/ \E c \in Calls : Runs(c))
-----------------------------------------------------------------------------
Leaves(c) == ~ At(c, "flight") /\ call'[c].pc = "flight"

(***************************************************************************)
(* The cap: two calls that reach the network leave a slot apart, whatever  *)
(* the cache answers in between, whoever it wakes, and whichever request   *)
(* ends in the queue, as long as its corpses do not come back.             *)
(***************************************************************************)
CorpsesRest == inert = dead

SpacingKept ==
    [][\A c \in Calls : CorpsesRest /\ Leaves(c) /\ ~ call'[c].hit => since = Spacing]_vars

(***************************************************************************)
(* "Nobody holds a slot somebody else is sleeping on": a live call that    *)
(* sleeps is the registered sleeper and sleeps for exactly the next slot,  *)
(* so a refund finds it, and none is lost between the look at the slot and *)
(* the registration.                                                       *)
(***************************************************************************)
SleepsForTheSlot ==
    \A c \in Calls : CorpsesRest /\ At(c, "nap") /\ ~ Dead(c) /\ ~ call[c].woken =>
        sleeper = c /\ call[c].timer = slot

(***************************************************************************)
(* A request that dies in the queue wedges nobody but those it finds       *)
(* waiting behind it: a call that asks once the queue has stood still for  *)
(* a slot and the grace, and every call after it, decides in the end.      *)
(***************************************************************************)
ClearDies == \E x \in Queued : call[x].clear /\ Dead(x)

NotWedged ==
    \A c \in Calls : c \in Queued /\ call[c].clear ~> c \notin Queued \/ Dead(c) \/ ClearDies

(***************************************************************************)
(* "The wait is BOUNDED even with nobody asleep": a call whose request     *)
(* lives decides in the end.                                               *)
(***************************************************************************)
WaitIsBounded == \A c \in Calls : c \in Queued ~> c \notin Queued \/ Dead(c)
=============================================================================
