-------------------------- MODULE RateWindowProofs --------------------------
(***************************************************************************)
(* What the rate window guarantees for any calls, requests and deaths,     *)
(* proved by TLAPS.                                                        *)
(*                                                                         *)
(* The types need nothing.  The cap and the refunds need that the corpses  *)
(* of dead requests do not come back (CorpsesRest); then                   *)
(*   Chain    the promises form chains, whose last call is the tail;       *)
(*   Heads    one live call decides at a time: there are two only in the   *)
(*            instant in which the second abandons the first one's chain;  *)
(*   Naps     the live call that sleeps is the registered one, and sleeps  *)
(*            for the slot;                                                *)
(*   Charges  the slot is never more than a spacing away, and only the     *)
(*            call that left last can hand it back.                        *)
(***************************************************************************)
EXTENDS RateWindow, TLAPS

CallStates == [pc : {"idle", "turn", "nap", "flight", "backoff"},
               ahead : Calls \cup {NoCall}, timer : Nat \cup {NoTimer}, woken : BOOLEAN,
               attempt : 0 .. MaxAttempts, hit : BOOLEAN, charged : Nat, clear : BOOLEAN]

\* An idle call has made no attempt, and one that backs off has one left.
Attempts ==
    \A c \in Calls : /\ At(c, "idle") => call[c].attempt = 0
                     /\ At(c, "backoff") => call[c].attempt < MaxAttempts

TypeInv == TypeOK /\ Attempts

-----------------------------------------------------------------------------
(* The types.                                                                *)

(* The calls' states have their type.                                        *)
LEMMA CallTypes ==
  ASSUME TypeOK
  PROVE  call \in [Calls -> CallStates]
  BY DEF TypeOK, CallStates

(* A call at rest is one of them, without an attempt.                        *)
LEMMA RestingType ==
  Resting \in CallStates /\ Resting.attempt = 0 /\ Resting.pc = "idle" /\ Resting.ahead = NoCall
  BY BoundsAssumption DEF Resting, CallStates, NoTimer

(* A state of the type, of calls that keep to Attempts.                      *)
LEMMA CallsKept ==
  ASSUME call' \in [Calls -> CallStates],
         \A c \in Calls : /\ call'[c].pc = "idle" => call'[c].attempt = 0
                          /\ call'[c].pc = "backoff" => call'[c].attempt < MaxAttempts,
         slot' \in Nat, sleeper' \in Calls \cup {NoCall}, due' \in Int, due' >= -Grace,
         tail' \in Calls \cup {NoCall}, stood' \in 0 .. Standing,
         inert' \subseteq dead', dead' \subseteq Requests, since' \in 0 .. Spacing
  PROVE  TypeInv'
<1>1. TypeOK'
  BY DEF TypeOK, CallStates
<1>2. Attempts'
  BY DEF Attempts, At
<1>3. QED
  BY <1>1, <1>2 DEF TypeInv

(* Nothing is waking but the sleeper, and nothing else changes, when a       *)
(* stalled one is released.                                                  *)
LEMMA ReleasedDoes ==
  ASSUME TypeOK
  PROVE  /\ Released \in [Calls -> CallStates]
         /\ \A x \in Calls :
              /\ Released[x].pc = call[x].pc /\ Released[x].ahead = call[x].ahead
              /\ Released[x].timer = call[x].timer /\ Released[x].attempt = call[x].attempt
              /\ Released[x].hit = call[x].hit /\ Released[x].charged = call[x].charged
              /\ Released[x].clear = call[x].clear
              /\ ~ (Stalled /\ x = sleeper) => Released[x].woken = call[x].woken
<1>1. call \in [Calls -> CallStates]
  BY CallTypes
<1>2. CASE Stalled
  <2>1. sleeper \in Calls /\ Released = [call EXCEPT ![sleeper].woken = TRUE]
    BY <1>2 DEF Stalled, Released, TypeOK
  <2>2. Released = [call EXCEPT ![sleeper] = [call[sleeper] EXCEPT !.woken = TRUE]]
    BY <2>1
  <2>3. ASSUME NEW r \in CallStates
        PROVE  /\ [r EXCEPT !.woken = TRUE] \in CallStates
               /\ [r EXCEPT !.woken = TRUE].pc = r.pc /\ [r EXCEPT !.woken = TRUE].ahead = r.ahead
               /\ [r EXCEPT !.woken = TRUE].timer = r.timer
               /\ [r EXCEPT !.woken = TRUE].attempt = r.attempt
               /\ [r EXCEPT !.woken = TRUE].hit = r.hit
               /\ [r EXCEPT !.woken = TRUE].charged = r.charged
               /\ [r EXCEPT !.woken = TRUE].clear = r.clear
    BY DEF CallStates
  <2>4. PICK s : s = [call[sleeper] EXCEPT !.woken = TRUE]
    OBVIOUS
  <2>5. /\ s \in CallStates
        /\ s.pc = call[sleeper].pc /\ s.ahead = call[sleeper].ahead
        /\ s.timer = call[sleeper].timer /\ s.attempt = call[sleeper].attempt
        /\ s.hit = call[sleeper].hit /\ s.charged = call[sleeper].charged
        /\ s.clear = call[sleeper].clear
    BY <1>1, <2>1, <2>3, <2>4
  <2>6. Released = [call EXCEPT ![sleeper] = s]
    BY <2>2, <2>4
  <2>7. /\ Released \in [Calls -> CallStates] /\ Released[sleeper] = s
        /\ \A x \in Calls \ {sleeper} : Released[x] = call[x]
    BY <1>1, <2>1, <2>5, <2>6
  <2>8. QED
    BY <1>2, <2>5, <2>7
<1>3. CASE ~ Stalled
  BY <1>1, <1>3 DEF Released
<1>4. QED
  BY <1>2, <1>3

(* What is left registered after that, and the watch armed on it.            *)
LEMMA StillTypes ==
  ASSUME TypeOK
  PROVE  /\ StillAsleep \in Calls \cup {NoCall}
         /\ StillDue \in Int /\ StillDue >= -Grace
         /\ WatchFor \in Nat \cup {NoTimer}
<1>1. Grace \in Nat /\ sleeper \in Calls \cup {NoCall} /\ due \in Int /\ due >= -Grace
  BY TimesAssumption DEF TypeOK
<1>2. StillAsleep \in Calls \cup {NoCall} /\ StillDue \in Int /\ StillDue >= -Grace
  BY <1>1 DEF StillAsleep, StillDue
<1>3. AtLeast0(StillDue) \in Nat
  BY <1>2 DEF AtLeast0
<1>4. QED
  BY <1>1, <1>2, <1>3 DEF WatchFor

-----------------------------------------------------------------------------
(* What each action does to the calls.                                       *)

\* x keeps its place, its timer, its charge and its attempts.
SamePlace(x) ==
    /\ call'[x].pc = call[x].pc /\ call'[x].ahead = call[x].ahead
    /\ call'[x].attempt = call[x].attempt
    /\ call'[x].hit = call[x].hit /\ call'[x].charged = call[x].charged

SameNap(x) == call'[x].timer = call[x].timer /\ call'[x].woken = call[x].woken

(* Asking.                                                                   *)
LEMMA AskDoes ==
  ASSUME TypeInv, NEW c \in Calls, Ask(c)
  PROVE  /\ call' \in [Calls -> CallStates]
         /\ call'[c].pc = "turn" /\ call'[c].ahead = Turn /\ call'[c].woken = FALSE
         /\ \A x \in Calls \ {c} : /\ SamePlace(x)
                                   /\ ~ (Stalled /\ x = sleeper) => SameNap(x)
<1>1. call \in [Calls -> CallStates] /\ call[c] \in CallStates
  BY CallTypes DEF TypeInv
<1>2. PICK r : r = [Resting EXCEPT !.pc = "turn", !.ahead = Turn,
                                   !.timer = IF Queued = {} THEN NoTimer ELSE WatchFor,
                                   !.attempt = call[c].attempt + 1, !.clear = ClearAhead]
  OBVIOUS
<1>3. r.pc = "turn" /\ r.ahead = Turn /\ r.woken = FALSE
  BY <1>2 DEF Resting
<1>4. call[c].attempt + 1 \in 0 .. MaxAttempts
  <2>1. call[c].attempt \in 0 .. MaxAttempts /\ MaxAttempts \in Nat \ {0}
    BY <1>1, BoundsAssumption DEF CallStates
  <2>2. call[c].attempt = 0 \/ call[c].attempt < MaxAttempts
    BY DEF Ask, TypeInv, Attempts
  <2>3. QED
    BY <2>1, <2>2
<1>5. r \in CallStates
  <2>1. Turn \in Calls \cup {NoCall}
    BY DEF TypeInv, TypeOK, Turn
  <2>2. PICK t : t = IF Queued = {} THEN NoTimer ELSE WatchFor
    OBVIOUS
  <2>3. t \in Nat \cup {NoTimer}
    BY <2>2, StillTypes DEF TypeInv
  <2>4. ClearAhead \in BOOLEAN
    BY DEF ClearAhead
  <2>5. r = [pc |-> "turn", ahead |-> Turn, timer |-> t, woken |-> FALSE,
             attempt |-> call[c].attempt + 1, hit |-> FALSE, charged |-> 0, clear |-> ClearAhead]
    BY <1>2, <2>2 DEF Resting
  <2>6. QED
    BY <1>4, <2>1, <2>3, <2>4, <2>5 DEF CallStates
<1>6. \A x \in Calls : call'[x] = IF x # c THEN [Released[x] EXCEPT !.clear = @ /\ stood < Standing]
                                  ELSE r
  BY <1>2 DEF Ask
<1>7. ASSUME NEW x \in Calls \ {c}
      PROVE  /\ call'[x] \in CallStates /\ SamePlace(x)
             /\ ~ (Stalled /\ x = sleeper) => SameNap(x)
  <2>1. PICK s : s = Released[x]
    OBVIOUS
  <2>2. s \in CallStates /\ call'[x] = [s EXCEPT !.clear = @ /\ stood < Standing]
    BY <1>6, <2>1, ReleasedDoes DEF TypeInv
  <2>3. /\ call'[x] \in CallStates
        /\ call'[x].pc = s.pc /\ call'[x].ahead = s.ahead /\ call'[x].attempt = s.attempt
        /\ call'[x].hit = s.hit /\ call'[x].charged = s.charged
        /\ call'[x].timer = s.timer /\ call'[x].woken = s.woken
    BY <2>2 DEF CallStates
  <2>4. QED
    BY <2>1, <2>3, ReleasedDoes DEF TypeInv, SamePlace, SameNap
<1>8. call' \in [Calls -> CallStates]
  <2>1. DOMAIN call' = Calls /\ call' = [x \in Calls |-> call'[x]]
    BY DEF Ask
  <2>2. \A x \in Calls : call'[x] \in CallStates
    BY <1>5, <1>6, <1>7
  <2>3. QED
    BY <2>1, <2>2
<1>9. QED
  BY <1>3, <1>6, <1>7, <1>8

(* A watch.                                                                  *)
LEMMA WatchDoes ==
  ASSUME TypeInv, NEW c \in Calls, Watch(c)
  PROVE  /\ call' \in [Calls -> CallStates]
         /\ \A x \in Calls : SamePlace(x)
         /\ \A x \in Calls \ {c} : ~ (Stalled /\ x = sleeper) => SameNap(x)
         /\ ~ (Stalled /\ c = sleeper) => call'[c].woken = call[c].woken
<1>1. PICK s : s = Released[c]
  OBVIOUS
<1>2. PICK t : t = WatchFor
  OBVIOUS
<1>3. Released \in [Calls -> CallStates] /\ s \in CallStates /\ t \in Nat \cup {NoTimer}
  BY <1>1, <1>2, ReleasedDoes, StillTypes DEF TypeInv
<1>4. PICK r : r = [s EXCEPT !.timer = t]
  OBVIOUS
<1>5. /\ r \in CallStates
      /\ r.pc = s.pc /\ r.ahead = s.ahead /\ r.attempt = s.attempt
      /\ r.hit = s.hit /\ r.charged = s.charged /\ r.woken = s.woken
  BY <1>3, <1>4 DEF CallStates
<1>6. call' = [Released EXCEPT ![c] = r]
  BY <1>1, <1>2, <1>4 DEF Watch
<1>7. /\ call' \in [Calls -> CallStates] /\ call'[c] = r
      /\ \A x \in Calls \ {c} : call'[x] = Released[x]
  BY <1>3, <1>5, <1>6
<1>8. QED
  BY <1>1, <1>5, <1>7, ReleasedDoes DEF TypeInv, SamePlace, SameNap

\* x stays what it is, but no longer waits for c.
Follows(x, c) ==
    /\ call'[x].pc = call[x].pc
    /\ call'[x].ahead = (IF call[x].ahead = c THEN NoCall ELSE call[x].ahead)
    /\ call'[x].attempt = call[x].attempt
    /\ call'[x].hit = call[x].hit /\ call'[x].charged = call[x].charged
    /\ SameNap(x)

(* The chain moves on.                                                       *)
LEMMA AdvanceDoes ==
  ASSUME TypeInv, NEW c \in Calls, NEW after \in CallStates, Advance(c, after)
  PROVE  /\ call' \in [Calls -> CallStates] /\ call'[c] = after
         /\ \A x \in Calls \ {c} : Follows(x, c)
         /\ tail' = (IF tail = c THEN NoCall ELSE tail) /\ stood' = 0
<1>1. call \in [Calls -> CallStates]
  BY CallTypes DEF TypeInv
<1>2. \A x \in Calls : call'[x] = IF x = c THEN after
                                  ELSE IF call[x].ahead = c THEN [call[x] EXCEPT !.ahead = NoCall]
                                  ELSE call[x]
  BY DEF Advance, Settled
<1>3. ASSUME NEW x \in Calls \ {c}
      PROVE  call'[x] \in CallStates /\ Follows(x, c)
  <2>1. call[x] \in CallStates
    BY <1>1
  <2>2. CASE call[x].ahead = c
    <3>1. call'[x] = [call[x] EXCEPT !.ahead = NoCall]
      BY <1>2, <2>2
    <3>2. QED
      BY <2>1, <2>2, <3>1 DEF Follows, SameNap, CallStates
  <2>3. CASE call[x].ahead # c
    BY <1>2, <2>1, <2>3 DEF Follows, SameNap
  <2>4. QED
    BY <2>2, <2>3
<1>4. call' \in [Calls -> CallStates]
  <2>1. call' = [x \in Calls |-> call'[x]]
    BY DEF Advance, Settled
  <2>2. \A x \in Calls : call'[x] \in CallStates
    BY <1>2, <1>3
  <2>3. QED
    BY <2>1, <2>2
<1>5. QED
  BY <1>2, <1>3, <1>4 DEF Advance

(* A decision.                                                               *)
LEMMA DecideDoes ==
  ASSUME TypeInv, NEW c \in Calls, Decide(c)
  PROVE  /\ call' \in [Calls -> CallStates]
         /\ Dead(c) => call'[c] = Resting /\ since' = since
         /\ ~ Dead(c) => /\ call'[c].pc = "flight" /\ call'[c].ahead = call[c].ahead
                         /\ call'[c].charged = slot + Spacing
                         /\ since' = IF call'[c].hit THEN since ELSE 0
         /\ \A x \in Calls \ {c} : Follows(x, c)
         /\ slot' = slot + Spacing
         /\ tail' = (IF tail = c THEN NoCall ELSE tail) /\ stood' = 0
<1>1. slot \in Nat /\ Spacing \in Nat /\ call[c] \in CallStates
  BY CallTypes, TimesAssumption DEF TypeInv, TypeOK
<1>2. CASE Dead(c)
  <2>1. Advance(c, Resting) /\ since' = since /\ slot' = slot + Spacing
    BY <1>2 DEF Decide
  <2>2. QED
    BY <1>2, <2>1, AdvanceDoes, RestingType
<1>3. CASE ~ Dead(c)
  <2>1. PICK hit \in BOOLEAN :
          /\ Advance(c, [call[c] EXCEPT !.pc = "flight", !.timer = 0, !.woken = FALSE,
                                        !.hit = hit, !.charged = slot + Spacing])
          /\ since' = IF hit THEN since ELSE 0
    BY <1>3 DEF Decide
  <2>2. PICK r : r = [call[c] EXCEPT !.pc = "flight", !.timer = 0, !.woken = FALSE,
                                     !.hit = hit, !.charged = slot + Spacing]
    OBVIOUS
  <2>3. /\ r \in CallStates /\ r.pc = "flight" /\ r.ahead = call[c].ahead
        /\ r.charged = slot + Spacing /\ r.hit = hit
    <3>1. slot + Spacing \in Nat
      BY <1>1
    <3>2. QED
      BY <1>1, <2>2, <3>1 DEF CallStates
  <2>4. Advance(c, r)
    BY <2>1, <2>2
  <2>5. slot' = slot + Spacing
    BY DEF Decide
  <2>6. QED
    BY <1>3, <2>1, <2>3, <2>4, <2>5, AdvanceDoes
<1>4. QED
  BY <1>2, <1>3

\* x has its place and its nap, and nothing else of it changes either.
Same(x) == SamePlace(x) /\ SameNap(x)

(* Falling asleep, which a corpse may fail to do.                            *)
LEMMA SleepDoes ==
  ASSUME TypeInv, NEW c \in Calls, Sleep(c)
  PROVE  /\ call' \in [Calls -> CallStates]
         /\ \/ /\ \A x \in Calls \ {c} : Same(x)
               /\ call'[c].pc = "nap" /\ call'[c].ahead = call[c].ahead
               /\ call'[c].woken = call[c].woken
               /\ ~ Dead(c) => call'[c].timer = slot
               /\ sleeper' = c /\ due' = slot /\ tail' = tail /\ stood' = stood
            \/ /\ Dead(c) /\ call'[c] = Resting
               /\ sleeper' = sleeper /\ due' = due
               /\ tail' = (IF tail = c THEN NoCall ELSE tail) /\ stood' = 0
<1>1. call \in [Calls -> CallStates] /\ slot \in Nat
  BY CallTypes DEF TypeInv, TypeOK
<1>2. CASE /\ call' = [call EXCEPT ![c].pc = "nap",
                                   ![c].timer = IF Dead(c) THEN NoTimer ELSE slot]
           /\ sleeper' = c /\ due' = slot
           /\ UNCHANGED <<tail, stood>>
  <2>1. PICK t : t = IF Dead(c) THEN NoTimer ELSE slot
    OBVIOUS
  <2>2. PICK r : r = [call[c] EXCEPT !.pc = "nap", !.timer = t]
    OBVIOUS
  <2>3. t \in Nat \cup {NoTimer} /\ call[c] \in CallStates
    BY <1>1, <2>1
  <2>4. /\ r \in CallStates /\ r.pc = "nap" /\ r.ahead = call[c].ahead /\ r.woken = call[c].woken
        /\ r.timer = t
    BY <2>2, <2>3 DEF CallStates
  <2>5. call' = [call EXCEPT ![c] = r]
    BY <1>2, <2>1, <2>2
  <2>6. /\ call' \in [Calls -> CallStates] /\ call'[c] = r
        /\ \A x \in Calls \ {c} : call'[x] = call[x]
    BY <1>1, <2>4, <2>5
  <2>7. \A x \in Calls \ {c} : Same(x)
    BY <2>6 DEF Same, SamePlace, SameNap
  <2>8. QED
    BY <1>2, <2>1, <2>4, <2>6, <2>7
<1>3. CASE Dead(c) /\ Advance(c, Resting) /\ UNCHANGED <<sleeper, due>>
  BY <1>3, AdvanceDoes, RestingType
<1>4. QED
  BY <1>2, <1>3 DEF Sleep

(* An answer from the cache.                                                 *)
LEMMA CachedDoes ==
  ASSUME TypeInv, NEW c \in Calls, Cached(c)
  PROVE  /\ call' \in [Calls -> CallStates] /\ call'[c] = Resting
         /\ \A x \in Calls \ {c} : SamePlace(x) /\ call'[x].timer = call[x].timer
         /\ \A x \in Calls \ {c} : x # sleeper \/ ~ Refunds(c) => SameNap(x)
         /\ Refunds(c) => /\ slot' = AtLeast0(slot - Spacing) /\ sleeper' = NoCall /\ due' = 0
                          /\ sleeper \in Calls \ {c} => call'[sleeper].woken = TRUE
         /\ ~ Refunds(c) => UNCHANGED <<slot, sleeper, due>>
<1>1. call \in [Calls -> CallStates]
  BY CallTypes DEF TypeInv
<1>2. CASE Refunds(c)
  <2>1. \A x \in Calls : call'[x] = IF x = c THEN Resting
                                    ELSE IF x = sleeper THEN [call[x] EXCEPT !.woken = TRUE]
                                    ELSE call[x]
    BY <1>2 DEF Cached, WokenByRefund
  <2>2. ASSUME NEW x \in Calls \ {c}
        PROVE  /\ call'[x] \in CallStates /\ SamePlace(x) /\ call'[x].timer = call[x].timer
               /\ x # sleeper => SameNap(x)
               /\ x = sleeper => call'[x].woken = TRUE
    <3>1. call[x] \in CallStates
      BY <1>1
    <3>2. CASE x = sleeper
      <4>1. call'[x] = [call[x] EXCEPT !.woken = TRUE]
        BY <2>1, <3>2
      <4>2. QED
        BY <3>1, <3>2, <4>1 DEF CallStates, SamePlace
    <3>3. CASE x # sleeper
      BY <2>1, <3>1, <3>3 DEF SamePlace, SameNap
    <3>4. QED
      BY <3>2, <3>3
  <2>3. call' = [x \in Calls |-> call'[x]] /\ call'[c] = Resting
    BY <1>2, <2>1 DEF Cached
  <2>4. call' \in [Calls -> CallStates]
    <3>1. \A x \in Calls : call'[x] \in CallStates
      BY <2>2, <2>3, RestingType
    <3>2. QED
      BY <2>3, <3>1
  <2>5. slot' = AtLeast0(slot - Spacing) /\ sleeper' = NoCall /\ due' = 0
    BY <1>2 DEF Cached
  <2>6. QED
    BY <1>2, <2>2, <2>3, <2>4, <2>5
<1>3. CASE ~ Refunds(c)
  <2>1. call' = [call EXCEPT ![c] = Resting] /\ UNCHANGED <<slot, sleeper, due>>
    BY <1>3 DEF Cached
  <2>2. /\ call' \in [Calls -> CallStates] /\ call'[c] = Resting
        /\ \A x \in Calls \ {c} : call'[x] = call[x]
    BY <1>1, <2>1, RestingType
  <2>3. QED
    BY <1>3, <2>1, <2>2 DEF SamePlace, SameNap
<1>4. QED
  BY <1>2, <1>3

(* Any other.                                                                *)
LEMMA AnsweredDoes ==
  ASSUME TypeInv, NEW c \in Calls, Answered(c) \/ Refused(c)
  PROVE  /\ call' \in [Calls -> CallStates]
         /\ call'[c].pc \in {"idle", "backoff"} /\ call'[c].ahead = NoCall
         /\ call'[c].pc = "idle" => call'[c].attempt = 0
         /\ call'[c].pc = "backoff" => call'[c].attempt < MaxAttempts
         /\ \A x \in Calls \ {c} : Same(x)
<1>1. call \in [Calls -> CallStates] /\ call[c] \in CallStates
  BY CallTypes DEF TypeInv
<1>2. PICK r : /\ call' = [call EXCEPT ![c] = r]
               /\ r = Resting \/ (/\ ~ Exhausted(c)
                                  /\ r = [Resting EXCEPT !.pc = "backoff", !.attempt = call[c].attempt])
  BY DEF Answered, Refused
<1>3. /\ r \in CallStates /\ r.pc \in {"idle", "backoff"} /\ r.ahead = NoCall
      /\ r.pc = "idle" => r.attempt = 0
      /\ r.pc = "backoff" => r.attempt < MaxAttempts
  <2>1. CASE r = Resting
    BY <2>1, RestingType
  <2>2. CASE ~ Exhausted(c) /\ r = [Resting EXCEPT !.pc = "backoff", !.attempt = call[c].attempt]
    <3>1. call[c].attempt \in 0 .. MaxAttempts /\ call[c].attempt # MaxAttempts
      BY <1>1, <2>2 DEF Exhausted, CallStates
    <3>2. r = [pc |-> "backoff", ahead |-> NoCall, timer |-> NoTimer, woken |-> FALSE,
               attempt |-> call[c].attempt, hit |-> FALSE, charged |-> 0, clear |-> FALSE]
      BY <2>2 DEF Resting
    <3>3. call[c].attempt < MaxAttempts
      BY <3>1, BoundsAssumption
    <3>4. QED
      BY <3>1, <3>2, <3>3 DEF CallStates
  <2>3. QED
    BY <1>2, <2>1, <2>2
<1>4. /\ call' \in [Calls -> CallStates] /\ call'[c] = r
      /\ \A x \in Calls \ {c} : call'[x] = call[x]
  BY <1>1, <1>2, <1>3
<1>5. QED
  BY <1>3, <1>4 DEF Same, SamePlace, SameNap

(* A request's early end.                                                    *)
LEMMA DieDoes ==
  ASSUME TypeInv, NEW r \in Requests, Die(r)
  PROVE  /\ call' \in [Calls -> CallStates]
         /\ \A x \in Calls :
              /\ RequestOf[x] # r => Same(x)
              /\ RequestOf[x] = r /\ x \in Queued => SamePlace(x) /\ call'[x].woken = call[x].woken
              /\ RequestOf[x] = r /\ x \notin Queued => call'[x] = Resting
<1>1. call \in [Calls -> CallStates]
  BY CallTypes DEF TypeInv
<1>2. \A x \in Calls : call'[x] = IF RequestOf[x] # r THEN call[x]
                                  ELSE IF x \in Queued THEN [call[x] EXCEPT !.timer = NoTimer]
                                  ELSE Resting
  BY DEF Die
<1>3. ASSUME NEW x \in Calls
      PROVE  /\ call'[x] \in CallStates
             /\ RequestOf[x] # r => Same(x)
             /\ RequestOf[x] = r /\ x \in Queued => SamePlace(x) /\ call'[x].woken = call[x].woken
             /\ RequestOf[x] = r /\ x \notin Queued => call'[x] = Resting
  <2>1. call[x] \in CallStates
    BY <1>1
  <2>2. CASE RequestOf[x] # r
    BY <1>2, <2>1, <2>2 DEF Same, SamePlace, SameNap
  <2>3. CASE RequestOf[x] = r /\ x \in Queued
    <3>1. call'[x] = [call[x] EXCEPT !.timer = NoTimer]
      BY <1>2, <2>3
    <3>2. QED
      BY <2>1, <2>3, <3>1 DEF CallStates, SamePlace
  <2>4. CASE RequestOf[x] = r /\ x \notin Queued
    BY <1>2, <2>4, RestingType
  <2>5. QED
    BY <2>2, <2>3, <2>4
<1>4. call' \in [Calls -> CallStates]
  <2>1. call' = [x \in Calls |-> call'[x]]
    BY DEF Die
  <2>2. QED
    BY <1>3, <2>1
<1>5. QED
  BY <1>3, <1>4

(* A tick, on one call.                                                      *)
LEMMA AgedDoes ==
  ASSUME NEW r \in CallStates
  PROVE  /\ Aged(r) \in CallStates
         /\ Aged(r).pc = r.pc /\ Aged(r).ahead = r.ahead /\ Aged(r).attempt = r.attempt
         /\ Aged(r).hit = r.hit /\ Aged(r).woken = r.woken
         /\ Aged(r).charged = IF r.pc = "flight" THEN Less(r.charged) ELSE r.charged
         /\ r.pc = "nap" /\ r.timer > 0 => Aged(r).timer = r.timer - 1
<1>1. r.timer \in Nat \cup {NoTimer} /\ r.charged \in Nat /\ Ceiling \in Nat /\ NoTimer = -1
  BY TimesAssumption DEF CallStates, NoTimer
<1>2. CASE r.pc \in {"turn", "nap"} /\ r.timer > 0
  <2>1. Aged(r) = [r EXCEPT !.timer = r.timer - 1]
    BY <1>2 DEF Aged
  <2>2. r.timer - 1 \in Nat
    BY <1>1, <1>2
  <2>3. QED
    BY <1>1, <1>2, <2>1, <2>2 DEF CallStates
<1>3. CASE r.pc = "flight"
  <2>1. PICK t : t = IF r.timer > Ceiling THEN r.timer ELSE r.timer + 1
    OBVIOUS
  <2>2. Aged(r) = [r EXCEPT !.timer = t, !.charged = Less(r.charged)]
    BY <1>3, <2>1 DEF Aged
  <2>3. t \in Nat \cup {NoTimer} /\ Less(r.charged) \in Nat
    BY <1>1, <2>1 DEF Less, AtLeast0
  <2>4. QED
    BY <1>3, <2>2, <2>3 DEF CallStates
<1>4. CASE ~ (r.pc \in {"turn", "nap"} /\ r.timer > 0) /\ r.pc # "flight"
  BY <1>4 DEF Aged
<1>5. QED
  BY <1>2, <1>3, <1>4

(* A tick, on the window.                                                    *)
LEMMA TickDoes ==
  ASSUME TypeInv, Tick
  PROVE  /\ call' \in [Calls -> CallStates]
         /\ \A x \in Calls : call'[x] = Aged(call[x])
         /\ slot' = Less(slot) /\ slot' \in Nat
         /\ due' = (IF sleeper = NoCall \/ due = -Grace THEN due ELSE due - 1)
         /\ due' \in Int /\ due' >= -Grace
         /\ stood' = (IF stood = Standing THEN stood ELSE stood + 1) /\ stood' \in 0 .. Standing
         /\ since' = (IF since = Spacing THEN since ELSE since + 1) /\ since' \in 0 .. Spacing
<1>1. /\ call \in [Calls -> CallStates] /\ slot \in Nat /\ due \in Int /\ due >= -Grace
      /\ stood \in 0 .. Standing /\ since \in 0 .. Spacing
      /\ Spacing \in Nat /\ Grace \in Nat /\ Standing \in Nat
  BY CallTypes, TimesAssumption DEF TypeInv, TypeOK, Standing
<1>2. call' = [x \in Calls |-> Aged(call[x])]
  BY DEF Tick
<1>3. call' \in [Calls -> CallStates] /\ \A x \in Calls : call'[x] = Aged(call[x])
  BY <1>1, <1>2, AgedDoes
<1>4. slot' = Less(slot) /\ slot' \in Nat
  BY <1>1 DEF Tick, Less, AtLeast0
<1>5. /\ due' = (IF sleeper = NoCall \/ due = -Grace THEN due ELSE due - 1)
      /\ due' \in Int /\ due' >= -Grace
  BY <1>1 DEF Tick
<1>6. stood' = (IF stood = Standing THEN stood ELSE stood + 1) /\ stood' \in 0 .. Standing
  BY <1>1 DEF Tick
<1>7. since' = (IF since = Spacing THEN since ELSE since + 1) /\ since' \in 0 .. Spacing
  BY <1>1 DEF Tick
<1>8. QED
  BY <1>3, <1>4, <1>5, <1>6, <1>7

-----------------------------------------------------------------------------
(* Every step keeps the types.                                               *)

(* The calls that a step leaves where they are keep to Attempts.             *)
LEMMA SameAttempts ==
  ASSUME TypeInv, NEW x \in Calls, call'[x].pc = call[x].pc, call'[x].attempt = call[x].attempt
  PROVE  /\ call'[x].pc = "idle" => call'[x].attempt = 0
         /\ call'[x].pc = "backoff" => call'[x].attempt < MaxAttempts
  BY DEF TypeInv, Attempts, At

LEMMA TypeStep ==
  ASSUME TypeInv, [Next]_vars
  PROVE  TypeInv'
<1>0. /\ call \in [Calls -> CallStates]
      /\ slot \in Nat /\ sleeper \in Calls \cup {NoCall} /\ due \in Int /\ due >= -Grace
      /\ tail \in Calls \cup {NoCall} /\ stood \in 0 .. Standing
      /\ inert \subseteq dead /\ dead \subseteq Requests /\ since \in 0 .. Spacing
      /\ Spacing \in Nat /\ 0 \in 0 .. Standing /\ 0 \in 0 .. Spacing /\ Grace \in Nat
      /\ 0 >= -Grace
  BY CallTypes, TimesAssumption DEF TypeInv, TypeOK, Standing
<1>1. ASSUME NEW c \in Calls, Ask(c) PROVE TypeInv'
  <2>1. /\ call' \in [Calls -> CallStates]
        /\ \A x \in Calls : /\ call'[x].pc = "idle" => call'[x].attempt = 0
                            /\ call'[x].pc = "backoff" => call'[x].attempt < MaxAttempts
    BY <1>1, AskDoes, SameAttempts DEF SamePlace
  <2>2. /\ slot' = slot /\ sleeper' = StillAsleep /\ due' = StillDue /\ tail' = c
        /\ stood' = (IF Abandoned THEN 0 ELSE stood)
        /\ dead' = dead /\ inert' = inert /\ since' = since
    BY <1>1 DEF Ask
  <2>3. StillAsleep \in Calls \cup {NoCall} /\ StillDue \in Int /\ StillDue >= -Grace
    BY StillTypes DEF TypeInv
  <2>4. stood' \in 0 .. Standing
    BY <1>0, <2>2
  <2>5. QED
    BY <1>0, <2>1, <2>2, <2>3, <2>4, CallsKept
<1>2. ASSUME NEW c \in Calls, Watch(c) PROVE TypeInv'
  <2>1. /\ call' \in [Calls -> CallStates]
        /\ \A x \in Calls : /\ call'[x].pc = "idle" => call'[x].attempt = 0
                            /\ call'[x].pc = "backoff" => call'[x].attempt < MaxAttempts
    BY <1>2, WatchDoes, SameAttempts DEF SamePlace
  <2>2. /\ slot' = slot /\ sleeper' = StillAsleep /\ due' = StillDue /\ tail' = tail
        /\ stood' = stood /\ dead' = dead /\ inert' = inert /\ since' = since
    BY <1>2 DEF Watch
  <2>3. StillAsleep \in Calls \cup {NoCall} /\ StillDue \in Int /\ StillDue >= -Grace
    BY StillTypes DEF TypeInv
  <2>4. QED
    BY <1>0, <2>1, <2>2, <2>3, CallsKept
<1>3. ASSUME NEW c \in Calls, Decide(c), dead' = dead, inert' = inert,
             sleeper' \in Calls \cup {NoCall}, due' \in Int, due' >= -Grace
      PROVE  TypeInv'
  <2>1. /\ call' \in [Calls -> CallStates]
        /\ \A x \in Calls : /\ call'[x].pc = "idle" => call'[x].attempt = 0
                            /\ call'[x].pc = "backoff" => call'[x].attempt < MaxAttempts
    <3>1. call'[c] = Resting \/ call'[c].pc = "flight"
      BY <1>3, DecideDoes
    <3>2. QED
      BY <1>3, <3>1, DecideDoes, SameAttempts, RestingType DEF Follows
  <2>2. slot' = slot + Spacing /\ stood' = 0 /\ tail' = (IF tail = c THEN NoCall ELSE tail)
    BY <1>3, DecideDoes
  <2>3. since' = since \/ since' = 0
    BY <1>3, DecideDoes
  <2>4. slot' \in Nat /\ stood' \in 0 .. Standing /\ tail' \in Calls \cup {NoCall}
        /\ since' \in 0 .. Spacing
    BY <1>0, <2>2, <2>3
  <2>5. QED
    BY <1>0, <1>3, <2>1, <2>4, CallsKept
<1>4. ASSUME NEW c \in Calls, Go(c) PROVE TypeInv'
  BY <1>0, <1>3, <1>4 DEF Go
<1>5. ASSUME NEW c \in Calls, NapEnds(c) PROVE TypeInv'
  BY <1>0, <1>3, <1>5 DEF NapEnds
<1>6. ASSUME NEW c \in Calls, Sleep(c) PROVE TypeInv'
  <2>1. /\ call' \in [Calls -> CallStates]
        /\ call'[c].pc = "nap" \/ call'[c] = Resting
        /\ \A x \in Calls \ {c} : call'[x].pc = call[x].pc /\ call'[x].attempt = call[x].attempt
    <3>1. CASE \A x \in Calls \ {c} : Same(x)
      BY <1>6, <3>1, SleepDoes DEF Same, SamePlace
    <3>2. CASE Dead(c) /\ Advance(c, Resting)
      BY <1>6, <3>2, AdvanceDoes, RestingType DEF Follows
    <3>3. QED
      BY <1>6, <3>1, <3>2, SleepDoes DEF Sleep
  <2>2. \A x \in Calls : /\ call'[x].pc = "idle" => call'[x].attempt = 0
                         /\ call'[x].pc = "backoff" => call'[x].attempt < MaxAttempts
    BY <2>1, SameAttempts, RestingType
  <2>3. /\ sleeper' \in Calls \cup {NoCall} /\ due' \in Int /\ due' >= -Grace
        /\ tail' \in Calls \cup {NoCall} /\ stood' \in 0 .. Standing
    <3>1. sleeper' \in {c, sleeper} /\ due' \in {slot, due} /\ tail' \in {tail, NoCall} /\ stood' \in {stood, 0}
      BY <1>6, SleepDoes
    <3>2. QED
      BY <1>0, <3>1
  <2>4. slot' = slot /\ dead' = dead /\ inert' = inert /\ since' = since
    BY <1>6 DEF Sleep
  <2>5. QED
    BY <1>0, <2>1, <2>2, <2>3, <2>4, CallsKept
<1>7. ASSUME NEW c \in Calls, Cached(c) PROVE TypeInv'
  <2>1. /\ call' \in [Calls -> CallStates] /\ call'[c] = Resting
        /\ \A x \in Calls \ {c} : SamePlace(x)
    BY <1>7, CachedDoes
  <2>2. \A x \in Calls : /\ call'[x].pc = "idle" => call'[x].attempt = 0
                         /\ call'[x].pc = "backoff" => call'[x].attempt < MaxAttempts
    BY <2>1, SameAttempts, RestingType DEF SamePlace
  <2>3. slot' \in {slot, AtLeast0(slot - Spacing)} /\ sleeper' \in {sleeper, NoCall} /\ due' \in {due, 0}
    BY <1>7, CachedDoes
  <2>4. AtLeast0(slot - Spacing) \in Nat
    BY <1>0 DEF AtLeast0
  <2>5. /\ tail' = tail /\ stood' = stood /\ dead' = dead /\ inert' = inert /\ since' = since
    BY <1>7 DEF Cached
  <2>6. slot' \in Nat /\ sleeper' \in Calls \cup {NoCall} /\ due' \in Int /\ due' >= -Grace
    BY <1>0, <2>3, <2>4
  <2>7. QED
    BY <1>0, <2>1, <2>2, <2>5, <2>6, CallsKept
<1>8. ASSUME NEW c \in Calls, Answered(c) \/ Refused(c) PROVE TypeInv'
  <2>1. /\ call' \in [Calls -> CallStates]
        /\ \A x \in Calls : /\ call'[x].pc = "idle" => call'[x].attempt = 0
                            /\ call'[x].pc = "backoff" => call'[x].attempt < MaxAttempts
    BY <1>8, AnsweredDoes, SameAttempts DEF Same, SamePlace
  <2>2. UNCHANGED <<window, dead, inert, since>>
    BY <1>8 DEF Answered, Refused
  <2>3. QED
    BY <1>0, <2>1, <2>2, CallsKept DEF window
<1>9. ASSUME NEW r \in Requests, Die(r) PROVE TypeInv'
  <2>1. /\ call' \in [Calls -> CallStates]
        /\ \A x \in Calls : SamePlace(x) \/ call'[x] = Resting
    BY <1>9, DieDoes DEF Same
  <2>2. \A x \in Calls : /\ call'[x].pc = "idle" => call'[x].attempt = 0
                         /\ call'[x].pc = "backoff" => call'[x].attempt < MaxAttempts
    BY <2>1, SameAttempts, RestingType DEF SamePlace
  <2>3. /\ UNCHANGED <<window, since>> /\ dead' = dead \cup {r}
        /\ inert' = inert \cup {r} \/ inert' = inert
    BY <1>9 DEF Die
  <2>4. inert' \subseteq dead' /\ dead' \subseteq Requests
    BY <1>0, <2>3
  <2>5. QED
    BY <1>0, <2>1, <2>2, <2>3, <2>4, CallsKept DEF window
<1>10. ASSUME Tick PROVE TypeInv'
  <2>1. \A x \in Calls : call'[x].pc = call[x].pc /\ call'[x].attempt = call[x].attempt
    BY <1>0, <1>10, TickDoes, AgedDoes
  <2>2. \A x \in Calls : /\ call'[x].pc = "idle" => call'[x].attempt = 0
                         /\ call'[x].pc = "backoff" => call'[x].attempt < MaxAttempts
    BY <2>1, SameAttempts
  <2>3. sleeper' = sleeper /\ tail' = tail /\ dead' = dead /\ inert' = inert
    BY <1>10 DEF Tick
  <2>4. QED
    BY <1>0, <1>10, <2>2, <2>3, TickDoes, CallsKept
<1>11. CASE UNCHANGED vars
  BY <1>11 DEF vars, TypeInv, TypeOK, Attempts, At
<1>12. QED
  BY <1>1, <1>2, <1>4, <1>5, <1>6, <1>7, <1>8, <1>9, <1>10, <1>11 DEF Next

LEMMA TypesStay == Spec => []TypeInv
<1>1. Init => TypeInv
  <2>1. SUFFICES ASSUME Init PROVE TypeInv
    OBVIOUS
  <2>2. Spacing \in Nat /\ Grace \in Nat /\ Standing \in Nat
    BY TimesAssumption DEF Standing
  <2>3. \A c \in Calls : call[c] = Resting
    BY <2>1 DEF Init
  <2>4. TypeOK
    <3>1. call \in [Calls -> CallStates]
      BY <2>1, RestingType DEF Init
    <3>2. QED
      BY <2>1, <2>2, <3>1 DEF Init, TypeOK, CallStates
  <2>5. Attempts
    BY <2>3, RestingType DEF Attempts, At
  <2>6. QED
    BY <2>4, <2>5 DEF TypeInv
<1>2. QED
  BY <1>1, TypeStep, PTL DEF Spec

(* Every variable of the window has its type, and no call makes more than    *)
(* its attempts, whatever dies and whether or not corpses come back.         *)
THEOREM TypeCorrect == Spec => []TypeOK
<1>1. TypeInv => TypeOK
  BY DEF TypeInv
<1>2. QED
  BY <1>1, TypesStay, PTL

-----------------------------------------------------------------------------
(* While corpses stay dead.                                                  *)

\* A live call that decides next, or sleeps before it does.
Head(c) == ~ Dead(c) /\ (TurnCame(c) \/ At(c, "nap"))

Waiting(c) == call[c].ahead # NoCall

\* Who waits does so for a queued call, for one only, and nobody for the tail.
Chain ==
    /\ \A c \in Calls : Waiting(c) => At(c, "turn") /\ call[c].ahead \in Queued /\ call[c].ahead # c
    /\ \A c, d \in Calls : Waiting(c) /\ call[c].ahead = call[d].ahead => c = d
    /\ tail # NoCall => tail \in Queued /\ \A c \in Calls : call[c].ahead # tail
    /\ \A c \in Calls : Head(c) => tail # NoCall

\* Two heads are of one request and of one instant, in which the slot is free,
\* and nobody waits for the first.
Pair(c, d) ==
    /\ TurnCame(c) /\ TurnCame(d) /\ RequestOf[c] = RequestOf[d]
    /\ slot = 0 /\ stood < Standing /\ sleeper = NoCall
    /\ tail # c
    /\ \A x \in Calls : call[x].ahead # c
    /\ \A x \in Calls : Head(x) => x \in {c, d}

\* A call whose turn came when the queue had stood still for long is alone in it.
Heads ==
    /\ \A c, d \in Calls : c < d /\ Head(c) /\ Head(d) => Pair(c, d)
    /\ \A c \in Calls : Head(c) /\ TurnCame(c) /\ stood = Standing => Queued = {c}

Naps ==
    /\ sleeper # NoCall => /\ At(sleeper, "nap") /\ tail # NoCall
                           /\ \A c \in Calls : Head(c) => c = sleeper
    /\ \A c \in Calls : At(c, "nap") /\ ~ Dead(c) =>
          \/ call[c].woken = TRUE /\ slot = 0 /\ sleeper = NoCall
          \/ call[c].woken = FALSE /\ sleeper = c /\ call[c].timer = slot /\ due = slot
    /\ \A c \in Calls : At(c, "turn") => call[c].woken = FALSE

\* A charge that is not over is that of the last call to leave.
Charged(c) == At(c, "flight") /\ call[c].charged > 0

Charges ==
    /\ slot > 0 => slot + stood <= Spacing
    /\ since + slot >= Spacing
    /\ \A c \in Calls : Charged(c) => /\ call[c].charged = slot
                                      /\ call[c].hit => since = Spacing
    /\ \A c, d \in Calls : Charged(c) /\ Charged(d) => c = d

Sound == Chain /\ Heads /\ Naps /\ Charges

WindowInv == CorpsesRest => Sound

(* Corpses that stay dead have always been.                                  *)
LEMMA AlwaysRested ==
  ASSUME TypeInv, [Next]_vars, CorpsesRest'
  PROVE  CorpsesRest
<1>1. CASE \E r \in Requests : Die(r)
  <2>1. PICK r \in Requests : Die(r)
    BY <1>1
  <2>2. inert \subseteq dead /\ r \notin dead /\ dead' = dead \cup {r}
    BY <2>1 DEF TypeInv, TypeOK, Die
  <2>3. inert' = inert \cup {r} \/ inert' = inert
    BY <2>1 DEF Die
  <2>4. QED
    BY <2>2, <2>3 DEF CorpsesRest
<1>2. CASE dead' = dead /\ inert' = inert
  BY <1>2 DEF CorpsesRest
<1>3. QED
  BY <1>1, <1>2 DEF Next, vars, Ask, Watch, Go, Sleep, NapEnds, Cached, Answered, Refused, Tick

(* The numbers.                                                              *)
LEMMA Numbers ==
  ASSUME TypeInv
  PROVE  /\ call \in [Calls -> CallStates]
         /\ slot \in Nat /\ sleeper \in Calls \cup {NoCall} /\ due \in Int /\ due >= -Grace
         /\ tail \in Calls \cup {NoCall} /\ stood \in 0 .. Standing /\ since \in 0 .. Spacing
         /\ Spacing \in Nat \ {0} /\ Grace \in Nat \ {0} /\ Standing = Spacing + Grace
         /\ Calls \subseteq Nat /\ NoCall \notin Calls
  BY CallTypes, TimesAssumption, CallsAssumption DEF TypeInv, TypeOK, Standing

(* The window is sound when nothing has happened.                            *)
LEMMA SoundAtFirst == Init => Sound
<1>1. SUFFICES ASSUME Init PROVE Sound
  OBVIOUS
<1>2. \A c \in Calls : call[c] = Resting
  BY <1>1 DEF Init
<1>3. \A c \in Calls : /\ call[c].ahead = NoCall /\ call[c].pc = "idle"
  BY <1>2, RestingType
<1>4. \A c \in Calls : ~ Head(c) /\ ~ Waiting(c) /\ ~ Charged(c)
  BY <1>3 DEF Head, Waiting, Charged, TurnCame, At
<1>5. Chain /\ Heads
  BY <1>1, <1>4 DEF Chain, Heads, Init
<1>6. Naps
  BY <1>1, <1>3 DEF Naps, At, Init
<1>7. Charges
  BY <1>1, <1>4, TimesAssumption DEF Charges, Init
<1>8. QED
  BY <1>5, <1>6, <1>7 DEF Sound

-----------------------------------------------------------------------------
(* Steps that leave the queue as it is.                                      *)

\* x waits, sleeps or does neither, as before.
SameQueue(x) ==
    /\ call'[x].ahead = call[x].ahead
    /\ call'[x].pc = call[x].pc \/ {call[x].pc, call'[x].pc} \cap {"turn", "nap"} = {}

(* Its part in the queue is what it was, or it has died.                     *)
LEMMA PartKept ==
  ASSUME NEW x \in Calls, SameQueue(x), dead \subseteq dead'
  PROVE  /\ (x \in Queued') = (x \in Queued)
         /\ At(x, "turn")' = At(x, "turn") /\ At(x, "nap")' = At(x, "nap")
         /\ TurnCame(x)' = TurnCame(x) /\ Waiting(x)' = Waiting(x)
         /\ Head(x)' => Head(x)
<1>1. At(x, "turn")' = At(x, "turn") /\ At(x, "nap")' = At(x, "nap")
  BY DEF SameQueue, At
<1>2. TurnCame(x)' = TurnCame(x) /\ Waiting(x)' = Waiting(x)
  BY <1>1 DEF SameQueue, TurnCame, Waiting
<1>3. (x \in Queued') = (x \in Queued)
  BY <1>1 DEF Queued
<1>4. Dead(x) => Dead(x)'
  BY DEF Dead
<1>5. QED
  BY <1>1, <1>2, <1>3, <1>4 DEF Head

(* The chains and the heads stay what they were.                             *)
LEMMA QueueKept ==
  ASSUME TypeInv, Chain, \A x \in Calls : SameQueue(x), tail' = tail, dead \subseteq dead'
  PROVE  Chain' /\ Queued' = Queued
<1>1. Queued' = Queued
  <2>1. \A x \in Calls : (x \in Queued') = (x \in Queued)
    BY PartKept
  <2>2. Queued \subseteq Calls /\ Queued' \subseteq Calls
    BY DEF Queued
  <2>3. QED
    BY <2>1, <2>2
<1>2. \A x \in Calls : /\ call'[x].ahead = call[x].ahead /\ At(x, "turn")' = At(x, "turn")
                       /\ Waiting(x)' = Waiting(x) /\ (Head(x)' => Head(x))
  BY PartKept DEF SameQueue
<1>3. (\A c \in Calls : Waiting(c) => At(c, "turn") /\ call[c].ahead \in Queued /\ call[c].ahead # c)'
  BY <1>1, <1>2 DEF Chain
<1>4. (\A c, d \in Calls : Waiting(c) /\ call[c].ahead = call[d].ahead => c = d)'
  BY <1>2 DEF Chain
<1>5. (tail # NoCall => tail \in Queued /\ \A c \in Calls : call[c].ahead # tail)'
  BY <1>1, <1>2 DEF Chain
<1>6. (\A c \in Calls : Head(c) => tail # NoCall)'
  BY <1>2 DEF Chain
<1>7. QED
  BY <1>1, <1>3, <1>4, <1>5, <1>6 DEF Chain

(* With nothing left to run there is one head at most, and it sleeps.        *)
LEMMA DrainedHeads ==
  ASSUME TypeInv, CorpsesRest, Sound, Drained
  PROVE  /\ \A c \in Calls : Head(c) => ~ TurnCame(c) /\ At(c, "nap") /\ call[c].woken = FALSE
         /\ \A c, d \in Calls : Head(c) /\ Head(d) => c = d
<1>1. ASSUME NEW c \in Calls, Head(c)
      PROVE  ~ TurnCame(c) /\ At(c, "nap") /\ call[c].woken = FALSE
  <2>1. ~ Inert(c) /\ ~ Dead(c)
    BY <1>1 DEF Head, CorpsesRest, Inert, Dead
  <2>2. ~ Pending(c)
    BY DEF Drained
  <2>3. At(c, "nap") /\ ~ TurnCame(c)
    BY <1>1, <2>1, <2>2 DEF Pending, Head
  <2>4. call[c].woken # TRUE
    BY <2>1, <2>2, <2>3 DEF Pending
  <2>5. QED
    BY <2>1, <2>3, <2>4 DEF Sound, Naps
<1>2. ASSUME NEW c \in Calls, NEW d \in Calls, Head(c), Head(d) PROVE c = d
  <2>1. ~ TurnCame(c) /\ ~ TurnCame(d)
    BY <1>1, <1>2
  <2>2. ~ (c < d) /\ ~ (d < c)
    BY <1>2, <2>1 DEF Sound, Heads, Pair
  <2>3. c \in Nat /\ d \in Nat
    BY Numbers
  <2>4. QED
    BY <2>2, <2>3
<1>3. QED
  BY <1>1, <1>2

LEMMA QuietQueue ==
  ASSUME TypeInv, CorpsesRest, Sound, Drained,
         \A x \in Calls : SameQueue(x), tail' = tail, dead' = dead
  PROVE  Chain' /\ Heads' /\ Queued' = Queued
<1>1. Chain' /\ Queued' = Queued
  BY QueueKept DEF Sound
<1>2. ASSUME NEW x \in Calls, Head(x)' PROVE Head(x) /\ ~ TurnCame(x)'
  <2>1. Head(x) /\ TurnCame(x)' = TurnCame(x)
    BY <1>2, PartKept
  <2>2. QED
    BY <2>1, DrainedHeads
<1>3. ASSUME NEW c \in Calls, NEW d \in Calls, c < d, Head(c)', Head(d)' PROVE FALSE
  <2>1. c = d /\ c \in Nat
    BY <1>2, <1>3, DrainedHeads, Numbers
  <2>2. QED
    BY <1>3, <2>1
<1>4. Heads'
  BY <1>2, <1>3 DEF Heads
<1>5. QED
  BY <1>1, <1>4

(* The charges stay when neither the slot nor a call in flight changes.      *)
LEMMA ChargesKept ==
  ASSUME TypeInv, Charges, slot' = slot, since' = since, stood' = stood \/ stood' = 0,
         \A x \in Calls : Charged(x)' =>
             Charged(x) /\ call'[x].charged = call[x].charged /\ call'[x].hit = call[x].hit
  PROVE  Charges'
<1>1. slot' > 0 => slot' + stood' <= Spacing
  BY Numbers DEF Charges
<1>2. since' + slot' >= Spacing
  BY DEF Charges
<1>3. (\A c \in Calls : Charged(c) => /\ call[c].charged = slot
                                      /\ call[c].hit => since = Spacing)'
  BY DEF Charges
<1>4. (\A c, d \in Calls : Charged(c) /\ Charged(d) => c = d)'
  BY DEF Charges
<1>5. QED
  BY <1>1, <1>2, <1>3, <1>4 DEF Charges

(* Nobody live is stalled: releasing one disturbs no live nap.               *)
LEMMA LiveNapsRun ==
  ASSUME TypeInv, Sound, NEW c \in Calls, At(c, "nap"), ~ Dead(c)
  PROVE  ~ Stalled
<1>1. CASE sleeper = NoCall
  BY <1>1 DEF Stalled
<1>2. CASE sleeper = c /\ due = slot
  <2>1. ~ (slot <= -Grace)
    BY Numbers
  <2>2. QED
    BY <1>2, <2>1 DEF Stalled
<1>3. QED
  BY <1>1, <1>2 DEF Sound, Naps

(* The registered sleeper naps.                                              *)
LEMMA SleeperNaps ==
  ASSUME Sound, NEW x \in Calls, At(x, "turn")
  PROVE  x # sleeper
  BY CallsAssumption DEF Sound, Naps, At

LEMMA WatchSound ==
  ASSUME TypeInv, CorpsesRest, Sound, NEW c \in Calls, Watch(c)
  PROVE  Sound'
<1>1. /\ Drained /\ At(c, "turn") /\ sleeper' = StillAsleep /\ due' = StillDue
      /\ slot' = slot /\ tail' = tail /\ stood' = stood /\ dead' = dead /\ since' = since
  BY DEF Watch
<1>2. \A x \in Calls : SamePlace(x) /\ SameQueue(x)
  BY WatchDoes DEF SamePlace, SameQueue
<1>3. Chain' /\ Heads' /\ Queued' = Queued
  BY <1>1, <1>2, QuietQueue
<1>4. \A x \in Calls : /\ (Head(x)' => Head(x)) /\ At(x, "nap")' = At(x, "nap")
                       /\ At(x, "turn")' = At(x, "turn")
  BY <1>1, <1>2, PartKept
<1>5. Charges'
  <2>1. \A x \in Calls : Charged(x)' =>
          Charged(x) /\ call'[x].charged = call[x].charged /\ call'[x].hit = call[x].hit
    BY <1>2 DEF SamePlace, Charged, At
  <2>2. QED
    BY <1>1, <2>1, ChargesKept DEF Sound
<1>6. Naps'
  <2>1. ASSUME sleeper' # NoCall
        PROVE  At(sleeper, "nap")' /\ tail' # NoCall /\ \A x \in Calls : Head(x)' => x = sleeper'
    <3>1. sleeper' = sleeper
      BY <1>1, <2>1 DEF StillAsleep
    <3>2. sleeper \in Calls
      BY <2>1, <3>1, Numbers
    <3>3. At(sleeper, "nap")'
      BY <1>4, <2>1, <3>1, <3>2 DEF Sound, Naps, At
    <3>4. QED
      BY <1>1, <1>4, <2>1, <3>1, <3>3 DEF Sound, Naps
  <2>2. ASSUME NEW x \in Calls, At(x, "nap")', ~ Dead(x)'
        PROVE  \/ call'[x].woken = TRUE /\ slot' = 0 /\ sleeper' = NoCall
               \/ call'[x].woken = FALSE /\ sleeper' = x /\ call'[x].timer = slot' /\ due' = slot'
    <3>1. At(x, "nap") /\ ~ Dead(x)
      BY <1>1, <1>4, <2>2 DEF Dead
    <3>2. ~ Stalled
      BY <3>1, LiveNapsRun
    <3>3. x # c
      BY <1>1, <3>1 DEF At
    <3>4. SameNap(x) /\ sleeper' = sleeper /\ due' = due
      BY <1>1, <3>2, <3>3, WatchDoes DEF StillAsleep, StillDue
    <3>5. QED
      BY <1>1, <3>1, <3>4 DEF Sound, Naps, SameNap
  <2>3. ASSUME NEW x \in Calls, At(x, "turn")' PROVE call'[x].woken = FALSE
    <3>1. At(x, "turn") /\ x # sleeper
      BY <1>4, <2>3, SleeperNaps
    <3>2. call'[x].woken = call[x].woken
      BY <3>1, WatchDoes DEF SameNap
    <3>3. QED
      BY <3>1, <3>2 DEF Sound, Naps
  <2>4. QED
    BY <2>1, <2>2, <2>3 DEF Naps
<1>7. QED
  BY <1>3, <1>5, <1>6 DEF Sound

(* The naps stay when nobody live is woken and the registration is as it     *)
(* was.                                                                      *)
LEMMA NapsKept ==
  ASSUME TypeInv, Naps, \A x \in Calls : SameQueue(x), dead \subseteq dead',
         \A x \in Calls : At(x, "turn") => call'[x].woken = call[x].woken,
         \A x \in Calls : At(x, "nap") /\ ~ Dead(x)' => SameNap(x),
         UNCHANGED <<slot, sleeper, due, tail>>
  PROVE  Naps'
<1>1. \A x \in Calls : /\ (Head(x)' => Head(x)) /\ At(x, "nap")' = At(x, "nap")
                       /\ At(x, "turn")' = At(x, "turn")
  BY PartKept
<1>2. ASSUME sleeper' # NoCall
      PROVE  At(sleeper, "nap")' /\ tail' # NoCall /\ \A x \in Calls : Head(x)' => x = sleeper'
  <2>1. sleeper \in Calls
    BY <1>2, Numbers
  <2>2. At(sleeper, "nap")'
    BY <1>1, <1>2, <2>1 DEF Naps, At
  <2>3. QED
    BY <1>1, <1>2, <2>2 DEF Naps
<1>3. ASSUME NEW x \in Calls, At(x, "nap")', ~ Dead(x)'
      PROVE  \/ call'[x].woken = TRUE /\ slot' = 0 /\ sleeper' = NoCall
             \/ call'[x].woken = FALSE /\ sleeper' = x /\ call'[x].timer = slot' /\ due' = slot'
  <2>1. At(x, "nap") /\ ~ Dead(x) /\ SameNap(x)
    BY <1>1, <1>3 DEF Dead
  <2>2. QED
    BY <2>1 DEF Naps, SameNap
<1>4. ASSUME NEW x \in Calls, At(x, "turn")' PROVE call'[x].woken = FALSE
  BY <1>1, <1>4 DEF Naps
<1>5. QED
  BY <1>2, <1>3, <1>4 DEF Naps

(* A call in flight waits for nobody.                                        *)
LEMMA FlightsDoNotWait ==
  ASSUME Chain, NEW c \in Calls, ~ At(c, "turn")
  PROVE  call[c].ahead = NoCall
  BY DEF Chain, Waiting

LEMMA AnsweredSound ==
  ASSUME TypeInv, CorpsesRest, Sound, NEW c \in Calls, Answered(c) \/ Refused(c)
  PROVE  Sound'
<1>1. /\ Drained /\ At(c, "flight") /\ dead' = dead /\ since' = since
      /\ slot' = slot /\ sleeper' = sleeper /\ due' = due /\ tail' = tail /\ stood' = stood
  BY DEF Answered, Refused, window
<1>2. call[c].ahead = NoCall
  BY <1>1, FlightsDoNotWait DEF Sound, At
<1>3. /\ \A x \in Calls \ {c} : Same(x)
      /\ call'[c].pc \in {"idle", "backoff"} /\ call'[c].ahead = NoCall
  BY AnsweredDoes
<1>4. \A x \in Calls : SameQueue(x)
  BY <1>1, <1>2, <1>3 DEF SameQueue, Same, SamePlace, At
<1>5. Chain' /\ Heads'
  BY <1>1, <1>4, QuietQueue
<1>6. Charges'
  <2>1. \A x \in Calls : Charged(x)' =>
          Charged(x) /\ call'[x].charged = call[x].charged /\ call'[x].hit = call[x].hit
    BY <1>3 DEF Same, SamePlace, Charged, At
  <2>2. QED
    BY <1>1, <2>1, ChargesKept DEF Sound
<1>7. Naps'
  <2>1. \A x \in Calls : At(x, "turn") \/ At(x, "nap") => SameNap(x)
    BY <1>1, <1>3 DEF At, Same
  <2>2. QED
    BY <1>1, <1>4, <2>1, NapsKept DEF Sound, SameNap
<1>8. QED
  BY <1>5, <1>6, <1>7 DEF Sound

(* A slot handed back is free: the sleeper it wakes can leave.               *)
LEMMA CachedSound ==
  ASSUME TypeInv, CorpsesRest, Sound, NEW c \in Calls, Cached(c)
  PROVE  Sound'
<1>1. /\ Drained /\ At(c, "flight") /\ dead' = dead /\ since' = since
      /\ tail' = tail /\ stood' = stood /\ call[c].hit = TRUE
  BY Numbers DEF Cached, CallStates
<1>2. call[c].ahead = NoCall
  BY <1>1, FlightsDoNotWait DEF Sound, At
<1>3. call'[c] = Resting /\ \A x \in Calls \ {c} : SamePlace(x)
  BY CachedDoes
<1>4. \A x \in Calls : SameQueue(x)
  BY <1>1, <1>2, <1>3, RestingType DEF SameQueue, SamePlace, At
<1>5. Chain' /\ Heads'
  BY <1>1, <1>4, QuietQueue
<1>6. \A x \in Calls : Charged(x)' =>
        /\ x # c /\ Charged(x) /\ call'[x].charged = call[x].charged /\ call'[x].hit = call[x].hit
  BY <1>3, RestingType DEF SamePlace, Charged, At
<1>7. CASE ~ Refunds(c)
  <2>1. UNCHANGED <<slot, sleeper, due>> /\ \A x \in Calls \ {c} : SameNap(x)
    BY <1>7, CachedDoes
  <2>2. Charges'
    BY <1>1, <1>6, <2>1, ChargesKept DEF Sound
  <2>3. \A x \in Calls : At(x, "turn") \/ At(x, "nap") => SameNap(x)
    BY <1>1, <2>1 DEF At
  <2>4. Naps'
    BY <1>1, <1>4, <2>1, <2>3, NapsKept DEF Sound, SameNap
  <2>5. QED
    BY <1>5, <2>2, <2>4 DEF Sound
<1>8. CASE Refunds(c)
  <2>1. /\ slot' = AtLeast0(slot - Spacing) /\ sleeper' = NoCall /\ call[c].charged = slot
        /\ \A x \in Calls \ {c} : x # sleeper => SameNap(x)
        /\ sleeper \in Calls \ {c} => call'[sleeper].woken = TRUE
    BY <1>8, CachedDoes DEF Refunds
  <2>2. slot <= Spacing
    BY Numbers DEF Sound, Charges
  <2>3. slot' = 0
    BY <2>1, <2>2, Numbers DEF AtLeast0
  <2>4. since = Spacing
    <3>1. CASE slot = 0
      BY <3>1, Numbers DEF Sound, Charges
    <3>2. CASE slot > 0
      BY <1>1, <2>1, <3>2 DEF Sound, Charges, Charged
    <3>3. QED
      BY <3>1, <3>2, Numbers
  <2>5. \A x \in Calls : ~ Charged(x)'
    <3>1. ASSUME NEW x \in Calls, Charged(x)' PROVE FALSE
      <4>1. x # c /\ Charged(x) /\ call[x].charged = slot /\ slot > 0
        BY <1>6, <3>1 DEF Sound, Charges, Charged
      <4>2. Charged(c)
        BY <1>1, <2>1, <4>1 DEF Charged
      <4>3. QED
        BY <4>1, <4>2 DEF Sound, Charges
    <3>2. QED
      BY <3>1
  <2>6. Charges'
    BY <1>1, <2>3, <2>4, <2>5, Numbers DEF Charges
  <2>7. ASSUME NEW x \in Calls, At(x, "nap")', ~ Dead(x)' PROVE call'[x].woken = TRUE
    <3>1. At(x, "nap") /\ ~ Dead(x) /\ x # c
      BY <1>1, <1>4, <2>7, PartKept DEF Dead, At
    <3>2. call[x].woken = FALSE
      BY <1>1, <3>1, DrainedHeads DEF Head
    <3>3. sleeper = x
      BY <3>1, <3>2 DEF Sound, Naps
    <3>4. QED
      BY <2>1, <3>1, <3>3
  <2>8. ASSUME NEW x \in Calls, At(x, "turn")' PROVE call'[x].woken = FALSE
    <3>1. At(x, "turn")
      BY <1>1, <1>4, <2>8, PartKept
    <3>2. x # c /\ x # sleeper
      BY <1>1, <3>1, SleeperNaps DEF At
    <3>3. QED
      BY <2>1, <3>1, <3>2 DEF Sound, Naps, SameNap
  <2>9. Naps'
    BY <2>1, <2>3, <2>7, <2>8 DEF Naps
  <2>10. QED
    BY <1>5, <2>6, <2>9 DEF Sound
<1>9. QED
  BY <1>7, <1>8

LEMMA DieSound ==
  ASSUME TypeInv, CorpsesRest, Sound, NEW r \in Requests, Die(r)
  PROVE  Sound'
<1>1. /\ dead' = dead \cup {r} /\ since' = since
      /\ slot' = slot /\ sleeper' = sleeper /\ due' = due /\ tail' = tail /\ stood' = stood
  BY DEF Die, window
<1>2. \A x \in Calls : SameQueue(x)
  <2>1. ASSUME NEW x \in Calls PROVE SameQueue(x)
    <3>1. CASE RequestOf[x] = r /\ x \notin Queued
      <4>1. call'[x].pc = "idle" /\ call'[x].ahead = NoCall
        BY <3>1, DieDoes, RestingType
      <4>2. ~ At(x, "turn") /\ ~ At(x, "nap")
        BY <3>1 DEF Queued
      <4>3. call[x].ahead = NoCall
        BY <4>2, FlightsDoNotWait DEF Sound
      <4>4. QED
        BY <4>1, <4>2, <4>3 DEF SameQueue, At
    <3>2. CASE SamePlace(x)
      BY <3>2 DEF SamePlace, SameQueue
    <3>3. QED
      BY <3>1, <3>2, DieDoes DEF Same
  <2>2. QED
    BY <2>1
<1>3. Chain' /\ Queued' = Queued
  BY <1>1, <1>2, QueueKept DEF Sound
<1>4. \A x \in Calls : (Head(x)' => Head(x)) /\ TurnCame(x)' = TurnCame(x)
  BY <1>1, <1>2, PartKept
<1>5. Heads'
  <2>1. ASSUME NEW c \in Calls, NEW d \in Calls, c < d, Head(c)', Head(d)' PROVE Pair(c, d)'
    <3>1. Pair(c, d)
      BY <1>4, <2>1 DEF Sound, Heads
    <3>2. \A x \in Calls : call'[x].ahead # c
      BY <1>2, <3>1 DEF Pair, SameQueue
    <3>3. QED
      BY <1>1, <1>4, <3>1, <3>2 DEF Pair
  <2>2. ASSUME NEW c \in Calls, Head(c)', TurnCame(c)', stood' = Standing PROVE Queued' = {c}
    BY <1>1, <1>3, <1>4, <2>2 DEF Sound, Heads
  <2>3. QED
    BY <2>1, <2>2 DEF Heads
<1>6. Naps'
  <2>1. \A x \in Calls : At(x, "turn") => call'[x].woken = call[x].woken
    BY DieDoes DEF Queued, Same, SameNap
  <2>2. \A x \in Calls : At(x, "nap") /\ ~ Dead(x)' => SameNap(x)
    BY <1>1, DieDoes DEF Dead, Same
  <2>3. QED
    BY <1>1, <1>2, <2>1, <2>2, NapsKept DEF Sound
<1>7. Charges'
  <2>1. \A x \in Calls : Charged(x)' => SamePlace(x)
    BY DieDoes, RestingType DEF Charged, At, Same
  <2>2. \A x \in Calls : Charged(x)' =>
          Charged(x) /\ call'[x].charged = call[x].charged /\ call'[x].hit = call[x].hit
    BY <2>1 DEF SamePlace, Charged, At
  <2>3. QED
    BY <1>1, <2>2, ChargesKept DEF Sound
<1>8. QED
  BY <1>3, <1>5, <1>6, <1>7 DEF Sound

LEMMA TickSound ==
  ASSUME TypeInv, CorpsesRest, Sound, Tick
  PROVE  Sound'
<1>1. /\ Drained /\ sleeper' = sleeper /\ tail' = tail /\ dead' = dead
      /\ slot' = Less(slot)
      /\ due' = (IF sleeper = NoCall \/ due = -Grace THEN due ELSE due - 1)
      /\ stood' = (IF stood = Standing THEN stood ELSE stood + 1)
      /\ since' = (IF since = Spacing THEN since ELSE since + 1)
  BY TickDoes DEF Tick, Waits, Drained
<1>2. ASSUME NEW x \in Calls
      PROVE  /\ call[x] \in CallStates
             /\ call'[x].pc = call[x].pc /\ call'[x].ahead = call[x].ahead
             /\ call'[x].hit = call[x].hit /\ call'[x].woken = call[x].woken
             /\ call'[x].charged = IF call[x].pc = "flight" THEN Less(call[x].charged)
                                   ELSE call[x].charged
             /\ call[x].pc = "nap" /\ call[x].timer > 0 => call'[x].timer = call[x].timer - 1
  <2>1. call[x] \in CallStates /\ call'[x] = Aged(call[x])
    BY TickDoes, Numbers
  <2>2. QED
    BY <2>1, AgedDoes
<1>3. \A x \in Calls : SameQueue(x)
  BY <1>2 DEF SameQueue
<1>4. Chain' /\ Heads'
  BY <1>1, <1>3, QuietQueue
<1>5. \A x \in Calls : /\ (Head(x)' => Head(x)) /\ At(x, "nap")' = At(x, "nap")
                       /\ At(x, "turn")' = At(x, "turn")
  BY <1>1, <1>3, PartKept
<1>6. Naps'
  <2>1. ASSUME sleeper' # NoCall
        PROVE  At(sleeper, "nap")' /\ tail' # NoCall /\ \A x \in Calls : Head(x)' => x = sleeper'
    <3>1. sleeper \in Calls
      BY <1>1, <2>1, Numbers
    <3>2. At(sleeper, "nap")'
      BY <1>1, <1>5, <2>1, <3>1 DEF Sound, Naps, At
    <3>3. QED
      BY <1>1, <1>5, <2>1, <3>2 DEF Sound, Naps
  <2>2. ASSUME NEW x \in Calls, At(x, "nap")', ~ Dead(x)'
        PROVE  call'[x].woken = FALSE /\ sleeper' = x /\ call'[x].timer = slot' /\ due' = slot'
    <3>1. At(x, "nap") /\ ~ Dead(x)
      BY <1>1, <1>5, <2>2 DEF Dead
    <3>2. call[x].woken = FALSE
      BY <1>1, <3>1, DrainedHeads DEF Head
    <3>3. sleeper = x /\ call[x].timer = slot /\ due = slot
      BY <3>1, <3>2 DEF Sound, Naps
    <3>4. call[x].timer # 0
      BY <3>1 DEF Tick, Waits, Queued
    <3>5. slot > 0 /\ slot \in Nat /\ Grace \in Nat /\ sleeper # NoCall
      BY <3>3, <3>4, Numbers
    <3>6. slot' = slot - 1 /\ due' = slot - 1
      BY <1>1, <3>3, <3>5 DEF Less, AtLeast0
    <3>7. call'[x].timer = slot - 1 /\ call'[x].woken = FALSE
      BY <1>2, <3>1, <3>2, <3>3, <3>5 DEF At
    <3>8. QED
      BY <1>1, <3>3, <3>6, <3>7
  <2>3. ASSUME NEW x \in Calls, At(x, "turn")' PROVE call'[x].woken = FALSE
    BY <1>2, <1>5, <2>3 DEF Sound, Naps
  <2>4. QED
    BY <2>1, <2>2, <2>3 DEF Naps
<1>7. Charges'
  <2>1. slot' > 0 => slot' + stood' <= Spacing
    <3>1. ASSUME slot' > 0 PROVE slot > 0 /\ slot' = slot - 1
      BY <1>1, <3>1, Numbers DEF Less, AtLeast0
    <3>2. ASSUME slot > 0 PROVE slot + stood <= Spacing
      BY <3>2 DEF Sound, Charges
    <3>3. QED
      BY <1>1, <3>1, <3>2, Numbers
  <2>2. since' + slot' >= Spacing
    <3>1. slot' >= slot - 1 /\ slot' \in Nat
      BY <1>1, Numbers DEF Less, AtLeast0
    <3>2. since + slot >= Spacing
      BY DEF Sound, Charges
    <3>3. QED
      BY <1>1, <3>1, <3>2, Numbers
  <2>3. ASSUME NEW x \in Calls, Charged(x)'
        PROVE  Charged(x) /\ call'[x].charged = slot' /\ (call'[x].hit => since' = Spacing)
    <3>1. call[x].charged \in Nat /\ call[x].pc = "flight" /\ call'[x].charged = Less(call[x].charged)
      BY <1>2, <2>3 DEF Charged, At, CallStates
    <3>2. call[x].charged > 0
      BY <2>3, <3>1 DEF Charged, Less, AtLeast0
    <3>3. Charged(x)
      BY <3>1, <3>2 DEF Charged, At
    <3>4. call[x].charged = slot /\ (call[x].hit => since = Spacing)
      BY <3>3 DEF Sound, Charges
    <3>5. QED
      BY <1>1, <1>2, <3>1, <3>3, <3>4
  <2>4. (\A c \in Calls : Charged(c) => /\ call[c].charged = slot
                                        /\ call[c].hit => since = Spacing)'
    BY <2>3
  <2>5. (\A c, d \in Calls : Charged(c) /\ Charged(d) => c = d)'
    BY <2>3 DEF Sound, Charges
  <2>6. QED
    BY <2>1, <2>2, <2>4, <2>5 DEF Charges
<1>8. QED
  BY <1>4, <1>6, <1>7 DEF Sound

-----------------------------------------------------------------------------
(* Asking.                                                                   *)

(* Who abandons a chain with a live head does so beside it: they are alone,  *)
(* and the slot is free.                                                     *)
LEMMA AbandonsBeside ==
  ASSUME TypeInv, CorpsesRest, Sound, NEW c \in Calls, Ask(c), Turn = NoCall,
         NEW h \in Calls, Head(h)
  PROVE  /\ Abandoned /\ TurnCame(h) /\ Queued = {h} /\ slot = 0 /\ sleeper = NoCall
         /\ RequestOf[h] = RequestOf[c] /\ h < c
<1>1. tail # NoCall
  BY DEF Sound, Chain
<1>2. Abandoned
  BY <1>1 DEF Turn
<1>3. StillAsleep = NoCall /\ stood >= Standing /\ stood = Standing
  BY <1>2, Numbers DEF Abandoned
<1>4. ~ Dead(h) /\ ~ Inert(h)
  BY DEF Head, CorpsesRest, Dead, Inert
<1>5. \A x \in Calls : Pending(x) => TurnCame(x) /\ Beside(c, x)
  BY DEF Ask
<1>6. TurnCame(h)
  <2>1. CASE At(h, "nap")
    <3>1. ~ Stalled
      BY <1>4, <2>1, LiveNapsRun
    <3>2. sleeper = NoCall
      BY <1>3, <3>1 DEF StillAsleep
    <3>3. call[h].woken = TRUE
      BY <1>4, <2>1, <3>2, CallsAssumption DEF Sound, Naps
    <3>4. Pending(h)
      BY <1>4, <2>1, <3>3 DEF Pending
    <3>5. QED
      BY <1>5, <3>4
  <2>2. QED
    BY <2>1 DEF Head
<1>7. Queued = {h}
  BY <1>3, <1>6 DEF Sound, Heads
<1>8. slot = 0
  BY <1>3, Numbers DEF Sound, Charges
<1>9. sleeper = NoCall
  <2>1. ASSUME sleeper # NoCall PROVE FALSE
    <3>1. h = sleeper /\ At(sleeper, "nap")
      BY <2>1 DEF Sound, Naps
    <3>2. QED
      BY <1>6, <3>1 DEF TurnCame, At
  <2>2. QED
    BY <2>1
<1>10. Beside(c, h)
  BY <1>4, <1>5, <1>6 DEF Pending
<1>11. QED
  BY <1>2, <1>6, <1>7, <1>8, <1>9, <1>10 DEF Beside

LEMMA AskSound ==
  ASSUME TypeInv, CorpsesRest, Sound, NEW c \in Calls, Ask(c)
  PROVE  Sound'
<1>1. /\ ~ At(c, "turn") /\ ~ At(c, "nap") /\ c \notin Queued
      /\ sleeper' = StillAsleep /\ due' = StillDue /\ tail' = c /\ dead' = dead
      /\ slot' = slot /\ since' = since /\ stood' = (IF Abandoned THEN 0 ELSE stood)
  BY DEF Ask, At, Queued
<1>2. /\ call'[c].pc = "turn" /\ call'[c].ahead = Turn /\ call'[c].woken = FALSE
      /\ \A x \in Calls \ {c} : SamePlace(x)
  BY AskDoes
<1>3. c # NoCall /\ c \in Nat /\ Turn \in {tail, NoCall}
  BY Numbers DEF Turn
<1>4. ASSUME NEW x \in Calls, x # c
      PROVE  /\ call'[x].ahead = call[x].ahead
             /\ At(x, "turn")' = At(x, "turn") /\ At(x, "nap")' = At(x, "nap")
             /\ TurnCame(x)' = TurnCame(x) /\ Head(x)' = Head(x)
             /\ (x \in Queued') = (x \in Queued)
  <2>1. call'[x].pc = call[x].pc /\ call'[x].ahead = call[x].ahead
    BY <1>2, <1>4 DEF SamePlace
  <2>2. At(x, "turn")' = At(x, "turn") /\ At(x, "nap")' = At(x, "nap") /\ TurnCame(x)' = TurnCame(x)
    BY <2>1 DEF At, TurnCame
  <2>3. QED
    BY <1>1, <2>1, <2>2 DEF Head, Dead, Queued
<1>5. Queued' = Queued \cup {c}
  <2>1. c \in Queued'
    BY <1>2 DEF Queued, At
  <2>2. Queued \subseteq Calls /\ Queued' \subseteq Calls
    BY DEF Queued
  <2>3. QED
    BY <1>4, <2>1, <2>2
<1>6. Head(c)' => Turn = NoCall
  BY <1>2 DEF Head, TurnCame, At
<1>7. Chain'
  <2>1. ASSUME NEW x \in Calls, Waiting(x)'
        PROVE  At(x, "turn")' /\ call'[x].ahead \in Queued' /\ call'[x].ahead # x
    <3>1. CASE x = c
      <4>1. call'[c].ahead = tail /\ tail # NoCall
        BY <1>2, <1>3, <2>1, <3>1 DEF Waiting
      <4>2. QED
        BY <1>1, <1>2, <1>5, <3>1, <4>1 DEF Sound, Chain, At
    <3>2. CASE x # c
      BY <1>4, <1>5, <2>1, <3>2 DEF Sound, Chain, Waiting
    <3>3. QED
      BY <3>1, <3>2
  <2>2. ASSUME NEW x \in Calls, NEW y \in Calls, Waiting(x)', call'[x].ahead = call'[y].ahead
        PROVE  x = y
    <3>1. ASSUME NEW z \in Calls, z # c, call'[c].ahead # NoCall PROVE call'[z].ahead # call'[c].ahead
      <4>1. call'[c].ahead = tail /\ tail # NoCall
        BY <1>2, <1>3, <3>1
      <4>2. QED
        BY <1>4, <3>1, <4>1 DEF Sound, Chain
    <3>2. CASE x = c \/ y = c
      BY <2>2, <3>1, <3>2 DEF Waiting
    <3>3. CASE x # c /\ y # c
      BY <1>4, <2>2, <3>3 DEF Sound, Chain, Waiting
    <3>4. QED
      BY <3>2, <3>3
  <2>3. ASSUME NEW x \in Calls PROVE call'[x].ahead # c
    <3>1. CASE x = c
      <4>1. tail = NoCall \/ tail \in Queued
        BY DEF Sound, Chain
      <4>2. QED
        BY <1>1, <1>2, <1>3, <3>1, <4>1
    <3>2. CASE x # c
      <4>1. call'[x].ahead = call[x].ahead
        BY <1>4, <3>2
      <4>2. Waiting(x) => call[x].ahead \in Queued
        BY DEF Sound, Chain
      <4>3. QED
        BY <1>1, <1>3, <4>1, <4>2 DEF Waiting
    <3>3. QED
      BY <3>1, <3>2
  <2>4. QED
    BY <1>1, <1>3, <1>5, <2>1, <2>2, <2>3 DEF Chain
<1>8. ASSUME NEW x \in Calls, NEW y \in Calls, x < y, Head(x)', Head(y)' PROVE Pair(x, y)'
  <2>1. CASE x # c /\ y # c
    <3>1. Pair(x, y)
      BY <1>4, <1>8, <2>1 DEF Sound, Heads
    <3>2. stood < Standing /\ ~ Abandoned
      BY <3>1, Numbers DEF Pair, Abandoned
    <3>3. sleeper' = NoCall /\ stood' = stood
      BY <1>1, <3>1, <3>2 DEF Pair, StillAsleep
    <3>4. ~ Head(c)'
      BY <1>4, <1>6, <1>8, <2>1, <3>2, AbandonsBeside
    <3>5. \A z \in Calls : call'[z].ahead # x
      <4>1. x # NoCall /\ tail # x
        BY <3>1, CallsAssumption DEF Pair
      <4>2. QED
        BY <1>2, <1>3, <1>4, <3>1, <4>1 DEF Pair
    <3>6. \A z \in Calls : Head(z)' => z \in {x, y}
      BY <1>4, <3>1, <3>4 DEF Pair
    <3>7. QED
      BY <1>1, <1>4, <2>1, <3>1, <3>2, <3>3, <3>5, <3>6 DEF Pair
  <2>2. CASE y = c
    <3>1. x # c /\ Head(x) /\ Turn = NoCall
      <4>1. x # c
        BY <1>3, <1>8, <2>2
      <4>2. QED
        BY <1>4, <1>6, <1>8, <2>2, <4>1
    <3>2. /\ Abandoned /\ TurnCame(x) /\ Queued = {x} /\ slot = 0 /\ sleeper = NoCall
          /\ RequestOf[x] = RequestOf[c]
      BY <3>1, AbandonsBeside
    <3>3. TurnCame(x)' /\ TurnCame(c)'
      BY <1>2, <1>4, <3>1, <3>2 DEF TurnCame, At
    <3>4. slot' = 0 /\ stood' < Standing /\ sleeper' = NoCall /\ tail' # x
      BY <1>1, <3>1, <3>2, Numbers DEF StillAsleep
    <3>5. ASSUME NEW z \in Calls PROVE call'[z].ahead # x
      <4>1. CASE z = c
        BY <1>2, <3>1, <4>1, CallsAssumption
      <4>2. CASE z # c
        <5>1. call[z].ahead = x => z \in Queued /\ call[z].ahead # z
          BY CallsAssumption DEF Sound, Chain, Waiting, Queued
        <5>2. call[z].ahead # x
          BY <3>2, <5>1
        <5>3. QED
          BY <1>4, <4>2, <5>2
      <4>3. QED
        BY <4>1, <4>2
    <3>6. ASSUME NEW z \in Calls, Head(z)' PROVE z \in {x, c}
      <4>1. CASE z # c
        <5>1. z \in Queued
          BY <1>4, <3>6, <4>1 DEF Head, TurnCame, Queued
        <5>2. QED
          BY <3>2, <5>1
      <4>2. QED
        BY <4>1
    <3>7. QED
      BY <2>2, <3>2, <3>3, <3>4, <3>5, <3>6 DEF Pair
  <2>3. CASE x = c
    <3>1. y # c
      BY <1>3, <1>8, <2>3
    <3>2. Head(y) /\ Turn = NoCall
      BY <1>4, <1>6, <1>8, <2>3, <3>1
    <3>3. y < c
      BY <3>2, AbandonsBeside
    <3>4. QED
      BY <1>3, <1>8, <2>3, <3>3, Numbers
  <2>4. QED
    BY <2>1, <2>2, <2>3
<1>9. ASSUME NEW z \in Calls, Head(z)', TurnCame(z)', stood' = Standing PROVE Queued' = {z}
  <2>1. ~ Abandoned /\ stood = Standing /\ stood >= Standing
    BY <1>1, <1>9, Numbers
  <2>2. CASE z # c
    <3>1. Head(z) /\ TurnCame(z)
      BY <1>4, <1>9, <2>2
    <3>2. sleeper = NoCall
      BY <3>1 DEF Sound, Naps, TurnCame, At
    <3>3. Queued = {z}
      BY <2>1, <3>1 DEF Sound, Heads
    <3>4. QED
      BY <2>1, <3>2, <3>3 DEF Abandoned, StillAsleep
  <2>3. CASE z = c
    <3>1. tail = NoCall
      BY <1>6, <1>9, <2>1, <2>3 DEF Turn
    <3>2. sleeper = NoCall
      BY <3>1 DEF Sound, Naps
    <3>3. Queued = {}
      BY <2>1, <3>2 DEF Abandoned, StillAsleep
    <3>4. QED
      BY <1>5, <2>3, <3>3
  <2>4. QED
    BY <2>2, <2>3
<1>10. Heads'
  BY <1>8, <1>9 DEF Heads
<1>11. Naps'
  <2>1. ASSUME sleeper' # NoCall
        PROVE  At(sleeper, "nap")' /\ tail' # NoCall /\ \A x \in Calls : Head(x)' => x = sleeper'
    <3>1. sleeper' = sleeper /\ StillAsleep # NoCall /\ sleeper \in Calls
      BY <1>1, <2>1, Numbers DEF StillAsleep
    <3>2. At(sleeper, "nap") /\ tail # NoCall /\ sleeper # c
      BY <1>1, <2>1, <3>1 DEF Sound, Naps
    <3>3. ~ Abandoned /\ Turn # NoCall
      BY <3>1, <3>2 DEF Abandoned, Turn
    <3>4. ~ Head(c)'
      BY <1>6, <3>3
    <3>5. At(sleeper, "nap")'
      BY <1>2, <3>1, <3>2 DEF At, SamePlace
    <3>6. QED
      BY <1>1, <1>3, <1>4, <2>1, <3>1, <3>4, <3>5 DEF Sound, Naps
  <2>2. ASSUME NEW x \in Calls, At(x, "nap")', ~ Dead(x)'
        PROVE  \/ call'[x].woken = TRUE /\ slot' = 0 /\ sleeper' = NoCall
               \/ call'[x].woken = FALSE /\ sleeper' = x /\ call'[x].timer = slot' /\ due' = slot'
    <3>1. x # c
      BY <1>2, <2>2 DEF At
    <3>2. At(x, "nap") /\ ~ Dead(x)
      BY <1>1, <1>4, <2>2, <3>1 DEF Dead
    <3>3. ~ Stalled
      BY <3>2, LiveNapsRun
    <3>4. SameNap(x) /\ sleeper' = sleeper /\ due' = due
      BY <1>1, <3>1, <3>3, AskDoes DEF StillAsleep, StillDue
    <3>5. QED
      BY <1>1, <3>2, <3>4 DEF Sound, Naps, SameNap
  <2>3. ASSUME NEW x \in Calls, At(x, "turn")' PROVE call'[x].woken = FALSE
    <3>1. CASE x # c
      <4>1. At(x, "turn") /\ x # sleeper
        BY <1>4, <2>3, <3>1, SleeperNaps
      <4>2. call'[x].woken = call[x].woken
        BY <3>1, <4>1, AskDoes DEF SameNap
      <4>3. QED
        BY <4>1, <4>2 DEF Sound, Naps
    <3>2. QED
      BY <1>2, <3>1
  <2>4. QED
    BY <2>1, <2>2, <2>3 DEF Naps
<1>12. Charges'
  <2>1. \A x \in Calls : Charged(x)' =>
          Charged(x) /\ call'[x].charged = call[x].charged /\ call'[x].hit = call[x].hit
    BY <1>2 DEF SamePlace, Charged, At
  <2>2. QED
    BY <1>1, <2>1, ChargesKept DEF Sound
<1>13. QED
  BY <1>7, <1>10, <1>11, <1>12 DEF Sound

-----------------------------------------------------------------------------
(* Deciding.                                                                 *)

(* A live head decides when the slot is free, the first of two before the    *)
(* other: one head is left at most, and it is not asleep.                    *)
LEMMA DecideSound ==
  ASSUME TypeInv, CorpsesRest, Sound, NEW c \in Calls, Head(c), slot = 0, Decide(c),
         \A d \in Calls \ {c} : Head(d) => c < d,
         dead' = dead, sleeper' = NoCall
  PROVE  Sound'
<1>1. /\ ~ Dead(c) /\ call[c].ahead = NoCall /\ tail # NoCall /\ c # NoCall /\ c \in Queued
  <2>1. call[c].ahead = NoCall
    BY FlightsDoNotWait DEF Head, TurnCame, At, Sound
  <2>2. QED
    BY <2>1, CallsAssumption DEF Head, Sound, Chain, Queued, TurnCame
<1>2. /\ call'[c].pc = "flight" /\ call'[c].ahead = NoCall /\ call'[c].charged = Spacing
      /\ since' = (IF call'[c].hit THEN since ELSE 0)
      /\ \A x \in Calls \ {c} : Follows(x, c)
      /\ slot' = Spacing /\ stood' = 0
      /\ tail' = (IF tail = c THEN NoCall ELSE tail)
  <2>1. slot + Spacing = Spacing
    BY Numbers
  <2>2. QED
    BY <1>1, <2>1, DecideDoes
<1>3. ASSUME NEW x \in Calls, x # c
      PROVE  /\ call'[x].ahead \in {call[x].ahead, NoCall} /\ call'[x].ahead # c
             /\ call[x].ahead # c => call'[x].ahead = call[x].ahead
             /\ At(x, "turn")' = At(x, "turn") /\ At(x, "nap")' = At(x, "nap")
             /\ (x \in Queued') = (x \in Queued)
             /\ Head(x)' => Head(x) \/ call[x].ahead = c
  <2>1. /\ call'[x].pc = call[x].pc
        /\ call'[x].ahead = (IF call[x].ahead = c THEN NoCall ELSE call[x].ahead)
    BY <1>2, <1>3 DEF Follows
  <2>2. At(x, "turn")' = At(x, "turn") /\ At(x, "nap")' = At(x, "nap")
    BY <2>1 DEF At
  <2>3. (x \in Queued') = (x \in Queued)
    BY <2>2 DEF Queued
  <2>4. Dead(x)' = Dead(x)
    BY DEF Dead
  <2>5. Head(x)' => Head(x) \/ call[x].ahead = c
    BY <2>1, <2>2, <2>4 DEF Head, TurnCame
  <2>6. QED
    BY <1>1, <2>1, <2>2, <2>3, <2>5
<1>4. ~ Head(c)' /\ c \notin Queued' /\ ~ At(c, "turn")' /\ ~ At(c, "nap")'
  BY <1>2 DEF Head, TurnCame, At, Queued
<1>5. Queued' = Queued \ {c}
  <2>1. Queued \subseteq Calls /\ Queued' \subseteq Calls
    BY DEF Queued
  <2>2. QED
    BY <1>3, <1>4, <2>1
\* Another head comes after c, and then nobody waits for c, which is not the tail.
<1>6. ASSUME NEW d \in Calls, d # c, Head(d) PROVE Pair(c, d) /\ TurnCame(d)
  BY <1>6 DEF Sound, Heads, Pair
<1>7. ASSUME NEW x \in Calls, NEW y \in Calls, Head(x)', Head(y)' PROVE x = y
  <2>1. x # c /\ y # c
    BY <1>4, <1>7
  <2>2. Head(x) \/ call[x].ahead = c
    BY <1>3, <1>7, <2>1
  <2>3. Head(y) \/ call[y].ahead = c
    BY <1>3, <1>7, <2>1
  <2>4. CASE Head(x)
    <3>1. Pair(c, x)
      BY <1>6, <2>1, <2>4
    <3>2. Head(y)
      BY <2>3, <3>1 DEF Pair
    <3>3. QED
      BY <2>1, <3>1, <3>2 DEF Pair
  <2>5. CASE Head(y)
    <3>1. Pair(c, y)
      BY <1>6, <2>1, <2>5
    <3>2. Head(x)
      BY <2>2, <3>1 DEF Pair
    <3>3. QED
      BY <2>1, <3>1, <3>2 DEF Pair
  <2>6. CASE call[x].ahead = c /\ call[y].ahead = c
    BY <1>1, <2>6 DEF Sound, Chain, Waiting
  <2>7. QED
    BY <2>2, <2>3, <2>4, <2>5, <2>6
<1>8. Chain'
  <2>1. ASSUME NEW x \in Calls, Waiting(x)'
        PROVE  At(x, "turn")' /\ call'[x].ahead \in Queued' /\ call'[x].ahead # x
    <3>1. x # c /\ call'[x].ahead # NoCall
      BY <1>2, <2>1 DEF Waiting
    <3>2. call'[x].ahead = call[x].ahead /\ call'[x].ahead # c
      BY <1>3, <3>1
    <3>3. QED
      BY <1>3, <1>5, <3>1, <3>2 DEF Sound, Chain, Waiting
  <2>2. ASSUME NEW x \in Calls, NEW y \in Calls, Waiting(x)', call'[x].ahead = call'[y].ahead
        PROVE  x = y
    <3>1. x # c /\ y # c /\ call'[x].ahead # NoCall /\ call'[y].ahead # NoCall
      BY <1>2, <2>2 DEF Waiting
    <3>2. call'[x].ahead = call[x].ahead /\ call'[y].ahead = call[y].ahead
      BY <1>3, <3>1
    <3>3. QED
      BY <2>2, <3>1, <3>2 DEF Sound, Chain, Waiting
  <2>3. ASSUME tail' # NoCall PROVE tail' \in Queued' /\ \A x \in Calls : call'[x].ahead # tail'
    <3>1. tail' = tail /\ tail # c
      BY <1>2, <2>3
    <3>2. QED
      BY <1>2, <1>3, <1>5, <2>3, <3>1 DEF Sound, Chain
  <2>4. ASSUME NEW x \in Calls, Head(x)' PROVE tail' # NoCall
    <3>1. x # c
      BY <1>4, <2>4
    <3>2. tail # c
      <4>1. CASE Head(x)
        BY <1>6, <3>1, <4>1 DEF Pair
      <4>2. CASE call[x].ahead = c
        BY <1>1, <4>2 DEF Sound, Chain
      <4>3. QED
        BY <1>3, <2>4, <3>1, <4>1, <4>2
    <3>3. QED
      BY <1>1, <1>2, <3>2
  <2>5. QED
    BY <2>1, <2>2, <2>3, <2>4 DEF Chain
<1>9. Heads'
  <2>1. ASSUME NEW x \in Calls, NEW y \in Calls, x < y, Head(x)', Head(y)' PROVE FALSE
    <3>1. x = y /\ x \in Nat
      BY <1>7, <2>1, Numbers
    <3>2. QED
      BY <2>1, <3>1
  <2>2. stood' # Standing
    BY <1>2, Numbers
  <2>3. QED
    BY <2>1, <2>2 DEF Heads
<1>10. Naps'
  <2>1. ASSUME NEW x \in Calls, At(x, "nap")', ~ Dead(x)' PROVE FALSE
    <3>1. x # c
      BY <1>4, <2>1
    <3>2. At(x, "nap") /\ ~ Dead(x)
      BY <1>3, <2>1, <3>1 DEF Dead
    <3>3. TurnCame(x)
      BY <1>6, <3>1, <3>2 DEF Head
    <3>4. QED
      BY <3>2, <3>3 DEF TurnCame, At
  <2>2. ASSUME NEW x \in Calls, At(x, "turn")' PROVE call'[x].woken = FALSE
    <3>1. x # c
      BY <1>4, <2>2
    <3>2. At(x, "turn") /\ call'[x].woken = call[x].woken
      BY <1>2, <1>3, <2>2, <3>1 DEF Follows, SameNap
    <3>3. QED
      BY <3>2 DEF Sound, Naps
  <2>3. QED
    BY <2>1, <2>2 DEF Naps
<1>11. Charges'
  <2>1. since = Spacing
    <3>1. since + slot >= Spacing
      BY DEF Sound, Charges
    <3>2. QED
      BY <3>1, Numbers
  <2>2. ASSUME NEW x \in Calls, Charged(x)' PROVE x = c
    <3>1. CASE x # c
      <4>1. Charged(x)
        BY <1>2, <2>2, <3>1 DEF Charged, At, Follows
      <4>2. call[x].charged = slot
        BY <4>1 DEF Sound, Charges
      <4>3. QED
        BY <4>1, <4>2 DEF Charged
    <3>2. QED
      BY <3>1
  <2>3. call'[c].charged = slot' /\ (call'[c].hit => since' = Spacing)
    BY <1>2, <2>1
  <2>4. slot' + stood' <= Spacing /\ since' + slot' >= Spacing
    <3>1. since' \in {Spacing, 0}
      BY <1>2, <2>1
    <3>2. QED
      BY <1>2, <3>1, Numbers
  <2>5. QED
    BY <2>2, <2>3, <2>4 DEF Charges
<1>12. QED
  BY <1>8, <1>9, <1>10, <1>11 DEF Sound

(* A call whose turn came finds nobody asleep, but it can find the other of  *)
(* a pair.                                                                   *)
LEMMA GoDecides ==
  ASSUME TypeInv, CorpsesRest, Sound, NEW c \in Calls, Go(c)
  PROVE  /\ Head(c) /\ slot = 0 /\ Decide(c) /\ dead' = dead /\ sleeper' = NoCall
         /\ \A d \in Calls \ {c} : Head(d) => c < d
<1>1. TurnCame(c) /\ ~ Inert(c) /\ InOrder(c) /\ slot = 0 /\ Decide(c)
      /\ dead' = dead /\ sleeper' = sleeper
  BY DEF Go
<1>2. Head(c)
  BY <1>1 DEF Head, CorpsesRest, Inert, Dead
<1>3. sleeper = NoCall
  BY <1>1, <1>2 DEF Sound, Naps, TurnCame, At
<1>4. ASSUME NEW d \in Calls, d # c, Head(d) PROVE c < d
  <2>1. c \in Nat /\ d \in Nat
    BY Numbers
  <2>2. CASE d < c
    <3>1. Pair(d, c)
      BY <1>2, <1>4, <2>2 DEF Sound, Heads
    <3>2. c <= d
      BY <1>1, <3>1 DEF Pair, InOrder
    <3>3. QED
      BY <2>1, <2>2, <3>2
  <2>3. QED
    BY <1>4, <2>1, <2>2
<1>5. QED
  BY <1>1, <1>2, <1>3, <1>4

(* A nap that ends, of itself or by a refund, ends in a free slot.           *)
LEMMA NapDecides ==
  ASSUME TypeInv, CorpsesRest, Sound, NEW c \in Calls, NapEnds(c)
  PROVE  /\ Head(c) /\ slot = 0 /\ Decide(c) /\ dead' = dead /\ sleeper' = NoCall
         /\ \A d \in Calls \ {c} : Head(d) => c < d
<1>1. /\ At(c, "nap") /\ ~ Inert(c) /\ Decide(c) /\ dead' = dead /\ sleeper' = NoCall
      /\ call[c].woken \/ call[c].timer = 0
  BY DEF NapEnds
<1>2. ~ Dead(c) /\ Head(c)
  BY <1>1 DEF Head, CorpsesRest, Inert, Dead
<1>3. slot = 0
  BY <1>1, <1>2 DEF Sound, Naps
<1>4. ASSUME NEW d \in Calls, d # c, Head(d) PROVE FALSE
  <2>1. c < d \/ d < c
    BY <1>4, Numbers
  <2>2. TurnCame(c)
    BY <1>2, <1>4, <2>1 DEF Sound, Heads, Pair
  <2>3. QED
    BY <1>1, <2>2 DEF TurnCame, At
<1>5. QED
  BY <1>1, <1>2, <1>3, <1>4

LEMMA SleepSound ==
  ASSUME TypeInv, CorpsesRest, Sound, NEW c \in Calls, Sleep(c)
  PROVE  Sound'
<1>1. /\ TurnCame(c) /\ ~ Inert(c) /\ slot > 0
      /\ slot' = slot /\ dead' = dead /\ since' = since
  BY DEF Sleep
<1>2. ~ Dead(c) /\ Head(c)
  BY <1>1 DEF Head, CorpsesRest, Inert, Dead
<1>3. /\ \A x \in Calls \ {c} : Same(x)
      /\ call'[c].pc = "nap" /\ call'[c].ahead = NoCall /\ call'[c].woken = FALSE
      /\ call'[c].timer = slot
      /\ sleeper' = c /\ due' = slot /\ tail' = tail /\ stood' = stood
  <2>1. call[c].ahead = NoCall /\ call[c].woken = FALSE
    BY <1>1 DEF TurnCame, Sound, Naps
  <2>2. QED
    BY <1>2, <2>1, SleepDoes
<1>4. \A d \in Calls : Head(d) => d = c
  <2>1. ASSUME NEW d \in Calls, d # c, Head(d) PROVE FALSE
    <3>1. c < d \/ d < c
      BY <2>1, Numbers
    <3>2. slot = 0
      BY <1>2, <2>1, <3>1 DEF Sound, Heads, Pair
    <3>3. QED
      BY <1>1, <3>2
  <2>2. QED
    BY <2>1
<1>5. ASSUME NEW x \in Calls, x # c
      PROVE  /\ call'[x].ahead = call[x].ahead
             /\ At(x, "turn")' = At(x, "turn") /\ At(x, "nap")' = At(x, "nap")
             /\ ~ Head(x)' /\ (x \in Queued') = (x \in Queued)
  <2>1. call'[x].pc = call[x].pc /\ call'[x].ahead = call[x].ahead
    BY <1>3, <1>5 DEF Same, SamePlace
  <2>2. At(x, "turn")' = At(x, "turn") /\ At(x, "nap")' = At(x, "nap") /\ TurnCame(x)' = TurnCame(x)
    BY <2>1 DEF At, TurnCame
  <2>3. Head(x)' = Head(x)
    BY <1>1, <2>2 DEF Head, Dead
  <2>4. QED
    BY <1>4, <1>5, <2>1, <2>2, <2>3 DEF Queued
<1>6. Queued' = Queued /\ call'[c].ahead = call[c].ahead
  <2>1. c \in Queued /\ c \in Queued' /\ call[c].ahead = NoCall
    BY <1>1, <1>3 DEF Queued, TurnCame, At
  <2>2. \A x \in Calls : (x \in Queued') = (x \in Queued)
    BY <1>5, <2>1
  <2>3. Queued \subseteq Calls /\ Queued' \subseteq Calls
    BY DEF Queued
  <2>4. Queued' = Queued
    BY <2>2, <2>3
  <2>5. QED
    BY <1>3, <2>1, <2>4
<1>7. tail # NoCall /\ c # NoCall
  BY <1>2, CallsAssumption DEF Sound, Chain
<1>8. Chain'
  <2>1. \A x \in Calls : call'[x].ahead = call[x].ahead
    BY <1>5, <1>6
  <2>2. ASSUME NEW x \in Calls, Waiting(x)'
        PROVE  At(x, "turn")' /\ call'[x].ahead \in Queued' /\ call'[x].ahead # x
    <3>1. x # c /\ Waiting(x)
      BY <1>3, <2>1, <2>2 DEF Waiting
    <3>2. QED
      BY <1>5, <1>6, <3>1 DEF Sound, Chain
  <2>3. (\A x, y \in Calls : Waiting(x) /\ call[x].ahead = call[y].ahead => x = y)'
    BY <2>1 DEF Sound, Chain, Waiting
  <2>4. (tail # NoCall => tail \in Queued /\ \A x \in Calls : call[x].ahead # tail)'
    BY <1>3, <1>6, <2>1 DEF Sound, Chain
  <2>5. QED
    BY <1>3, <1>7, <2>2, <2>3, <2>4 DEF Chain
<1>9. Heads'
  <2>1. \A x \in Calls : Head(x)' => x = c
    BY <1>5
  <2>2. ~ TurnCame(c)'
    BY <1>3 DEF TurnCame, At
  <2>3. \A x, y \in Calls : Head(x)' /\ Head(y)' => ~ (x < y)
    <3>1. c \in Nat
      BY Numbers
    <3>2. ~ (c < c)
      BY <3>1
    <3>3. QED
      BY <2>1, <3>2
  <2>4. QED
    BY <2>1, <2>2, <2>3 DEF Heads
<1>10. Naps'
  <2>1. At(c, "nap")' /\ ~ At(c, "turn")'
    BY <1>3 DEF At
  <2>2. ASSUME sleeper' # NoCall
        PROVE  At(sleeper, "nap")' /\ tail' # NoCall /\ \A x \in Calls : Head(x)' => x = sleeper'
    <3>1. At(sleeper, "nap")'
      BY <1>3 DEF At
    <3>2. QED
      BY <1>3, <1>5, <1>7, <3>1
  <2>3. ASSUME NEW x \in Calls, At(x, "nap")', ~ Dead(x)' PROVE x = c
    BY <1>5, <2>3 DEF Head
  <2>4. ASSUME NEW x \in Calls, At(x, "turn")' PROVE call'[x].woken = FALSE
    <3>1. x # c
      BY <2>1, <2>4
    <3>2. At(x, "turn") /\ call'[x].woken = call[x].woken
      BY <1>3, <1>5, <2>4, <3>1 DEF Same, SameNap
    <3>3. QED
      BY <3>2 DEF Sound, Naps
  <2>5. QED
    BY <1>1, <1>3, <2>2, <2>3, <2>4 DEF Naps
<1>11. Charges'
  <2>1. \A x \in Calls : Charged(x)' =>
          Charged(x) /\ call'[x].charged = call[x].charged /\ call'[x].hit = call[x].hit
    BY <1>3 DEF Same, SamePlace, Charged, At
  <2>2. QED
    BY <1>1, <1>3, <2>1, ChargesKept DEF Sound
<1>12. QED
  BY <1>8, <1>9, <1>10, <1>11 DEF Sound

-----------------------------------------------------------------------------
(* The theorems.                                                             *)

LEMMA SoundStep ==
  ASSUME TypeInv, WindowInv, [Next]_vars
  PROVE  WindowInv'
<1>1. SUFFICES ASSUME CorpsesRest' PROVE Sound'
  BY DEF WindowInv
<1>2. CorpsesRest /\ Sound
  BY <1>1, AlwaysRested DEF WindowInv
<1>3. ASSUME NEW c \in Calls, Go(c) PROVE Sound'
  BY <1>2, <1>3, GoDecides, DecideSound
<1>4. ASSUME NEW c \in Calls, NapEnds(c) PROVE Sound'
  BY <1>2, <1>4, NapDecides, DecideSound
<1>5. CASE UNCHANGED vars
  BY <1>2, <1>5 DEF vars, Sound, Chain, Heads, Naps, Charges, Pair, Head, Waiting, Charged,
                    TurnCame, Queued, At, Dead
<1>6. QED
  BY <1>2, <1>3, <1>4, <1>5, AskSound, WatchSound, SleepSound, CachedSound, AnsweredSound,
     DieSound, TickSound DEF Next

LEMMA SoundStays == Spec => []WindowInv
<1>1. Init => WindowInv
  BY SoundAtFirst DEF WindowInv
<1>2. QED
  BY <1>1, TypesStay, SoundStep, PTL DEF Spec

(* While corpses stay dead, a live call that sleeps is the registered        *)
(* sleeper and sleeps for exactly the next slot, so a refund finds it,       *)
(* whatever requests die in the queue and whoever abandons its chain.        *)
THEOREM SleepersAreFound == Spec => []SleepsForTheSlot
<1>1. WindowInv => SleepsForTheSlot
  BY DEF WindowInv, Sound, Naps, SleepsForTheSlot
<1>2. QED
  BY <1>1, SoundStays, PTL

(* Who leaves decides, and a live call decides when the slot is free.        *)
LEMMA LeavesSpaced ==
  ASSUME TypeInv, WindowInv, [Next]_vars, NEW c \in Calls, CorpsesRest, Leaves(c)
  PROVE  since = Spacing
<1>1. Sound /\ ~ At(c, "flight") /\ call'[c].pc = "flight"
  BY DEF WindowInv, Leaves
<1>2. call[c].pc # "flight"
  BY <1>1 DEF At
<1>3. ASSUME slot = 0 PROVE since = Spacing
  BY <1>1, <1>3, Numbers DEF Sound, Charges
<1>4. ASSUME NEW d \in Calls, Go(d) \/ NapEnds(d) PROVE since = Spacing
  BY <1>1, <1>3, <1>4, GoDecides, NapDecides
<1>5. ASSUME NEW d \in Calls, Ask(d) PROVE FALSE
  BY <1>1, <1>2, <1>5, AskDoes DEF SamePlace
<1>6. ASSUME NEW d \in Calls, Watch(d) PROVE FALSE
  BY <1>1, <1>2, <1>6, WatchDoes DEF SamePlace
<1>7. ASSUME NEW d \in Calls, Sleep(d) PROVE FALSE
  <2>1. ~ Dead(d)
    BY <1>7 DEF Sleep, CorpsesRest, Inert, Dead
  <2>2. call'[c].pc = call[c].pc \/ call'[c].pc = "nap"
    BY <1>7, <2>1, SleepDoes DEF Same, SamePlace
  <2>3. QED
    BY <1>1, <1>2, <2>2
<1>8. ASSUME NEW d \in Calls, Cached(d) PROVE FALSE
  BY <1>1, <1>2, <1>8, CachedDoes, RestingType DEF SamePlace
<1>9. ASSUME NEW d \in Calls, Answered(d) \/ Refused(d) PROVE FALSE
  BY <1>1, <1>2, <1>9, AnsweredDoes DEF Same, SamePlace
<1>10. ASSUME NEW r \in Requests, Die(r) PROVE FALSE
  BY <1>1, <1>2, <1>10, DieDoes, RestingType DEF Same, SamePlace
<1>11. ASSUME Tick PROVE FALSE
  BY <1>1, <1>2, <1>11, TickDoes, Numbers, AgedDoes
<1>12. ASSUME UNCHANGED vars PROVE FALSE
  BY <1>1, <1>2, <1>12 DEF vars
<1>13. QED
  BY <1>4, <1>5, <1>6, <1>7, <1>8, <1>9, <1>10, <1>11, <1>12 DEF Next

(* Two calls that reach the network leave a slot apart, for any calls,       *)
(* requests, spacing and grace, whatever the cache answers in between and    *)
(* whoever dies, while corpses stay dead.                                    *)
THEOREM CallsAreSpaced == Spec => SpacingKept
<1>1. TypeInv /\ WindowInv /\ [Next]_vars =>
        [\A c \in Calls : CorpsesRest /\ Leaves(c) /\ ~ call'[c].hit => since = Spacing]_vars
  BY LeavesSpaced
<1>2. QED
  BY <1>1, TypesStay, SoundStays, PTL DEF Spec, SpacingKept
=============================================================================
