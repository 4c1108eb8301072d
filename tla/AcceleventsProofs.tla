------------------------- MODULE AcceleventsProofs -------------------------
(***************************************************************************)
(* What the Accelevents sync guarantees for any entities, walks, sweeps,   *)
(* edits and faults, proved by TLAPS.                                      *)
(*                                                                         *)
(* The argument has layers.  Each is an invariant of its own, carried      *)
(* through a step with the help of those before it:                        *)
(*   TypeInv     the variables' types;                                     *)
(*   RefsInv     every remote id anybody remembers names an object, and    *)
(*               every payload that may be sent names a whole cast;        *)
(*   ObjectsInv  a row of the log that names an object of a taxonomy tells *)
(*               what is in it, until there is a mapping to go by;         *)
(*   LeaseInv    who works on an entity holds it, and has seen the mapping *)
(*               there is: who has not, finds the entity leased until half *)
(*               a lease of its own life is over;                          *)
(*   SentInv     who is about to save a mapping landed at an object that   *)
(*               holds what it sent.                                       *)
(* The last two are about the entities that are not loose: nobody was at   *)
(* them late, and no mapping of theirs was created again.                  *)
(***************************************************************************)
EXTENDS AcceleventsSync, TLAPS, WellFoundedInduction, SequenceTheorems

-----------------------------------------------------------------------------
(* Least elements, and the guard's verdicts.                                 *)

LessThan == {p \in Nat \X Nat : p[1] < p[2]}

(* Every non-empty set of natural numbers has a least element.               *)
LEMMA LeastNatural ==
  ASSUME NEW S, S \subseteq Nat, S # {}
  PROVE  \E k \in S : \A j \in S : k <= j
<1>1. IsWellFoundedOn(LessThan, Nat)
  BY NatLessThanWellFounded, Zenon DEF OpToRel, LessThan
<1>2. \E k \in S : \A j \in S : ~ (<<j, k>> \in LessThan)
  BY <1>1, WFMin, Zenon
<1>3. \A j, k \in Nat : <<j, k>> \in LessThan <=> j < k
  BY DEF LessThan
<1>4. \A j, k \in Nat : ~ (j < k) => k <= j
  OBVIOUS
<1>5. QED
  BY <1>2, <1>3, <1>4

\* Inside a lease.
HeldBy(c, h) == Live(c) /\ c.holder = h

(* What the guard stores stays a claim.                                      *)
LEMMA ClaimTypes ==
  ASSUME NEW c \in Claims, NEW h \in Holders, NEW ttl \in Nat
  PROVE  AfterClaim(c, h, ttl) \in Claims /\ AfterRelease(c, h) \in Claims /\ Aged(c) \in Claims
  BY DEF AfterClaim, AfterRelease, Releases, Aged, Less, Claims, NoClaim, Live

-----------------------------------------------------------------------------
(* Types.                                                                    *)

Working == {"send", "map", "ok", "fail"}

Sightings == [row : Nat, id : Nat, hash : Payloads]

CallerStates ==
    [task : {"none", "walk", "sweep"}, pc : Stages, unread : SUBSET {"mappings", "records", "log"},
     todo : SUBSET Entities, data : [Entities -> 0 .. MaxVersion], rows : [Entities -> LogRows],
     seen : [Entities -> Sightings], resolved : [Entities -> Nat], landed : Nat,
     late : BOOLEAN, age : 0 .. Span]

CallerType(r) ==
    /\ r \in CallerStates
    /\ r.pc \in {"next"} \cup Working => r.todo # {} /\ r.unread = {}
    /\ r.pc \in {"map", "ok"} => r.landed # 0
    /\ r.landed # 0 => r.pc \in {"map", "ok", "fail"}
    /\ "log" \in r.unread => r.task = "sweep"

TypeInv ==
    /\ local \in [Entities -> 1 .. MaxVersion]
    /\ remote \in [Entities -> Seq(Payloads)]
    /\ mapping \in [Entities -> Seq(Mappings)]
    /\ log \in [Entities -> LogRows]
    /\ claim \in [Entities -> Claims]
    /\ caller \in [Holders -> CallerStates] /\ \A h \in Holders : CallerType(caller[h])
    /\ faults \in 0 .. MaxFaults

(* The entity a caller in state r is at, and what it would send.             *)
CurrentOf(r) == CHOOSE e \in r.todo : \A d \in r.todo : e <= d

OutgoingOf(r) ==
    IF r.task = "sweep" THEN r.rows[CurrentOf(r)].payload
    ELSE [ver |-> r.data[CurrentOf(r)],
          refs |-> {<<d, r.resolved[d]>> : d \in Needs[CurrentOf(r)]}]

(* A caller that has entities left is at one of them.                        *)
LEMMA CurrentIn ==
  ASSUME NEW r \in CallerStates, r.todo # {}
  PROVE  CurrentOf(r) \in r.todo /\ CurrentOf(r) \in Entities
<1>1. r.todo \subseteq Entities /\ Entities \subseteq Nat
  BY EntitiesAssumption DEF CallerStates
<1>2. \E e \in r.todo : \A d \in r.todo : e <= d
  BY <1>1, LeastNatural
<1>3. QED
  BY <1>1, <1>2 DEF CurrentOf

(* What a caller sends is a payload.                                         *)
LEMMA OutgoingType ==
  ASSUME NEW r \in CallerStates, r.todo # {}
  PROVE  OutgoingOf(r) \in Payloads
<1>1. CurrentOf(r) \in Entities
  BY CurrentIn
<1>2. r.rows[CurrentOf(r)].payload \in Payloads
  BY <1>1 DEF CallerStates, LogRows
<1>3. r.data[CurrentOf(r)] \in 0 .. MaxVersion /\ Needs[CurrentOf(r)] \subseteq Entities
      /\ \A d \in Entities : r.resolved[d] \in Nat
  BY <1>1, EntitiesAssumption DEF CallerStates
<1>4. QED
  BY <1>2, <1>3 DEF OutgoingOf, Payloads

(* Nothing, as a sighting, a row, a payload, a caller.                       *)
LEMMA Nothings ==
  /\ NoPayload \in Payloads /\ NoRow \in LogRows /\ NoneSeen \in Sightings
  /\ Idle \in CallerStates /\ CallerType(Idle) /\ Idle.pc = "idle" /\ Idle.landed = 0
  /\ Idle.todo = {} /\ Idle.task = "none" /\ Idle.age = 0 /\ Idle.unread = {}
  /\ \A e \in Entities : Idle.rows[e] = NoRow /\ Idle.seen[e] = NoneSeen /\ Idle.resolved[e] = 0
<1>1. NoPayload \in Payloads
  BY BoundsAssumption DEF NoPayload, Payloads
<1>2. NoRow \in LogRows /\ NoneSeen \in Sightings
  BY <1>1 DEF NoRow, LogRows, NoneSeen, Sightings
<1>3. Idle \in CallerStates
  BY <1>2, BoundsAssumption DEF Idle, CallerStates, Stages
<1>4. QED
  BY <1>1, <1>2, <1>3 DEF Idle, CallerType, Working

-----------------------------------------------------------------------------
(* What a step makes of a caller.                                            *)

\* The same but for coming late.
Alike(r, s) == s = r \/ s = [r EXCEPT !.late = TRUE]

\* h becomes n; the others at most learn that they come late.
Turns(h, n) ==
    /\ caller' = [g \in Holders |-> caller'[g]]
    /\ caller'[h] = n
    /\ \A g \in Holders \ {h} : Alike(caller[g], caller'[g])

\* r goes to another call, with the id it landed at.
Goes(r, stage, id) == [r EXCEPT !.pc = stage, !.landed = id]

\* r is done with its entity, whose remote id it takes to be id.
Passed(r, id) ==
    [r EXCEPT !.pc = "next", !.todo = @ \ {CurrentOf(r)}, !.landed = 0, !.late = FALSE,
              !.rows[CurrentOf(r)] = NoRow, !.seen[CurrentOf(r)] = NoneSeen,
              !.resolved[CurrentOf(r)] = id]

(* Alike callers tell the same.                                              *)
LEMMA AlikeFields ==
  ASSUME NEW r \in CallerStates, NEW s, Alike(r, s)
  PROVE  /\ s \in CallerStates /\ s.task = r.task /\ s.pc = r.pc /\ s.unread = r.unread
         /\ s.todo = r.todo /\ s.data = r.data /\ s.rows = r.rows /\ s.seen = r.seen
         /\ s.resolved = r.resolved /\ s.landed = r.landed /\ s.age = r.age
         /\ CurrentOf(s) = CurrentOf(r) /\ OutgoingOf(s) = OutgoingOf(r)
<1>1. /\ s \in CallerStates /\ s.task = r.task /\ s.pc = r.pc /\ s.unread = r.unread
      /\ s.todo = r.todo /\ s.data = r.data /\ s.rows = r.rows /\ s.seen = r.seen
      /\ s.resolved = r.resolved /\ s.landed = r.landed /\ s.age = r.age
  <2>1. CASE s = r
    BY <2>1
  <2>2. CASE s = [r EXCEPT !.late = TRUE]
    BY <2>2 DEF CallerStates
  <2>3. QED
    BY <2>1, <2>2 DEF Alike
<1>2. CurrentOf(s) = CurrentOf(r)
  BY <1>1 DEF CurrentOf
<1>3. QED
  BY <1>1, <1>2 DEF OutgoingOf

(* Going to another call changes nothing else.                               *)
LEMMA GoesFields ==
  ASSUME NEW r \in CallerStates, NEW stage \in Stages, NEW id \in Nat, NEW s, s = Goes(r, stage, id)
  PROVE  /\ s \in CallerStates /\ s.task = r.task /\ s.pc = stage /\ s.unread = r.unread
         /\ s.todo = r.todo /\ s.data = r.data /\ s.rows = r.rows /\ s.seen = r.seen
         /\ s.resolved = r.resolved /\ s.landed = id /\ s.age = r.age
         /\ CurrentOf(s) = CurrentOf(r) /\ OutgoingOf(s) = OutgoingOf(r)
<1>1. /\ s \in CallerStates /\ s.task = r.task /\ s.pc = stage /\ s.unread = r.unread
      /\ s.todo = r.todo /\ s.data = r.data /\ s.rows = r.rows /\ s.seen = r.seen
      /\ s.resolved = r.resolved /\ s.landed = id /\ s.age = r.age
  BY DEF Goes, CallerStates
<1>2. CurrentOf(s) = CurrentOf(r)
  BY <1>1 DEF CurrentOf
<1>3. QED
  BY <1>1, <1>2 DEF OutgoingOf

(* Being done with an entity forgets what was known of it, but its id.       *)
LEMMA PassedFields ==
  ASSUME NEW r \in CallerStates, r.todo # {}, NEW id \in Nat, NEW s, s = Passed(r, id)
  PROVE  /\ s \in CallerStates /\ s.task = r.task /\ s.pc = "next" /\ s.unread = r.unread
         /\ s.todo = r.todo \ {CurrentOf(r)} /\ s.data = r.data /\ s.landed = 0 /\ s.age = r.age
         /\ \A e \in Entities :
              /\ s.rows[e] = IF e = CurrentOf(r) THEN NoRow ELSE r.rows[e]
              /\ s.seen[e] = IF e = CurrentOf(r) THEN NoneSeen ELSE r.seen[e]
              /\ s.resolved[e] = IF e = CurrentOf(r) THEN id ELSE r.resolved[e]
<1> DEFINE c == CurrentOf(r)
           rows2 == [r.rows EXCEPT ![c] = NoRow]
           seen2 == [r.seen EXCEPT ![c] = NoneSeen]
           resolved2 == [r.resolved EXCEPT ![c] = id]
           todo2 == r.todo \ {c}
<1>a. c \in Entities
  BY CurrentIn
<1> HIDE DEF c
<1>b. NoRow \in LogRows /\ NoneSeen \in Sightings
  BY Nothings
<1>1. s = [r EXCEPT !.pc = "next", !.todo = todo2, !.landed = 0, !.late = FALSE,
                    !.rows = rows2, !.seen = seen2, !.resolved = resolved2]
  BY DEF Passed, c
<1>2. /\ rows2 \in [Entities -> LogRows] /\ seen2 \in [Entities -> Sightings]
      /\ resolved2 \in [Entities -> Nat] /\ todo2 \in SUBSET Entities
  BY <1>a, <1>b DEF CallerStates
<1>3. \A e \in Entities :
        /\ rows2[e] = IF e = c THEN NoRow ELSE r.rows[e]
        /\ seen2[e] = IF e = c THEN NoneSeen ELSE r.seen[e]
        /\ resolved2[e] = IF e = c THEN id ELSE r.resolved[e]
  BY DEF CallerStates
<1> HIDE DEF rows2, seen2, resolved2
<1>4. /\ s \in CallerStates /\ s.task = r.task /\ s.pc = "next" /\ s.unread = r.unread
      /\ s.todo = todo2 /\ s.data = r.data /\ s.landed = 0 /\ s.age = r.age
      /\ s.rows = rows2 /\ s.seen = seen2 /\ s.resolved = resolved2
  <2> HIDE DEF todo2
  <2>1. PICK r1 : r1 = [r EXCEPT !.pc = "next", !.todo = todo2, !.landed = 0, !.late = FALSE]
    OBVIOUS
  <2>2. /\ r1 \in CallerStates /\ r1.task = r.task /\ r1.pc = "next" /\ r1.unread = r.unread
        /\ r1.todo = todo2 /\ r1.data = r.data /\ r1.landed = 0 /\ r1.age = r.age
    BY <2>1, <1>2 DEF CallerStates, Stages
  <2>3. s = [r1 EXCEPT !.rows = rows2, !.seen = seen2, !.resolved = resolved2]
    BY <1>1, <2>1 DEF CallerStates
  <2>4. s \in CallerStates
    BY <2>2, <2>3, <1>2 DEF CallerStates
  <2>5. QED
    BY <2>2, <2>3, <2>4 DEF CallerStates
<1>5. QED
  BY <1>3, <1>4 DEF c

-----------------------------------------------------------------------------
(* What each action does, in these terms.                                    *)

KnownOf(r) ==
    IF r.seen[CurrentOf(r)].row # 0 THEN r.seen[CurrentOf(r)].id ELSE r.rows[CurrentOf(r)].id

\* h is done with its entity.
Leaves(h, id) ==
    \/ Turns(h, Idle)
    \/ /\ caller[h].todo \ {CurrentOf(caller[h])} # {}
       /\ Turns(h, Passed(caller[h], id))

\* h goes to another call.
Steps(h, stage, id) == Turns(h, Goes(caller[h], stage, id))

(* The model's operators, as ones of a caller's state.                       *)
LEMMA Reading ==
  ASSUME TypeInv, NEW h \in Holders
  PROVE  /\ caller[h] \in CallerStates /\ CallerType(caller[h])
         /\ Current(h) = CurrentOf(caller[h]) /\ Outgoing(h) = OutgoingOf(caller[h])
         /\ KnownId(h) = KnownOf(caller[h])
         /\ \A stage : Goto(h, stage) = Goes(caller[h], stage, caller[h].landed)
         /\ \A id : Landed(h, id) = Goes(caller[h], "map", id)
<1>1. caller[h] \in CallerStates /\ CallerType(caller[h])
  BY DEF TypeInv
<1>2. Current(h) = CurrentOf(caller[h])
  BY DEF Current, CurrentOf
<1>3. Outgoing(h) = OutgoingOf(caller[h]) /\ KnownId(h) = KnownOf(caller[h])
  BY <1>2 DEF Outgoing, OutgoingOf, KnownId, KnownOf, Sweeps
<1>4. \A stage : Goto(h, stage) = Goes(caller[h], stage, caller[h].landed)
  BY <1>1 DEF Goto, Goes, CallerStates
<1>5. \A id : Landed(h, id) = Goes(caller[h], "map", id)
  BY <1>1 DEF Landed, Goto, Goes, CallerStates
<1>6. QED
  BY <1>1, <1>2, <1>3, <1>4, <1>5

(* Becoming something leaves the others as they were.                        *)
LEMMA BecomeTurns ==
  ASSUME TypeInv, NEW h \in Holders, NEW n, Become(h, n)
  PROVE  Turns(h, n)
<1>1. caller' = [caller EXCEPT ![h] = n] /\ caller \in [Holders -> CallerStates]
  BY DEF Become, TypeInv
<1>2. QED
  BY <1>1 DEF Turns, Alike

(* Going onward is to be over, or at the next entity.                        *)
LEMMA OnwardLeaves ==
  ASSUME TypeInv, NEW h \in Holders, NEW id, Turns(h, Onward(h, id))
  PROVE  Leaves(h, id)
<1>1. Current(h) = CurrentOf(caller[h])
  BY DEF Current, CurrentOf
<1>2. CASE caller[h].todo \ {CurrentOf(caller[h])} = {}
  BY <1>1, <1>2 DEF Onward, Leaves
<1>3. CASE caller[h].todo \ {CurrentOf(caller[h])} # {}
  <2>1. Onward(h, id) = Passed(caller[h], id)
    BY <1>1, <1>3 DEF Onward, Passed
  <2>2. QED
    BY <1>3, <2>1 DEF Leaves
<1>4. QED
  BY <1>2, <1>3

(* A row is logged or not, and the caller goes either way.                   *)
LEMMA WriteLogDoes ==
  ASSUME TypeInv, NEW h \in Holders, NEW row, NEW answered, NEW thrown,
         WriteLog(h, row, answered, thrown)
  PROVE  /\ Turns(h, answered) \/ Turns(h, thrown)
         /\ log' = log \/ log' = [log EXCEPT ![CurrentOf(caller[h])] = row]
         /\ faults' \in 0 .. MaxFaults
<1> DEFINE others == [g \in Holders |->
                       IF g # h /\ caller[g].pc \in {"map", "ok"} /\ Current(g) = Current(h)
                         THEN [caller[g] EXCEPT !.late = TRUE] ELSE caller[g]]
<1>1. \A after : caller' = [others EXCEPT ![h] = after] => Turns(h, after)
  BY DEF Turns, Alike
<1>2. \A after : Become(h, after) => Turns(h, after)
  BY BecomeTurns
<1>3. Fine \/ Fault => faults' \in 0 .. MaxFaults
  BY BoundsAssumption DEF Fine, Fault, TypeInv
<1>4. Current(h) = CurrentOf(caller[h])
  BY DEF Current, CurrentOf
<1>5. \/ caller' = [others EXCEPT ![h] = answered] /\ Fine
      \/ caller' = [others EXCEPT ![h] = thrown] /\ Fault
      \/ Become(h, thrown) /\ Fault
  BY DEF WriteLog
<1>6. log' = log \/ log' = [log EXCEPT ![Current(h)] = row]
  BY DEF WriteLog
<1>7. QED
  BY <1>1, <1>2, <1>3, <1>4, <1>5, <1>6

(* A session whose cast is not resolved is passed over.                      *)
LEMMA BlockDoes ==
  ASSUME TypeInv, NEW h \in Holders, Block(h)
  PROVE  /\ caller[h].pc = "next" /\ Leaves(h, caller[h].resolved[CurrentOf(caller[h])])
         /\ UNCHANGED <<local, remote, mapping, log, claim, faults>>
<1>1. Turns(h, Done(h)) /\ Current(h) = CurrentOf(caller[h])
  BY BecomeTurns, Reading DEF Block
<1>2. QED
  BY <1>1, OnwardLeaves DEF Block, At, Done

(* What was accepted already is logged once more.                            *)
LEMMA SkipDoes ==
  ASSUME TypeInv, NEW h \in Holders, Skip(h)
  PROVE  LET r == caller[h]
             c == CurrentOf(r)
             row == [status |-> "ok", id |-> KnownOf(r), payload |-> OutgoingOf(r)]
         IN  /\ r.pc = "next" /\ Leaves(h, r.resolved[c])
             /\ r.seen[c].row # 0
             /\ log' = log \/ log' = [log EXCEPT ![c] = row]
             /\ faults' \in 0 .. MaxFaults
             /\ UNCHANGED <<local, remote, mapping, claim>>
<1> DEFINE row == [status |-> "ok", id |-> KnownId(h), payload |-> Outgoing(h)]
<1>1. WriteLog(h, row, Done(h), Done(h)) /\ caller[h].pc = "next"
      /\ UNCHANGED <<local, remote, mapping, claim>> /\ Accepted(h)
  BY DEF Skip, At
<1>2. /\ Current(h) = CurrentOf(caller[h])
      /\ row = [status |-> "ok", id |-> KnownOf(caller[h]), payload |-> OutgoingOf(caller[h])]
  BY Reading
<1> HIDE DEF row
<1>3. /\ Turns(h, Done(h)) /\ faults' \in 0 .. MaxFaults
      /\ log' = log \/ log' = [log EXCEPT ![CurrentOf(caller[h])] = row]
  BY <1>1, WriteLogDoes
<1>4. Leaves(h, caller[h].resolved[CurrentOf(caller[h])])
  BY <1>2, <1>3, OnwardLeaves DEF Done
<1>5. caller[h].seen[CurrentOf(caller[h])].row # 0
  BY <1>1, <1>2 DEF Accepted
<1>6. QED
  BY <1>1, <1>2, <1>3, <1>4, <1>5

(* The lease is granted and the caller sends, or it is done with the entity. *)
LEMMA ClaimDoes ==
  ASSUME TypeInv, NEW h \in Holders, Claim(h)
  PROVE  LET r == caller[h]
             c == CurrentOf(r)
             asked == [claim EXCEPT ![c] = AfterClaim(@, h, Lease)]
         IN  /\ r.pc = "next"
             /\ r.task # "sweep" => \A d \in Needs[c] : r.resolved[d] # 0
             /\ \/ /\ Steps(h, "send", r.landed) /\ Grants(claim[c], h) /\ claim' = asked
                   /\ Old(r.age) => c \in loose'
                \/ Leaves(h, r.resolved[c]) /\ claim' \in {claim, asked}
             /\ faults' \in 0 .. MaxFaults
             /\ UNCHANGED <<local, remote, mapping, log>>
<1> DEFINE c == CurrentOf(caller[h])
           asked == [claim EXCEPT ![c] = AfterClaim(@, h, Lease)]
<1>1. Current(h) = c /\ Goto(h, "send") = Goes(caller[h], "send", caller[h].landed)
  BY Reading
<1>2. \A n : Become(h, n) => Turns(h, n)
  BY BecomeTurns
<1>3. Turns(h, Done(h)) \/ Turns(h, Idle) => Leaves(h, caller[h].resolved[c])
  BY <1>1, OnwardLeaves DEF Done, Leaves
<1>4. Fine \/ Fault => faults' \in 0 .. MaxFaults
  BY BoundsAssumption DEF Fine, Fault, TypeInv
<1>5. caller[h].pc = "next" /\ UNCHANGED <<local, remote, mapping, log>>
  BY DEF Claim, At
<1>6. caller[h].task # "sweep" => \A d \in Needs[c] : caller[h].resolved[d] # 0
  BY <1>1 DEF Claim, Unresolved, Sweeps
<1>7. \/ /\ claim' = asked /\ Grants(claim[c], h) /\ Become(h, Goto(h, "send")) /\ Fine
         /\ Old(caller[h].age) => c \in loose'
      \/ claim' = asked /\ Become(h, Done(h)) /\ Fine
      \/ claim' \in {claim, asked} /\ Become(h, Idle) /\ Fault
      \/ claim' \in {claim, asked} /\ Become(h, Done(h)) /\ Fault
  BY <1>1 DEF Claim
<1> HIDE DEF asked
<1>8. \/ /\ Steps(h, "send", caller[h].landed) /\ Grants(claim[c], h) /\ claim' = asked
         /\ Old(caller[h].age) => c \in loose'
      \/ Leaves(h, caller[h].resolved[c]) /\ claim' \in {claim, asked}
  BY <1>1, <1>2, <1>3, <1>7 DEF Steps
<1>9. QED
  BY <1>4, <1>5, <1>6, <1>7, <1>8 DEF asked

(* A create makes an object, or takes the speaker that is there.             *)
LEMMA CreateDoes ==
  ASSUME TypeInv, NEW h \in Holders, Create(h)
  PROVE  LET r == caller[h]
             c == CurrentOf(r)
         IN  /\ r.pc = "send" /\ KnownOf(r) = 0
             /\ \/ /\ Kind[c] = "speaker" /\ remote[c] # <<>>
                   /\ Steps(h, "map", 1) /\ UNCHANGED remote
                \/ /\ remote' = [remote EXCEPT ![c] = Append(@, OutgoingOf(r))]
                   /\ Steps(h, "map", Len(remote[c]) + 1) \/ Steps(h, "fail", r.landed)
             /\ faults' \in 0 .. MaxFaults
             /\ UNCHANGED <<local, mapping, log, claim>>
<1> DEFINE r == caller[h]
           c == CurrentOf(r)
           objs == Append(remote[c], OutgoingOf(r))
<1>1. /\ Current(h) = c /\ Outgoing(h) = OutgoingOf(r) /\ KnownId(h) = KnownOf(r)
      /\ Goto(h, "fail") = Goes(r, "fail", r.landed)
      /\ \A id : Landed(h, id) = Goes(r, "map", id)
  BY Reading
<1>2. r.pc = "send" /\ KnownOf(r) = 0 /\ UNCHANGED <<local, mapping, log, claim>>
  BY <1>1 DEF Create, At
<1>3. Fine \/ Fault => faults' \in 0 .. MaxFaults
  BY BoundsAssumption DEF Fine, Fault, TypeInv
<1>4. c \in Entities /\ Len(objs) = Len(remote[c]) + 1
  <2>1. r.todo # {} /\ r \in CallerStates
    BY <1>2, Reading DEF CallerType, Working
  <2>2. c \in Entities /\ OutgoingOf(r) \in Payloads
    BY <2>1, CurrentIn, OutgoingType
  <2>3. remote[c] \in Seq(Payloads)
    BY <2>2 DEF TypeInv
  <2>4. QED
    BY <2>2, <2>3
<1>5. CASE Collides(h)
  <2>1. Become(h, Landed(h, 1)) /\ Fine /\ UNCHANGED remote
    BY <1>5 DEF Create
  <2>2. Kind[c] = "speaker" /\ remote[c] # <<>>
    BY <1>1, <1>5 DEF Collides
  <2>3. Steps(h, "map", 1)
    BY <1>1, <2>1, BecomeTurns DEF Steps
  <2>4. QED
    BY <1>2, <1>3, <2>1, <2>2, <2>3
<1>6. CASE ~ Collides(h)
  <2>1. Remote(h, objs, Len(objs))
    BY <1>1, <1>6 DEF Create
  <2>2. remote' = [remote EXCEPT ![c] = objs]
    BY <1>1, <2>1 DEF Remote
  <2>3. \/ Become(h, Goes(r, "map", Len(remote[c]) + 1)) /\ Fine
        \/ Become(h, Goes(r, "fail", r.landed)) /\ Fault
    BY <1>1, <1>4, <2>1 DEF Remote
  <2>4. Steps(h, "map", Len(remote[c]) + 1) \/ Steps(h, "fail", r.landed)
    BY <2>3, BecomeTurns DEF Steps
  <2>5. QED
    BY <1>2, <1>3, <2>2, <2>3, <2>4
<1>7. QED
  BY <1>5, <1>6

(* An update writes the object that is known.                                *)
LEMMA UpdateDoes ==
  ASSUME TypeInv, NEW h \in Holders, Update(h)
  PROVE  LET r == caller[h]
             c == CurrentOf(r)
         IN  /\ r.pc = "send" /\ KnownOf(r) # 0 /\ Kind[c] # "taxonomy"
             /\ remote' = [remote EXCEPT ![c] = [@ EXCEPT ![KnownOf(r)] = OutgoingOf(r)]]
             /\ Steps(h, "map", KnownOf(r)) \/ Steps(h, "fail", r.landed)
             /\ faults' \in 0 .. MaxFaults
             /\ UNCHANGED <<local, mapping, log, claim>>
<1> DEFINE r == caller[h]
           c == CurrentOf(r)
           objs == [remote[c] EXCEPT ![KnownOf(r)] = OutgoingOf(r)]
<1>1. /\ Current(h) = c /\ Outgoing(h) = OutgoingOf(r) /\ KnownId(h) = KnownOf(r)
      /\ Goto(h, "fail") = Goes(r, "fail", r.landed)
      /\ \A id : Landed(h, id) = Goes(r, "map", id)
  BY Reading
<1>2. /\ r.pc = "send" /\ KnownOf(r) # 0 /\ Kind[c] # "taxonomy"
      /\ UNCHANGED <<local, mapping, log, claim>> /\ Remote(h, objs, KnownOf(r))
  BY <1>1 DEF Update, At
<1>3. Fine \/ Fault => faults' \in 0 .. MaxFaults
  BY BoundsAssumption DEF Fine, Fault, TypeInv
<1>4. remote' = [remote EXCEPT ![c] = objs]
  BY <1>1, <1>2 DEF Remote
<1>5. \/ Become(h, Goes(r, "map", KnownOf(r))) /\ Fine
      \/ Become(h, Goes(r, "fail", r.landed)) /\ Fault
  BY <1>1, <1>2 DEF Remote
<1>6. Steps(h, "map", KnownOf(r)) \/ Steps(h, "fail", r.landed)
  BY <1>5, BecomeTurns DEF Steps
<1>7. QED
  BY <1>2, <1>3, <1>4, <1>5, <1>6

(* A taxonomy that is known is taken as it is, or refused.                   *)
LEMMA UpdateTaxonomyDoes ==
  ASSUME TypeInv, NEW h \in Holders, UpdateTaxonomy(h)
  PROVE  LET r == caller[h]
             c == CurrentOf(r)
         IN  /\ r.pc = "send" /\ KnownOf(r) # 0 /\ Kind[c] = "taxonomy"
             /\ \/ r.seen[c].row = 0 /\ Steps(h, "map", KnownOf(r))
                \/ Steps(h, "fail", r.landed)
             /\ UNCHANGED <<local, remote, mapping, log, claim, faults>>
<1> DEFINE r == caller[h]
           c == CurrentOf(r)
<1>1. /\ Current(h) = c /\ KnownId(h) = KnownOf(r)
      /\ Goto(h, "fail") = Goes(r, "fail", r.landed)
      /\ \A id : Landed(h, id) = Goes(r, "map", id)
  BY Reading
<1>2. \/ r.seen[c].row = 0 /\ Become(h, Goes(r, "map", KnownOf(r)))
      \/ Become(h, Goes(r, "fail", r.landed))
  BY <1>1 DEF UpdateTaxonomy
<1>3. \/ r.seen[c].row = 0 /\ Steps(h, "map", KnownOf(r))
      \/ Steps(h, "fail", r.landed)
  BY <1>2, BecomeTurns DEF Steps
<1>4. QED
  BY <1>1, <1>3 DEF UpdateTaxonomy, At

(* A call that is refused leaves a failure to be logged.                     *)
LEMMA SendFailsDoes ==
  ASSUME TypeInv, NEW h \in Holders, SendFails(h)
  PROVE  /\ caller[h].pc = "send" /\ Steps(h, "fail", caller[h].landed)
         /\ faults' \in 0 .. MaxFaults
         /\ UNCHANGED <<local, remote, mapping, log, claim>>
<1>1. Become(h, Goes(caller[h], "fail", caller[h].landed))
  BY Reading DEF SendFails
<1>2. faults' \in 0 .. MaxFaults
  BY BoundsAssumption DEF SendFails, Fault, TypeInv
<1>3. QED
  BY <1>1, <1>2, BecomeTurns DEF SendFails, At, Steps

\* The mappings with the one h is saving.
Saved(r) ==
    LET e == CurrentOf(r)
        new == [id |-> r.landed, hash |-> OutgoingOf(r)]
    IN  [mapping EXCEPT ![e] = IF r.seen[e].row = 0 THEN Append(@, new)
                               ELSE [@ EXCEPT ![r.seen[e].row] = new]]

(* The mapping is saved, or the caller believes it is not.                   *)
LEMMA SaveMappingDoes ==
  ASSUME TypeInv, NEW h \in Holders, SaveMapping(h)
  PROVE  LET r == caller[h]
         IN  /\ r.pc = "map"
             /\ \/ mapping' = Saved(r) /\ Steps(h, "ok", r.landed)
                \/ mapping' \in {mapping, Saved(r)} /\ Steps(h, "fail", r.landed)
             /\ faults' \in 0 .. MaxFaults
             /\ UNCHANGED <<local, remote, log, claim>>
<1> DEFINE r == caller[h]
<1>1. /\ Current(h) = CurrentOf(r) /\ Outgoing(h) = OutgoingOf(r)
      /\ \A stage : Goto(h, stage) = Goes(r, stage, r.landed)
  BY Reading
<1>2. /\ \/ mapping' = Saved(r) /\ Become(h, Goes(r, "ok", r.landed)) /\ Fine
         \/ mapping' \in {mapping, Saved(r)} /\ Become(h, Goes(r, "fail", r.landed)) /\ Fault
      /\ r.pc = "map" /\ UNCHANGED <<local, remote, log, claim>>
  BY <1>1 DEF SaveMapping, At, Saved, SavedHash
<1>3. Fine \/ Fault => faults' \in 0 .. MaxFaults
  BY BoundsAssumption DEF Fine, Fault, TypeInv
<1>4. QED
  BY <1>2, <1>3, BecomeTurns DEF Steps

(* Success is logged; a sweep takes a lost answer to that for a failure.     *)
LEMMA LogOkDoes ==
  ASSUME TypeInv, NEW h \in Holders, LogOk(h)
  PROVE  LET r == caller[h]
             c == CurrentOf(r)
             row == [status |-> "ok", id |-> r.landed, payload |-> OutgoingOf(r)]
         IN  /\ r.pc = "ok"
             /\ Leaves(h, r.resolved[c]) \/ Leaves(h, r.landed) \/ Steps(h, "fail", r.landed)
             /\ log' = log \/ log' = [log EXCEPT ![c] = row]
             /\ faults' \in 0 .. MaxFaults
             /\ UNCHANGED <<local, remote, mapping, claim>>
<1> DEFINE r == caller[h]
           row == [status |-> "ok", id |-> r.landed, payload |-> OutgoingOf(r)]
           answered == IF Sweeps(h) THEN Done(h) ELSE Onward(h, r.landed)
           thrown == IF Sweeps(h) THEN Goto(h, "fail") ELSE Onward(h, r.landed)
<1>1. /\ Current(h) = CurrentOf(r) /\ Outgoing(h) = OutgoingOf(r)
      /\ Goto(h, "fail") = Goes(r, "fail", r.landed)
  BY Reading
<1>2. /\ WriteLog(h, row, answered, thrown) /\ r.pc = "ok"
      /\ UNCHANGED <<local, remote, mapping, claim>>
  BY <1>1 DEF LogOk, At
<1>3. answered \in {Done(h), Onward(h, r.landed)}
      /\ thrown \in {Goes(r, "fail", r.landed), Onward(h, r.landed)}
  BY <1>1
<1> HIDE DEF row, answered, thrown
<1>4. /\ Turns(h, answered) \/ Turns(h, thrown)
      /\ log' = log \/ log' = [log EXCEPT ![CurrentOf(r)] = row]
      /\ faults' \in 0 .. MaxFaults
  BY <1>2, WriteLogDoes
<1>5. \/ Leaves(h, r.resolved[CurrentOf(r)]) \/ Leaves(h, r.landed)
      \/ Steps(h, "fail", r.landed)
  <2>1. \/ Turns(h, Onward(h, r.resolved[Current(h)])) \/ Turns(h, Onward(h, r.landed))
        \/ Turns(h, Goes(r, "fail", r.landed))
    BY <1>3, <1>4 DEF Done
  <2>2. QED
    BY <1>1, <2>1, OnwardLeaves DEF Steps
<1>6. QED
  BY <1>2, <1>4, <1>5 DEF row

(* Failure is logged, with the id the caller knows by then.                  *)
LEMMA LogFailedDoes ==
  ASSUME TypeInv, NEW h \in Holders, LogFailed(h)
  PROVE  \E id \in {KnownOf(caller[h]), caller[h].landed} :
           LET r == caller[h]
               c == CurrentOf(r)
               row == [status |-> "failed", id |-> id, payload |-> OutgoingOf(r)]
           IN  /\ r.pc = "fail"
               /\ Leaves(h, r.resolved[c]) \/ Leaves(h, id)
               /\ log' = log \/ log' = [log EXCEPT ![c] = row]
               /\ faults' \in 0 .. MaxFaults
               /\ UNCHANGED <<local, remote, mapping, claim>>
<1> DEFINE r == caller[h]
           row == [status |-> "failed", id |-> FailedId(h), payload |-> OutgoingOf(r)]
           answered == IF Sweeps(h) THEN Done(h) ELSE Onward(h, FailedId(h))
<1>1. Current(h) = CurrentOf(r) /\ Outgoing(h) = OutgoingOf(r) /\ KnownId(h) = KnownOf(r)
  BY Reading
<1>2. FailedId(h) \in {KnownOf(r), r.landed}
  BY <1>1 DEF FailedId
<1>3. /\ WriteLog(h, row, answered, Done(h)) /\ r.pc = "fail"
      /\ UNCHANGED <<local, remote, mapping, claim>>
  BY <1>1 DEF LogFailed, At
<1>4. answered \in {Done(h), Onward(h, FailedId(h))}
  OBVIOUS
<1> HIDE DEF row, answered
<1>5. /\ Turns(h, answered) \/ Turns(h, Done(h))
      /\ log' = log \/ log' = [log EXCEPT ![CurrentOf(r)] = row]
      /\ faults' \in 0 .. MaxFaults
  BY <1>3, WriteLogDoes
<1>6. Leaves(h, r.resolved[CurrentOf(r)]) \/ Leaves(h, FailedId(h))
  <2>1. Turns(h, Onward(h, r.resolved[Current(h)])) \/ Turns(h, Onward(h, FailedId(h)))
    BY <1>4, <1>5 DEF Done
  <2>2. QED
    BY <1>1, <2>1, OnwardLeaves
<1>7. QED
  BY <1>2, <1>3, <1>5, <1>6 DEF row

\* r after a read that leaves it rest to read.
After(r, n, rest) ==
    /\ n \in CallerStates /\ n.task = r.task /\ n.landed = r.landed /\ n.age = r.age
    /\ n.unread = rest /\ n.pc \in {"read", "next"}
    /\ n.pc = "next" => n.todo # {} /\ rest = {}

\* n sees of the entities it goes on to what s says.
Sees(n, s) ==
    \A e \in Entities : \/ n.seen[e] = s[e]
                        \/ n.pc = "next" /\ e \notin n.todo /\ n.seen[e] = NoneSeen

(* A caller after a read: over, still reading, or at its first entity.       *)
LEMMA HavingFields ==
  ASSUME NEW h \in Holders, NEW read, NEW rest, rest = caller[h].unread \ {read},
         rest \in SUBSET {"mappings", "records", "log"},
         NEW c \in CallerStates, c.pc = "read", NEW n, n = Having(h, read, c)
  PROVE  \/ n = Idle
         \/ /\ After(c, n, rest) /\ Sees(n, c.seen)
            /\ n.todo = c.todo /\ n.data = c.data /\ n.rows = c.rows /\ n.resolved = c.resolved
<1>1. CASE rest # {}
  <2>1. n = [c EXCEPT !.unread = rest]
    BY <1>1 DEF Having
  <2>2. QED
    BY <2>1 DEF CallerStates, After, Sees
<1>2. CASE rest = {} /\ c.todo = {}
  BY <1>2 DEF Having
<1>3. CASE rest = {} /\ c.todo # {}
  <2>1. PICK seen2 : seen2 = [e \in Entities |-> IF e \in c.todo THEN c.seen[e] ELSE NoneSeen]
    OBVIOUS
  <2>2. seen2 \in [Entities -> Sightings]
    BY <2>1, Nothings DEF CallerStates
  <2>3. n = [c EXCEPT !.unread = {}, !.pc = "next", !.seen = seen2]
    BY <1>3, <2>1 DEF Having
  <2>4. /\ n \in CallerStates /\ n.task = c.task /\ n.landed = c.landed /\ n.age = c.age
        /\ n.unread = {} /\ n.pc = "next" /\ n.todo = c.todo /\ n.data = c.data
        /\ n.rows = c.rows /\ n.resolved = c.resolved /\ n.seen = seen2
    BY <2>2, <2>3 DEF CallerStates, Stages
  <2>5. Sees(n, c.seen)
    BY <2>1, <2>4 DEF Sees
  <2>6. QED
    BY <1>3, <2>4, <2>5 DEF After
<1>4. QED
  BY <1>1, <1>2, <1>3

(* What the index of the mappings says of an entity is its last row.         *)
LEMMA IndexSays ==
  ASSUME TypeInv
  PROVE  /\ Index \in [Entities -> Sightings]
         /\ \A e \in Entities :
              /\ Index[e].row = Len(mapping[e])
              /\ Index[e].row # 0 => Index[e].id = mapping[e][Len(mapping[e])].id
              /\ Index[e].row = 0 => Index[e].id = 0
              /\ Len(mapping[e]) # 0 => Len(mapping[e]) \in DOMAIN mapping[e]
<1>1. ASSUME NEW e \in Entities
      PROVE  /\ Index[e] \in Sightings /\ Index[e].row = Len(mapping[e])
             /\ Index[e].row # 0 => Index[e].id = mapping[e][Len(mapping[e])].id
             /\ Index[e].row = 0 => Index[e].id = 0
             /\ Len(mapping[e]) # 0 => Len(mapping[e]) \in DOMAIN mapping[e]
  <2>1. mapping[e] \in Seq(Mappings) /\ Len(mapping[e]) \in Nat
    BY DEF TypeInv
  <2>2. CASE Len(mapping[e]) = 0
    BY <2>2, Nothings DEF Index, NoneSeen
  <2>3. CASE Len(mapping[e]) # 0
    <3>1. Len(mapping[e]) \in DOMAIN mapping[e] /\ mapping[e][Len(mapping[e])] \in Mappings
      BY <2>1, <2>3
    <3>2. Index[e] = [row |-> Len(mapping[e]), id |-> mapping[e][Len(mapping[e])].id,
                      hash |-> mapping[e][Len(mapping[e])].hash]
      BY <2>3 DEF Index
    <3>3. QED
      BY <2>1, <2>3, <3>1, <3>2 DEF Sightings, Mappings
  <2>4. QED
    BY <2>2, <2>3
<1>2. Index = [e \in Entities |-> Index[e]]
  BY DEF Index
<1>3. QED
  BY <1>1, <1>2

(* The mappings are read; a sweep that finds two of one entity is over.      *)
LEMMA ReadMappingsDoes ==
  ASSUME TypeInv, NEW h \in Holders, ReadMappings(h)
  PROVE  /\ caller[h].pc = "read" /\ "mappings" \in caller[h].unread
         /\ \/ Turns(h, Idle)
            \/ \E n : /\ Turns(h, n)
                      /\ After(caller[h], n, caller[h].unread \ {"mappings"}) /\ Sees(n, Index)
                      /\ n.todo = caller[h].todo /\ n.data = caller[h].data
                      /\ n.rows = caller[h].rows
                      /\ \A e \in Entities : n.resolved[e] \in {0, Index[e].id}
         /\ UNCHANGED <<local, remote, mapping, log, claim, faults>>
<1> DEFINE r == caller[h]
           rest == r.unread \ {"mappings"}
<1>1. /\ r.pc = "read" /\ "mappings" \in r.unread /\ r \in CallerStates
      /\ UNCHANGED <<local, remote, mapping, log, claim, faults>>
  BY Reading DEF ReadMappings, At
<1>2. PICK index : index = Index
  OBVIOUS
<1>3. index \in [Entities -> Sightings]
  BY <1>2, IndexSays
<1>4. PICK ids : ids = [e \in Entities |-> IF Sweeps(h) THEN 0 ELSE index[e].id]
  OBVIOUS
<1>5. ids \in [Entities -> Nat] /\ \A e \in Entities : ids[e] \in {0, index[e].id}
  BY <1>3, <1>4 DEF Sightings
<1>6. PICK c : c = [r EXCEPT !.seen = index, !.resolved = ids]
  OBVIOUS
<1>7. /\ c \in CallerStates /\ c.pc = "read" /\ c.task = r.task /\ c.landed = r.landed
      /\ c.age = r.age /\ c.todo = r.todo /\ c.data = r.data /\ c.rows = r.rows
      /\ c.seen = index /\ c.resolved = ids
  BY <1>1, <1>3, <1>5, <1>6 DEF CallerStates
<1>8. PICK n : n = Having(h, "mappings", c)
  OBVIOUS
<1>9. Become(h, Idle) \/ Become(h, n)
  BY <1>2, <1>4, <1>6, <1>8 DEF ReadMappings
<1>10. rest \in SUBSET {"mappings", "records", "log"}
  BY <1>1 DEF CallerStates
<1>11. \/ n = Idle
       \/ /\ After(c, n, rest) /\ Sees(n, c.seen)
          /\ n.todo = c.todo /\ n.data = c.data /\ n.rows = c.rows /\ n.resolved = c.resolved
  BY <1>7, <1>8, <1>10, HavingFields
<1>12. After(c, n, rest) => After(r, n, rest)
  BY <1>7 DEF After
<1>13. Turns(h, Idle) \/ Turns(h, n)
  BY <1>9, BecomeTurns
<1>14. QED
  BY <1>1, <1>2, <1>5, <1>7, <1>11, <1>12, <1>13

(* The records are read: an invocation that is over, or one that knows them. *)
LEMMA ReadRecordsDoes ==
  ASSUME TypeInv, NEW h \in Holders, ReadRecords(h)
  PROVE  /\ caller[h].pc = "read" /\ caller[h].unread = {"records"}
         /\ \/ Turns(h, Idle)
            \/ \E n : /\ Turns(h, n)
                      /\ After(caller[h], n, {}) /\ Sees(n, caller[h].seen)
                      /\ n.todo = caller[h].todo /\ n.data = local
                      /\ n.rows = caller[h].rows /\ n.resolved = caller[h].resolved
         /\ UNCHANGED <<local, remote, mapping, log, claim, faults>>
<1> DEFINE r == caller[h]
<1>1. /\ r.pc = "read" /\ r.unread = {"records"} /\ r \in CallerStates
      /\ UNCHANGED <<local, remote, mapping, log, claim, faults>>
  BY Reading DEF ReadRecords, At
<1>2. PICK c : c = [r EXCEPT !.data = local]
  OBVIOUS
<1>3. local \in [Entities -> 0 .. MaxVersion]
  BY BoundsAssumption DEF TypeInv
<1>4. /\ c \in CallerStates /\ c.pc = "read" /\ c.task = r.task /\ c.landed = r.landed
      /\ c.age = r.age /\ c.todo = r.todo /\ c.data = local /\ c.rows = r.rows
      /\ c.seen = r.seen /\ c.resolved = r.resolved
  BY <1>1, <1>2, <1>3 DEF CallerStates
<1>5. PICK n : n = Having(h, "records", c)
  OBVIOUS
<1>6. Become(h, n)
  BY <1>2, <1>5 DEF ReadRecords
<1>7. \/ n = Idle
      \/ /\ After(c, n, {}) /\ Sees(n, c.seen)
         /\ n.todo = c.todo /\ n.data = c.data /\ n.rows = c.rows /\ n.resolved = c.resolved
  BY <1>1, <1>4, <1>5, HavingFields
<1>8. After(c, n, {}) => After(r, n, {})
  BY <1>4 DEF After
<1>9. Turns(h, n)
  BY <1>6, BecomeTurns
<1>10. QED
  BY <1>1, <1>4, <1>7, <1>8, <1>9

(* The failed rows are read: those are what the sweep has to do.             *)
LEMMA ReadLogDoes ==
  ASSUME TypeInv, NEW h \in Holders, ReadLog(h)
  PROVE  /\ caller[h].pc = "read" /\ "log" \in caller[h].unread
         /\ \/ Turns(h, Idle)
            \/ \E n : /\ Turns(h, n)
                      /\ After(caller[h], n, caller[h].unread \ {"log"})
                      /\ Sees(n, caller[h].seen)
                      /\ n.todo = Owed /\ n.data = caller[h].data
                      /\ n.resolved = caller[h].resolved
                      /\ \A e \in Entities :
                           n.rows[e] = IF e \in Owed THEN log[e] ELSE NoRow
         /\ UNCHANGED <<local, remote, mapping, log, claim, faults>>
<1> DEFINE r == caller[h]
           rest == r.unread \ {"log"}
<1>1. /\ r.pc = "read" /\ "log" \in r.unread /\ r \in CallerStates
      /\ UNCHANGED <<local, remote, mapping, log, claim, faults>>
  BY Reading DEF ReadLog, At
<1>2. PICK found : found = [e \in Entities |-> IF e \in Owed THEN log[e] ELSE NoRow]
  OBVIOUS
<1>3. found \in [Entities -> LogRows] /\ Owed \subseteq Entities
  BY <1>2, Nothings DEF TypeInv, Owed
<1>4. PICK c : c = [r EXCEPT !.todo = Owed, !.rows = found]
  OBVIOUS
<1>5. /\ c \in CallerStates /\ c.pc = "read" /\ c.task = r.task /\ c.landed = r.landed
      /\ c.age = r.age /\ c.todo = Owed /\ c.data = r.data /\ c.rows = found
      /\ c.seen = r.seen /\ c.resolved = r.resolved
  BY <1>1, <1>3, <1>4 DEF CallerStates
<1>6. PICK n : n = Having(h, "log", c)
  OBVIOUS
<1>7. Become(h, n)
  BY <1>2, <1>4, <1>6 DEF ReadLog
<1>8. rest \in SUBSET {"mappings", "records", "log"}
  BY <1>1 DEF CallerStates
<1>9. \/ n = Idle
      \/ /\ After(c, n, rest) /\ Sees(n, c.seen)
         /\ n.todo = c.todo /\ n.data = c.data /\ n.rows = c.rows /\ n.resolved = c.resolved
  BY <1>5, <1>6, <1>8, HavingFields
<1>10. After(c, n, rest) => After(r, n, rest)
  BY <1>5 DEF After
<1>11. Turns(h, n)
  BY <1>7, BecomeTurns
<1>12. QED
  BY <1>1, <1>2, <1>5, <1>9, <1>10, <1>11

\* An invocation that has just begun, with nothing but something to read.
Begun(n, task, todo, unread) ==
    /\ n \in CallerStates /\ n.task = task /\ n.pc = "read" /\ n.unread = unread /\ n.todo = todo
    /\ n.rows = Idle.rows /\ n.seen = Idle.seen /\ n.resolved = Idle.resolved
    /\ n.landed = 0 /\ n.age = 0

(* A walk begins with mappings and records to read, a sweep with the log.    *)
LEMMA StartDoes ==
  ASSUME TypeInv, NEW h \in Holders, StartWalk(h) \/ StartSweep(h)
  PROVE  /\ Fresh(h)
         /\ \E n : /\ Turns(h, n)
                   /\ \/ \E todo \in SUBSET Entities :
                           Begun(n, "walk", todo, {"mappings", "records"})
                      \/ Begun(n, "sweep", {}, {"mappings", "log"})
         /\ UNCHANGED <<local, remote, mapping, log, claim, faults>>
<1>1. CASE StartWalk(h)
  <2>1. PICK scope \in Scopes :
          Become(h, [Idle EXCEPT !.task = "walk", !.pc = "read", !.todo = scope,
                                 !.unread = {"mappings", "records"}])
    BY <1>1 DEF StartWalk
  <2>2. scope \in SUBSET Entities
    BY <2>1, EntitiesAssumption DEF Scopes
  <2>3. PICK n : n = [Idle EXCEPT !.task = "walk", !.pc = "read", !.todo = scope,
                                  !.unread = {"mappings", "records"}]
    OBVIOUS
  <2>4. Begun(n, "walk", scope, {"mappings", "records"})
    BY <2>2, <2>3, Nothings DEF Begun, CallerStates, Stages
  <2>5. Turns(h, n)
    BY <2>1, <2>3, BecomeTurns
  <2>6. QED
    BY <1>1, <2>2, <2>4, <2>5 DEF StartWalk
<1>2. CASE StartSweep(h)
  <2>1. PICK n : n = [Idle EXCEPT !.task = "sweep", !.pc = "read", !.unread = {"mappings", "log"}]
    OBVIOUS
  <2>2. Begun(n, "sweep", {}, {"mappings", "log"})
    BY <2>1, Nothings DEF Begun, CallerStates, Stages
  <2>3. Turns(h, n)
    BY <1>2, <2>1, BecomeTurns DEF StartSweep
  <2>4. QED
    BY <1>2, <2>2, <2>3 DEF StartSweep
<1>3. QED
  BY <1>1, <1>2

(* An invocation that ends is over.                                          *)
LEMMA DieDoes ==
  ASSUME TypeInv, NEW h \in Holders, Die(h)
  PROVE  /\ Turns(h, Idle) /\ faults' \in 0 .. MaxFaults
         /\ UNCHANGED <<local, remote, mapping, log, claim>>
<1>1. faults' \in 0 .. MaxFaults
  BY BoundsAssumption DEF Die, Fault, TypeInv
<1>2. QED
  BY <1>1, BecomeTurns DEF Die

\* s is r a tick later.
Aging(r, s) ==
    \/ r.pc = "idle" /\ s = Idle
    \/ r.pc # "idle" /\ r.age < Span /\ s = [r EXCEPT !.age = @ + 1]

(* A tick finds nobody at the end of an invocation's time, and ages all.     *)
LEMMA TickDoes ==
  ASSUME TypeInv, Tick
  PROVE  /\ caller' = [h \in Holders |-> caller'[h]]
         /\ \A h \in Holders : Aging(caller[h], caller'[h])
         /\ claim' = [e \in Entities |-> Aged(claim[e])]
         /\ \A h \in Holders : caller[h].pc \in {"send", "map"} /\ Old(caller[h].age + 1) =>
              CurrentOf(caller[h]) \in loose'
         /\ UNCHANGED <<local, remote, mapping, log, faults>>
<1>1. caller' = [h \in Holders |-> IF caller[h].pc = "idle" THEN Idle
                                   ELSE [caller[h] EXCEPT !.age = @ + 1]]
  BY DEF Tick, At
<1>2. \A h \in Holders : caller[h].pc # "idle" => caller[h].age < Span
  BY DEF Tick, At
<1>3. ASSUME NEW h \in Holders, caller[h].pc \in {"send", "map"}, Old(caller[h].age + 1)
      PROVE  CurrentOf(caller[h]) \in loose'
  <2>1. Current(h) = CurrentOf(caller[h]) /\ InHand(h)
    BY <1>3 DEF Current, CurrentOf, InHand, At
  <2>2. QED
    BY <1>3, <2>1 DEF Tick
<1>4. QED
  BY <1>1, <1>2, <1>3 DEF Tick, Aging

(* A tick changes nothing of a caller but its age.                           *)
LEMMA AgingFields ==
  ASSUME NEW r \in CallerStates, NEW s, Aging(r, s), r.pc # "idle"
  PROVE  /\ s \in CallerStates /\ s.task = r.task /\ s.pc = r.pc /\ s.unread = r.unread
         /\ s.todo = r.todo /\ s.data = r.data /\ s.rows = r.rows /\ s.seen = r.seen
         /\ s.resolved = r.resolved /\ s.landed = r.landed /\ s.age = r.age + 1
         /\ CurrentOf(s) = CurrentOf(r) /\ OutgoingOf(s) = OutgoingOf(r)
<1>1. /\ s \in CallerStates /\ s.task = r.task /\ s.pc = r.pc /\ s.unread = r.unread
      /\ s.todo = r.todo /\ s.data = r.data /\ s.rows = r.rows /\ s.seen = r.seen
      /\ s.resolved = r.resolved /\ s.landed = r.landed /\ s.age = r.age + 1
  BY BoundsAssumption DEF Aging, CallerStates
<1>2. CurrentOf(s) = CurrentOf(r)
  BY <1>1 DEF CurrentOf
<1>3. QED
  BY <1>1, <1>2 DEF OutgoingOf

-----------------------------------------------------------------------------
(* Types.                                                                    *)

(* Writing a place of a sequence keeps its length and the other places.      *)
LEMMA Rewritten ==
  ASSUME NEW S, NEW seq \in Seq(S), NEW i, NEW x \in S
  PROVE  /\ [seq EXCEPT ![i] = x] \in Seq(S)
         /\ Len([seq EXCEPT ![i] = x]) = Len(seq) /\ DOMAIN [seq EXCEPT ![i] = x] = DOMAIN seq
         /\ \A j \in DOMAIN seq :
              [seq EXCEPT ![i] = x][j] = IF j = i THEN x ELSE seq[j]
<1>1. \A j \in DOMAIN seq : seq[j] \in S
  OBVIOUS
<1>2. Len(seq) \in Nat /\ DOMAIN seq = 1 .. Len(seq)
  OBVIOUS
<1>3. [seq EXCEPT ![i] = x] \in [1 .. Len(seq) -> S]
  BY <1>1, <1>2
<1>4. QED
  BY <1>2, <1>3

(* Appending adds one place and keeps the others.                            *)
LEMMA Appended ==
  ASSUME NEW S, NEW seq \in Seq(S), NEW x \in S
  PROVE  /\ Append(seq, x) \in Seq(S) /\ Len(Append(seq, x)) = Len(seq) + 1
         /\ Len(seq) \in Nat /\ DOMAIN seq = 1 .. Len(seq)
         /\ DOMAIN Append(seq, x) = 1 .. Len(seq) + 1
         /\ Append(seq, x)[Len(seq) + 1] = x
         /\ \A j \in DOMAIN seq : Append(seq, x)[j] = seq[j]
  OBVIOUS

(* What a caller knows its entity as, is an id.                              *)
LEMMA KnownType ==
  ASSUME NEW r \in CallerStates, r.todo # {}
  PROVE  KnownOf(r) \in Nat
<1>1. CurrentOf(r) \in Entities
  BY CurrentIn
<1>2. QED
  BY <1>1 DEF KnownOf, CallerStates, LogRows, Sightings

(* A caller that becomes something of its type keeps the type of callers.    *)
LEMMA TurnTypes ==
  ASSUME TypeInv, NEW h \in Holders, NEW n \in CallerStates, CallerType(n), Turns(h, n)
  PROVE  caller' \in [Holders -> CallerStates] /\ \A g \in Holders : CallerType(caller'[g])
<1>1. ASSUME NEW g \in Holders PROVE caller'[g] \in CallerStates /\ CallerType(caller'[g])
  <2>1. CASE g = h
    BY <2>1 DEF Turns
  <2>2. CASE g # h
    <3>1. Alike(caller[g], caller'[g]) /\ caller[g] \in CallerStates /\ CallerType(caller[g])
      BY <2>2 DEF Turns, TypeInv
    <3>2. QED
      BY <3>1, AlikeFields DEF CallerType
  <2>3. QED
    BY <2>1, <2>2
<1>2. QED
  BY <1>1 DEF Turns

(* So does one that leaves its entity.                                       *)
LEMMA LeavesTypes ==
  ASSUME TypeInv, NEW h \in Holders, NEW id \in Nat, caller[h].pc \in {"next"} \cup Working,
         Leaves(h, id)
  PROVE  caller' \in [Holders -> CallerStates] /\ \A g \in Holders : CallerType(caller'[g])
<1>1. CASE Turns(h, Idle)
  BY <1>1, Nothings, TurnTypes
<1>2. CASE /\ caller[h].todo \ {CurrentOf(caller[h])} # {}
           /\ Turns(h, Passed(caller[h], id))
  <2>1. PICK n : n = Passed(caller[h], id)
    OBVIOUS
  <2>2. caller[h] \in CallerStates /\ CallerType(caller[h]) /\ caller[h].todo # {}
    BY DEF TypeInv, CallerType
  <2>3. n \in CallerStates /\ n.pc = "next" /\ n.unread = caller[h].unread /\ n.todo # {}
        /\ n.task = caller[h].task /\ n.landed = 0
    BY <1>2, <2>1, <2>2, PassedFields
  <2>4. CallerType(n)
    BY <2>2, <2>3 DEF CallerType
  <2>5. QED
    BY <1>2, <2>1, <2>3, <2>4, TurnTypes
<1>3. QED
  BY <1>1, <1>2 DEF Leaves

(* So does one that goes to another call.                                    *)
LEMMA StepsTypes ==
  ASSUME TypeInv, NEW h \in Holders, NEW stage \in Working, NEW id \in Nat,
         caller[h].pc \in {"next"} \cup Working,
         stage \in {"map", "ok"} => id # 0, stage = "send" => id = 0,
         Steps(h, stage, id)
  PROVE  caller' \in [Holders -> CallerStates] /\ \A g \in Holders : CallerType(caller'[g])
<1>1. PICK n : n = Goes(caller[h], stage, id)
  OBVIOUS
<1>2. caller[h] \in CallerStates /\ CallerType(caller[h]) /\ stage \in Stages
  BY DEF TypeInv, Working, Stages
<1>3. n \in CallerStates /\ n.pc = stage /\ n.unread = caller[h].unread
      /\ n.todo = caller[h].todo /\ n.task = caller[h].task /\ n.landed = id
  BY <1>1, <1>2, GoesFields
<1>4. CallerType(n)
  BY <1>2, <1>3 DEF CallerType, Working
<1>5. QED
  BY <1>1, <1>3, <1>4, TurnTypes DEF Steps

(* A log row is what is written into the log.                                *)
LEMMA LoggedType ==
  ASSUME TypeInv, NEW c \in Entities, NEW row \in LogRows,
         log' = log \/ log' = [log EXCEPT ![c] = row]
  PROVE  log' \in [Entities -> LogRows]
  BY DEF TypeInv

(* The mappings with one more saved are mappings: the one a caller saw is    *)
(* written, if it is there, or one is appended.                              *)
LEMMA SavedType ==
  ASSUME TypeInv, NEW r \in CallerStates, r.todo # {}
  PROVE  LET c == CurrentOf(r)
             new == [id |-> r.landed, hash |-> OutgoingOf(r)]
         IN  /\ Saved(r) \in [Entities -> Seq(Mappings)]
             /\ \A e \in Entities \ {c} : Saved(r)[e] = mapping[e]
             /\ new \in Mappings /\ c \in Entities
             /\ r.seen[c].row = 0 => Saved(r)[c] = Append(mapping[c], new)
             /\ r.seen[c].row # 0 => Saved(r)[c] = [mapping[c] EXCEPT ![r.seen[c].row] = new]
<1> DEFINE c == CurrentOf(r)
           new == [id |-> r.landed, hash |-> OutgoingOf(r)]
<1>1. c \in Entities /\ OutgoingOf(r) \in Payloads
  BY CurrentIn, OutgoingType
<1>2. new \in Mappings
  BY <1>1 DEF Mappings, CallerStates
<1>3. mapping \in [Entities -> Seq(Mappings)] /\ mapping[c] \in Seq(Mappings)
  BY <1>1 DEF TypeInv
<1>4. Append(mapping[c], new) \in Seq(Mappings)
      /\ \A i : [mapping[c] EXCEPT ![i] = new] \in Seq(Mappings)
  BY <1>2, <1>3, Appended, Rewritten
<1>5. Saved(r) = [mapping EXCEPT ![c] = IF r.seen[c].row = 0 THEN Append(mapping[c], new)
                                        ELSE [mapping[c] EXCEPT ![r.seen[c].row] = new]]
  BY DEF Saved
<1> HIDE DEF new
<1>6. QED
  BY <1>1, <1>2, <1>3, <1>4, <1>5 DEF new

(* A create that is sent again appends a mapping of the object the caller    *)
(* landed at, and changes nothing else but what a fault costs.               *)
LEMMA SentAgainDoes ==
  ASSUME TypeInv, NEW h \in Holders, SentAgain(h)
  PROVE  LET r == caller[h]
             c == CurrentOf(r)
         IN  /\ r.pc = "map" /\ c \in Entities /\ r.landed # 0
             /\ \E new \in Mappings : new.id = r.landed /\ mapping'[c] = Append(mapping[c], new)
             /\ mapping' \in [Entities -> Seq(Mappings)]
             /\ \A e \in Entities \ {c} : mapping'[e] = mapping[e]
             /\ loose' = loose \cup {c}
             /\ faults' \in 0 .. MaxFaults
             /\ UNCHANGED <<local, remote, log, claim, caller>>
<1> DEFINE r == caller[h]
           c == CurrentOf(r)
<1>1. /\ Current(h) = c /\ Outgoing(h) = OutgoingOf(r)
      /\ r \in CallerStates /\ CallerType(r)
  BY Reading
<1>2. PICK new : new = [id |-> r.landed, hash |-> OutgoingOf(r)]
  OBVIOUS
<1>3. /\ r.pc = "map" /\ r.seen[c].row = 0 /\ loose' = loose \cup {c} /\ Fault
      /\ mapping' = [mapping EXCEPT ![c] = Append(mapping[c], new)]
      /\ UNCHANGED <<local, remote, log, claim, caller>>
  BY <1>1, <1>2 DEF SentAgain, At, SavedHash
<1>4. r.todo # {} /\ r.landed # 0
  BY <1>1, <1>3 DEF CallerType, Working
<1>5. /\ c \in Entities /\ new \in Mappings
      /\ mapping \in [Entities -> Seq(Mappings)] /\ mapping[c] \in Seq(Mappings)
  BY <1>1, <1>2, <1>4, SavedType DEF TypeInv
<1>6. Append(mapping[c], new) \in Seq(Mappings)
  BY <1>5
<1>7. /\ mapping' \in [Entities -> Seq(Mappings)] /\ mapping'[c] = Append(mapping[c], new)
      /\ \A e \in Entities \ {c} : mapping'[e] = mapping[e]
  BY <1>3, <1>5, <1>6
<1>8. faults' \in 0 .. MaxFaults
  BY <1>3, BoundsAssumption DEF Fault, TypeInv
<1>9. new.id = r.landed
  BY <1>2
<1>10. QED
  BY <1>3, <1>4, <1>5, <1>7, <1>8, <1>9

(* Nothing a request to the guard answers makes another kind of record.      *)
LEMMA AskedType ==
  ASSUME TypeInv, NEW h \in Holders, NEW c \in Entities,
         NEW asked, asked = [claim EXCEPT ![c] = AfterClaim(@, h, Lease)]
  PROVE  /\ asked \in [Entities -> Claims] /\ asked[c] = AfterClaim(claim[c], h, Lease)
         /\ \A e \in Entities \ {c} : asked[e] = claim[e]
<1>1. claim \in [Entities -> Claims] /\ claim[c] \in Claims /\ Lease \in Nat
  BY BoundsAssumption DEF TypeInv
<1>2. AfterClaim(claim[c], h, Lease) \in Claims
  BY <1>1, ClaimTypes
<1>3. QED
  BY <1>1, <1>2

(* Every step keeps the types.                                               *)
LEMMA TypeStep ==
  ASSUME TypeInv, [Next]_vars
  PROVE  TypeInv'
<1> DEFINE CallersFine == /\ caller' \in [Holders -> CallerStates]
                          /\ \A h \in Holders : CallerType(caller'[h])
<1>1. CASE UNCHANGED vars
  BY <1>1 DEF vars, TypeInv, CallerType
<1>2. ASSUME NEW e \in Edited, Edit(e) PROVE TypeInv'
  <2>1. e \in Entities /\ MaxVersion \in Nat
    BY EntitiesAssumption, BoundsAssumption
  <2>2. local' \in [Entities -> 1 .. MaxVersion]
    BY <1>2, <2>1 DEF Edit, TypeInv
  <2>3. QED
    BY <1>2, <2>2 DEF Edit, TypeInv, CallerType
<1>3. CASE Tick
  <2>1. /\ caller' = [h \in Holders |-> caller'[h]]
        /\ \A h \in Holders : Aging(caller[h], caller'[h])
        /\ claim' = [e \in Entities |-> Aged(claim[e])]
        /\ UNCHANGED <<local, remote, mapping, log, faults>>
    BY <1>3, TickDoes
  <2>2. claim' \in [Entities -> Claims]
    <3>1. ASSUME NEW e \in Entities PROVE Aged(claim[e]) \in Claims
      <4>1. PICK k : k = claim[e]
        OBVIOUS
      <4>2. k \in Claims
        BY <4>1 DEF TypeInv
      <4>3. Aged(k) \in Claims
        <5>1. CASE k = NoClaim
          BY <5>1 DEF NoClaim, Aged, Less, Claims
        <5>2. CASE k \in [holder : Holders, left : Nat]
          BY <5>2 DEF Aged, Less, Claims
        <5>3. QED
          BY <4>2, <5>1, <5>2 DEF Claims
      <4>4. QED
        BY <4>1, <4>3
    <3>2. QED
      BY <2>1, <3>1
  <2>3. ASSUME NEW h \in Holders PROVE caller'[h] \in CallerStates /\ CallerType(caller'[h])
    <3>1. caller[h] \in CallerStates /\ CallerType(caller[h]) /\ Aging(caller[h], caller'[h])
      BY <2>1 DEF TypeInv
    <3>2. CASE caller[h].pc = "idle"
      BY <3>1, <3>2, Nothings DEF Aging
    <3>3. CASE caller[h].pc # "idle"
      BY <3>1, <3>3, AgingFields DEF CallerType
    <3>4. QED
      BY <3>2, <3>3
  <2>4. CallersFine
    BY <2>1, <2>3
  <2>5. QED
    BY <2>1, <2>2, <2>4 DEF TypeInv
<1>4. ASSUME NEW h \in Holders,
             \/ StartWalk(h) \/ StartSweep(h) \/ Reads(h) \/ Block(h) \/ Attempt(h) \/ Die(h)
      PROVE  TypeInv'
  <2> DEFINE r == caller[h]
             c == CurrentOf(r)
  <2>0. /\ r \in CallerStates /\ CallerType(r)
        /\ r.pc \in {"next"} \cup Working => r.todo # {} /\ c \in Entities
    BY Reading, CurrentIn DEF CallerType
  <2>a. /\ \A e \in Entities : r.resolved[e] \in Nat /\ r.landed \in Nat
        /\ r.pc \in {"next"} \cup Working => /\ r.resolved[c] \in Nat /\ r.landed \in Nat
                                             /\ KnownOf(r) \in Nat /\ OutgoingOf(r) \in Payloads
    BY <2>0, KnownType, OutgoingType DEF CallerStates
  <2>1. CASE StartWalk(h) \/ StartSweep(h)
    <3>1. /\ UNCHANGED <<local, remote, mapping, log, claim, faults>>
          /\ \E n : /\ Turns(h, n)
                    /\ \/ \E todo \in SUBSET Entities :
                            Begun(n, "walk", todo, {"mappings", "records"})
                       \/ Begun(n, "sweep", {}, {"mappings", "log"})
      BY <2>1, StartDoes
    <3>2. PICK n : /\ Turns(h, n)
                   /\ \/ \E todo \in SUBSET Entities :
                           Begun(n, "walk", todo, {"mappings", "records"})
                      \/ Begun(n, "sweep", {}, {"mappings", "log"})
      BY <3>1
    <3>3. n \in CallerStates /\ CallerType(n)
      BY <3>2 DEF Begun, CallerType, Working
    <3>4. CallersFine
      BY <3>2, <3>3, TurnTypes
    <3>5. QED
      BY <3>1, <3>4 DEF TypeInv
  <2>2. CASE Reads(h)
    <3>1. /\ UNCHANGED <<local, remote, mapping, log, claim, faults>> /\ r.pc = "read"
          /\ \/ Turns(h, Idle)
             \/ \E n, read : Turns(h, n) /\ After(r, n, r.unread \ {read})
      <4>1. CASE ReadMappings(h)
        BY <4>1, ReadMappingsDoes
      <4>2. CASE ReadRecords(h)
        <5>1. /\ UNCHANGED <<local, remote, mapping, log, claim, faults>> /\ r.pc = "read"
              /\ r.unread \ {"records"} = {}
              /\ Turns(h, Idle) \/ \E n : Turns(h, n) /\ After(r, n, {})
          BY <4>2, ReadRecordsDoes
        <5>2. QED
          BY <5>1
      <4>3. CASE ReadLog(h)
        BY <4>3, ReadLogDoes
      <4>4. QED
        BY <2>2, <4>1, <4>2, <4>3 DEF Reads
    <3>2. CASE Turns(h, Idle)
      <4>1. CallersFine
        BY <3>2, Nothings, TurnTypes
      <4>2. QED
        BY <3>1, <4>1 DEF TypeInv
    <3>3. CASE \E n, read : Turns(h, n) /\ After(r, n, r.unread \ {read})
      <4>1. PICK n, read : Turns(h, n) /\ After(r, n, r.unread \ {read})
        BY <3>3
      <4>2. n \in CallerStates /\ CallerType(n)
        BY <2>0, <3>1, <4>1 DEF After, CallerType, Working
      <4>3. CallersFine
        BY <4>1, <4>2, TurnTypes
      <4>4. QED
        BY <3>1, <4>3 DEF TypeInv
    <3>4. QED
      BY <3>1, <3>2, <3>3
  <2>3. CASE Block(h)
    <3>1. r.pc = "next" /\ Leaves(h, r.resolved[c])
          /\ UNCHANGED <<local, remote, mapping, log, claim, faults>>
      BY <2>3, BlockDoes
    <3>2. CallersFine
      BY <2>0, <2>a, <3>1, LeavesTypes
    <3>3. QED
      BY <3>1, <3>2 DEF TypeInv
  <2>4. CASE Skip(h)
    <3>1. /\ r.pc = "next" /\ Leaves(h, r.resolved[c]) /\ faults' \in 0 .. MaxFaults
          /\ \/ log' = log
             \/ log' = [log EXCEPT ![c] = [status |-> "ok", id |-> KnownOf(r),
                                           payload |-> OutgoingOf(r)]]
          /\ UNCHANGED <<local, remote, mapping, claim>>
      BY <2>4, SkipDoes
    <3>2. CallersFine
      BY <2>0, <2>a, <3>1, LeavesTypes
    <3>3. [status |-> "ok", id |-> KnownOf(r), payload |-> OutgoingOf(r)] \in LogRows
      BY <2>0, <2>a, <3>1 DEF LogRows
    <3>4. log' \in [Entities -> LogRows]
      BY <2>0, <3>1, <3>3, LoggedType
    <3>5. QED
      BY <3>1, <3>2, <3>4 DEF TypeInv
  <2>5. CASE Claim(h)
    <3>1. PICK asked : asked = [claim EXCEPT ![c] = AfterClaim(@, h, Lease)]
      OBVIOUS
    <3>2. /\ r.pc = "next" /\ faults' \in 0 .. MaxFaults /\ claim' \in {claim, asked}
          /\ Steps(h, "send", r.landed) \/ Leaves(h, r.resolved[c])
          /\ UNCHANGED <<local, remote, mapping, log>>
      BY <2>5, <3>1, ClaimDoes
    <3>3. CallersFine
      <4>1. r.landed = 0 /\ r.todo # {}
        BY <2>0, <3>2 DEF CallerType
      <4>2. QED
        BY <2>0, <2>a, <3>2, <4>1, LeavesTypes, StepsTypes DEF Working
    <3>4. asked \in [Entities -> Claims]
      BY <2>0, <3>1, <3>2, AskedType
    <3>5. QED
      BY <3>2, <3>3, <3>4 DEF TypeInv
  <2>6. CASE Create(h)
    <3>1. /\ r.pc = "send" /\ faults' \in 0 .. MaxFaults
          /\ remote' = remote \/ remote' = [remote EXCEPT ![c] = Append(@, OutgoingOf(r))]
          /\ \/ Steps(h, "map", 1) \/ Steps(h, "map", Len(remote[c]) + 1)
             \/ Steps(h, "fail", r.landed)
          /\ UNCHANGED <<local, mapping, log, claim>>
      BY <2>6, CreateDoes
    <3>2. remote[c] \in Seq(Payloads) /\ Append(remote[c], OutgoingOf(r)) \in Seq(Payloads)
          /\ Len(remote[c]) + 1 \in Nat /\ Len(remote[c]) + 1 # 0
      BY <2>0, <2>a, <3>1 DEF TypeInv, Working
    <3>3. remote' \in [Entities -> Seq(Payloads)]
      BY <3>1, <3>2 DEF TypeInv
    <3>4. CallersFine
      BY <2>0, <2>a, <3>1, <3>2, StepsTypes DEF Working
    <3>5. QED
      BY <3>1, <3>3, <3>4 DEF TypeInv
  <2>7. CASE Update(h)
    <3>1. /\ r.pc = "send" /\ faults' \in 0 .. MaxFaults /\ KnownOf(r) # 0
          /\ remote' = [remote EXCEPT ![c] = [@ EXCEPT ![KnownOf(r)] = OutgoingOf(r)]]
          /\ Steps(h, "map", KnownOf(r)) \/ Steps(h, "fail", r.landed)
          /\ UNCHANGED <<local, mapping, log, claim>>
      BY <2>7, UpdateDoes
    <3>2. remote[c] \in Seq(Payloads)
      BY <2>0, <3>1 DEF TypeInv, Working
    <3>3. [remote[c] EXCEPT ![KnownOf(r)] = OutgoingOf(r)] \in Seq(Payloads)
      BY <2>a, <3>1, <3>2, Rewritten DEF Working
    <3>4. remote' \in [Entities -> Seq(Payloads)]
      BY <3>1, <3>3 DEF TypeInv
    <3>5. CallersFine
      BY <2>0, <2>a, <3>1, StepsTypes DEF Working
    <3>6. QED
      BY <3>1, <3>4, <3>5 DEF TypeInv
  <2>8. CASE UpdateTaxonomy(h)
    <3>1. /\ r.pc = "send" /\ KnownOf(r) # 0
          /\ Steps(h, "map", KnownOf(r)) \/ Steps(h, "fail", r.landed)
          /\ UNCHANGED <<local, remote, mapping, log, claim, faults>>
      BY <2>8, UpdateTaxonomyDoes
    <3>2. CallersFine
      BY <2>0, <2>a, <3>1, StepsTypes DEF Working
    <3>3. QED
      BY <3>1, <3>2 DEF TypeInv
  <2>9. CASE SendFails(h)
    <3>1. /\ r.pc = "send" /\ faults' \in 0 .. MaxFaults /\ Steps(h, "fail", r.landed)
          /\ UNCHANGED <<local, remote, mapping, log, claim>>
      BY <2>9, SendFailsDoes
    <3>2. CallersFine
      BY <2>0, <2>a, <3>1, StepsTypes DEF Working
    <3>3. QED
      BY <3>1, <3>2 DEF TypeInv
  <2>10. CASE SaveMapping(h)
    <3>1. /\ r.pc = "map" /\ faults' \in 0 .. MaxFaults /\ mapping' \in {mapping, Saved(r)}
          /\ Steps(h, "ok", r.landed) \/ Steps(h, "fail", r.landed)
          /\ UNCHANGED <<local, remote, log, claim>>
      BY <2>10, SaveMappingDoes
    <3>2. r.landed # 0 /\ r.todo # {}
      BY <2>0, <3>1 DEF CallerType, Working
    <3>3. CallersFine
      BY <2>0, <2>a, <3>1, <3>2, StepsTypes DEF Working
    <3>4. mapping' \in [Entities -> Seq(Mappings)]
      BY <2>0, <3>1, <3>2, SavedType DEF TypeInv
    <3>5. QED
      BY <3>1, <3>3, <3>4 DEF TypeInv
  <2>11. CASE LogOk(h)
    <3>1. /\ r.pc = "ok" /\ faults' \in 0 .. MaxFaults
          /\ Leaves(h, r.resolved[c]) \/ Leaves(h, r.landed) \/ Steps(h, "fail", r.landed)
          /\ \/ log' = log
             \/ log' = [log EXCEPT ![c] = [status |-> "ok", id |-> r.landed,
                                           payload |-> OutgoingOf(r)]]
          /\ UNCHANGED <<local, remote, mapping, claim>>
      BY <2>11, LogOkDoes
    <3>2. CallersFine
      BY <2>0, <2>a, <3>1, LeavesTypes, StepsTypes DEF Working
    <3>3. [status |-> "ok", id |-> r.landed, payload |-> OutgoingOf(r)] \in LogRows
      BY <2>0, <2>a, <3>1 DEF LogRows, Working
    <3>4. log' \in [Entities -> LogRows]
      BY <2>0, <3>1, <3>3, LoggedType DEF Working
    <3>5. QED
      BY <3>1, <3>2, <3>4 DEF TypeInv
  <2>12. CASE LogFailed(h)
    <3>1. PICK id \in {KnownOf(r), r.landed} :
            /\ r.pc = "fail" /\ faults' \in 0 .. MaxFaults
            /\ Leaves(h, r.resolved[c]) \/ Leaves(h, id)
            /\ \/ log' = log
               \/ log' = [log EXCEPT ![c] = [status |-> "failed", id |-> id,
                                             payload |-> OutgoingOf(r)]]
            /\ UNCHANGED <<local, remote, mapping, claim>>
      BY <2>12, LogFailedDoes
    <3>2. id \in Nat
      BY <2>a, <3>1 DEF Working
    <3>3. CallersFine
      BY <2>0, <2>a, <3>1, <3>2, LeavesTypes DEF Working
    <3>4. [status |-> "failed", id |-> id, payload |-> OutgoingOf(r)] \in LogRows
      BY <2>0, <2>a, <3>1, <3>2 DEF LogRows, Working
    <3>5. log' \in [Entities -> LogRows]
      BY <2>0, <3>1, <3>4, LoggedType DEF Working
    <3>6. QED
      BY <3>1, <3>3, <3>5 DEF TypeInv
  <2>13. CASE Die(h)
    <3>1. Turns(h, Idle) /\ faults' \in 0 .. MaxFaults
          /\ UNCHANGED <<local, remote, mapping, log, claim>>
      BY <2>13, DieDoes
    <3>2. CallersFine
      BY <3>1, Nothings, TurnTypes
    <3>3. QED
      BY <3>1, <3>2 DEF TypeInv
  <2>14. CASE SentAgain(h)
    <3>1. /\ mapping' \in [Entities -> Seq(Mappings)] /\ faults' \in 0 .. MaxFaults
          /\ UNCHANGED <<local, remote, log, claim, caller>>
      BY <2>14, SentAgainDoes
    <3>2. CallersFine
      BY <3>1 DEF TypeInv
    <3>3. QED
      BY <3>1, <3>2 DEF TypeInv
  <2>15. QED
    BY <1>4, <2>1, <2>2, <2>3, <2>4, <2>5, <2>6, <2>7, <2>8, <2>9, <2>10, <2>11, <2>12, <2>13,
       <2>14 DEF Attempt
<1>5. QED
  BY <1>1, <1>2, <1>3, <1>4 DEF Next

(* The types hold at the start.                                              *)
LEMMA TypeInit ==
  ASSUME Init
  PROVE  TypeInv
<1>1. 1 \in 1 .. MaxVersion /\ MaxFaults \in 0 .. MaxFaults
  BY BoundsAssumption
<1>2. <<>> \in Seq(Payloads) /\ <<>> \in Seq(Mappings) /\ NoClaim \in Claims
  BY DEF Claims
<1>3. QED
  BY <1>1, <1>2, Nothings DEF Init, TypeInv

(* The types, for any entities, walks, sweeps, edits and faults.             *)
LEMMA TypesStay == Spec => []TypeInv
<1>1. Init => TypeInv
  BY TypeInit
<1>2. TypeInv /\ [Next]_vars => TypeInv'
  BY TypeStep
<1>3. QED
  BY <1>1, <1>2, PTL DEF Spec

(* What is loose is some entity, and stays so.                               *)
LEMMA LooseGrows ==
  ASSUME TypeInv, [Next]_vars
  PROVE  /\ loose \subseteq loose'
         /\ loose \subseteq Entities => loose' \subseteq Entities
<1>1. ASSUME NEW h \in Holders, InHand(h) \/ At(h, "next") PROVE Current(h) \in Entities
  BY <1>1, CurrentIn, Reading DEF InHand, At, CallerType, Working
<1>2. CASE UNCHANGED loose
  BY <1>2
<1>3. ASSUME NEW h \in Holders, Claim(h)
      PROVE  /\ loose \subseteq loose'
             /\ loose \subseteq Entities => loose' \subseteq Entities
  <2>1. Current(h) \in Entities
    BY <1>1, <1>3 DEF Claim
  <2>2. loose' = loose \/ loose' = loose \cup {d \in {Current(h)} : Grants(claim[Current(h)], h) /\ Old(caller[h].age)}
    BY <1>3 DEF Claim
  <2>3. QED
    BY <2>1, <2>2
<1>4. ASSUME NEW h \in Holders, SentAgain(h)
      PROVE  /\ loose \subseteq loose'
             /\ loose \subseteq Entities => loose' \subseteq Entities
  BY <1>4, SentAgainDoes
<1>5. CASE Tick
  <2>1. loose' = loose \cup {Current(h) : h \in {g \in Holders : InHand(g) /\ Old(caller[g].age + 1)}}
    BY <1>5 DEF Tick
  <2>2. QED
    BY <1>1, <2>1
<1>6. ASSUME NEW e \in Edited, Edit(e) PROVE UNCHANGED loose
  BY <1>6 DEF Edit
<1>7. ASSUME NEW h \in Holders,
             \/ StartWalk(h) \/ StartSweep(h) \/ Reads(h) \/ Block(h) \/ Die(h)
             \/ Skip(h) \/ Create(h) \/ Update(h) \/ UpdateTaxonomy(h) \/ SendFails(h)
             \/ SaveMapping(h) \/ LogOk(h) \/ LogFailed(h)
      PROVE  UNCHANGED loose
  BY <1>7 DEF StartWalk, StartSweep, Reads, ReadMappings, ReadRecords, ReadLog, Block, Die, Skip,
              Create, Update, UpdateTaxonomy, SendFails, SaveMapping, LogOk, LogFailed
<1>8. CASE UNCHANGED vars
  BY <1>8 DEF vars
<1>9. QED
  BY <1>2, <1>3, <1>4, <1>5, <1>6, <1>7, <1>8 DEF Next, Attempt

(* Every variable has its type, a caller at work on an entity has one, and   *)
(* one that saves or logs a success knows the object it landed at: for any   *)
(* entities, walks, sweeps, edits and faults.                                *)
THEOREM TypeCorrect == Spec => []TypeOK
<1>1. TypeInv /\ loose \subseteq Entities => TypeOK
  <2> SUFFICES ASSUME TypeInv, loose \subseteq Entities PROVE TypeOK
    OBVIOUS
  <2>1. ASSUME NEW e \in Entities
        PROVE  /\ \A i \in DOMAIN remote[e] : remote[e][i] \in Payloads
               /\ \A i \in DOMAIN mapping[e] : mapping[e][i] \in Mappings
               /\ log[e] \in LogRows /\ claim[e] \in Claims
    <3>1. remote[e] \in Seq(Payloads) /\ mapping[e] \in Seq(Mappings)
      BY DEF TypeInv
    <3>2. QED
      BY <3>1 DEF TypeInv
  <2>2. ASSUME NEW h \in Holders
        PROVE  /\ caller[h].pc \in Stages
               /\ caller[h].pc \in {"next", "send", "map", "ok", "fail"} => caller[h].todo # {}
               /\ caller[h].pc \in {"map", "ok"} => caller[h].landed # 0
               /\ caller[h].age \in 0 .. Span
    BY DEF TypeInv, CallerType, CallerStates, Working
  <2>3. QED
    BY <2>1, <2>2 DEF TypeInv, TypeOK
<1>2. Init => loose \subseteq Entities
  BY DEF Init
<1>3. TypeInv /\ loose \subseteq Entities /\ [Next]_vars => (loose \subseteq Entities)'
  BY LooseGrows
<1>4. QED
  BY <1>1, <1>2, <1>3, TypesStay, PTL DEF Spec

-----------------------------------------------------------------------------
(* References.                                                               *)

\* Payload p of entity e names an object of objs for each entity e needs.
Complete(e, p, objs) ==
    /\ {r[1] : r \in p.refs} = Needs[e]
    /\ \A r \in p.refs : r[2] \in DOMAIN objs[r[1]]

\* id is none, or that of an object of e.
Points(e, id, objs) == id = 0 \/ id \in DOMAIN objs[e]

(* The ids a caller remembers are those of objects, a sweep replays whole    *)
(* payloads only, and a walk that works on an entity has all ids it needs.   *)
CallerRefs(r, objs) ==
    /\ \A e \in Entities : /\ Points(e, r.resolved[e], objs)
                           /\ r.seen[e].row # 0 => r.seen[e].id \in DOMAIN objs[e]
                           /\ Points(e, r.rows[e].id, objs)
    /\ r.task = "sweep" => \A e \in r.todo : Complete(e, r.rows[e].payload, objs)
    /\ r.landed # 0 => r.landed \in DOMAIN objs[CurrentOf(r)]
    /\ r.pc \in Working /\ r.task # "sweep" =>
         \A d \in Needs[CurrentOf(r)] : r.resolved[d] # 0

(* The log and the mappings name objects, and what is to be replayed does.   *)
RecordRefs ==
    \A e \in Entities :
        /\ \A i \in DOMAIN mapping[e] : mapping[e][i].id \in DOMAIN remote[e]
        /\ Points(e, log[e].id, remote)
        /\ log[e].status = "failed" => Complete(e, log[e].payload, remote)

RefsInv == CastComplete /\ RecordRefs /\ \A h \in Holders : CallerRefs(caller[h], remote)

\* Nothing that was there is gone.
Grown(objs, more) == \A e \in Entities : DOMAIN objs[e] \subseteq DOMAIN more[e]

(* More objects keep what was said of the ones there were.                   *)
LEMMA GrownKeeps ==
  ASSUME NEW objs, NEW more, Grown(objs, more)
  PROVE  /\ \A e \in Entities : \A id : Points(e, id, objs) => Points(e, id, more)
         /\ \A e \in Entities : \A p \in Payloads : Complete(e, p, objs) => Complete(e, p, more)
         /\ \A r \in CallerStates :
              CallerType(r) /\ CallerRefs(r, objs) => CallerRefs(r, more)
<1>1. \A e \in Entities : \A id : Points(e, id, objs) => Points(e, id, more)
  BY DEF Grown, Points
<1>2. ASSUME NEW e \in Entities, NEW p \in Payloads, Complete(e, p, objs)
      PROVE  Complete(e, p, more)
  <2>1. ASSUME NEW r \in p.refs PROVE r[2] \in DOMAIN more[r[1]]
    <3>1. r[1] \in Entities /\ r[2] \in DOMAIN objs[r[1]]
      BY <1>2, <2>1 DEF Payloads, Complete
    <3>2. QED
      BY <3>1 DEF Grown
  <2>2. QED
    BY <1>2, <2>1 DEF Complete
<1>3. ASSUME NEW r \in CallerStates, CallerType(r), CallerRefs(r, objs)
      PROVE  CallerRefs(r, more)
  <2>1. ASSUME NEW e \in Entities
        PROVE  /\ Points(e, r.resolved[e], more)
               /\ r.seen[e].row # 0 => r.seen[e].id \in DOMAIN more[e]
               /\ Points(e, r.rows[e].id, more)
    BY <1>1, <1>3 DEF CallerRefs, Grown
  <2>2. ASSUME r.task = "sweep", NEW e \in r.todo PROVE Complete(e, r.rows[e].payload, more)
    <3>1. e \in Entities /\ r.rows[e].payload \in Payloads
      BY <2>2 DEF CallerStates, LogRows
    <3>2. QED
      BY <1>2, <1>3, <2>2, <3>1 DEF CallerRefs
  <2>3. ASSUME r.landed # 0 PROVE r.landed \in DOMAIN more[CurrentOf(r)]
    <3>1. CurrentOf(r) \in Entities
      BY <1>3, <2>3, CurrentIn DEF CallerType, Working
    <3>2. QED
      BY <1>3, <2>3, <3>1 DEF CallerRefs, Grown
  <2>4. QED
    BY <1>3, <2>1, <2>2, <2>3 DEF CallerRefs
<1>4. QED
  BY <1>1, <1>2, <1>3

\* s is at the same point of the same work as r.
SameWork(r, s) ==
    /\ s \in CallerStates /\ s.task = r.task /\ s.pc = r.pc /\ s.unread = r.unread
    /\ s.todo = r.todo /\ s.data = r.data /\ s.rows = r.rows /\ s.seen = r.seen
    /\ s.resolved = r.resolved /\ s.landed = r.landed
    /\ CurrentOf(s) = CurrentOf(r) /\ OutgoingOf(s) = OutgoingOf(r)

(* The ids of a caller that does the same work are the same.                 *)
LEMMA SameRefs ==
  ASSUME NEW r, NEW s, SameWork(r, s), NEW objs, CallerRefs(r, objs)
  PROVE  CallerRefs(s, objs)
  BY DEF SameWork, CallerRefs

(* Who is over remembers nothing.                                            *)
LEMMA IdleRefs ==
  ASSUME NEW objs
  PROVE  CallerRefs(Idle, objs)
<1>1. \A e \in Entities : Idle.resolved[e] = 0 /\ Idle.seen[e].row = 0 /\ Idle.rows[e].id = 0
  BY Nothings DEF NoneSeen, NoRow
<1>2. QED
  BY <1>1, Nothings DEF CallerRefs, Points, Working

(* Who leaves an entity remembers an id of it at most.                       *)
LEMMA PassedRefs ==
  ASSUME NEW r \in CallerStates, r.todo # {}, NEW id \in Nat, NEW objs, CallerRefs(r, objs),
         Points(CurrentOf(r), id, objs)
  PROVE  CallerRefs(Passed(r, id), objs)
<1>1. PICK s : s = Passed(r, id)
  OBVIOUS
<1>2. PICK c : c = CurrentOf(r)
  OBVIOUS
<1>3. /\ s \in CallerStates /\ s.task = r.task /\ s.pc = "next"
      /\ s.todo = r.todo \ {c} /\ s.landed = 0
      /\ \A e \in Entities :
              /\ s.rows[e] = IF e = c THEN NoRow ELSE r.rows[e]
              /\ s.seen[e] = IF e = c THEN NoneSeen ELSE r.seen[e]
              /\ s.resolved[e] = IF e = c THEN id ELSE r.resolved[e]
  BY <1>1, <1>2, PassedFields
<1>4. ASSUME NEW e \in Entities
      PROVE  /\ Points(e, s.resolved[e], objs)
             /\ s.seen[e].row # 0 => s.seen[e].id \in DOMAIN objs[e]
             /\ Points(e, s.rows[e].id, objs)
  <2>1. CASE e = c
    BY <1>2, <1>3, <2>1 DEF NoRow, NoneSeen, Points
  <2>2. CASE e # c
    BY <1>3, <2>2 DEF CallerRefs
  <2>3. QED
    BY <2>1, <2>2
<1>5. ASSUME s.task = "sweep", NEW e \in s.todo PROVE Complete(e, s.rows[e].payload, objs)
  <2>1. e \in Entities /\ e # c /\ e \in r.todo
    BY <1>3, <1>5 DEF CallerStates
  <2>2. QED
    BY <1>3, <1>5, <2>1 DEF CallerRefs
<1>6. CallerRefs(s, objs)
  BY <1>3, <1>4, <1>5 DEF CallerRefs, Working
<1>7. QED
  BY <1>1, <1>6

(* Who goes to another call remembers the object it landed at.               *)
LEMMA GoesRefs ==
  ASSUME NEW r \in CallerStates, NEW stage \in Working, NEW id \in Nat, NEW objs,
         CallerRefs(r, objs), id # 0 => id \in DOMAIN objs[CurrentOf(r)],
         r.task # "sweep" => \A d \in Needs[CurrentOf(r)] : r.resolved[d] # 0
  PROVE  CallerRefs(Goes(r, stage, id), objs)
<1>1. PICK s : s = Goes(r, stage, id)
  OBVIOUS
<1>2. stage \in Stages
  BY DEF Working, Stages
<1>3. /\ s.task = r.task /\ s.pc = stage /\ s.todo = r.todo /\ s.rows = r.rows /\ s.seen = r.seen
      /\ s.resolved = r.resolved /\ s.landed = id /\ CurrentOf(s) = CurrentOf(r)
  BY <1>1, <1>2, GoesFields
<1>4. CallerRefs(s, objs)
  BY <1>3 DEF CallerRefs
<1>5. QED
  BY <1>1, <1>4

(* What is known of the current entity is an object's id, if anything.       *)
LEMMA KnownPoints ==
  ASSUME NEW r \in CallerStates, r.todo # {}, NEW objs, CallerRefs(r, objs)
  PROVE  /\ Points(CurrentOf(r), KnownOf(r), objs)
         /\ Points(CurrentOf(r), r.resolved[CurrentOf(r)], objs)
<1>1. CurrentOf(r) \in Entities
  BY CurrentIn
<1>2. QED
  BY <1>1 DEF CallerRefs, KnownOf, Points

(* What is sent names a whole cast.                                          *)
LEMMA OutgoingComplete ==
  ASSUME NEW r \in CallerStates, r.todo # {}, NEW objs, CallerRefs(r, objs),
         r.task # "sweep" => \A d \in Needs[CurrentOf(r)] : r.resolved[d] # 0
  PROVE  Complete(CurrentOf(r), OutgoingOf(r), objs)
<1>1. PICK c : c = CurrentOf(r)
  OBVIOUS
<1>2. c \in Entities /\ c \in r.todo
  BY <1>1, CurrentIn
<1>3. CASE r.task = "sweep"
  BY <1>1, <1>2, <1>3 DEF OutgoingOf, CallerRefs
<1>4. CASE r.task # "sweep"
  <2>1. PICK p : p = OutgoingOf(r)
    OBVIOUS
  <2>2. p.refs = {<<d, r.resolved[d]>> : d \in Needs[c]}
    BY <1>1, <1>4, <2>1 DEF OutgoingOf
  <2>3. \A d \in Needs[c] : r.resolved[d] \in DOMAIN objs[d]
    <3>1. Needs[c] \subseteq Entities
      BY <1>2, EntitiesAssumption
    <3>2. QED
      BY <1>1, <1>4, <3>1 DEF CallerRefs, Points
  <2>4. {q[1] : q \in p.refs} = Needs[c]
    <3>1. ASSUME NEW d \in Needs[c] PROVE \E q \in p.refs : q[1] = d
      <4>1. <<d, r.resolved[d]>> \in p.refs /\ <<d, r.resolved[d]>>[1] = d
        BY <2>2
      <4>2. QED
        BY <4>1
    <3>2. ASSUME NEW q \in p.refs PROVE q[1] \in Needs[c]
      BY <2>2
    <3>3. QED
      BY <3>1, <3>2
  <2>5. \A q \in p.refs : q[2] \in DOMAIN objs[q[1]]
    BY <2>2, <2>3
  <2>6. QED
    BY <1>1, <2>1, <2>4, <2>5 DEF Complete
<1>5. QED
  BY <1>3, <1>4

(* The callers' ids stay ids of objects when h becomes one whose are.        *)
LEMMA TurnRefs ==
  ASSUME TypeInv, NEW h \in Holders, NEW n, Turns(h, n), CallerRefs(n, remote'),
         Grown(remote, remote'), \A g \in Holders : CallerRefs(caller[g], remote)
  PROVE  \A g \in Holders : CallerRefs(caller'[g], remote')
<1>1. ASSUME NEW g \in Holders, g # h PROVE CallerRefs(caller'[g], remote')
  <2>1. /\ caller[g] \in CallerStates /\ CallerType(caller[g]) /\ Alike(caller[g], caller'[g])
    BY <1>1 DEF TypeInv, Turns
  <2>2. CallerRefs(caller[g], remote')
    BY <2>1, GrownKeeps
  <2>3. SameWork(caller[g], caller'[g])
    BY <2>1, AlikeFields DEF SameWork
  <2>4. QED
    BY <2>2, <2>3, SameRefs
<1>2. QED
  BY <1>1 DEF Turns

(* So they do when h leaves its entity,                                      *)
LEMMA LeavesRefs ==
  ASSUME TypeInv, NEW h \in Holders, NEW id \in Nat, Leaves(h, id), caller[h].todo # {},
         Points(CurrentOf(caller[h]), id, remote), UNCHANGED remote,
         \A g \in Holders : CallerRefs(caller[g], remote)
  PROVE  \A g \in Holders : CallerRefs(caller'[g], remote')
<1>1. Grown(remote, remote') /\ caller[h] \in CallerStates
  BY DEF Grown, TypeInv
<1>2. CallerRefs(Passed(caller[h], id), remote') /\ CallerRefs(Idle, remote')
  BY <1>1, PassedRefs, IdleRefs
<1>3. QED
  BY <1>1, <1>2, TurnRefs DEF Leaves

(* or goes to another call.                                                  *)
LEMMA StepsRefs ==
  ASSUME TypeInv, NEW h \in Holders, NEW stage \in Working, NEW id \in Nat,
         Steps(h, stage, id), Grown(remote, remote'),
         id # 0 => id \in DOMAIN remote'[CurrentOf(caller[h])],
         caller[h].task # "sweep" =>
           \A d \in Needs[CurrentOf(caller[h])] : caller[h].resolved[d] # 0,
         \A g \in Holders : CallerRefs(caller[g], remote)
  PROVE  \A g \in Holders : CallerRefs(caller'[g], remote')
<1>1. caller[h] \in CallerStates /\ CallerType(caller[h])
  BY DEF TypeInv
<1>2. CallerRefs(caller[h], remote')
  BY <1>1, GrownKeeps
<1>3. CallerRefs(Goes(caller[h], stage, id), remote')
  BY <1>1, <1>2, GoesRefs
<1>4. QED
  BY <1>3, TurnRefs DEF Steps

(* What is sent is complete, so a row of the log that tells of it is.        *)
LEMMA LoggedRefs ==
  ASSUME TypeInv, RecordRefs, NEW c \in Entities, NEW row, UNCHANGED <<remote, mapping>>,
         log' = log \/ log' = [log EXCEPT ![c] = row],
         Points(c, row.id, remote), row.status = "failed" => Complete(c, row.payload, remote)
  PROVE  RecordRefs'
<1>1. ASSUME NEW e \in Entities
      PROVE  /\ Points(e, log'[e].id, remote)
             /\ log'[e].status = "failed" => Complete(e, log'[e].payload, remote)
  <2>1. log'[e] = log[e] \/ (e = c /\ log'[e] = row)
    BY DEF TypeInv
  <2>2. QED
    BY <2>1 DEF RecordRefs
<1>2. QED
  BY <1>1 DEF RecordRefs, Points, Complete

(* More objects leave the records true.                                      *)
LEMMA GrownRecords ==
  ASSUME TypeInv, RecordRefs, Grown(remote, remote'), UNCHANGED <<mapping, log>>
  PROVE  RecordRefs'
<1>1. ASSUME NEW e \in Entities
      PROVE  /\ \A i \in DOMAIN mapping[e] : mapping[e][i].id \in DOMAIN remote'[e]
             /\ Points(e, log[e].id, remote')
             /\ log[e].status = "failed" => Complete(e, log[e].payload, remote')
  <2>1. log[e].payload \in Payloads
    BY DEF TypeInv, LogRows
  <2>2. QED
    BY <2>1, GrownKeeps DEF RecordRefs, Grown
<1>2. QED
  BY <1>1 DEF RecordRefs, Points, Complete

(* Writing one whole object, new or not, leaves every object whole.          *)
LEMMA WrittenCast ==
  ASSUME TypeInv, CastComplete, Grown(remote, remote'), NEW c \in Entities, NEW p \in Payloads,
         Complete(c, p, remote),
         \A e \in Entities : \A i \in DOMAIN remote'[e] :
            \/ i \in DOMAIN remote[e] /\ remote'[e][i] = remote[e][i]
            \/ e = c /\ remote'[e][i] = p
  PROVE  CastComplete'
<1>1. ASSUME NEW e \in Entities, NEW i \in DOMAIN remote'[e]
      PROVE  Complete(e, remote'[e][i], remote')
  <2>1. CASE i \in DOMAIN remote[e] /\ remote'[e][i] = remote[e][i]
    <3>1. Complete(e, remote[e][i], remote)
      BY <2>1 DEF CastComplete, Complete
    <3>2. remote[e][i] \in Payloads
      BY <2>1 DEF TypeInv
    <3>3. QED
      BY <2>1, <3>1, <3>2, GrownKeeps
  <2>2. CASE e = c /\ remote'[e][i] = p
    BY <2>2, GrownKeeps
  <2>3. QED
    BY <2>1, <2>2
<1>2. QED
  BY <1>1 DEF CastComplete, Complete

(* Every step keeps the references.                                          *)
LEMMA RefsStep ==
  ASSUME TypeInv, RefsInv, [Next]_vars
  PROVE  RefsInv'
<1> DEFINE CallersFine == \A h \in Holders : CallerRefs(caller'[h], remote')
<1>a. CallersFine /\ CastComplete' /\ RecordRefs' => RefsInv'
  BY DEF RefsInv
<1>b. UNCHANGED remote => Grown(remote, remote') /\ CastComplete'
  BY DEF Grown, RefsInv, CastComplete
<1>c. UNCHANGED <<remote, mapping, log>> => RecordRefs'
  BY DEF RefsInv, RecordRefs, Points, Complete
<1>d. UNCHANGED <<remote, caller>> => CallersFine
  BY DEF RefsInv
<1>1. CASE UNCHANGED vars
  BY <1>1, <1>a, <1>b, <1>c, <1>d DEF vars
<1>2. ASSUME NEW e \in Edited, Edit(e) PROVE RefsInv'
  BY <1>2, <1>a, <1>b, <1>c, <1>d DEF Edit
<1>3. CASE Tick
  <2>1. /\ \A h \in Holders : Aging(caller[h], caller'[h])
        /\ UNCHANGED <<local, remote, mapping, log, faults>>
    BY <1>3, TickDoes
  <2>2. ASSUME NEW h \in Holders PROVE CallerRefs(caller'[h], remote')
    <3>1. /\ caller[h] \in CallerStates /\ Aging(caller[h], caller'[h])
          /\ CallerRefs(caller[h], remote')
      BY <2>1 DEF TypeInv, RefsInv
    <3>2. CASE caller[h].pc = "idle"
      BY <3>1, <3>2, IdleRefs DEF Aging
    <3>3. CASE caller[h].pc # "idle"
      <4>1. SameWork(caller[h], caller'[h])
        BY <3>1, <3>3, AgingFields DEF SameWork
      <4>2. QED
        BY <3>1, <4>1, SameRefs
    <3>4. QED
      BY <3>2, <3>3
  <2>3. QED
    BY <2>1, <2>2, <1>a, <1>b, <1>c
<1>4. ASSUME NEW h \in Holders,
             \/ StartWalk(h) \/ StartSweep(h) \/ Reads(h) \/ Block(h) \/ Attempt(h) \/ Die(h)
      PROVE  RefsInv'
  <2> DEFINE r == caller[h]
             c == CurrentOf(r)
  <2>0. /\ r \in CallerStates /\ CallerType(r) /\ CallerRefs(r, remote)
        /\ \A g \in Holders : CallerRefs(caller[g], remote)
    BY Reading DEF RefsInv
  <2>a. r.pc \in {"next"} \cup Working =>
          /\ r.todo # {} /\ c \in Entities /\ r.resolved[c] \in Nat
          /\ r.landed \in Nat /\ KnownOf(r) \in Nat /\ OutgoingOf(r) \in Payloads
          /\ Points(c, KnownOf(r), remote) /\ Points(c, r.resolved[c], remote)
          /\ Points(c, r.landed, remote)
    <3>1. SUFFICES ASSUME r.pc \in {"next"} \cup Working
                   PROVE  /\ r.todo # {} /\ c \in Entities /\ r.resolved[c] \in Nat
                          /\ r.landed \in Nat /\ KnownOf(r) \in Nat /\ OutgoingOf(r) \in Payloads
                          /\ Points(c, KnownOf(r), remote) /\ Points(c, r.resolved[c], remote)
                          /\ Points(c, r.landed, remote)
      OBVIOUS
    <3>2. r.todo # {} /\ c \in Entities
      BY <2>0, <3>1, CurrentIn DEF CallerType
    <3>3. r.resolved[c] \in Nat /\ r.landed \in Nat
      BY <2>0, <3>2 DEF CallerStates
    <3>4. Points(c, r.landed, remote)
      BY <2>0 DEF CallerRefs, Points
    <3>5. QED
      BY <2>0, <3>2, <3>3, <3>4, KnownType, OutgoingType, KnownPoints
  <2>b. r.pc \in Working =>
          /\ r.task # "sweep" => \A d \in Needs[c] : r.resolved[d] # 0
          /\ Complete(c, OutgoingOf(r), remote)
    <3>1. r.pc \in Working /\ r.task # "sweep" => \A d \in Needs[c] : r.resolved[d] # 0
      BY <2>0 DEF CallerRefs
    <3>2. QED
      BY <2>0, <2>a, <3>1, OutgoingComplete
  <2>1. CASE StartWalk(h) \/ StartSweep(h)
    <3>1. /\ UNCHANGED <<local, remote, mapping, log, claim, faults>>
          /\ \E n : /\ Turns(h, n)
                    /\ \/ \E todo \in SUBSET Entities :
                            Begun(n, "walk", todo, {"mappings", "records"})
                       \/ Begun(n, "sweep", {}, {"mappings", "log"})
      BY <2>1, StartDoes
    <3>2. PICK n : /\ Turns(h, n)
                   /\ \/ \E todo \in SUBSET Entities :
                           Begun(n, "walk", todo, {"mappings", "records"})
                      \/ Begun(n, "sweep", {}, {"mappings", "log"})
      BY <3>1
    <3>3. CallerRefs(n, remote')
      <4>1. /\ n.resolved = Idle.resolved /\ n.seen = Idle.seen /\ n.rows = Idle.rows
            /\ n.landed = 0 /\ n.pc = "read"
            /\ n.task = "sweep" => n.todo = {}
        BY <3>2 DEF Begun
      <4>2. CallerRefs(Idle, remote')
        BY IdleRefs
      <4>3. QED
        BY <4>1, <4>2 DEF CallerRefs, Working
    <3>4. CallersFine
      BY <2>0, <3>1, <3>2, <3>3, <1>b, TurnRefs
    <3>5. QED
      BY <3>1, <3>4, <1>a, <1>b, <1>c
  <2>2. CASE ReadMappings(h)
    <3>1. /\ UNCHANGED <<local, remote, mapping, log, claim, faults>> /\ r.pc = "read"
          /\ \/ Turns(h, Idle)
             \/ \E n : /\ Turns(h, n) /\ After(r, n, r.unread \ {"mappings"}) /\ Sees(n, Index)
                       /\ n.todo = r.todo /\ n.rows = r.rows
                       /\ \A e \in Entities : n.resolved[e] \in {0, Index[e].id}
      BY <2>2, ReadMappingsDoes
    <3>2. ASSUME NEW e \in Entities
          PROVE  Points(e, Index[e].id, remote)
                 /\ (Index[e].row # 0 => Index[e].id \in DOMAIN remote[e])
      BY IndexSays DEF RefsInv, RecordRefs, Points
    <3>3. ASSUME NEW n, After(r, n, r.unread \ {"mappings"}), Sees(n, Index), n.todo = r.todo,
                 n.rows = r.rows, \A e \in Entities : n.resolved[e] \in {0, Index[e].id}
          PROVE  CallerRefs(n, remote')
      <4>1. ASSUME NEW e \in Entities
            PROVE  /\ Points(e, n.resolved[e], remote)
                   /\ n.seen[e].row # 0 => n.seen[e].id \in DOMAIN remote[e]
                   /\ Points(e, n.rows[e].id, remote)
        <5>1. Points(e, n.resolved[e], remote)
          BY <3>2, <3>3 DEF Points
        <5>2. n.seen[e] = Index[e] \/ n.seen[e] = NoneSeen
          BY <3>3 DEF Sees
        <5>3. QED
          BY <2>0, <3>2, <3>3, <5>1, <5>2 DEF NoneSeen, CallerRefs
      <4>2. n.task = r.task /\ n.landed = 0 /\ n.pc \notin Working
        BY <2>0, <3>1, <3>3 DEF After, CallerType, Working
      <4>3. QED
        BY <2>0, <3>1, <3>3, <4>1, <4>2 DEF CallerRefs
    <3>4. CallersFine
      BY <2>0, <3>1, <3>3, <1>b, IdleRefs, TurnRefs
    <3>5. QED
      BY <3>1, <3>4, <1>a, <1>b, <1>c
  <2>3. CASE ReadRecords(h)
    <3>1. /\ UNCHANGED <<local, remote, mapping, log, claim, faults>> /\ r.pc = "read"
          /\ \/ Turns(h, Idle)
             \/ \E n : /\ Turns(h, n) /\ After(r, n, {}) /\ Sees(n, r.seen)
                       /\ n.todo = r.todo /\ n.rows = r.rows /\ n.resolved = r.resolved
      BY <2>3, ReadRecordsDoes
    <3>2. ASSUME NEW n, After(r, n, {}), Sees(n, r.seen), n.todo = r.todo,
                 n.rows = r.rows, n.resolved = r.resolved
          PROVE  CallerRefs(n, remote')
      <4>1. \A e \in Entities : n.seen[e] = r.seen[e] \/ n.seen[e].row = 0
        BY <3>2 DEF Sees, NoneSeen
      <4>2. n.task = r.task /\ n.landed = 0 /\ n.pc \notin Working
        BY <2>0, <3>1, <3>2 DEF After, CallerType, Working
      <4>3. QED
        BY <2>0, <3>1, <3>2, <4>1, <4>2 DEF CallerRefs
    <3>3. CallersFine
      BY <2>0, <3>1, <3>2, <1>b, IdleRefs, TurnRefs
    <3>4. QED
      BY <3>1, <3>3, <1>a, <1>b, <1>c
  <2>4. CASE ReadLog(h)
    <3>1. /\ UNCHANGED <<local, remote, mapping, log, claim, faults>> /\ r.pc = "read"
          /\ \/ Turns(h, Idle)
             \/ \E n : /\ Turns(h, n) /\ After(r, n, r.unread \ {"log"}) /\ Sees(n, r.seen)
                       /\ n.todo = Owed /\ n.resolved = r.resolved
                       /\ \A e \in Entities : n.rows[e] = IF e \in Owed THEN log[e] ELSE NoRow
      BY <2>4, ReadLogDoes
    <3>2. ASSUME NEW n, After(r, n, r.unread \ {"log"}), Sees(n, r.seen), n.todo = Owed,
                 n.resolved = r.resolved,
                 \A e \in Entities : n.rows[e] = IF e \in Owed THEN log[e] ELSE NoRow
          PROVE  CallerRefs(n, remote')
      <4>1. \A e \in Entities : n.seen[e] = r.seen[e] \/ n.seen[e].row = 0
        BY <3>2 DEF Sees, NoneSeen
      <4>2. n.task = r.task /\ n.landed = 0 /\ n.pc \notin Working
        BY <2>0, <3>1, <3>2 DEF After, CallerType, Working
      <4>3. \A e \in Entities : Points(e, n.rows[e].id, remote)
        BY <3>2 DEF RefsInv, RecordRefs, Points, NoRow
      <4>4. \A e \in n.todo : Complete(e, n.rows[e].payload, remote)
        BY <3>2 DEF RefsInv, RecordRefs, Owed
      <4>5. QED
        BY <2>0, <3>1, <3>2, <4>1, <4>2, <4>3, <4>4 DEF CallerRefs
    <3>3. CallersFine
      BY <2>0, <3>1, <3>2, <1>b, IdleRefs, TurnRefs
    <3>4. QED
      BY <3>1, <3>3, <1>a, <1>b, <1>c
  <2>5. CASE Block(h)
    <3>1. r.pc = "next" /\ Leaves(h, r.resolved[c])
          /\ UNCHANGED <<local, remote, mapping, log, claim, faults>>
      BY <2>5, BlockDoes
    <3>2. CallersFine
      BY <2>0, <2>a, <3>1, LeavesRefs
    <3>3. QED
      BY <3>1, <3>2, <1>a, <1>b, <1>c
  <2>6. CASE Claim(h)
    <3>1. /\ r.pc = "next" /\ UNCHANGED <<local, remote, mapping, log>>
          /\ r.task # "sweep" => \A d \in Needs[c] : r.resolved[d] # 0
          /\ Steps(h, "send", r.landed) \/ Leaves(h, r.resolved[c])
      BY <2>6, ClaimDoes
    <3>2. CallersFine
      <4>1. r.landed = 0 /\ "send" \in Working
        BY <2>0, <3>1 DEF CallerType, Working
      <4>2. QED
        BY <2>0, <2>a, <3>1, <4>1, <1>b, StepsRefs, LeavesRefs
    <3>3. QED
      BY <3>1, <3>2, <1>a, <1>b, <1>c
  <2>7. CASE Skip(h)
    <3>1. PICK row : row = [status |-> "ok", id |-> KnownOf(r), payload |-> OutgoingOf(r)]
      OBVIOUS
    <3>2. /\ r.pc = "next" /\ Leaves(h, r.resolved[c])
          /\ log' = log \/ log' = [log EXCEPT ![c] = row]
          /\ UNCHANGED <<local, remote, mapping, claim>>
      BY <2>7, <3>1, SkipDoes
    <3>3. CallersFine
      BY <2>0, <2>a, <3>2, LeavesRefs
    <3>4. row.id = KnownOf(r) /\ row.status # "failed"
      BY <3>1
    <3>5. RecordRefs'
      BY <2>a, <3>2, <3>4, LoggedRefs DEF RefsInv
    <3>6. QED
      BY <3>2, <3>3, <3>5, <1>a, <1>b
  <2>8. CASE Create(h)
    <3>1. PICK p : p = OutgoingOf(r)
      OBVIOUS
    <3>2. /\ r.pc = "send" /\ UNCHANGED <<local, mapping, log, claim>>
          /\ \/ remote[c] # <<>> /\ Steps(h, "map", 1) /\ UNCHANGED remote
             \/ /\ remote' = [remote EXCEPT ![c] = Append(@, p)]
                /\ Steps(h, "map", Len(remote[c]) + 1) \/ Steps(h, "fail", r.landed)
      BY <2>8, <3>1, CreateDoes
    <3>3. r.pc \in Working /\ r.landed = 0 /\ "map" \in Working /\ "fail" \in Working
      BY <2>0, <3>2 DEF CallerType, Working
    <3>4. p \in Payloads /\ Complete(c, p, remote) /\ c \in Entities
      BY <2>a, <2>b, <3>1, <3>3
    <3>5. remote[c] \in Seq(Payloads) /\ remote \in [Entities -> Seq(Payloads)]
      BY <3>4 DEF TypeInv
    <3>6. CASE remote[c] # <<>> /\ Steps(h, "map", 1) /\ UNCHANGED remote
      <4>1. 1 \in DOMAIN remote[c]
        BY <3>5, <3>6
      <4>2. CallersFine
        BY <2>0, <2>b, <3>3, <3>6, <4>1, <1>b, StepsRefs
      <4>3. QED
        BY <3>2, <3>6, <4>2, <1>a, <1>b, <1>c
    <3>7. CASE /\ remote' = [remote EXCEPT ![c] = Append(@, p)]
               /\ Steps(h, "map", Len(remote[c]) + 1) \/ Steps(h, "fail", r.landed)
      <4>1. /\ remote'[c] = Append(remote[c], p)
            /\ \A e \in Entities \ {c} : remote'[e] = remote[e]
        BY <3>4, <3>5, <3>7
      <4>2. /\ DOMAIN remote'[c] = 1 .. Len(remote[c]) + 1 /\ DOMAIN remote[c] = 1 .. Len(remote[c])
            /\ Len(remote[c]) \in Nat /\ remote'[c][Len(remote[c]) + 1] = p
            /\ \A j \in DOMAIN remote[c] : remote'[c][j] = remote[c][j]
        BY <3>4, <3>5, <4>1, Appended
      <4>3. Grown(remote, remote')
        BY <4>1, <4>2 DEF Grown
      <4>4. CastComplete'
        <5>1. \A e \in Entities : \A i \in DOMAIN remote'[e] :
                \/ i \in DOMAIN remote[e] /\ remote'[e][i] = remote[e][i]
                \/ e = c /\ remote'[e][i] = p
          BY <4>1, <4>2
        <5>2. QED
          BY <3>4, <4>3, <5>1, WrittenCast DEF RefsInv
      <4>5. Len(remote[c]) + 1 \in Nat /\ Len(remote[c]) + 1 \in DOMAIN remote'[c]
        BY <4>2
      <4>6. CallersFine
        <5>1. CASE Steps(h, "map", Len(remote[c]) + 1)
          BY <2>0, <2>b, <3>3, <4>3, <4>5, <5>1, StepsRefs
        <5>2. CASE Steps(h, "fail", r.landed)
          BY <2>0, <2>b, <3>3, <4>3, <5>2, StepsRefs
        <5>3. QED
          BY <3>7, <5>1, <5>2
      <4>7. RecordRefs'
        BY <3>2, <4>3, GrownRecords DEF RefsInv
      <4>8. QED
        BY <4>4, <4>6, <4>7, <1>a
    <3>8. QED
      BY <3>2, <3>6, <3>7
  <2>9. CASE Update(h)
    <3>1. PICK p, k : p = OutgoingOf(r) /\ k = KnownOf(r)
      OBVIOUS
    <3>2. /\ r.pc = "send" /\ k # 0 /\ UNCHANGED <<local, mapping, log, claim>>
          /\ remote' = [remote EXCEPT ![c] = [@ EXCEPT ![k] = p]]
          /\ Steps(h, "map", k) \/ Steps(h, "fail", r.landed)
      BY <2>9, <3>1, UpdateDoes
    <3>3. r.pc \in Working /\ r.landed = 0 /\ "map" \in Working /\ "fail" \in Working
      BY <2>0, <3>2 DEF CallerType, Working
    <3>4. /\ p \in Payloads /\ Complete(c, p, remote) /\ c \in Entities
          /\ k \in Nat /\ k \in DOMAIN remote[c]
      BY <2>a, <2>b, <3>1, <3>2, <3>3 DEF Points
    <3>5. remote[c] \in Seq(Payloads) /\ remote \in [Entities -> Seq(Payloads)]
      BY <3>4 DEF TypeInv
    <3>6. /\ remote'[c] = [remote[c] EXCEPT ![k] = p]
          /\ \A e \in Entities \ {c} : remote'[e] = remote[e]
      BY <3>2, <3>4, <3>5
    <3>7. /\ DOMAIN remote'[c] = DOMAIN remote[c]
          /\ \A j \in DOMAIN remote[c] : remote'[c][j] = IF j = k THEN p ELSE remote[c][j]
      BY <3>4, <3>5, <3>6, Rewritten
    <3>8. Grown(remote, remote')
      BY <3>6, <3>7 DEF Grown
    <3>9. CastComplete'
      <4>1. \A e \in Entities : \A i \in DOMAIN remote'[e] :
              \/ i \in DOMAIN remote[e] /\ remote'[e][i] = remote[e][i]
              \/ e = c /\ remote'[e][i] = p
        BY <3>6, <3>7
      <4>2. QED
        BY <3>4, <3>8, <4>1, WrittenCast DEF RefsInv
    <3>10. CallersFine
      <4>1. CASE Steps(h, "map", k)
        <5>1. k \in DOMAIN remote'[c]
          BY <3>4, <3>7
        <5>2. QED
          BY <2>0, <2>b, <3>3, <3>4, <3>8, <4>1, <5>1, StepsRefs
      <4>2. CASE Steps(h, "fail", r.landed)
        BY <2>0, <2>b, <3>3, <3>8, <4>2, StepsRefs
      <4>3. QED
        BY <3>2, <4>1, <4>2
    <3>11. RecordRefs'
      BY <3>2, <3>8, GrownRecords DEF RefsInv
    <3>12. QED
      BY <3>9, <3>10, <3>11, <1>a
  <2>10. CASE UpdateTaxonomy(h)
    <3>1. /\ r.pc = "send" /\ KnownOf(r) # 0
          /\ Steps(h, "map", KnownOf(r)) \/ Steps(h, "fail", r.landed)
          /\ UNCHANGED <<local, remote, mapping, log, claim, faults>>
      BY <2>10, UpdateTaxonomyDoes
    <3>2. r.pc \in Working /\ r.landed = 0 /\ "map" \in Working /\ "fail" \in Working
      BY <2>0, <3>1 DEF CallerType, Working
    <3>3. KnownOf(r) \in Nat /\ KnownOf(r) \in DOMAIN remote[c]
      BY <2>a, <3>1, <3>2 DEF Points
    <3>4. CallersFine
      <4>1. CASE Steps(h, "map", KnownOf(r))
        BY <2>0, <2>b, <3>1, <3>2, <3>3, <4>1, <1>b, StepsRefs
      <4>2. CASE Steps(h, "fail", r.landed)
        BY <2>0, <2>b, <3>1, <3>2, <4>2, <1>b, StepsRefs
      <4>3. QED
        BY <3>1, <4>1, <4>2
    <3>5. QED
      BY <3>1, <3>4, <1>a, <1>b, <1>c
  <2>11. CASE SendFails(h) \/ SaveMapping(h)
    <3>1. /\ r.pc \in {"send", "map"}
          /\ Steps(h, "ok", r.landed) \/ Steps(h, "fail", r.landed)
          /\ UNCHANGED <<local, remote, log, claim>>
      BY <2>11, SendFailsDoes, SaveMappingDoes
    <3>2. r.pc \in Working /\ "ok" \in Working /\ "fail" \in Working
      BY <3>1 DEF Working
    <3>3. r.landed \in Nat /\ (r.landed # 0 => r.landed \in DOMAIN remote[c])
      BY <2>a, <3>2 DEF Points
    <3>4. CallersFine
      <4>a. Grown(remote, remote') /\ (r.landed # 0 => r.landed \in DOMAIN remote'[c])
        BY <3>1, <3>3, <1>b
      <4>1. CASE Steps(h, "ok", r.landed)
        BY <2>0, <2>b, <3>2, <3>3, <4>a, <4>1, StepsRefs
      <4>2. CASE Steps(h, "fail", r.landed)
        BY <2>0, <2>b, <3>2, <3>3, <4>a, <4>2, StepsRefs
      <4>3. QED
        BY <3>1, <4>1, <4>2
    <3>5. RecordRefs'
      <4>1. CASE SendFails(h)
        BY <4>1, <1>c, SendFailsDoes
      <4>2. CASE SaveMapping(h)
        <5>1. r.landed # 0 /\ r.todo # {} /\ mapping' \in {mapping, Saved(r)}
          BY <2>0, <2>a, <3>2, <4>2, SaveMappingDoes DEF CallerType
        <5>2. PICK new : new = [id |-> r.landed, hash |-> OutgoingOf(r)]
          OBVIOUS
        <5>3. /\ Saved(r) \in [Entities -> Seq(Mappings)] /\ new \in Mappings
              /\ \A e \in Entities \ {c} : Saved(r)[e] = mapping[e]
              /\ r.seen[c].row = 0 => Saved(r)[c] = Append(mapping[c], new)
              /\ r.seen[c].row # 0 => Saved(r)[c] = [mapping[c] EXCEPT ![r.seen[c].row] = new]
          BY <2>0, <5>1, <5>2, SavedType
        <5>4. mapping[c] \in Seq(Mappings) /\ new.id \in DOMAIN remote[c]
          BY <2>a, <3>2, <3>3, <5>1, <5>2 DEF TypeInv
        <5>5. \A i \in DOMAIN Saved(r)[c] : \/ Saved(r)[c][i] = new
                                            \/ i \in DOMAIN mapping[c] /\ Saved(r)[c][i] = mapping[c][i]
          <6>1. CASE r.seen[c].row = 0
            BY <5>3, <5>4, <6>1, Appended
          <6>2. CASE r.seen[c].row # 0
            BY <5>3, <5>4, <6>2, Rewritten
          <6>3. QED
            BY <6>1, <6>2
        <5>6. ASSUME NEW e \in Entities, NEW i \in DOMAIN mapping'[e]
              PROVE  mapping'[e][i].id \in DOMAIN remote[e]
          BY <5>1, <5>3, <5>4, <5>5 DEF RefsInv, RecordRefs
        <5>7. QED
          BY <3>1, <5>6 DEF RefsInv, RecordRefs, Points, Complete
      <4>3. QED
        BY <2>11, <4>1, <4>2
    <3>6. QED
      BY <3>1, <3>4, <3>5, <1>a, <1>b
  <2>12. CASE LogOk(h)
    <3>1. PICK row : row = [status |-> "ok", id |-> r.landed, payload |-> OutgoingOf(r)]
      OBVIOUS
    <3>2. /\ r.pc = "ok" /\ UNCHANGED <<local, remote, mapping, claim>>
          /\ Leaves(h, r.resolved[c]) \/ Leaves(h, r.landed) \/ Steps(h, "fail", r.landed)
          /\ log' = log \/ log' = [log EXCEPT ![c] = row]
      BY <2>12, <3>1, LogOkDoes
    <3>3. r.pc \in Working /\ "fail" \in Working
      BY <3>2 DEF Working
    <3>4. r.landed # 0 => r.landed \in DOMAIN remote[c]
      BY <2>a, <3>3 DEF Points
    <3>5. CallersFine
      <4>1. CASE Leaves(h, r.resolved[c]) \/ Leaves(h, r.landed)
        BY <2>0, <2>a, <3>2, <3>3, <4>1, LeavesRefs
      <4>2. CASE Steps(h, "fail", r.landed)
        BY <2>0, <2>a, <2>b, <3>2, <3>3, <3>4, <4>2, <1>b, StepsRefs
      <4>3. QED
        BY <3>2, <4>1, <4>2
    <3>6. row.id = r.landed /\ row.status # "failed"
      BY <3>1
    <3>7. RecordRefs'
      BY <2>a, <3>2, <3>3, <3>6, LoggedRefs DEF RefsInv
    <3>8. QED
      BY <3>2, <3>5, <3>7, <1>a, <1>b
  <2>13. CASE LogFailed(h)
    <3>1. PICK id \in {KnownOf(r), r.landed} :
            /\ r.pc = "fail" /\ UNCHANGED <<local, remote, mapping, claim>>
            /\ Leaves(h, r.resolved[c]) \/ Leaves(h, id)
            /\ \/ log' = log
               \/ log' = [log EXCEPT ![c] = [status |-> "failed", id |-> id,
                                             payload |-> OutgoingOf(r)]]
      BY <2>13, LogFailedDoes
    <3>2. PICK row : row = [status |-> "failed", id |-> id, payload |-> OutgoingOf(r)]
      OBVIOUS
    <3>3. r.pc \in Working
      BY <3>1 DEF Working
    <3>4. id \in Nat /\ Points(c, id, remote)
      BY <2>a, <3>1, <3>3
    <3>5. CallersFine
      BY <2>0, <2>a, <3>1, <3>3, <3>4, LeavesRefs
    <3>6. Points(c, row.id, remote) /\ Complete(c, row.payload, remote)
      BY <2>b, <3>2, <3>3, <3>4
    <3>7. RecordRefs'
      BY <2>a, <3>1, <3>2, <3>3, <3>6, LoggedRefs DEF RefsInv
    <3>8. QED
      BY <3>1, <3>5, <3>7, <1>a, <1>b
  <2>14. CASE Die(h)
    <3>1. Turns(h, Idle) /\ UNCHANGED <<local, remote, mapping, log, claim>>
      BY <2>14, DieDoes
    <3>2. CallersFine
      BY <2>0, <3>1, <1>b, IdleRefs, TurnRefs
    <3>3. QED
      BY <3>1, <3>2, <1>a, <1>b, <1>c
  <2>15. CASE SentAgain(h)
    <3>1. /\ r.pc = "map" /\ c \in Entities /\ r.landed # 0
          /\ UNCHANGED <<local, remote, log, claim, caller>>
          /\ \A e \in Entities \ {c} : mapping'[e] = mapping[e]
      BY <2>15, SentAgainDoes
    <3>2. PICK new \in Mappings : new.id = r.landed /\ mapping'[c] = Append(mapping[c], new)
      BY <2>15, SentAgainDoes
    <3>3. new.id \in DOMAIN remote[c] /\ mapping[c] \in Seq(Mappings)
      BY <2>0, <3>1, <3>2 DEF CallerRefs, TypeInv
    <3>4. \A i \in DOMAIN mapping'[c] :
            mapping'[c][i] = new \/ (i \in DOMAIN mapping[c] /\ mapping'[c][i] = mapping[c][i])
      BY <3>2, <3>3, Appended
    <3>5. ASSUME NEW e \in Entities, NEW i \in DOMAIN mapping'[e]
          PROVE  mapping'[e][i].id \in DOMAIN remote[e]
      BY <3>1, <3>3, <3>4 DEF RefsInv, RecordRefs
    <3>6. RecordRefs'
      BY <3>1, <3>5 DEF RefsInv, RecordRefs, Points, Complete
    <3>7. QED
      BY <3>1, <3>6, <1>a, <1>b, <1>d
  <2>16. QED
    BY <1>4, <2>1, <2>2, <2>3, <2>4, <2>5, <2>6, <2>7, <2>8, <2>9, <2>10, <2>11, <2>12, <2>13,
       <2>14, <2>15 DEF Attempt, Reads
<1>5. QED
  BY <1>1, <1>2, <1>3, <1>4 DEF Next

(* Nothing is remembered at the start.                                       *)
LEMMA RefsInit ==
  ASSUME Init
  PROVE  RefsInv
<1>1. CastComplete
  BY DEF Init, CastComplete
<1>2. RecordRefs
  BY DEF Init, RecordRefs, NoRow, Points
<1>3. \A h \in Holders : CallerRefs(caller[h], remote)
  BY IdleRefs DEF Init
<1>4. QED
  BY <1>1, <1>2, <1>3 DEF RefsInv

(* The references, for any entities, walks, sweeps, edits and faults.        *)
LEMMA RefsStay == Spec => []RefsInv
<1>1. Init => RefsInv
  BY RefsInit
<1>2. TypeInv /\ RefsInv /\ [Next]_vars => RefsInv'
  BY RefsStep
<1>3. QED
  BY <1>1, <1>2, TypesStay, PTL DEF Spec

(* No session is ever sent with part of its cast, nor replayed with one that *)
(* is gone: every object names an object for each entity it needs.  Whatever *)
(* fails, however walks and sweeps overlap and whatever their leases are     *)
(* worth.                                                                    *)
THEOREM NobodyIsLeftOut == Spec => []CastComplete
<1>1. RefsInv => CastComplete
  BY DEF RefsInv
<1>2. QED
  BY <1>1, RefsStay, PTL

-----------------------------------------------------------------------------
(* Leases.                                                                   *)

\* The entities a caller in state r may still ask for the lease of.
Ahead(r) ==
    IF r.pc = "idle" THEN {} ELSE IF r.pc = "read" THEN Entities
    ELSE IF r.pc = "next" THEN r.todo ELSE r.todo \ {CurrentOf(r)}

\* It has listed the mappings.
Listed(r) == r.pc # "idle" /\ "mappings" \notin r.unread

\* h holds what it has in hand since it was granted, half a lease into its life at
\* most, and before that nothing of what is ahead.
CallerHolds(r, h, cl, lo) ==
    /\ r.pc \in {"send", "map"} /\ CurrentOf(r) \notin lo =>
         /\ HeldBy(cl[CurrentOf(r)], h)
         /\ cl[CurrentOf(r)].left + r.age >= Lease
         /\ ~ Old(r.age)
    /\ \A e \in Ahead(r) : ~ HeldBy(cl[e], h)

\* Who lists the mappings and misses one finds the entity leased until half a
\* lease of its life is over; who sends has seen the one there is.
CallerSees(r, cl, map, lo) ==
    /\ Listed(r) => \A e \in Ahead(r) \ lo :
                      r.seen[e].row # Len(map[e]) => Old(cl[e].left + r.age)
    /\ r.pc \in {"send", "map"} /\ CurrentOf(r) \notin lo =>
         r.seen[CurrentOf(r)].row = Len(map[CurrentOf(r)])

CallerLease(r, h, cl, map, lo) == CallerHolds(r, h, cl, lo) /\ CallerSees(r, cl, map, lo)

LeaseInv == NeverWedged /\ \A h \in Holders : CallerLease(caller[h], h, claim, mapping, loose)

(* Who is over holds nothing it needs.                                       *)
LEMMA IdleLease ==
  ASSUME NEW h, NEW cl, NEW map, NEW lo
  PROVE  CallerLease(Idle, h, cl, map, lo)
  BY Nothings DEF CallerLease, CallerHolds, CallerSees, Ahead, Listed, Working

(* The same work needs the same leases.                                      *)
LEMMA SameLease ==
  ASSUME NEW r, NEW s, SameWork(r, s), s.age = r.age, NEW h, NEW cl, NEW map, NEW lo,
         CallerLease(r, h, cl, map, lo)
  PROVE  CallerLease(s, h, cl, map, lo)
<1>1. Ahead(s) = Ahead(r) /\ (Listed(s) <=> Listed(r))
  BY DEF SameWork, Ahead, Listed
<1>2. QED
  BY <1>1 DEF SameWork, CallerLease, CallerHolds, CallerSees

(* What has become loose asks for less.                                      *)
LEMMA LooserLease ==
  ASSUME NEW r, NEW h, NEW cl, NEW map, NEW lo, CallerLease(r, h, cl, map, lo),
         NEW lo2, lo \subseteq lo2
  PROVE  CallerLease(r, h, cl, map, lo2)
  BY DEF CallerLease, CallerHolds, CallerSees

(* Who leaves an entity needs what is ahead, at leases that count.           *)
LEMMA PassedLease ==
  ASSUME NEW r \in CallerStates, CallerType(r), r.pc \in {"next"} \cup Working,
         NEW id \in Nat, NEW h, NEW cl, NEW cl2, NEW map, NEW lo, CallerLease(r, h, cl, map, lo),
         \A e \in Entities \ {CurrentOf(r)} : cl2[e] = cl[e]
  PROVE  CallerLease(Passed(r, id), h, cl2, map, lo)
<1>1. PICK s : s = Passed(r, id)
  OBVIOUS
<1>2. PICK c : c = CurrentOf(r)
  OBVIOUS
<1>3. r.todo # {}
  BY DEF CallerType
<1>4. /\ s.pc = "next" /\ s.unread = r.unread /\ s.todo = r.todo \ {c} /\ s.age = r.age
      /\ \A e \in Entities : s.seen[e] = IF e = c THEN NoneSeen ELSE r.seen[e]
  BY <1>1, <1>2, <1>3, PassedFields
<1>5. Ahead(s) = r.todo \ {c} /\ Ahead(s) \subseteq Ahead(r) /\ Ahead(s) \subseteq Entities
      /\ (Listed(s) => Listed(r)) /\ c \notin Ahead(s)
  BY <1>2, <1>4 DEF Ahead, Listed, Working, CallerStates
<1>6. \A e \in Ahead(s) : cl2[e] = cl[e] /\ s.seen[e] = r.seen[e]
  BY <1>2, <1>4, <1>5
<1>7. CallerHolds(s, h, cl2, lo)
  BY <1>4, <1>5, <1>6 DEF CallerLease, CallerHolds, Working
<1>8. CallerSees(s, cl2, map, lo)
  BY <1>4, <1>5, <1>6 DEF CallerLease, CallerSees
<1>9. QED
  BY <1>1, <1>7, <1>8 DEF CallerLease

(* At another call the same leases count.                                    *)
LEMMA GoesLease ==
  ASSUME NEW r \in CallerStates, r.pc \in Working, NEW stage \in Working, NEW id \in Nat,
         stage \in {"send", "map"} => r.pc \in {"send", "map"},
         NEW h, NEW cl, NEW map, NEW lo, CallerLease(r, h, cl, map, lo)
  PROVE  CallerLease(Goes(r, stage, id), h, cl, map, lo)
<1>1. PICK s : s = Goes(r, stage, id)
  OBVIOUS
<1>2. stage \in Stages
  BY DEF Working, Stages
<1>3. /\ s.pc = stage /\ s.unread = r.unread /\ s.todo = r.todo /\ s.seen = r.seen
      /\ s.age = r.age /\ CurrentOf(s) = CurrentOf(r)
  BY <1>1, <1>2, GoesFields
<1>4. Ahead(s) = Ahead(r) /\ (Listed(s) <=> Listed(r))
  BY <1>3 DEF Ahead, Listed, Working
<1>5. CallerLease(s, h, cl, map, lo)
  BY <1>3, <1>4 DEF CallerLease, CallerHolds, CallerSees
<1>6. QED
  BY <1>1, <1>5

(* The leases count on when h turns into one that has what it needs.         *)
LEMMA TurnLease ==
  ASSUME TypeInv, NEW h \in Holders, NEW n, Turns(h, n), NEW lo,
         CallerLease(n, h, claim', mapping', lo),
         \A g \in Holders \ {h} : CallerLease(caller[g], g, claim', mapping', lo)
  PROVE  \A g \in Holders : CallerLease(caller'[g], g, claim', mapping', lo)
<1>1. ASSUME NEW g \in Holders, g # h PROVE CallerLease(caller'[g], g, claim', mapping', lo)
  <2>1. /\ caller[g] \in CallerStates /\ Alike(caller[g], caller'[g])
        /\ CallerLease(caller[g], g, claim', mapping', lo)
    BY <1>1 DEF TypeInv, Turns
  <2>2. SameWork(caller[g], caller'[g]) /\ caller'[g].age = caller[g].age
    BY <2>1, AlikeFields DEF SameWork
  <2>3. QED
    BY <2>1, <2>2, SameLease
<1>2. QED
  BY <1>1 DEF Turns

(* So they do when nothing else changes and h leaves its entity,             *)
LEMMA LeavesLease ==
  ASSUME TypeInv, NEW h \in Holders, NEW id \in Nat, Leaves(h, id),
         caller[h].pc \in {"next"} \cup Working, UNCHANGED <<claim, mapping>>,
         \A g \in Holders : CallerLease(caller[g], g, claim, mapping, loose)
  PROVE  \A g \in Holders : CallerLease(caller'[g], g, claim', mapping', loose)
<1>1. caller[h] \in CallerStates /\ CallerType(caller[h])
  BY DEF TypeInv
<1>2. CallerLease(Passed(caller[h], id), h, claim', mapping', loose)
  BY <1>1, PassedLease
<1>3. CallerLease(Idle, h, claim', mapping', loose)
  BY IdleLease
<1>4. QED
  BY <1>2, <1>3, TurnLease DEF Leaves

(* or goes to another call.                                                  *)
LEMMA StepsLease ==
  ASSUME TypeInv, NEW h \in Holders, NEW stage \in Working, NEW id \in Nat,
         Steps(h, stage, id), caller[h].pc \in Working, UNCHANGED <<claim, mapping>>,
         stage \in {"send", "map"} => caller[h].pc \in {"send", "map"},
         \A g \in Holders : CallerLease(caller[g], g, claim, mapping, loose)
  PROVE  \A g \in Holders : CallerLease(caller'[g], g, claim', mapping', loose)
<1>1. caller[h] \in CallerStates
  BY DEF TypeInv
<1>2. CallerLease(Goes(caller[h], stage, id), h, claim', mapping', loose)
  BY <1>1, GoesLease
<1>3. QED
  BY <1>2, TurnLease DEF Steps

(* A request by h for c leaves what the others hold and wait for.            *)
LEMMA AskedKeeps ==
  ASSUME TypeInv, NEW h \in Holders, NEW g \in Holders, g # h, NEW c \in Entities,
         NEW asked, asked = [claim EXCEPT ![c] = AfterClaim(@, h, Lease)],
         CallerLease(caller[g], g, claim, mapping, loose)
  PROVE  CallerLease(caller[g], g, asked, mapping, loose)
<1> DEFINE r == caller[g]
<1>1. /\ r \in CallerStates /\ CallerType(r) /\ r.age \in 0 .. Span
      /\ Lease \in Nat /\ Lease # 0
  BY BoundsAssumption DEF TypeInv, CallerStates
<1>2. /\ asked[c] = AfterClaim(claim[c], h, Lease)
      /\ \A e \in Entities \ {c} : asked[e] = claim[e]
  BY AskedType
<1>3. claim[c].left \in Nat /\ (claim[c].left # 0 => asked[c] = claim[c])
      /\ (claim[c].left = 0 => asked[c] = [holder |-> h, left |-> Lease])
  BY <1>2 DEF TypeInv, Claims, NoClaim, AfterClaim, Live
<1>4. ASSUME NEW e \in Entities
      PROVE  /\ HeldBy(claim[e], g) => asked[e] = claim[e]
             /\ ~ HeldBy(claim[e], g) => ~ HeldBy(asked[e], g)
             /\ claim[e].left \in Nat /\ asked[e].left \in Nat /\ claim[e].left <= asked[e].left
  <2>1. CASE e = c /\ claim[c].left = 0
    BY <1>1, <1>3, <2>1 DEF HeldBy, Live
  <2>2. CASE e # c \/ claim[c].left # 0
    <3>1. asked[e] = claim[e] /\ claim[e].left \in Nat
      BY <1>2, <1>3, <2>2 DEF TypeInv, Claims, NoClaim
    <3>2. QED
      BY <3>1
  <2>3. QED
    BY <2>1, <2>2
<1>5. r.pc \in {"send", "map"} => CurrentOf(r) \in Entities
  BY <1>1, CurrentIn DEF CallerType, Working
<1>6. Ahead(r) \subseteq Entities
  BY <1>1 DEF Ahead, CallerStates
<1>7. CallerHolds(r, g, asked, loose)
  BY <1>4, <1>5, <1>6 DEF CallerLease, CallerHolds
<1>8. CallerSees(r, asked, mapping, loose)
  <2>1. ASSUME NEW e \in Ahead(r), Old(claim[e].left + r.age)
        PROVE  Old(asked[e].left + r.age)
    <3>1. /\ claim[e].left \in Nat /\ asked[e].left \in Nat /\ claim[e].left <= asked[e].left
          /\ r.age \in Nat /\ Span \in Nat
      BY <1>1, <1>4, <1>6, BoundsAssumption
    <3>2. QED
      BY <1>1, <2>1, <3>1 DEF Old
  <2>2. QED
    BY <2>1 DEF CallerLease, CallerSees
<1>9. QED
  BY <1>7, <1>8 DEF CallerLease

(* Who is granted what it did not hold holds it from now on, and has seen    *)
(* the mapping there is: a lease that it finds free, and that kept it from   *)
(* the mapping, lasted until half a lease of its life was over.              *)
LEMMA GrantedLease ==
  ASSUME TypeInv, NEW h \in Holders, caller[h].pc = "next",
         CallerLease(caller[h], h, claim, mapping, loose), Listed(caller[h]),
         NEW c, c = CurrentOf(caller[h]), Grants(claim[c], h),
         NEW asked, asked = [claim EXCEPT ![c] = AfterClaim(@, h, Lease)],
         NEW lo, loose \subseteq lo, Old(caller[h].age) => c \in lo
  PROVE  CallerLease(Goes(caller[h], "send", 0), h, asked, mapping, lo)
<1> DEFINE r == caller[h]
<1>1. /\ r \in CallerStates /\ CallerType(r) /\ r.age \in 0 .. Span
      /\ Lease \in Nat /\ Lease # 0 /\ Span \in Nat
  BY BoundsAssumption DEF TypeInv, CallerStates
<1>2. c \in r.todo /\ c \in Entities /\ r.todo # {}
  BY <1>1, CurrentIn DEF CallerType
<1>3. /\ asked[c] = AfterClaim(claim[c], h, Lease)
      /\ \A e \in Entities \ {c} : asked[e] = claim[e]
  BY <1>2, AskedType
<1>4. Ahead(r) = r.todo
  BY DEF Ahead
<1>5. claim[c].left = 0
  <2>1. ~ HeldBy(claim[c], h) /\ claim[c].left \in Nat
    BY <1>2, <1>4 DEF CallerLease, CallerHolds, TypeInv, Claims, NoClaim
  <2>2. QED
    BY <2>1 DEF HeldBy, Grants, Live
<1>6. asked[c] = [holder |-> h, left |-> Lease]
  BY <1>3, <1>5 DEF AfterClaim, Live
<1>7. c \notin lo => r.seen[c].row = Len(mapping[c]) /\ ~ Old(r.age)
  <2>1. claim[c].left + r.age = r.age
    BY <1>1, <1>5
  <2>2. QED
    BY <1>2, <1>4, <2>1 DEF CallerLease, CallerSees
<1>8. PICK s : s = Goes(r, "send", 0)
  OBVIOUS
<1>9. /\ s.pc = "send" /\ s.unread = r.unread /\ s.todo = r.todo /\ s.seen = r.seen
      /\ s.age = r.age /\ CurrentOf(s) = c
  <2>1. "send" \in Stages /\ 0 \in Nat
    BY DEF Stages
  <2>2. QED
    BY <1>1, <1>8, <2>1, GoesFields
<1>10. Ahead(s) = r.todo \ {c} /\ r.todo \subseteq Entities
  BY <1>1, <1>9 DEF Ahead, CallerStates
<1>11. HeldBy(asked[c], h) /\ asked[c].left + s.age >= Lease
  BY <1>1, <1>6, <1>9 DEF HeldBy, Live
<1>12. \A e \in Ahead(s) : asked[e] = claim[e] /\ e \in Ahead(r)
  BY <1>3, <1>4, <1>10
<1>13. CallerHolds(s, h, asked, lo)
  BY <1>7, <1>9, <1>11, <1>12 DEF CallerLease, CallerHolds
<1>14. CallerSees(s, asked, mapping, lo)
  BY <1>7, <1>9, <1>12 DEF CallerLease, CallerSees
<1>15. QED
  BY <1>8, <1>13, <1>14 DEF CallerLease

(* A tick takes from a lease what it adds to an age: no lease of what is in  *)
(* hand runs out before half a lease of its holder's life is over.           *)
LEMMA TickLease ==
  ASSUME TypeInv, NEW h \in Holders, NEW s, Aging(caller[h], s),
         CallerLease(caller[h], h, claim, mapping, loose),
         NEW aged, aged = [e \in Entities |-> Aged(claim[e])], NEW lo, loose \subseteq lo,
         caller[h].pc \in {"send", "map"} /\ Old(caller[h].age + 1) => CurrentOf(caller[h]) \in lo
  PROVE  CallerLease(s, h, aged, mapping, lo)
<1> DEFINE r == caller[h]
<1>1. /\ r \in CallerStates /\ CallerType(r) /\ r.age \in Nat
      /\ Lease \in Nat /\ Lease # 0
  BY BoundsAssumption DEF TypeInv, CallerStates
<1>2. CASE r.pc = "idle"
  BY <1>2, IdleLease DEF Aging
<1>3. CASE r.pc # "idle"
  <2>1. /\ s.pc = r.pc /\ s.unread = r.unread /\ s.todo = r.todo /\ s.seen = r.seen
        /\ s.age = r.age + 1 /\ CurrentOf(s) = CurrentOf(r)
    BY <1>1, <1>3, AgingFields
  <2>3. Ahead(s) = Ahead(r) /\ (Listed(s) <=> Listed(r)) /\ Ahead(r) \subseteq Entities
        /\ (r.pc \in {"send", "map"} => CurrentOf(r) \in Entities)
    BY <1>1, <2>1, CurrentIn DEF Ahead, Listed, CallerStates, CallerType, Working
  <2>4. ASSUME NEW e \in Entities
        PROVE  /\ claim[e].left \in Nat /\ aged[e].holder = claim[e].holder
               /\ aged[e].left = IF claim[e].left = 0 THEN 0 ELSE claim[e].left - 1
    BY DEF TypeInv, Claims, NoClaim, Aged, Less
  <2>5. ASSUME r.pc \in {"send", "map"}, CurrentOf(r) \notin lo
        PROVE  /\ HeldBy(aged[CurrentOf(r)], h) /\ aged[CurrentOf(r)].left + s.age >= Lease
               /\ ~ Old(s.age)
    <3>1. PICK c \in Entities : c = CurrentOf(r)
      BY <2>3, <2>5
    <3>2. HeldBy(claim[c], h) /\ claim[c].left + r.age >= Lease /\ ~ Old(r.age + 1)
      BY <2>5, <3>1 DEF CallerLease, CallerHolds
    <3>3. claim[c].left \in Nat /\ claim[c].left > 1
      BY <1>1, <2>4, <3>2 DEF Old
    <3>4. aged[c].left = claim[c].left - 1 /\ aged[c].holder = h
      BY <2>4, <3>2, <3>3 DEF HeldBy
    <3>5. QED
      BY <1>1, <2>1, <3>1, <3>2, <3>3, <3>4 DEF HeldBy, Live
  <2>6. ASSUME NEW e \in Ahead(r) PROVE ~ HeldBy(aged[e], h)
    <3>1. ~ HeldBy(claim[e], h) /\ e \in Entities
      BY <2>3, <2>6 DEF CallerLease, CallerHolds
    <3>2. QED
      BY <2>4, <3>1 DEF HeldBy, Live
  <2>7. ASSUME NEW e \in Ahead(r), Old(claim[e].left + r.age)
        PROVE  Old(aged[e].left + s.age)
    <3>1. claim[e].left \in Nat /\ aged[e].left \in Nat /\ aged[e].left + 1 >= claim[e].left
      BY <2>3, <2>4, <2>7
    <3>2. QED
      BY <1>1, <2>1, <2>7, <3>1 DEF Old
  <2>8. CallerHolds(s, h, aged, lo)
    BY <2>1, <2>3, <2>5, <2>6 DEF CallerHolds
  <2>9. CallerSees(s, aged, mapping, lo)
    BY <2>1, <2>3, <2>7 DEF CallerLease, CallerSees
  <2>10. QED
    BY <2>8, <2>9 DEF CallerLease
<1>4. QED
  BY <1>2, <1>3

(* Who saves a mapping has seen the one there is, so there is one afterwards *)
(* too; whoever listed the mappings without it waits for the lease until     *)
(* half a lease of its life is over.  Of a loose entity nothing is said.     *)
LEMMA SavedLease ==
  ASSUME TypeInv, LeaseInv, NEW h \in Holders, caller[h].pc = "map",
         mapping' \in {mapping, Saved(caller[h])}
  PROVE  /\ \A e \in Entities \ loose : Len(mapping'[e]) <= 1
         /\ \A g \in Holders \ {h} : CallerLease(caller[g], g, claim, mapping', loose)
         /\ \A stage \in {"ok", "fail"} : \A id \in Nat :
              CallerLease(Goes(caller[h], stage, id), h, claim, mapping', loose)
<1> DEFINE r == caller[h]
           c == CurrentOf(r)
<1>1. /\ r \in CallerStates /\ CallerType(r) /\ r.age \in 0 .. Span /\ r.todo # {}
      /\ c \in Entities /\ Lease \in Nat /\ Span \in Nat
  BY BoundsAssumption, CurrentIn DEF TypeInv, CallerStates, CallerType, Working
<1>2. PICK new : new = [id |-> r.landed, hash |-> OutgoingOf(r)]
  OBVIOUS
<1>3. /\ new \in Mappings
      /\ \A e \in Entities \ {c} : Saved(r)[e] = mapping[e]
      /\ r.seen[c].row = 0 => Saved(r)[c] = Append(mapping[c], new)
      /\ r.seen[c].row # 0 => Saved(r)[c] = [mapping[c] EXCEPT ![r.seen[c].row] = new]
  BY <1>1, <1>2, SavedType
<1>4. c \notin loose =>
        /\ r.seen[c].row = Len(mapping[c]) /\ HeldBy(claim[c], h) /\ ~ Old(r.age)
        /\ claim[c].left + r.age >= Lease /\ Len(mapping[c]) <= 1
  BY <1>1 DEF LeaseInv, CallerLease, CallerHolds, CallerSees, Working, NeverWedged
<1>5. mapping[c] \in Seq(Mappings) /\ claim[c].left \in Nat
  BY <1>1 DEF TypeInv, Claims, NoClaim
<1>6. /\ c \notin loose => Len(mapping'[c]) <= 1
      /\ \A e \in Entities \ {c} : mapping'[e] = mapping[e]
  <2>1. CASE mapping' = mapping
    BY <1>4, <2>1
  <2>2. CASE mapping' = Saved(r) /\ r.seen[c].row = 0
    <3>1. Len(mapping'[c]) = Len(mapping[c]) + 1
      BY <1>3, <1>5, <2>2, Appended
    <3>2. QED
      BY <1>3, <1>4, <2>2, <3>1
  <2>3. CASE mapping' = Saved(r) /\ r.seen[c].row # 0
    <3>1. Len(mapping'[c]) = Len(mapping[c])
      BY <1>3, <1>5, <2>3, Rewritten
    <3>2. QED
      BY <1>3, <1>4, <2>3, <3>1
  <2>4. QED
    BY <2>1, <2>2, <2>3
<1>7. \A e \in Entities \ loose : Len(mapping'[e]) <= 1
  BY <1>6 DEF LeaseInv, NeverWedged
<1>8. c \notin loose => Old(claim[c].left)
  BY <1>1, <1>4, <1>5 DEF Old
<1>9. ASSUME NEW g \in Holders, g # h PROVE CallerLease(caller[g], g, claim, mapping', loose)
  <2> DEFINE s == caller[g]
  <2>1. CallerHolds(s, g, claim, loose) /\ CallerSees(s, claim, mapping, loose)
    BY DEF LeaseInv, CallerLease
  <2>2. s \in CallerStates /\ CallerType(s) /\ s.age \in Nat /\ Ahead(s) \subseteq Entities
    BY DEF TypeInv, CallerStates, Ahead
  <2>3. c \notin loose => Old(claim[c].left + s.age)
    BY <1>1, <1>5, <1>8, <2>2 DEF Old
  <2>4. s.pc \in {"send", "map"} /\ CurrentOf(s) \notin loose => CurrentOf(s) \in Entities \ {c}
    <3>1. SUFFICES ASSUME s.pc \in {"send", "map"}, CurrentOf(s) \notin loose
                   PROVE  CurrentOf(s) \in Entities \ {c}
      OBVIOUS
    <3>2. CurrentOf(s) \in Entities
      BY <2>2, <3>1, CurrentIn DEF CallerType, Working
    <3>3. HeldBy(claim[CurrentOf(s)], g)
      BY <2>1, <3>1 DEF CallerHolds
    <3>4. QED
      BY <1>4, <1>9, <3>1, <3>2, <3>3 DEF HeldBy
  <2>5. ASSUME Listed(s), NEW e \in Ahead(s) \ loose, s.seen[e].row # Len(mapping'[e])
        PROVE  Old(claim[e].left + s.age)
    <3>1. CASE e = c
      BY <2>3, <2>5, <3>1
    <3>2. CASE e # c
      BY <1>6, <2>1, <2>2, <2>5, <3>2 DEF CallerSees
    <3>3. QED
      BY <3>1, <3>2
  <2>6. s.pc \in {"send", "map"} /\ CurrentOf(s) \notin loose =>
          s.seen[CurrentOf(s)].row = Len(mapping'[CurrentOf(s)])
    BY <1>6, <2>1, <2>4 DEF CallerSees
  <2>7. CallerSees(s, claim, mapping', loose)
    BY <2>5, <2>6 DEF CallerSees
  <2>8. QED
    BY <2>1, <2>7 DEF CallerLease
<1>10. ASSUME NEW stage \in {"ok", "fail"}, NEW id \in Nat
       PROVE  CallerLease(Goes(r, stage, id), h, claim, mapping', loose)
  <2>1. PICK s : s = Goes(r, stage, id)
    OBVIOUS
  <2>2. stage \in Working /\ stage \in Stages
    BY DEF Working, Stages
  <2>3. /\ s.pc = stage /\ s.unread = r.unread /\ s.todo = r.todo /\ s.seen = r.seen
        /\ s.age = r.age /\ CurrentOf(s) = c
    BY <1>1, <2>1, <2>2, GoesFields
  <2>4. Ahead(s) = r.todo \ {c} /\ Ahead(r) = Ahead(s) /\ Ahead(s) \subseteq Entities \ {c}
        /\ (Listed(s) <=> Listed(r))
    BY <1>1, <2>3 DEF Ahead, Listed, CallerStates
  <2>5. CallerHolds(r, h, claim, loose) /\ CallerSees(r, claim, mapping, loose)
    BY DEF LeaseInv, CallerLease
  <2>6. CallerHolds(s, h, claim, loose)
    BY <2>3, <2>4, <2>5 DEF CallerHolds
  <2>7. CallerSees(s, claim, mapping', loose)
    BY <1>6, <2>3, <2>4, <2>5 DEF CallerSees
  <2>8. QED
    BY <2>1, <2>6, <2>7 DEF CallerLease
<1>11. QED
  BY <1>7, <1>9, <1>10

(* Every step keeps the leases.                                              *)
LEMMA LeaseStep ==
  ASSUME TypeInv, LeaseInv, [Next]_vars
  PROVE  LeaseInv'
<1> DEFINE CallersFine == \A h \in Holders : CallerLease(caller'[h], h, claim', mapping', loose)
<1>0. PICK lo : lo = loose' /\ loose \subseteq lo
  BY LooseGrows
<1>a. CallersFine /\ NeverWedged' => LeaseInv'
  <2>1. ASSUME CallersFine, NEW h \in Holders
        PROVE  CallerLease(caller'[h], h, claim', mapping', lo)
    <3>1. PICK r, cl, map : r = caller'[h] /\ cl = claim' /\ map = mapping'
      OBVIOUS
    <3>2. CallerLease(r, h, cl, map, loose)
      BY <2>1, <3>1
    <3>3. QED
      BY <1>0, <3>1, <3>2, LooserLease
  <2>2. QED
    BY <1>0, <2>1 DEF LeaseInv
<1>b. UNCHANGED mapping => NeverWedged'
  BY <1>0 DEF LeaseInv, NeverWedged
<1>d. (\A h \in Holders : CallerLease(caller'[h], h, claim', mapping', lo)) /\ NeverWedged' => LeaseInv'
  BY <1>0 DEF LeaseInv
<1>c. \A h \in Holders : CallerLease(caller[h], h, claim, mapping, loose)
  BY DEF LeaseInv
<1>1. CASE UNCHANGED vars
  <2>1. CallersFine
    BY <1>1, <1>c DEF vars
  <2>2. QED
    BY <1>1, <2>1, <1>a, <1>b DEF vars
<1>2. ASSUME NEW e \in Edited, Edit(e) PROVE LeaseInv'
  <2>1. UNCHANGED <<mapping, claim, caller>>
    BY <1>2 DEF Edit
  <2>2. CallersFine
    BY <2>1, <1>c
  <2>3. QED
    BY <2>1, <2>2, <1>a, <1>b
<1>3. CASE Tick
  <2>1. /\ \A h \in Holders : Aging(caller[h], caller'[h])
        /\ claim' = [e \in Entities |-> Aged(claim[e])] /\ UNCHANGED mapping
        /\ \A h \in Holders : caller[h].pc \in {"send", "map"} /\ Old(caller[h].age + 1) =>
             CurrentOf(caller[h]) \in loose'
    BY <1>3, TickDoes
  <2>2. PICK aged : aged = [e \in Entities |-> Aged(claim[e])]
    OBVIOUS
  <2>3. ASSUME NEW h \in Holders PROVE CallerLease(caller'[h], h, aged, mapping, lo)
    <3>1. PICK s : s = caller'[h]
      OBVIOUS
    <3>2. /\ Aging(caller[h], s) /\ CallerLease(caller[h], h, claim, mapping, loose)
          /\ caller[h].pc \in {"send", "map"} /\ Old(caller[h].age + 1)
               => CurrentOf(caller[h]) \in lo
      BY <1>0, <1>c, <2>1, <3>1
    <3>3. CallerLease(s, h, aged, mapping, lo)
      BY <1>0, <2>2, <3>2, TickLease
    <3>4. QED
      BY <3>1, <3>3
  <2>4. \A h \in Holders : CallerLease(caller'[h], h, claim', mapping', lo)
    BY <2>1, <2>2, <2>3
  <2>5. QED
    BY <2>1, <2>4, <1>b, <1>d
<1>4. ASSUME NEW h \in Holders,
             \/ StartWalk(h) \/ StartSweep(h) \/ Reads(h) \/ Block(h) \/ Attempt(h) \/ Die(h)
      PROVE  LeaseInv'
  <2> DEFINE r == caller[h]
             c == CurrentOf(r)
  <2>0. /\ r \in CallerStates /\ CallerType(r) /\ CallerLease(r, h, claim, mapping, loose)
        /\ CallerHolds(r, h, claim, loose) /\ CallerSees(r, claim, mapping, loose)
    BY Reading, <1>c DEF CallerLease
  <2>a. r.pc \in {"next"} \cup Working =>
          /\ r.resolved[c] \in Nat /\ r.landed \in Nat /\ KnownOf(r) \in Nat /\ c \in Entities
    BY <2>0, KnownType, CurrentIn DEF CallerType, CallerStates
  <2>b. ASSUME NEW n, Turns(h, n), UNCHANGED <<claim, mapping>>, CallerLease(n, h, claim, mapping, loose)
        PROVE  LeaseInv'
    <3>1. CallersFine
      BY <2>b, <1>c, TurnLease
    <3>2. QED
      BY <2>b, <3>1, <1>a, <1>b
  <2>c. ASSUME NEW id \in Nat, Leaves(h, id), r.pc \in {"next"} \cup Working,
               UNCHANGED <<claim, mapping>>
        PROVE  LeaseInv'
    <3>1. CallersFine
      BY <2>c, <1>c, LeavesLease
    <3>2. QED
      BY <2>c, <3>1, <1>a, <1>b
  <2>d. ASSUME NEW stage \in Working, NEW id \in Nat, Steps(h, stage, id), r.pc \in Working,
               stage \in {"send", "map"} => r.pc \in {"send", "map"}, UNCHANGED <<claim, mapping>>
        PROVE  LeaseInv'
    <3>1. CallersFine
      BY <2>d, <1>c, StepsLease
    <3>2. QED
      BY <2>d, <3>1, <1>a, <1>b
  <2>1. CASE StartWalk(h) \/ StartSweep(h)
    <3>1. /\ UNCHANGED <<mapping, claim>> /\ Fresh(h)
          /\ \E n : /\ Turns(h, n)
                    /\ \/ \E todo \in SUBSET Entities :
                            Begun(n, "walk", todo, {"mappings", "records"})
                       \/ Begun(n, "sweep", {}, {"mappings", "log"})
      BY <2>1, StartDoes
    <3>2. PICK n : /\ Turns(h, n)
                   /\ \/ \E todo \in SUBSET Entities :
                           Begun(n, "walk", todo, {"mappings", "records"})
                      \/ Begun(n, "sweep", {}, {"mappings", "log"})
      BY <3>1
    <3>3. n.pc = "read" /\ "mappings" \in n.unread
      BY <3>2 DEF Begun
    <3>4. \A e \in Entities : ~ HeldBy(claim[e], h)
      BY <3>1 DEF Fresh, HeldBy
    <3>5. CallerLease(n, h, claim, mapping, loose)
      BY <3>3, <3>4 DEF CallerLease, CallerHolds, CallerSees, Ahead, Listed, Working
    <3>6. QED
      BY <3>1, <3>2, <3>5, <2>b
  <2>2. CASE ReadMappings(h)
    <3>1. /\ UNCHANGED <<mapping, claim>> /\ r.pc = "read"
          /\ \/ Turns(h, Idle)
             \/ \E n : Turns(h, n) /\ After(r, n, r.unread \ {"mappings"}) /\ Sees(n, Index)
      BY <2>2, ReadMappingsDoes
    <3>2. ASSUME NEW n, After(r, n, r.unread \ {"mappings"}), Sees(n, Index)
          PROVE  CallerLease(n, h, claim, mapping, loose)
      <4>1. n.pc \in {"read", "next"} /\ n \in CallerStates
        BY <3>2 DEF After
      <4>2. Ahead(n) \subseteq Entities /\ Ahead(r) = Entities
            /\ (n.pc = "next" => Ahead(n) = n.todo)
        BY <3>1, <4>1 DEF Ahead, CallerStates
      <4>3. \A e \in Ahead(n) : n.seen[e].row = Len(mapping[e])
        BY <3>2, <4>2, IndexSays DEF Sees
      <4>4. \A e \in Ahead(n) : ~ HeldBy(claim[e], h)
        BY <2>0, <4>2 DEF CallerHolds
      <4>5. QED
        BY <4>1, <4>3, <4>4 DEF CallerLease, CallerHolds, CallerSees, Working
    <3>3. QED
      BY <3>1, <3>2, <2>b, IdleLease
  <2>3. CASE ReadRecords(h) \/ ReadLog(h)
    <3>1. /\ UNCHANGED <<mapping, claim>> /\ r.pc = "read"
          /\ \/ Turns(h, Idle)
             \/ \E n, rest : /\ Turns(h, n) /\ After(r, n, rest) /\ Sees(n, r.seen)
                             /\ "mappings" \in rest <=> "mappings" \in r.unread
      <4>1. CASE ReadRecords(h)
        <5>1. /\ UNCHANGED <<mapping, claim>> /\ r.pc = "read" /\ "mappings" \notin r.unread
              /\ \/ Turns(h, Idle)
                 \/ \E n : Turns(h, n) /\ After(r, n, {}) /\ Sees(n, r.seen)
          BY <4>1, ReadRecordsDoes
        <5>2. QED
          BY <5>1
      <4>2. CASE ReadLog(h)
        <5>1. PICK rest : rest = r.unread \ {"log"}
          OBVIOUS
        <5>2. /\ UNCHANGED <<mapping, claim>> /\ r.pc = "read"
              /\ \/ Turns(h, Idle)
                 \/ \E n : Turns(h, n) /\ After(r, n, rest) /\ Sees(n, r.seen)
          BY <4>2, <5>1, ReadLogDoes
        <5>3. "mappings" \in rest <=> "mappings" \in r.unread
          BY <5>1
        <5>4. QED
          BY <5>2, <5>3
      <4>3. QED
        BY <2>3, <4>1, <4>2
    <3>2. ASSUME NEW n, NEW rest, After(r, n, rest), Sees(n, r.seen),
                 "mappings" \in rest <=> "mappings" \in r.unread
          PROVE  CallerLease(n, h, claim, mapping, loose)
      <4>1. n.pc \in {"read", "next"} /\ n \in CallerStates /\ n.age = r.age /\ n.unread = rest
        BY <3>2 DEF After
      <4>2. Ahead(n) \subseteq Entities /\ Ahead(r) = Entities
            /\ (n.pc = "next" => Ahead(n) = n.todo) /\ (Listed(n) <=> Listed(r))
        BY <3>1, <3>2, <4>1 DEF Ahead, CallerStates, Listed
      <4>3. \A e \in Ahead(n) : n.seen[e] = r.seen[e]
        BY <3>2, <4>2 DEF Sees
      <4>4. QED
        BY <2>0, <4>1, <4>2, <4>3 DEF CallerLease, CallerHolds, CallerSees, Working
    <3>3. QED
      BY <3>1, <3>2, <2>b, IdleLease
  <2>4. CASE Block(h) \/ Skip(h)
    <3>1. r.pc = "next" /\ Leaves(h, r.resolved[c]) /\ UNCHANGED <<mapping, claim>>
      BY <2>4, BlockDoes, SkipDoes
    <3>2. QED
      BY <3>1, <2>a, <2>c
  <2>5. CASE Claim(h)
    <3>1. PICK asked : asked = [claim EXCEPT ![c] = AfterClaim(@, h, Lease)]
      OBVIOUS
    <3>2. /\ r.pc = "next" /\ UNCHANGED mapping
          /\ \/ /\ Steps(h, "send", r.landed) /\ Grants(claim[c], h) /\ claim' = asked
                /\ Old(r.age) => c \in lo
             \/ Leaves(h, r.resolved[c]) /\ claim' \in {claim, asked}
      BY <1>0, <2>5, <3>1, ClaimDoes
    <3>3. r.landed = 0 /\ Listed(r) /\ c \in Entities /\ r.resolved[c] \in Nat
      BY <2>0, <2>a, <3>2 DEF CallerType, Listed
    <3>4. \A g \in Holders \ {h} : CallerLease(caller[g], g, asked, mapping, loose)
      BY <1>c, <3>1, <3>3, AskedKeeps
    <3>5. \A e \in Entities \ {c} : asked[e] = claim[e]
      BY <3>1, <3>3, AskedType
    <3>6. CASE /\ Steps(h, "send", r.landed) /\ Grants(claim[c], h) /\ claim' = asked
               /\ Old(r.age) => c \in lo
      <4>1. CallerLease(Goes(r, "send", 0), h, asked, mapping, lo)
        BY <1>0, <2>0, <3>1, <3>2, <3>3, <3>6, GrantedLease
      <4>2. \A g \in Holders \ {h} : CallerLease(caller[g], g, asked, mapping, lo)
        BY <1>0, <3>4, LooserLease
      <4>3. \A g \in Holders : CallerLease(caller'[g], g, claim', mapping', lo)
        BY <3>2, <3>3, <3>6, <4>1, <4>2, TurnLease DEF Steps
      <4>4. QED
        BY <3>2, <4>3, <1>b, <1>d
    <3>7. CASE Leaves(h, r.resolved[c]) /\ claim' = asked
      <4>1. CallerLease(Passed(r, r.resolved[c]), h, asked, mapping, loose)
        BY <2>0, <3>2, <3>3, <3>5, PassedLease
      <4>2. CallerLease(Idle, h, asked, mapping, loose)
        BY IdleLease
      <4>3. CallersFine
        BY <3>2, <3>4, <3>7, <4>1, <4>2, TurnLease DEF Leaves
      <4>4. QED
        BY <3>2, <4>3, <1>a, <1>b
    <3>8. CASE Leaves(h, r.resolved[c]) /\ claim' = claim
      BY <3>2, <3>3, <3>8, <2>c
    <3>9. QED
      BY <3>2, <3>6, <3>7, <3>8
  <2>6. CASE Create(h) \/ Update(h) \/ UpdateTaxonomy(h) \/ SendFails(h)
    <3>1. /\ r.pc = "send" /\ UNCHANGED <<mapping, claim>>
          /\ \/ Steps(h, "map", 1) \/ Steps(h, "map", Len(remote[c]) + 1)
             \/ Steps(h, "map", KnownOf(r)) \/ Steps(h, "fail", r.landed)
      BY <2>6, CreateDoes, UpdateDoes, UpdateTaxonomyDoes, SendFailsDoes
    <3>2. r.pc \in Working /\ "map" \in Working /\ "fail" \in Working
      BY <3>1 DEF Working
    <3>3. r.landed \in Nat /\ KnownOf(r) \in Nat /\ Len(remote[c]) + 1 \in Nat
      <4>1. remote[c] \in Seq(Payloads)
        BY <2>a, <3>2 DEF TypeInv
      <4>2. QED
        BY <2>a, <3>2, <4>1
    <3>4. QED
      BY <3>1, <3>2, <3>3, <2>d
  <2>7. CASE SaveMapping(h)
    <3>1. /\ r.pc = "map" /\ UNCHANGED claim /\ mapping' \in {mapping, Saved(r)}
          /\ Steps(h, "ok", r.landed) \/ Steps(h, "fail", r.landed)
      BY <2>7, SaveMappingDoes
    <3>2. r.landed \in Nat
      BY <2>a, <3>1 DEF Working
    <3>3. /\ \A e \in Entities \ loose : Len(mapping'[e]) <= 1
          /\ \A g \in Holders \ {h} : CallerLease(caller[g], g, claim, mapping', loose)
          /\ \A stage \in {"ok", "fail"} : CallerLease(Goes(r, stage, r.landed), h, claim, mapping', loose)
      BY <3>1, <3>2, SavedLease
    <3>4. CallersFine
      BY <3>1, <3>3, TurnLease DEF Steps
    <3>5. NeverWedged'
      BY <1>0, <3>3 DEF NeverWedged
    <3>6. QED
      BY <3>4, <3>5, <1>a
  <2>8. CASE LogOk(h)
    <3>1. /\ r.pc = "ok" /\ UNCHANGED <<mapping, claim>>
          /\ Leaves(h, r.resolved[c]) \/ Leaves(h, r.landed) \/ Steps(h, "fail", r.landed)
      BY <2>8, LogOkDoes
    <3>2. r.pc \in Working /\ "fail" \in Working
      BY <3>1 DEF Working
    <3>3. QED
      BY <3>1, <3>2, <2>a, <2>c, <2>d
  <2>9. CASE LogFailed(h)
    <3>1. PICK id \in {KnownOf(r), r.landed} :
            /\ r.pc = "fail" /\ UNCHANGED <<mapping, claim>>
            /\ Leaves(h, r.resolved[c]) \/ Leaves(h, id)
      BY <2>9, LogFailedDoes
    <3>2. QED
      BY <3>1, <2>a, <2>c DEF Working
  <2>10. CASE Die(h)
    BY <2>10, <2>b, DieDoes, IdleLease
  <2>11. CASE SentAgain(h)
    <3>1. /\ UNCHANGED <<claim, caller>> /\ lo = loose \cup {c}
          /\ \A e \in Entities \ {c} : mapping'[e] = mapping[e]
      BY <1>0, <2>11, SentAgainDoes
    <3>2. ASSUME NEW g \in Holders
          PROVE  CallerLease(caller[g], g, claim, mapping', lo)
      <4>1. /\ CallerLease(caller[g], g, claim, mapping, lo)
            /\ caller[g] \in CallerStates /\ CallerType(caller[g])
        BY <1>0, <1>c, LooserLease DEF TypeInv
      <4>2. /\ Ahead(caller[g]) \subseteq Entities
            /\ caller[g].pc \in {"send", "map"} => CurrentOf(caller[g]) \in Entities
        BY <4>1, CurrentIn DEF Ahead, CallerStates, CallerType, Working
      <4>3. \A e \in Entities \ lo : mapping'[e] = mapping[e]
        BY <3>1
      <4>4. QED
        BY <4>1, <4>2, <4>3 DEF CallerLease, CallerSees
    <3>3. NeverWedged'
      BY <1>0, <3>1 DEF LeaseInv, NeverWedged
    <3>4. QED
      BY <3>1, <3>2, <3>3, <1>d
  <2>12. QED
    BY <1>4, <2>1, <2>2, <2>3, <2>4, <2>5, <2>6, <2>7, <2>8, <2>9, <2>10, <2>11 DEF Attempt, Reads
<1>5. QED
  BY <1>1, <1>2, <1>3, <1>4 DEF Next

(* At the start nobody holds anything.                                       *)
LEMMA LeaseInit ==
  ASSUME Init
  PROVE  LeaseInv
<1>1. NeverWedged
  BY DEF Init, NeverWedged
<1>2. \A h \in Holders : CallerLease(caller[h], h, claim, mapping, loose)
  BY IdleLease DEF Init
<1>3. QED
  BY <1>1, <1>2 DEF LeaseInv

(* The leases, for any entities, walks, sweeps, edits and faults, however    *)
(* long an invocation may last.                                              *)
LEMMA LeasesStay == Spec => []LeaseInv
<1>1. Init => LeaseInv
  BY LeaseInit
<1>2. TypeInv /\ LeaseInv /\ [Next]_vars => LeaseInv'
  BY LeaseStep
<1>3. QED
  BY <1>1, <1>2, TypesStay, PTL DEF Spec

(* An entity has a second mapping, which stops every sweep from then on,     *)
(* only where the scheduler created one again or an invocation was at the    *)
(* entity half a lease after it began: for any entities, walks, sweeps,      *)
(* edits, faults, leases and invocations of any length.                      *)
THEOREM SweepsAreNeverWedged == Spec => []NeverWedged
<1>1. LeaseInv => NeverWedged
  BY DEF LeaseInv
<1>2. QED
  BY <1>1, LeasesStay, PTL

-----------------------------------------------------------------------------
(* Objects.                                                                  *)

\* Payload p is what object id of a taxonomy holds, or there is a mapping.
Tells(e, p, id, rem, map) ==
    Kind[e] = "taxonomy" /\ id # 0 => rem[e][id] = p \/ map[e] # <<>>

(* The row a caller replays tells what its object holds, and so does what it *)
(* sent of the object it landed at; only sweeps replay; and a mapping that   *)
(* was seen is there.                                                        *)
CallerObjects(r, rem, map) ==
    /\ \A e \in Entities : /\ Tells(e, r.rows[e].payload, r.rows[e].id, rem, map)
                           /\ r.task # "sweep" => r.rows[e].id = 0
                           /\ r.seen[e].row # 0 => map[e] # <<>>
    /\ r.landed # 0 => Tells(CurrentOf(r), OutgoingOf(r), r.landed, rem, map)

ObjectsInv ==
    /\ \A e \in Entities : Tells(e, log[e].payload, log[e].id, remote, mapping)
    /\ \A h \in Holders : CallerObjects(caller[h], remote, mapping)

\* No object of a taxonomy is written again, and no mapping goes.
Kept(rem, map, rem2, map2) ==
    \A e \in Entities :
        /\ Kind[e] = "taxonomy" => \A i \in DOMAIN rem[e] : rem2[e][i] = rem[e][i]
        /\ map[e] # <<>> => map2[e] # <<>>

(* What tells of an object goes on doing so.                                 *)
LEMMA KeptTells ==
  ASSUME NEW rem, NEW map, NEW rem2, NEW map2, Kept(rem, map, rem2, map2)
  PROVE  /\ \A e \in Entities : \A p, id :
              Tells(e, p, id, rem, map) /\ Points(e, id, rem) => Tells(e, p, id, rem2, map2)
         /\ \A r \in CallerStates :
              CallerType(r) /\ CallerRefs(r, rem) /\ CallerObjects(r, rem, map)
                => CallerObjects(r, rem2, map2)
<1>1. ASSUME NEW e \in Entities, NEW p, NEW id, Tells(e, p, id, rem, map), Points(e, id, rem)
      PROVE  Tells(e, p, id, rem2, map2)
  BY <1>1 DEF Kept, Tells, Points
<1>2. ASSUME NEW r \in CallerStates, CallerType(r), CallerRefs(r, rem),
             CallerObjects(r, rem, map)
      PROVE  CallerObjects(r, rem2, map2)
  <2>1. ASSUME NEW e \in Entities
        PROVE  /\ Tells(e, r.rows[e].payload, r.rows[e].id, rem2, map2)
               /\ r.task # "sweep" => r.rows[e].id = 0
               /\ r.seen[e].row # 0 => map2[e] # <<>>
    <3>1. /\ Tells(e, r.rows[e].payload, r.rows[e].id, rem, map)
          /\ Points(e, r.rows[e].id, rem)
          /\ r.task # "sweep" => r.rows[e].id = 0
          /\ r.seen[e].row # 0 => map[e] # <<>>
      BY <1>2 DEF CallerObjects, CallerRefs
    <3>2. QED
      BY <1>1, <3>1 DEF Kept
  <2>2. ASSUME r.landed # 0 PROVE Tells(CurrentOf(r), OutgoingOf(r), r.landed, rem2, map2)
    <3>1. CurrentOf(r) \in Entities
      BY <1>2, <2>2, CurrentIn DEF CallerType, Working
    <3>2. Tells(CurrentOf(r), OutgoingOf(r), r.landed, rem, map)
          /\ Points(CurrentOf(r), r.landed, rem)
      BY <1>2, <2>2 DEF CallerObjects, CallerRefs, Points
    <3>3. QED
      BY <1>1, <3>1, <3>2
  <2>3. QED
    BY <2>1, <2>2 DEF CallerObjects
<1>3. QED
  BY <1>1, <1>2

(* Nothing tells of nothing.                                                 *)
LEMMA IdleObjects ==
  ASSUME NEW rem, NEW map
  PROVE  CallerObjects(Idle, rem, map)
<1>1. \A e \in Entities : Idle.rows[e].id = 0 /\ Idle.seen[e].row = 0
  BY Nothings DEF NoRow, NoneSeen
<1>2. QED
  BY <1>1, Nothings DEF CallerObjects, Tells

(* The same work tells the same.                                             *)
LEMMA SameObjects ==
  ASSUME NEW r, NEW s, SameWork(r, s), NEW rem, NEW map, CallerObjects(r, rem, map)
  PROVE  CallerObjects(s, rem, map)
  BY DEF SameWork, CallerObjects

(* Who leaves an entity forgets what told of it.                             *)
LEMMA PassedObjects ==
  ASSUME NEW r \in CallerStates, r.todo # {}, NEW id \in Nat, NEW rem, NEW map,
         CallerObjects(r, rem, map)
  PROVE  CallerObjects(Passed(r, id), rem, map)
<1>1. PICK s : s = Passed(r, id)
  OBVIOUS
<1>2. /\ s.task = r.task /\ s.landed = 0
      /\ \A e \in Entities :
              /\ s.rows[e] = IF e = CurrentOf(r) THEN NoRow ELSE r.rows[e]
              /\ s.seen[e] = IF e = CurrentOf(r) THEN NoneSeen ELSE r.seen[e]
  BY <1>1, PassedFields
<1>3. ASSUME NEW e \in Entities
      PROVE  /\ Tells(e, s.rows[e].payload, s.rows[e].id, rem, map)
             /\ s.task # "sweep" => s.rows[e].id = 0
             /\ s.seen[e].row # 0 => map[e] # <<>>
  <2>1. CASE e = CurrentOf(r)
    <3>1. s.rows[e].id = 0 /\ s.seen[e].row = 0
      BY <1>2, <2>1 DEF NoRow, NoneSeen
    <3>2. QED
      BY <3>1 DEF Tells
  <2>2. CASE e # CurrentOf(r)
    BY <1>2, <2>2 DEF CallerObjects
  <2>3. QED
    BY <2>1, <2>2
<1>4. CallerObjects(s, rem, map)
  BY <1>2, <1>3 DEF CallerObjects
<1>5. QED
  BY <1>1, <1>4

(* Who goes to another call tells of the object it landed at.                *)
LEMMA GoesObjects ==
  ASSUME NEW r \in CallerStates, NEW stage \in Working, NEW id \in Nat, NEW rem, NEW map,
         CallerObjects(r, rem, map),
         id # 0 => Tells(CurrentOf(r), OutgoingOf(r), id, rem, map)
  PROVE  CallerObjects(Goes(r, stage, id), rem, map)
<1>1. PICK s : s = Goes(r, stage, id)
  OBVIOUS
<1>2. stage \in Stages
  BY DEF Working, Stages
<1>3. /\ s.task = r.task /\ s.rows = r.rows /\ s.seen = r.seen /\ s.landed = id
      /\ CurrentOf(s) = CurrentOf(r) /\ OutgoingOf(s) = OutgoingOf(r)
  BY <1>1, <1>2, GoesFields
<1>4. CallerObjects(s, rem, map)
  BY <1>3 DEF CallerObjects
<1>5. QED
  BY <1>1, <1>4

(* What a caller knows its entity as tells what it sends, while no mapping   *)
(* was there to see.                                                         *)
LEMMA KnownTells ==
  ASSUME NEW r \in CallerStates, r.todo # {}, NEW rem, NEW map, CallerObjects(r, rem, map)
  PROVE  /\ Tells(CurrentOf(r), OutgoingOf(r), KnownOf(r), rem, map)
         /\ r.seen[CurrentOf(r)].row = 0 /\ KnownOf(r) # 0 => r.task = "sweep"
<1>1. PICK c : c = CurrentOf(r)
  OBVIOUS
<1>2. c \in Entities
  BY <1>1, CurrentIn
<1>3. CASE r.seen[c].row # 0
  BY <1>1, <1>2, <1>3 DEF CallerObjects, Tells
<1>4. CASE r.seen[c].row = 0 /\ r.task = "sweep"
  BY <1>1, <1>2, <1>4 DEF CallerObjects, KnownOf, OutgoingOf
<1>5. CASE r.seen[c].row = 0 /\ r.task # "sweep"
  <2>1. KnownOf(r) = 0
    BY <1>1, <1>2, <1>5 DEF CallerObjects, KnownOf
  <2>2. QED
    BY <1>1, <1>5, <2>1 DEF Tells
<1>6. QED
  BY <1>1, <1>3, <1>4, <1>5

(* The callers go on telling when h becomes one that does.                   *)
LEMMA TurnObjects ==
  ASSUME TypeInv, RefsInv, ObjectsInv, NEW h \in Holders, NEW n, Turns(h, n),
         CallerObjects(n, remote', mapping'), Kept(remote, mapping, remote', mapping')
  PROVE  \A g \in Holders : CallerObjects(caller'[g], remote', mapping')
<1>1. ASSUME NEW g \in Holders, g # h PROVE CallerObjects(caller'[g], remote', mapping')
  <2>1. /\ caller[g] \in CallerStates /\ CallerType(caller[g]) /\ Alike(caller[g], caller'[g])
        /\ CallerRefs(caller[g], remote) /\ CallerObjects(caller[g], remote, mapping)
    BY <1>1 DEF TypeInv, Turns, RefsInv, ObjectsInv
  <2>2. CallerObjects(caller[g], remote', mapping')
    BY <2>1, KeptTells
  <2>3. SameWork(caller[g], caller'[g])
    BY <2>1, AlikeFields DEF SameWork
  <2>4. QED
    BY <2>2, <2>3, SameObjects
<1>2. QED
  BY <1>1 DEF Turns

(* So they do when h leaves its entity,                                      *)
LEMMA LeavesObjects ==
  ASSUME TypeInv, RefsInv, ObjectsInv, NEW h \in Holders, NEW id \in Nat, Leaves(h, id),
         caller[h].todo # {}, Kept(remote, mapping, remote', mapping')
  PROVE  \A g \in Holders : CallerObjects(caller'[g], remote', mapping')
<1>1. /\ caller[h] \in CallerStates /\ CallerType(caller[h]) /\ CallerRefs(caller[h], remote)
      /\ CallerObjects(caller[h], remote, mapping)
  BY DEF TypeInv, RefsInv, ObjectsInv
<1>2. CallerObjects(caller[h], remote', mapping')
  BY <1>1, KeptTells
<1>3. CallerObjects(Passed(caller[h], id), remote', mapping')
      /\ CallerObjects(Idle, remote', mapping')
  BY <1>1, <1>2, PassedObjects, IdleObjects
<1>4. QED
  BY <1>3, TurnObjects DEF Leaves

(* or goes to another call.                                                  *)
LEMMA StepsObjects ==
  ASSUME TypeInv, RefsInv, ObjectsInv, NEW h \in Holders, NEW stage \in Working, NEW id \in Nat,
         Steps(h, stage, id), Kept(remote, mapping, remote', mapping'),
         id # 0 => Tells(CurrentOf(caller[h]), OutgoingOf(caller[h]), id, remote', mapping')
  PROVE  \A g \in Holders : CallerObjects(caller'[g], remote', mapping')
<1>1. /\ caller[h] \in CallerStates /\ CallerType(caller[h]) /\ CallerRefs(caller[h], remote)
      /\ CallerObjects(caller[h], remote, mapping)
  BY DEF TypeInv, RefsInv, ObjectsInv
<1>2. CallerObjects(caller[h], remote', mapping')
  BY <1>1, KeptTells
<1>3. CallerObjects(Goes(caller[h], stage, id), remote', mapping')
  BY <1>1, <1>2, GoesObjects
<1>4. QED
  BY <1>3, TurnObjects DEF Steps

(* The log goes on telling while nothing is logged,                          *)
LEMMA KeptLog ==
  ASSUME RefsInv, ObjectsInv, Kept(remote, mapping, remote', mapping'), UNCHANGED log
  PROVE  \A e \in Entities : Tells(e, log'[e].payload, log'[e].id, remote', mapping')
<1>1. ASSUME NEW e \in Entities
      PROVE  Tells(e, log[e].payload, log[e].id, remote', mapping')
  <2>1. Tells(e, log[e].payload, log[e].id, remote, mapping) /\ Points(e, log[e].id, remote)
    BY DEF RefsInv, RecordRefs, ObjectsInv
  <2>2. QED
    BY <2>1, KeptTells
<1>2. QED
  BY <1>1

(* and when a row that tells is.                                             *)
LEMMA LoggedTells ==
  ASSUME TypeInv, ObjectsInv, UNCHANGED <<remote, mapping>>, NEW c \in Entities, NEW row,
         log' = log \/ log' = [log EXCEPT ![c] = row],
         Tells(c, row.payload, row.id, remote, mapping)
  PROVE  \A e \in Entities : Tells(e, log'[e].payload, log'[e].id, remote', mapping')
<1>1. ASSUME NEW e \in Entities
      PROVE  Tells(e, log'[e].payload, log'[e].id, remote, mapping)
  <2>1. log'[e] = log[e] \/ (e = c /\ log'[e] = row)
    BY DEF TypeInv
  <2>2. QED
    BY <2>1 DEF ObjectsInv
<1>2. QED
  BY <1>1

(* Every step keeps what the objects of taxonomies are told by.              *)
LEMMA ObjectsStep ==
  ASSUME TypeInv, RefsInv, ObjectsInv, [Next]_vars
  PROVE  ObjectsInv'
<1> DEFINE CallersFine == \A h \in Holders : CallerObjects(caller'[h], remote', mapping')
           LogFine == \A e \in Entities :
                        Tells(e, log'[e].payload, log'[e].id, remote', mapping')
           AllKept == Kept(remote, mapping, remote', mapping')
<1>a. CallersFine /\ LogFine => ObjectsInv'
  BY DEF ObjectsInv
<1>b. UNCHANGED <<remote, mapping>> => AllKept
  BY DEF Kept
<1>c. AllKept /\ UNCHANGED log => LogFine
  BY KeptLog
<1>d. UNCHANGED <<remote, mapping, caller>> => CallersFine
  BY DEF ObjectsInv
<1>1. CASE UNCHANGED vars
  BY <1>1, <1>a, <1>b, <1>c, <1>d DEF vars
<1>2. ASSUME NEW e \in Edited, Edit(e) PROVE ObjectsInv'
  BY <1>2, <1>a, <1>b, <1>c, <1>d DEF Edit
<1>3. CASE Tick
  <2>1. /\ \A h \in Holders : Aging(caller[h], caller'[h])
        /\ UNCHANGED <<local, remote, mapping, log, faults>>
    BY <1>3, TickDoes
  <2>2. ASSUME NEW h \in Holders PROVE CallerObjects(caller'[h], remote', mapping')
    <3>1. /\ caller[h] \in CallerStates /\ Aging(caller[h], caller'[h])
          /\ CallerObjects(caller[h], remote', mapping')
      BY <2>1 DEF TypeInv, ObjectsInv
    <3>2. CASE caller[h].pc = "idle"
      BY <3>1, <3>2, IdleObjects DEF Aging
    <3>3. CASE caller[h].pc # "idle"
      <4>1. SameWork(caller[h], caller'[h])
        BY <3>1, <3>3, AgingFields DEF SameWork
      <4>2. QED
        BY <3>1, <4>1, SameObjects
    <3>4. QED
      BY <3>2, <3>3
  <2>3. QED
    BY <2>1, <2>2, <1>a, <1>b, <1>c
<1>4. ASSUME NEW h \in Holders,
             \/ StartWalk(h) \/ StartSweep(h) \/ Reads(h) \/ Block(h) \/ Attempt(h) \/ Die(h)
      PROVE  ObjectsInv'
  <2> DEFINE r == caller[h]
             c == CurrentOf(r)
  <2>0. /\ r \in CallerStates /\ CallerType(r) /\ CallerRefs(r, remote)
        /\ CallerObjects(r, remote, mapping)
    BY Reading DEF RefsInv, ObjectsInv
  <2>a. r.pc \in {"next"} \cup Working =>
          /\ r.todo # {} /\ c \in Entities /\ r.resolved[c] \in Nat
          /\ r.landed \in Nat /\ KnownOf(r) \in Nat
          /\ Tells(c, OutgoingOf(r), KnownOf(r), remote, mapping)
          /\ Tells(c, OutgoingOf(r), r.landed, remote, mapping)
    <3>1. SUFFICES ASSUME r.pc \in {"next"} \cup Working
                   PROVE  /\ r.todo # {} /\ c \in Entities /\ r.resolved[c] \in Nat
                          /\ r.landed \in Nat /\ KnownOf(r) \in Nat
                          /\ Tells(c, OutgoingOf(r), KnownOf(r), remote, mapping)
                          /\ Tells(c, OutgoingOf(r), r.landed, remote, mapping)
      OBVIOUS
    <3>2. r.todo # {} /\ c \in Entities
      BY <2>0, <3>1, CurrentIn DEF CallerType
    <3>3. r.resolved[c] \in Nat /\ r.landed \in Nat
      BY <2>0, <3>2 DEF CallerStates
    <3>4. Tells(c, OutgoingOf(r), r.landed, remote, mapping)
      BY <2>0 DEF CallerObjects, Tells
    <3>5. QED
      BY <2>0, <3>2, <3>3, <3>4, KnownType, KnownTells
  <2>b. ASSUME NEW n, Turns(h, n), UNCHANGED <<remote, mapping, log>>,
               CallerObjects(n, remote, mapping)
        PROVE  ObjectsInv'
    <3>1. CallersFine
      BY <2>b, <1>b, TurnObjects
    <3>2. QED
      BY <2>b, <3>1, <1>a, <1>b, <1>c
  <2>1. CASE StartWalk(h) \/ StartSweep(h)
    <3>1. /\ UNCHANGED <<remote, mapping, log>>
          /\ \E n : /\ Turns(h, n)
                    /\ \/ \E todo \in SUBSET Entities :
                            Begun(n, "walk", todo, {"mappings", "records"})
                       \/ Begun(n, "sweep", {}, {"mappings", "log"})
      BY <2>1, StartDoes
    <3>2. PICK n : /\ Turns(h, n)
                   /\ \/ \E todo \in SUBSET Entities :
                           Begun(n, "walk", todo, {"mappings", "records"})
                      \/ Begun(n, "sweep", {}, {"mappings", "log"})
      BY <3>1
    <3>3. n.rows = Idle.rows /\ n.seen = Idle.seen /\ n.landed = 0
      BY <3>2 DEF Begun
    <3>4. \A e \in Entities : n.rows[e].id = 0 /\ n.seen[e].row = 0
      BY <3>3, Nothings DEF NoRow, NoneSeen
    <3>5. CallerObjects(n, remote, mapping)
      BY <3>3, <3>4 DEF CallerObjects, Tells
    <3>6. QED
      BY <3>1, <3>2, <3>5, <2>b
  <2>2. CASE ReadMappings(h)
    <3>1. /\ UNCHANGED <<remote, mapping, log>> /\ r.pc = "read"
          /\ \/ Turns(h, Idle)
             \/ \E n : /\ Turns(h, n) /\ After(r, n, r.unread \ {"mappings"}) /\ Sees(n, Index)
                       /\ n.rows = r.rows
      BY <2>2, ReadMappingsDoes
    <3>2. ASSUME NEW n, After(r, n, r.unread \ {"mappings"}), Sees(n, Index), n.rows = r.rows
          PROVE  CallerObjects(n, remote, mapping)
      <4>1. n.task = r.task /\ n.landed = 0
        BY <2>0, <3>1, <3>2 DEF After, CallerType
      <4>2. ASSUME NEW e \in Entities, n.seen[e].row # 0 PROVE mapping[e] # <<>>
        <5>1. n.seen[e] = Index[e]
          BY <3>2, <4>2 DEF Sees, NoneSeen
        <5>2. Len(mapping[e]) # 0
          BY <4>2, <5>1, IndexSays
        <5>3. QED
          BY <5>2
      <4>3. QED
        BY <2>0, <3>2, <4>1, <4>2 DEF CallerObjects
    <3>3. QED
      BY <3>1, <3>2, <2>b, IdleObjects
  <2>3. CASE ReadRecords(h)
    <3>1. /\ UNCHANGED <<remote, mapping, log>> /\ r.pc = "read"
          /\ \/ Turns(h, Idle)
             \/ \E n : /\ Turns(h, n) /\ After(r, n, {}) /\ Sees(n, r.seen) /\ n.rows = r.rows
      BY <2>3, ReadRecordsDoes
    <3>2. ASSUME NEW n, After(r, n, {}), Sees(n, r.seen), n.rows = r.rows
          PROVE  CallerObjects(n, remote, mapping)
      <4>1. n.task = r.task /\ n.landed = 0
        BY <2>0, <3>1, <3>2 DEF After, CallerType
      <4>2. \A e \in Entities : n.seen[e] = r.seen[e] \/ n.seen[e].row = 0
        BY <3>2 DEF Sees, NoneSeen
      <4>3. QED
        BY <2>0, <3>2, <4>1, <4>2 DEF CallerObjects
    <3>3. QED
      BY <3>1, <3>2, <2>b, IdleObjects
  <2>4. CASE ReadLog(h)
    <3>1. /\ UNCHANGED <<remote, mapping, log>> /\ r.pc = "read" /\ r.task = "sweep"
          /\ \/ Turns(h, Idle)
             \/ \E n : /\ Turns(h, n) /\ After(r, n, r.unread \ {"log"}) /\ Sees(n, r.seen)
                       /\ \A e \in Entities : n.rows[e] = IF e \in Owed THEN log[e] ELSE NoRow
      <4>1. r.task = "sweep"
        BY <2>0, <2>4, ReadLogDoes DEF CallerType
      <4>2. QED
        BY <2>4, <4>1, ReadLogDoes
    <3>2. ASSUME NEW n, After(r, n, r.unread \ {"log"}), Sees(n, r.seen),
                 \A e \in Entities : n.rows[e] = IF e \in Owed THEN log[e] ELSE NoRow
          PROVE  CallerObjects(n, remote, mapping)
      <4>1. n.task = "sweep" /\ n.landed = 0
        BY <2>0, <3>1, <3>2 DEF After, CallerType
      <4>2. \A e \in Entities : n.seen[e] = r.seen[e] \/ n.seen[e].row = 0
        BY <3>2 DEF Sees, NoneSeen
      <4>3. \A e \in Entities : Tells(e, n.rows[e].payload, n.rows[e].id, remote, mapping)
        BY <3>2 DEF ObjectsInv, Tells, NoRow
      <4>4. QED
        BY <2>0, <4>1, <4>2, <4>3 DEF CallerObjects
    <3>3. QED
      BY <3>1, <3>2, <2>b, IdleObjects
  <2>5. CASE Block(h) \/ Claim(h)
    <3>1. /\ r.pc = "next" /\ UNCHANGED <<remote, mapping, log>>
          /\ Leaves(h, r.resolved[c]) \/ Steps(h, "send", r.landed)
      BY <2>5, BlockDoes, ClaimDoes
    <3>2. CASE Leaves(h, r.resolved[c])
      <4>1. CallersFine
        BY <2>a, <3>1, <3>2, <1>b, LeavesObjects
      <4>2. QED
        BY <3>1, <4>1, <1>a, <1>b, <1>c
    <3>3. CASE Steps(h, "send", r.landed)
      <4>1. r.landed = 0 /\ "send" \in Working
        BY <2>0, <3>1 DEF CallerType, Working
      <4>2. CallersFine
        BY <3>1, <3>3, <4>1, <1>b, StepsObjects
      <4>3. QED
        BY <3>1, <4>2, <1>a, <1>b, <1>c
    <3>4. QED
      BY <3>1, <3>2, <3>3
  <2>6. CASE Skip(h)
    <3>1. PICK row : row = [status |-> "ok", id |-> KnownOf(r), payload |-> OutgoingOf(r)]
      OBVIOUS
    <3>2. /\ r.pc = "next" /\ Leaves(h, r.resolved[c])
          /\ log' = log \/ log' = [log EXCEPT ![c] = row]
          /\ UNCHANGED <<remote, mapping>>
      BY <2>6, <3>1, SkipDoes
    <3>3. CallersFine
      BY <2>a, <3>2, <1>b, LeavesObjects
    <3>4. Tells(c, row.payload, row.id, remote, mapping)
      BY <2>a, <3>1, <3>2
    <3>5. LogFine
      BY <2>a, <3>2, <3>4, LoggedTells
    <3>6. QED
      BY <3>3, <3>5, <1>a
  <2>7. CASE Create(h)
    <3>1. /\ r.pc = "send" /\ UNCHANGED <<mapping, log>>
          /\ \/ Kind[c] = "speaker" /\ Steps(h, "map", 1) /\ UNCHANGED remote
             \/ /\ remote' = [remote EXCEPT ![c] = Append(@, OutgoingOf(r))]
                /\ Steps(h, "map", Len(remote[c]) + 1) \/ Steps(h, "fail", r.landed)
      BY <2>7, CreateDoes
    <3>2. r.pc \in Working /\ r.landed = 0 /\ "map" \in Working /\ "fail" \in Working
      BY <2>0, <3>1 DEF CallerType, Working
    <3>3. CASE Kind[c] = "speaker" /\ Steps(h, "map", 1) /\ UNCHANGED remote
      <4>1. Tells(c, OutgoingOf(r), 1, remote', mapping')
        BY <3>3 DEF Tells
      <4>2. CallersFine
        BY <3>1, <3>2, <3>3, <4>1, <1>b, StepsObjects
      <4>3. QED
        BY <3>1, <3>3, <4>2, <1>a, <1>b, <1>c
    <3>4. CASE /\ remote' = [remote EXCEPT ![c] = Append(@, OutgoingOf(r))]
               /\ Steps(h, "map", Len(remote[c]) + 1) \/ Steps(h, "fail", r.landed)
      <4>1. /\ c \in Entities /\ OutgoingOf(r) \in Payloads
            /\ remote \in [Entities -> Seq(Payloads)] /\ remote[c] \in Seq(Payloads)
        BY <2>0, <2>a, <3>2, OutgoingType DEF TypeInv
      <4>2. /\ remote'[c] = Append(remote[c], OutgoingOf(r))
            /\ \A e \in Entities \ {c} : remote'[e] = remote[e]
        BY <3>4, <4>1
      <4>3. /\ Len(remote[c]) \in Nat /\ remote'[c][Len(remote[c]) + 1] = OutgoingOf(r)
            /\ \A j \in DOMAIN remote[c] : remote'[c][j] = remote[c][j]
        BY <4>1, <4>2, Appended
      <4>4. AllKept
        BY <3>1, <4>2, <4>3 DEF Kept
      <4>5. Tells(c, OutgoingOf(r), Len(remote[c]) + 1, remote', mapping')
        BY <4>3 DEF Tells
      <4>6. CallersFine
        <5>1. CASE Steps(h, "map", Len(remote[c]) + 1)
          BY <3>2, <4>3, <4>4, <4>5, <5>1, StepsObjects
        <5>2. CASE Steps(h, "fail", r.landed)
          BY <3>2, <4>4, <5>2, StepsObjects
        <5>3. QED
          BY <3>4, <5>1, <5>2
      <4>7. QED
        BY <3>1, <4>4, <4>6, <1>a, <1>c
    <3>5. QED
      BY <3>1, <3>3, <3>4
  <2>8. CASE Update(h)
    <3>1. PICK k : k = KnownOf(r)
      OBVIOUS
    <3>2. /\ r.pc = "send" /\ UNCHANGED <<mapping, log>> /\ Kind[c] # "taxonomy"
          /\ remote' = [remote EXCEPT ![c] = [@ EXCEPT ![k] = OutgoingOf(r)]]
          /\ Steps(h, "map", k) \/ Steps(h, "fail", r.landed)
      BY <2>8, <3>1, UpdateDoes
    <3>3. /\ r.pc \in Working /\ r.landed = 0 /\ "map" \in Working /\ "fail" \in Working
          /\ k \in Nat /\ c \in Entities
      BY <2>0, <2>a, <3>1, <3>2 DEF CallerType, Working
    <3>4. \A e \in Entities \ {c} : remote'[e] = remote[e]
      BY <3>2, <3>3 DEF TypeInv
    <3>5. AllKept
      BY <3>2, <3>4 DEF Kept
    <3>6. Tells(c, OutgoingOf(r), k, remote', mapping')
      BY <3>2 DEF Tells
    <3>7. CallersFine
      <4>1. CASE Steps(h, "map", k)
        BY <3>3, <3>5, <3>6, <4>1, StepsObjects
      <4>2. CASE Steps(h, "fail", r.landed)
        BY <3>3, <3>5, <4>2, StepsObjects
      <4>3. QED
        BY <3>2, <4>1, <4>2
    <3>8. QED
      BY <3>2, <3>5, <3>7, <1>a, <1>c
  <2>9. CASE UpdateTaxonomy(h) \/ SendFails(h)
    <3>1. /\ r.pc = "send" /\ UNCHANGED <<remote, mapping, log>>
          /\ Steps(h, "map", KnownOf(r)) \/ Steps(h, "fail", r.landed)
      BY <2>9, UpdateTaxonomyDoes, SendFailsDoes
    <3>2. r.pc \in Working /\ "map" \in Working /\ "fail" \in Working
      BY <3>1 DEF Working
    <3>3. /\ Tells(c, OutgoingOf(r), KnownOf(r), remote', mapping') /\ KnownOf(r) \in Nat
          /\ Tells(c, OutgoingOf(r), r.landed, remote', mapping') /\ r.landed \in Nat /\ AllKept
      BY <2>a, <3>1, <3>2, <1>b
    <3>4. CallersFine
      <4>1. CASE Steps(h, "map", KnownOf(r))
        BY <3>2, <3>3, <4>1, StepsObjects
      <4>2. CASE Steps(h, "fail", r.landed)
        BY <3>2, <3>3, <4>2, StepsObjects
      <4>3. QED
        BY <3>1, <4>1, <4>2
    <3>5. QED
      BY <3>1, <3>4, <1>a, <1>b, <1>c
  <2>10. CASE SaveMapping(h)
    <3>1. /\ r.pc = "map" /\ UNCHANGED <<remote, log>> /\ mapping' \in {mapping, Saved(r)}
          /\ Steps(h, "ok", r.landed) \/ Steps(h, "fail", r.landed)
      BY <2>10, SaveMappingDoes
    <3>2. r.pc \in Working /\ "ok" \in Working /\ "fail" \in Working
      BY <3>1 DEF Working
    <3>3. PICK new : new = [id |-> r.landed, hash |-> OutgoingOf(r)]
      OBVIOUS
    <3>4. /\ new \in Mappings /\ c \in Entities /\ mapping[c] \in Seq(Mappings)
          /\ \A e \in Entities \ {c} : Saved(r)[e] = mapping[e]
          /\ r.seen[c].row = 0 => Saved(r)[c] = Append(mapping[c], new)
          /\ r.seen[c].row # 0 => Saved(r)[c] = [mapping[c] EXCEPT ![r.seen[c].row] = new]
      BY <2>0, <2>a, <3>2, <3>3, SavedType DEF TypeInv
    <3>5. Saved(r)[c] # <<>>
      <4>1. CASE r.seen[c].row = 0
        BY <3>4, <4>1
      <4>2. CASE r.seen[c].row # 0
        <5>1. Len(Saved(r)[c]) = Len(mapping[c]) /\ mapping[c] # <<>>
          BY <2>0, <3>4, <4>2, Rewritten DEF CallerObjects
        <5>2. QED
          BY <3>4, <5>1
      <4>3. QED
        BY <4>1, <4>2
    <3>6. AllKept
      BY <3>1, <3>4, <3>5 DEF Kept
    <3>7. r.landed \in Nat /\ Tells(c, OutgoingOf(r), r.landed, remote', mapping')
      <4>1. r.landed \in Nat /\ Tells(c, OutgoingOf(r), r.landed, remote, mapping)
        BY <2>a, <3>2
      <4>2. Points(c, r.landed, remote)
        BY <2>0 DEF CallerRefs, Points
      <4>3. QED
        BY <3>4, <3>6, <4>1, <4>2, KeptTells
    <3>8. CallersFine
      <4>1. CASE Steps(h, "ok", r.landed)
        BY <3>2, <3>6, <3>7, <4>1, StepsObjects
      <4>2. CASE Steps(h, "fail", r.landed)
        BY <3>2, <3>6, <3>7, <4>2, StepsObjects
      <4>3. QED
        BY <3>1, <4>1, <4>2
    <3>9. QED
      BY <3>1, <3>6, <3>8, <1>a, <1>c
  <2>11. CASE LogOk(h)
    <3>1. PICK row : row = [status |-> "ok", id |-> r.landed, payload |-> OutgoingOf(r)]
      OBVIOUS
    <3>2. /\ r.pc = "ok" /\ UNCHANGED <<remote, mapping>>
          /\ Leaves(h, r.resolved[c]) \/ Leaves(h, r.landed) \/ Steps(h, "fail", r.landed)
          /\ log' = log \/ log' = [log EXCEPT ![c] = row]
      BY <2>11, <3>1, LogOkDoes
    <3>3. r.pc \in Working /\ "fail" \in Working
      BY <3>2 DEF Working
    <3>4. Tells(c, row.payload, row.id, remote, mapping)
      BY <2>a, <3>1, <3>3
    <3>5. LogFine
      BY <2>a, <3>2, <3>3, <3>4, LoggedTells
    <3>6. CallersFine
      <4>1. CASE Leaves(h, r.resolved[c]) \/ Leaves(h, r.landed)
        BY <2>a, <3>2, <3>3, <4>1, <1>b, LeavesObjects
      <4>2. CASE Steps(h, "fail", r.landed)
        <5>1. r.landed \in Nat /\ Tells(c, OutgoingOf(r), r.landed, remote', mapping')
          BY <2>a, <3>2, <3>3
        <5>2. QED
          BY <3>2, <3>3, <4>2, <5>1, <1>b, StepsObjects
      <4>3. QED
        BY <3>2, <4>1, <4>2
    <3>7. QED
      BY <3>5, <3>6, <1>a
  <2>12. CASE LogFailed(h)
    <3>1. PICK id \in {KnownOf(r), r.landed} :
            /\ r.pc = "fail" /\ UNCHANGED <<remote, mapping>>
            /\ Leaves(h, r.resolved[c]) \/ Leaves(h, id)
            /\ \/ log' = log
               \/ log' = [log EXCEPT ![c] = [status |-> "failed", id |-> id,
                                             payload |-> OutgoingOf(r)]]
      BY <2>12, LogFailedDoes
    <3>2. PICK row : row = [status |-> "failed", id |-> id, payload |-> OutgoingOf(r)]
      OBVIOUS
    <3>3. r.pc \in Working
      BY <3>1 DEF Working
    <3>4. id \in Nat /\ Tells(c, row.payload, row.id, remote, mapping)
      BY <2>a, <3>1, <3>2, <3>3
    <3>5. LogFine
      BY <2>a, <3>1, <3>2, <3>3, <3>4, LoggedTells
    <3>6. CallersFine
      BY <2>a, <3>1, <3>3, <3>4, <1>b, LeavesObjects
    <3>7. QED
      BY <3>5, <3>6, <1>a
  <2>13. CASE Die(h)
    BY <2>13, <2>b, DieDoes, IdleObjects
  <2>14. CASE SentAgain(h)
    <3>1. /\ c \in Entities /\ UNCHANGED <<local, remote, log, claim, caller>>
          /\ \A e \in Entities \ {c} : mapping'[e] = mapping[e]
          /\ \E new \in Mappings : mapping'[c] = Append(mapping[c], new)
      BY <2>14, SentAgainDoes
    <3>2. mapping[c] \in Seq(Mappings)
      BY <3>1 DEF TypeInv
    <3>3. mapping'[c] # <<>>
      <4>1. PICK new \in Mappings : mapping'[c] = Append(mapping[c], new)
        BY <3>1
      <4>2. Len(mapping'[c]) = Len(mapping[c]) + 1 /\ Len(mapping[c]) \in Nat
        BY <3>2, <4>1, Appended
      <4>3. QED
        BY <4>2
    <3>4. AllKept
      BY <3>1, <3>3 DEF Kept
    <3>5. ASSUME NEW g \in Holders PROVE CallerObjects(caller[g], remote', mapping')
      BY <3>4, KeptTells DEF TypeInv, RefsInv, ObjectsInv
    <3>6. CallersFine
      BY <3>1, <3>5
    <3>7. QED
      BY <3>1, <3>4, <3>6, <1>a, <1>c
  <2>15. QED
    BY <1>4, <2>1, <2>2, <2>3, <2>4, <2>5, <2>6, <2>7, <2>8, <2>9, <2>10, <2>11, <2>12, <2>13,
       <2>14 DEF Attempt, Reads
<1>5. QED
  BY <1>1, <1>2, <1>3, <1>4 DEF Next

(* Nothing is told at the start.                                             *)
LEMMA ObjectsInit ==
  ASSUME Init
  PROVE  ObjectsInv
<1>1. \A e \in Entities : Tells(e, log[e].payload, log[e].id, remote, mapping)
  BY DEF Init, NoRow, Tells
<1>2. \A h \in Holders : CallerObjects(caller[h], remote, mapping)
  BY IdleObjects DEF Init
<1>3. QED
  BY <1>1, <1>2 DEF ObjectsInv

(* The objects, for any entities, walks, sweeps, edits and faults.           *)
LEMMA ObjectsStay == Spec => []ObjectsInv
<1>1. Init => ObjectsInv
  BY ObjectsInit
<1>2. TypeInv /\ RefsInv /\ ObjectsInv /\ [Next]_vars => ObjectsInv'
  BY ObjectsStep
<1>3. QED
  BY <1>1, <1>2, TypesStay, RefsStay, PTL DEF Spec

-----------------------------------------------------------------------------
(* Hashes.                                                                   *)

\* A caller about to save a mapping landed at an object that holds what it sent.
Sent(r, rem, lo) ==
    r.pc = "map" /\ Kind[CurrentOf(r)] # "speaker" /\ CurrentOf(r) \notin lo =>
        rem[CurrentOf(r)][r.landed] = OutgoingOf(r)

SentInv == \A h \in Holders : Sent(caller[h], remote, loose)

(* That goes on when h turns into one of which it is true.                   *)
LEMMA TurnSent ==
  ASSUME TypeInv, loose \subseteq loose', NEW h \in Holders, NEW n, Turns(h, n), Sent(n, remote', loose),
         \A g \in Holders \ {h} : Sent(caller[g], remote', loose)
  PROVE  SentInv'
<1>1. ASSUME NEW g \in Holders, g # h PROVE Sent(caller'[g], remote', loose)
  <2>1. caller[g] \in CallerStates /\ Alike(caller[g], caller'[g]) /\ Sent(caller[g], remote', loose)
    BY <1>1 DEF TypeInv, Turns
  <2>2. SameWork(caller[g], caller'[g])
    BY <2>1, AlikeFields DEF SameWork
  <2>3. QED
    BY <2>1, <2>2 DEF SameWork, Sent
<1>2. \A g \in Holders : Sent(caller'[g], remote', loose)
  BY <1>1 DEF Turns
<1>3. QED
  BY <1>2 DEF SentInv, Sent

(* Who leaves its entity, or goes to a call other than the mapping's, saves  *)
(* none.                                                                     *)
LEMMA NotAtMap ==
  ASSUME NEW r \in CallerStates, NEW id \in Nat, NEW rem, NEW lo
  PROVE  /\ Sent(Idle, rem, lo)
         /\ r.todo # {} => Sent(Passed(r, id), rem, lo)
         /\ \A stage \in Stages \ {"map"} : Sent(Goes(r, stage, id), rem, lo)
         /\ (CurrentOf(r) \notin lo => rem[CurrentOf(r)][id] = OutgoingOf(r))
              => Sent(Goes(r, "map", id), rem, lo)
         /\ Kind[CurrentOf(r)] = "speaker" => Sent(Goes(r, "map", id), rem, lo)
<1>1. Sent(Idle, rem, lo)
  BY Nothings DEF Sent
<1>2. ASSUME r.todo # {} PROVE Sent(Passed(r, id), rem, lo)
  <2>1. PICK s : s = Passed(r, id)
    OBVIOUS
  <2>2. s.pc = "next"
    BY <1>2, <2>1, PassedFields
  <2>3. QED
    BY <2>1, <2>2 DEF Sent
<1>3. ASSUME NEW stage \in Stages
      PROVE  /\ Goes(r, stage, id).pc = stage /\ Goes(r, stage, id).landed = id
             /\ CurrentOf(Goes(r, stage, id)) = CurrentOf(r)
             /\ OutgoingOf(Goes(r, stage, id)) = OutgoingOf(r)
  BY GoesFields
<1>4. \A stage \in Stages \ {"map"} : Sent(Goes(r, stage, id), rem, lo)
  BY <1>3 DEF Sent
<1>5. "map" \in Stages
  BY DEF Stages
<1>6. /\ (CurrentOf(r) \notin lo => rem[CurrentOf(r)][id] = OutgoingOf(r))
           => Sent(Goes(r, "map", id), rem, lo)
      /\ Kind[CurrentOf(r)] = "speaker" => Sent(Goes(r, "map", id), rem, lo)
  BY <1>3, <1>5 DEF Sent
<1>7. QED
  BY <1>1, <1>2, <1>4, <1>6

(* Writing to the entity h holds touches nothing another caller landed at.   *)
LEMMA OthersSent ==
  ASSUME TypeInv, LeaseInv, SentInv, NEW h \in Holders, caller[h].pc = "send",
         \A e \in Entities \ {CurrentOf(caller[h])} : remote'[e] = remote[e]
  PROVE  \A g \in Holders \ {h} : Sent(caller[g], remote', loose)
<1>1. SUFFICES ASSUME NEW g \in Holders, g # h, caller[g].pc = "map",
                      CurrentOf(caller[g]) \notin loose
               PROVE  Sent(caller[g], remote', loose)
  BY DEF Sent
<1>2. CurrentOf(caller[g]) \in Entities
  BY <1>1, CurrentIn DEF TypeInv, CallerType, Working
<1>3. /\ HeldBy(claim[CurrentOf(caller[g])], g)
      /\ CurrentOf(caller[h]) \notin loose => HeldBy(claim[CurrentOf(caller[h])], h)
  BY <1>1 DEF LeaseInv, CallerLease, CallerHolds
<1>4. CurrentOf(caller[g]) # CurrentOf(caller[h])
  BY <1>1, <1>3 DEF HeldBy
<1>5. remote'[CurrentOf(caller[g])] = remote[CurrentOf(caller[g])]
  BY <1>2, <1>4
<1>6. QED
  BY <1>5 DEF SentInv, Sent

(* Every step keeps it, where leases do.                                     *)
LEMMA SentStep ==
  ASSUME TypeInv, RefsInv, ObjectsInv, LeaseInv, SentInv, [Next]_vars
  PROVE  SentInv'
<1>0. loose \subseteq loose'
  BY LooseGrows
<1>1. CASE UNCHANGED vars
  BY <1>1 DEF vars, SentInv
<1>2. ASSUME NEW e \in Edited, Edit(e) PROVE SentInv'
  <2>1. UNCHANGED <<remote, caller>>
    BY <1>2 DEF Edit
  <2>2. QED
    BY <1>0, <2>1 DEF SentInv, Sent
<1>3. CASE Tick
  <2>1. (\A h \in Holders : Aging(caller[h], caller'[h])) /\ UNCHANGED remote
    BY <1>3, TickDoes
  <2>2. ASSUME NEW h \in Holders PROVE Sent(caller'[h], remote', loose)
    <3>1. /\ caller[h] \in CallerStates /\ Aging(caller[h], caller'[h])
          /\ Sent(caller[h], remote', loose)
      BY <2>1 DEF TypeInv, SentInv
    <3>2. CASE caller[h].pc = "idle"
      BY <3>1, <3>2, Nothings DEF Aging, Sent
    <3>3. CASE caller[h].pc # "idle"
      <4>1. SameWork(caller[h], caller'[h])
        BY <3>1, <3>3, AgingFields DEF SameWork
      <4>2. QED
        BY <3>1, <4>1 DEF SameWork, Sent
    <3>4. QED
      BY <3>2, <3>3
  <2>3. QED
    BY <1>0, <2>2 DEF SentInv, Sent
<1>4. ASSUME NEW h \in Holders,
             \/ StartWalk(h) \/ StartSweep(h) \/ Reads(h) \/ Block(h) \/ Attempt(h) \/ Die(h)
      PROVE  SentInv'
  <2> DEFINE r == caller[h]
             c == CurrentOf(r)
  <2>0. r \in CallerStates /\ CallerType(r)
    BY Reading
  <2>a. r.pc \in {"next"} \cup Working =>
          /\ r.todo # {} /\ c \in Entities /\ r.resolved[c] \in Nat
          /\ r.landed \in Nat /\ KnownOf(r) \in Nat /\ OutgoingOf(r) \in Payloads
    <3>1. SUFFICES ASSUME r.pc \in {"next"} \cup Working
                   PROVE  /\ r.todo # {} /\ c \in Entities /\ r.resolved[c] \in Nat
                          /\ r.landed \in Nat /\ KnownOf(r) \in Nat /\ OutgoingOf(r) \in Payloads
      OBVIOUS
    <3>2. r.todo # {} /\ c \in Entities
      BY <2>0, <3>1, CurrentIn DEF CallerType
    <3>3. QED
      BY <2>0, <3>2, KnownType, OutgoingType DEF CallerStates
  <2>b. ASSUME NEW n, Turns(h, n), UNCHANGED remote, Sent(n, remote', loose)
        PROVE  SentInv'
    <3>1. \A g \in Holders : Sent(caller[g], remote', loose)
      BY <2>b DEF SentInv
    <3>2. QED
      BY <2>b, <3>1, <1>0, TurnSent
  <2>c. ASSUME NEW id \in Nat, Leaves(h, id), r.todo # {}, UNCHANGED remote
        PROVE  SentInv'
    <3>1. Sent(Idle, remote', loose) /\ Sent(Passed(r, id), remote', loose)
      BY <2>0, <2>c, NotAtMap
    <3>2. QED
      BY <2>b, <2>c, <3>1 DEF Leaves
  <2>d. ASSUME NEW stage \in {"send", "ok", "fail"}, NEW id \in Nat, Steps(h, stage, id),
               UNCHANGED remote
        PROVE  SentInv'
    <3>1. Sent(Goes(r, stage, id), remote', loose)
      BY <2>0, NotAtMap DEF Stages
    <3>2. QED
      BY <2>b, <2>d, <3>1 DEF Steps
  <2>1. CASE StartWalk(h) \/ StartSweep(h)
    <3>1. UNCHANGED remote /\ \E n : Turns(h, n) /\ n.pc = "read"
      BY <2>1, StartDoes DEF Begun
    <3>2. QED
      BY <3>1, <2>b DEF Sent
  <2>2. CASE Reads(h)
    <3>1. UNCHANGED remote /\ \E n : Turns(h, n) /\ n.pc # "map"
      <4>1. \A n, rest : After(r, n, rest) => n.pc # "map"
        BY DEF After
      <4>2. Idle.pc # "map"
        BY Nothings
      <4>3. UNCHANGED remote /\ (Turns(h, Idle) \/ \E n, rest : Turns(h, n) /\ After(r, n, rest))
        <5>1. CASE ReadMappings(h)
          BY <5>1, ReadMappingsDoes
        <5>2. CASE ReadRecords(h)
          BY <5>2, ReadRecordsDoes
        <5>3. CASE ReadLog(h)
          BY <5>3, ReadLogDoes
        <5>4. QED
          BY <2>2, <5>1, <5>2, <5>3 DEF Reads
      <4>4. QED
        BY <4>1, <4>2, <4>3
    <3>2. QED
      BY <3>1, <2>b DEF Sent
  <2>3. CASE Block(h) \/ Skip(h)
    <3>1. r.pc = "next" /\ Leaves(h, r.resolved[c]) /\ UNCHANGED remote
      BY <2>3, BlockDoes, SkipDoes
    <3>2. QED
      BY <3>1, <2>a, <2>c
  <2>4. CASE Claim(h)
    <3>1. /\ r.pc = "next" /\ UNCHANGED remote
          /\ Leaves(h, r.resolved[c]) \/ Steps(h, "send", r.landed)
      BY <2>4, ClaimDoes
    <3>2. QED
      BY <3>1, <2>a, <2>c, <2>d
  <2>5. CASE Create(h)
    <3>1. /\ r.pc = "send"
          /\ \/ Kind[c] = "speaker" /\ Steps(h, "map", 1) /\ UNCHANGED remote
             \/ /\ remote' = [remote EXCEPT ![c] = Append(@, OutgoingOf(r))]
                /\ Steps(h, "map", Len(remote[c]) + 1) \/ Steps(h, "fail", r.landed)
      BY <2>5, CreateDoes
    <3>2. CASE Kind[c] = "speaker" /\ Steps(h, "map", 1) /\ UNCHANGED remote
      <4>1. Sent(Goes(r, "map", 1), remote', loose)
        BY <2>0, <3>2, NotAtMap
      <4>2. QED
        BY <3>2, <4>1, <2>b DEF Steps
    <3>3. CASE /\ remote' = [remote EXCEPT ![c] = Append(@, OutgoingOf(r))]
               /\ Steps(h, "map", Len(remote[c]) + 1) \/ Steps(h, "fail", r.landed)
      <4>1. /\ c \in Entities /\ OutgoingOf(r) \in Payloads /\ r.landed \in Nat /\ r.todo # {}
            /\ remote \in [Entities -> Seq(Payloads)] /\ remote[c] \in Seq(Payloads)
        BY <2>a, <3>1 DEF TypeInv, Working
      <4>2. /\ remote'[c] = Append(remote[c], OutgoingOf(r))
            /\ \A e \in Entities \ {c} : remote'[e] = remote[e]
        BY <3>3, <4>1
      <4>3. Len(remote[c]) + 1 \in Nat /\ remote'[c][Len(remote[c]) + 1] = OutgoingOf(r)
        BY <4>1, <4>2, Appended
      <4>4. \A g \in Holders \ {h} : Sent(caller[g], remote', loose)
        BY <3>1, <4>2, OthersSent
      <4>5. CASE Steps(h, "map", Len(remote[c]) + 1)
        <5>1. Sent(Goes(r, "map", Len(remote[c]) + 1), remote', loose)
          BY <2>0, <4>1, <4>3, NotAtMap
        <5>2. QED
          BY <4>4, <4>5, <5>1, <1>0, TurnSent DEF Steps
      <4>6. CASE Steps(h, "fail", r.landed)
        <5>1. Sent(Goes(r, "fail", r.landed), remote', loose)
          BY <2>0, <4>1, NotAtMap DEF Stages
        <5>2. QED
          BY <4>4, <4>6, <5>1, <1>0, TurnSent DEF Steps
      <4>7. QED
        BY <3>3, <4>5, <4>6
    <3>4. QED
      BY <3>1, <3>2, <3>3
  <2>6. CASE Update(h)
    <3>1. PICK k : k = KnownOf(r)
      OBVIOUS
    <3>2. /\ r.pc = "send" /\ k # 0
          /\ remote' = [remote EXCEPT ![c] = [@ EXCEPT ![k] = OutgoingOf(r)]]
          /\ Steps(h, "map", k) \/ Steps(h, "fail", r.landed)
      BY <2>6, <3>1, UpdateDoes
    <3>3. /\ c \in Entities /\ OutgoingOf(r) \in Payloads /\ r.landed \in Nat /\ r.todo # {}
          /\ k \in Nat /\ remote \in [Entities -> Seq(Payloads)] /\ remote[c] \in Seq(Payloads)
      BY <2>a, <3>1, <3>2 DEF TypeInv, Working
    <3>4. k \in DOMAIN remote[c]
      BY <2>0, <3>1, <3>2, <3>3, KnownPoints DEF RefsInv, Points
    <3>5. /\ remote'[c] = [remote[c] EXCEPT ![k] = OutgoingOf(r)]
          /\ \A e \in Entities \ {c} : remote'[e] = remote[e]
      BY <3>2, <3>3
    <3>6. remote'[c][k] = OutgoingOf(r)
      BY <3>3, <3>4, <3>5, Rewritten
    <3>7. \A g \in Holders \ {h} : Sent(caller[g], remote', loose)
      BY <3>2, <3>5, OthersSent
    <3>8. CASE Steps(h, "map", k)
      <4>1. Sent(Goes(r, "map", k), remote', loose)
        BY <2>0, <3>3, <3>6, NotAtMap
      <4>2. QED
        BY <3>7, <3>8, <4>1, <1>0, TurnSent DEF Steps
    <3>9. CASE Steps(h, "fail", r.landed)
      <4>1. Sent(Goes(r, "fail", r.landed), remote', loose)
        BY <2>0, <3>3, NotAtMap DEF Stages
      <4>2. QED
        BY <3>7, <3>9, <4>1, <1>0, TurnSent DEF Steps
    <3>10. QED
      BY <3>2, <3>8, <3>9
  <2>7. CASE UpdateTaxonomy(h)
    <3>1. /\ r.pc = "send" /\ KnownOf(r) # 0 /\ Kind[c] = "taxonomy" /\ UNCHANGED remote
          /\ \/ r.seen[c].row = 0 /\ Steps(h, "map", KnownOf(r))
             \/ Steps(h, "fail", r.landed)
      BY <2>7, UpdateTaxonomyDoes
    <3>2. c \in Entities /\ r.todo # {} /\ KnownOf(r) \in Nat /\ r.landed \in Nat
      BY <2>a, <3>1 DEF Working
    <3>3. CASE r.seen[c].row = 0 /\ Steps(h, "map", KnownOf(r))
      <4>1. /\ c \notin loose => r.seen[c].row = Len(mapping[c])
            /\ mapping[c] \in Seq(Mappings)
        BY <3>1, <3>2 DEF LeaseInv, CallerLease, CallerSees, TypeInv
      <4>2. c \notin loose => mapping[c] = <<>>
        BY <3>3, <4>1
      <4>3. Tells(c, OutgoingOf(r), KnownOf(r), remote, mapping)
        BY <2>0, <3>2, KnownTells DEF ObjectsInv
      <4>4. c \notin loose => remote'[c][KnownOf(r)] = OutgoingOf(r)
        BY <3>1, <4>2, <4>3 DEF Tells
      <4>5. Sent(Goes(r, "map", KnownOf(r)), remote', loose)
        BY <2>0, <3>2, <4>4, NotAtMap
      <4>6. QED
        BY <3>1, <3>3, <4>5, <2>b DEF Steps
    <3>4. CASE Steps(h, "fail", r.landed)
      BY <3>1, <3>2, <3>4, <2>d
    <3>5. QED
      BY <3>1, <3>3, <3>4
  <2>8. CASE SendFails(h) \/ SaveMapping(h)
    <3>1. /\ r.pc \in Working /\ UNCHANGED remote
          /\ Steps(h, "ok", r.landed) \/ Steps(h, "fail", r.landed)
      BY <2>8, SendFailsDoes, SaveMappingDoes DEF Working
    <3>2. QED
      BY <3>1, <2>a, <2>d
  <2>9. CASE LogOk(h)
    <3>1. /\ r.pc \in Working /\ UNCHANGED remote
          /\ Leaves(h, r.resolved[c]) \/ Leaves(h, r.landed) \/ Steps(h, "fail", r.landed)
      BY <2>9, LogOkDoes DEF Working
    <3>2. QED
      BY <3>1, <2>a, <2>c, <2>d
  <2>10. CASE LogFailed(h)
    <3>1. /\ r.pc \in Working /\ UNCHANGED remote
          /\ \E id \in {KnownOf(r), r.landed} : Leaves(h, r.resolved[c]) \/ Leaves(h, id)
      BY <2>10, LogFailedDoes DEF Working
    <3>2. QED
      BY <3>1, <2>a, <2>c
  <2>11. CASE Die(h)
    <3>1. Turns(h, Idle) /\ UNCHANGED remote /\ Sent(Idle, remote', loose)
      BY <2>0, <2>11, DieDoes, NotAtMap
    <3>2. QED
      BY <3>1, <2>b
  <2>12. CASE SentAgain(h)
    <3>1. UNCHANGED <<remote, caller>>
      BY <2>12, SentAgainDoes
    <3>2. QED
      BY <1>0, <3>1 DEF SentInv, Sent
  <2>13. QED
    BY <1>4, <2>1, <2>2, <2>3, <2>4, <2>5, <2>6, <2>7, <2>8, <2>9, <2>10, <2>11, <2>12 DEF Attempt
<1>5. QED
  BY <1>1, <1>2, <1>3, <1>4 DEF Next

(* Only saving a mapping changes the mappings of what does not get loose.    *)
LEMMA MappingsChange ==
  ASSUME TypeInv, [Next]_vars, NEW e \in Entities \ loose', mapping'[e] # mapping[e]
  PROVE  \E h \in Holders : SaveMapping(h)
<1>0. ASSUME NEW h \in Holders PROVE ~ SentAgain(h)
  BY <1>0, SentAgainDoes
<1>1. ~ UNCHANGED vars /\ (\A d \in Edited : ~ Edit(d)) /\ ~ Tick
  BY DEF vars, Edit, Tick
<1>2. ASSUME NEW h \in Holders
      PROVE  ~ (StartWalk(h) \/ StartSweep(h) \/ Reads(h) \/ Block(h) \/ Die(h))
  BY DEF StartWalk, StartSweep, Reads, ReadMappings, ReadRecords, ReadLog, Block, Die
<1>3. ASSUME NEW h \in Holders
      PROVE  ~ (Skip(h) \/ Claim(h) \/ Create(h) \/ Update(h) \/ UpdateTaxonomy(h)
                  \/ SendFails(h) \/ LogOk(h) \/ LogFailed(h))
  BY DEF Skip, Claim, Create, Update, UpdateTaxonomy, SendFails, LogOk, LogFailed
<1>4. QED
  BY <1>0, <1>1, <1>2, <1>3 DEF Next, Attempt

(* A mapping that is saved names an object, and its hash is what that object *)
(* holds.                                                                    *)
LEMMA SavedIsTrue ==
  ASSUME TypeInv, RefsInv, LeaseInv, SentInv, [Next]_vars,
         NEW e \in Entities \ loose', mapping'[e] # mapping[e], Kind[e] # "speaker"
  PROVE  \E i \in DOMAIN mapping'[e] :
            LET m == mapping'[e][i] IN m.id \in DOMAIN remote[e] /\ remote[e][m.id] = m.hash
<1>1. PICK h \in Holders : SaveMapping(h)
  BY MappingsChange
<1> DEFINE r == caller[h]
           c == CurrentOf(r)
<1>2. /\ r.pc = "map" /\ mapping' \in {mapping, Saved(r)} /\ r \in CallerStates
      /\ r.todo # {} /\ r.landed # 0
  BY <1>1, SaveMappingDoes DEF TypeInv, CallerType, Working
<1>3. PICK new : new = [id |-> r.landed, hash |-> OutgoingOf(r)]
  OBVIOUS
<1>4. /\ new \in Mappings /\ c \in Entities /\ mapping[c] \in Seq(Mappings)
      /\ \A d \in Entities \ {c} : Saved(r)[d] = mapping[d]
      /\ r.seen[c].row = 0 => Saved(r)[c] = Append(mapping[c], new)
      /\ r.seen[c].row # 0 => Saved(r)[c] = [mapping[c] EXCEPT ![r.seen[c].row] = new]
  BY <1>2, <1>3, SavedType DEF TypeInv
<1>5. e = c /\ mapping' = Saved(r) /\ c \notin loose
  BY <1>2, <1>4, LooseGrows
<1>6. r.seen[c].row = Len(mapping[c])
  BY <1>2, <1>5 DEF LeaseInv, CallerLease, CallerSees
<1>7. r.landed \in DOMAIN remote[c] /\ remote[c][r.landed] = OutgoingOf(r)
  BY <1>2, <1>5 DEF RefsInv, CallerRefs, SentInv, Sent
<1>8. \E i \in DOMAIN mapping'[e] : mapping'[e][i] = new
  <2>1. CASE r.seen[c].row = 0
    <3>1. Len(mapping[c]) + 1 \in DOMAIN mapping'[e] /\ mapping'[e][Len(mapping[c]) + 1] = new
      BY <1>4, <1>5, <2>1, Appended
    <3>2. QED
      BY <3>1
  <2>2. CASE r.seen[c].row # 0
    <3>1. Len(mapping[c]) \in DOMAIN mapping[c]
      BY <1>4, <1>6, <2>2
    <3>2. r.seen[c].row \in DOMAIN mapping'[e] /\ mapping'[e][r.seen[c].row] = new
      BY <1>4, <1>5, <1>6, <2>2, <3>1, Rewritten
    <3>3. QED
      BY <3>2
  <2>3. QED
    BY <2>1, <2>2
<1>9. QED
  BY <1>3, <1>5, <1>7, <1>8

(* A mapping names an object that exists, and the hash that lets later walks *)
(* skip the entity is that of what this very object holds, unless somebody   *)
(* was at the entity half a lease after it began, or its mapping was created *)
(* again: for leases and invocations of any length.                          *)
THEOREM HashesAreTrue == Spec => HashWasAccepted
<1>1. Init => SentInv
  <2> SUFFICES ASSUME Init PROVE SentInv
    OBVIOUS
  <2>1. Idle.pc # "map"
    BY Nothings
  <2>2. QED
    BY <2>1 DEF Init, SentInv, Sent
<1>2. TypeInv /\ RefsInv /\ ObjectsInv /\ LeaseInv /\ SentInv /\ [Next]_vars => SentInv'
  BY SentStep
<1>3. TypeInv /\ RefsInv /\ LeaseInv /\ SentInv /\ [Next]_vars
        => [\A e \in Entities \ loose' : mapping'[e] # mapping[e] /\ Kind[e] # "speaker" =>
              \E i \in DOMAIN mapping'[e] :
                LET m == mapping'[e][i]
                IN  m.id \in DOMAIN remote[e] /\ remote[e][m.id] = m.hash]_vars
  BY SavedIsTrue
<1>4. QED
  BY <1>1, <1>2, <1>3, TypesStay, RefsStay, ObjectsStay, LeasesStay, PTL DEF Spec, HashWasAccepted
=============================================================================
