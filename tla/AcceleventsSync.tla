--------------------------- MODULE AcceleventsSync ---------------------------
(***************************************************************************)
(* The push of accepted sessions, their speakers and taxonomy to           *)
(* Accelevents: forward walks (Sync now, an accept, the agenda's control)  *)
(* and the cron sweep that replays failed attempts from their log rows.    *)
(*                                                                         *)
(* A create has no key Accelevents would recognise, and Airtable no unique *)
(* column for the mapping that records it.  What stands between the two    *)
(* and duplicates is a lease per entity, taken by walks and sweeps alike,  *)
(* and never handed back.  The mappings are read ONCE, before any lease.   *)
(*                                                                         *)
(* Every call can fail: refused, or carried out with its answer lost; an   *)
(* invocation can end between any two calls.  MaxFaults bounds how often.  *)
(* A read that fails ends the invocation, so it needs no action of its own.*)
(* Airtable's scheduler sends a call again that failed: an update or a log *)
(* row that is there twice says the same, but a mapping row counts.        *)
(***************************************************************************)
EXTENDS ClaimKey, Sequences, FiniteSets

CONSTANTS Entities,    \* numbered in dependency order: taxonomy, speakers, sessions
          Kind,        \* [Entities -> Kinds]
          Needs,       \* [Entities -> the entities a payload refers to by remote id]
          Walkers,     \* the holders that walk
          Sweepers,    \* the holders that sweep
          Edited,      \* the entities an organizer edits while all this goes on
          MaxVersion,  \* edits of such an entity, plus one
          MaxFaults,   \* failed calls and deaths, all told
          Lease,       \* ACCEL_LEASE_MS and ACCEL_PUSH_LEASE_MS, in ticks
          Span         \* the ticks an invocation lasts at most

Kinds == {"taxonomy", "speaker", "submission"}

ASSUME EntitiesAssumption ==
    /\ Entities \subseteq Nat
    /\ Kind \in [Entities -> Kinds]
    /\ Needs \in [Entities -> SUBSET Entities]
    /\ \A e \in Entities : \A d \in Needs[e] : d < e
    /\ Edited \subseteq Entities
ASSUME CallersAssumption == Holders = Walkers \cup Sweepers
ASSUME BoundsAssumption ==
    /\ MaxVersion \in Nat \ {0}
    /\ MaxFaults \in Nat
    /\ Lease \in Nat \ {0}
    /\ Span \in Nat

VARIABLES local,    \* [Entities -> the version an organizer sees]
          remote,   \* [Entities -> the objects Accelevents holds, as last written]
          mapping,  \* [Entities -> the IntegrationMappings rows]
          log,      \* [Entities -> the newest SyncLog row]
          claim,    \* [Entities -> the ClaimGuard record of accel:<identity>]
          caller,   \* [Holders -> where that invocation is]
          faults,   \* what is left of MaxFaults
          loose     \* history: the entities an invocation older than half a lease had
                    \* in hand, or whose mapping was created again after it landed

vars == <<local, remote, mapping, log, claim, caller, faults, loose>>

\* A payload is a version and the remote ids of what it refers to; its hash is
\* the payload itself.  The id of a remote object is its place in the sequence.
Payloads == [ver : 0 .. MaxVersion, refs : SUBSET (Entities \X Nat)]
NoPayload == [ver |-> 0, refs |-> {}]

Mappings == [id : Nat, hash : Payloads]
LogRows == [status : {"none", "ok", "failed"}, id : Nat, payload : Payloads]
NoRow == [status |-> "none", id |-> 0, payload |-> NoPayload]

\* What listMappings said of an entity: the row's place, 0 for none.
NoneSeen == [row |-> 0, id |-> 0, hash |-> NoPayload]

Stages == {"idle", "read", "next", "send", "map", "ok", "fail"}

Idle == [task |-> "none", pc |-> "idle", unread |-> {}, todo |-> {},
         data |-> [e \in Entities |-> 0], rows |-> [e \in Entities |-> NoRow],
         seen |-> [e \in Entities |-> NoneSeen], resolved |-> [e \in Entities |-> 0],
         landed |-> 0, late |-> FALSE, age |-> 0]

TypeOK ==
    /\ local \in [Entities -> 1 .. MaxVersion]
    /\ \A e \in Entities : /\ \A i \in DOMAIN remote[e] : remote[e][i] \in Payloads
                           /\ \A i \in DOMAIN mapping[e] : mapping[e][i] \in Mappings
                           /\ log[e] \in LogRows
                           /\ claim[e] \in Claims
    /\ \A h \in Holders :
         /\ caller[h].pc \in Stages
         /\ caller[h].pc \in {"next", "send", "map", "ok", "fail"} => caller[h].todo # {}
         /\ caller[h].pc \in {"map", "ok"} => caller[h].landed # 0
         /\ caller[h].age \in 0 .. Span
    /\ faults \in 0 .. MaxFaults
    /\ loose \subseteq Entities

Init ==
    /\ local = [e \in Entities |-> 1]
    /\ remote = [e \in Entities |-> <<>>]
    /\ mapping = [e \in Entities |-> <<>>]
    /\ log = [e \in Entities |-> NoRow]
    /\ claim = [e \in Entities |-> NoClaim]
    /\ caller = [h \in Holders |-> Idle]
    /\ faults = MaxFaults
    /\ loose = {}
-----------------------------------------------------------------------------
At(h, stage) == caller[h].pc = stage
Sweeps(h) == caller[h].task = "sweep"
Current(h) == CHOOSE e \in caller[h].todo : \A d \in caller[h].todo : e <= d

Become(h, next) == caller' = [caller EXCEPT ![h] = next]
Goto(h, stage) == [caller[h] EXCEPT !.pc = stage]

\* The invocation after it is done with its entity, whose remote id it now takes
\* to be id: the next entity, or the end.
Onward(h, id) ==
    LET rest == caller[h].todo \ {Current(h)}
    IN  IF rest = {} THEN Idle
        ELSE [caller[h] EXCEPT !.pc = "next", !.todo = rest, !.landed = 0, !.late = FALSE,
                               !.rows[Current(h)] = NoRow, !.seen[Current(h)] = NoneSeen,
                               !.resolved[Current(h)] = id]

Done(h) == Onward(h, caller[h].resolved[Current(h)])

\* What goes wrong uses up the budget.
Fault == faults > 0 /\ faults' = faults - 1
Fine == UNCHANGED faults

(* Beginning: a walk reads the mappings and then the records; a sweep reads *)
(* the failed rows and the mappings at the same time.                       *)

Fresh(h) == \A e \in Entities : ~ (Live(claim[e]) /\ claim[e].holder = h)

Edit(e) ==
    /\ local[e] < MaxVersion
    /\ local' = [local EXCEPT ![e] = @ + 1]
    /\ UNCHANGED <<remote, mapping, log, claim, caller, faults, loose>>

\* syncEvent, or syncSession and syncSpeaker: one entity, its prerequisites first.
Scopes == {Entities} \cup {{e} \cup Needs[e] : e \in {d \in Entities : Kind[d] # "taxonomy"}}

StartWalk(h) ==
    /\ h \in Walkers /\ At(h, "idle") /\ Fresh(h)
    /\ \E scope \in Scopes :
         Become(h, [Idle EXCEPT !.task = "walk", !.pc = "read", !.todo = scope,
                                !.unread = {"mappings", "records"}])
    /\ UNCHANGED <<local, remote, mapping, log, claim, faults, loose>>

StartSweep(h) ==
    /\ h \in Sweepers /\ At(h, "idle") /\ Fresh(h)
    /\ Become(h, [Idle EXCEPT !.task = "sweep", !.pc = "read", !.unread = {"mappings", "log"}])
    /\ UNCHANGED <<local, remote, mapping, log, claim, faults, loose>>

\* The caller after one of its reads; a sweep that finds nothing to do is over.
Having(h, read, c) ==
    LET rest == caller[h].unread \ {read}
    IN  IF rest # {} THEN [c EXCEPT !.unread = rest]
        ELSE IF c.todo = {} THEN Idle
        ELSE [c EXCEPT !.unread = {}, !.pc = "next",
                       !.seen = [e \in Entities |-> IF e \in c.todo THEN c.seen[e] ELSE NoneSeen]]

\* Of several rows the walk's index keeps the last; the sweep's throws.
Index == [e \in Entities |->
            LET n == Len(mapping[e])
            IN  IF n = 0 THEN NoneSeen
                ELSE [row |-> n, id |-> mapping[e][n].id, hash |-> mapping[e][n].hash]]

Duplicated == \E e \in Entities : Len(mapping[e]) > 1

ReadMappings(h) ==
    /\ At(h, "read") /\ "mappings" \in caller[h].unread
    /\ Become(h, IF Sweeps(h) /\ Duplicated THEN Idle
                 ELSE Having(h, "mappings",
                        [caller[h] EXCEPT !.seen = Index,
                           !.resolved = [e \in Entities |-> IF Sweeps(h) THEN 0 ELSE Index[e].id]]))
    /\ UNCHANGED <<local, remote, mapping, log, claim, faults, loose>>

ReadRecords(h) ==
    /\ At(h, "read") /\ caller[h].unread = {"records"}
    /\ Become(h, Having(h, "records", [caller[h] EXCEPT !.data = local]))
    /\ UNCHANGED <<local, remote, mapping, log, claim, faults, loose>>

\* Mutant of Owed: what has no mapping yet is left to a walk.
OwedMapped == {e \in Entities : log[e].status = "failed" /\ mapping[e] # <<>>}

\* listFailedSyncLogs: the entities whose newest attempt failed.
Owed == {e \in Entities : log[e].status = "failed"}

ReadLog(h) ==
    /\ At(h, "read") /\ "log" \in caller[h].unread
    /\ Become(h, Having(h, "log",
          [caller[h] EXCEPT !.todo = Owed,
             !.rows = [e \in Entities |-> IF e \in Owed THEN log[e] ELSE NoRow]]))
    /\ UNCHANGED <<local, remote, mapping, log, claim, faults, loose>>
-----------------------------------------------------------------------------
(* One entity.                                                              *)

\* Mutant of Unresolved: a session does not wait for its cast to land.
UnresolvedNever(h) == FALSE

\* remoteIds: a reference whose remote id is not known holds the payload back.
Unresolved(h) == ~ Sweeps(h) /\ \E d \in Needs[Current(h)] : caller[h].resolved[d] = 0

\* A walk sends what it read; a sweep replays the row's snapshot.
Outgoing(h) ==
    LET e == Current(h)
    IN  IF Sweeps(h) THEN caller[h].rows[e].payload
        ELSE [ver |-> caller[h].data[e], refs |-> {<<d, caller[h].resolved[d]>> : d \in Needs[e]}]

\* Does the mapping that was read say that exactly this was accepted?
Accepted(h) ==
    LET seen == caller[h].seen[Current(h)] IN seen.row # 0 /\ seen.hash = Outgoing(h)

\* The remote id an attempt starts from, 0 for a create.  Only a sweep's row has
\* one of its own; a row without is always a create's.
KnownId(h) ==
    LET seen == caller[h].seen[Current(h)]
    IN  IF seen.row # 0 THEN seen.id ELSE caller[h].rows[Current(h)].id

Block(h) ==
    /\ At(h, "next") /\ Unresolved(h)
    /\ Become(h, Done(h))
    /\ UNCHANGED <<local, remote, mapping, log, claim, faults, loose>>

\* Write a log row and go on: answered, answer lost, refused.  It is the newest
\* by its time, which for an ok row was taken before the mapping was saved: the
\* others that are past that point now come late.
WriteLog(h, row, answered, thrown) ==
    LET e == Current(h)
        others == [g \in Holders |->
                     IF g # h /\ caller[g].pc \in {"map", "ok"} /\ Current(g) = e
                       THEN [caller[g] EXCEPT !.late = TRUE] ELSE caller[g]]
        landed(after) == /\ log' = IF row.status = "ok" /\ caller[h].late THEN log
                                   ELSE [log EXCEPT ![e] = row]
                         /\ caller' = [others EXCEPT ![h] = after]
    IN  \/ landed(answered) /\ Fine
        \/ landed(thrown) /\ Fault
        \/ Become(h, thrown) /\ Fault /\ UNCHANGED log

Skip(h) ==
    /\ At(h, "next") /\ ~ Unresolved(h) /\ Accepted(h)
    /\ WriteLog(h, [status |-> "ok", id |-> KnownId(h), payload |-> Outgoing(h)], Done(h), Done(h))
    /\ UNCHANGED <<local, remote, mapping, claim, loose>>

\* Half a lease old, or older.
Old(age) == 2 * age >= Lease

\* claimOnce.  A throw costs a walk the entity and a sweep the rest of its rows.
Claim(h) ==
    LET e == Current(h)
        asked == [claim EXCEPT ![e] = AfterClaim(@, h, Lease)]
    IN  /\ At(h, "next") /\ ~ Unresolved(h) /\ ~ Accepted(h)
        /\ \/ /\ claim' = asked
              /\ Become(h, IF Grants(claim[e], h) THEN Goto(h, "send") ELSE Done(h))
              /\ loose' = loose \cup {d \in {e} : Grants(claim[e], h) /\ Old(caller[h].age)}
              /\ Fine
           \/ /\ claim' \in {claim, asked}
              /\ Become(h, IF Sweeps(h) THEN Idle ELSE Done(h))
              /\ Fault
              /\ UNCHANGED loose
        /\ UNCHANGED <<local, remote, mapping, log>>

Landed(h, id) == [Goto(h, "map") EXCEPT !.landed = id]

\* The remote base now holds objs for the current entity: the answer arrives or not.
Remote(h, objs, id) ==
    /\ remote' = [remote EXCEPT ![Current(h)] = objs]
    /\ \/ Become(h, Landed(h, id)) /\ Fine
       \/ Become(h, Goto(h, "fail")) /\ Fault

\* A speaker's address is unique on their side: the one that is there is taken.
Collides(h) == Kind[Current(h)] = "speaker" /\ remote[Current(h)] # <<>>

Create(h) ==
    /\ At(h, "send") /\ KnownId(h) = 0
    /\ IF Collides(h) THEN Become(h, Landed(h, 1)) /\ Fine /\ UNCHANGED remote
       ELSE LET objs == Append(remote[Current(h)], Outgoing(h)) IN Remote(h, objs, Len(objs))
    /\ UNCHANGED <<local, mapping, log, claim, loose>>

Update(h) ==
    /\ At(h, "send") /\ KnownId(h) # 0 /\ Kind[Current(h)] # "taxonomy"
    /\ Remote(h, [remote[Current(h)] EXCEPT ![KnownId(h)] = Outgoing(h)], KnownId(h))
    /\ UNCHANGED <<local, mapping, log, claim, loose>>

\* There is no call to update a taxonomy: with a mapping this throws, and without
\* one the object the row names is what the row says.
UpdateTaxonomy(h) ==
    /\ At(h, "send") /\ KnownId(h) # 0 /\ Kind[Current(h)] = "taxonomy"
    /\ Become(h, IF caller[h].seen[Current(h)].row = 0 THEN Landed(h, KnownId(h))
                 ELSE Goto(h, "fail"))
    /\ UNCHANGED <<local, remote, mapping, log, claim, faults, loose>>

\* The call is refused, or the event's URL cannot be read.
SendFails(h) ==
    /\ At(h, "send")
    /\ Become(h, Goto(h, "fail"))
    /\ Fault
    /\ UNCHANGED <<local, remote, mapping, log, claim, loose>>

\* Mutant of SavedHash: the hash of what the entity is by now.
SavedHashNow(h) == [Outgoing(h) EXCEPT !.ver = local[Current(h)]]

\* saveMapping records the hash of what was sent.
SavedHash(h) == Outgoing(h)

\* A create of a row, or an update of the one that was read.
SaveMapping(h) ==
    LET e == Current(h)
        row == caller[h].seen[e].row
        new == [id |-> caller[h].landed, hash |-> SavedHash(h)]
        saved == [mapping EXCEPT ![e] = IF row = 0 THEN Append(@, new) ELSE [@ EXCEPT ![row] = new]]
    IN  /\ At(h, "map")
        /\ \/ mapping' = saved /\ Become(h, Goto(h, "ok")) /\ Fine
           \/ mapping' \in {mapping, saved} /\ Become(h, Goto(h, "fail")) /\ Fault
        /\ UNCHANGED <<local, remote, log, claim, loose>>

\* The scheduler sends a create again whose answer was lost on the way: the row is
\* there already, and soon a second time.
SentAgain(h) ==
    LET e == Current(h)
    IN  /\ At(h, "map") /\ caller[h].seen[e].row = 0
        /\ mapping' = [mapping EXCEPT ![e] = Append(@, [id |-> caller[h].landed, hash |-> SavedHash(h)])]
        /\ loose' = loose \cup {e}
        /\ Fault
        /\ UNCHANGED <<local, remote, log, claim, caller>>

\* A walk swallows a failed ok row; a sweep takes it for a failed attempt.
LogOk(h) ==
    /\ At(h, "ok")
    /\ WriteLog(h, [status |-> "ok", id |-> caller[h].landed, payload |-> Outgoing(h)],
                IF Sweeps(h) THEN Done(h) ELSE Onward(h, caller[h].landed),
                IF Sweeps(h) THEN Goto(h, "fail") ELSE Onward(h, caller[h].landed))
    /\ UNCHANGED <<local, remote, mapping, claim, loose>>

\* The id a failed row carries: a walk writes the one that arrived, a sweep the
\* one it started from.
FailedId(h) == IF Sweeps(h) \/ caller[h].landed = 0 THEN KnownId(h) ELSE caller[h].landed

LogFailed(h) ==
    /\ At(h, "fail")
    /\ WriteLog(h, [status |-> "failed", id |-> FailedId(h), payload |-> Outgoing(h)],
                IF Sweeps(h) THEN Done(h) ELSE Onward(h, FailedId(h)), Done(h))
    /\ UNCHANGED <<local, remote, mapping, claim, loose>>

\* The isolate ends, or a read fails.
Die(h) ==
    /\ ~ At(h, "idle")
    /\ Become(h, Idle)
    /\ Fault
    /\ UNCHANGED <<local, remote, mapping, log, claim, loose>>

\* Between its claim and its mapping.
InHand(h) == At(h, "send") \/ At(h, "map")

Tick ==
    /\ \A h \in Holders : ~ At(h, "idle") => caller[h].age < Span
    /\ claim' = [e \in Entities |-> Aged(claim[e])]
    /\ caller' = [h \in Holders |-> IF At(h, "idle") THEN Idle ELSE [caller[h] EXCEPT !.age = @ + 1]]
    /\ loose' = loose \cup {Current(h) : h \in {g \in Holders : InHand(g) /\ Old(caller[g].age + 1)}}
    /\ UNCHANGED <<local, remote, mapping, log, faults>>

Attempt(h) ==
    \/ Skip(h) \/ Claim(h) \/ Create(h) \/ Update(h) \/ UpdateTaxonomy(h) \/ SendFails(h)
    \/ SaveMapping(h) \/ SentAgain(h) \/ LogOk(h) \/ LogFailed(h)

Reads(h) == ReadMappings(h) \/ ReadRecords(h) \/ ReadLog(h)

Next ==
    \/ \E e \in Edited : Edit(e)
    \/ \E h \in Holders : \/ StartWalk(h) \/ StartSweep(h) \/ Reads(h)
                          \/ Block(h) \/ Attempt(h) \/ Die(h)
    \/ Tick

Spec == Init /\ [][Next]_vars

\* The cron trigger starts a sweep again and again, an invocation that is not
\* killed goes on, and time passes.  Nobody has to press anything.
FairSpec ==
    /\ Spec
    /\ WF_vars(Tick)
    /\ WF_vars(\E h \in Holders : StartSweep(h))
    /\ \A h \in Holders : WF_vars(Reads(h) \/ Block(h) \/ Attempt(h))
-----------------------------------------------------------------------------
(***************************************************************************)
(* An entity has one mapping row: with a second one every sweep from then  *)
(* on throws before it retries anything, for every event.  A second row is *)
(* only to be had where the scheduler created one again, or an invocation  *)
(* was at the entity half a lease after it began: however long a walk as a *)
(* whole may take, what it comes to within half a lease it leaves clean,   *)
(* whatever the other walks and sweeps do at the time.                     *)
(***************************************************************************)
NeverWedged == \A e \in Entities \ loose : Len(mapping[e]) <= 1

(***************************************************************************)
(* The same without the exceptions, which the code does not keep: a lost   *)
(* answer to the mapping's create is enough, or a walk that comes late.    *)
(***************************************************************************)
OneMapping == \A e \in Entities : Len(mapping[e]) <= 1

(***************************************************************************)
(* A mapping names an object that exists, and the hash that lets later     *)
(* walks skip the entity is that of a payload this very object was given:  *)
(* not of what the record had become by the time the mapping was saved.    *)
(* Again but for an entity someone was at that late.  A speaker whose      *)
(* address was already there is the other exception.                       *)
(***************************************************************************)
HashWasAccepted ==
    [][\A e \in Entities \ loose' : mapping'[e] # mapping[e] /\ Kind[e] # "speaker" =>
         \E i \in DOMAIN mapping'[e] :
            LET m == mapping'[e][i] IN m.id \in DOMAIN remote[e] /\ remote[e][m.id] = m.hash]_vars

(***************************************************************************)
(* A session is never sent with part of its cast: whatever failed before   *)
(* it in the walk, it names an object that exists for each of its          *)
(* speakers and tags, and so does the retry of it.                         *)
(***************************************************************************)
CastComplete ==
    \A e \in Entities : \A i \in DOMAIN remote[e] :
        LET refs == remote[e][i].refs
        IN  /\ {r[1] : r \in refs} = Needs[e]
            /\ \A r \in refs : r[2] \in DOMAIN remote[r[1]]

(***************************************************************************)
(* A failed attempt is retried until it is settled: once calls stop        *)
(* failing, the newest attempt of the entity is recorded as ok, unless an  *)
(* entity has two mappings and the sweeps throw.  A renamed track or tag   *)
(* is the documented exception.                                            *)
(***************************************************************************)
FailuresSettle ==
    \A e \in {d \in Entities : Kind[d] # "taxonomy"} :
        log[e].status = "failed" ~> log[e].status = "ok" \/ Duplicated

(***************************************************************************)
(* A create that was answered and logged is not repeated: another object   *)
(* appears only if the first one's answer, or every record of it, is lost. *)
(***************************************************************************)
AnsweredCreateStays ==
    [][\A e \in Entities : log[e].id # 0 => Len(remote'[e]) = Len(remote[e])]_vars
=============================================================================
