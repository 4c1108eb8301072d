------------------------------ MODULE ImportRun ------------------------------
(***************************************************************************)
(* The import of an event from Sessionize, Sessionboard or Accelevents: a  *)
(* row of ImportRuns is worked a phase at a time, by the wizard that made  *)
(* it and by the cron sweep, each call under a holder of its own.          *)
(*                                                                         *)
(* A lease on the row's key decides who works; it is never handed back.    *)
(* What an interrupted phase created is found again through the mappings,  *)
(* written one by one where nothing else could find the record again, and  *)
(* in batches where an address can.  Before a phase and before its         *)
(* checkpoint the row's holder is read; the last write is not fenced.      *)
(* An invocation may well outlast its lease, and the next one work beside  *)
(* it.                                                                     *)
(*                                                                         *)
(* The counts, which the code gives up on, are left out.  Calls fail as    *)
(* they do in Outbox, MaxFaults times in all; a read that fails before the *)
(* try of runImport ends the invocation, like a death.  Airtable's         *)
(* scheduler sends a call again that failed, which for a create counts.    *)
(***************************************************************************)
EXTENDS ClaimKey, FiniteSets

CONSTANTS Entities,   \* what the source names: lookups, speakers, sessions
          Phase,      \* [Entities -> the phase that creates it, 1 .. 3]
          Natural,    \* the speakers the source has an address for
          Id,         \* [Entities -> remote ids], unique within a kind at least
          Cast,       \* [Entities -> the speakers of a session]
          Runs,       \* 1 .. n, in the order an organizer presses Import
          Sources,    \* what the source may be: "open", or "tokened" (Sessionboard)
          Batch,      \* MAPPING_BATCH
          Lease,      \* IMPORT_LEASE_MS, in ticks
          Gone,       \* the holder that stands for every invocation that is over
          MaxFaults   \* failed calls, deaths, and ticks that pass while an invocation is
                      \* under way, all told

ASSUME SourceAssumption ==
    /\ Entities \subseteq Nat
    /\ Phase \in [Entities -> 1 .. 3]
    /\ Natural \subseteq {e \in Entities : Phase[e] = 2}
    /\ Cast \in [{e \in Entities : Phase[e] = 3} -> SUBSET {e \in Entities : Phase[e] = 2}]
    /\ DOMAIN Id = Entities
    /\ \A d, e \in Entities : Id[d] = Id[e] => d = e \/ Phase[d] # Phase[e] \/ Phase[d] = 1
    /\ Sources \subseteq {"open", "tokened"}
ASSUME GoneAssumption == Gone \in Holders
ASSUME BoundsAssumption ==
    /\ Batch \in Nat \ {0} /\ Lease \in Nat \ {0} /\ MaxFaults \in Nat
    /\ Runs = 1 .. Cardinality(Runs)

Workers == Holders \ {Gone}

\* IMPORT_PHASES: metadata, speakers, submissions, agenda.
Phases == 1 .. 4
Addressless == {e \in Entities : Phase[e] = 2} \ Natural

VARIABLES run,      \* [Runs -> the columns of the row]
          tab,      \* [Runs -> the wizard that pressed Import: "waiting" to call, "busy", "closed"]
          source,   \* what all runs import from
          claim,    \* [Runs -> the ClaimGuard record of import:<run>]
          worker,   \* [Workers -> where that invocation is]
          records,  \* [Entities -> how many local records were created for it]
          newest,   \* [remote ids -> the newest mapping row of that id]
          address,  \* [Entities -> the local record an organizer gave an address, or 0]
          placed,   \* the sessions that have a room and a time
          faults,   \* what is left of MaxFaults
          slow,     \* how many of those that are used up were ticks
          stale,    \* history: the invocations whose run has ended since they looked at it
          company,  \* history: those that had another one at work since they loaded
          loose     \* history: the entities that one of those created a record for, and the
                    \* speakers with an address whose create was sent again

history == <<stale, company, loose>>
vars == <<run, tab, source, claim, worker, records, newest, address, placed, faults, slow, history>>

Statuses == {"absent", "queued", "running", "done", "failed"}
Terminal == {"done", "failed"}

\* told: is there a Needs-email list on the row?
Rows == [status : Statuses, phase : Phases, holder : Holders \cup {NoHolder}, left : 0 .. Lease,
         told : BOOLEAN, list : SUBSET Addressless]
NoRow == [status |-> "absent", phase |-> 1, holder |-> NoHolder, left |-> 0,
          told |-> FALSE, list |-> {}]

RemoteIds == {Id[e] : e \in Entities}
NoMapping == [of |-> 0, local |-> 0]

\* The calls of an invocation; each is about to be made.
Stages == {"idle", "claim", "record", "load", "before", "work", "post", "map", "after", "advance",
           "settle", "finish", "caught", "refence", "burn"}

Idle == [pc |-> "idle", run |-> 0, by |-> "sweep", phase |-> 1, todo |-> {}, pending |-> {},
         known |-> [e \in Entities |-> 0], armed |-> FALSE, list |-> {}]

TypeOK ==
    /\ run \in [Runs -> Rows]
    /\ tab \in [Runs -> {"closed", "waiting", "busy"}]
    /\ source \in Sources
    /\ claim \in [Runs -> Claims]
    /\ worker \in [Workers -> [pc : Stages, run : Runs \cup {0}, by : {"sweep", "wizard"},
                               phase : Phases, todo : SUBSET Entities, pending : SUBSET Entities,
                               known : [Entities -> Nat], armed : BOOLEAN,
                               list : SUBSET Addressless]]
    /\ \A w \in Workers : worker[w].pc # "idle" => worker[w].run # 0
    /\ records \in [Entities -> Nat]
    /\ \A i \in RemoteIds : newest[i] # NoMapping =>
         Id[newest[i].of] = i /\ newest[i].local \in 1 .. records[newest[i].of]
    /\ \A e \in Entities : address[e] \in 0 .. records[e]
    /\ placed \subseteq {e \in Entities : Phase[e] = 3}
    /\ faults \in 0 .. MaxFaults /\ slow \in 0 .. MaxFaults - faults
    /\ stale \subseteq Workers /\ company \subseteq Workers /\ loose \subseteq Entities

Init ==
    /\ run = [r \in Runs |-> NoRow]
    /\ tab = [r \in Runs |-> "closed"]
    /\ source \in Sources
    /\ claim = [r \in Runs |-> NoClaim]
    /\ worker = [w \in Workers |-> Idle]
    /\ records = [e \in Entities |-> 0]
    /\ newest = [i \in RemoteIds |-> NoMapping]
    /\ address = [e \in Entities |-> 0]
    /\ placed = {}
    /\ faults = MaxFaults /\ slow = 0
    /\ stale = {} /\ company = {} /\ loose = {}
-----------------------------------------------------------------------------
At(w, stage) == worker[w].pc = stage
Mine(w) == worker[w].run
Goto(w, stage) == [worker[w] EXCEPT !.pc = stage]
Become(w, next) == worker' = [worker EXCEPT ![w] = next]

\* What goes wrong uses up the budget.
Fault == faults > 0 /\ faults' = faults - 1
Fine == UNCHANGED faults

\* shouldKeepAdvancing: the wizard calls again after "advanced" and after nothing else.
End(w, attempt) ==
    /\ Become(w, Idle)
    /\ tab' = IF worker[w].by = "wizard"
                THEN [tab EXCEPT ![Mine(w)] = IF attempt = "advanced" THEN "waiting" ELSE "closed"]
                ELSE tab

\* The invocation goes on, or a throw is caught by runImport.
On(w, next) == Become(w, next) /\ UNCHANGED tab
Throw(w) == On(w, Goto(w, "caught"))

-----------------------------------------------------------------------------
(* Who calls.                                                               *)

\* A press makes a row of its own, also while an earlier run is under way; if the answer
\* is lost there is a row that no wizard calls for.
Press(r) ==
    /\ run[r].status = "absent"
    /\ \A q \in Runs : q < r => run[q].status # "absent"
    /\ run' = [run EXCEPT ![r].status = "queued"]
    /\ \/ tab' = [tab EXCEPT ![r] = "waiting"] /\ Fine
       \/ UNCHANGED tab /\ Fault
    /\ UNCHANGED <<source, claim, worker, records, newest, address, placed, slow, history>>

Forget(w, holder) == IF holder = w THEN Gone ELSE holder

\* getRun, before anything is claimed.  Every invocation has a holder nobody has
\* seen: what records the identity it is given here records one that is over.
Begin(w, r, by) ==
    /\ At(w, "idle")
    /\ run[r].status \in {"queued", "running"}
    /\ worker' = [worker EXCEPT ![w] = [Idle EXCEPT !.pc = "claim", !.run = r, !.by = by,
                                                    !.phase = run[r].phase]]
    /\ run' = [q \in Runs |-> [run[q] EXCEPT !.holder = Forget(w, @)]]
    /\ claim' = [q \in Runs |-> [claim[q] EXCEPT !.holder = Forget(w, @)]]
    /\ stale' = stale \ {w} /\ company' = company \ {w}
    /\ UNCHANGED <<source, records, newest, address, placed, slow, faults, loose>>

\* Mutant of Due: a run is abandoned by a holder that died.
DueQueued(r) == run[r].status = "queued"

Due(r) == run[r].status = "queued" \/ (run[r].status = "running" /\ run[r].left = 0)

Sweep(w, r) == Due(r) /\ Begin(w, r, "sweep") /\ UNCHANGED tab

Call(w, r) ==
    /\ tab[r] = "waiting"
    /\ Begin(w, r, "wizard")
    /\ tab' = [tab EXCEPT ![r] = "busy"]

\* The call finds a row that is over.
CallInVain(r) ==
    /\ tab[r] = "waiting" /\ run[r].status \in Terminal
    /\ tab' = [tab EXCEPT ![r] = "closed"]
    /\ UNCHANGED <<run, source, claim, worker, records, newest, address, placed, slow, faults, history>>

\* An organizer fills in the address of a speaker who has none.
GiveAddress(e) ==
    /\ e \in Addressless /\ records[e] > 0 /\ address[e] = 0
    /\ \E n \in 1 .. records[e] : address' = [address EXCEPT ![e] = n]
    /\ UNCHANGED <<run, tab, source, claim, worker, records, newest, placed, slow, faults, history>>
-----------------------------------------------------------------------------
(* runImport: the claim, and what is loaded.                                *)

Claim(w) ==
    LET asked == [claim EXCEPT ![Mine(w)] = AfterClaim(@, w, Lease)]
    IN  /\ At(w, "claim")
        /\ \/ /\ claim' = asked /\ Fine
              /\ IF Grants(claim[Mine(w)], w) THEN On(w, Goto(w, "record")) ELSE End(w, "contended")
           \/ claim' \in {claim, asked} /\ End(w, "error") /\ Fault
        /\ UNCHANGED <<run, source, records, newest, address, placed, slow, history>>

\* Write the row: answered, answer lost, refused.
Patch(row, w, answered, thrown) ==
    \/ run' = [run EXCEPT ![Mine(w)] = row] /\ answered /\ Fine
    \/ run' = [run EXCEPT ![Mine(w)] = row] /\ thrown /\ Fault
    \/ UNCHANGED run /\ thrown /\ Fault

\* Outside the try.
ClaimRun(w) ==
    /\ At(w, "record")
    /\ Patch([run[Mine(w)] EXCEPT !.status = "running", !.holder = w, !.left = Lease],
             w, On(w, Goto(w, "load")), End(w, "error"))
    /\ UNCHANGED <<source, claim, records, newest, address, placed, slow, history>>

\* findRemoteMapping: one row per remote id, and it must be of this very kind.
Found(e) == IF newest[Id[e]].of = e THEN newest[Id[e]].local ELSE 0

\* What a phase works on; the agenda places what the phase before it created.
Work(p) == {e \in Entities : Phase[e] = IF p = 4 THEN 3 ELSE p}

\* Mutant of Armed: the list is derived by the invocation that ran the speakers.
ArmedHere(phase) == FALSE

\* Are the speakers behind an invocation that begins at this phase?
Armed(phase) == phase > 2

\* Sessionboard's token is the wizard's, and stored nowhere.
HasClient(w) == source = "tokened" => worker[w].by = "wizard"

\* It has an index, and creates by it.
AtWork(w) == worker[w].pc \in {"before", "work", "post", "map"}
Beside(w) == {v \in Workers \ {w} : AtWork(v)}

\* The index is read, then the source; without a client the row is left as it is.
Load(w) ==
    /\ At(w, "load")
    /\ \/ ~ HasClient(w) /\ End(w, "no-client") /\ Fine /\ UNCHANGED company
       \/ /\ HasClient(w)
          /\ On(w, [Goto(w, "before") EXCEPT !.known = [e \in Entities |-> Found(e)],
                                             !.todo = Work(worker[w].phase),
                                             !.armed = Armed(worker[w].phase)])
          /\ company' = IF Beside(w) = {} THEN company ELSE company \cup {w} \cup Beside(w)
          /\ Fine
       \/ Throw(w) /\ Fault /\ UNCHANGED company
    /\ UNCHANGED <<run, source, claim, records, newest, address, placed, slow, stale, loose>>

\* Mutant of StillHolds: nobody looks who holds the row now.
HoldsAnyway(w) == TRUE

StillHolds(w) == run[Mine(w)].holder = w

\* A fence; a read that fails says no.
Fence(w, stage, next) ==
    /\ At(w, stage)
    /\ \/ StillHolds(w) /\ On(w, next) /\ stale' = stale \ {w} /\ Fine
       \/ ~ StillHolds(w) /\ End(w, "fenced") /\ UNCHANGED stale /\ Fine
       \/ End(w, "fenced") /\ UNCHANGED stale /\ Fault
    /\ UNCHANGED <<run, source, claim, records, newest, address, placed, slow, company, loose>>

FenceBefore(w) == Fence(w, "before", Goto(w, "work"))
FenceAfter(w) == Fence(w, "after", Goto(w, "advance"))
-----------------------------------------------------------------------------
(* A phase: its entities one by one, in the order of their numbers.         *)

Current(w) == CHOOSE e \in worker[w].todo : \A d \in worker[w].todo : e <= d
Next1(w) == [worker[w] EXCEPT !.todo = @ \ {Current(w)}]

Busy(w) == At(w, "work") /\ worker[w].todo # {}
Creating(w) == Busy(w) /\ worker[w].phase # 4 /\ worker[w].known[Current(w)] = 0

\* A session none of whose speakers is known has no submitter.
NoSubmitter(w) ==
    worker[w].phase = 3 /\ \A s \in Cast[Current(w)] : worker[w].known[s] = 0

\* Mutant of WriteNow: every mapping waits for its batch.
WriteNowFull(e, pending) == Cardinality(pending) >= Batch

\* MappingDedupe: a record nothing else can find again is mapped at once.
WriteNow(e, pending) == e \notin Natural \/ Cardinality(pending) >= Batch

\* The record's id is in the ledger, and its mapping pending or about to be written.
Recorded(w, id) ==
    LET e == Current(w)
        pending == worker[w].pending \cup {e}
    IN  [Next1(w) EXCEPT !.known[e] = id, !.pending = pending,
                         !.pc = IF WriteNow(e, pending) THEN "map" ELSE "work"]

\* upsertSpeakerByEmail looks for the address first, ...
LookUp(w) ==
    /\ Creating(w) /\ Current(w) \in Natural
    /\ On(w, IF records[Current(w)] > 0 THEN Recorded(w, 1) ELSE Goto(w, "post")) /\ Fine
    /\ UNCHANGED <<run, source, claim, records, newest, address, placed, slow, history>>

\* ... and then creates, as everything else is created without looking.
Posting(w) == At(w, "post") \/ (Creating(w) /\ ~ NoSubmitter(w) /\ Current(w) \notin Natural)

Post(w, counts) ==
    LET e == Current(w)
    IN  /\ Posting(w)
        /\ records' = [records EXCEPT ![e] = @ + 1]
        /\ loose' = IF w \in company \/ counts THEN loose \cup {e} ELSE loose
        /\ UNCHANGED <<run, source, claim, newest, address, placed, slow, stale, company>>

Create(w) ==
    /\ Post(w, FALSE)
    /\ \/ On(w, Recorded(w, records[Current(w)] + 1)) /\ Fine
       \/ Throw(w) /\ Fault

\* The scheduler sends a create again whose answer was lost on the way: the record is
\* there already, and soon a second time.
SentAgain(w) ==
    /\ Post(w, Current(w) \in Natural)
    /\ Fault
    /\ UNCHANGED <<tab, worker>>

\* An update of a record that is known, a session that is skipped, a placement.
GoOn(w) ==
    LET e == Current(w)
    IN  /\ Busy(w)
        /\ Creating(w) => NoSubmitter(w)
        /\ placed' = IF worker[w].phase = 4 /\ worker[w].known[e] # 0 THEN placed \cup {e} ELSE placed
        /\ On(w, Next1(w)) /\ Fine
        /\ UNCHANGED <<run, source, claim, records, newest, address, slow, history>>

\* The call of any of these is refused.
WorkFails(w) ==
    /\ Busy(w) \/ At(w, "post")
    /\ Throw(w) /\ Fault
    /\ UNCHANGED <<run, source, claim, records, newest, address, placed, slow, history>>

\* flush: what is pending is forgotten before it is written.
SaveMappings(w) ==
    LET saved == [i \in RemoteIds |->
                    LET mine == {e \in worker[w].pending : Id[e] = i}
                    IN  IF mine = {} THEN newest[i]
                        ELSE LET e == CHOOSE e \in mine : TRUE
                             IN  [of |-> e, local |-> worker[w].known[e]]]
    IN  /\ At(w, "map")
        /\ \/ newest' = saved /\ On(w, [Goto(w, "work") EXCEPT !.pending = {}]) /\ Fine
           \/ newest' \in {newest, saved} /\ Throw(w) /\ Fault
        /\ UNCHANGED <<run, source, claim, records, address, placed, slow, history>>

\* Nothing is left: the last flush, and the end of the phase, which arms the list.
PhaseDone(w) ==
    /\ At(w, "work") /\ worker[w].todo = {}
    /\ On(w, IF worker[w].pending # {} THEN Goto(w, "map")
             ELSE [Goto(w, "after") EXCEPT !.armed = @ \/ worker[w].phase = 2])
    /\ UNCHANGED <<run, source, claim, records, newest, address, placed, slow, faults, history>>
-----------------------------------------------------------------------------
(* Progress and outcome.                                                    *)

\* Mutant of NextPhase: the checkpoint names the phase after the next one.
NextPhaseSkips(p) == IF p >= 3 THEN 4 ELSE p + 2

\* nextPhase: the last one is its own successor.
NextPhase(p) == IF p = 4 THEN 4 ELSE p + 1

AdvanceRun(w) ==
    /\ At(w, "advance")
    /\ Patch([run[Mine(w)] EXCEPT !.phase = NextPhase(worker[w].phase)],
             w, On(w, Goto(w, "settle")), Throw(w))
    /\ UNCHANGED <<source, claim, records, newest, address, placed, slow, history>>

\* needsEmailFrom: the speakers of this source whose local record has no address.
Derived(w) == {e \in Addressless : worker[w].known[e] # 0 /\ address[e] # worker[w].known[e]}

Settled(w) == IF worker[w].armed THEN Derived(w) ELSE worker[w].list

Settle(w) ==
    /\ At(w, "settle")
    /\ \/ /\ IF worker[w].phase = 4 THEN On(w, [Goto(w, "finish") EXCEPT !.list = Settled(w)])
             ELSE End(w, "advanced")
          /\ Fine
       \/ worker[w].armed /\ Throw(w) /\ Fault
    /\ UNCHANGED <<run, source, claim, records, newest, address, placed, slow, history>>

Outcome(r, status, told, list) ==
    [run[r] EXCEPT !.status = status, !.holder = NoHolder, !.left = 0,
                   !.told = @ \/ told, !.list = IF told THEN list ELSE @]

\* Whoever works for a run of which this was the end has yet to look at it again.
EndSeen(r) ==
    stale' = IF run' = run THEN stale
             ELSE stale \cup {v \in Workers : ~ At(v, "idle") /\ Mine(v) = r}

\* Not fenced since the checkpoint.
FinishDone(w) ==
    /\ At(w, "finish")
    /\ Patch(Outcome(Mine(w), "done", TRUE, worker[w].list), w, End(w, "done"), Throw(w))
    /\ EndSeen(Mine(w))
    /\ UNCHANGED <<source, claim, records, newest, address, placed, slow, company, loose>>

\* recordFailure: the list once more, a failure of which is swallowed, ...
SettleAgain(w) ==
    /\ At(w, "caught")
    /\ \/ On(w, [Goto(w, "refence") EXCEPT !.list = Settled(w)]) /\ Fine
       \/ worker[w].armed /\ On(w, Goto(w, "refence")) /\ Fault
    /\ UNCHANGED <<run, source, claim, records, newest, address, placed, slow, history>>

Refence(w) == Fence(w, "refence", Goto(w, "burn"))

\* ... and the row, for good.
FinishFailed(w) ==
    /\ At(w, "burn")
    /\ Patch(Outcome(Mine(w), "failed", worker[w].armed \/ worker[w].list # {}, worker[w].list),
             w, End(w, "failed"), End(w, "error"))
    /\ EndSeen(Mine(w))
    /\ UNCHANGED <<source, claim, records, newest, address, placed, slow, company, loose>>

\* The isolate ends.
Die(w) ==
    /\ ~ At(w, "idle")
    /\ End(w, "error") /\ Fault
    /\ UNCHANGED <<run, source, claim, records, newest, address, placed, slow, history>>

\* Until somebody was granted the lease there is no end to the time that may pass.
UnderWay(w) == worker[w].pc \notin {"idle", "claim"}

Tick ==
    /\ \/ (\A w \in Workers : ~ UnderWay(w)) /\ UNCHANGED <<faults, slow>>
       \/ (\E w \in Workers : UnderWay(w)) /\ Fault /\ slow' = slow + 1
    /\ run' = [r \in Runs |-> [run[r] EXCEPT !.left = Less(@)]]
    /\ claim' = [r \in Runs |-> Aged(claim[r])]
    /\ UNCHANGED <<tab, source, worker, records, newest, address, placed, history>>

Advance(w) ==
    \/ Claim(w) \/ ClaimRun(w) \/ Load(w) \/ FenceBefore(w) \/ LookUp(w) \/ Create(w)
    \/ GoOn(w)
    \/ SaveMappings(w) \/ PhaseDone(w) \/ FenceAfter(w) \/ AdvanceRun(w) \/ Settle(w)
    \/ FinishDone(w) \/ SettleAgain(w) \/ Refence(w) \/ FinishFailed(w)

Next ==
    \/ \E r \in Runs : Press(r) \/ CallInVain(r)
    \/ \E e \in Entities : GiveAddress(e)
    \/ \E w \in Workers : \/ \E r \in Runs : Sweep(w, r) \/ Call(w, r)
                          \/ Advance(w) \/ SentAgain(w) \/ WorkFails(w) \/ Die(w)
    \/ Tick

Spec == Init /\ [][Next]_vars

\* Cron sweeps what is due, the wizard that is told to calls again, an invocation
\* that is not killed goes on, and time passes.  Nobody has to press anything.
FairSpec ==
    /\ Spec
    /\ WF_vars(Tick)
    /\ \A r \in Runs : /\ WF_vars(\E w \in Workers : Sweep(w, r))
                       /\ WF_vars(\E w \in Workers : Call(w, r))
    /\ \A w \in Workers : WF_vars(Advance(w))
-----------------------------------------------------------------------------
\* What an organizer reads of it.
Ending(row) == [status |-> row.status, told |-> row.told, list |-> row.list]

\* An id that another entity has too may hide the mapping.
OwnId(e) == \A d \in Entities : Id[d] = Id[e] => d = e

\* The records too many: the second of an entity, the third, ...
Duplicates == UNION {{e} \X (2 .. records[e]) : e \in Entities}

(***************************************************************************)
(* Interrupted anywhere and pressed again, an import makes at most one     *)
(* record too many for each call that failed, was sent again or ended the  *)
(* isolate: the ledger's window is one record wide.  For a speaker with an *)
(* address it makes none, unless the very create was sent again.  Both as  *)
(* long as the record was not made by an invocation beside another one;    *)
(* of two at work on the same source, each may create everything.          *)
(***************************************************************************)
OneDuplicatePerFault ==
    /\ \A e \in Natural \ loose : records[e] <= 1
    /\ Cardinality({d \in Duplicates : d[1] \notin Natural \cup loose /\ OwnId(d[1])})
         <= MaxFaults - faults - slow

(***************************************************************************)
(* The same without the exceptions, which the code does not keep.          *)
(***************************************************************************)
OnlyFaultsDuplicate ==
    /\ \A e \in Natural : records[e] <= 1
    /\ Cardinality(Duplicates) <= MaxFaults - faults - slow

(***************************************************************************)
(* A run that says done has left nothing out, however many invocations it  *)
(* took, whichever of them were repeated, overtook each other or wrote     *)
(* last: everything with an id of its own is mapped to a record (a session *)
(* if one of its speakers is), such a session is placed, and a speaker     *)
(* whom nobody could write to then was put on the Needs-email list, unless *)
(* two invocations at once made records of the same speaker.               *)
(***************************************************************************)
DoneIsComplete ==
    \A r \in Runs : run[r].status = "done" =>
        /\ \A e \in Entities : OwnId(e) /\ (Phase[e] = 3 => \E s \in Cast[e] : OwnId(s)) =>
             Found(e) # 0 /\ (Phase[e] = 3 => e \in placed)
        /\ \A e \in Addressless \ loose :
             OwnId(e) /\ address[e] # Found(e) => e \in run[r].list

(***************************************************************************)
(* A run that ended stays as it ended, its list included, but for an       *)
(* invocation that has not looked at the row since: not at the run, which  *)
(* it read before it asked for the lease, and not at the holder, which it  *)
(* read before its last write.  Whoever looks again finds out, however     *)
(* late it comes and whoever works beside it.                              *)
(***************************************************************************)
EndedStaysEnded ==
    [][\A r \in Runs : run[r].status \in Terminal /\ Ending(run'[r]) # Ending(run[r]) =>
         \E w \in stale : Mine(w) = r /\ worker'[w] # worker[w]]_vars

(***************************************************************************)
(* The same without the exception: the invocation that asks for the lease  *)
(* late reopens the run.                                                   *)
(***************************************************************************)
NeverReopened ==
    [][\A r \in Runs : run[r].status \in Terminal => run'[r].status \in Terminal]_vars

(***************************************************************************)
(* A run of a source that needs no token ends, whoever dies under way, and *)
(* whether or not the wizard goes on calling; also after invocations that  *)
(* outlasted their leases and were overtaken.                              *)
(***************************************************************************)
RunEnds ==
    \A r \in Runs : source = "open" /\ run[r].status # "absent" ~> run[r].status \in Terminal

(***************************************************************************)
(* The wizard, which alone can read a Sessionboard event, carries its run  *)
(* to the end if nothing fails.                                            *)
(***************************************************************************)
WizardEndsItsRun ==
    \A r \in Runs : run[r].status = "queued" /\ tab[r] = "waiting" ~> run[r].status \in Terminal

(***************************************************************************)
(* A run that failed after its speakers were in says who cannot be written *)
(* to, as one that is done does.                                           *)
(***************************************************************************)
FailedIsOwedTheList ==
    \A r \in Runs : run[r].status = "failed" /\ run[r].phase > 2 =>
        /\ run[r].told
        /\ \A e \in Addressless : Found(e) # 0 /\ address[e] # Found(e) => e \in run[r].list
=============================================================================
