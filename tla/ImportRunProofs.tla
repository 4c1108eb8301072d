--------------------------- MODULE ImportRunProofs ---------------------------
(***************************************************************************)
(* What the import of an event guarantees for any source, any number of    *)
(* runs and invocations, any leases and any faults, proved by TLAPS.       *)
(*                                                                         *)
(* The argument has layers.  Each is an invariant of its own, carried      *)
(* through a step with the help of those before it:                        *)
(*   Types     the variables' types, and whose mapping a mapping can be;   *)
(*             after it, what a step may spend and what history remembers; *)
(*   Alive     who has looked at a run that is alive since, or has not,    *)
(*             is known, and so who may write to one that ended;           *)
(*   Ledger    what an invocation knows is what is mapped, but for what it *)
(*             has yet to map, and for what two created at once;           *)
(*   Charges   a record that nothing knows of was paid for by a fault;     *)
(*   Progress  what comes before the phase of a run, or of an invocation,  *)
(*             is mapped, and what it has worked off is known.             *)
(* Between them stands what a step may be, which the last three go by.     *)
(*                                                                         *)
(* Two invocations may be at work at once: an invocation may outlast its   *)
(* lease by any time, so none of this rests on the lease.                  *)
(*                                                                         *)
(* The last section is about the guard the runs are claimed from.          *)
(***************************************************************************)
EXTENDS ImportRun, ClaimGuard, TLAPS, FiniteSetTheorems, WellFoundedInduction

-----------------------------------------------------------------------------
(* Types.                                                                    *)

WorkerRecs ==
    [pc : Stages, run : Runs \cup {0}, by : {"sweep", "wizard"}, phase : Phases,
     todo : SUBSET Entities, pending : SUBSET Entities, known : [Entities -> Nat],
     armed : BOOLEAN, list : SUBSET Addressless]

RunTypes ==
    /\ run \in [Runs -> Rows]
    /\ tab \in [Runs -> {"closed", "waiting", "busy"}]
    /\ source \in Sources
    /\ claim \in [Runs -> Claims]
    /\ faults \in 0 .. MaxFaults

\* Before the index is read there is nothing in hand.
Unloaded == {"idle", "claim", "record", "load"}
Later == Stages \ (Unloaded \cup {"post"})

\* What comes first of what is left to do.
First(todo) == CHOOSE e \in todo : \A d \in todo : e <= d

\* What an invocation has in hand are records that were created.
WorkerType(r) ==
    /\ r \in WorkerRecs
    /\ r.pc # "idle" => r.run \in Runs
    /\ \A e \in Entities : r.known[e] <= records[e]
    /\ \A e \in r.pending : r.known[e] # 0
    /\ r.pc \in Unloaded => r.pending = {}
    /\ r.todo \subseteq Work(r.phase)
    /\ r.pc = "post" => /\ r.todo # {} /\ r.phase # 4
                       /\ First(r.todo) \in Natural /\ r.known[First(r.todo)] = 0

Mappings == [of : Entities \cup {0}, local : Nat]

StoreTypes ==
    /\ records \in [Entities -> Nat]
    /\ newest \in [RemoteIds -> Mappings]
    /\ \A i \in RemoteIds : newest[i] # NoMapping =>
         /\ newest[i].of \in Entities /\ Id[newest[i].of] = i
         /\ newest[i].local \in 1 .. records[newest[i].of]
    /\ address \in [Entities -> Nat]
    /\ \A e \in Entities : address[e] <= records[e]
    /\ placed \subseteq Work(4)

Types ==
    /\ RunTypes
    /\ worker \in [Workers -> WorkerRecs] /\ \A w \in Workers : WorkerType(worker[w])
    /\ StoreTypes

\* Everybody else stays where he is.
Others(w) == \A v \in Workers \ {w} : worker'[v] = worker[v]

(* Runs are numbered from one.                                               *)
LEMMA RunNumbers ==
  ASSUME NEW r \in Runs
  PROVE  r \in Nat /\ r # 0
<1>1. PICK n : n = Cardinality(Runs)
  OBVIOUS
<1>2. Runs = 1 .. n
  BY <1>1, BoundsAssumption
<1>3. r \in 1 .. n
  BY <1>2
<1>4. QED
  BY <1>3

(* An invocation that is nowhere has nothing.                                *)
LEMMA IdleType ==
  ASSUME StoreTypes
  PROVE  WorkerType(Idle)
<1>1. Idle \in WorkerRecs
  BY BoundsAssumption DEF Idle, WorkerRecs, Stages, Phases
<1>2. QED
  BY <1>1 DEF WorkerType, Idle, StoreTypes, Unloaded

(* One invocation takes a step: the others keep what they have.              *)
LEMMA WorkerStep ==
  ASSUME Types, NEW w \in Workers, NEW next, Become(w, next), StoreTypes',
         \A e \in Entities : records[e] <= records'[e], WorkerType(next)'
  PROVE  /\ worker' \in [Workers -> WorkerRecs] /\ \A v \in Workers : WorkerType(worker[v])'
         /\ worker'[w] = next /\ Others(w)
<1>1. worker' = [worker EXCEPT ![w] = next]
  BY DEF Become
<1>2. next \in WorkerRecs
  BY DEF WorkerType
<1>3. worker' \in [Workers -> WorkerRecs] /\ worker'[w] = next /\ Others(w)
  BY <1>1, <1>2 DEF Types, Others
<1>4. ASSUME NEW v \in Workers \ {w} PROVE WorkerType(worker[v])'
  <2>1. worker'[v] = worker[v] /\ WorkerType(worker[v])
    BY <1>3 DEF Others, Types
  <2>2. \A e \in Entities : worker[v].known[e] \in Nat /\ records[e] \in Nat /\ records'[e] \in Nat
    BY <2>1 DEF WorkerType, WorkerRecs, Types, StoreTypes
  <2>3. QED
    BY <2>1, <2>2 DEF WorkerType
<1>5. QED
  BY <1>3, <1>4

(* The end of an invocation.                                                 *)
LEMMA EndDoes ==
  ASSUME Types, NEW w \in Workers, NEW attempt, End(w, attempt)
  PROVE  /\ worker'[w] = Idle /\ Others(w) /\ tab' \in [Runs -> {"closed", "waiting", "busy"}]
         /\ Become(w, Idle)
<1>1. worker' = [worker EXCEPT ![w] = Idle]
  BY DEF End, Become
<1>2. worker'[w] = Idle /\ Others(w)
  BY <1>1 DEF Types, Others
<1>3. tab' \in [Runs -> {"closed", "waiting", "busy"}]
  BY DEF End, Types, RunTypes
<1>4. QED
  BY <1>2, <1>3 DEF End

(* An invocation that goes on.                                               *)
LEMMA GotoDoes ==
  ASSUME Types, NEW w \in Workers, NEW stage \in Stages \ {"post"}, worker[w].pc # "idle",
         stage \in Unloaded => worker[w].pc \in Unloaded
  PROVE  LET next == Goto(w, stage)
         IN  /\ next \in WorkerRecs /\ WorkerType(next) /\ next.pc = stage
             /\ next.run = worker[w].run /\ next.by = worker[w].by /\ next.phase = worker[w].phase
             /\ next.todo = worker[w].todo /\ next.pending = worker[w].pending
             /\ next.known = worker[w].known /\ next.armed = worker[w].armed
             /\ next.list = worker[w].list
<1> DEFINE next == Goto(w, stage)
<1>1. worker[w] \in WorkerRecs /\ WorkerType(worker[w])
  BY DEF Types
<1>2. /\ next \in WorkerRecs /\ next.pc = stage
      /\ next.run = worker[w].run /\ next.by = worker[w].by /\ next.phase = worker[w].phase
      /\ next.todo = worker[w].todo /\ next.pending = worker[w].pending
      /\ next.known = worker[w].known /\ next.armed = worker[w].armed
      /\ next.list = worker[w].list
  BY <1>1 DEF Goto, WorkerRecs
<1> HIDE DEF next
<1>3. WorkerType(next)
  BY <1>1, <1>2 DEF WorkerType
<1>4. QED
  BY <1>2, <1>3 DEF next

(* The same, where no record or mapping changes.                             *)
LEMMA HandStep ==
  ASSUME Types, RunTypes', NEW w \in Workers, NEW next, Become(w, next), WorkerType(next),
         UNCHANGED <<records, newest, address, placed>>
  PROVE  Types' /\ worker'[w] = next /\ Others(w)
<1>1. StoreTypes' /\ WorkerType(next)'
  BY DEF Types, StoreTypes, WorkerType
<1>2. \A e \in Entities : records[e] <= records'[e]
  BY DEF Types, StoreTypes
<1>3. QED
  BY <1>1, <1>2, WorkerStep DEF Types

(* Faults are counted down.                                                  *)
LEMMA FaultsCount ==
  ASSUME Types, Fault \/ Fine
  PROVE  /\ faults' \in 0 .. MaxFaults
         /\ IF Fault THEN faults' = faults - 1 /\ faults > 0 ELSE faults' = faults
  BY BoundsAssumption DEF Types, RunTypes, Fault, Fine

\* A step of invocation w: it is over, or where it goes on it works for the
\* same call, with the same in hand or with something else.
Ends(w) == Others(w) /\ worker'[w] = Idle
Goes(w, stages) ==
    /\ Others(w) /\ worker'[w].pc \in stages
    /\ worker'[w].run = worker[w].run /\ worker'[w].by = worker[w].by
    /\ worker'[w].phase = worker[w].phase
SameHand(w) ==
    /\ worker'[w].todo = worker[w].todo /\ worker'[w].pending = worker[w].pending
    /\ worker'[w].known = worker[w].known /\ worker'[w].armed = worker[w].armed
    /\ worker'[w].list = worker[w].list

\* What a step leaves alone.
SameStore == UNCHANGED <<records, newest, address, placed>>

(* An invocation that goes on to a stage with the same in hand, or ends.     *)
LEMMA OnStep ==
  ASSUME Types, NEW w \in Workers, NEW stage \in Stages \ {"post"}, worker[w].pc # "idle",
         stage \in Unloaded => worker[w].pc \in Unloaded,
         On(w, Goto(w, stage)), SameStore, RunTypes'
  PROVE  Types' /\ Goes(w, {stage}) /\ SameHand(w)
<1> DEFINE next == Goto(w, stage)
<1>1. /\ next \in WorkerRecs /\ WorkerType(next) /\ next.pc = stage
      /\ next.run = worker[w].run /\ next.by = worker[w].by /\ next.phase = worker[w].phase
      /\ next.todo = worker[w].todo /\ next.pending = worker[w].pending
      /\ next.known = worker[w].known /\ next.armed = worker[w].armed
      /\ next.list = worker[w].list
  BY GotoDoes
<1>2. Become(w, next)
  BY DEF On
<1> HIDE DEF next
<1>3. Types' /\ worker'[w] = next /\ Others(w)
  BY <1>1, <1>2, HandStep DEF SameStore
<1>4. QED
  BY <1>1, <1>3 DEF Goes, SameHand

LEMMA EndStep ==
  ASSUME Types, NEW w \in Workers, NEW attempt, End(w, attempt), SameStore,
         run' \in [Runs -> Rows], source' = source, claim' \in [Runs -> Claims],
         faults' \in 0 .. MaxFaults
  PROVE  Types' /\ Ends(w)
<1>1. RunTypes' /\ Become(w, Idle)
  BY EndDoes DEF RunTypes, Types
<1>2. Types' /\ worker'[w] = Idle /\ Others(w)
  BY <1>1, IdleType, HandStep DEF SameStore, Types
<1>3. QED
  BY <1>2 DEF Ends

-----------------------------------------------------------------------------
(* What each step does: the types stay, and what changes.                    *)

(* The press of Import makes a row.                                          *)
LEMMA PressDoes ==
  ASSUME Types, NEW r \in Runs, Press(r)
  PROVE  /\ Types' /\ worker' = worker /\ claim' = claim /\ SameStore
         /\ run[r].status = "absent"
         /\ run'[r].status = "queued" /\ run'[r].phase = run[r].phase /\ run'[r].holder = run[r].holder
         /\ \A q \in Runs \ {r} : run'[q] = run[q]
         /\ faults' <= faults
<1>1. run[r] \in Rows
  BY DEF Types, RunTypes
<1>2. run' = [run EXCEPT ![r].status = "queued"] /\ SameStore /\ worker' = worker /\ claim' = claim
      /\ source' = source
  BY DEF Press, SameStore
<1>3. run' \in [Runs -> Rows] /\ run'[r].status = "queued" /\ run'[r].phase = run[r].phase
      /\ run'[r].holder = run[r].holder /\ \A q \in Runs \ {r} : run'[q] = run[q]
  BY <1>1, <1>2 DEF Types, RunTypes, Rows, Statuses
<1>4. tab' \in [Runs -> {"closed", "waiting", "busy"}] /\ (Fault \/ Fine)
  BY DEF Press, Types, RunTypes
<1>5. faults' \in 0 .. MaxFaults /\ faults' <= faults
  BY <1>4, FaultsCount, BoundsAssumption DEF Types, RunTypes
<1>6. RunTypes'
  BY <1>2, <1>3, <1>4, <1>5 DEF Types, RunTypes
<1>7. Types'
  BY <1>2, <1>6 DEF Types, WorkerType, StoreTypes, SameStore
<1>8. QED
  BY <1>2, <1>3, <1>5, <1>7 DEF Press

(* A call finds a row that is not over, and is somebody new.                 *)
LEMMA BeginDoes ==
  ASSUME Types, NEW w \in Workers, NEW r \in Runs, NEW by \in {"sweep", "wizard"}, Begin(w, r, by),
         tab' \in [Runs -> {"closed", "waiting", "busy"}]
  PROVE  /\ Types' /\ SameStore /\ faults' = faults /\ Others(w)
         /\ worker[w].pc = "idle" /\ run[r].status \in {"queued", "running"}
         /\ worker'[w].pc = "claim" /\ worker'[w].run = r /\ worker'[w].phase = run[r].phase
         /\ \A q \in Runs : /\ run'[q].status = run[q].status /\ run'[q].phase = run[q].phase
                            /\ Ending(run'[q]) = Ending(run[q])
                            /\ run'[q].holder = Forget(w, run[q].holder)
                            /\ claim'[q].holder = Forget(w, claim[q].holder)
                            /\ claim'[q].left = claim[q].left
<1> DEFINE next == [Idle EXCEPT !.pc = "claim", !.run = r, !.by = by, !.phase = run[r].phase]
<1>1. /\ worker[w].pc = "idle" /\ run[r].status \in {"queued", "running"}
      /\ worker' = [worker EXCEPT ![w] = next]
      /\ run' = [q \in Runs |-> [run[q] EXCEPT !.holder = Forget(w, @)]]
      /\ claim' = [q \in Runs |-> [claim[q] EXCEPT !.holder = Forget(w, @)]]
      /\ SameStore /\ faults' = faults /\ source' = source
  BY DEF Begin, At, SameStore
<1>2. run[r].phase \in Phases
  BY DEF Types, RunTypes, Rows
<1>3. next \in WorkerRecs /\ next.pc = "claim" /\ next.run = r /\ next.phase = run[r].phase
      /\ next.known = [e \in Entities |-> 0] /\ next.pending = {} /\ next.todo = {}
  <2>1. Idle \in WorkerRecs
    BY IdleType DEF Types, WorkerType
  <2>2. Idle.known = [e \in Entities |-> 0] /\ Idle.pending = {} /\ Idle.todo = {}
    BY DEF Idle
  <2>3. QED
    BY <1>2, <2>1, <2>2 DEF WorkerRecs, Stages
<1>4. WorkerType(next)
  <2> HIDE DEF next
  <2>1. \A e \in Entities : next.known[e] <= records[e]
    BY <1>3 DEF Types, StoreTypes
  <2>2. QED
    BY <1>3, <2>1 DEF WorkerType
<1> HIDE DEF next
<1>5. w \in Holders /\ w # NoHolder /\ Gone \in Holders
  BY NoHolderAssumption, GoneAssumption DEF Workers
<1>6. ASSUME NEW q \in Runs
      PROVE  /\ run'[q] \in Rows /\ run'[q].status = run[q].status /\ run'[q].phase = run[q].phase
             /\ Ending(run'[q]) = Ending(run[q]) /\ run'[q].holder = Forget(w, run[q].holder)
  <2>1. run[q] \in Rows /\ run'[q] = [run[q] EXCEPT !.holder = Forget(w, @)]
    BY <1>1 DEF Types, RunTypes
  <2>2. Forget(w, run[q].holder) \in Holders \cup {NoHolder}
    BY <1>5, <2>1 DEF Forget, Rows
  <2>3. QED
    BY <2>1, <2>2 DEF Rows, Ending
<1>7. ASSUME NEW q \in Runs
      PROVE  /\ claim'[q] \in Claims /\ claim'[q].holder = Forget(w, claim[q].holder)
             /\ claim'[q].left = claim[q].left
  <2>1. claim[q] \in Claims /\ claim'[q] = [claim[q] EXCEPT !.holder = Forget(w, @)]
    BY <1>1 DEF Types, RunTypes
  <2>2. QED
    BY <1>5, <2>1 DEF Forget, Claims, NoClaim
<1>8. RunTypes'
  <2>1. run' \in [Runs -> Rows]
    BY <1>1, <1>6
  <2>2. claim' \in [Runs -> Claims]
    BY <1>1, <1>7
  <2>3. QED
    BY <1>1, <2>1, <2>2 DEF Types, RunTypes
<1>9. Types' /\ worker'[w] = next /\ Others(w)
  BY <1>1, <1>4, <1>8, HandStep DEF Become, SameStore
<1>10. QED
  BY <1>1, <1>3, <1>6, <1>7, <1>9

LEMMA SweepDoes ==
  ASSUME Types, NEW w \in Workers, NEW r \in Runs, Sweep(w, r) \/ Call(w, r)
  PROVE  tab' \in [Runs -> {"closed", "waiting", "busy"}]
         /\ \E by \in {"sweep", "wizard"} : Begin(w, r, by)
  BY DEF Sweep, Call, Types, RunTypes

(* A call that finds its run over, and an address that is filled in.         *)
LEMMA CallInVainDoes ==
  ASSUME Types, NEW r \in Runs, CallInVain(r)
  PROVE  Types' /\ UNCHANGED <<run, claim, worker, records, newest, address, placed, faults>>
<1>1. UNCHANGED <<run, source, claim, worker, records, newest, address, placed, faults>>
      /\ tab' \in [Runs -> {"closed", "waiting", "busy"}]
  BY DEF CallInVain, Types, RunTypes
<1>2. QED
  BY <1>1 DEF Types, RunTypes, WorkerType, StoreTypes

LEMMA GiveAddressDoes ==
  ASSUME Types, NEW e \in Entities, GiveAddress(e)
  PROVE  /\ Types' /\ UNCHANGED <<run, claim, worker, records, newest, placed, faults>>
         /\ address[e] = 0 /\ \A d \in Entities \ {e} : address'[d] = address[d]
<1>1. PICK n \in 1 .. records[e] : address' = [address EXCEPT ![e] = n]
  BY DEF GiveAddress
<1>2. address[e] = 0 /\ UNCHANGED <<run, tab, source, claim, worker, records, newest, placed, faults>>
  BY DEF GiveAddress
<1>3. records[e] \in Nat
  BY DEF Types, StoreTypes
<1>4. /\ address' \in [Entities -> Nat]
      /\ \A d \in Entities : address'[d] <= records[d]
      /\ \A d \in Entities \ {e} : address'[d] = address[d]
  BY <1>1, <1>3 DEF Types, StoreTypes
<1>5. StoreTypes'
  BY <1>2, <1>4 DEF Types, StoreTypes
<1>6. Types'
  BY <1>2, <1>5 DEF Types, RunTypes, WorkerType
<1>7. QED
  BY <1>2, <1>4, <1>6

(* The claim is answered, or lost with the call.                             *)
LEMMA ClaimDoes ==
  ASSUME Types, NEW w \in Workers, Claim(w)
  PROVE  /\ Types' /\ SameStore /\ run' = run /\ worker[w].pc = "claim" /\ faults' <= faults
         /\ \A q \in Runs \ {Mine(w)} : claim'[q] = claim[q]
         /\ claim'[Mine(w)] \in {claim[Mine(w)], AfterClaim(claim[Mine(w)], w, Lease)}
         /\ \/ /\ Goes(w, {"record"}) /\ SameHand(w) /\ Grants(claim[Mine(w)], w)
               /\ claim'[Mine(w)] = AfterClaim(claim[Mine(w)], w, Lease)
            \/ Ends(w)
<1> DEFINE asked == [claim EXCEPT ![Mine(w)] = AfterClaim(claim[Mine(w)], w, Lease)]
<1>0. worker[w].pc = "claim" /\ Mine(w) \in Runs /\ w \in Holders
  BY DEF Claim, At, Mine, Types, WorkerType, Workers
<1>1. AfterClaim(claim[Mine(w)], w, Lease) \in Claims
  BY <1>0, BoundsAssumption DEF AfterClaim, Claims, NoClaim, Types, RunTypes
<1>2. claim' \in {claim, asked} /\ (Fault \/ Fine)
      /\ UNCHANGED <<run, source, records, newest, address, placed>>
  BY DEF Claim
<1>3. /\ \A q \in Runs \ {Mine(w)} : asked[q] = claim[q]
      /\ asked[Mine(w)] = AfterClaim(claim[Mine(w)], w, Lease) /\ asked \in [Runs -> Claims]
  BY <1>0, <1>1 DEF Types, RunTypes
<1>4. \/ claim' = asked /\ Grants(claim[Mine(w)], w) /\ On(w, Goto(w, "record"))
      \/ \E attempt : End(w, attempt)
  BY DEF Claim
<1> HIDE DEF asked
<1>5. /\ claim' \in [Runs -> Claims] /\ \A q \in Runs \ {Mine(w)} : claim'[q] = claim[q]
      /\ claim'[Mine(w)] \in {claim[Mine(w)], AfterClaim(claim[Mine(w)], w, Lease)}
  BY <1>2, <1>3 DEF Types, RunTypes
<1>6. faults' \in 0 .. MaxFaults /\ faults' <= faults
  BY <1>2, FaultsCount, BoundsAssumption DEF Types, RunTypes
<1>7. CASE claim' = asked /\ Grants(claim[Mine(w)], w) /\ On(w, Goto(w, "record"))
  <2>1. RunTypes'
    BY <1>2, <1>5, <1>6, <1>7 DEF Types, RunTypes, On
  <2>2. Types' /\ Goes(w, {"record"}) /\ SameHand(w)
    BY <1>0, <1>2, <1>7, <2>1, OnStep DEF Stages, SameStore, Unloaded
  <2>3. claim'[Mine(w)] = AfterClaim(claim[Mine(w)], w, Lease) /\ Grants(claim[Mine(w)], w)
    BY <1>3, <1>7
  <2>4. SameStore /\ run' = run
    BY <1>2 DEF SameStore
  <2>5. QED
    BY <1>0, <1>5, <1>6, <2>2, <2>3, <2>4
<1>8. CASE \E attempt : End(w, attempt)
  <2>1. Types' /\ Ends(w)
    BY <1>2, <1>5, <1>6, <1>8, EndStep DEF SameStore, Types, RunTypes
  <2>2. SameStore /\ run' = run
    BY <1>2 DEF SameStore
  <2>3. QED
    BY <1>0, <1>5, <1>6, <2>1, <2>2
<1>9. QED
  BY <1>4, <1>7, <1>8

(* An invocation that goes on or ends, whatever it does to the rows.         *)
LEMMA CallStep ==
  ASSUME Types, NEW w \in Workers, worker[w].pc # "idle", NEW stage \in Stages \ {"post"},
         stage \in Unloaded => worker[w].pc \in Unloaded,
         On(w, Goto(w, stage)) \/ \E attempt : End(w, attempt),
         run' \in [Runs -> Rows], UNCHANGED <<source, claim>>, Fault \/ Fine, SameStore
  PROVE  /\ Types' /\ faults' <= faults /\ (Fault => faults' = faults - 1)
         /\ (Goes(w, {stage}) /\ SameHand(w)) \/ Ends(w)
<1>1. faults' \in 0 .. MaxFaults /\ faults' <= faults /\ (Fault => faults' = faults - 1)
  BY FaultsCount, BoundsAssumption DEF Types, RunTypes
<1>2. CASE On(w, Goto(w, stage))
  <2>1. RunTypes'
    BY <1>1, <1>2 DEF Types, RunTypes, On
  <2>2. QED
    BY <1>1, <1>2, <2>1, OnStep
<1>3. CASE \E attempt : End(w, attempt)
  BY <1>1, <1>3, EndStep DEF Types, RunTypes
<1>4. QED
  BY <1>2, <1>3

(* A fence: on, if the row names this holder.                                *)
LEMMA FenceDoes ==
  ASSUME Types, NEW w \in Workers, NEW stage \in Stages \ {"idle"}, NEW then \in Later,
         Fence(w, stage, Goto(w, then))
  PROVE  /\ Types' /\ SameStore /\ UNCHANGED <<run, claim>> /\ faults' <= faults
         /\ worker[w].pc = stage
         /\ (Goes(w, {then}) /\ SameHand(w) /\ run[Mine(w)].holder = w) \/ Ends(w)
<1>1. /\ worker[w].pc = stage /\ SameStore /\ UNCHANGED <<run, source, claim>> /\ (Fault \/ Fine)
      /\ \/ On(w, Goto(w, then)) /\ run[Mine(w)].holder = w
         \/ \E attempt : End(w, attempt)
  BY DEF Fence, At, SameStore, StillHolds
<1>2. run' \in [Runs -> Rows] /\ worker[w].pc # "idle"
      /\ then \in Stages \ {"post"} /\ then \notin Unloaded
  BY <1>1 DEF Types, RunTypes, Later
<1>3. CASE On(w, Goto(w, then)) /\ run[Mine(w)].holder = w
  BY <1>1, <1>2, <1>3, CallStep
<1>4. CASE \E attempt : End(w, attempt)
  <2>1. Types' /\ faults' <= faults
    BY <1>1, <1>2, <1>4, CallStep
  <2>2. Ends(w)
    BY <1>4, EndDoes DEF Ends
  <2>3. QED
    BY <1>1, <2>1, <2>2
<1>5. QED
  BY <1>1, <1>3, <1>4

(* A write of the row: it lands or not.                                      *)
LEMMA PatchDoes ==
  ASSUME Types, NEW w \in Workers, worker[w].pc # "idle", NEW row \in Rows,
         run' = [run EXCEPT ![Mine(w)] = row] \/ UNCHANGED run
  PROVE  /\ Mine(w) \in Runs /\ run' \in [Runs -> Rows]
         /\ \A q \in Runs \ {Mine(w)} : run'[q] = run[q]
         /\ run'[Mine(w)] \in {run[Mine(w)], row}
<1>1. Mine(w) \in Runs
  BY DEF Mine, Types, WorkerType
<1>2. QED
  BY <1>1 DEF Types, RunTypes

\* The row as claimed, and with its checkpoint.
ClaimedRow(w) == [run[Mine(w)] EXCEPT !.status = "running", !.holder = w, !.left = Lease]
AdvancedRow(w) == [run[Mine(w)] EXCEPT !.phase = NextPhase(worker[w].phase)]

LEMMA RowsOf ==
  ASSUME Types, NEW w \in Workers, worker[w].pc # "idle"
  PROVE  /\ run[Mine(w)] \in Rows /\ ClaimedRow(w) \in Rows /\ AdvancedRow(w) \in Rows
         /\ ClaimedRow(w).status = "running" /\ ClaimedRow(w).phase = run[Mine(w)].phase
         /\ AdvancedRow(w).status = run[Mine(w)].status /\ AdvancedRow(w).holder = run[Mine(w)].holder
         /\ AdvancedRow(w).phase = NextPhase(worker[w].phase)
         /\ Ending(AdvancedRow(w)) = Ending(run[Mine(w)])
<1>1. Mine(w) \in Runs /\ run[Mine(w)] \in Rows /\ worker[w].phase \in Phases
  BY DEF Mine, Types, WorkerType, WorkerRecs, RunTypes
<1>2. w \in Holders /\ NextPhase(worker[w].phase) \in Phases /\ Lease \in 0 .. Lease
  BY <1>1, BoundsAssumption DEF Workers, NextPhase, Phases
<1>3. QED
  BY <1>1, <1>2 DEF ClaimedRow, AdvancedRow, Rows, Statuses, Ending

LEMMA ClaimRunDoes ==
  ASSUME Types, NEW w \in Workers, ClaimRun(w)
  PROVE  /\ Types' /\ SameStore /\ claim' = claim /\ faults' <= faults /\ worker[w].pc = "record"
         /\ \A q \in Runs \ {Mine(w)} : run'[q] = run[q]
         /\ run'[Mine(w)] \in {run[Mine(w)], ClaimedRow(w)}
         /\ (Goes(w, {"load"}) /\ SameHand(w)) \/ Ends(w)
<1>1. /\ worker[w].pc = "record" /\ SameStore /\ UNCHANGED <<source, claim>> /\ (Fault \/ Fine)
      /\ On(w, Goto(w, "load")) \/ \E attempt : End(w, attempt)
      /\ run' = [run EXCEPT ![Mine(w)] = ClaimedRow(w)] \/ UNCHANGED run
  BY DEF ClaimRun, Patch, At, SameStore, ClaimedRow
<1>2. /\ run' \in [Runs -> Rows] /\ \A q \in Runs \ {Mine(w)} : run'[q] = run[q]
      /\ run'[Mine(w)] \in {run[Mine(w)], ClaimedRow(w)}
  BY <1>1, RowsOf, PatchDoes
<1>3. QED
  BY <1>1, <1>2, CallStep DEF Stages, Unloaded, Later

LEMMA AdvanceRunDoes ==
  ASSUME Types, NEW w \in Workers, AdvanceRun(w)
  PROVE  /\ Types' /\ SameStore /\ claim' = claim /\ faults' <= faults /\ worker[w].pc = "advance"
         /\ \A q \in Runs \ {Mine(w)} : run'[q] = run[q]
         /\ run'[Mine(w)] \in {run[Mine(w)], AdvancedRow(w)}
         /\ Goes(w, {"settle", "caught"}) /\ SameHand(w)
<1>1. /\ worker[w].pc = "advance" /\ SameStore /\ UNCHANGED <<source, claim>> /\ (Fault \/ Fine)
      /\ On(w, Goto(w, "settle")) \/ On(w, Goto(w, "caught"))
      /\ run' = [run EXCEPT ![Mine(w)] = AdvancedRow(w)] \/ UNCHANGED run
  BY DEF AdvanceRun, Patch, At, SameStore, AdvancedRow, Throw
<1>2. /\ run' \in [Runs -> Rows] /\ \A q \in Runs \ {Mine(w)} : run'[q] = run[q]
      /\ run'[Mine(w)] \in {run[Mine(w)], AdvancedRow(w)}
  BY <1>1, RowsOf, PatchDoes
<1>3. faults' \in 0 .. MaxFaults /\ faults' <= faults
  BY <1>1, FaultsCount, BoundsAssumption DEF Types, RunTypes
<1>4. RunTypes'
  BY <1>1, <1>2, <1>3 DEF Types, RunTypes, On
<1>5. CASE On(w, Goto(w, "settle"))
  BY <1>1, <1>2, <1>3, <1>4, <1>5, OnStep DEF Stages, Goes, Unloaded
<1>6. CASE On(w, Goto(w, "caught"))
  BY <1>1, <1>2, <1>3, <1>4, <1>6, OnStep DEF Stages, Goes, Unloaded
<1>7. QED
  BY <1>1, <1>5, <1>6

(* What is mapped is a record that was created.                              *)
LEMMA FoundTypes ==
  ASSUME Types, NEW e \in Entities
  PROVE  Found(e) \in Nat /\ Found(e) <= records[e]
<1>1. Id[e] \in RemoteIds /\ newest[Id[e]] \in Mappings /\ records[e] \in Nat
  BY DEF RemoteIds, Types, StoreTypes
<1>2. CASE newest[Id[e]] = NoMapping
  BY <1>1, <1>2 DEF Found, NoMapping
<1>3. CASE newest[Id[e]] # NoMapping
  BY <1>1, <1>3 DEF Found, Types, StoreTypes, Mappings
<1>4. QED
  BY <1>2, <1>3

(* What is loaded is what is mapped; a call without a client ends.           *)
LEMMA LoadDoes ==
  ASSUME Types, NEW w \in Workers, Load(w)
  PROVE  /\ Types' /\ SameStore /\ UNCHANGED <<run, claim>> /\ faults' <= faults /\ worker[w].pc = "load"
         /\ \/ Ends(w)
            \/ Goes(w, {"caught"}) /\ SameHand(w)
            \/ /\ Goes(w, {"before"}) /\ worker'[w].pending = {}
               /\ worker'[w].known = [e \in Entities |-> Found(e)]
               /\ worker'[w].todo = Work(worker[w].phase)
               /\ worker'[w].armed = Armed(worker[w].phase)
<1> DEFINE next == [Goto(w, "before") EXCEPT !.known = [e \in Entities |-> Found(e)],
                                             !.todo = Work(worker[w].phase),
                                             !.armed = Armed(worker[w].phase)]
<1>1. /\ worker[w].pc = "load" /\ SameStore /\ UNCHANGED <<run, source, claim>>
      /\ \/ (\E attempt : End(w, attempt)) /\ Fine
         \/ On(w, next) /\ Fine
         \/ On(w, Goto(w, "caught")) /\ Fault
  BY DEF Load, At, SameStore, Throw
<1>2. run' \in [Runs -> Rows] /\ faults' \in 0 .. MaxFaults /\ faults' <= faults
  BY <1>1, FaultsCount, BoundsAssumption DEF Types, RunTypes
<1>3. CASE (\E attempt : End(w, attempt)) \/ On(w, Goto(w, "caught"))
  <2>1. Types' /\ ((Goes(w, {"caught"}) /\ SameHand(w)) \/ Ends(w))
    BY <1>1, <1>2, <1>3, CallStep DEF Stages, Unloaded, Later
  <2>2. QED
    BY <1>1, <1>2, <2>1
<1>4. CASE On(w, next)
  <2> DEFINE here == Goto(w, "before")
  <2>1. /\ here \in WorkerRecs /\ WorkerType(here) /\ here.pc = "before"
        /\ here.run = worker[w].run /\ here.by = worker[w].by /\ here.phase = worker[w].phase
        /\ here.pending = worker[w].pending
    BY <1>1, GotoDoes DEF Stages, Unloaded, Later
  <2>2. [e \in Entities |-> Found(e)] \in [Entities -> Nat]
    BY FoundTypes
  <2>3. Work(worker[w].phase) \in SUBSET Entities /\ Armed(worker[w].phase) \in BOOLEAN
    BY DEF Work, Armed
  <2>4. PICK known, todo, armed : /\ known = [e \in Entities |-> Found(e)]
                                  /\ todo = Work(worker[w].phase) /\ armed = Armed(worker[w].phase)
    OBVIOUS
  <2>5. next = [here EXCEPT !.known = known, !.todo = todo, !.armed = armed]
    BY <2>4
  <2> HIDE DEF here, next
  <2>6. /\ next \in WorkerRecs /\ next.pc = "before"
        /\ next.run = worker[w].run /\ next.by = worker[w].by /\ next.phase = worker[w].phase
        /\ next.pending = worker[w].pending
        /\ next.known = known /\ next.todo = todo /\ next.armed = armed
    BY <2>1, <2>2, <2>3, <2>4, <2>5 DEF WorkerRecs
  <2>7. WorkerType(next)
    <3>1. next.pending = {} /\ next.pc \notin Unloaded
      BY <1>1, <2>6 DEF Types, WorkerType, Unloaded
    <3>2. \A e \in Entities : known[e] = Found(e)
      BY <2>4
    <3>3. QED
      BY <2>1, <2>4, <2>6, <3>1, <3>2, FoundTypes DEF WorkerType
  <2>8. RunTypes' /\ Become(w, next)
    BY <1>1, <1>2, <1>4 DEF Types, RunTypes, On
  <2>9. Types' /\ worker'[w] = next /\ Others(w)
    BY <1>1, <2>7, <2>8, HandStep DEF SameStore
  <2>10. worker'[w].pending = {}
    BY <1>1, <2>6, <2>9 DEF Types, WorkerType, Unloaded
  <2>11. QED
    BY <1>1, <1>2, <2>4, <2>6, <2>9, <2>10 DEF Goes
<1>5. QED
  BY <1>1, <1>3, <1>4

-----------------------------------------------------------------------------
(* The work of a phase.                                                      *)

LessThan == {p \in Nat \X Nat : p[1] < p[2]}

(* Every non-empty set of natural numbers has a least element.               *)
LEMMA LeastNatural ==
  ASSUME NEW S, S \subseteq Nat, S # {}
  PROVE  \E k \in S : \A j \in S : k <= j
<1>1. IsWellFoundedOn(LessThan, Nat)
  BY NatLessThanWellFounded, Zenon DEF OpToRel, LessThan
<1>2. \E k \in S : \A j \in S : ~ (<<j, k>> \in LessThan)
  BY <1>1, WFMin, Zenon
<1>3. \A j, k \in Nat : <<j, k>> \in LessThan <=> j < k
  BY DEF LessThan
<1>4. \A j, k \in Nat : ~ (j < k) => k <= j
  OBVIOUS
<1>5. QED
  BY <1>2, <1>3, <1>4

(* What an invocation is at is of its phase.                                 *)
LEMMA CurrentIs ==
  ASSUME Types, NEW w \in Workers, worker[w].todo # {}
  PROVE  /\ Current(w) \in worker[w].todo /\ Current(w) \in Entities
         /\ Current(w) \in Work(worker[w].phase) /\ Current(w) = First(worker[w].todo)
<1>1. worker[w].todo \subseteq Entities /\ Entities \subseteq Nat
      /\ worker[w].todo \subseteq Work(worker[w].phase)
  BY SourceAssumption DEF Types, WorkerType, WorkerRecs
<1>2. \E e \in worker[w].todo : \A d \in worker[w].todo : e <= d
  BY <1>1, LeastNatural
<1>3. QED
  BY <1>1, <1>2 DEF Current, First

\* The invocation goes on with other things in hand.
Hands(w, todo, pending, known, armed, list) ==
    /\ worker'[w].todo = todo /\ worker'[w].pending = pending /\ worker'[w].known = known
    /\ worker'[w].armed = armed /\ worker'[w].list = list

\* The record of an invocation at another stage, with other things in hand.
HandOf(w, stage, todo, pending, known, armed, list) ==
    [worker[w] EXCEPT !.pc = stage, !.todo = todo, !.pending = pending, !.known = known,
                      !.armed = armed, !.list = list]

(* An invocation that goes on with other things in hand.                     *)
LEMMA HandOfDoes ==
  ASSUME Types, NEW w \in Workers, worker[w].pc # "idle", NEW stage \in Later,
         NEW todo \in SUBSET worker[w].todo, NEW pending \in SUBSET Entities,
         NEW known \in [Entities -> Nat], NEW armed \in BOOLEAN, NEW list \in SUBSET Addressless,
         Become(w, HandOf(w, stage, todo, pending, known, armed, list)), UNCHANGED tab,
         RunTypes', StoreTypes', \A e \in Entities : records[e] <= records'[e],
         \A e \in Entities : known[e] <= records'[e],
         \A e \in pending : known[e] # 0
  PROVE  Types' /\ Goes(w, {stage}) /\ Hands(w, todo, pending, known, armed, list)
<1>0. PICK next : next = HandOf(w, stage, todo, pending, known, armed, list)
  OBVIOUS
<1>1. worker[w] \in WorkerRecs /\ WorkerType(worker[w]) /\ worker[w].todo \subseteq Entities
  BY DEF Types, WorkerType, WorkerRecs
<1>2. /\ next \in WorkerRecs /\ next.pc = stage
      /\ next.run = worker[w].run /\ next.by = worker[w].by /\ next.phase = worker[w].phase
      /\ next.todo = todo /\ next.pending = pending /\ next.known = known /\ next.armed = armed
      /\ next.list = list
  BY <1>0, <1>1 DEF HandOf, WorkerRecs, Later
<1>3. WorkerType(next)'
  <2>1. worker[w].run \in Runs /\ stage \notin Unloaded /\ stage # "idle"
        /\ todo \subseteq Work(worker[w].phase)
    BY <1>1 DEF WorkerType, Unloaded, Later
  <2>2. QED
    BY <1>2, <2>1 DEF WorkerType, Work, Later
<1>4. Types' /\ worker'[w] = next /\ Others(w)
  BY <1>0, <1>2, <1>3, WorkerStep DEF Types
<1>5. QED
  BY <1>2, <1>4 DEF Goes, Hands

(* A record that was found or created is in hand.                            *)
LEMMA RecordedDoes ==
  ASSUME Types, NEW w \in Workers, NEW id \in Nat \ {0}, On(w, Recorded(w, id)),
         worker[w].pc # "idle", worker[w].todo # {}, RunTypes', StoreTypes',
         \A d \in Entities : records[d] <= records'[d], id <= records'[Current(w)]
  PROVE  LET e == Current(w)
             r == worker[w]
         IN  \E stage \in {"map", "work"} :
               /\ Types' /\ Goes(w, {stage}) /\ (e \notin Natural => stage = "map")
               /\ \E known : /\ known \in [Entities -> Nat] /\ known[e] = id
                             /\ \A d \in Entities \ {e} : known[d] = r.known[d]
                             /\ Hands(w, r.todo \ {e}, r.pending \cup {e}, known, r.armed, r.list)
<1> DEFINE e == Current(w)
           r == worker[w]
           pending == r.pending \cup {e}
           stage == IF WriteNow(e, pending) THEN "map" ELSE "work"
           known == [r.known EXCEPT ![e] = id]
           left == r.todo \ {e}
<1>1. e \in r.todo /\ e \in Entities
  BY CurrentIs
<1>2. r \in WorkerRecs /\ WorkerType(r) /\ r.known \in [Entities -> Nat]
  BY DEF Types, WorkerType, WorkerRecs
<1>3. known \in [Entities -> Nat] /\ known[e] = id /\ \A d \in Entities \ {e} : known[d] = r.known[d]
  BY <1>1, <1>2
<1>4. Recorded(w, id) = HandOf(w, stage, left, pending, known, r.armed, r.list)
  BY <1>2 DEF Recorded, HandOf, WorkerRecs, Next1
<1>5. \A d \in Entities : known[d] <= records'[d]
  <2>1. ASSUME NEW d \in Entities \ {e} PROVE known[d] <= records'[d]
    <3>1. /\ known[d] = r.known[d] /\ r.known[d] <= records[d] /\ records[d] <= records'[d]
          /\ r.known[d] \in Nat /\ records[d] \in Nat /\ records'[d] \in Nat
      BY <1>2, <1>3 DEF WorkerType, Types, StoreTypes
    <3>2. QED
      BY <3>1
  <2>2. QED
    BY <1>3, <2>1
<1>6. \A d \in pending : known[d] # 0
  BY <1>1, <1>2, <1>3 DEF WorkerType, WorkerRecs
<1>7. stage \in Later /\ pending \in SUBSET Entities /\ r.armed \in BOOLEAN
      /\ r.list \in SUBSET Addressless /\ left \in SUBSET r.todo
  BY <1>1, <1>2 DEF Stages, Unloaded, Later, WorkerRecs
<1>8. Become(w, HandOf(w, stage, left, pending, known, r.armed, r.list)) /\ UNCHANGED tab
  BY <1>4 DEF On
<1>9. stage \in {"map", "work"} /\ (e \notin Natural => stage = "map")
  BY DEF WriteNow
<1>10. Types' /\ Goes(w, {stage}) /\ Hands(w, left, pending, known, r.armed, r.list)
  <2>1. PICK k, s, p, l : k = known /\ s = stage /\ p = pending /\ l = left
    OBVIOUS
  <2>2. /\ s \in Later /\ l \in SUBSET r.todo /\ p \in SUBSET Entities /\ k \in [Entities -> Nat]
        /\ r.armed \in BOOLEAN /\ r.list \in SUBSET Addressless
        /\ \A d \in Entities : k[d] <= records'[d]
        /\ \A d \in p : k[d] # 0
        /\ Become(w, HandOf(w, s, l, p, k, r.armed, r.list)) /\ UNCHANGED tab
    <3> HIDE DEF known, stage, pending, left
    <3>1. QED
      BY <1>3, <1>5, <1>6, <1>7, <1>8, <2>1
  <2>3. Types' /\ Goes(w, {s}) /\ Hands(w, l, p, k, r.armed, r.list)
    BY <2>2, HandOfDoes
  <2>4. QED
    BY <2>1, <2>3
<1> HIDE DEF known, stage
<1>11. QED
  BY <1>3, <1>9, <1>10

(* The address is looked for: a record that has it is taken.                 *)
LEMMA LookUpDoes ==
  ASSUME Types, NEW w \in Workers, LookUp(w)
  PROVE  LET e == Current(w)
             r == worker[w]
         IN  /\ Types' /\ UNCHANGED <<run, claim, faults>> /\ SameStore
             /\ r.pc = "work" /\ e \in r.todo /\ e \in Natural /\ e \in Work(r.phase)
             /\ r.phase # 4 /\ r.known[e] = 0
             /\ \/ /\ Goes(w, {"map", "work"}) /\ records[e] > 0
                   /\ \E known : /\ known \in [Entities -> Nat] /\ known[e] = 1
                                 /\ \A d \in Entities \ {e} : known[d] = r.known[d]
                                 /\ Hands(w, r.todo \ {e}, r.pending \cup {e}, known, r.armed, r.list)
                \/ records[e] = 0 /\ Goes(w, {"post"}) /\ SameHand(w)
<1> DEFINE e == Current(w)
           r == worker[w]
<1>1. /\ r.pc = "work" /\ r.todo # {} /\ r.phase # 4 /\ r.known[e] = 0 /\ e \in Natural
      /\ \/ records[e] > 0 /\ On(w, Recorded(w, 1))
         \/ ~ (records[e] > 0) /\ On(w, Goto(w, "post"))
      /\ faults' = faults /\ UNCHANGED <<run, source, claim>> /\ SameStore
  BY DEF LookUp, Creating, Busy, At, Fine, SameStore
<1>2. e \in r.todo /\ e \in Entities /\ e \in Work(r.phase) /\ e = First(r.todo)
  BY <1>1, CurrentIs
<1>3. r \in WorkerRecs /\ WorkerType(r) /\ records[e] \in Nat
  BY <1>2 DEF Types, StoreTypes
<1>4. RunTypes'
  BY <1>1 DEF Types, RunTypes, On
<1>5. ASSUME records[e] > 0, On(w, Recorded(w, 1))
      PROVE  /\ Types' /\ Goes(w, {"map", "work"})
             /\ \E known : /\ known \in [Entities -> Nat] /\ known[e] = 1
                           /\ \A d \in Entities \ {e} : known[d] = r.known[d]
                           /\ Hands(w, r.todo \ {e}, r.pending \cup {e}, known, r.armed, r.list)
  <2>1. PICK id : id = 1
    OBVIOUS
  <2>2. StoreTypes' /\ id \in Nat \ {0} /\ id <= records'[e]
        /\ \A d \in Entities : records[d] <= records'[d]
    BY <1>1, <1>3, <1>5, <2>1 DEF Types, StoreTypes, SameStore
  <2>3. \E stage \in {"map", "work"} :
           /\ Types' /\ Goes(w, {stage})
           /\ \E known : /\ known \in [Entities -> Nat] /\ known[e] = id
                         /\ \A d \in Entities \ {e} : known[d] = r.known[d]
                         /\ Hands(w, r.todo \ {e}, r.pending \cup {e}, known, r.armed, r.list)
    BY <1>1, <1>2, <1>4, <1>5, <2>1, <2>2, RecordedDoes
  <2>4. QED
    BY <2>1, <2>3 DEF Goes
<1>6. ASSUME ~ (records[e] > 0), On(w, Goto(w, "post"))
      PROVE  Types' /\ records[e] = 0 /\ Goes(w, {"post"}) /\ SameHand(w)
  <2> DEFINE next == Goto(w, "post")
  <2>1. /\ next \in WorkerRecs /\ next.pc = "post"
        /\ next.run = r.run /\ next.by = r.by /\ next.phase = r.phase
        /\ next.todo = r.todo /\ next.pending = r.pending
        /\ next.known = r.known /\ next.armed = r.armed /\ next.list = r.list
    BY <1>3 DEF Goto, WorkerRecs, Stages
  <2>2. Become(w, next) /\ records[e] = 0
    BY <1>3, <1>6 DEF On
  <2> HIDE DEF next
  <2>3. WorkerType(next)
    BY <1>1, <1>2, <1>3, <2>1 DEF WorkerType, Unloaded
  <2>4. Types' /\ worker'[w] = next /\ Others(w)
    BY <1>1, <1>4, <2>2, <2>3, HandStep DEF SameStore
  <2>5. QED
    BY <2>1, <2>2, <2>4 DEF Goes, SameHand
<1> HIDE DEF e, r
<1>7. QED
  BY <1>1, <1>2, <1>5, <1>6 DEF e, r

(* A record more, whose id comes back or not.                                *)
LEMMA PostDoes ==
  ASSUME Types, NEW w \in Workers, NEW counts \in BOOLEAN, Post(w, counts)
  PROVE  LET e == Current(w)
             r == worker[w]
         IN  /\ StoreTypes' /\ UNCHANGED <<run, source, claim, newest, address, placed, slow>>
             /\ r.pc \in {"work", "post"} /\ (r.pc = "post" <=> e \in Natural)
             /\ e \in r.todo /\ e \in Entities /\ e \in Work(r.phase)
             /\ r.phase # 4 /\ r.known[e] = 0
             /\ records'[e] = records[e] + 1
             /\ \A d \in Entities \ {e} : records'[d] = records[d]
             /\ \A d \in Entities : records[d] <= records'[d]
<1> DEFINE e == Current(w)
           r == worker[w]
<1>1. /\ records' = [records EXCEPT ![e] = @ + 1]
      /\ UNCHANGED <<run, source, claim, newest, address, placed, slow>>
      /\ \/ r.pc = "post"
         \/ r.pc = "work" /\ r.todo # {} /\ r.phase # 4 /\ r.known[e] = 0 /\ e \notin Natural
  BY DEF Post, Posting, Creating, Busy, At
<1>2. WorkerType(r) /\ records \in [Entities -> Nat]
  BY DEF Types, StoreTypes
<1>3. r.todo # {}
  BY <1>1, <1>2 DEF WorkerType
<1>4. e \in r.todo /\ e \in Entities /\ e \in Work(r.phase) /\ e = First(r.todo)
  BY <1>3, CurrentIs
<1>5. r.phase # 4 /\ r.known[e] = 0 /\ (r.pc = "post" <=> e \in Natural)
  <2>1. CASE r.pc = "post"
    BY <1>2, <1>4, <2>1 DEF WorkerType
  <2>2. CASE r.pc # "post"
    BY <1>1, <2>2
  <2>3. QED
    BY <2>1, <2>2
<1>6. /\ records' \in [Entities -> Nat] /\ records'[e] = records[e] + 1
      /\ \A d \in Entities \ {e} : records'[d] = records[d]
      /\ \A d \in Entities : records[d] <= records'[d]
  BY <1>1, <1>2, <1>4
<1>7. StoreTypes'
  <2>1. \A d \in Entities : address[d] \in Nat /\ address'[d] <= records'[d]
    BY <1>1, <1>2, <1>6 DEF Types, StoreTypes
  <2>2. ASSUME NEW i \in RemoteIds, newest[i] # NoMapping
        PROVE  /\ newest[i].of \in Entities /\ Id[newest[i].of] = i
               /\ newest[i].local \in 1 .. records'[newest[i].of]
    <3>1. /\ newest[i].of \in Entities /\ Id[newest[i].of] = i
          /\ newest[i].local \in 1 .. records[newest[i].of]
      BY <2>2 DEF Types, StoreTypes
    <3>2. records[newest[i].of] <= records'[newest[i].of] /\ records[newest[i].of] \in Nat
          /\ records'[newest[i].of] \in Nat
      BY <1>2, <1>6, <3>1
    <3>3. QED
      BY <3>1, <3>2
  <2>3. QED
    BY <1>1, <1>6, <2>1, <2>2 DEF Types, StoreTypes, Work
<1> HIDE DEF e, r
<1>8. QED
  BY <1>1, <1>4, <1>5, <1>6, <1>7 DEF e, r

(* The create comes back, or does not.                                       *)
LEMMA CreateDoes ==
  ASSUME Types, NEW w \in Workers, Create(w)
  PROVE  LET e == Current(w)
             r == worker[w]
         IN  /\ Types' /\ Post(w, FALSE)
             /\ \/ /\ \E stage \in {"map", "work"} :
                         Goes(w, {stage}) /\ (e \notin Natural => stage = "map")
                   /\ \E known : /\ known \in [Entities -> Nat] /\ known[e] = records[e] + 1
                                 /\ \A d \in Entities \ {e} : known[d] = r.known[d]
                                 /\ Hands(w, r.todo \ {e}, r.pending \cup {e}, known, r.armed, r.list)
                   /\ faults' = faults
                \/ Goes(w, {"caught"}) /\ SameHand(w) /\ faults' = faults - 1
<1> DEFINE e == Current(w)
           r == worker[w]
<1>0. PICK counts \in BOOLEAN : counts = FALSE
  OBVIOUS
<1>1. /\ Post(w, counts) /\ Post(w, FALSE)
      /\ (On(w, Recorded(w, records[e] + 1)) /\ Fine) \/ (On(w, Goto(w, "caught")) /\ Fault)
  BY <1>0 DEF Create, Throw
<1>2. /\ StoreTypes' /\ UNCHANGED <<run, source, claim, newest, address, placed>>
      /\ r.pc \in {"work", "post"} /\ e \in r.todo /\ e \in Entities /\ e \in Work(r.phase)
      /\ records'[e] = records[e] + 1
      /\ \A d \in Entities : records[d] <= records'[d]
  BY <1>1, PostDoes
<1>3. r \in WorkerRecs /\ WorkerType(r) /\ records[e] \in Nat
  BY <1>2 DEF Types, StoreTypes
<1>4. ASSUME On(w, Recorded(w, records[e] + 1)), Fine
      PROVE  \E stage \in {"map", "work"} :
               /\ Types' /\ Goes(w, {stage}) /\ (e \notin Natural => stage = "map")
               /\ \E known : /\ known \in [Entities -> Nat] /\ known[e] = records[e] + 1
                             /\ \A d \in Entities \ {e} : known[d] = r.known[d]
                             /\ Hands(w, r.todo \ {e}, r.pending \cup {e}, known, r.armed, r.list)
  <2>1. PICK id : id = records[e] + 1
    OBVIOUS
  <2>2. RunTypes' /\ id \in Nat \ {0} /\ id <= records'[e] /\ r.todo # {} /\ r.pc # "idle"
    BY <1>2, <1>3, <1>4, <2>1 DEF Types, RunTypes, On, Fine
  <2>3. \E stage \in {"map", "work"} :
           /\ Types' /\ Goes(w, {stage}) /\ (e \notin Natural => stage = "map")
           /\ \E known : /\ known \in [Entities -> Nat] /\ known[e] = id
                         /\ \A d \in Entities \ {e} : known[d] = r.known[d]
                         /\ Hands(w, r.todo \ {e}, r.pending \cup {e}, known, r.armed, r.list)
    BY <1>2, <1>4, <2>1, <2>2, RecordedDoes
  <2>4. QED
    BY <2>1, <2>3
<1>5. ASSUME On(w, Goto(w, "caught")), Fault
      PROVE  Types' /\ Goes(w, {"caught"}) /\ SameHand(w) /\ faults' = faults - 1
  <2>1. Goto(w, "caught") = HandOf(w, "caught", r.todo, r.pending, r.known, r.armed, r.list)
    BY <1>3 DEF Goto, HandOf, WorkerRecs
  <2>2. faults' \in 0 .. MaxFaults /\ faults' = faults - 1
    BY <1>5, FaultsCount, BoundsAssumption DEF Types, RunTypes, Fault
  <2>3. RunTypes'
    BY <1>2, <1>5, <2>2 DEF Types, RunTypes, On
  <2>4. \A d \in Entities : r.known[d] <= records'[d]
    <3>1. \A d \in Entities : r.known[d] \in Nat /\ records[d] \in Nat /\ records'[d] \in Nat
      BY <1>2, <1>3 DEF Types, StoreTypes, WorkerRecs
    <3>2. QED
      BY <1>2, <1>3, <3>1 DEF WorkerType
  <2>5. \A d \in r.pending : r.known[d] # 0
    BY <1>3 DEF WorkerType
  <2>6. "caught" \in Later /\ r.armed \in BOOLEAN /\ r.list \in SUBSET Addressless
    BY <1>3 DEF Stages, Unloaded, Later, WorkerRecs
  <2>7. Become(w, HandOf(w, "caught", r.todo, r.pending, r.known, r.armed, r.list)) /\ UNCHANGED tab
    BY <1>5, <2>1 DEF On
  <2>8. Types' /\ Goes(w, {"caught"}) /\ Hands(w, r.todo, r.pending, r.known, r.armed, r.list)
    <3>1. /\ r.todo \in SUBSET r.todo /\ r.pending \in SUBSET Entities
          /\ r.known \in [Entities -> Nat] /\ r.pc # "idle"
      BY <1>2, <1>3 DEF WorkerRecs
    <3>2. QED
      BY <1>2, <2>3, <2>4, <2>5, <2>6, <2>7, <3>1, HandOfDoes
  <2>9. QED
    BY <2>2, <2>8 DEF Hands, SameHand
<1> HIDE DEF e, r
<1>6. QED
  BY <1>1, <1>4, <1>5 DEF e, r, Fine

(* The create is sent again, and the invocation waits for it as before.      *)
LEMMA SentAgainDoes ==
  ASSUME Types, NEW w \in Workers, SentAgain(w)
  PROVE  /\ Types' /\ worker' = worker /\ faults' = faults - 1
         /\ \E counts \in BOOLEAN : Post(w, counts) /\ (Current(w) \in Natural => counts)
<1> DEFINE natural == Current(w) \in Natural
<1>a. natural \in BOOLEAN
  OBVIOUS
<1>0. PICK counts \in BOOLEAN : counts = natural
  <2> HIDE DEF natural
  <2>1. QED
    BY <1>a
<1>1. Post(w, counts) /\ worker' = worker /\ tab' = tab /\ Fault
  BY <1>0 DEF SentAgain
<1>2. /\ StoreTypes' /\ UNCHANGED <<run, source, claim>>
      /\ \A d \in Entities : records[d] <= records'[d]
  BY <1>1, PostDoes
<1>3. faults' \in 0 .. MaxFaults /\ faults' = faults - 1
  BY <1>1, FaultsCount, BoundsAssumption DEF Types, RunTypes, Fault
<1>4. RunTypes'
  BY <1>1, <1>2, <1>3 DEF Types, RunTypes
<1>5. \A v \in Workers : WorkerType(worker[v])'
  <2>1. ASSUME NEW v \in Workers, NEW d \in Entities PROVE worker[v].known[d] <= records'[d]
    <3>1. worker[v].known[d] \in Nat /\ records[d] \in Nat /\ records'[d] \in Nat
          /\ worker[v].known[d] <= records[d]
      BY <1>2 DEF Types, StoreTypes, WorkerType, WorkerRecs
    <3>2. QED
      BY <1>2, <3>1
  <2>2. QED
    BY <1>1, <2>1 DEF Types, WorkerType
<1>6. QED
  BY <1>0, <1>1, <1>2, <1>3, <1>4, <1>5 DEF Types

(* An update, a skipped session, a placement: one less to do.                *)
LEMMA GoOnDoes ==
  ASSUME Types, NEW w \in Workers, GoOn(w)
  PROVE  LET e == Current(w)
             r == worker[w]
         IN  /\ Types' /\ UNCHANGED <<run, claim, records, newest, address, faults>>
             /\ r.pc = "work" /\ e \in r.todo /\ e \in Entities /\ e \in Work(r.phase)
             /\ r.phase = 4 \/ r.known[e] # 0 \/ NoSubmitter(w)
             /\ Goes(w, {"work"}) /\ Hands(w, r.todo \ {e}, r.pending, r.known, r.armed, r.list)
             /\ placed' = IF r.phase = 4 /\ r.known[e] # 0 THEN placed \cup {e} ELSE placed
<1> DEFINE e == Current(w)
           r == worker[w]
<1>1. /\ r.pc = "work" /\ r.todo # {}
      /\ r.phase = 4 \/ r.known[e] # 0 \/ NoSubmitter(w)
      /\ placed' = (IF r.phase = 4 /\ r.known[e] # 0 THEN placed \cup {e} ELSE placed)
      /\ On(w, Next1(w)) /\ faults' = faults
      /\ UNCHANGED <<run, source, claim, records, newest, address>>
  BY DEF GoOn, Creating, Busy, At, Fine
<1>2. e \in r.todo /\ e \in Entities /\ e \in Work(r.phase)
  BY <1>1, CurrentIs
<1>3. r \in WorkerRecs /\ WorkerType(r)
  BY DEF Types, WorkerType
<1>4. StoreTypes'
  <2>1. placed' \subseteq Work(4)
    BY <1>1, <1>2 DEF Types, StoreTypes
  <2>2. QED
    BY <1>1, <2>1 DEF Types, StoreTypes, Work
<1>5. RunTypes'
  BY <1>1 DEF Types, RunTypes, On
<1>6. Next1(w) = HandOf(w, "work", r.todo \ {e}, r.pending, r.known, r.armed, r.list)
  BY <1>1, <1>3 DEF Next1, HandOf, WorkerRecs
<1>7. /\ "work" \in Later /\ r.pending \in SUBSET Entities /\ r.armed \in BOOLEAN
      /\ r.list \in SUBSET Addressless /\ r.todo \ {e} \in SUBSET r.todo /\ r.known \in [Entities -> Nat]
      /\ r.pc # "idle"
      /\ \A d \in Entities : r.known[d] <= records'[d]
      /\ \A d \in Entities : records[d] <= records'[d]
      /\ \A d \in r.pending : r.known[d] # 0
  BY <1>1, <1>3 DEF Stages, Unloaded, Later, WorkerRecs, WorkerType, Types, StoreTypes
<1>8. Types' /\ Goes(w, {"work"}) /\ Hands(w, r.todo \ {e}, r.pending, r.known, r.armed, r.list)
  <2> DEFINE left == r.todo \ {e}
  <2>1. left \in SUBSET r.todo
    OBVIOUS
  <2>2. Become(w, HandOf(w, "work", left, r.pending, r.known, r.armed, r.list)) /\ UNCHANGED tab
    BY <1>1, <1>6 DEF On
  <2> HIDE DEF left
  <2>3. Types' /\ Goes(w, {"work"}) /\ Hands(w, left, r.pending, r.known, r.armed, r.list)
    BY <1>4, <1>5, <1>7, <2>1, <2>2, HandOfDoes
  <2>4. QED
    BY <2>3 DEF left
<1> HIDE DEF e, r
<1>9. QED
  BY <1>1, <1>2, <1>8 DEF e, r

(* What is thrown.                                                           *)
LEMMA WorkFailsDoes ==
  ASSUME Types, NEW w \in Workers, WorkFails(w)
  PROVE  /\ Types' /\ SameStore /\ UNCHANGED <<run, claim>> /\ worker[w].pc \in {"work", "post"}
         /\ Goes(w, {"caught"}) /\ SameHand(w) /\ faults' = faults - 1
<1>1. /\ worker[w].pc \in {"work", "post"} /\ On(w, Goto(w, "caught")) /\ Fault /\ SameStore
      /\ UNCHANGED <<run, source, claim>>
  BY DEF WorkFails, Busy, At, Throw, SameStore
<1>2. faults' \in 0 .. MaxFaults /\ faults' = faults - 1
  BY <1>1, FaultsCount DEF Fault
<1>3. RunTypes'
  BY <1>1, <1>2 DEF Types, RunTypes, On
<1>4. QED
  BY <1>1, <1>2, <1>3, OnStep DEF Stages, Unloaded

\* The mappings once those in hand are written.
SavedBy(w) ==
    [i \in RemoteIds |->
        LET mine == {e \in worker[w].pending : Id[e] = i}
        IN  IF mine = {} THEN newest[i]
            ELSE LET e == CHOOSE e \in mine : TRUE
                 IN  [of |-> e, local |-> worker[w].known[e]]]

LEMMA SavedStore ==
  ASSUME Types, NEW w \in Workers, newest' \in {newest, SavedBy(w)},
         UNCHANGED <<records, address, placed>>
  PROVE  StoreTypes'
<1>1. worker[w] \in WorkerRecs /\ WorkerType(worker[w])
  BY DEF Types
<1>2. ASSUME NEW i \in RemoteIds
      PROVE  /\ SavedBy(w)[i] \in Mappings
             /\ SavedBy(w)[i] # NoMapping =>
                  /\ SavedBy(w)[i].of \in Entities /\ Id[SavedBy(w)[i].of] = i
                  /\ SavedBy(w)[i].local \in 1 .. records[SavedBy(w)[i].of]
  <2> DEFINE mine == {e \in worker[w].pending : Id[e] = i}
  <2>1. CASE mine = {}
    <3>1. SavedBy(w)[i] = newest[i]
      BY <2>1 DEF SavedBy
    <3>2. QED
      BY <3>1 DEF Types, StoreTypes
  <2>2. CASE mine # {}
    <3>1. PICK e \in mine : SavedBy(w)[i] = [of |-> e, local |-> worker[w].known[e]]
      BY <2>2 DEF SavedBy
    <3>2. /\ e \in Entities /\ Id[e] = i /\ worker[w].known[e] \in Nat
          /\ worker[w].known[e] # 0 /\ worker[w].known[e] <= records[e] /\ records[e] \in Nat
      BY <1>1, <3>1 DEF WorkerRecs, WorkerType, Types, StoreTypes
    <3>3. worker[w].known[e] \in 1 .. records[e]
      BY <3>2
    <3>4. QED
      BY <3>1, <3>2, <3>3 DEF Mappings
  <2>3. QED
    BY <2>1, <2>2
<1>3. SavedBy(w) \in [RemoteIds -> Mappings]
  BY <1>2 DEF SavedBy
<1>4. /\ newest' \in [RemoteIds -> Mappings]
      /\ \A i \in RemoteIds : newest'[i] # NoMapping =>
           /\ newest'[i].of \in Entities /\ Id[newest'[i].of] = i
           /\ newest'[i].local \in 1 .. records[newest'[i].of]
  <2>1. CASE newest' = newest
    BY <2>1 DEF Types, StoreTypes
  <2>2. CASE newest' = SavedBy(w)
    BY <1>2, <1>3, <2>2
  <2>3. QED
    BY <2>1, <2>2
<1>5. QED
  BY <1>4 DEF Types, StoreTypes, Work

(* The mappings in hand are written, or the write is refused, or its answer  *)
(* lost.                                                                     *)
LEMMA SaveMappingsDoes ==
  ASSUME Types, NEW w \in Workers, SaveMappings(w)
  PROVE  LET r == worker[w]
         IN  /\ Types' /\ UNCHANGED <<run, claim, records, address, placed>> /\ r.pc = "map"
             /\ \/ /\ newest' = SavedBy(w) /\ faults' = faults
                   /\ Goes(w, {"work"}) /\ Hands(w, r.todo, {}, r.known, r.armed, r.list)
                \/ /\ newest' \in {newest, SavedBy(w)} /\ faults' = faults - 1
                   /\ Goes(w, {"caught"}) /\ SameHand(w)
<1> DEFINE r == worker[w]
<1>1. /\ r.pc = "map" /\ UNCHANGED <<run, source, claim, records, address, placed>>
      /\ newest' \in {newest, SavedBy(w)}
      /\ \/ newest' = SavedBy(w) /\ On(w, [Goto(w, "work") EXCEPT !.pending = {}]) /\ Fine
         \/ On(w, Goto(w, "caught")) /\ Fault
  BY DEF SaveMappings, At, Throw, SavedBy
<1>2. r \in WorkerRecs /\ WorkerType(r)
  BY DEF Types
<1>3. StoreTypes'
  BY <1>1, SavedStore
<1>4. faults' \in 0 .. MaxFaults
  BY <1>1, FaultsCount
<1>5. RunTypes'
  BY <1>1, <1>4 DEF Types, RunTypes, On
<1>6. "work" \in Later
  BY DEF Stages, Unloaded, Later
<1>7. "caught" \in Later
  BY DEF Stages, Unloaded, Later
<1>8. /\ r.armed \in BOOLEAN
      /\ r.list \in SUBSET Addressless /\ r.todo \in SUBSET r.todo /\ r.known \in [Entities -> Nat]
      /\ r.pc # "idle"
      /\ \A d \in Entities : r.known[d] <= records'[d]
      /\ \A d \in Entities : records[d] <= records'[d]
  BY <1>1, <1>2 DEF WorkerRecs, WorkerType, Types, StoreTypes
<1>9. r.pending \in SUBSET Entities /\ \A d \in r.pending : r.known[d] # 0
  BY <1>2 DEF WorkerRecs, WorkerType
<1>10. [Goto(w, "work") EXCEPT !.pending = {}] = HandOf(w, "work", r.todo, {}, r.known, r.armed, r.list)
      /\ Goto(w, "caught") = HandOf(w, "caught", r.todo, r.pending, r.known, r.armed, r.list)
  BY <1>2 DEF Goto, HandOf, WorkerRecs
<1>11. CASE newest' = SavedBy(w) /\ On(w, [Goto(w, "work") EXCEPT !.pending = {}]) /\ Fine
  <2>1. Become(w, HandOf(w, "work", r.todo, {}, r.known, r.armed, r.list)) /\ UNCHANGED tab
    BY <1>10, <1>11 DEF On
  <2>2. PICK todo, pending : todo = r.todo /\ pending = {}
    OBVIOUS
  <2>3. Types' /\ Goes(w, {"work"}) /\ Hands(w, r.todo, {}, r.known, r.armed, r.list)
    <3>1. /\ todo \in SUBSET r.todo /\ pending \in SUBSET Entities
          /\ \A d \in pending : r.known[d] # 0
          /\ Become(w, HandOf(w, "work", todo, pending, r.known, r.armed, r.list))
      BY <2>1, <2>2
    <3>2. Types' /\ Goes(w, {"work"}) /\ Hands(w, todo, pending, r.known, r.armed, r.list)
      BY <1>3, <1>6, <1>5, <1>8, <2>1, <3>1, HandOfDoes
    <3>3. QED
      BY <2>2, <3>2
  <2>4. QED
    BY <1>1, <1>11, <2>3 DEF Fine
<1>12. CASE On(w, Goto(w, "caught")) /\ Fault
  <2>1. Become(w, HandOf(w, "caught", r.todo, r.pending, r.known, r.armed, r.list)) /\ UNCHANGED tab
    BY <1>10, <1>12 DEF On
  <2>2. Types' /\ Goes(w, {"caught"}) /\ Hands(w, r.todo, r.pending, r.known, r.armed, r.list)
    <3>1. PICK todo, pending : todo = r.todo /\ pending = r.pending
      OBVIOUS
    <3>2. /\ todo \in SUBSET r.todo /\ pending \in SUBSET Entities
          /\ \A d \in pending : r.known[d] # 0
          /\ Become(w, HandOf(w, "caught", todo, pending, r.known, r.armed, r.list))
      BY <1>8, <1>9, <2>1, <3>1
    <3>3. Types' /\ Goes(w, {"caught"}) /\ Hands(w, todo, pending, r.known, r.armed, r.list)
      BY <1>3, <1>7, <1>5, <1>8, <2>1, <3>2, HandOfDoes
    <3>4. QED
      BY <3>1, <3>3
  <2>3. SameHand(w) /\ faults' = faults - 1
    BY <1>12, <2>2 DEF Hands, SameHand, Fault
  <2>4. QED
    BY <1>1, <2>2, <2>3
<1>13. QED
  BY <1>1, <1>11, <1>12

(* The same, where no record or mapping changes.                             *)
LEMMA HandsStep ==
  ASSUME Types, NEW w \in Workers, worker[w].pc # "idle", NEW stage \in Later,
         NEW armed \in BOOLEAN, NEW list \in SUBSET Addressless,
         On(w, HandOf(w, stage, worker[w].todo, worker[w].pending, worker[w].known, armed, list)),
         SameStore, RunTypes'
  PROVE  /\ Types' /\ Goes(w, {stage})
         /\ Hands(w, worker[w].todo, worker[w].pending, worker[w].known, armed, list)
<1>1. PICK todo, pending, known : /\ todo = worker[w].todo /\ pending = worker[w].pending
                                  /\ known = worker[w].known
  OBVIOUS
<1>2. todo \in SUBSET worker[w].todo /\ pending \in SUBSET Entities /\ known \in [Entities -> Nat]
  BY <1>1 DEF Types, WorkerType, WorkerRecs
<1>3. \A e \in pending : known[e] # 0
  BY <1>1 DEF Types, WorkerType
<1>4. \A e \in Entities : known[e] <= records'[e]
  BY <1>1 DEF Types, WorkerType, SameStore
<1>5. \A e \in Entities : records[e] <= records'[e]
  BY DEF Types, StoreTypes, SameStore
<1>6. StoreTypes'
  BY DEF Types, StoreTypes, SameStore, Work
<1>7. Become(w, HandOf(w, stage, todo, pending, known, armed, list)) /\ UNCHANGED tab
  BY <1>1 DEF On
<1>8. Types' /\ Goes(w, {stage}) /\ Hands(w, todo, pending, known, armed, list)
  BY <1>2, <1>3, <1>4, <1>5, <1>6, <1>7, HandOfDoes
<1>9. QED
  BY <1>1, <1>8

(* The end of a phase.                                                       *)
LEMMA PhaseDoneDoes ==
  ASSUME Types, NEW w \in Workers, PhaseDone(w)
  PROVE  LET r == worker[w]
         IN  /\ Types' /\ SameStore /\ UNCHANGED <<run, claim, faults>> /\ r.pc = "work" /\ r.todo = {}
             /\ \/ r.pending # {} /\ Goes(w, {"map"}) /\ SameHand(w)
                \/ /\ r.pending = {} /\ Goes(w, {"after"})
                   /\ Hands(w, r.todo, r.pending, r.known, r.armed \/ r.phase = 2, r.list)
<1> DEFINE r == worker[w]
<1>1. /\ r.pc = "work" /\ r.todo = {} /\ SameStore /\ UNCHANGED <<run, source, claim, faults>>
      /\ \/ r.pending # {} /\ On(w, Goto(w, "map"))
         \/ r.pending = {} /\ On(w, [Goto(w, "after") EXCEPT !.armed = @ \/ r.phase = 2])
  BY DEF PhaseDone, At, SameStore
<1>2. RunTypes'
  BY <1>1 DEF Types, RunTypes, On
<1>3. CASE r.pending # {} /\ On(w, Goto(w, "map"))
  BY <1>1, <1>2, <1>3, OnStep DEF Stages, Unloaded, Later
<1>4. CASE r.pending = {} /\ On(w, [Goto(w, "after") EXCEPT !.armed = @ \/ r.phase = 2])
  <2>1. r \in WorkerRecs /\ r.armed \in BOOLEAN /\ r.list \in SUBSET Addressless
    BY DEF Types, WorkerType, WorkerRecs
  <2>2. PICK armed \in BOOLEAN : armed = (r.armed \/ r.phase = 2)
    OBVIOUS
  <2>3. [Goto(w, "after") EXCEPT !.armed = @ \/ r.phase = 2]
          = HandOf(w, "after", r.todo, r.pending, r.known, armed, r.list)
    BY <2>1, <2>2 DEF Goto, HandOf, WorkerRecs
  <2>4. On(w, HandOf(w, "after", r.todo, r.pending, r.known, armed, r.list)) /\ r.pc # "idle"
    BY <1>1, <1>4, <2>3
  <2>5. "after" \in Later
    BY DEF Stages, Unloaded, Later
  <2>6. Types' /\ Goes(w, {"after"}) /\ Hands(w, r.todo, r.pending, r.known, armed, r.list)
    BY <1>1, <1>2, <2>1, <2>4, <2>5, HandsStep
  <2>7. QED
    BY <1>1, <1>4, <2>2, <2>6
<1>5. QED
  BY <1>1, <1>3, <1>4

(* The list is of speakers without an address.                               *)
LEMMA SettledType ==
  ASSUME Types, NEW w \in Workers
  PROVE  Settled(w) \in SUBSET Addressless
  BY DEF Settled, Derived, Types, WorkerType, WorkerRecs

(* The list is derived, or the run goes on in another call.                  *)
LEMMA SettleDoes ==
  ASSUME Types, NEW w \in Workers, Settle(w)
  PROVE  LET r == worker[w]
         IN  /\ Types' /\ SameStore /\ UNCHANGED <<run, claim>> /\ faults' <= faults /\ r.pc = "settle"
             /\ \/ Ends(w)
                \/ /\ r.phase = 4 /\ Goes(w, {"finish"})
                   /\ Hands(w, r.todo, r.pending, r.known, r.armed, Settled(w))
                \/ Goes(w, {"caught"}) /\ SameHand(w)
<1> DEFINE r == worker[w]
<1>1. /\ r.pc = "settle" /\ SameStore /\ UNCHANGED <<run, source, claim>> /\ (Fault \/ Fine)
      /\ \/ r.phase = 4 /\ On(w, [Goto(w, "finish") EXCEPT !.list = Settled(w)])
         \/ On(w, Goto(w, "caught"))
         \/ \E attempt : End(w, attempt)
  BY DEF Settle, At, SameStore, Throw
<1>2. run' \in [Runs -> Rows] /\ faults' \in 0 .. MaxFaults /\ faults' <= faults
  BY <1>1, FaultsCount, BoundsAssumption DEF Types, RunTypes
<1>3. CASE r.phase = 4 /\ On(w, [Goto(w, "finish") EXCEPT !.list = Settled(w)])
  <2>1. r \in WorkerRecs /\ r.armed \in BOOLEAN
    BY DEF Types, WorkerType, WorkerRecs
  <2>2. PICK list \in SUBSET Addressless : list = Settled(w)
    BY SettledType
  <2>3. [Goto(w, "finish") EXCEPT !.list = Settled(w)]
          = HandOf(w, "finish", r.todo, r.pending, r.known, r.armed, list)
    BY <2>1, <2>2 DEF Goto, HandOf, WorkerRecs
  <2>4. On(w, HandOf(w, "finish", r.todo, r.pending, r.known, r.armed, list)) /\ r.pc # "idle"
    BY <1>1, <1>3, <2>3
  <2>5. "finish" \in Later
    BY DEF Stages, Unloaded, Later
  <2>6. RunTypes'
    BY <1>1, <1>2, <1>3 DEF Types, RunTypes, On
  <2>7. Types' /\ Goes(w, {"finish"}) /\ Hands(w, r.todo, r.pending, r.known, r.armed, list)
    BY <1>1, <2>1, <2>4, <2>5, <2>6, HandsStep
  <2>8. QED
    BY <1>1, <1>2, <1>3, <2>2, <2>7
<1>4. CASE On(w, Goto(w, "caught")) \/ \E attempt : End(w, attempt)
  <2>1. Types' /\ ((Goes(w, {"caught"}) /\ SameHand(w)) \/ Ends(w))
    BY <1>1, <1>2, <1>4, CallStep DEF Stages, Unloaded, Later
  <2>2. QED
    BY <1>1, <1>2, <2>1
<1>5. QED
  BY <1>1, <1>3, <1>4

LEMMA SettleAgainDoes ==
  ASSUME Types, NEW w \in Workers, SettleAgain(w)
  PROVE  /\ Types' /\ SameStore /\ UNCHANGED <<run, claim>> /\ faults' <= faults
         /\ worker[w].pc = "caught" /\ Goes(w, {"refence"})
<1> DEFINE r == worker[w]
<1>1. /\ r.pc = "caught" /\ SameStore /\ UNCHANGED <<run, source, claim>> /\ (Fault \/ Fine)
      /\ \/ On(w, [Goto(w, "refence") EXCEPT !.list = Settled(w)])
         \/ On(w, Goto(w, "refence"))
  BY DEF SettleAgain, At, SameStore
<1>2. run' \in [Runs -> Rows] /\ faults' \in 0 .. MaxFaults /\ faults' <= faults
  BY <1>1, FaultsCount, BoundsAssumption DEF Types, RunTypes
<1>3. CASE On(w, [Goto(w, "refence") EXCEPT !.list = Settled(w)])
  <2>1. r \in WorkerRecs /\ r.armed \in BOOLEAN
    BY DEF Types, WorkerType, WorkerRecs
  <2>2. PICK list \in SUBSET Addressless : list = Settled(w)
    BY SettledType
  <2>3. [Goto(w, "refence") EXCEPT !.list = Settled(w)]
          = HandOf(w, "refence", r.todo, r.pending, r.known, r.armed, list)
    BY <2>1, <2>2 DEF Goto, HandOf, WorkerRecs
  <2>4. On(w, HandOf(w, "refence", r.todo, r.pending, r.known, r.armed, list)) /\ r.pc # "idle"
    BY <1>1, <1>3, <2>3
  <2>5. "refence" \in Later
    BY DEF Stages, Unloaded, Later
  <2>6. RunTypes'
    BY <1>1, <1>2, <1>3 DEF Types, RunTypes, On
  <2>7. Types' /\ Goes(w, {"refence"})
    BY <1>1, <2>1, <2>4, <2>5, <2>6, HandsStep
  <2>8. QED
    BY <1>1, <1>2, <2>7
<1>4. CASE On(w, Goto(w, "refence"))
  <2>1. RunTypes'
    BY <1>1, <1>2, <1>4 DEF Types, RunTypes, On
  <2>2. QED
    BY <1>1, <1>2, <1>4, <2>1, OnStep DEF Stages, Unloaded, Later
<1>5. QED
  BY <1>1, <1>3, <1>4

(* The rows an outcome makes.                                                *)
LEMMA OutcomeIs ==
  ASSUME Types, NEW r \in Runs, NEW status \in Terminal, NEW told \in BOOLEAN,
         NEW list \in SUBSET Addressless
  PROVE  /\ Outcome(r, status, told, list) \in Rows
         /\ Outcome(r, status, told, list).status = status
         /\ Outcome(r, status, told, list).phase = run[r].phase
         /\ Outcome(r, status, told, list).holder = NoHolder
         /\ told => Outcome(r, status, told, list).list = list
<1>1. run[r] \in Rows
  BY DEF Types, RunTypes
<1>2. 0 \in 0 .. Lease /\ NoHolder \in Holders \cup {NoHolder} /\ status \in Statuses
  BY BoundsAssumption DEF Statuses, Terminal
<1>3. QED
  BY <1>1, <1>2 DEF Outcome, Rows

LEMMA OutcomeDone ==
  ASSUME Types, NEW r \in Runs, NEW list \in SUBSET Addressless
  PROVE  /\ Outcome(r, "done", TRUE, list) \in Rows
         /\ Outcome(r, "done", TRUE, list).status = "done"
         /\ Outcome(r, "done", TRUE, list).phase = run[r].phase
         /\ Outcome(r, "done", TRUE, list).holder = NoHolder
         /\ Outcome(r, "done", TRUE, list).list = list
<1>1. run[r] \in Rows
  BY DEF Types, RunTypes
<1>2. 0 \in 0 .. Lease /\ NoHolder \in Holders \cup {NoHolder} /\ "done" \in Statuses
  BY BoundsAssumption DEF Statuses
<1>3. QED
  BY <1>1, <1>2 DEF Outcome, Rows

(* The run is done, or the write throws.                                     *)
LEMMA FinishDoneDoes ==
  ASSUME Types, NEW w \in Workers, FinishDone(w)
  PROVE  LET row == Outcome(Mine(w), "done", TRUE, worker[w].list)
         IN  /\ Types' /\ SameStore /\ claim' = claim /\ faults' <= faults /\ worker[w].pc = "finish"
             /\ \A q \in Runs \ {Mine(w)} : run'[q] = run[q]
             /\ run'[Mine(w)] \in {run[Mine(w)], row}
             /\ (Goes(w, {"caught"}) /\ SameHand(w)) \/ Ends(w)
<1> DEFINE row == Outcome(Mine(w), "done", TRUE, worker[w].list)
<1>1. /\ worker[w].pc = "finish" /\ SameStore /\ UNCHANGED <<source, claim>> /\ (Fault \/ Fine)
      /\ On(w, Goto(w, "caught")) \/ \E attempt : End(w, attempt)
      /\ run' = [run EXCEPT ![Mine(w)] = row] \/ UNCHANGED run
  BY DEF FinishDone, Patch, At, SameStore, Throw
<1>2. Mine(w) \in Runs /\ worker[w].list \in SUBSET Addressless
  BY <1>1 DEF Types, WorkerType, WorkerRecs, Mine
<1>3. row \in Rows
  BY <1>2, OutcomeDone
<1>4. /\ run' \in [Runs -> Rows] /\ \A q \in Runs \ {Mine(w)} : run'[q] = run[q]
      /\ run'[Mine(w)] \in {run[Mine(w)], row}
  BY <1>1, <1>3, PatchDoes
<1>5. QED
  BY <1>1, <1>4, CallStep DEF Stages, Unloaded, Later

(* The run failed: the last thing an invocation writes.                      *)
LEMMA FinishFailedDoes ==
  ASSUME Types, NEW w \in Workers, FinishFailed(w)
  PROVE  /\ Types' /\ SameStore /\ claim' = claim /\ faults' <= faults /\ worker[w].pc = "burn"
         /\ Ends(w)
         /\ \A q \in Runs \ {Mine(w)} : run'[q] = run[q]
         /\ \/ run'[Mine(w)] = run[Mine(w)]
            \/ /\ run'[Mine(w)].status = "failed" /\ run'[Mine(w)].phase = run[Mine(w)].phase
               /\ run'[Mine(w)].holder = NoHolder
<1> DEFINE row == Outcome(Mine(w), "failed", worker[w].armed \/ worker[w].list # {}, worker[w].list)
<1>1. /\ worker[w].pc = "burn" /\ SameStore /\ UNCHANGED <<source, claim>> /\ (Fault \/ Fine)
      /\ \E attempt : End(w, attempt)
      /\ run' = [run EXCEPT ![Mine(w)] = row] \/ UNCHANGED run
  BY DEF FinishFailed, Patch, At, SameStore
<1>2. /\ Mine(w) \in Runs /\ worker[w].list \in SUBSET Addressless
  BY <1>1 DEF Types, WorkerType, WorkerRecs, Mine
<1>3. /\ row \in Rows /\ row.status = "failed" /\ row.phase = run[Mine(w)].phase
      /\ row.holder = NoHolder
  <2>1. PICK told \in BOOLEAN : told = (worker[w].armed \/ worker[w].list # {})
    OBVIOUS
  <2>2. row = Outcome(Mine(w), "failed", told, worker[w].list)
    BY <2>1
  <2>3. QED
    BY <1>2, <2>2, OutcomeIs DEF Terminal
<1> HIDE DEF row
<1>4. /\ run' \in [Runs -> Rows] /\ \A q \in Runs \ {Mine(w)} : run'[q] = run[q]
      /\ run'[Mine(w)] \in {run[Mine(w)], row}
  BY <1>1, <1>3, PatchDoes
<1>5. Types' /\ faults' <= faults /\ Ends(w)
  <2>1. faults' \in 0 .. MaxFaults /\ faults' <= faults
    BY <1>1, FaultsCount, BoundsAssumption DEF Types, RunTypes
  <2>2. QED
    BY <1>1, <1>4, <2>1, EndStep DEF Types, RunTypes
<1>6. QED
  BY <1>1, <1>3, <1>4, <1>5

(* The isolate ends.                                                         *)
LEMMA DieDoes ==
  ASSUME Types, NEW w \in Workers, Die(w)
  PROVE  /\ Types' /\ SameStore /\ UNCHANGED <<run, claim>> /\ worker[w].pc # "idle"
         /\ Ends(w) /\ faults' = faults - 1
<1>1. /\ worker[w].pc # "idle" /\ SameStore /\ UNCHANGED <<run, source, claim>> /\ Fault
      /\ \E attempt : End(w, attempt)
  BY DEF Die, At, SameStore
<1>2. faults' \in 0 .. MaxFaults /\ faults' = faults - 1
  BY <1>1, FaultsCount DEF Fault
<1>3. QED
  BY <1>1, <1>2, EndStep DEF Types, RunTypes

(* Time passes.                                                              *)
LEMMA TickDoes ==
  ASSUME Types, Tick
  PROVE  /\ Types' /\ SameStore /\ worker' = worker
         /\ (faults' = faults /\ slow' = slow) \/ (faults' = faults - 1 /\ faults > 0 /\ slow' = slow + 1)
         /\ \A r \in Runs : /\ run'[r].status = run[r].status /\ run'[r].phase = run[r].phase
                            /\ run'[r].holder = run[r].holder /\ Ending(run'[r]) = Ending(run[r])
<1>1. /\ run' = [r \in Runs |-> [run[r] EXCEPT !.left = Less(@)]]
      /\ claim' = [r \in Runs |-> Aged(claim[r])]
      /\ (Fine /\ slow' = slow) \/ (Fault /\ slow' = slow + 1)
      /\ UNCHANGED <<tab, source, worker>> /\ SameStore
  BY DEF Tick, SameStore, Fine
<1>2. /\ faults' \in 0 .. MaxFaults
      /\ (faults' = faults /\ slow' = slow) \/ (faults' = faults - 1 /\ faults > 0 /\ slow' = slow + 1)
  BY <1>1, FaultsCount DEF Fine, Fault
<1>3. ASSUME NEW r \in Runs
      PROVE  /\ run'[r].status = run[r].status /\ run'[r].phase = run[r].phase
             /\ run'[r].holder = run[r].holder /\ Ending(run'[r]) = Ending(run[r])
             /\ run'[r] \in Rows /\ claim'[r] \in Claims
  <2>1. run[r] \in Rows /\ claim[r] \in Claims
    BY DEF Types, RunTypes
  <2>2. run'[r] = [run[r] EXCEPT !.left = Less(@)] /\ claim'[r] = [claim[r] EXCEPT !.left = Less(@)]
    BY <1>1 DEF Aged
  <2>3. Less(run[r].left) \in 0 .. Lease
    BY <2>1, BoundsAssumption DEF Less, Rows
  <2>4. QED
    BY <2>1, <2>2, <2>3 DEF Rows, Claims, NoClaim, Less, Ending
<1>4. run' \in [Runs -> Rows] /\ claim' \in [Runs -> Claims]
  BY <1>1, <1>3
<1>5. RunTypes'
  <2>1. tab' = tab /\ source' = source /\ faults' \in 0 .. MaxFaults
    BY <1>1, <1>2
  <2>2. QED
    BY <1>4, <2>1 DEF Types, RunTypes
<1>6. Types'
  BY <1>1, <1>5 DEF Types, WorkerType, StoreTypes, SameStore
<1>7. QED
  BY <1>1, <1>2, <1>3, <1>6

(* The state an import begins in.                                            *)
LEMMA InitTypes ==
  ASSUME Init
  PROVE  Types
<1>1. RunTypes
  BY BoundsAssumption DEF Init, RunTypes, NoRow, Rows, Statuses, Phases, Claims
<1>2. StoreTypes
  <2>1. \A i \in RemoteIds : newest[i] = NoMapping
    BY DEF Init
  <2>2. NoMapping \in Mappings
    BY DEF NoMapping, Mappings
  <2>3. QED
    BY <2>1, <2>2 DEF Init, StoreTypes
<1>3. worker = [w \in Workers |-> Idle] /\ WorkerType(Idle) /\ Idle \in WorkerRecs
  BY <1>2, IdleType DEF Init, WorkerType
<1>4. QED
  BY <1>1, <1>2, <1>3 DEF Types

LEMMA NextTypes ==
  ASSUME Types, [Next]_vars
  PROVE  Types'
<1>1. CASE UNCHANGED vars
  BY <1>1 DEF vars, Types, RunTypes, WorkerType, StoreTypes
<1>2. CASE \E r \in Runs : Press(r) \/ CallInVain(r)
  BY <1>2, PressDoes, CallInVainDoes
<1>3. CASE \E e \in Entities : GiveAddress(e)
  BY <1>3, GiveAddressDoes
<1>4. CASE \E w \in Workers : \E r \in Runs : Sweep(w, r) \/ Call(w, r)
  BY <1>4, SweepDoes, BeginDoes
<1>5. CASE \E w \in Workers : Advance(w)
  <2> SUFFICES ASSUME NEW w \in Workers, Advance(w) PROVE Types'
    BY <1>5
  <2>1. CASE FenceBefore(w) \/ FenceAfter(w) \/ Refence(w)
    BY <2>1, FenceDoes DEF FenceBefore, FenceAfter, Refence, Stages, Unloaded, Later
  <2>2. CASE Claim(w) \/ ClaimRun(w) \/ Load(w) \/ LookUp(w) \/ Create(w) \/ GoOn(w)
    BY <2>2, ClaimDoes, ClaimRunDoes, LoadDoes, LookUpDoes, CreateDoes, GoOnDoes
  <2>3. CASE SaveMappings(w) \/ PhaseDone(w) \/ AdvanceRun(w) \/ Settle(w)
    BY <2>3, SaveMappingsDoes, PhaseDoneDoes, AdvanceRunDoes, SettleDoes
  <2>4. CASE FinishDone(w) \/ SettleAgain(w) \/ FinishFailed(w)
    BY <2>4, FinishDoneDoes, SettleAgainDoes, FinishFailedDoes
  <2>5. QED
    BY <2>1, <2>2, <2>3, <2>4 DEF Advance
<1>6. CASE \E w \in Workers : SentAgain(w) \/ WorkFails(w) \/ Die(w)
  BY <1>6, SentAgainDoes, WorkFailsDoes, DieDoes
<1>7. CASE Tick
  BY <1>7, TickDoes
<1>8. QED
  BY <1>1, <1>2, <1>3, <1>4, <1>5, <1>6, <1>7 DEF Next

\* The budget, and what history remembers.
Spent == MaxFaults - faults - slow
HistoryTypes ==
    /\ slow \in Nat /\ Spent \in Nat
    /\ stale \subseteq Workers /\ company \subseteq Workers /\ loose \subseteq Entities

\* The faults of a step: none, or at least one.
Free == faults' = faults /\ slow' = slow
Costs == faults' = faults - 1 /\ slow' = slow /\ faults > 0
Slower == faults' = faults - 1 /\ slow' = slow + 1

LEMMA InitHistory ==
  ASSUME Init
  PROVE  HistoryTypes
  BY BoundsAssumption DEF Init, HistoryTypes, Spent

(* What a step spends.                                                       *)
LEMMA Spending ==
  ASSUME Types, [Next]_vars
  PROVE  Free \/ Costs \/ (Slower /\ Tick)
<1>1. CASE UNCHANGED vars
  BY <1>1 DEF vars, Free
<1>2. CASE \E r \in Runs : Press(r) \/ CallInVain(r)
  BY <1>2 DEF Press, CallInVain, Free, Costs, Fault, Fine
<1>3. CASE \E e \in Entities : GiveAddress(e)
  BY <1>3 DEF GiveAddress, Free
<1>4. CASE \E w \in Workers : \E r \in Runs : Sweep(w, r) \/ Call(w, r)
  BY <1>4 DEF Sweep, Call, Begin, Free
<1>5. ASSUME NEW w \in Workers, Advance(w) PROVE Free \/ Costs
  <2>1. CASE FenceBefore(w) \/ FenceAfter(w) \/ Refence(w)
    BY <2>1 DEF FenceBefore, FenceAfter, Refence, Fence, Free, Costs, Fault, Fine
  <2>2. CASE Claim(w) \/ ClaimRun(w) \/ Load(w)
    BY <2>2 DEF Claim, ClaimRun, Patch, Load, Free, Costs, Fault, Fine
  <2>3. CASE LookUp(w) \/ Create(w) \/ GoOn(w)
    BY <2>3 DEF LookUp, Create, Post, GoOn, Free, Costs, Fault, Fine
  <2>4. CASE SaveMappings(w) \/ PhaseDone(w) \/ AdvanceRun(w) \/ Settle(w)
    BY <2>4 DEF SaveMappings, PhaseDone, AdvanceRun, Patch, Settle, Free, Costs, Fault, Fine
  <2>5. CASE FinishDone(w) \/ SettleAgain(w) \/ FinishFailed(w)
    BY <2>5 DEF FinishDone, SettleAgain, FinishFailed, Patch, Free, Costs, Fault, Fine
  <2>6. QED
    BY <1>5, <2>1, <2>2, <2>3, <2>4, <2>5 DEF Advance
<1>6. CASE \E w \in Workers : SentAgain(w) \/ WorkFails(w) \/ Die(w)
  BY <1>6 DEF SentAgain, Post, WorkFails, Die, Costs, Fault
<1>7. CASE Tick
  BY <1>7, TickDoes DEF Free, Slower
<1>8. QED
  BY <1>1, <1>2, <1>3, <1>4, <1>5, <1>6, <1>7 DEF Next

(* What history may become.                                                  *)
LEMMA HistoryStep ==
  ASSUME Types, HistoryTypes, [Next]_vars
  PROVE  /\ stale' \subseteq Workers /\ company' \subseteq Workers /\ loose' \subseteq Entities
         /\ loose \subseteq loose'
<1>1. CASE UNCHANGED vars
  BY <1>1 DEF vars, history, HistoryTypes
<1>2. CASE \E r \in Runs : Press(r) \/ CallInVain(r)
  BY <1>2 DEF Press, CallInVain, history, HistoryTypes
<1>3. CASE \E e \in Entities : GiveAddress(e)
  BY <1>3 DEF GiveAddress, history, HistoryTypes
<1>4. CASE \E w \in Workers : \E r \in Runs : Sweep(w, r) \/ Call(w, r)
  BY <1>4 DEF Sweep, Call, Begin, HistoryTypes
<1>5. ASSUME NEW w \in Workers, NEW counts \in BOOLEAN, Post(w, counts)
      PROVE  /\ stale' \subseteq Workers /\ company' \subseteq Workers /\ loose' \subseteq Entities
             /\ loose \subseteq loose'
  <2>1. Current(w) \in Entities
    BY <1>5, PostDoes
  <2>2. QED
    BY <1>5, <2>1 DEF Post, HistoryTypes
<1>6. ASSUME NEW w \in Workers, Advance(w)
      PROVE  /\ stale' \subseteq Workers /\ company' \subseteq Workers /\ loose' \subseteq Entities
             /\ loose \subseteq loose'
  <2>1. CASE FenceBefore(w) \/ FenceAfter(w) \/ Refence(w)
    BY <2>1 DEF FenceBefore, FenceAfter, Refence, Fence, HistoryTypes
  <2>2. CASE Claim(w) \/ ClaimRun(w) \/ LookUp(w) \/ GoOn(w)
    BY <2>2 DEF Claim, ClaimRun, LookUp, GoOn, history, HistoryTypes
  <2>3. CASE Load(w)
    BY <2>3 DEF Load, Beside, HistoryTypes
  <2>4. CASE Create(w)
    <3>1. PICK counts \in BOOLEAN : counts = FALSE
      OBVIOUS
    <3>2. Post(w, counts)
      BY <2>4, <3>1 DEF Create
    <3>3. QED
      BY <1>5, <3>2
  <2>5. CASE SaveMappings(w) \/ PhaseDone(w) \/ AdvanceRun(w) \/ Settle(w) \/ SettleAgain(w)
    BY <2>5 DEF SaveMappings, PhaseDone, AdvanceRun, Settle, SettleAgain, history, HistoryTypes
  <2>6. CASE FinishDone(w) \/ FinishFailed(w)
    BY <2>6 DEF FinishDone, FinishFailed, EndSeen, HistoryTypes
  <2>7. QED
    BY <1>6, <2>1, <2>2, <2>3, <2>4, <2>5, <2>6 DEF Advance
<1>7. CASE \E w \in Workers : SentAgain(w)
  BY <1>5, <1>7, SentAgainDoes
<1>8. CASE \E w \in Workers : WorkFails(w) \/ Die(w)
  BY <1>8 DEF WorkFails, Die, history, HistoryTypes
<1>9. CASE Tick
  BY <1>9 DEF Tick, history, HistoryTypes
<1>10. QED
  BY <1>1, <1>2, <1>3, <1>4, <1>6, <1>7, <1>8, <1>9 DEF Next

LEMMA NextHistory ==
  ASSUME Types, HistoryTypes, [Next]_vars
  PROVE  HistoryTypes'
<1>1. faults \in Nat /\ MaxFaults \in Nat /\ slow \in Nat
  BY BoundsAssumption DEF Types, RunTypes, HistoryTypes
<1>2. slow' \in Nat /\ Spent' \in Nat
  BY <1>1, Spending DEF Free, Costs, Slower, Spent, HistoryTypes
<1>3. QED
  BY <1>2, HistoryStep DEF HistoryTypes

(* TypeOK follows.                                                           *)
LEMMA TypesOK ==
  ASSUME Types, HistoryTypes
  PROVE  TypeOK
<1>1. /\ run \in [Runs -> Rows] /\ tab \in [Runs -> {"closed", "waiting", "busy"}]
      /\ source \in Sources /\ claim \in [Runs -> Claims] /\ faults \in 0 .. MaxFaults
  BY DEF Types, RunTypes
<1>2. worker \in [Workers -> [pc : Stages, run : Runs \cup {0}, by : {"sweep", "wizard"},
                              phase : Phases, todo : SUBSET Entities, pending : SUBSET Entities,
                              known : [Entities -> Nat], armed : BOOLEAN,
                              list : SUBSET Addressless]]
  BY DEF Types, WorkerRecs
<1>3. \A w \in Workers : worker[w].pc # "idle" => worker[w].run # 0
  BY RunNumbers DEF Types, WorkerType
<1>4. records \in [Entities -> Nat] /\ \A e \in Entities : address[e] \in 0 .. records[e]
  BY DEF Types, StoreTypes
<1>5. \A i \in RemoteIds : newest[i] # NoMapping =>
         Id[newest[i].of] = i /\ newest[i].local \in 1 .. records[newest[i].of]
  BY DEF Types, StoreTypes
<1>6. placed \subseteq {e \in Entities : Phase[e] = 3}
  BY DEF Types, StoreTypes, Work
<1>7. slow \in 0 .. MaxFaults - faults
  <2>1. faults \in Nat /\ MaxFaults \in Nat
    BY BoundsAssumption DEF Types, RunTypes
  <2>2. QED
    BY <2>1 DEF HistoryTypes, Spent
<1>8. QED
  BY <1>1, <1>2, <1>3, <1>4, <1>5, <1>6, <1>7 DEF TypeOK, HistoryTypes

-----------------------------------------------------------------------------
(* Alive.                                                                    *)

LiveStatuses == {"queued", "running"}

\* A row with a holder is worked on; and so is the row of whoever has looked at it
\* since it last ended.
Alive ==
    /\ \A r \in Runs : run[r].holder # NoHolder => run[r].status = "running"
    /\ \A w \in Workers : worker[w].pc # "idle" /\ w \notin stale => run[Mine(w)].status \in LiveStatuses

\* What a step may do to a row, if nobody who is stale has a hand in it.
EndsStay(r) ==
    run[r].status \in Terminal /\ Ending(run'[r]) # Ending(run[r]) =>
         \E w \in stale : Mine(w) = r /\ worker'[w] # worker[w]

\* The rows as they were, and nobody knows less of them.
Unseen ==
    /\ \A r \in Runs : /\ run'[r].status = run[r].status /\ run'[r].holder = run[r].holder
                       /\ Ending(run'[r]) = Ending(run[r])
    /\ \A w \in Workers : worker'[w].pc # "idle" /\ w \notin stale' =>
         worker[w].pc # "idle" /\ worker'[w].run = worker[w].run /\ w \notin stale

LEMMA AliveUnseen ==
  ASSUME Types, Alive, Types', Unseen
  PROVE  Alive' /\ \A r \in Runs : EndsStay(r)
<1>1. \A w \in Workers : worker'[w].pc # "idle" => worker'[w].run \in Runs
  BY DEF Types, WorkerType
<1>2. QED
  BY <1>1 DEF Alive, Unseen, EndsStay, Mine

\* Invocation w moves, for the same run if it is not over, and knows as much as before.
Stays(w) ==
    /\ stale' = stale /\ Others(w) /\ worker[w].pc # "idle"
    /\ worker'[w].pc = "idle" \/ worker'[w].run = worker[w].run

LEMMA UnseenStays ==
  ASSUME NEW w \in Workers, Stays(w),
         \A r \in Runs : /\ run'[r].status = run[r].status /\ run'[r].holder = run[r].holder
                         /\ Ending(run'[r]) = Ending(run[r])
  PROVE  Unseen
  BY DEF Unseen, Stays, Others

LEMMA FoundRun ==
  ASSUME Types, NEW w \in Workers, worker[w].pc # "idle"
  PROVE  Mine(w) \in Runs
  BY DEF Types, WorkerType, Mine

(* A press.                                                                  *)
LEMMA AlivePress ==
  ASSUME Types, Alive, Types', NEW r \in Runs, Press(r)
  PROVE  Alive' /\ \A q \in Runs : EndsStay(q)
<1>1. /\ worker' = worker /\ stale' = stale /\ run[r].status = "absent"
      /\ run'[r].status = "queued" /\ run'[r].holder = run[r].holder
      /\ \A q \in Runs \ {r} : run'[q] = run[q]
  BY PressDoes DEF Press, history
<1>2. \A w \in Workers : worker[w].pc # "idle" => worker[w].run \in Runs
  BY DEF Types, WorkerType
<1>3. run[r].holder = NoHolder
  BY <1>1 DEF Alive
<1>4. Alive'
  BY <1>1, <1>2, <1>3 DEF Alive, Mine, LiveStatuses
<1>5. QED
  BY <1>1, <1>4 DEF EndsStay, Terminal

(* Somebody new.                                                             *)
LEMMA AliveBegin ==
  ASSUME Types, Alive, Types', NEW w \in Workers, NEW r \in Runs, Sweep(w, r) \/ Call(w, r)
  PROVE  Alive' /\ \A q \in Runs : EndsStay(q)
<1>1. PICK by \in {"sweep", "wizard"} : /\ Begin(w, r, by)
                                        /\ tab' \in [Runs -> {"closed", "waiting", "busy"}]
  BY SweepDoes
<1>2. /\ Others(w) /\ run[r].status \in LiveStatuses /\ worker'[w].run = r
      /\ \A q \in Runs : /\ run'[q].status = run[q].status /\ Ending(run'[q]) = Ending(run[q])
                         /\ run'[q].holder = Forget(w, run[q].holder)
  BY <1>1, BeginDoes DEF LiveStatuses
<1>3. stale' = stale \ {w}
  BY <1>1 DEF Begin
<1>4. w # NoHolder
  BY NoHolderAssumption DEF Workers
<1>5. \A q \in Runs : run'[q].holder # NoHolder => run'[q].status = "running"
  BY <1>2, <1>4 DEF Alive, Forget
<1>6. ASSUME NEW v \in Workers, worker'[v].pc # "idle", v \notin stale'
      PROVE  worker'[v].run \in Runs /\ run'[worker'[v].run].status \in LiveStatuses
  <2>1. CASE v = w
    BY <1>2, <2>1
  <2>2. CASE v # w
    <3>1. worker'[v] = worker[v] /\ v \notin stale
      BY <1>2, <1>3, <1>6, <2>2 DEF Others
    <3>2. worker[v].run \in Runs /\ run[worker[v].run].status \in LiveStatuses
      BY <1>6, <3>1 DEF Alive, Mine, Types, WorkerType
    <3>3. QED
      BY <1>2, <3>1, <3>2
  <2>3. QED
    BY <2>1, <2>2
<1>7. Alive'
  BY <1>5, <1>6 DEF Alive, Mine
<1>8. QED
  BY <1>2, <1>7 DEF EndsStay

(* The run is taken up, perhaps by somebody who does not know that it ended. *)
LEMMA AliveClaimRun ==
  ASSUME Types, Alive, Types', NEW w \in Workers, ClaimRun(w)
  PROVE  Alive' /\ \A q \in Runs : EndsStay(q)
<1>1. /\ worker[w].pc = "record" /\ Others(w) /\ Mine(w) \in Runs
      /\ \A q \in Runs \ {Mine(w)} : run'[q] = run[q]
      /\ run'[Mine(w)] \in {run[Mine(w)], ClaimedRow(w)}
      /\ worker'[w].pc # "record"
      /\ worker'[w].pc = "idle" \/ worker'[w].run = worker[w].run
  BY ClaimRunDoes, FoundRun DEF Goes, Ends, Idle
<1>2. stale' = stale
  BY DEF ClaimRun, history
<1>3. CASE run'[Mine(w)] = run[Mine(w)]
  <2>1. \A q \in Runs : run'[q] = run[q]
    BY <1>1, <1>3
  <2>2. Unseen
    BY <1>1, <1>2, <2>1, UnseenStays DEF Stays
  <2>3. QED
    BY <2>2, AliveUnseen
<1>4. CASE run'[Mine(w)] = ClaimedRow(w)
  <2>1. run'[Mine(w)].status = "running"
    BY <1>1, <1>4, RowsOf
  <2>2. \A q \in Runs : run'[q].holder # NoHolder => run'[q].status = "running"
    BY <1>1, <2>1 DEF Alive
  <2>3. ASSUME NEW v \in Workers, worker'[v].pc # "idle", v \notin stale'
        PROVE  run'[worker'[v].run].status \in LiveStatuses
    <3>1. worker[v].pc # "idle" /\ worker'[v].run = worker[v].run /\ v \notin stale
      BY <1>1, <1>2, <2>3 DEF Others
    <3>2. worker[v].run \in Runs /\ run[worker[v].run].status \in LiveStatuses
      BY <3>1 DEF Alive, Mine, Types, WorkerType
    <3>3. QED
      BY <1>1, <2>1, <3>1, <3>2 DEF LiveStatuses
  <2>4. Alive'
    BY <2>2, <2>3 DEF Alive, Mine
  <2>5. EndsStay(Mine(w))
    <3>1. run[Mine(w)].status \in Terminal => w \in stale
      BY <1>1 DEF Alive, LiveStatuses, Terminal
    <3>2. worker'[w] # worker[w]
      BY <1>1
    <3>3. QED
      BY <3>1, <3>2 DEF EndsStay
  <2>6. QED
    BY <1>1, <2>4, <2>5 DEF EndsStay
<1>5. QED
  BY <1>1, <1>3, <1>4

(* A fence: whoever passes has looked, and holds the row.                    *)
LEMMA AliveFence ==
  ASSUME Types, Alive, Types', NEW w \in Workers, FenceBefore(w) \/ FenceAfter(w) \/ Refence(w)
  PROVE  Alive' /\ \A q \in Runs : EndsStay(q)
<1>1. PICK stage \in Stages \ {"idle"}, then \in Later : Fence(w, stage, Goto(w, then))
  BY DEF FenceBefore, FenceAfter, Refence, Stages, Unloaded, Later
<1>2. /\ run' = run /\ worker[w].pc # "idle" /\ Others(w) /\ Mine(w) \in Runs
      /\ worker'[w].pc = "idle" \/ worker'[w].run = worker[w].run
  BY <1>1, FenceDoes, FoundRun DEF Goes, Ends, Idle
<1>3. stale' = stale \/ (stale' = stale \ {w} /\ run[Mine(w)].holder = w)
  BY <1>1 DEF Fence, StillHolds
<1>4. CASE stale' = stale
  <2>1. Unseen
    BY <1>2, <1>4, UnseenStays DEF Stays
  <2>2. QED
    BY <2>1, AliveUnseen
<1>5. CASE stale' = stale \ {w} /\ run[Mine(w)].holder = w
  <2>1. run[Mine(w)].status = "running"
    <3>1. w # NoHolder
      BY NoHolderAssumption DEF Workers
    <3>2. QED
      BY <1>2, <1>5, <3>1 DEF Alive
  <2>2. ASSUME NEW v \in Workers, worker'[v].pc # "idle", v \notin stale'
        PROVE  run'[worker'[v].run].status \in LiveStatuses
    <3>1. CASE v = w
      BY <1>2, <2>1, <2>2, <3>1 DEF Mine, LiveStatuses
    <3>2. CASE v # w
      <4>1. worker'[v] = worker[v] /\ v \notin stale
        BY <1>2, <1>5, <2>2, <3>2 DEF Others
      <4>2. QED
        BY <1>2, <2>2, <4>1 DEF Alive, Mine
    <3>3. QED
      BY <3>1, <3>2
  <2>3. Alive'
    BY <1>2, <2>2 DEF Alive, Mine
  <2>4. QED
    BY <1>2, <2>3 DEF EndsStay
<1>6. QED
  BY <1>3, <1>4, <1>5

(* The last write: everybody who works for the run has yet to see it.        *)
LEMMA AliveFinish ==
  ASSUME Types, Alive, Types', NEW w \in Workers, FinishDone(w) \/ FinishFailed(w)
  PROVE  Alive' /\ \A q \in Runs : EndsStay(q)
<1>1. /\ worker[w].pc # "idle" /\ Others(w) /\ Mine(w) \in Runs
      /\ \A q \in Runs \ {Mine(w)} : run'[q] = run[q]
      /\ \/ run'[Mine(w)] = run[Mine(w)]
         \/ run'[Mine(w)].status \in Terminal /\ run'[Mine(w)].holder = NoHolder
      /\ worker'[w] # worker[w]
      /\ worker'[w].pc = "idle" \/ worker'[w].run = worker[w].run
  <2>1. CASE FinishDone(w)
    <3>1. Mine(w) \in Runs /\ worker[w].list \in SUBSET Addressless
      BY <2>1, FinishDoneDoes, FoundRun DEF Types, WorkerType, WorkerRecs
    <3>2. /\ Outcome(Mine(w), "done", TRUE, worker[w].list).status = "done"
          /\ Outcome(Mine(w), "done", TRUE, worker[w].list).holder = NoHolder
      BY <3>1, OutcomeDone
    <3>3. /\ worker[w].pc = "finish"
          /\ \A q \in Runs \ {Mine(w)} : run'[q] = run[q]
          /\ run'[Mine(w)] \in {run[Mine(w)], Outcome(Mine(w), "done", TRUE, worker[w].list)}
          /\ (Goes(w, {"caught"}) /\ SameHand(w)) \/ Ends(w)
      BY <2>1, FinishDoneDoes
    <3>4. PICK row : row = Outcome(Mine(w), "done", TRUE, worker[w].list)
      OBVIOUS
    <3>5. \/ run'[Mine(w)] = run[Mine(w)]
          \/ run'[Mine(w)].status \in Terminal /\ run'[Mine(w)].holder = NoHolder
      BY <3>2, <3>3, <3>4 DEF Terminal
    <3>6. /\ Others(w) /\ worker'[w] # worker[w]
          /\ worker'[w].pc = "idle" \/ worker'[w].run = worker[w].run
      BY <3>3 DEF Goes, Ends, Idle
    <3>7. QED
      BY <3>1, <3>3, <3>5, <3>6
  <2>2. CASE FinishFailed(w)
    BY <2>2, FinishFailedDoes, FoundRun DEF Ends, Idle, Terminal
  <2>3. QED
    BY <2>1, <2>2
<1>2. EndSeen(Mine(w))
  BY DEF FinishDone, FinishFailed
<1>3. CASE run' = run
  <2>1. stale' = stale
    BY <1>2, <1>3 DEF EndSeen
  <2>2. Unseen
    BY <1>1, <1>3, <2>1, UnseenStays DEF Stays
  <2>3. QED
    BY <2>2, AliveUnseen
<1>4. CASE run' # run
  <2>1. stale' = stale \cup {v \in Workers : worker[v].pc # "idle" /\ worker[v].run = Mine(w)}
    BY <1>2, <1>4 DEF EndSeen, At, Mine
  <2>2. run'[Mine(w)].holder = NoHolder
    <3>1. CASE run'[Mine(w)] = run[Mine(w)]
      <4>1. \A q \in Runs : run'[q] = run[q]
        BY <1>1, <3>1
      <4>2. run' = run
        BY <4>1 DEF Types, RunTypes
      <4>3. QED
        BY <1>4, <4>2
    <3>2. QED
      BY <1>1, <3>1
  <2>3. ASSUME NEW v \in Workers, worker'[v].pc # "idle", v \notin stale'
        PROVE  run'[worker'[v].run].status \in LiveStatuses
    <3>1. worker[v].pc # "idle" /\ worker'[v].run = worker[v].run
      BY <1>1, <2>3 DEF Others
    <3>2. worker[v].run # Mine(w) /\ v \notin stale /\ worker[v].run \in Runs
      BY <2>1, <2>3, <3>1 DEF Types, WorkerType
    <3>3. run'[worker[v].run] = run[worker[v].run]
      BY <1>1, <3>2
    <3>4. QED
      BY <3>1, <3>2, <3>3 DEF Alive, Mine
  <2>4. \A q \in Runs : run'[q].holder # NoHolder => run'[q].status = "running"
    BY <1>1, <2>2 DEF Alive
  <2>5. Alive'
    BY <2>3, <2>4 DEF Alive, Mine
  <2>6. EndsStay(Mine(w))
    <3>1. run[Mine(w)].status \in Terminal => w \in stale
      BY <1>1 DEF Alive, LiveStatuses, Terminal
    <3>2. QED
      BY <1>1, <3>1 DEF EndsStay
  <2>7. QED
    BY <1>1, <2>5, <2>6 DEF EndsStay
<1>5. QED
  BY <1>3, <1>4

(* Every step.                                                               *)
LEMMA AliveStep ==
  ASSUME Types, Alive, Types', [Next]_vars
  PROVE  Alive' /\ \A q \in Runs : EndsStay(q)
<1> DEFINE Ok == Alive' /\ \A q \in Runs : EndsStay(q)
           Same == \A r \in Runs : /\ run'[r].status = run[r].status
                                   /\ run'[r].holder = run[r].holder
                                   /\ Ending(run'[r]) = Ending(run[r])
<1>1. ASSUME Same, worker' = worker, stale' = stale PROVE Ok
  BY <1>1, AliveUnseen DEF Unseen
<1>2. ASSUME NEW w \in Workers, Same, Stays(w) PROVE Ok
  BY <1>2, UnseenStays, AliveUnseen
<1>3. CASE UNCHANGED vars
  BY <1>1, <1>3 DEF vars, history
<1>4. CASE \E r \in Runs : Press(r)
  BY <1>4, AlivePress
<1>5. CASE (\E r \in Runs : CallInVain(r)) \/ \E e \in Entities : GiveAddress(e)
  BY <1>1, <1>5 DEF CallInVain, GiveAddress, history
<1>6. CASE \E w \in Workers : \E r \in Runs : Sweep(w, r) \/ Call(w, r)
  BY <1>6, AliveBegin
<1>7. ASSUME NEW w \in Workers, Advance(w) PROVE Ok
  <2>1. CASE FenceBefore(w) \/ FenceAfter(w) \/ Refence(w)
    BY <2>1, AliveFence
  <2>2. CASE ClaimRun(w)
    BY <2>2, AliveClaimRun
  <2>3. CASE FinishDone(w) \/ FinishFailed(w)
    BY <2>3, AliveFinish
  <2>4. CASE Claim(w) \/ Load(w)
    <3>1. run' = run /\ stale' = stale
      BY <2>4 DEF Claim, Load, history
    <3>2. Stays(w)
      <4>1. CASE Claim(w)
        BY <3>1, <4>1, ClaimDoes DEF Stays, Goes, Ends, Idle
      <4>2. CASE Load(w)
        <5>1. worker[w].pc # "idle" /\ (Ends(w) \/ Goes(w, {"caught"}) \/ Goes(w, {"before"}))
          BY <4>2, LoadDoes
        <5>2. QED
          BY <3>1, <5>1 DEF Stays, Goes, Ends, Idle
      <4>3. QED
        BY <2>4, <4>1, <4>2
    <3>3. QED
      BY <1>2, <3>1, <3>2
  <2>5. CASE LookUp(w) \/ Create(w) \/ GoOn(w)
    <3>1. run' = run /\ stale' = stale
      BY <2>5 DEF LookUp, Create, Post, GoOn, history
    <3>2. Stays(w)
      <4>1. CASE LookUp(w)
        BY <3>1, <4>1, LookUpDoes DEF Stays, Goes
      <4>2. CASE Create(w)
        <5>1. PICK counts \in BOOLEAN : counts = FALSE
          OBVIOUS
        <5>2. worker[w].pc # "idle"
          BY <4>2, <5>1, CreateDoes, PostDoes
        <5>3. QED
          BY <3>1, <4>2, <5>2, CreateDoes DEF Stays, Goes
      <4>3. CASE GoOn(w)
        BY <3>1, <4>3, GoOnDoes DEF Stays, Goes
      <4>4. QED
        BY <2>5, <4>1, <4>2, <4>3
    <3>3. QED
      BY <1>2, <3>1, <3>2
  <2>6. CASE SaveMappings(w) \/ PhaseDone(w)
    <3>1. run' = run /\ stale' = stale
      BY <2>6 DEF SaveMappings, PhaseDone, history
    <3>2. Stays(w)
      BY <2>6, <3>1, SaveMappingsDoes, PhaseDoneDoes DEF Stays, Goes
    <3>3. QED
      BY <1>2, <3>1, <3>2
  <2>7. CASE AdvanceRun(w)
    <3>1. stale' = stale
      BY <2>7 DEF AdvanceRun, history
    <3>2. Stays(w)
      BY <2>7, <3>1, AdvanceRunDoes DEF Stays, Goes
    <3>3. Same
      BY <2>7, AdvanceRunDoes, RowsOf
    <3>4. QED
      BY <1>2, <3>2, <3>3
  <2>8. CASE Settle(w) \/ SettleAgain(w)
    <3>1. run' = run /\ stale' = stale
      BY <2>8 DEF Settle, SettleAgain, history
    <3>2. Stays(w)
      BY <2>8, <3>1, SettleDoes, SettleAgainDoes DEF Stays, Goes, Ends, Idle
    <3>3. QED
      BY <1>2, <3>1, <3>2
  <2>9. QED
    BY <1>7, <2>1, <2>2, <2>3, <2>4, <2>5, <2>6, <2>7, <2>8 DEF Advance
<1>8. CASE \E w \in Workers : SentAgain(w)
  BY <1>1, <1>8 DEF SentAgain, Post
<1>9. ASSUME NEW w \in Workers, WorkFails(w) \/ Die(w) PROVE Ok
  <2>1. run' = run /\ stale' = stale
    BY <1>9 DEF WorkFails, Die, history
  <2>2. Stays(w)
    BY <1>9, <2>1, WorkFailsDoes, DieDoes DEF Stays, Goes, Ends, Idle
  <2>3. QED
    BY <1>2, <2>1, <2>2
<1>10. CASE Tick
  <2>1. worker' = worker /\ stale' = stale
    BY <1>10 DEF Tick, history
  <2>2. QED
    BY <1>1, <1>10, <2>1, TickDoes
<1>11. QED
  BY <1>3, <1>4, <1>5, <1>6, <1>7, <1>8, <1>9, <1>10 DEF Next

LEMMA InitAlive ==
  ASSUME Init
  PROVE  Alive
  BY DEF Init, Alive, NoRow, Idle

(* TypeOK is invariant.                                                      *)
THEOREM TypeCorrect == Spec => []TypeOK
<1>1. Types /\ HistoryTypes /\ [Next]_vars => (Types /\ HistoryTypes)'
  BY NextTypes, NextHistory
<1>2. QED
  BY <1>1, InitTypes, InitHistory, TypesOK, PTL DEF Spec

(* A run that ended stays as it ended, but for whoever has not looked at it  *)
(* since.                                                                    *)
THEOREM RunsStayEnded == Spec => EndedStaysEnded
<1>1. Types /\ Alive /\ [Next]_vars => (Types /\ Alive)'
  BY NextTypes, AliveStep
<1>2. Types /\ Alive /\ Types' /\ [Next]_vars =>
        [\A r \in Runs : run[r].status \in Terminal /\ Ending(run'[r]) # Ending(run[r]) =>
           \E w \in stale : Mine(w) = r /\ worker'[w] # worker[w]]_vars
  BY AliveStep DEF EndsStay
<1>3. QED
  BY <1>1, <1>2, InitTypes, InitAlive, PTL DEF Spec, EndedStaysEnded

-----------------------------------------------------------------------------
(* What a step may be, for those that follow: ten ways of an invocation, and  *)
(* the steps that touch none.                                                 *)

LoadedStages == {"before", "work", "post", "map", "after", "advance", "settle", "finish"}
Loaded(w) == worker[w].pc \in LoadedStages

Kept == UNCHANGED <<company, loose>>

\* Nobody moves; at most an address is filled in.
Rest ==
    /\ worker' = worker /\ UNCHANGED <<records, newest, placed>> /\ Kept
    /\ \A e \in Entities : address'[e] = address[e] \/ address[e] = 0

\* Somebody new; one that has nothing loaded now; one that has loaded.
Opens(w) ==
    /\ worker[w].pc = "idle" /\ Others(w) /\ SameStore
    /\ worker'[w].pc = "claim" /\ \E r \in Runs : worker'[w].phase = run[r].phase
    /\ company' = company \ {w} /\ loose' = loose
Leaves(w) ==
    /\ worker[w].pc # "idle" /\ Others(w) /\ SameStore /\ Kept
    /\ worker'[w].pc \notin LoadedStages
    /\ worker'[w].pc = "idle" \/ worker'[w].phase = worker[w].phase
    /\ worker[w].pc = "map" => Costs
Loads(w) ==
    /\ worker[w].pc = "load" /\ Goes(w, {"before"}) /\ SameStore
    /\ worker'[w].pending = {} /\ worker'[w].known = [e \in Entities |-> Found(e)]
    /\ worker'[w].todo = Work(worker[w].phase) /\ worker'[w].armed = Armed(worker[w].phase)
    /\ company' = IF Beside(w) = {} THEN company ELSE company \cup {w} \cup Beside(w)
    /\ loose' = loose

\* With the same in hand; past a phase; with the list.
Ways == {<<"before", "work">>, <<"work", "post">>, <<"work", "map">>, <<"after", "advance">>,
         <<"advance", "settle">>}
Keeps(w) ==
    /\ Goes(w, LoadedStages) /\ SameHand(w) /\ SameStore /\ Kept
    /\ <<worker[w].pc, worker'[w].pc>> \in Ways
    /\ worker'[w].pc = "post" => Current(w) \in Natural /\ records[Current(w)] = 0
Passes(w) ==
    LET r == worker[w]
    IN  /\ r.pc = "work" /\ r.todo = {} /\ r.pending = {} /\ Goes(w, {"after"})
        /\ Hands(w, r.todo, r.pending, r.known, r.armed \/ r.phase = 2, r.list)
        /\ SameStore /\ Kept
Settles(w) ==
    LET r == worker[w]
    IN  /\ r.pc = "settle" /\ r.phase = 4 /\ Goes(w, {"finish"})
        /\ Hands(w, r.todo, r.pending, r.known, r.armed, Settled(w))
        /\ SameStore /\ Kept

\* One entity less, found or not worth a call; a record more; mappings.
Takes(w, e, id) ==
    \E known : /\ known \in [Entities -> Nat] /\ known[e] = id
               /\ \A d \in Entities \ {e} : known[d] = worker[w].known[d]
               /\ Hands(w, worker[w].todo \ {e}, worker[w].pending \cup {e}, known,
                        worker[w].armed, worker[w].list)
GoesOn(w) ==
    LET e == Current(w)
        r == worker[w]
    IN  /\ r.pc = "work" /\ e \in r.todo /\ e \in Work(r.phase) /\ Goes(w, {"work"})
        /\ r.phase = 4 \/ r.known[e] # 0 \/ NoSubmitter(w)
        /\ Hands(w, r.todo \ {e}, r.pending, r.known, r.armed, r.list)
        /\ placed' = IF r.phase = 4 /\ r.known[e] # 0 THEN placed \cup {e} ELSE placed
        /\ UNCHANGED <<records, newest, address>> /\ Kept
Finds(w) ==
    /\ worker[w].pc = "work" /\ Current(w) \in worker[w].todo /\ Current(w) \in Natural
    /\ worker[w].phase # 4 /\ worker[w].known[Current(w)] = 0
    /\ Goes(w, {"map", "work"}) /\ Takes(w, Current(w), 1) /\ SameStore /\ Kept
Posts(w) ==
    LET e == Current(w)
    IN  \E counts \in BOOLEAN :
          /\ worker[w].pc \in {"work", "post"} /\ (worker[w].pc = "post" <=> e \in Natural)
          /\ e \in worker[w].todo /\ e \in Entities
          /\ worker[w].phase # 4 /\ worker[w].known[e] = 0
          /\ records'[e] = records[e] + 1 /\ \A d \in Entities \ {e} : records'[d] = records[d]
          /\ UNCHANGED <<newest, address, placed, company>>
          /\ loose' = IF w \in company \/ counts THEN loose \cup {e} ELSE loose
          /\ \/ /\ Goes(w, {"map", "work"}) /\ (e \notin Natural => worker'[w].pc = "map")
                /\ Takes(w, e, records[e] + 1)
             \/ Goes(w, {"caught"}) /\ Costs
             \/ worker' = worker /\ Costs /\ (e \in Natural => counts)
Saves(w) ==
    LET r == worker[w]
    IN  /\ r.pc = "map" /\ UNCHANGED <<records, address, placed>> /\ Kept
        /\ \/ newest' = SavedBy(w) /\ Goes(w, {"work"}) /\ Hands(w, r.todo, {}, r.known, r.armed, r.list)
           \/ newest' \in {newest, SavedBy(w)} /\ Goes(w, {"caught"}) /\ Costs

Moves(w) ==
    \/ Opens(w) \/ Leaves(w) \/ Loads(w) \/ Keeps(w) \/ Passes(w) \/ Settles(w)
    \/ GoesOn(w) \/ Finds(w) \/ Posts(w) \/ Saves(w)

(* An invocation that ends, or goes on with nothing loaded.                  *)
LEMMA LeavesStep ==
  ASSUME NEW w \in Workers, worker[w].pc # "idle", SameStore, Kept, worker[w].pc = "map" => Costs,
         Ends(w) \/ Goes(w, {"record", "load", "caught", "refence", "burn"})
  PROVE  Leaves(w)
  BY DEF Leaves, Ends, Goes, Idle, LoadedStages

LEMMA PostsStep ==
  ASSUME Types, NEW w \in Workers, Create(w) \/ SentAgain(w)
  PROVE  Posts(w)
<1>1. PICK counts \in BOOLEAN :
        /\ Post(w, counts)
        /\ \/ /\ Goes(w, {"map", "work"}) /\ (Current(w) \notin Natural => worker'[w].pc = "map")
              /\ Takes(w, Current(w), records[Current(w)] + 1)
           \/ Goes(w, {"caught"}) /\ Fault
           \/ worker' = worker /\ Fault /\ (Current(w) \in Natural => counts)
  <2>1. CASE Create(w)
    <3>1. PICK counts \in BOOLEAN : counts = FALSE
      OBVIOUS
    <3>2. /\ Post(w, counts)
          /\ \/ /\ \E stage \in {"map", "work"} :
                      Goes(w, {stage}) /\ (Current(w) \notin Natural => stage = "map")
                /\ Takes(w, Current(w), records[Current(w)] + 1)
             \/ Goes(w, {"caught"})
      BY <2>1, <3>1, CreateDoes DEF Takes
    <3>3. \/ Goes(w, {"map", "work"}) /\ (Current(w) \notin Natural => worker'[w].pc = "map")
             /\ Takes(w, Current(w), records[Current(w)] + 1)
          \/ Goes(w, {"caught"})
      BY <3>2 DEF Goes
    <3>4. (On(w, Recorded(w, records[Current(w)] + 1)) /\ Fine) \/ (On(w, Goto(w, "caught")) /\ Fault)
      BY <2>1 DEF Create, Throw
    <3>5. Goes(w, {"caught"}) => Fault
      <4>1. SUFFICES ASSUME Goes(w, {"caught"}), ~ Fault PROVE FALSE
        OBVIOUS
      <4>2. Become(w, Recorded(w, records[Current(w)] + 1))
        BY <3>4, <4>1 DEF On
      <4>3. Recorded(w, records[Current(w)] + 1).pc \in {"map", "work"}
        BY DEF Recorded, Next1, Types, WorkerType, WorkerRecs
      <4>4. worker'[w] = Recorded(w, records[Current(w)] + 1)
        BY <4>2 DEF Become, Types
      <4>5. QED
        BY <4>1, <4>3, <4>4 DEF Goes
    <3>6. QED
      BY <3>2, <3>3, <3>5
  <2>2. CASE SentAgain(w)
    BY <2>2, SentAgainDoes DEF SentAgain
  <2>3. QED
    BY <2>1, <2>2
<1>2. Fault => Costs
  <2>1. slow' = slow
    BY <1>1 DEF Post
  <2>2. QED
    BY <2>1 DEF Fault, Costs
<1>3. /\ UNCHANGED <<newest, address, placed>>
      /\ worker[w].pc \in {"work", "post"} /\ (worker[w].pc = "post" <=> Current(w) \in Natural)
      /\ Current(w) \in worker[w].todo /\ Current(w) \in Entities
      /\ worker[w].phase # 4 /\ worker[w].known[Current(w)] = 0
      /\ records'[Current(w)] = records[Current(w)] + 1
      /\ \A d \in Entities \ {Current(w)} : records'[d] = records[d]
  BY <1>1, PostDoes
<1>4. company' = company
      /\ loose' = IF w \in company \/ counts THEN loose \cup {Current(w)} ELSE loose
  BY <1>1 DEF Post
<1>5. \/ /\ Goes(w, {"map", "work"}) /\ (Current(w) \notin Natural => worker'[w].pc = "map")
         /\ Takes(w, Current(w), records[Current(w)] + 1)
      \/ Goes(w, {"caught"}) /\ Costs
      \/ worker' = worker /\ Costs /\ (Current(w) \in Natural => counts)
  BY <1>1, <1>2
<1>6. QED
  BY <1>3, <1>4, <1>5 DEF Posts

(* What an invocation that goes on does.                                     *)
LEMMA MovesAdvance ==
  ASSUME Types, NEW w \in Workers, Advance(w)
  PROVE  Moves(w)
<1>1. CASE Claim(w) \/ ClaimRun(w)
  <2>1. Kept /\ SameStore /\ worker[w].pc \in {"claim", "record"}
    BY <1>1 DEF Claim, ClaimRun, Kept, history, SameStore, At
  <2>2. Ends(w) \/ Goes(w, {"record", "load", "caught", "refence", "burn"})
    <3>1. CASE Claim(w)
      BY <3>1, ClaimDoes DEF Goes
    <3>2. CASE ClaimRun(w)
      BY <3>2, ClaimRunDoes DEF Goes
    <3>3. QED
      BY <1>1, <3>1, <3>2
  <2>3. QED
    BY <2>1, <2>2, LeavesStep DEF Moves
<1>2. CASE Load(w)
  <2>1. worker[w].pc = "load" /\ SameStore /\ loose' = loose
    BY <1>2 DEF Load, SameStore, At
  <2>2. \/ Ends(w) \/ Goes(w, {"caught"})
        \/ /\ Goes(w, {"before"}) /\ worker'[w].pending = {}
           /\ worker'[w].known = [e \in Entities |-> Found(e)]
           /\ worker'[w].todo = Work(worker[w].phase)
           /\ worker'[w].armed = Armed(worker[w].phase)
    BY <1>2, LoadDoes
  <2>3. CASE company' = company /\ (Ends(w) \/ Goes(w, {"caught"}))
    BY <2>1, <2>3, LeavesStep DEF Moves, Kept, Goes
  <2>4. CASE Goes(w, {"before"})
    <3>1. On(w, [Goto(w, "before") EXCEPT !.known = [e \in Entities |-> Found(e)],
                                             !.todo = Work(worker[w].phase),
                                             !.armed = Armed(worker[w].phase)])
          /\ company' = IF Beside(w) = {} THEN company ELSE company \cup {w} \cup Beside(w)
      <4>1. ASSUME \E attempt : End(w, attempt) PROVE FALSE
        BY <2>4, <4>1, EndDoes DEF Goes, Idle
      <4>2. ASSUME On(w, Goto(w, "caught")) PROVE FALSE
        <5>1. worker'[w] = Goto(w, "caught") /\ Goto(w, "caught").pc = "caught"
          BY <4>2 DEF On, Become, Goto, Types, WorkerRecs
        <5>2. QED
          BY <2>4, <5>1 DEF Goes
      <4>3. QED
        BY <1>2, <4>1, <4>2 DEF Load, Throw
    <3>2. ~ Ends(w) /\ ~ Goes(w, {"caught"})
      BY <2>4 DEF Ends, Goes, Idle
    <3>3. Loads(w)
      BY <2>1, <2>2, <3>1, <3>2 DEF Loads
    <3>4. QED
      BY <3>3 DEF Moves
  <2>5. company' = company \/ Goes(w, {"before"})
    <3>1. CASE company' = company
      BY <3>1
    <3>2. CASE company' # company
      <4>1. ~ (Ends(w) \/ Goes(w, {"caught"}))
        <5> DEFINE next == [Goto(w, "before") EXCEPT !.known = [e \in Entities |-> Found(e)],
                                             !.todo = Work(worker[w].phase),
                                             !.armed = Armed(worker[w].phase)]
        <5>1. On(w, next)
          BY <1>2, <3>2 DEF Load
        <5>2. next.pc = "before"
          BY DEF Goto, Types, WorkerRecs
        <5>3. worker'[w] = next
          BY <5>1 DEF On, Become, Types
        <5>4. worker'[w].pc = "before"
          BY <5>2, <5>3
        <5>5. QED
          BY <5>4 DEF Ends, Goes, Idle
      <4>2. QED
        BY <2>2, <4>1
    <3>3. QED
      BY <3>1, <3>2
  <2>6. QED
    BY <2>2, <2>3, <2>4, <2>5
<1>3. CASE FenceBefore(w)
  <2>1. Kept /\ SameStore /\ worker[w].pc = "before"
        /\ (Ends(w) \/ (Goes(w, {"work"}) /\ SameHand(w)))
    <3>1. PICK stage \in Stages \ {"idle"}, then \in Later :
             stage = "before" /\ then = "work" /\ Fence(w, stage, Goto(w, then))
      BY <1>3 DEF FenceBefore, Stages, Unloaded, Later
    <3>2. QED
      BY <3>1, FenceDoes DEF Fence, Kept
  <2>2. CASE Ends(w)
    BY <2>1, <2>2, LeavesStep DEF Moves
  <2>3. CASE Goes(w, {"work"}) /\ SameHand(w)
    BY <2>1, <2>3 DEF Moves, Keeps, Goes, LoadedStages, Ways
  <2>4. QED
    BY <2>1, <2>2, <2>3
<1>4. CASE FenceAfter(w)
  <2>1. Kept /\ SameStore /\ worker[w].pc = "after"
        /\ (Ends(w) \/ (Goes(w, {"advance"}) /\ SameHand(w)))
    <3>1. PICK stage \in Stages \ {"idle"}, then \in Later :
             stage = "after" /\ then = "advance" /\ Fence(w, stage, Goto(w, then))
      BY <1>4 DEF FenceAfter, Stages, Unloaded, Later
    <3>2. QED
      BY <3>1, FenceDoes DEF Fence, Kept
  <2>2. CASE Ends(w)
    BY <2>1, <2>2, LeavesStep DEF Moves
  <2>3. CASE Goes(w, {"advance"}) /\ SameHand(w)
    BY <2>1, <2>3 DEF Moves, Keeps, Goes, LoadedStages, Ways
  <2>4. QED
    BY <2>1, <2>2, <2>3
<1>5. CASE Refence(w)
  <2>1. Kept /\ SameStore /\ worker[w].pc = "refence"
        /\ (Ends(w) \/ (Goes(w, {"burn"}) /\ SameHand(w)))
    <3>1. PICK stage \in Stages \ {"idle"}, then \in Later :
             stage = "refence" /\ then = "burn" /\ Fence(w, stage, Goto(w, then))
      BY <1>5 DEF Refence, Stages, Unloaded, Later
    <3>2. QED
      BY <3>1, FenceDoes DEF Fence, Kept
  <2>2. QED
    BY <2>1, LeavesStep DEF Moves, Goes
<1>6. CASE LookUp(w)
  <2>1. Kept
    BY <1>6 DEF LookUp, Kept, history
  <2>2. /\ SameStore /\ worker[w].pc = "work" /\ Current(w) \in worker[w].todo /\ Current(w) \in Natural
        /\ worker[w].phase # 4 /\ worker[w].known[Current(w)] = 0
        /\ \/ Goes(w, {"map", "work"}) /\ Takes(w, Current(w), 1)
           \/ records[Current(w)] = 0 /\ Goes(w, {"post"}) /\ SameHand(w)
    BY <1>6, LookUpDoes DEF Takes
  <2>3. CASE Goes(w, {"map", "work"}) /\ Takes(w, Current(w), 1)
    BY <2>1, <2>2, <2>3 DEF Moves, Finds
  <2>4. CASE records[Current(w)] = 0 /\ Goes(w, {"post"}) /\ SameHand(w)
    BY <2>1, <2>2, <2>4 DEF Moves, Keeps, Goes, LoadedStages, Ways
  <2>5. QED
    BY <2>2, <2>3, <2>4
<1>7. CASE Create(w)
  BY <1>7, PostsStep DEF Moves
<1>8. CASE GoOn(w)
  <2>1. Kept
    BY <1>8 DEF GoOn, Kept, history
  <2>2. GoesOn(w)
    BY <1>8, <2>1, GoOnDoes DEF GoesOn
  <2>3. QED
    BY <2>2 DEF Moves
<1>9. CASE SaveMappings(w)
  <2>1. Kept
    BY <1>9 DEF SaveMappings, Kept, history
  <2>2. slow' = slow
    BY <1>9 DEF SaveMappings
  <2>3. faults' = faults \/ Costs
    BY <1>9, <2>2 DEF SaveMappings, Fault, Fine, Costs
  <2>4. faults' = faults - 1 => Costs
    BY <2>3 DEF Types, RunTypes
  <2>5. Saves(w)
    BY <1>9, <2>1, <2>4, SaveMappingsDoes DEF Saves
  <2>6. QED
    BY <2>5 DEF Moves
<1>10. CASE PhaseDone(w)
  <2>1. Kept
    BY <1>10 DEF PhaseDone, Kept, history
  <2>2. CASE Goes(w, {"map"}) /\ SameHand(w)
    BY <1>10, <2>1, <2>2, PhaseDoneDoes DEF Moves, Keeps, Goes, LoadedStages, Ways
  <2>3. CASE ~ Goes(w, {"map"})
    <3>1. Passes(w)
      BY <1>10, <2>1, <2>3, PhaseDoneDoes DEF Passes
    <3>2. QED
      BY <3>1 DEF Moves
  <2>4. QED
    BY <1>10, <2>2, <2>3, PhaseDoneDoes DEF Goes
<1>11. CASE AdvanceRun(w)
  <2>1. Kept
    BY <1>11 DEF AdvanceRun, Kept, history
  <2>2. worker[w].pc = "advance" /\ SameStore /\ SameHand(w) /\ Goes(w, {"settle", "caught"})
    BY <1>11, AdvanceRunDoes
  <2>3. CASE Goes(w, {"settle"})
    BY <2>1, <2>2, <2>3 DEF Moves, Keeps, Goes, LoadedStages, Ways
  <2>4. CASE Goes(w, {"caught"})
    BY <2>1, <2>2, <2>4, LeavesStep DEF Moves, Goes
  <2>5. QED
    BY <2>2, <2>3, <2>4 DEF Goes
<1>12. CASE Settle(w)
  <2>1. Kept
    BY <1>12 DEF Settle, Kept, history
  <2>2. CASE worker[w].phase = 4 /\ Goes(w, {"finish"})
             /\ Hands(w, worker[w].todo, worker[w].pending, worker[w].known, worker[w].armed, Settled(w))
    <3>1. Settles(w)
      BY <1>12, <2>1, <2>2, SettleDoes DEF Settles
    <3>2. QED
      BY <3>1 DEF Moves
  <2>3. CASE Ends(w) \/ Goes(w, {"caught"})
    BY <1>12, <2>1, <2>3, SettleDoes, LeavesStep DEF Moves, Goes
  <2>4. QED
    BY <1>12, <2>2, <2>3, SettleDoes
<1>13. CASE FinishDone(w) \/ SettleAgain(w) \/ FinishFailed(w)
  <2>1. Kept
    BY <1>13 DEF FinishDone, SettleAgain, FinishFailed, Kept, history
  <2>2. /\ SameStore /\ worker[w].pc \in {"finish", "caught", "burn"}
        /\ Ends(w) \/ Goes(w, {"record", "load", "caught", "refence", "burn"})
    <3>1. CASE FinishDone(w)
      BY <3>1, FinishDoneDoes DEF Goes
    <3>2. CASE SettleAgain(w)
      BY <3>2, SettleAgainDoes DEF Goes
    <3>3. CASE FinishFailed(w)
      BY <3>3, FinishFailedDoes
    <3>4. QED
      BY <1>13, <3>1, <3>2, <3>3
  <2>3. QED
    BY <2>1, <2>2, LeavesStep DEF Moves
<1>14. QED
  BY <1>1, <1>2, <1>3, <1>4, <1>5, <1>6, <1>7, <1>8, <1>9, <1>10, <1>11, <1>12, <1>13 DEF Advance

LEMMA Moving ==
  ASSUME Types, [Next]_vars
  PROVE  Rest \/ \E w \in Workers : Moves(w)
<1>1. CASE UNCHANGED vars
  BY <1>1 DEF vars, history, Rest, Kept
<1>2. CASE \E r \in Runs : Press(r) \/ CallInVain(r)
  BY <1>2 DEF Press, CallInVain, history, Rest, Kept
<1>3. ASSUME NEW e \in Entities, GiveAddress(e) PROVE Rest
  <2>1. Kept
    BY <1>3 DEF GiveAddress, history, Kept
  <2>2. QED
    BY <1>3, <2>1, GiveAddressDoes DEF Rest
<1>4. ASSUME NEW w \in Workers, NEW r \in Runs, Sweep(w, r) \/ Call(w, r) PROVE Moves(w)
  <2>1. PICK by \in {"sweep", "wizard"} : /\ Begin(w, r, by)
                                          /\ tab' \in [Runs -> {"closed", "waiting", "busy"}]
    BY <1>4, SweepDoes
  <2>2. company' = company \ {w} /\ loose' = loose
    BY <2>1 DEF Begin
  <2>3. Opens(w)
    BY <2>1, <2>2, BeginDoes DEF Opens
  <2>4. QED
    BY <2>3 DEF Moves
<1>5. CASE \E w \in Workers : Advance(w)
  BY <1>5, MovesAdvance
<1>6. CASE \E w \in Workers : SentAgain(w)
  BY <1>6, PostsStep DEF Moves
<1>7. ASSUME NEW w \in Workers, WorkFails(w) \/ Die(w) PROVE Moves(w)
  <2>1. Kept /\ slow' = slow /\ Fault /\ SameStore
    BY <1>7 DEF WorkFails, Die, history, Kept, SameStore
  <2>2. Costs
    BY <2>1 DEF Fault, Costs
  <2>3. worker[w].pc # "idle" /\ (Ends(w) \/ Goes(w, {"record", "load", "caught", "refence", "burn"}))
    BY <1>7, WorkFailsDoes, DieDoes DEF Goes
  <2>4. QED
    BY <2>1, <2>2, <2>3, LeavesStep DEF Moves
<1>8. CASE Tick
  BY <1>8 DEF Tick, history, Rest, Kept
<1>9. QED
  BY <1>1, <1>2, <1>3, <1>4, <1>5, <1>6, <1>7, <1>8 DEF Next

(* What happens to the rows meanwhile.                                       *)
RowsDo ==
    /\ \A r \in Runs : \/ run'[r].phase = run[r].phase
                       \/ \E w \in Workers : /\ worker[w].pc = "advance"
                                             /\ run'[r].phase = NextPhase(worker[w].phase)
    /\ \A r \in Runs : run'[r].status = "done" =>
         \/ run[r].status = "done" /\ run'[r].list = run[r].list
         \/ \E w \in Workers : worker[w].pc = "finish" /\ run'[r].list = worker[w].list

LEMMA RowsStep ==
  ASSUME Types, [Next]_vars
  PROVE  RowsDo
<1> DEFINE Same(r) == run'[r].phase = run[r].phase /\ Ending(run'[r]) = Ending(run[r])
<1>1. ASSUME \A r \in Runs : Same(r) PROVE RowsDo
  <2>1. \A r \in Runs : /\ run'[r].phase = run[r].phase /\ run'[r].status = run[r].status
                        /\ run'[r].list = run[r].list
    BY <1>1 DEF Ending
  <2>2. QED
    BY <2>1 DEF RowsDo
<1>2. CASE run' = run
  BY <1>1, <1>2
<1>3. CASE \E r \in Runs : Press(r)
  <2>1. PICK r \in Runs : Press(r)
    BY <1>3
  <2>2. /\ run'[r].status = "queued" /\ run'[r].phase = run[r].phase
        /\ \A q \in Runs \ {r} : run'[q] = run[q]
    BY <2>1, PressDoes
  <2>3. QED
    BY <2>2 DEF RowsDo
<1>4. ASSUME NEW w \in Workers, NEW r \in Runs, Sweep(w, r) \/ Call(w, r) PROVE RowsDo
  <2>1. \A q \in Runs : Same(q)
    BY <1>4, SweepDoes, BeginDoes
  <2>2. QED
    BY <1>1, <2>1
<1>5. CASE Tick
  BY <1>1, <1>5, TickDoes
<1>6. ASSUME NEW w \in Workers, ClaimRun(w) PROVE RowsDo
  <2>1. /\ worker[w].pc = "record" /\ \A q \in Runs \ {Mine(w)} : run'[q] = run[q]
        /\ run'[Mine(w)] \in {run[Mine(w)], ClaimedRow(w)}
    BY <1>6, ClaimRunDoes
  <2>2. ClaimedRow(w).status = "running" /\ ClaimedRow(w).phase = run[Mine(w)].phase
    BY <2>1, RowsOf
  <2>3. QED
    BY <2>1, <2>2 DEF RowsDo
<1>7. ASSUME NEW w \in Workers, AdvanceRun(w) PROVE RowsDo
  <2>1. /\ worker[w].pc = "advance" /\ \A q \in Runs \ {Mine(w)} : run'[q] = run[q]
        /\ run'[Mine(w)] \in {run[Mine(w)], AdvancedRow(w)}
    BY <1>7, AdvanceRunDoes
  <2>2. /\ AdvancedRow(w).phase = NextPhase(worker[w].phase)
        /\ AdvancedRow(w).status = run[Mine(w)].status /\ AdvancedRow(w).list = run[Mine(w)].list
    BY <2>1, RowsOf DEF Ending
  <2>3. QED
    BY <2>1, <2>2 DEF RowsDo
<1>8. ASSUME NEW w \in Workers, FinishDone(w) PROVE RowsDo
  <2>1. /\ worker[w].pc = "finish" /\ \A q \in Runs \ {Mine(w)} : run'[q] = run[q]
        /\ run'[Mine(w)] \in {run[Mine(w)], Outcome(Mine(w), "done", TRUE, worker[w].list)}
    BY <1>8, FinishDoneDoes
  <2>2. /\ Outcome(Mine(w), "done", TRUE, worker[w].list).phase = run[Mine(w)].phase
        /\ Outcome(Mine(w), "done", TRUE, worker[w].list).list = worker[w].list
    <3>1. Mine(w) \in Runs /\ worker[w].list \in SUBSET Addressless
      BY <2>1, FoundRun DEF Types, WorkerType, WorkerRecs
    <3>2. QED
      BY <3>1, OutcomeDone
  <2>3. PICK row : row = Outcome(Mine(w), "done", TRUE, worker[w].list)
    OBVIOUS
  <2>4. QED
    BY <2>1, <2>2, <2>3 DEF RowsDo
<1>9. ASSUME NEW w \in Workers, FinishFailed(w) PROVE RowsDo
  BY <1>9, FinishFailedDoes DEF RowsDo
<1>10. ASSUME NEW w \in Workers, Advance(w) PROVE RowsDo
  <2>1. CASE FenceBefore(w) \/ FenceAfter(w) \/ Refence(w)
    BY <1>2, <2>1 DEF FenceBefore, FenceAfter, Refence, Fence
  <2>2. CASE Claim(w) \/ Load(w) \/ LookUp(w) \/ Create(w) \/ GoOn(w)
    BY <1>2, <2>2 DEF Claim, Load, LookUp, Create, Post, GoOn
  <2>3. CASE SaveMappings(w) \/ PhaseDone(w) \/ Settle(w) \/ SettleAgain(w)
    BY <1>2, <2>3 DEF SaveMappings, PhaseDone, Settle, SettleAgain
  <2>4. QED
    BY <1>6, <1>7, <1>8, <1>9, <1>10, <2>1, <2>2, <2>3 DEF Advance
<1>11. CASE \E w \in Workers : SentAgain(w) \/ WorkFails(w) \/ Die(w)
  BY <1>2, <1>11 DEF SentAgain, Post, WorkFails, Die
<1>12. CASE (\E r \in Runs : CallInVain(r)) \/ (\E e \in Entities : GiveAddress(e)) \/ UNCHANGED vars
  BY <1>2, <1>12 DEF CallInVain, GiveAddress, vars
<1>13. QED
  BY <1>3, <1>4, <1>5, <1>10, <1>11, <1>12 DEF Next

-----------------------------------------------------------------------------
(* The ledger.                                                               *)

\* What an invocation that works alone does not know is not mapped.
Alone(v) ==
    AtWork(v) /\ v \notin company =>
        \A e \in Entities : worker[v].known[e] = 0 => Found(e) = 0

\* Of what nothing could find again there is one record in hand at most, and the
\* mapping of it is the next thing to be written; unless there were two at work, it
\* is the first.
Unfindable(v) == worker[v].pending \ Natural
OneInHand(v) ==
    AtWork(v) => \A e \in Unfindable(v) : worker[v].pc = "map" /\ Unfindable(v) = {e}
Unmapped(v) ==
    worker[v].pc = "map" => \A e \in Unfindable(v) : OwnId(e) /\ e \notin loose => Found(e) = 0

\* What an invocation knows, and is not about to map, is what is mapped.
Exact(v) ==
    Loaded(v) => \A e \in Entities \ (Natural \cup loose) :
        OwnId(e) /\ worker[v].known[e] # 0 /\ e \notin worker[v].pending =>
            worker[v].known[e] = Found(e)

\* After the work there is nothing left to do.
Emptied(v) == Loaded(v) /\ ~ AtWork(v) => worker[v].todo = {} /\ worker[v].pending = {}

\* Nobody else creates a speaker whose address was just looked for.
NotThere(v) ==
    worker[v].pc = "post" /\ v \notin company /\ First(worker[v].todo) \notin loose =>
        records[First(worker[v].todo)] = 0

Books(v) == Alone(v) /\ OneInHand(v) /\ Unmapped(v) /\ Exact(v) /\ Emptied(v) /\ NotThere(v)

Ledger ==
    /\ \A u, v \in Workers : u # v /\ AtWork(u) /\ AtWork(v) => u \in company
    /\ \A u, v \in Workers : u # v /\ worker[u].pc = "map" /\ worker[v].pc = "map" =>
         Unfindable(u) \cap Unfindable(v) \subseteq loose
    /\ \A e \in Natural \ loose : records[e] <= 1
    /\ \A v \in Workers : Books(v)

LEMMA InitLedger ==
  ASSUME Init
  PROVE  Ledger
  BY SourceAssumption DEF Init, Ledger, Books, Alone, OneInHand, Unmapped, Exact, Emptied, NotThere, AtWork,
     Loaded, LoadedStages, Idle

(* What is in hand has been created.                                         *)
LEMMA InHandKnown ==
  ASSUME Types, NEW w \in Workers, NEW e \in worker[w].pending
  PROVE  e \in Entities /\ worker[w].known[e] \in Nat \ {0}
  BY DEF Types, WorkerType, WorkerRecs

(* What is found once the mappings in hand are written.                      *)
LEMMA SavedFound ==
  ASSUME Types, NEW w \in Workers, newest' = SavedBy(w), NEW e \in Entities
  PROVE  /\ e \notin worker[w].pending => Found(e)' \in {Found(e), 0}
         /\ OwnId(e) => Found(e)' = IF e \in worker[w].pending THEN worker[w].known[e] ELSE Found(e)
<1> DEFINE mine == {d \in worker[w].pending : Id[d] = Id[e]}
<1>1. Id[e] \in RemoteIds
  BY DEF RemoteIds
<1>2. newest'[Id[e]] = IF mine = {} THEN newest[Id[e]]
                       ELSE LET d == CHOOSE d \in mine : TRUE
                            IN  [of |-> d, local |-> worker[w].known[d]]
  BY <1>1 DEF SavedBy
<1>3. CASE mine = {}
  <2>1. newest'[Id[e]] = newest[Id[e]]
    BY <1>2, <1>3
  <2>2. Found(e)' = Found(e) /\ e \notin worker[w].pending
    BY <1>3, <2>1 DEF Found
  <2>3. QED
    BY <2>2
<1>4. CASE mine # {}
  <2>1. PICK d \in mine : newest'[Id[e]] = [of |-> d, local |-> worker[w].known[d]]
    BY <1>2, <1>4
  <2>2. Found(e)' = IF d = e THEN worker[w].known[d] ELSE 0
    BY <2>1 DEF Found
  <2>3. d \in Entities /\ d \in worker[w].pending /\ Id[d] = Id[e]
    BY <2>1, InHandKnown
  <2>4. OwnId(e) => d = e
    BY <2>3 DEF OwnId
  <2>5. QED
    BY <2>2, <2>3, <2>4
<1>5. QED
  BY <1>3, <1>4

\* The mappings stay, or are those in hand of one invocation.
Writes(w) == worker[w].pc = "map" /\ newest' = SavedBy(w)

LEMMA FoundSame ==
  ASSUME newest' = newest, NEW e \in Entities
  PROVE  Found(e)' = Found(e)
  BY DEF Found

LEMMA MovesWrite ==
  ASSUME NEW w \in Workers, Moves(w)
  PROVE  newest' = newest \/ (Saves(w) /\ Writes(w))
<1>1. CASE Saves(w)
  BY <1>1 DEF Saves, Writes
<1>2. CASE Opens(w) \/ Leaves(w) \/ Loads(w) \/ Keeps(w) \/ Passes(w) \/ Settles(w) \/ Finds(w)
  BY <1>2 DEF Opens, Leaves, Loads, Keeps, Passes, Settles, Finds, SameStore
<1>3. CASE GoesOn(w) \/ Posts(w)
  BY <1>3 DEF GoesOn, Posts
<1>4. QED
  BY <1>1, <1>2, <1>3 DEF Moves

(* A mapping of what is written first stays.                                 *)
LEMMA FoundStays ==
  ASSUME Types, Ledger, NEW w \in Workers, Moves(w), NEW e \in Entities, OwnId(e)
  PROVE  /\ Found(e) # 0 => Found(e)' # 0
         /\ Found(e) # 0 /\ e \notin Natural \cup loose => Found(e)' = Found(e)
<1>1. CASE newest' = newest
  BY <1>1, FoundSame
<1>2. CASE Writes(w)
  <2>1. Found(e)' = IF e \in worker[w].pending THEN worker[w].known[e] ELSE Found(e)
    BY <1>2, SavedFound DEF Writes
  <2>2. e \in worker[w].pending => worker[w].known[e] # 0
    BY InHandKnown
  <2>3. e \in worker[w].pending /\ e \notin Natural \cup loose => Found(e) = 0
    BY <1>2 DEF Writes, Ledger, Books, Unmapped, Unfindable
  <2>4. QED
    BY <2>1, <2>2, <2>3
<1>3. QED
  BY <1>1, <1>2, MovesWrite

(* Who moves, and what history does about it.                                *)
LEMMA MovesOne ==
  ASSUME NEW w \in Workers, Moves(w)
  PROVE  /\ \A v \in Workers \ {w} : worker'[v] = worker[v]
         /\ \A v \in Workers \ {w} : v \in company => v \in company'
         /\ loose \subseteq loose'
         /\ (AtWork(w)' => AtWork(w)) \/ Loads(w)
         /\ company \subseteq company' \/ Opens(w)
<1>1. CASE Opens(w)
  BY <1>1 DEF Opens, Others, AtWork
<1>2. CASE Leaves(w)
  BY <1>2 DEF Leaves, Others, AtWork, LoadedStages, Kept
<1>3. CASE Loads(w)
  BY <1>3 DEF Loads, Others, Goes
<1>4. CASE Keeps(w)
  BY <1>4 DEF Keeps, Others, Goes, AtWork, Ways, Kept
<1>5. CASE Passes(w) \/ Settles(w)
  BY <1>5 DEF Passes, Settles, Others, Goes, AtWork, Kept
<1>6. CASE GoesOn(w) \/ Finds(w)
  BY <1>6 DEF GoesOn, Finds, Others, Goes, AtWork, Kept
<1>7. CASE Posts(w)
  BY <1>7 DEF Posts, Others, Goes, AtWork
<1>8. CASE Saves(w)
  BY <1>8 DEF Saves, Others, Goes, AtWork, Kept
<1>9. QED
  BY <1>1, <1>2, <1>3, <1>4, <1>5, <1>6, <1>7, <1>8 DEF Moves

(* Two at work are in company.                                               *)
LEMMA CompanyStep ==
  ASSUME Ledger, NEW w \in Workers, Moves(w)
  PROVE  \A u, v \in Workers : u # v /\ AtWork(u)' /\ AtWork(v)' => u \in company'
<1>1. CASE Loads(w)
  <2>1. /\ \A v \in Workers \ {w} : worker'[v] = worker[v]
        /\ company' = IF Beside(w) = {} THEN company ELSE company \cup {w} \cup Beside(w)
    BY <1>1 DEF Loads, Goes, Others
  <2>2. \A v \in Workers \ {w} : AtWork(v)' => AtWork(v) /\ v \in Beside(w)
    BY <2>1 DEF AtWork, Beside
  <2>3. ASSUME NEW u \in Workers, NEW v \in Workers, u # v, AtWork(u)', AtWork(v)'
        PROVE  u \in company'
    <3>1. CASE u = w
      BY <2>1, <2>2, <2>3, <3>1
    <3>2. CASE u # w
      BY <2>1, <2>2, <2>3, <3>2
    <3>3. QED
      BY <3>1, <3>2
  <2>4. QED
    BY <2>3
<1>2. CASE ~ Loads(w)
  <2>1. \A v \in Workers : AtWork(v)' => AtWork(v)
    BY <1>2, MovesOne DEF AtWork
  <2>2. \A v \in Workers : AtWork(v) /\ v \in company => v \in company'
    BY MovesOne DEF Opens, AtWork
  <2>3. QED
    BY <2>1, <2>2 DEF Ledger
<1>3. QED
  BY <1>1, <1>2

(* The books of those who do not move.                                       *)
LEMMA BooksOthers ==
  ASSUME Types, Ledger, NEW w \in Workers, Moves(w), NEW v \in Workers \ {w}
  PROVE  Books(v)'
<1>0. /\ worker'[v] = worker[v] /\ (v \in company => v \in company') /\ loose \subseteq loose'
      /\ Books(v)
  BY MovesOne DEF Ledger
<1>1. ASSUME Writes(w), AtWork(v) PROVE v \in company
  <2>1. AtWork(w)
    BY <1>1 DEF Writes, AtWork
  <2>2. QED
    BY <1>1, <2>1 DEF Ledger
<1>2. Alone(v)'
  <2>1. CASE newest' = newest
    BY <1>0, <2>1, FoundSame DEF Books, Alone, AtWork
  <2>2. CASE Writes(w)
    BY <1>0, <1>1, <2>2 DEF Alone, AtWork
  <2>3. QED
    BY <2>1, <2>2, MovesWrite
<1>3. OneInHand(v)'
  BY <1>0 DEF Books, OneInHand, Unfindable, AtWork
<1>4. Unmapped(v)'
  <2>1. SUFFICES ASSUME worker[v].pc = "map", NEW e \in Unfindable(v), OwnId(e), e \notin loose'
                 PROVE  Found(e)' = 0
    BY <1>0 DEF Unmapped, Unfindable
  <2>2. Found(e) = 0 /\ e \in Entities /\ e \notin loose
    BY <1>0, <2>1, InHandKnown DEF Books, Unmapped, Unfindable
  <2>3. CASE newest' = newest
    BY <2>2, <2>3, FoundSame
  <2>4. CASE Writes(w)
    <3>1. e \notin worker[w].pending
      BY <2>1, <2>2, <2>4 DEF Ledger, Writes, Unfindable
    <3>2. QED
      BY <2>2, <2>4, <3>1, SavedFound DEF Writes
  <2>5. QED
    BY <2>3, <2>4, MovesWrite
<1>5. Exact(v)'
  <2>1. SUFFICES ASSUME Loaded(v), NEW e \in Entities \ (Natural \cup loose'), OwnId(e),
                        worker[v].known[e] # 0, e \notin worker[v].pending
                 PROVE  worker[v].known[e] = Found(e)'
    BY <1>0 DEF Exact, Loaded
  <2>2. worker[v].known[e] = Found(e) /\ e \notin loose
    BY <1>0, <2>1 DEF Books, Exact
  <2>3. QED
    BY <2>1, <2>2, FoundStays
<1>6. Emptied(v)'
  BY <1>0 DEF Books, Emptied, Loaded, AtWork
<1>7. NotThere(v)'
  <2>1. SUFFICES ASSUME worker[v].pc = "post", v \notin company', First(worker[v].todo) \notin loose'
                 PROVE  records'[First(worker[v].todo)] = 0
    BY <1>0 DEF NotThere
  <2>2. records[First(worker[v].todo)] = 0 /\ AtWork(v) /\ First(worker[v].todo) \in Entities
    <3>1. First(worker[v].todo) \in Natural
      BY <2>1 DEF Types, WorkerType
    <3>2. QED
      BY <1>0, <2>1, <3>1, SourceAssumption DEF Books, NotThere, AtWork
  <2>3. CASE Posts(w)
    <3>1. AtWork(w)
      BY <2>3 DEF Posts, AtWork
    <3>2. QED
      BY <1>0, <2>1, <2>2, <3>1 DEF Ledger
  <2>4. CASE ~ Posts(w)
    <3>1. records' = records
      BY <2>4 DEF Moves, Opens, Leaves, Loads, Keeps, Passes, Settles, GoesOn, Finds, Saves, SameStore
    <3>2. QED
      BY <2>2, <3>1
  <2>5. QED
    BY <2>3, <2>4
<1>8. QED
  BY <1>2, <1>3, <1>4, <1>5, <1>6, <1>7 DEF Books

(* The books of who moves.                                                   *)
LEMMA BooksLeft ==
  ASSUME NEW w \in Workers, worker'[w].pc \notin LoadedStages
  PROVE  Books(w)'
  BY DEF Books, Alone, OneInHand, Unmapped, Exact, Emptied, NotThere, AtWork, Loaded, LoadedStages

LEMMA BooksLoads ==
  ASSUME Types, NEW w \in Workers, Loads(w)
  PROVE  Books(w)'
<1>1. /\ worker'[w].pc = "before" /\ worker'[w].pending = {} /\ newest' = newest
      /\ \A e \in Entities : worker'[w].known[e] = Found(e)
  BY DEF Loads, Goes, SameStore
<1>2. \A e \in Entities : worker'[w].known[e] = Found(e)'
  BY <1>1, FoundSame
<1>3. QED
  BY <1>1, <1>2 DEF Books, Alone, OneInHand, Unmapped, Unfindable, Exact, Emptied, NotThere, AtWork, Loaded

(* With the same in hand.                                                    *)
LEMMA BooksSame ==
  ASSUME Types, Ledger, NEW w \in Workers, newest' = newest, records' = records,
         loose' = loose, company' = company,
         worker'[w].pending = worker[w].pending, worker'[w].known = worker[w].known,
         worker'[w].todo \subseteq worker[w].todo,
         AtWork(w), worker[w].pc # "map", AtWork(w)',
         worker'[w].pc = "post" =>
            worker'[w].todo = worker[w].todo /\ records[First(worker[w].todo)] = 0
  PROVE  Books(w)'
<1>1. Books(w) /\ Loaded(w)
  BY DEF Ledger, AtWork, Loaded, LoadedStages
<1>2. Alone(w)'
  BY <1>1, FoundSame DEF Books, Alone
<1>3. Unfindable(w) = {} /\ Unfindable(w)' = {}
  BY <1>1 DEF Books, OneInHand, Unfindable
<1>4. OneInHand(w)' /\ Unmapped(w)'
  BY <1>3 DEF OneInHand, Unmapped
<1>5. Exact(w)'
  BY <1>1, FoundSame DEF Books, Exact
<1>6. Emptied(w)' /\ NotThere(w)'
  BY DEF Emptied, NotThere
<1>7. QED
  BY <1>2, <1>4, <1>5, <1>6 DEF Books

LEMMA BooksDone ==
  ASSUME Types, Ledger, NEW w \in Workers, newest' = newest, loose' = loose, Loaded(w),
         worker'[w].pending = {}, worker[w].pending = {}, worker'[w].known = worker[w].known,
         worker'[w].todo = {}, ~ AtWork(w)'
  PROVE  Books(w)'
<1>1. Exact(w)
  BY DEF Ledger, Books
<1>2. Exact(w)'
  BY <1>1, FoundSame DEF Exact
<1>3. QED
  BY <1>2 DEF Books, Alone, OneInHand, Unmapped, Emptied, NotThere, AtWork

(* One more in hand.                                                         *)
LEMMA BooksTakes ==
  ASSUME Types, Ledger, NEW w \in Workers, NEW e \in Entities, NEW id \in Nat \ {0}, Takes(w, e, id),
         newest' = newest, company' = company, loose \subseteq loose',
         AtWork(w), worker[w].pc # "map", worker[w].known[e] = 0,
         worker'[w].pc \in {"map", "work"}, e \notin Natural => worker'[w].pc = "map",
         e \notin Natural /\ w \in company => e \in loose'
  PROVE  Books(w)'
<1>1. Books(w) /\ Loaded(w)
  BY DEF Ledger, AtWork, Loaded, LoadedStages
<1>2. /\ worker'[w].known[e] # 0 /\ \A d \in Entities \ {e} : worker'[w].known[d] = worker[w].known[d]
      /\ worker'[w].pending = worker[w].pending \cup {e}
  BY DEF Takes, Hands
<1>3. Unfindable(w) = {}
  BY <1>1 DEF Books, OneInHand
<1>4. Unfindable(w)' = IF e \in Natural THEN {} ELSE {e}
  BY <1>2, <1>3 DEF Unfindable
<1>5. Alone(w)'
  BY <1>1, <1>2, FoundSame DEF Books, Alone
<1>6. OneInHand(w)'
  BY <1>4 DEF OneInHand
<1>7. Unmapped(w)'
  <2>1. SUFFICES ASSUME e \notin Natural, e \notin loose' PROVE Found(e)' = 0
    BY <1>4 DEF Unmapped
  <2>2. Found(e) = 0
    BY <1>1, <2>1 DEF Books, Alone
  <2>3. QED
    BY <2>2, FoundSame
<1>8. Exact(w)'
  BY <1>1, <1>2, FoundSame DEF Books, Exact
<1>9. Emptied(w)' /\ NotThere(w)'
  BY DEF Emptied, NotThere, AtWork
<1>10. QED
  BY <1>5, <1>6, <1>7, <1>8, <1>9 DEF Books

(* The mappings are written.                                                 *)
LEMMA BooksSaves ==
  ASSUME Types, Ledger, NEW w \in Workers, Writes(w), worker'[w].pc = "work", loose' = loose,
         company' = company, worker'[w].pending = {}, worker'[w].known = worker[w].known
  PROVE  Books(w)'
<1>1. Books(w) /\ Loaded(w) /\ AtWork(w)
  BY DEF Ledger, AtWork, Loaded, LoadedStages, Writes
<1>2. Alone(w)'
  <2>1. SUFFICES ASSUME w \notin company, NEW e \in Entities, worker[w].known[e] = 0
                 PROVE  Found(e)' = 0
    BY DEF Alone
  <2>2. Found(e) = 0 /\ e \notin worker[w].pending
    BY <1>1, <2>1, InHandKnown DEF Books, Alone
  <2>3. QED
    BY <2>2, SavedFound DEF Writes
<1>3. OneInHand(w)' /\ Unmapped(w)'
  BY DEF OneInHand, Unmapped, Unfindable
<1>4. Exact(w)'
  <2>1. SUFFICES ASSUME NEW e \in Entities \ (Natural \cup loose), OwnId(e), worker[w].known[e] # 0
                 PROVE  worker[w].known[e] = Found(e)'
    BY DEF Exact
  <2>2. Found(e)' = IF e \in worker[w].pending THEN worker[w].known[e] ELSE Found(e)
    BY <2>1, SavedFound DEF Writes
  <2>3. QED
    BY <1>1, <2>1, <2>2 DEF Books, Exact
<1>5. Emptied(w)' /\ NotThere(w)'
  BY DEF Emptied, NotThere, AtWork
<1>6. QED
  BY <1>2, <1>3, <1>4, <1>5 DEF Books

(* A record more.                                                            *)
LEMMA BooksPosts ==
  ASSUME Types, Ledger, NEW w \in Workers, Posts(w)
  PROVE  Books(w)'
<1> DEFINE e == Current(w)
<1>1. PICK counts \in BOOLEAN :
        /\ worker[w].pc \in {"work", "post"} /\ (worker[w].pc = "post" <=> e \in Natural)
        /\ e \in worker[w].todo /\ e \in Entities /\ worker[w].known[e] = 0
        /\ newest' = newest /\ company' = company
        /\ loose' = IF w \in company \/ counts THEN loose \cup {e} ELSE loose
        /\ \/ /\ Goes(w, {"map", "work"}) /\ (e \notin Natural => worker'[w].pc = "map")
              /\ Takes(w, e, records[e] + 1)
           \/ Goes(w, {"caught"})
           \/ worker' = worker /\ (e \in Natural => counts)
  BY DEF Posts
<1>2. AtWork(w) /\ records[e] + 1 \in Nat \ {0} /\ Books(w)
  BY <1>1 DEF AtWork, Types, StoreTypes, Ledger
<1>3. CASE Goes(w, {"map", "work"}) /\ (e \notin Natural => worker'[w].pc = "map")
           /\ Takes(w, e, records[e] + 1)
  <2>1. PICK d, id : d = e /\ id = records[e] + 1
    OBVIOUS
  <2>2. /\ d \in Entities /\ id \in Nat \ {0} /\ Takes(w, d, id) /\ worker[w].known[d] = 0
        /\ newest' = newest /\ company' = company /\ loose \subseteq loose'
        /\ worker[w].pc # "map" /\ worker'[w].pc \in {"map", "work"}
        /\ d \notin Natural => worker'[w].pc = "map"
        /\ d \notin Natural /\ w \in company => d \in loose'
    BY <1>1, <1>2, <1>3, <2>1 DEF Goes
  <2>3. QED
    BY <1>2, <2>2, BooksTakes
<1>4. CASE Goes(w, {"caught"})
  BY <1>4, BooksLeft DEF Goes, LoadedStages
<1>5. CASE worker' = worker /\ (e \in Natural => counts)
  <2>1. Alone(w)'
    BY <1>1, <1>2, <1>5, FoundSame DEF Books, Alone, AtWork
  <2>2. OneInHand(w)' /\ Emptied(w)'
    BY <1>2, <1>5 DEF Books, OneInHand, Emptied, Unfindable, AtWork, Loaded
  <2>3. Unmapped(w)'
    BY <1>1, <1>5 DEF Unmapped
  <2>4. Exact(w)'
    BY <1>1, <1>2, <1>5, FoundSame DEF Books, Exact, Loaded
  <2>5. NotThere(w)'
    <3>1. e = First(worker[w].todo)
      BY <1>1, CurrentIs
    <3>2. QED
      BY <1>1, <1>5, <3>1 DEF NotThere
  <2>6. QED
    BY <2>1, <2>2, <2>3, <2>4, <2>5 DEF Books
<1>6. QED
  BY <1>1, <1>3, <1>4, <1>5

LEMMA BooksMover ==
  ASSUME Types, Ledger, NEW w \in Workers, Moves(w)
  PROVE  Books(w)'
<1>1. CASE Opens(w) \/ Leaves(w)
  BY <1>1, BooksLeft DEF Opens, Leaves, LoadedStages
<1>2. CASE Loads(w)
  BY <1>2, BooksLoads
<1>3. CASE Keeps(w)
  <2>1. /\ SameHand(w) /\ newest' = newest /\ records' = records /\ loose' = loose /\ company' = company
        /\ <<worker[w].pc, worker'[w].pc>> \in Ways
    BY <1>3 DEF Keeps, SameStore, Kept
  <2>2. CASE AtWork(w)'
    <3>1. AtWork(w) /\ worker[w].pc # "map"
      BY <2>1, <2>2 DEF Ways, AtWork
    <3>2. worker'[w].pc = "post" => records[First(worker[w].todo)] = 0
      <4>1. SUFFICES ASSUME worker'[w].pc = "post" PROVE records[First(worker[w].todo)] = 0
        OBVIOUS
      <4>2. records[Current(w)] = 0
        BY <1>3, <4>1 DEF Keeps
      <4>3. Current(w) = First(worker[w].todo)
        BY DEF Current, First
      <4>4. QED
        BY <4>2, <4>3
    <3>3. QED
      BY <2>1, <2>2, <3>1, <3>2, BooksSame DEF SameHand
  <2>3. CASE ~ AtWork(w)'
    <3>1. Loaded(w) /\ ~ AtWork(w)
      BY <2>1, <2>3 DEF Ways, AtWork, Loaded, LoadedStages
    <3>2. worker[w].todo = {} /\ worker[w].pending = {}
      BY <3>1 DEF Ledger, Books, Emptied
    <3>3. QED
      BY <2>1, <2>3, <3>1, <3>2, BooksDone DEF SameHand
  <2>4. QED
    BY <2>2, <2>3
<1>4. CASE Passes(w)
  BY <1>4, BooksDone DEF Passes, Hands, Goes, SameStore, Kept, Loaded, LoadedStages, AtWork
<1>5. CASE Settles(w)
  <2>1. worker[w].todo = {} /\ worker[w].pending = {}
    BY <1>5 DEF Settles, Ledger, Books, Emptied, Loaded, LoadedStages, AtWork
  <2>2. QED
    BY <1>5, <2>1, BooksDone DEF Settles, Hands, Goes, SameStore, Kept, Loaded, LoadedStages, AtWork
<1>6. CASE GoesOn(w)
  BY <1>6, BooksSame DEF GoesOn, Hands, Goes, Kept, AtWork
<1>7. CASE Finds(w)
  <2>a. Current(w) \in Natural /\ worker[w].known[Current(w)] = 0 /\ Takes(w, Current(w), 1)
    BY <1>7 DEF Finds
  <2>b. Current(w) \in Entities
    BY <2>a, SourceAssumption
  <2>1. PICK e, id : e = Current(w) /\ id = 1
    OBVIOUS
  <2>2. e \in Entities /\ e \in Natural /\ id \in Nat \ {0} /\ Takes(w, e, id) /\ worker[w].known[e] = 0
    BY <2>1, <2>a, <2>b
  <2>3. /\ newest' = newest /\ company' = company /\ loose \subseteq loose'
        /\ AtWork(w) /\ worker[w].pc # "map" /\ worker'[w].pc \in {"map", "work"}
    BY <1>7 DEF Finds, Goes, SameStore, Kept, AtWork
  <2>4. QED
    BY <2>2, <2>3, BooksTakes
<1>8. CASE Posts(w)
  BY <1>8, BooksPosts
<1>9. CASE Saves(w)
  <2>1. CASE Goes(w, {"caught"})
    BY <2>1, BooksLeft DEF Goes, LoadedStages
  <2>2. CASE ~ Goes(w, {"caught"})
    <3>1. /\ Writes(w) /\ worker'[w].pc = "work" /\ loose' = loose /\ company' = company
          /\ worker'[w].pending = {} /\ worker'[w].known = worker[w].known
      BY <1>9, <2>2 DEF Saves, Writes, Goes, Hands, Kept
    <3>2. QED
      BY <3>1, BooksSaves
  <2>3. QED
    BY <2>1, <2>2
<1>10. QED
  BY <1>1, <1>2, <1>3, <1>4, <1>5, <1>6, <1>7, <1>8, <1>9 DEF Moves

(* What two have in hand at once.                                            *)
LEMMA HandsApart ==
  ASSUME Types, Ledger, NEW w \in Workers, Moves(w)
  PROVE  \A u, v \in Workers : u # v /\ worker'[u].pc = "map" /\ worker'[v].pc = "map" =>
           Unfindable(u)' \cap Unfindable(v)' \subseteq loose'
<1>1. \A v \in Workers \ {w} : worker'[v] = worker[v]
  BY MovesOne
<1>2. loose \subseteq loose'
  BY MovesOne
<1>3. ASSUME NEW v \in Workers \ {w}, worker'[w].pc = "map", worker[v].pc = "map",
             NEW e, e \in Unfindable(w)', e \in Unfindable(v)
      PROVE  e \in loose'
  <2>1. CASE Posts(w)
    <3>1. w \in company
      <4>1. AtWork(w) /\ AtWork(v)
        BY <1>3, <2>1 DEF Posts, AtWork
      <4>2. QED
        BY <4>1 DEF Ledger
    <3>2. loose' = loose \cup {Current(w)}
      BY <2>1, <3>1 DEF Posts
    <3>3. Unfindable(w) = {}
      BY <2>1 DEF Posts, Ledger, Books, OneInHand, AtWork
    <3>4. worker'[w].pending \subseteq worker[w].pending \cup {Current(w)}
      BY <1>3, <2>1 DEF Posts, Takes, Hands, Goes
    <3>5. QED
      BY <1>3, <3>2, <3>3, <3>4 DEF Unfindable
  <2>2. CASE ~ Posts(w)
    <3>1. Keeps(w) \/ Finds(w)
      BY <1>3, <2>2 DEF Moves, Opens, Leaves, Loads, Passes, Settles, GoesOn, Saves, Goes, LoadedStages
    <3>2. Unfindable(w)' = Unfindable(w) /\ AtWork(w) /\ worker[w].pc # "map"
      <4>1. CASE Keeps(w)
        BY <1>3, <4>1 DEF Keeps, SameHand, Ways, Unfindable, AtWork
      <4>2. CASE Finds(w)
        BY <4>2 DEF Finds, Takes, Hands, Unfindable, AtWork
      <4>3. QED
        BY <3>1, <4>1, <4>2
    <3>3. Unfindable(w) = {}
      BY <3>2 DEF Ledger, Books, OneInHand
    <3>4. QED
      BY <1>3, <3>2, <3>3
  <2>3. QED
    BY <2>1, <2>2
<1>4. ASSUME NEW u \in Workers, NEW v \in Workers, u # v, worker'[u].pc = "map", worker'[v].pc = "map",
             NEW e, e \in Unfindable(u)', e \in Unfindable(v)'
      PROVE  e \in loose'
  <2>1. \A x \in Workers \ {w} : Unfindable(x)' = Unfindable(x)
    BY <1>1 DEF Unfindable
  <2>2. CASE u = w
    BY <1>1, <1>3, <1>4, <2>1, <2>2
  <2>3. CASE v = w
    BY <1>1, <1>3, <1>4, <2>1, <2>3
  <2>4. CASE u # w /\ v # w
    BY <1>1, <1>2, <1>4, <2>1, <2>4 DEF Ledger
  <2>5. QED
    BY <2>2, <2>3, <2>4
<1>5. QED
  BY <1>4

(* A speaker with an address has one record.                                 *)
LEMMA NaturalsStep ==
  ASSUME Types, Ledger, NEW w \in Workers, Moves(w)
  PROVE  \A e \in Natural \ loose' : records'[e] <= 1
<1>1. loose \subseteq loose'
  BY MovesOne
<1>2. CASE ~ Posts(w)
  <2>1. records' = records
    BY <1>2 DEF Moves, Opens, Leaves, Loads, Keeps, Passes, Settles, GoesOn, Finds, Saves, SameStore
  <2>2. QED
    BY <1>1, <2>1 DEF Ledger
<1>3. CASE Posts(w)
  <2>1. PICK e, counts : /\ e = Current(w) /\ e \in Entities
                         /\ worker[w].pc = "post" <=> e \in Natural
                         /\ e \in worker[w].todo
                         /\ records'[e] = records[e] + 1
                         /\ \A d \in Entities \ {e} : records'[d] = records[d]
                         /\ loose' = IF w \in company \/ counts THEN loose \cup {e} ELSE loose
    BY <1>3 DEF Posts
  <2>2. ASSUME e \in Natural \ loose' PROVE records[e] = 0
    <3>1. e = First(worker[w].todo) /\ w \notin company /\ e \notin loose
      BY <2>1, <2>2, CurrentIs
    <3>2. QED
      BY <2>1, <2>2, <3>1 DEF Ledger, Books, NotThere
  <2>3. \A d \in Natural \ {e} : d \in Entities
    BY SourceAssumption
  <2>4. QED
    BY <1>1, <2>1, <2>2, <2>3 DEF Ledger
<1>4. QED
  BY <1>2, <1>3

LEMMA LedgerRest ==
  ASSUME Types, Ledger, Rest
  PROVE  Ledger'
<1>1. worker' = worker /\ records' = records /\ newest' = newest /\ company' = company /\ loose' = loose
  BY DEF Rest, Kept
<1>2. \A e \in Entities : Found(e)' = Found(e)
  BY <1>1, FoundSame
<1>3. ASSUME NEW v \in Workers PROVE Books(v)'
  <2>1. Books(v)
    BY DEF Ledger
  <2>2. Alone(v)' /\ OneInHand(v)' /\ Emptied(v)' /\ NotThere(v)'
    BY <1>1, <1>2, <2>1 DEF Books, Alone, OneInHand, Emptied, NotThere, Unfindable, AtWork, Loaded
  <2>3. Unmapped(v)'
    <3>1. \A e \in Unfindable(v) : e \in Entities
      BY InHandKnown DEF Unfindable
    <3>2. QED
      BY <1>1, <1>2, <2>1, <3>1 DEF Books, Unmapped, Unfindable
  <2>4. Exact(v)'
    BY <1>1, <1>2, <2>1 DEF Books, Exact, Loaded
  <2>5. QED
    BY <2>2, <2>3, <2>4 DEF Books
<1>4. QED
  BY <1>1, <1>3 DEF Ledger, AtWork, Unfindable

LEMMA LedgerStep ==
  ASSUME Types, Ledger, [Next]_vars
  PROVE  Ledger'
<1>1. CASE Rest
  BY <1>1, LedgerRest
<1>2. ASSUME NEW w \in Workers, Moves(w) PROVE Ledger'
  <2>1. \A v \in Workers : Books(v)'
    BY <1>2, BooksMover, BooksOthers
  <2>2. QED
    BY <1>2, <2>1, CompanyStep, HandsApart, NaturalsStep DEF Ledger
<1>3. QED
  BY <1>1, <1>2, Moving

-----------------------------------------------------------------------------
(* Charges.                                                                  *)

\* What the bound is about; records that an invocation is about to map; and those
\* that only an organizer could find again.
Counted(e) == e \notin Natural \cup loose /\ OwnId(e)
InHand(e) == \E w \in Workers : worker[w].pc = "map" /\ e \in worker[w].pending
Lost == {e \in Entities : Counted(e) /\ records[e] > 0 /\ Found(e) = 0 /\ ~ InHand(e)}
Dups == {d \in Duplicates : Counted(d[1])}

Charges ==
    /\ IsFiniteSet(Dups) /\ IsFiniteSet(Lost)
    /\ Cardinality(Dups) + Cardinality(Lost) <= Spent

(* One more is one more, at most.                                            *)
LEMMA OneMore ==
  ASSUME NEW S, NEW T, NEW x, IsFiniteSet(S), T \subseteq S \cup {x}
  PROVE  IsFiniteSet(T) /\ Cardinality(T) <= Cardinality(S) + 1 /\ Cardinality(T) \in Nat
         /\ Cardinality(S) \in Nat
<1>0. Cardinality(S) \in Nat
  BY FS_CardinalityType
<1>1. IsFiniteSet(S \cup {x}) /\ Cardinality(S \cup {x}) <= Cardinality(S) + 1
  BY <1>0, FS_AddElement
<1>2. Cardinality(S \cup {x}) \in Nat
  BY <1>1, FS_CardinalityType
<1>3. IsFiniteSet(T) /\ Cardinality(T) <= Cardinality(S \cup {x}) /\ Cardinality(T) \in Nat
  BY <1>1, FS_Subset, FS_CardinalityType
<1>4. QED
  BY <1>0, <1>1, <1>2, <1>3

(* Fewer cost no more.                                                       *)
LEMMA NoMore ==
  ASSUME NEW S, NEW T, IsFiniteSet(S), T \subseteq S
  PROVE  IsFiniteSet(T) /\ Cardinality(T) <= Cardinality(S) /\ Cardinality(T) \in Nat
         /\ Cardinality(S) \in Nat
  BY FS_Subset, FS_CardinalityType

(* One is taken out.                                                         *)
LEMMA OneLess ==
  ASSUME NEW S, NEW T, NEW x \in S, IsFiniteSet(S), T \subseteq S \ {x}
  PROVE  IsFiniteSet(T) /\ Cardinality(T) + 1 <= Cardinality(S) /\ Cardinality(T) \in Nat
         /\ Cardinality(S) \in Nat
<1>1. IsFiniteSet(S \ {x}) /\ Cardinality(S \ {x}) = Cardinality(S) - 1 /\ Cardinality(S) \in Nat
  BY FS_RemoveElement, FS_CardinalityType
<1>2. IsFiniteSet(T) /\ Cardinality(T) <= Cardinality(S \ {x}) /\ Cardinality(T) \in Nat
  BY <1>1, FS_Subset, FS_CardinalityType
<1>3. QED
  BY <1>1, <1>2

(* What a step spends, in all.                                               *)
LEMMA SpentStep ==
  ASSUME Types, HistoryTypes, [Next]_vars
  PROVE  /\ Spent \in Nat /\ Spent' \in Nat /\ Spent <= Spent'
         /\ Costs => Spent' = Spent + 1
<1>1. faults \in Nat /\ MaxFaults \in Nat /\ slow \in Nat
  BY BoundsAssumption DEF Types, RunTypes, HistoryTypes
<1>2. Spent \in Nat /\ Spent' \in Nat
  BY NextHistory DEF HistoryTypes
<1>3. Free \/ Slower => Spent' = Spent
  BY <1>1 DEF Free, Slower, Spent
<1>4. Costs => Spent' = Spent + 1
  BY <1>1 DEF Costs, Spent
<1>5. QED
  BY <1>2, <1>3, <1>4, Spending

(* What is lost costs a fault.                                               *)
LEMMA ChargedFor ==
  ASSUME Charges, Spent \in Nat, Spent' \in Nat, Spent <= Spent', Dups' \subseteq Dups,
         \/ Lost' \subseteq Lost
         \/ \E x : Lost' \subseteq Lost \cup {x} /\ Spent' = Spent + 1
  PROVE  Charges'
<1>1. PICK S, T, U, V, m, n : /\ S = Dups /\ T = Dups' /\ U = Lost /\ V = Lost'
                              /\ m = Spent /\ n = Spent'
  OBVIOUS
<1>2. /\ IsFiniteSet(S) /\ IsFiniteSet(U) /\ Cardinality(S) + Cardinality(U) <= m
      /\ m \in Nat /\ n \in Nat /\ m <= n /\ T \subseteq S
  BY <1>1 DEF Charges
<1>3. /\ IsFiniteSet(T) /\ Cardinality(T) <= Cardinality(S) /\ Cardinality(T) \in Nat
      /\ Cardinality(S) \in Nat
  BY <1>2, NoMore
<1>4. CASE V \subseteq U
  <2>1. /\ IsFiniteSet(V) /\ Cardinality(V) <= Cardinality(U) /\ Cardinality(V) \in Nat
        /\ Cardinality(U) \in Nat
    BY <1>2, <1>4, NoMore
  <2>2. IsFiniteSet(T) /\ IsFiniteSet(V) /\ Cardinality(T) + Cardinality(V) <= n
    BY <1>2, <1>3, <2>1
  <2>3. QED
    BY <1>1, <2>2 DEF Charges
<1>5. CASE \E x : V \subseteq U \cup {x} /\ n = m + 1
  <2>1. PICK x : V \subseteq U \cup {x} /\ n = m + 1
    BY <1>5
  <2>2. /\ IsFiniteSet(V) /\ Cardinality(V) <= Cardinality(U) + 1 /\ Cardinality(V) \in Nat
        /\ Cardinality(U) \in Nat
    BY <1>2, <2>1, OneMore
  <2>3. IsFiniteSet(T) /\ IsFiniteSet(V) /\ Cardinality(T) + Cardinality(V) <= n
    BY <1>2, <1>3, <2>1, <2>2
  <2>4. QED
    BY <1>1, <2>3 DEF Charges
<1>6. QED
  BY <1>1, <1>4, <1>5

LEMMA DupsSame ==
  ASSUME records' = records, loose \subseteq loose'
  PROVE  Dups' \subseteq Dups
<1>1. Duplicates' = Duplicates
  BY DEF Duplicates
<1>2. \A e : Counted(e)' => Counted(e)
  BY DEF Counted, OwnId
<1>3. QED
  BY <1>1, <1>2 DEF Dups

(* Nothing that was mapped or in hand changes.                               *)
LEMMA LostSame ==
  ASSUME records' = records, newest' = newest, loose \subseteq loose',
         \A e \in Entities : InHand(e) => InHand(e)'
  PROVE  Lost' \subseteq Lost
<1>1. \A e : Counted(e)' => Counted(e)
  BY DEF Counted, OwnId
<1>2. \A e \in Entities : Found(e)' = Found(e)
  BY FoundSame
<1>3. QED
  BY <1>1, <1>2 DEF Lost

(* Who is at another stage than map has nothing in hand that could be lost;  *)
(* the others keep what they have.                                           *)
LEMMA InHandKept ==
  ASSUME NEW w \in Workers, Others(w), worker[w].pc # "map"
  PROVE  \A e \in Entities : InHand(e) => InHand(e)'
<1>1. ASSUME NEW e \in Entities, InHand(e) PROVE InHand(e)'
  <2>1. PICK v \in Workers : worker[v].pc = "map" /\ e \in worker[v].pending
    BY <1>1 DEF InHand
  <2>2. worker'[v] = worker[v]
    BY <2>1 DEF Others
  <2>3. QED
    BY <2>1, <2>2 DEF InHand
<1>2. QED
  BY <1>1

(* What somebody has in hand after all is in the hand of who moves.          *)
LEMMA HeldBy ==
  ASSUME NEW w \in Workers, Others(w), NEW e \in Entities, InHand(e), ~ InHand(e)'
  PROVE  worker[w].pc = "map" /\ e \in worker[w].pending
<1>1. PICK v \in Workers : worker[v].pc = "map" /\ e \in worker[v].pending
  BY DEF InHand
<1>2. CASE v # w
  <2>1. worker'[v] = worker[v]
    BY <1>2 DEF Others
  <2>2. QED
    BY <1>1, <2>1 DEF InHand
<1>3. QED
  BY <1>1, <1>2

(* A fault at map loses what was in hand, one record at most.                *)
LEMMA LostDropped ==
  ASSUME Types, Ledger, NEW w \in Workers, worker[w].pc = "map",
         records' = records, newest' \in {newest, SavedBy(w)}, Others(w), loose' = loose
  PROVE  \E x : Lost' \subseteq Lost \cup {x}
<1>1. OneInHand(w) /\ AtWork(w)
  BY DEF Ledger, Books, AtWork
<1>2. PICK x : Unfindable(w) \subseteq {x}
  <2>1. CASE Unfindable(w) = {}
    BY <2>1
  <2>2. CASE Unfindable(w) # {}
    BY <1>1, <2>2 DEF OneInHand
  <2>3. QED
    BY <2>1, <2>2
<1>3. ASSUME NEW e \in Lost', e # x PROVE e \in Lost
  <2>1. e \in Entities /\ Counted(e)' /\ records[e] > 0 /\ Found(e)' = 0 /\ ~ InHand(e)'
    BY <1>3 DEF Lost
  <2>2. Counted(e) /\ OwnId(e) /\ e \notin Natural
    BY <2>1 DEF Counted, OwnId
  <2>3. Found(e) = 0
    <3>1. CASE newest' = newest
      BY <2>1, <3>1, FoundSame
    <3>2. CASE newest' = SavedBy(w)
      BY <2>1, <2>2, <3>2, SavedFound, InHandKnown
    <3>3. QED
      BY <3>1, <3>2
  <2>4. e \notin worker[w].pending
    BY <1>2, <1>3, <2>2 DEF Unfindable
  <2>5. ~ InHand(e)
    BY <2>1, <2>4, HeldBy
  <2>6. QED
    BY <2>1, <2>2, <2>3, <2>5 DEF Lost
<1>4. QED
  BY <1>3

(* The mappings in hand are written.                                         *)
LEMMA LostSaved ==
  ASSUME Types, NEW w \in Workers, records' = records, newest' = SavedBy(w), Others(w), loose' = loose
  PROVE  Lost' \subseteq Lost
<1>1. ASSUME NEW e \in Lost' PROVE e \in Lost
  <2>1. e \in Entities /\ Counted(e)' /\ records[e] > 0 /\ Found(e)' = 0 /\ ~ InHand(e)'
    BY <1>1 DEF Lost
  <2>2. Counted(e) /\ OwnId(e)
    BY <2>1 DEF Counted, OwnId
  <2>3. Found(e) = 0 /\ e \notin worker[w].pending
    BY <2>1, <2>2, SavedFound, InHandKnown
  <2>4. ~ InHand(e)
    BY <2>1, <2>3, HeldBy
  <2>5. QED
    BY <2>1, <2>2, <2>3, <2>4 DEF Lost
<1>2. QED
  BY <1>1

\* The record too many that a create makes, if there was one before.
ExtraOf(e) == <<e, records[e] + 1>>

(* A create of a record that no address finds.                               *)
LEMMA DuplicatesGrow ==
  ASSUME Types, NEW e \in Entities, records'[e] = records[e] + 1,
         \A d \in Entities \ {e} : records'[d] = records[d]
  PROVE  /\ Duplicates' \subseteq Duplicates \cup {ExtraOf(e)}
         /\ records[e] = 0 => Duplicates' \subseteq Duplicates
<1>1. \A d \in Entities : records[d] \in Nat
  BY DEF Types, StoreTypes
<1>2. ASSUME NEW p \in Duplicates'
      PROVE  p \in Duplicates \/ (p = ExtraOf(e) /\ records[e] # 0)
  <2>1. PICK d \in Entities : p \in {d} \X (2 .. records'[d])
    BY <1>2 DEF Duplicates
  <2>2. PICK n \in 2 .. records'[d] : p = <<d, n>>
    BY <2>1
  <2>3. CASE n <= records[d]
    <3>1. n \in 2 .. records[d]
      BY <1>1, <2>2, <2>3
    <3>2. p \in {d} \X (2 .. records[d])
      BY <2>2, <3>1
    <3>3. QED
      BY <3>2 DEF Duplicates
  <2>4. CASE ~ (n <= records[d])
    <3>1. d = e /\ n = records[e] + 1 /\ records[e] # 0
      BY <1>1, <2>2, <2>4
    <3>2. QED
      BY <2>2, <3>1 DEF ExtraOf
  <2>5. QED
    BY <2>3, <2>4
<1>3. QED
  BY <1>2

(* What a create may change is its own entity.                               *)
LEMMA PostLocal ==
  ASSUME Types, Ledger, NEW w \in Workers, Posts(w)
  PROVE  \A d \in Entities \ {Current(w)} : d \in Lost' => d \in Lost
<1>1. /\ newest' = newest /\ loose \subseteq loose' /\ Others(w) /\ worker[w].pc # "map"
      /\ \A d \in Entities \ {Current(w)} : records'[d] = records[d]
  BY MovesOne DEF Posts, Moves, Others
<1>2. \A d \in Entities : Found(d)' = Found(d) /\ (InHand(d) => InHand(d)')
  BY <1>1, FoundSame, InHandKept
<1>3. \A d : Counted(d)' => Counted(d)
  BY <1>1 DEF Counted, OwnId
<1>4. QED
  BY <1>1, <1>2, <1>3 DEF Lost

(* A create of what the bound is not about.                                  *)
LEMMA PostElse ==
  ASSUME Types, Ledger, NEW w \in Workers, Posts(w), NEW e, e = Current(w), ~ Counted(e)'
  PROVE  Dups' \subseteq Dups /\ Lost' \subseteq Lost
<1>1. e = Current(w)
  OBVIOUS
<1>2. /\ e \in Entities /\ loose \subseteq loose' /\ records'[e] = records[e] + 1
      /\ \A d \in Entities \ {e} : records'[d] = records[d]
  BY <1>1, MovesOne DEF Posts, Moves
<1>3. Duplicates' \subseteq Duplicates \cup {ExtraOf(e)}
  BY <1>2, DuplicatesGrow
<1>4. ~ Counted(e)'
  OBVIOUS
<1>5. ASSUME NEW d \in Dups' PROVE d \in Dups
  <2>1. d \in Duplicates' /\ Counted(d[1])' /\ Counted(d[1])
    BY <1>2, <1>5 DEF Dups, Counted, OwnId
  <2>2. d # ExtraOf(e)
    BY <1>4, <2>1 DEF ExtraOf
  <2>3. QED
    BY <1>3, <2>1, <2>2 DEF Dups
<1>6. Lost' \subseteq Lost
  <2>1. e \notin Lost'
    BY <1>4 DEF Lost
  <2>2. QED
    BY <1>1, <2>1, PostLocal DEF Lost
<1>7. QED
  BY <1>5, <1>6

(* Who works alone creates what nobody knows of.                             *)
LEMMA PostAlone ==
  ASSUME Types, Ledger, NEW w \in Workers, Posts(w), NEW e, e = Current(w), Counted(e)'
  PROVE  Counted(e) /\ Found(e) = 0 /\ ~ InHand(e)
<1>1. e = Current(w)
  OBVIOUS
<1>2. /\ e \in Entities /\ worker[w].known[e] = 0 /\ worker[w].pc \in {"work", "post"}
      /\ w \in company => e \in loose'
  BY <1>1 DEF Posts
<1>3. e \notin loose' /\ Counted(e)
  <2>1. loose \subseteq loose'
    BY MovesOne DEF Moves
  <2>2. QED
    BY <2>1 DEF Counted, OwnId
<1>4. w \notin company /\ AtWork(w)
  BY <1>2, <1>3 DEF AtWork
<1>5. Found(e) = 0
  BY <1>2, <1>4 DEF Ledger, Books, Alone
<1>6. ~ InHand(e)
  <2>1. SUFFICES ASSUME NEW v \in Workers, worker[v].pc = "map" PROVE FALSE
    BY DEF InHand
  <2>2. AtWork(v) /\ v # w
    BY <1>2, <2>1 DEF AtWork
  <2>3. QED
    BY <1>4, <2>2 DEF Ledger
<1>7. QED
  BY <1>3, <1>5, <1>6

(* Such a record is one too many then, and otherwise about to be mapped, or  *)
(* lost with the call that failed or was sent again.                         *)
LEMMA ChargesCreate ==
  ASSUME Types, Ledger, Charges, NEW w \in Workers, Posts(w), NEW e, e = Current(w), Counted(e)',
         Spent \in Nat, Spent' \in Nat, Spent <= Spent', Costs => Spent' = Spent + 1
  PROVE  Charges'
<1>1. PICK m, n : e = Current(w) /\ m = Spent /\ n = Spent'
  OBVIOUS
<1>2. /\ Counted(e) /\ Found(e) = 0 /\ ~ InHand(e) /\ e \in Entities /\ e \notin Natural
      /\ records'[e] = records[e] + 1 /\ \A d \in Entities \ {e} : records'[d] = records[d]
      /\ loose \subseteq loose'
      /\ \/ worker'[w].pc = "map" /\ worker'[w].pending = worker[w].pending \cup {e}
         \/ n = m + 1
  <2>1. Counted(e) /\ Found(e) = 0 /\ ~ InHand(e)
    BY <1>1, PostAlone
  <2>2. e \notin Natural
    BY <2>1 DEF Counted
  <2>3. /\ e \in Entities /\ records'[e] = records[e] + 1
        /\ \A d \in Entities \ {e} : records'[d] = records[d]
    BY <1>1 DEF Posts
  <2>4. loose \subseteq loose'
    BY MovesOne DEF Moves
  <2>5. \/ worker'[w].pc = "map" /\ Takes(w, e, records[e] + 1)
        \/ Costs
    BY <1>1, <2>2 DEF Posts
  <2>6. QED
    BY <1>1, <2>1, <2>2, <2>3, <2>4, <2>5 DEF Takes, Hands
<1>3. \A d : Counted(d)' => Counted(d)
  BY <1>2 DEF Counted, OwnId
<1>4. records[e] \in Nat
  BY <1>2 DEF Types, StoreTypes
<1>5. PICK S, T, U, V, x : /\ S = Dups /\ T = Dups' /\ U = Lost /\ V = Lost'
                           /\ x = ExtraOf(e)
  OBVIOUS
<1>6. T \subseteq S \cup {x} /\ (records[e] = 0 => T \subseteq S)
  <2>1. /\ Duplicates' \subseteq Duplicates \cup {ExtraOf(e)}
        /\ records[e] = 0 => Duplicates' \subseteq Duplicates
    BY <1>2, DuplicatesGrow
  <2>2. \A d \in T : d \in Duplicates' /\ Counted(d[1])
    BY <1>3, <1>5 DEF Dups
  <2>3. QED
    BY <1>5, <2>1, <2>2 DEF Dups
<1>7. V \subseteq U \cup {e} /\ (records[e] > 0 => e \in U)
  <2>1. \A d \in V : d \in Entities
    BY <1>5 DEF Lost
  <2>2. \A d \in Entities \ {e} : d \in V => d \in U
    BY <1>1, <1>5, PostLocal
  <2>3. records[e] > 0 => e \in U
    BY <1>2, <1>5 DEF Lost
  <2>4. QED
    BY <2>1, <2>2, <2>3
<1>8. e \notin V \/ n = m + 1
  <2>1. SUFFICES ASSUME n # m + 1 PROVE e \notin V
    OBVIOUS
  <2>2. e \in worker'[w].pending /\ worker'[w].pc = "map"
    BY <1>2, <2>1
  <2>3. InHand(e)'
    BY <2>2 DEF InHand
  <2>4. QED
    BY <1>5, <2>3 DEF Lost
<1>9. /\ IsFiniteSet(S) /\ IsFiniteSet(U) /\ Cardinality(S) + Cardinality(U) <= m
      /\ m \in Nat /\ n \in Nat /\ m <= n
  BY <1>1, <1>5 DEF Charges
<1>10. IsFiniteSet(T) /\ IsFiniteSet(V) /\ Cardinality(T) + Cardinality(V) <= n
  <2>1. CASE records[e] = 0 /\ e \notin V
    <3>1. T \subseteq S /\ V \subseteq U
      BY <1>6, <1>7, <2>1
    <3>2. /\ IsFiniteSet(T) /\ Cardinality(T) <= Cardinality(S) /\ Cardinality(T) \in Nat
          /\ Cardinality(S) \in Nat
      BY <1>9, <3>1, NoMore
    <3>3. /\ IsFiniteSet(V) /\ Cardinality(V) <= Cardinality(U) /\ Cardinality(V) \in Nat
          /\ Cardinality(U) \in Nat
      BY <1>9, <3>1, NoMore
    <3>4. QED
      BY <1>9, <3>2, <3>3
  <2>2. CASE records[e] = 0 /\ n = m + 1
    <3>1. /\ IsFiniteSet(T) /\ Cardinality(T) <= Cardinality(S) /\ Cardinality(T) \in Nat
          /\ Cardinality(S) \in Nat
      BY <1>6, <1>9, <2>2, NoMore
    <3>2. /\ IsFiniteSet(V) /\ Cardinality(V) <= Cardinality(U) + 1 /\ Cardinality(V) \in Nat
          /\ Cardinality(U) \in Nat
      BY <1>7, <1>9, OneMore
    <3>3. QED
      BY <1>9, <2>2, <3>1, <3>2
  <2>3. CASE records[e] > 0 /\ e \notin V
    <3>1. e \in U /\ V \subseteq U \ {e}
      BY <1>7, <2>3
    <3>2. /\ IsFiniteSet(T) /\ Cardinality(T) <= Cardinality(S) + 1 /\ Cardinality(T) \in Nat
          /\ Cardinality(S) \in Nat
      BY <1>6, <1>9, OneMore
    <3>3. /\ IsFiniteSet(V) /\ Cardinality(V) + 1 <= Cardinality(U) /\ Cardinality(V) \in Nat
          /\ Cardinality(U) \in Nat
      BY <1>9, <3>1, OneLess
    <3>4. QED
      BY <1>9, <3>2, <3>3
  <2>4. CASE records[e] > 0 /\ n = m + 1
    <3>1. V \subseteq U
      BY <1>7, <2>4
    <3>2. /\ IsFiniteSet(T) /\ Cardinality(T) <= Cardinality(S) + 1 /\ Cardinality(T) \in Nat
          /\ Cardinality(S) \in Nat
      BY <1>6, <1>9, OneMore
    <3>3. /\ IsFiniteSet(V) /\ Cardinality(V) <= Cardinality(U) /\ Cardinality(V) \in Nat
          /\ Cardinality(U) \in Nat
      BY <1>9, <3>1, NoMore
    <3>4. QED
      BY <1>9, <2>4, <3>2, <3>3
  <2>5. QED
    BY <1>4, <1>8, <2>1, <2>2, <2>3, <2>4
<1>11. QED
  BY <1>1, <1>5, <1>10 DEF Charges

LEMMA InitCharges ==
  ASSUME Init
  PROVE  Charges
<1>1. \A e \in Entities : records[e] = 0
  BY DEF Init
<1>2. Dups = {}
  BY <1>1 DEF Duplicates, Dups
<1>3. Lost = {}
  BY <1>1 DEF Lost
<1>4. Spent = 0
  BY BoundsAssumption DEF Init, Spent
<1>5. IsFiniteSet({}) /\ Cardinality({}) = 0
  BY FS_EmptySet
<1>6. QED
  BY <1>2, <1>3, <1>4, <1>5 DEF Charges

LEMMA ChargesMove ==
  ASSUME Types, Ledger, Charges, NEW w \in Workers, Moves(w),
         Spent \in Nat, Spent' \in Nat, Spent <= Spent', Costs => Spent' = Spent + 1
  PROVE  Charges'
<1>1. Others(w) /\ loose \subseteq loose'
  BY MovesOne DEF Others
<1>2. CASE worker[w].pc # "map" /\ records' = records /\ newest' = newest
  BY <1>1, <1>2, InHandKept, LostSame, DupsSame, ChargedFor
<1>3. CASE Leaves(w) /\ worker[w].pc = "map"
  <2>1. records' = records /\ newest' = newest /\ loose' = loose /\ Costs
    BY <1>3 DEF Leaves, SameStore, Kept
  <2>2. QED
    BY <1>1, <1>3, <2>1, LostDropped, DupsSame, ChargedFor
<1>4. CASE Saves(w)
  <2>1. records' = records /\ loose' = loose /\ worker[w].pc = "map"
    BY <1>4 DEF Saves, Kept
  <2>2. CASE newest' = SavedBy(w)
    BY <1>1, <2>1, <2>2, LostSaved, DupsSame, ChargedFor
  <2>3. CASE newest' \in {newest, SavedBy(w)} /\ Costs
    BY <1>1, <2>1, <2>3, LostDropped, DupsSame, ChargedFor
  <2>4. QED
    BY <1>4, <2>2, <2>3 DEF Saves
<1>5. CASE Posts(w)
  <2>1. PICK e : e = Current(w)
    OBVIOUS
  <2>2. CASE Counted(e)'
    BY <1>5, <2>1, <2>2, ChargesCreate
  <2>3. CASE ~ Counted(e)'
    <3>1. Dups' \subseteq Dups /\ Lost' \subseteq Lost
      BY <1>5, <2>1, <2>3, PostElse
    <3>2. QED
      BY <3>1, ChargedFor
  <2>4. QED
    BY <2>2, <2>3
<1>6. CASE Opens(w) \/ Leaves(w) \/ Loads(w) \/ Keeps(w)
  BY <1>2, <1>3, <1>6 DEF Opens, Leaves, Loads, Keeps, Ways, SameStore
<1>7. CASE Passes(w) \/ Settles(w) \/ GoesOn(w) \/ Finds(w)
  BY <1>2, <1>7 DEF Passes, Settles, GoesOn, Finds, SameStore
<1>8. QED
  BY <1>4, <1>5, <1>6, <1>7 DEF Moves

LEMMA ChargesStep ==
  ASSUME Types, HistoryTypes, Ledger, Charges, [Next]_vars
  PROVE  Charges'
<1>1. Spent \in Nat /\ Spent' \in Nat /\ Spent <= Spent' /\ (Costs => Spent' = Spent + 1)
  BY SpentStep
<1>2. CASE Rest
  <2>1. /\ records' = records /\ newest' = newest /\ loose \subseteq loose'
        /\ \A e \in Entities : InHand(e) => InHand(e)'
    BY <1>2 DEF Rest, Kept, InHand
  <2>2. QED
    BY <1>1, <2>1, LostSame, DupsSame, ChargedFor
<1>3. CASE \E w \in Workers : Moves(w)
  BY <1>1, <1>3, ChargesMove
<1>4. QED
  BY <1>2, <1>3, Moving

LEMMA ChargesPaid ==
  ASSUME HistoryTypes, Ledger, Charges
  PROVE  OneDuplicatePerFault
<1>1. Dups = {d \in Duplicates : d[1] \notin Natural \cup loose /\ OwnId(d[1])}
  BY DEF Dups, Counted
<1>2. Cardinality(Dups) \in Nat /\ Cardinality(Lost) \in Nat /\ Spent \in Nat
  BY FS_CardinalityType DEF Charges, HistoryTypes
<1>3. Cardinality(Dups) <= MaxFaults - faults - slow
  BY <1>2 DEF Charges, Spent
<1>4. \A e \in Natural \ loose : records[e] <= 1
  BY DEF Ledger
<1>5. QED
  BY <1>1, <1>3, <1>4 DEF OneDuplicatePerFault

(* An interrupted import makes one record too many for each call that        *)
(* failed, was sent again or ended the isolate, and for a speaker with an    *)
(* address none unless its very create was sent again (ledger.ts maps a      *)
(* record that nothing else could find as soon as it is created); but for    *)
(* what is created beside another invocation.  For any source, remote ids    *)
(* shared or not, and any number of runs, invocations, leases and faults.    *)
THEOREM DuplicatesArePaidFor == Spec => []OneDuplicatePerFault
<1>1. Types /\ HistoryTypes /\ Ledger /\ Charges /\ [Next]_vars =>
        Types' /\ HistoryTypes' /\ Ledger' /\ Charges'
  BY NextTypes, NextHistory, LedgerStep, ChargesStep
<1>2. Init => Types /\ HistoryTypes /\ Ledger /\ Charges
  BY InitTypes, InitHistory, InitLedger, InitCharges
<1>3. HistoryTypes /\ Ledger /\ Charges => OneDuplicatePerFault
  BY ChargesPaid
<1>4. QED
  BY <1>1, <1>2, <1>3, PTL DEF Spec

-----------------------------------------------------------------------------
(* Progress.                                                                 *)

\* What an import can find again, if it ever gets there.
Findable(e) == OwnId(e) /\ (Phase[e] = 3 => \E s \in Cast[e] : OwnId(s))

\* Nobody is left out before a phase; everybody is written to or listed; and a run
\* that has nothing left to do.
Complete(p) == \A e \in Entities : Findable(e) /\ Phase[e] < p => Found(e) # 0
Covered(list) == \A e \in Addressless \ loose : OwnId(e) /\ address[e] # Found(e) => e \in list
AllPlaced == \A e \in Work(4) : Findable(e) => e \in placed
Finished(list) == Complete(4) /\ Covered(list) /\ AllPlaced

\* An invocation knows what comes before its phase, and what it has worked off, which
\* is placed once there is an agenda; and what it knows is mapped or in hand.
Begun(v) == worker[v].pc # "idle" => Complete(worker[v].phase)
Knows(v) ==
    Loaded(v) =>
        /\ \A e \in Entities : Findable(e) /\ Phase[e] < worker[v].phase => worker[v].known[e] # 0
        /\ \A e \in Entities : OwnId(e) /\ worker[v].known[e] # 0 /\ e \notin worker[v].pending =>
             Found(e) # 0
        /\ worker[v].phase = 4 => worker[v].armed
Worked(v) ==
    Loaded(v) => \A e \in Work(worker[v].phase) \ worker[v].todo : Findable(e) =>
        IF worker[v].phase = 4 THEN e \in placed ELSE worker[v].known[e] # 0
Listed(v) == worker[v].pc = "finish" => worker[v].phase = 4 /\ Covered(worker[v].list)

Progress ==
    /\ \A r \in Runs : Complete(run[r].phase)
    /\ \A r \in Runs : run[r].status = "done" => Finished(run[r].list)
    /\ \A v \in Workers : Begun(v) /\ Knows(v) /\ Worked(v) /\ Listed(v)

(* Nothing comes before the first phase.                                     *)
LEMMA CompleteFirst == Complete(1)
<1> SUFFICES ASSUME NEW e \in Entities PROVE ~ (Phase[e] < 1)
  BY DEF Complete
<1>1. Phase[e] \in 1 .. 3
  BY SourceAssumption
<1>2. QED
  BY <1>1

LEMMA InitProgress ==
  ASSUME Init
  PROVE  Progress
<1>1. \A r \in Runs : Complete(run[r].phase) /\ run[r].status # "done"
  BY CompleteFirst DEF Init, NoRow
<1>2. \A v \in Workers : worker[v].pc = "idle"
  BY DEF Init, Idle
<1>3. QED
  BY <1>1, <1>2 DEF Progress, Begun, Knows, Worked, Listed, Loaded, LoadedStages

\* What no step undoes.
Lasts ==
    /\ \A e \in Entities : OwnId(e) /\ Found(e) # 0 =>
         Found(e)' # 0 /\ (e \notin Natural \cup loose => Found(e)' = Found(e))
    /\ placed \subseteq placed' /\ loose \subseteq loose'
    /\ \A e \in Entities : address'[e] = address[e] \/ address[e] = 0

LEMMA MovesLast ==
  ASSUME Types, Ledger, NEW w \in Workers, Moves(w)
  PROVE  Lasts
<1>1. \A e \in Entities : OwnId(e) /\ Found(e) # 0 =>
        Found(e)' # 0 /\ (e \notin Natural \cup loose => Found(e)' = Found(e))
  BY FoundStays
<1>2. loose \subseteq loose'
  BY MovesOne
<1>3. CASE Opens(w) \/ Leaves(w) \/ Loads(w) \/ Keeps(w) \/ Passes(w) \/ Settles(w) \/ Finds(w)
  BY <1>1, <1>2, <1>3 DEF Opens, Leaves, Loads, Keeps, Passes, Settles, Finds, SameStore, Lasts
<1>4. CASE GoesOn(w) \/ Posts(w) \/ Saves(w)
  BY <1>1, <1>2, <1>4 DEF GoesOn, Posts, Saves, Lasts
<1>5. QED
  BY <1>3, <1>4 DEF Moves

LEMMA RestLasts ==
  ASSUME Rest
  PROVE  Lasts
<1>1. \A e \in Entities : Found(e)' = Found(e)
  BY FoundSame DEF Rest
<1>2. QED
  BY <1>1 DEF Rest, Kept, Lasts

LEMMA CompleteLasts ==
  ASSUME Lasts, NEW p, Complete(p)
  PROVE  Complete(p)'
  BY DEF Lasts, Complete, Findable, OwnId

LEMMA CoveredLasts ==
  ASSUME Lasts, Complete(4), NEW list, Covered(list)
  PROVE  Covered(list)'
<1>1. SUFFICES ASSUME NEW e \in Addressless \ loose', OwnId(e), address'[e] # Found(e)'
               PROVE  e \in list
  BY DEF Covered, OwnId
<1>2. e \in Entities /\ e \notin Natural /\ Phase[e] = 2 /\ e \notin loose
  BY <1>1 DEF Addressless, Lasts
<1>3. Found(e) # 0
  BY <1>1, <1>2 DEF Complete, Findable
<1>4. Found(e)' = Found(e)
  BY <1>1, <1>2, <1>3 DEF Lasts
<1>5. address[e] # Found(e)
  BY <1>1, <1>2, <1>3, <1>4 DEF Lasts
<1>6. QED
  BY <1>1, <1>2, <1>5 DEF Covered

LEMMA FinishedLasts ==
  ASSUME Lasts, NEW list, Finished(list)
  PROVE  Finished(list)'
<1>1. Complete(4)' /\ Covered(list)'
  BY CompleteLasts, CoveredLasts DEF Finished
<1>2. AllPlaced'
  BY DEF Finished, AllPlaced, Lasts, Findable, OwnId, Work
<1>3. QED
  BY <1>1, <1>2 DEF Finished

(* A phase that is worked off is complete.                                   *)
LEMMA PhaseIn ==
  ASSUME Types, Ledger, Progress, NEW w \in Workers,
         worker[w].pc \in {"after", "advance", "settle", "finish"}
  PROVE  Complete(NextPhase(worker[w].phase)) /\ (worker[w].phase = 4 => AllPlaced)
<1>1. /\ Loaded(w) /\ worker[w].todo = {} /\ worker[w].pending = {} /\ worker[w].phase \in 1 .. 4
      /\ Complete(worker[w].phase) /\ Knows(w) /\ Worked(w)
  BY DEF Loaded, LoadedStages, Ledger, Books, Emptied, AtWork, Progress, Begun, Types, WorkerRecs,
         Phases
<1>2. CASE worker[w].phase = 4
  BY <1>1, <1>2 DEF NextPhase, AllPlaced, Worked
<1>3. CASE worker[w].phase # 4
  <2>1. SUFFICES ASSUME NEW e \in Entities, Findable(e), Phase[e] < worker[w].phase + 1
                 PROVE  Found(e) # 0
    BY <1>3 DEF Complete, NextPhase
  <2>2. Phase[e] \in 1 .. 3
    BY SourceAssumption
  <2>3. CASE Phase[e] < worker[w].phase
    BY <1>1, <2>1, <2>3 DEF Complete
  <2>4. CASE Phase[e] = worker[w].phase
    <3>1. worker[w].known[e] # 0
      BY <1>1, <1>3, <2>1, <2>4 DEF Worked, Work
    <3>2. QED
      BY <1>1, <2>1, <3>1 DEF Knows, Findable
  <2>5. QED
    BY <1>1, <2>1, <2>2, <2>3, <2>4
<1>4. QED
  BY <1>2, <1>3

(* Those who do not move.                                                    *)
LEMMA ProgressOthers ==
  ASSUME Progress, Lasts, NEW v \in Workers, worker'[v] = worker[v]
  PROVE  Begun(v)' /\ Knows(v)' /\ Worked(v)' /\ Listed(v)'
<1>0. Begun(v) /\ Knows(v) /\ Worked(v) /\ Listed(v)
  BY DEF Progress
<1>1. Begun(v)'
  <2>1. PICK p : p = worker[v].phase
    OBVIOUS
  <2>2. worker[v].pc # "idle" => Complete(p)'
    BY <1>0, <2>1, CompleteLasts DEF Begun
  <2>3. QED
    BY <2>1, <2>2 DEF Begun
<1>2. Knows(v)'
  BY <1>0 DEF Knows, Loaded, Lasts, Findable, OwnId
<1>3. Worked(v)'
  BY <1>0 DEF Worked, Loaded, Lasts, Findable, OwnId, Work
<1>4. Listed(v)'
  <2>1. PICK list : list = worker[v].list
    OBVIOUS
  <2>2. worker[v].pc = "finish" => worker[v].phase = 4 /\ Covered(list) /\ Complete(4)
    BY <1>0, <2>1 DEF Listed, Begun
  <2>3. worker[v].pc = "finish" => Covered(list)'
    BY <2>2, CoveredLasts
  <2>4. QED
    BY <2>1, <2>2, <2>3 DEF Listed
<1>5. QED
  BY <1>1, <1>2, <1>3, <1>4

(* Who moves on in his phase.                                                *)
LEMMA BegunKept ==
  ASSUME Progress, Lasts, NEW w \in Workers, worker[w].pc # "idle", worker'[w].phase = worker[w].phase
  PROVE  Begun(w)'
<1>1. PICK p : p = worker[w].phase
  OBVIOUS
<1>2. Complete(p)
  BY <1>1 DEF Progress, Begun
<1>3. Complete(p)'
  BY <1>2, CompleteLasts
<1>4. QED
  BY <1>1, <1>3 DEF Begun

LEMMA KnowsKept ==
  ASSUME Progress, Lasts, NEW w \in Workers, Loaded(w), worker'[w].phase = worker[w].phase,
         \A e \in Entities : worker[w].known[e] # 0 => worker'[w].known[e] # 0,
         \A e \in Entities : worker[w].known[e] = 0 /\ worker'[w].known[e] # 0 =>
            e \in worker'[w].pending,
         \A e \in worker[w].pending \ worker'[w].pending : OwnId(e) => Found(e)' # 0,
         worker[w].armed => worker'[w].armed
  PROVE  Knows(w)'
<1>1. /\ \A e \in Entities : Findable(e) /\ Phase[e] < worker[w].phase => worker[w].known[e] # 0
      /\ \A e \in Entities : OwnId(e) /\ worker[w].known[e] # 0 /\ e \notin worker[w].pending =>
           Found(e) # 0
      /\ worker[w].phase = 4 => worker[w].armed
  BY DEF Progress, Knows
<1>2. ASSUME NEW e \in Entities, OwnId(e), worker'[w].known[e] # 0, e \notin worker'[w].pending
      PROVE  Found(e)' # 0
  <2>1. worker[w].known[e] # 0
    BY <1>2
  <2>2. QED
    BY <1>1, <1>2, <2>1 DEF Lasts
<1>3. QED
  BY <1>1, <1>2 DEF Knows, Findable, OwnId

LEMMA WorkedKept ==
  ASSUME Progress, Lasts, NEW w \in Workers, Loaded(w), worker'[w].phase = worker[w].phase,
         \A e \in Entities : worker[w].known[e] # 0 => worker'[w].known[e] # 0,
         \A e \in worker[w].todo \ worker'[w].todo : Findable(e) =>
            IF worker[w].phase = 4 THEN e \in placed' ELSE worker'[w].known[e] # 0
  PROVE  Worked(w)'
<1>1. Worked(w) /\ Loaded(w)
  BY DEF Progress
<1>2. \A e \in Work(worker[w].phase) : e \in Entities
  BY DEF Work
<1>3. SUFFICES ASSUME NEW e \in Work(worker[w].phase), e \notin worker'[w].todo, Findable(e)
               PROVE  IF worker[w].phase = 4 THEN e \in placed' ELSE worker'[w].known[e] # 0
  BY DEF Worked, Findable, OwnId, Work
<1>4. CASE e \in worker[w].todo
  BY <1>3, <1>4
<1>5. CASE e \notin worker[w].todo
  BY <1>1, <1>2, <1>3, <1>5 DEF Worked, Lasts
<1>6. QED
  BY <1>4, <1>5

LEMMA ProgressLeft ==
  ASSUME NEW w \in Workers, worker'[w].pc \notin LoadedStages
  PROVE  Knows(w)' /\ Worked(w)' /\ Listed(w)'
  BY DEF Knows, Worked, Listed, Loaded, LoadedStages

LEMMA ProgressLoads ==
  ASSUME Types, Progress, Lasts, NEW w \in Workers, Loads(w)
  PROVE  Begun(w)' /\ Knows(w)' /\ Worked(w)' /\ Listed(w)'
<1>1. /\ worker[w].pc = "load" /\ worker'[w].pc = "before" /\ worker'[w].phase = worker[w].phase
      /\ worker'[w].todo = Work(worker[w].phase) /\ worker'[w].armed = Armed(worker[w].phase)
      /\ \A e \in Entities : worker'[w].known[e] = Found(e)
      /\ newest' = newest
  BY DEF Loads, Goes, SameStore
<1>2. Begun(w)'
  BY <1>1, BegunKept
<1>3. Complete(worker[w].phase)
  BY <1>1 DEF Progress, Begun
<1>4. \A e \in Entities : Found(e)' = Found(e)
  BY <1>1, FoundSame
<1>5. ASSUME worker'[w].phase = 4 PROVE worker'[w].armed
  <2>1. Armed(worker[w].phase)
    BY <1>1, <1>5 DEF Armed
  <2>2. worker'[w].armed = Armed(worker[w].phase)
    BY <1>1
  <2>3. QED
    BY <2>1, <2>2, Zenon
<1>6. Knows(w)'
  <2>1. \A e \in Entities : Findable(e) /\ Phase[e] < worker[w].phase => worker'[w].known[e] # 0
    BY <1>1, <1>3 DEF Complete
  <2>2. \A e \in Entities : worker'[w].known[e] # 0 => Found(e)' # 0
    BY <1>1, <1>4
  <2>3. QED
    BY <1>1, <1>5, <2>1, <2>2 DEF Knows, Findable, OwnId
<1>7. Worked(w)' /\ Listed(w)'
  BY <1>1 DEF Worked, Listed, Work
<1>8. QED
  BY <1>2, <1>6, <1>7

(* A session that has nobody to submit it is not one that can be found.      *)
LEMMA SubmitterKnown ==
  ASSUME Progress, NEW w \in Workers, Loaded(w), NEW e \in Entities, e \in Work(worker[w].phase),
         worker[w].phase = 3, Findable(e)
  PROVE  \E s \in Cast[e] : worker[w].known[s] # 0
<1>1. Phase[e] = 3
  BY DEF Work
<1>2. PICK s \in Cast[e] : OwnId(s)
  BY <1>1 DEF Findable
<1>3. s \in Entities /\ Phase[s] = 2
  <2>1. Cast[e] \subseteq {d \in Entities : Phase[d] = 2}
    BY <1>1, SourceAssumption
  <2>2. QED
    BY <1>2, <2>1
<1>4. Findable(s) /\ Phase[s] < worker[w].phase
  BY <1>2, <1>3 DEF Findable
<1>5. Knows(w)
  BY DEF Progress
<1>6. QED
  BY <1>2, <1>3, <1>4, <1>5 DEF Knows

LEMMA ProgressGoesOn ==
  ASSUME Types, Progress, Lasts, NEW w \in Workers, GoesOn(w)
  PROVE  Begun(w)' /\ Knows(w)' /\ Worked(w)' /\ Listed(w)'
<1>1. PICK e : e = Current(w)
  OBVIOUS
<1>2. /\ worker[w].pc = "work" /\ worker'[w].pc = "work" /\ worker'[w].phase = worker[w].phase
      /\ e \in Work(worker[w].phase)
      /\ worker[w].phase = 4 \/ worker[w].known[e] # 0 \/ NoSubmitter(w)
      /\ worker'[w].todo = worker[w].todo \ {e} /\ worker'[w].pending = worker[w].pending
      /\ worker'[w].known = worker[w].known /\ worker'[w].armed = worker[w].armed
      /\ worker[w].phase = 4 /\ worker[w].known[e] # 0 => e \in placed'
  BY <1>1 DEF GoesOn, Goes, Hands
<1>3. Loaded(w) /\ e \in Entities
  BY <1>2 DEF Loaded, LoadedStages, Work
<1>4. Begun(w)' /\ Knows(w)' /\ Listed(w)'
  BY <1>2, <1>3, BegunKept, KnowsKept DEF Listed
<1>5. ASSUME Findable(e)
      PROVE  IF worker[w].phase = 4 THEN e \in placed' ELSE worker'[w].known[e] # 0
  <2>1. CASE worker[w].phase = 4
    <3>1. Phase[e] < worker[w].phase
      BY <1>2, <2>1 DEF Work
    <3>2. worker[w].known[e] # 0
      BY <1>3, <1>5, <3>1 DEF Progress, Knows
    <3>3. QED
      BY <1>2, <2>1, <3>2
  <2>2. CASE worker[w].phase # 4
    <3>1. ~ NoSubmitter(w)
      BY <1>1, <1>2, <1>3, <1>5, SubmitterKnown DEF NoSubmitter
    <3>2. QED
      BY <1>2, <2>2, <3>1
  <2>3. QED
    BY <2>1, <2>2
<1>6. Worked(w)'
  <2>1. \A d \in worker[w].todo \ worker'[w].todo : d = e
    BY <1>2
  <2>2. \A d \in Entities : worker[w].known[d] # 0 => worker'[w].known[d] # 0
    BY <1>2
  <2>3. QED
    BY <1>2, <1>3, <1>5, <2>1, <2>2, WorkedKept
<1>7. QED
  BY <1>4, <1>6

(* One more in hand.                                                         *)
LEMMA ProgressTakes ==
  ASSUME Types, Progress, Lasts, NEW w \in Workers, NEW e \in Entities, NEW id \in Nat \ {0},
         Takes(w, e, id), worker[w].pc \in {"work", "post"}, worker'[w].pc \in {"map", "work"},
         worker'[w].phase = worker[w].phase, worker[w].phase # 4
  PROVE  Begun(w)' /\ Knows(w)' /\ Worked(w)' /\ Listed(w)'
<1>1. /\ worker'[w].known[e] # 0 /\ \A d \in Entities \ {e} : worker'[w].known[d] = worker[w].known[d]
      /\ worker'[w].pending = worker[w].pending \cup {e} /\ worker'[w].armed = worker[w].armed
      /\ worker'[w].todo = worker[w].todo \ {e}
  BY DEF Takes, Hands
<1>2. Loaded(w)
  BY DEF Loaded, LoadedStages
<1>3. \A d \in Entities : worker[w].known[d] # 0 => worker'[w].known[d] # 0
  BY <1>1
<1>4. Begun(w)' /\ Knows(w)' /\ Listed(w)'
  BY <1>1, <1>2, <1>3, BegunKept, KnowsKept DEF Listed
<1>5. \A d \in worker[w].todo \ worker'[w].todo : d = e
  BY <1>1
<1>6. Worked(w)'
  BY <1>1, <1>2, <1>3, <1>5, WorkedKept
<1>7. QED
  BY <1>4, <1>6

LEMMA ProgressSaves ==
  ASSUME Types, Progress, Lasts, NEW w \in Workers, Writes(w), worker'[w].pc = "work",
         worker'[w].phase = worker[w].phase, worker'[w].todo = worker[w].todo,
         worker'[w].known = worker[w].known, worker'[w].armed = worker[w].armed
  PROVE  Begun(w)' /\ Knows(w)' /\ Worked(w)' /\ Listed(w)'
<1>1. Loaded(w)
  BY DEF Writes, Loaded, LoadedStages
<1>2. \A e \in worker[w].pending : OwnId(e) => Found(e)' # 0
  BY InHandKnown, SavedFound DEF Writes
<1>3. Begun(w)'
  BY BegunKept DEF Writes
<1>4. Knows(w)'
  BY <1>1, <1>2, KnowsKept
<1>5. Worked(w)' /\ Listed(w)'
  BY <1>1, WorkedKept DEF Listed
<1>6. QED
  BY <1>3, <1>4, <1>5

(* The list is settled with everybody who cannot be written to on it.        *)
LEMMA ProgressSettles ==
  ASSUME Types, Ledger, Progress, Lasts, NEW w \in Workers, Settles(w)
  PROVE  Begun(w)' /\ Knows(w)' /\ Worked(w)' /\ Listed(w)'
<1>1. /\ worker[w].pc = "settle" /\ worker'[w].pc = "finish" /\ worker[w].phase = 4
      /\ worker'[w].phase = worker[w].phase /\ worker'[w].todo = worker[w].todo
      /\ worker'[w].pending = worker[w].pending /\ worker'[w].known = worker[w].known
      /\ worker'[w].armed = worker[w].armed
  BY DEF Settles, Hands, Goes
<1>2. /\ Loaded(w) /\ worker[w].pending = {}
  BY <1>1 DEF Loaded, LoadedStages, Ledger, Books, Emptied, AtWork
<1>3. Begun(w)' /\ Knows(w)' /\ Worked(w)'
  BY <1>1, <1>2, BegunKept, KnowsKept, WorkedKept
<1>4. PICK list : list = Settled(w)
  OBVIOUS
<1>5. worker'[w].list = list
  BY <1>4 DEF Settles, Hands
<1>6. Covered(list)
  <2>1. SUFFICES ASSUME NEW e \in Addressless \ loose, OwnId(e), address[e] # Found(e)
                 PROVE  e \in list
    BY DEF Covered
  <2>2. e \in Entities /\ e \notin Natural /\ Phase[e] = 2
    BY <2>1 DEF Addressless
  <2>3. Knows(w) /\ Exact(w)
    BY DEF Progress, Ledger, Books
  <2>4. worker[w].known[e] # 0 /\ worker[w].armed
    BY <1>1, <1>2, <2>1, <2>2, <2>3 DEF Knows, Findable
  <2>5. worker[w].known[e] = Found(e)
    BY <1>2, <2>1, <2>2, <2>3, <2>4 DEF Exact
  <2>6. list = Derived(w)
    BY <1>4, <2>4 DEF Settled
  <2>7. QED
    BY <2>1, <2>4, <2>5, <2>6 DEF Derived
<1>7. Complete(4)
  BY <1>1 DEF Progress, Begun
<1>8. Covered(list)'
  BY <1>6, <1>7, CoveredLasts
<1>9. QED
  BY <1>1, <1>3, <1>5, <1>8 DEF Listed

LEMMA ProgressMover ==
  ASSUME Types, Ledger, Progress, Lasts, NEW w \in Workers, Moves(w)
  PROVE  Begun(w)' /\ Knows(w)' /\ Worked(w)' /\ Listed(w)'
<1>1. CASE Opens(w)
  <2>1. PICK r \in Runs : worker'[w].phase = run[r].phase
    BY <1>1 DEF Opens
  <2>2. PICK p : p = run[r].phase
    OBVIOUS
  <2>3. Complete(p)
    BY <2>2 DEF Progress
  <2>4. Begun(w)'
    BY <2>1, <2>2, <2>3, CompleteLasts DEF Begun
  <2>5. QED
    BY <1>1, <2>4, ProgressLeft DEF Opens, LoadedStages
<1>2. CASE Leaves(w)
  <2>1. CASE worker'[w].pc = "idle"
    BY <1>2, <2>1, ProgressLeft DEF Leaves, Begun
  <2>2. CASE worker'[w].phase = worker[w].phase
    BY <1>2, <2>2, BegunKept, ProgressLeft DEF Leaves
  <2>3. QED
    BY <1>2, <2>1, <2>2 DEF Leaves
<1>3. CASE Loads(w)
  BY <1>3, ProgressLoads
<1>4. CASE Keeps(w)
  <2>1. Loaded(w) /\ worker[w].pc # "idle" /\ worker'[w].pc # "finish"
        /\ worker'[w].phase = worker[w].phase /\ SameHand(w)
    BY <1>4 DEF Keeps, Ways, Loaded, LoadedStages, Goes
  <2>2. QED
    BY <2>1, BegunKept, KnowsKept, WorkedKept DEF SameHand, Listed
<1>5. CASE Passes(w)
  <2>1. /\ Loaded(w) /\ worker[w].pc # "idle" /\ worker'[w].pc # "finish"
        /\ worker'[w].phase = worker[w].phase /\ worker'[w].todo = worker[w].todo
        /\ worker'[w].pending = worker[w].pending /\ worker'[w].known = worker[w].known
        /\ worker[w].armed => worker'[w].armed
    BY <1>5 DEF Passes, Hands, Loaded, LoadedStages, Goes
  <2>2. QED
    BY <2>1, BegunKept, KnowsKept, WorkedKept DEF Listed
<1>6. CASE Settles(w)
  BY <1>6, ProgressSettles
<1>7. CASE GoesOn(w)
  BY <1>7, ProgressGoesOn
<1>8. CASE Finds(w)
  <2>1. Current(w) \in Natural /\ Takes(w, Current(w), 1)
    BY <1>8 DEF Finds
  <2>2. Current(w) \in Entities
    BY <2>1, SourceAssumption
  <2>3. PICK e, id : e = Current(w) /\ id = 1
    OBVIOUS
  <2>4. e \in Entities /\ id \in Nat \ {0} /\ Takes(w, e, id)
    BY <2>1, <2>2, <2>3
  <2>5. /\ worker[w].pc \in {"work", "post"} /\ worker'[w].pc \in {"map", "work"}
        /\ worker'[w].phase = worker[w].phase /\ worker[w].phase # 4
    BY <1>8 DEF Finds, Goes
  <2>6. QED
    BY <2>4, <2>5, ProgressTakes
<1>9. CASE Posts(w)
  <2>1. PICK e, id : e = Current(w) /\ id = records[e] + 1
    OBVIOUS
  <2>2. /\ e \in Entities /\ worker[w].pc \in {"work", "post"} /\ worker[w].phase # 4
        /\ \/ Goes(w, {"map", "work"}) /\ Takes(w, e, id)
           \/ Goes(w, {"caught"})
           \/ worker' = worker
    BY <1>9, <2>1 DEF Posts
  <2>3. id \in Nat \ {0}
    BY <2>1, <2>2 DEF Types, StoreTypes
  <2>4. CASE Goes(w, {"map", "work"}) /\ Takes(w, e, id)
    <3>1. worker'[w].pc \in {"map", "work"} /\ worker'[w].phase = worker[w].phase
      BY <2>4 DEF Goes
    <3>2. QED
      BY <2>2, <2>3, <2>4, <3>1, ProgressTakes
  <2>5. CASE Goes(w, {"caught"})
    BY <2>2, <2>5, BegunKept, ProgressLeft DEF Goes, LoadedStages
  <2>6. CASE worker' = worker
    BY <2>6, ProgressOthers
  <2>7. QED
    BY <2>2, <2>4, <2>5, <2>6
<1>10. CASE Saves(w)
  <2>1. CASE Goes(w, {"caught"})
    BY <1>10, <2>1, BegunKept, ProgressLeft DEF Saves, Goes, LoadedStages
  <2>2. CASE ~ Goes(w, {"caught"})
    <3>1. /\ Writes(w) /\ worker'[w].pc = "work" /\ worker'[w].phase = worker[w].phase
          /\ worker'[w].todo = worker[w].todo /\ worker'[w].known = worker[w].known
          /\ worker'[w].armed = worker[w].armed
      BY <1>10, <2>2 DEF Saves, Writes, Goes, Hands
    <3>2. QED
      BY <3>1, ProgressSaves
  <2>3. QED
    BY <2>1, <2>2
<1>11. QED
  BY <1>1, <1>2, <1>3, <1>4, <1>5, <1>6, <1>7, <1>8, <1>9, <1>10 DEF Moves

(* The checkpoint names a phase that is complete; a run is done with a list  *)
(* that covers everybody.                                                    *)
LEMMA ProgressRows ==
  ASSUME Types, Ledger, Progress, Lasts, RowsDo, NEW r \in Runs
  PROVE  Complete(run[r].phase)' /\ (run'[r].status = "done" => Finished(run[r].list)')
<1>1. PICK p, list : p = run'[r].phase /\ list = run'[r].list
  OBVIOUS
<1>2. Complete(p)
  <2>1. CASE run'[r].phase = run[r].phase
    BY <1>1, <2>1 DEF Progress
  <2>2. CASE \E w \in Workers : worker[w].pc = "advance" /\ run'[r].phase = NextPhase(worker[w].phase)
    BY <1>1, <2>2, PhaseIn
  <2>3. QED
    BY <2>1, <2>2 DEF RowsDo
<1>3. Complete(p)'
  BY <1>2, CompleteLasts
<1>4. run'[r].status = "done" => Finished(list)
  <2>1. CASE run[r].status = "done" /\ run'[r].list = run[r].list
    BY <1>1, <2>1 DEF Progress
  <2>2. ASSUME NEW w \in Workers, worker[w].pc = "finish", run'[r].list = worker[w].list
        PROVE  Finished(list)
    <3>1. worker[w].phase = 4 /\ Covered(list) /\ Complete(4)
      BY <1>1, <2>2 DEF Progress, Listed, Begun
    <3>2. AllPlaced
      BY <2>2, <3>1, PhaseIn
    <3>3. QED
      BY <3>1, <3>2 DEF Finished
  <2>3. QED
    BY <2>1, <2>2 DEF RowsDo
<1>5. run'[r].status = "done" => Finished(list)'
  BY <1>4, FinishedLasts
<1>6. QED
  BY <1>1, <1>3, <1>5

LEMMA ProgressStep ==
  ASSUME Types, Ledger, Progress, [Next]_vars
  PROVE  Progress'
<1>1. Lasts
  BY Moving, MovesLast, RestLasts
<1>2. \A r \in Runs : Complete(run[r].phase)' /\ (run'[r].status = "done" => Finished(run[r].list)')
  BY <1>1, RowsStep, ProgressRows
<1>3. CASE Rest
  <2>1. \A v \in Workers : worker'[v] = worker[v]
    BY <1>3 DEF Rest
  <2>2. QED
    BY <1>1, <1>2, <2>1, ProgressOthers DEF Progress
<1>4. ASSUME NEW w \in Workers, Moves(w) PROVE Progress'
  <2>1. \A v \in Workers \ {w} : worker'[v] = worker[v]
    BY <1>4, MovesOne
  <2>2. \A v \in Workers : Begun(v)' /\ Knows(v)' /\ Worked(v)' /\ Listed(v)'
    BY <1>1, <1>4, <2>1, ProgressMover, ProgressOthers
  <2>3. QED
    BY <1>2, <2>2 DEF Progress
<1>5. QED
  BY <1>3, <1>4, Moving

LEMMA ProgressDone ==
  ASSUME Progress
  PROVE  DoneIsComplete
<1> SUFFICES ASSUME NEW r \in Runs, run[r].status = "done"
             PROVE  /\ \A e \in Entities : OwnId(e) /\ (Phase[e] = 3 => \E s \in Cast[e] : OwnId(s)) =>
                         Found(e) # 0 /\ (Phase[e] = 3 => e \in placed)
                    /\ \A e \in Addressless \ loose :
                         OwnId(e) /\ address[e] # Found(e) => e \in run[r].list
  BY DEF DoneIsComplete
<1>1. Complete(4) /\ Covered(run[r].list) /\ AllPlaced
  BY DEF Progress, Finished
<1>2. ASSUME NEW e \in Entities, Findable(e)
      PROVE  Found(e) # 0 /\ (Phase[e] = 3 => e \in placed)
  <2>1. Phase[e] \in 1 .. 3
    BY SourceAssumption
  <2>2. QED
    BY <1>1, <1>2, <2>1 DEF Complete, AllPlaced, Work
<1>3. QED
  BY <1>1, <1>2 DEF Findable, Covered

(* A run that is done has mapped everything that can be found again, placed  *)
(* every session, and put on its list whom nobody could write to (run.ts     *)
(* checkpoints a phase after it, needsEmailFrom derives the list from the    *)
(* ledger): for any source and any number of runs, invocations and faults,   *)
(* whoever overtook whom.                                                    *)
THEOREM DoneRunsAreComplete == Spec => []DoneIsComplete
<1>1. Types /\ Ledger /\ Progress /\ [Next]_vars => Types' /\ Ledger' /\ Progress'
  BY NextTypes, LedgerStep, ProgressStep
<1>2. Init => Types /\ Ledger /\ Progress
  BY InitTypes, InitLedger, InitProgress
<1>3. Progress => DoneIsComplete
  BY ProgressDone
<1>4. QED
  BY <1>1, <1>2, <1>3, PTL DEF Spec

-----------------------------------------------------------------------------
(***************************************************************************)
(* The guard the runs are claimed from, as a service of its own: what it   *)
(* promises, proved for every set of callers, every set of lease lengths   *)
(* and every alarm slack.  LeaseExclusion is not inductive: that nobody    *)
(* else is granted a key while a promise runs needs the record behind the  *)
(* promise to be there, and that it stays there needs the alarm to come    *)
(* later.  So the induction carries all three.                             *)
(***************************************************************************)
GuardInv == GuardTypeOK /\ PromiseKept /\ AlarmOutlivesClaim

(* The initial state satisfies the inductive invariant: nothing is stored,  *)
(* promised or scheduled.                                                    *)
LEMMA InitGuardInv == GuardInit => GuardInv
  BY DEF GuardInit, GuardInv, GuardTypeOK, PromiseKept, AlarmOutlivesClaim, Claims, NoClaim, Live

(* Every request, alarm and tick preserves the inductive invariant.          *)
LEMMA NextGuardInv == GuardInv /\ [GuardNext]_guardVars => GuardInv'
<1> SUFFICES ASSUME GuardInv, [GuardNext]_guardVars PROVE GuardInv'
  OBVIOUS
<1> USE NoHolderAssumption, TtlsAssumption, AlarmSlackAssumption, NoAlarmAssumption
<1>1. ASSUME NEW h \in Holders, ClaimHeld(h) PROVE GuardInv'
  BY <1>1 DEF GuardInv, GuardTypeOK, PromiseKept, AlarmOutlivesClaim, ClaimHeld, Answer,
     Claims, NoClaim, Live, Grants
<1>2. ASSUME NEW h \in Holders, Release(h) PROVE GuardInv'
  BY <1>2 DEF GuardInv, GuardTypeOK, PromiseKept, AlarmOutlivesClaim, Release, AfterRelease,
     Releases, Claims, NoClaim, Live
<1>3. ASSUME NEW h \in Holders, NEW ttl \in Ttls, ClaimFree(h, ttl) PROVE GuardInv'
  BY <1>3 DEF GuardInv, GuardTypeOK, PromiseKept, AlarmOutlivesClaim, ClaimFree, Answer,
     AfterClaim, Claims, NoClaim, Live
<1>4. ASSUME NEW h \in Holders, NEW ttl \in Ttls, ClaimCutShort(h, ttl) PROVE GuardInv'
  BY <1>4 DEF GuardInv, GuardTypeOK, PromiseKept, AlarmOutlivesClaim, ClaimCutShort,
     AfterClaim, Claims, NoClaim, Live
<1>5. CASE Alarm
  BY <1>5 DEF GuardInv, GuardTypeOK, PromiseKept, AlarmOutlivesClaim, Alarm, Claims, NoClaim, Live
<1>6. CASE GuardTick
  BY <1>6 DEF GuardInv, GuardTypeOK, PromiseKept, AlarmOutlivesClaim, GuardTick, Aged, Less,
     Claims, NoClaim, Live
<1>7. CASE UNCHANGED guardVars
  BY <1>7 DEF GuardInv, GuardTypeOK, PromiseKept, AlarmOutlivesClaim, guardVars, Live
<1>8. QED
  BY <1>1, <1>2, <1>3, <1>4, <1>5, <1>6, <1>7 DEF GuardNext

(* A promise names the record's holder, so two promises name one holder.     *)
LEMMA GuardExclusion == GuardInv => LeaseExclusion
  BY DEF GuardInv, GuardTypeOK, PromiseKept, LeaseExclusion

(* Every reachable state satisfies the inductive invariant.                  *)
THEOREM GuardInvariance == GuardSpec => []GuardInv
  BY InitGuardInv, NextGuardInv, PTL DEF GuardSpec

(* The guard's variables keep their types.                                   *)
THEOREM GuardTypeCorrect == GuardSpec => []GuardTypeOK
  BY GuardInvariance, PTL DEF GuardInv

(* claimOnce never has two callers inside a lease it told them they hold.    *)
THEOREM Exclusion == GuardSpec => []LeaseExclusion
  BY GuardInvariance, GuardExclusion, PTL

(* A promised lease is on record to the tick, and its alarm comes after it.  *)
THEOREM PromisesAreKept == GuardSpec => []PromiseKept
  BY GuardInvariance, PTL DEF GuardInv

(* No alarm set for an earlier record clears one somebody may rely on.       *)
THEOREM AlarmsComeLate == GuardSpec => []AlarmOutlivesClaim
  BY GuardInvariance, PTL DEF GuardInv

-----------------------------------------------------------------------------
(* A promise passes from one holder to another only through a state in which *)
(* nobody has one.                                                           *)
LEMMA PromiseStays ==
  ASSUME GuardInv, [GuardNext]_guardVars, NEW g \in Holders, promised[g] > 0,
         NEW h \in Holders, promised'[h] > 0
  PROVE  g = h
<1>1. promised \in [Holders -> Nat] /\ stored.holder = g /\ Live(stored)
  BY DEF GuardInv, GuardTypeOK, PromiseKept, Live
<1>2. CASE promised[h] > 0
  BY <1>1, <1>2 DEF GuardInv, PromiseKept
<1>3. CASE ~ (promised[h] > 0)
  <2>1. ASSUME NEW f \in Holders, ClaimHeld(f)
        PROVE  g = h
    BY <1>1, <1>3, <2>1 DEF ClaimHeld, Answer, Grants
  <2>2. ASSUME NEW f \in Holders, Release(f)
        PROVE  g = h
    BY <1>1, <1>3, <2>2 DEF Release
  <2>3. ASSUME NEW f \in Holders, NEW ttl \in Ttls, ClaimFree(f, ttl) \/ ClaimCutShort(f, ttl)
        PROVE  g = h
    BY <1>1, <2>3 DEF ClaimFree, ClaimCutShort
  <2>4. CASE Alarm \/ UNCHANGED guardVars
    BY <1>3, <2>4 DEF Alarm, guardVars
  <2>5. CASE GuardTick
    BY <1>1, <1>3, <2>5 DEF GuardTick, Less
  <2>6. QED
    BY <2>1, <2>2, <2>3, <2>4, <2>5 DEF GuardNext
<1>4. QED
  BY <1>2, <1>3

(***************************************************************************)
(* The guard implements the abstract lease: whatever is lost, repeated,    *)
(* cut short or late, its key has one owner at a time and never changes    *)
(* hands without having been free.                                         *)
(***************************************************************************)
THEOREM GuardIsALease == GuardSpec => ImplementsLease
<1>1. GuardInv => \/ Owner = NoHolder /\ \A h \in Holders : ~ (promised[h] > 0)
                  \/ Owner \in Holders /\ promised[Owner] > 0
  BY DEF Owner
<1>2. GuardInit => L!Init
  BY DEF GuardInit, L!Init, Owner
<1>3. GuardInv /\ GuardInv' /\ [GuardNext]_guardVars => [L!Next]_([k \in {"key"} |-> Owner])
  <2> SUFFICES ASSUME GuardInv, GuardInv', [GuardNext]_guardVars
               PROVE  L!Next
    OBVIOUS
  <2>1. (GuardInv => \/ Owner = NoHolder /\ \A h \in Holders : ~ (promised[h] > 0)
                     \/ Owner \in Holders /\ promised[Owner] > 0)'
    BY DEF Owner
  <2>2. Owner = Owner' \/ Owner = NoHolder \/ Owner' = NoHolder
    BY <1>1, <2>1, PromiseStays
  <2>3. Owner \in Holders \cup {NoHolder} /\ Owner' \in Holders \cup {NoHolder}
    BY <1>1, <2>1
  <2> HIDE DEF Owner
  <2>4. QED
    BY <2>2, <2>3 DEF L!Next, L!Keep, L!GiveUp, L!Acquire
<1>4. QED
  BY <1>2, <1>3, GuardInvariance, PTL DEF GuardSpec, ImplementsLease, L!Spec
=============================================================================
