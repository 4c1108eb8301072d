----------------------------- MODULE ClaimGuard -----------------------------
(***************************************************************************)
(* The ClaimGuard Durable Object behind one key, with its callers.         *)
(*                                                                         *)
(* The object runs one request at a time (the platform's input gate), so a *)
(* request is one step.  What is not atomic with it is the caller: a       *)
(* request can be handled and its answer lost, in which case claimOnce     *)
(* throws, the caller does not proceed, and that holder (a fresh uuid of   *)
(* its run) is never used again; releaseClaim swallows every failure.  The *)
(* put and the setAlarm of one claim are two writes, and the object can    *)
(* die between them.                                                       *)
(*                                                                         *)
(* promised[h] is a history variable: the time left on the lease that      *)
(* holder h was TOLD it holds.                                             *)
(*                                                                         *)
(* The names every module has say Guard here, so that another module can   *)
(* EXTEND this one beside its own component.                               *)
(***************************************************************************)
EXTENDS ClaimKey

CONSTANTS Ttls,        \* the lease lengths callers ask for
          AlarmSlack,  \* the 60 seconds setAlarm adds to the expiry
          NoAlarm      \* stands for the absence of a scheduled alarm

ASSUME TtlsAssumption == Ttls \subseteq Nat \ {0}
ASSUME AlarmSlackAssumption == AlarmSlack \in Nat
ASSUME NoAlarmAssumption == NoAlarm \notin Nat

VARIABLES stored,     \* the record in the object's storage
          alarm,      \* time left until the scheduled alarm, or NoAlarm
          promised,   \* [Holders -> time left on the lease it was told of]
          failed      \* holders whose claimOnce threw

guardVars == <<stored, alarm, promised, failed>>

GuardTypeOK ==
    /\ stored \in Claims
    /\ alarm \in Nat \cup {NoAlarm}
    /\ promised \in [Holders -> Nat]
    /\ failed \subseteq Holders

GuardInit ==
    /\ stored = NoClaim
    /\ alarm = NoAlarm
    /\ promised = [h \in Holders |-> 0]
    /\ failed = {}

\* What the caller learns: claimOnce returns the verdict or throws.
Answer(h, left) ==
    \/ /\ promised' = [promised EXCEPT ![h] = left]
       /\ UNCHANGED failed
    \/ /\ failed' = failed \cup {h}
       /\ UNCHANGED promised

\* Mutant of ClaimHeld: a repeat claim renews the lease.
ClaimRenewed(h) ==
    /\ h \notin failed
    /\ Live(stored)
    /\ IF Grants(stored, h)
         THEN \E ttl \in Ttls : Answer(h, ttl) /\ stored' = [stored EXCEPT !.left = ttl]
         ELSE UNCHANGED <<stored, promised, failed>>
    /\ UNCHANGED alarm

\* A live record: same holder yes, without a new expiry; anybody else no.
ClaimHeld(h) ==
    /\ h \notin failed
    /\ Live(stored)
    /\ IF Grants(stored, h)
         THEN Answer(h, stored.left)
         ELSE UNCHANGED <<promised, failed>>
    /\ UNCHANGED <<stored, alarm>>

\* Mutants of ClaimFree: the alarm counted from now instead of from the expiry,
\* and an alarm already scheduled left as it is.
ClaimAlarmFromNow(h, ttl) ==
    /\ h \notin failed
    /\ ~ Live(stored)
    /\ stored' = AfterClaim(stored, h, ttl)
    /\ alarm' = AlarmSlack
    /\ Answer(h, ttl)
ClaimAlarmKept(h, ttl) ==
    /\ h \notin failed
    /\ ~ Live(stored)
    /\ stored' = AfterClaim(stored, h, ttl)
    /\ alarm' = IF alarm = NoAlarm THEN ttl + AlarmSlack ELSE alarm
    /\ Answer(h, ttl)

\* No live record: put the new one, then setAlarm replaces any earlier alarm.
ClaimFree(h, ttl) ==
    /\ h \notin failed
    /\ ~ Live(stored)
    /\ stored' = AfterClaim(stored, h, ttl)
    /\ alarm' = ttl + AlarmSlack
    /\ Answer(h, ttl)

\* The object dies after the put: an earlier alarm, if any, is still set.
ClaimCutShort(h, ttl) ==
    /\ h \notin failed
    /\ ~ Live(stored)
    /\ stored' = AfterClaim(stored, h, ttl)
    /\ failed' = failed \cup {h}
    /\ UNCHANGED <<alarm, promised>>

\* The caller is done whatever the answer, so a lost one changes nothing.
Release(h) ==
    /\ h \notin failed
    /\ stored' = AfterRelease(stored, h)
    /\ promised' = [promised EXCEPT ![h] = 0]
    /\ UNCHANGED <<alarm, failed>>

\* The platform calls alarm() at the scheduled instant or later.
Alarm ==
    /\ alarm = 0
    /\ stored' = NoClaim
    /\ alarm' = NoAlarm
    /\ UNCHANGED <<promised, failed>>

GuardTick ==
    /\ stored' = Aged(stored)
    /\ alarm' = IF alarm = NoAlarm THEN alarm ELSE Less(alarm)
    /\ promised' = [h \in Holders |-> Less(promised[h])]
    /\ UNCHANGED failed

GuardNext ==
    \/ \E h \in Holders : ClaimHeld(h) \/ Release(h)
    \/ \E h \in Holders, ttl \in Ttls : ClaimFree(h, ttl) \/ ClaimCutShort(h, ttl)
    \/ Alarm
    \/ GuardTick

GuardSpec == GuardInit /\ [][GuardNext]_guardVars

\* Time passes.  Callers call when they like, the alarm may be late.
FairGuardSpec == GuardSpec /\ WF_guardVars(GuardTick)
-----------------------------------------------------------------------------
(***************************************************************************)
(* Two callers are never both inside a lease they were told they hold:     *)
(* the property every sweep and every single-use token rests on.  It has   *)
(* to survive lost answers, a release by a loser, a repeat claim, a claim  *)
(* cut short and the cleanup alarm of an earlier claim.                    *)
(***************************************************************************)
LeaseExclusion ==
    \A g, h \in Holders : promised[g] > 0 /\ promised[h] > 0 => g = h

(***************************************************************************)
(* A lease that was promised is still on record, to the tick, and the      *)
(* alarm that will clear it comes after it has lapsed.                     *)
(***************************************************************************)
PromiseKept ==
    \A h \in Holders : promised[h] > 0 =>
        /\ stored = [holder |-> h, left |-> promised[h]]
        /\ alarm = stored.left + AlarmSlack

(***************************************************************************)
(* A record that somebody may still rely on, its holder's call not having  *)
(* failed, is never cleared by an alarm set for an earlier record.         *)
(***************************************************************************)
AlarmOutlivesClaim ==
    Live(stored) /\ stored.holder \notin failed => alarm = stored.left + AlarmSlack

(***************************************************************************)
(* No holder keeps the key forever, however often it repeats its claim:    *)
(* a repeat is granted without a new expiry, so a crashed or a stuck       *)
(* caller cannot lock the others out.                                      *)
(***************************************************************************)
NeverHeldForever == []<> ~ Live(stored)

(***************************************************************************)
(* What callers may assume of a key: a lease that one of them owns at a    *)
(* time.  The guard implements it for the owner its callers can know of,   *)
(* the one that was told it holds an unexpired lease.                      *)
(***************************************************************************)
Owner == IF \E h \in Holders : promised[h] > 0
           THEN CHOOSE h \in Holders : promised[h] > 0
           ELSE NoHolder

L == INSTANCE Lease WITH LeaseKeys <- {"key"}, owner <- [k \in {"key"} |-> Owner]

ImplementsLease == L!Spec
=============================================================================
