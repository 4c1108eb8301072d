------------------------------ MODULE Message -------------------------------
(***************************************************************************)
(* What the outbox promises of its messages, seen by an organizer: a       *)
(* message once queued stays on its way until it is recorded as sent,      *)
(* which only happens to one the mail provider has, or given up.  Neither  *)
(* outcome is ever taken back.                                             *)
(***************************************************************************)
CONSTANT Messages

VARIABLES outcome,    \* [Messages -> "none", "underway", "sent" or "dead"]
          delivered   \* the messages the provider has accepted

Init == outcome = [m \in Messages |-> "none"] /\ delivered = {}

\* One call may queue several messages.
Queue(ms) ==
    /\ \A m \in ms : outcome[m] = "none"
    /\ outcome' = [m \in Messages |-> IF m \in ms THEN "underway" ELSE outcome[m]]
    /\ UNCHANGED delivered

Deliver(m) ==
    /\ outcome[m] = "underway"
    /\ delivered' = delivered \cup {m}
    /\ UNCHANGED outcome

Sent(m) ==
    /\ outcome[m] = "underway"
    /\ m \in delivered
    /\ outcome' = [outcome EXCEPT ![m] = "sent"]
    /\ UNCHANGED delivered

\* One write may give several up.
GiveUp(ms) ==
    /\ \A m \in ms : outcome[m] = "underway"
    /\ outcome' = [m \in Messages |-> IF m \in ms THEN "dead" ELSE outcome[m]]
    /\ UNCHANGED delivered

Next == \/ \E ms \in SUBSET Messages : Queue(ms) \/ GiveUp(ms)
        \/ \E m \in Messages : Deliver(m) \/ Sent(m)

Spec == Init /\ [][Next]_<<outcome, delivered>>
=============================================================================
