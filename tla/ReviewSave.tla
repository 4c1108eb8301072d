----------------------------- MODULE ReviewSave -----------------------------
(***************************************************************************)
(* One reviewer's review of one submission in one round: the score cards   *)
(* a browser tab opens on it one after another, the autosave queue behind  *)
(* each (autosave-queue.ts), and the server actions that write the draft   *)
(* over the Reviews row they find, or create one (mutations-review.ts).    *)
(*                                                                         *)
(* A card keeps the draft it was opened with and sends all of it; it never *)
(* reads again.  Leaving unmounts the card at once, while its queue, and a *)
(* call that is on its way, live on.  The page is rendered from a cached   *)
(* list of reviews, which a save that answered expires.                    *)
(*                                                                         *)
(* A draft is the set of edits it contains: every edit is another answer,  *)
(* and merging keeps them all.  Two drafts of a card are thus equal when   *)
(* their versions are.  Rubric filters and recusal are left out.           *)
(***************************************************************************)
EXTENDS Naturals, Sequences, SequencesExt

CONSTANTS MaxCards,   \* bound: cards opened in a behaviour
          MaxEdits,   \* bound: edits
          MaxFaults   \* bound: calls refused, cut off or sent again

ASSUME BoundsAssumption == MaxCards \in Nat /\ MaxEdits \in Nat /\ MaxFaults \in Nat

VARIABLES
    rows,      \* the Reviews rows of this submission, round and reviewer
    view,      \* the cached list of them, or Expired
    arriving,  \* the draft of a page that was rendered and has not arrived, or Nothing
    card,      \* the cards so far, the queue of each with it
    call,      \* [Servers -> the saveReviewAction it works on]
    edits,     \* edits so far
    faults,    \* faults so far
    loose,     \* history: calls at work when their card was left or cut off from them
    resent,    \* history: creates that landed and were sent again
    shown      \* history: the edits that were shown as saved

vars == <<rows, view, arriving, card, call, edits, faults, loose, resent, shown>>

Drafts == SUBSET (1 .. MaxEdits)
Nothing == {0}
Expired == <<Nothing>>

\* One for every card and one for every call that was cut off.
Servers == 1 .. (MaxCards + MaxFaults)
Nobody == 0

Cards == [at : {"open", "next", "dropped"}, draft : Drafts, stored : Drafts,
          flight : Servers \cup {Nobody}, timer : BOOLEAN,
          status : {"idle", "pending", "saving", "saved", "error"}]

NoCall == [pc |-> "idle", draft |-> {}, row |-> 0]
Finding(draft) == [pc |-> "find", draft |-> draft, row |-> 0]

TypeOK ==
    /\ rows \in Seq(Drafts)
    /\ view = Expired \/ view \in Seq(Drafts)
    /\ arriving \in Drafts \cup {Nothing}
    /\ card \in Seq(Cards) /\ Len(card) <= MaxCards
    /\ call \in [Servers -> [pc : {"idle", "find", "write", "answer"}, draft : Drafts, row : Nat]]
    /\ edits \in 0 .. MaxEdits /\ faults \in 0 .. MaxFaults
    /\ loose \in Nat /\ resent \in Nat /\ shown \in Drafts

Init ==
    /\ rows \in {<<>>, <<{}>>}
    /\ view = Expired
    /\ arriving = Nothing
    /\ card = <<>>
    /\ call = [s \in Servers |-> NoCall]
    /\ edits = 0 /\ faults = 0 /\ loose = 0 /\ resent = 0 /\ shown = {}

Fault == faults < MaxFaults /\ faults' = faults + 1

Open(c) == card[c].at = "open"
NoneOpen == \A c \in DOMAIN card : ~ Open(c)
-----------------------------------------------------------------------------
(* The page.                                                                *)

\* Somebody's page reads the list; later it gets too old.
Fill == view = Expired /\ view' = rows
Lapse == view # Expired /\ view' = Expired

Page ==
    /\ Fill \/ Lapse
    /\ UNCHANGED <<rows, arriving, card, call, edits, faults, loose, resent, shown>>

\* Of several rows the map by key keeps the last.
DraftOf(list) == IF list = <<>> THEN {} ELSE Last(list)

Render ==
    /\ NoneOpen /\ arriving = Nothing /\ Len(card) < MaxCards
    /\ view' = IF view = Expired THEN rows ELSE view
    /\ arriving' = DraftOf(view')
    /\ UNCHANGED <<rows, card, call, edits, faults, loose, resent, shown>>

Mount ==
    /\ arriving # Nothing
    /\ card' = Append(card, [at |-> "open", draft |-> arriving, stored |-> arriving,
                             flight |-> Nobody, timer |-> FALSE, status |-> "idle"])
    /\ arriving' = Nothing
    /\ UNCHANGED <<rows, view, call, edits, faults, loose, resent, shown>>
-----------------------------------------------------------------------------
(* The queue.                                                               *)

Edit(c) ==
    /\ Open(c) /\ edits < MaxEdits
    /\ edits' = edits + 1
    /\ card' = [card EXCEPT ![c].draft = @ \cup {edits'}, ![c].timer = TRUE,
                            ![c].status = "pending"]
    /\ UNCHANGED <<rows, view, arriving, call, faults, loose, resent, shown>>

\* A save in flight is joined: what is newer is left to its end.
Joins(q) == q.flight # Nobody

\* run() of a queue: it disarms the timer whatever it does next.
Run(c, q) ==
    IF Joins(q) \/ q.draft = q.stored
    THEN /\ card' = [card EXCEPT ![c] = [q EXCEPT !.timer = FALSE]]
         /\ UNCHANGED call
    ELSE LET s == CHOOSE s \in Servers : call[s] = NoCall
         IN  /\ card' = [card EXCEPT ![c] = [q EXCEPT !.timer = FALSE, !.flight = s,
                                                      !.status = "saving"]]
             /\ call' = [call EXCEPT ![s] = Finding(q.draft)]

TimerFires(c) ==
    /\ card[c].timer
    /\ Run(c, card[c])
    /\ UNCHANGED <<rows, view, arriving, edits, faults, loose, resent, shown>>

\* The Save button, which is disabled while the card shows "Saving...".
Save(c) ==
    /\ Open(c) /\ card[c].status # "saving"
    /\ Run(c, card[c])
    /\ UNCHANGED <<rows, view, arriving, edits, faults, loose, resent, shown>>

\* The calls that are loose once c is left with this flight.
Loosened(flight) == loose' = IF flight = Nobody THEN loose ELSE loose + 1

\* Leaving without saving: the unmount disarms the timer and does not flush.
Drop(c) ==
    /\ Open(c)
    /\ card' = [card EXCEPT ![c].at = "dropped", ![c].timer = FALSE]
    /\ Loosened(card[c].flight)
    /\ UNCHANGED <<rows, view, arriving, call, edits, faults, resent, shown>>

\* Save and next flushes, and does not wait for it.
SaveAndNext(c) ==
    /\ Open(c)
    /\ Run(c, [card[c] EXCEPT !.at = "next"])
    /\ Loosened(card'[c].flight)
    /\ UNCHANGED <<rows, view, arriving, edits, faults, resent, shown>>
-----------------------------------------------------------------------------
(* The save.                                                                *)

Awaited(s) == \E c \in DOMAIN card : card[c].flight = s
Waiting(s) == CHOOSE c \in DOMAIN card : card[c].flight = s

\* Mutant of Find: the row is looked for in the cached list.
FindCached(s) ==
    /\ call[s].pc = "find"
    /\ view' = IF view = Expired THEN rows ELSE view
    /\ call' = [call EXCEPT ![s].pc = "write", ![s].row = IF view' = <<>> THEN 0 ELSE 1]
    /\ UNCHANGED <<rows, arriving, card, edits, faults, loose, resent, shown>>

\* saveReviewAction up to findReview, which reads uncached.
Find(s) ==
    /\ call[s].pc = "find"
    /\ call' = [call EXCEPT ![s].pc = "write", ![s].row = IF rows = <<>> THEN 0 ELSE 1]
    /\ UNCHANGED <<rows, view, arriving, card, edits, faults, loose, resent, shown>>

\* A create, or an update of the row that was found.
Written(s) ==
    IF call[s].row = 0 THEN Append(rows, call[s].draft)
    ELSE [rows EXCEPT ![call[s].row] = call[s].draft]

Write(s) ==
    /\ call[s].pc = "write"
    /\ rows' = Written(s)
    /\ call' = [call EXCEPT ![s].pc = "answer"]
    /\ UNCHANGED <<view, arriving, card, edits, faults, loose, resent, shown>>

\* The write lands and its answer is lost, or is one the scheduler does not take
\* for an answer: it sends the request again.  It gives up after five attempts,
\* which is Fails.
SentAgain(s) ==
    /\ call[s].pc = "write" /\ Fault
    /\ rows' = Written(s)
    /\ resent' = IF call[s].row = 0 THEN resent + 1 ELSE resent
    /\ UNCHANGED <<view, arriving, card, call, edits, loose, shown>>

\* Mutant of Invalidated: a save leaves the cached list as it is.
InvalidatedNot == view

Invalidated == Expired

\* Mutant of Chases: a save that ends is the end of it.
ChasesNot(q) == FALSE

\* A save that landed is followed by another when the draft is newer.
Chases(q) == q.draft # q.stored

\* The list is expired and the card hears that its draft is stored.
Answer(s) ==
    /\ call[s].pc = "answer"
    /\ view' = Invalidated
    /\ IF ~ Awaited(s)
       THEN call' = [call EXCEPT ![s] = NoCall] /\ UNCHANGED <<card, shown>>
       ELSE LET c == Waiting(s)
                q == [card[c] EXCEPT !.stored = call[s].draft, !.flight = Nobody,
                                     !.status = "saved"]
            IN  IF Chases(q)
                THEN /\ card' = [card EXCEPT ![c] = [q EXCEPT !.timer = FALSE, !.flight = s,
                                                              !.status = "saving"]]
                     /\ call' = [call EXCEPT ![s] = Finding(q.draft)]
                     /\ UNCHANGED shown
                ELSE /\ card' = [card EXCEPT ![c] = q]
                     /\ call' = [call EXCEPT ![s] = NoCall]
                     /\ shown' = IF Open(c) THEN shown \cup q.draft ELSE shown
    /\ UNCHANGED <<rows, arriving, edits, faults, loose, resent>>

\* The card hears of a failure; nothing is chased, a newer edit's timer stays.
Told(s) ==
    card' = [c \in DOMAIN card |->
                IF card[c].flight = s
                THEN [card[c] EXCEPT !.flight = Nobody, !.status = "error"] ELSE card[c]]

\* A read or the write is refused, the write's answer is lost, the isolate ends.
Fails(s) ==
    /\ call[s].pc # "idle" /\ Fault
    /\ \/ UNCHANGED rows
       \/ call[s].pc = "write" /\ rows' = Written(s)
    /\ Told(s)
    /\ call' = [call EXCEPT ![s] = NoCall]
    /\ UNCHANGED <<view, arriving, edits, loose, resent, shown>>

\* The browser loses the connection, and the action goes on.
Cut(s) ==
    /\ Awaited(s) /\ Fault
    /\ Told(s)
    /\ loose' = loose + 1
    /\ UNCHANGED <<rows, view, arriving, call, edits, resent, shown>>

Serve(s) == Find(s) \/ Write(s) \/ Answer(s)

Next ==
    \/ Page \/ Render \/ Mount
    \/ \E c \in DOMAIN card : Edit(c) \/ TimerFires(c) \/ Save(c) \/ Drop(c) \/ SaveAndNext(c)
    \/ \E s \in Servers : Serve(s) \/ SentAgain(s) \/ Fails(s) \/ Cut(s)

Spec == Init /\ [][Next]_vars

\* Timers fire and a request that is not killed goes on.  Nobody has to press
\* anything.
FairSpec ==
    /\ Spec
    /\ \A c \in 1 .. MaxCards : WF_vars(c \in DOMAIN card /\ TimerFires(c))
    /\ \A s \in Servers : WF_vars(Serve(s))
-----------------------------------------------------------------------------
(***************************************************************************)
(* What a card shows as saved is all of its draft, and is what the base    *)
(* holds; and what was once shown as saved stays in the base, also when    *)
(* the reviewer leaves and comes back to a page rendered from the cache.   *)
(* As long as no call was cut off, no card left with one on its way, and   *)
(* there is one review: of two, saves update the first (findReview) and    *)
(* the page shows the last (evaluation-view.ts).                           *)
(***************************************************************************)
SavedIsTrue ==
    loose = 0 /\ Len(rows) <= 1 =>
        /\ \A c \in DOMAIN card : Open(c) /\ card[c].status = "saved" =>
             rows # <<>> /\ Last(rows) = card[c].draft
        /\ shown \subseteq DraftOf(rows)

(***************************************************************************)
(* A second review of the same tuple costs a call that somebody left or    *)
(* was cut off from, or a create that landed and that the scheduler sent   *)
(* again.  Timers, the Save button, the chase after a save, and saves that *)
(* fail after their write has landed and are repeated by the reviewer make *)
(* none, although the row is read before it is created.                    *)
(***************************************************************************)
SecondRowIsLoose == Len(rows) <= 1 + loose + resent

(***************************************************************************)
(* Every edit is settled: it is stored, or the queue reports an error, or  *)
(* the reviewer closed the card without saving.  Whenever it was typed,    *)
(* and whoever joined the save that was in flight then.                    *)
(***************************************************************************)
Unsent(c) == c \in DOMAIN card /\ card[c].draft # card[c].stored
Excused(c) == c \in DOMAIN card /\ (card[c].status = "error" \/ card[c].at = "dropped")

EditsSettle == \A c \in 1 .. MaxCards : Unsent(c) ~> (Excused(c) \/ ~ Unsent(c))

(***************************************************************************)
(* "A score that silently failed to save is the one outcome section 3.1    *)
(* rules out by name" (ScoreCard.tsx): a save that failed is on screen.    *)
(***************************************************************************)
FailureIsSeen == \A c \in DOMAIN card : card[c].status = "error" => card[c].at # "next"

(***************************************************************************)
(* "A reviewer who closed the panel does not want their half-typed comment *)
(* written" (use-review-autosave.ts): a card that was dropped sends no     *)
(* draft it was not sending already.                                       *)
(***************************************************************************)
DroppedSendsNothing ==
    [][\A c \in DOMAIN card, s \in Servers :
         card[c].at = "dropped" /\ card'[c].flight = s =>
            card[c].flight = s /\ call'[s].draft = call[s].draft]_vars

(***************************************************************************)
(* Two saves of one reviewer within one round trip are "what the autosave  *)
(* debounce in 3.1 prevents" (mutations-review.ts): one row for the tuple. *)
(***************************************************************************)
OneReview == Len(rows) <= 1
=============================================================================
