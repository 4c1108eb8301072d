-------------------------- MODULE ReviewSaveProofs --------------------------
(***************************************************************************)
(* What the autosave of a review guarantees for any number of cards, edits *)
(* and failed or cut-off calls, proved by TLAPS.                           *)
(*                                                                         *)
(* At most one card is open, and only an open card has a timer, so a call  *)
(* that is at work is either the open card's or one that was left or cut   *)
(* off, which loose counts (Base).  From that follow both properties: the  *)
(* calls about to create a row are counted by loose (RowsBound), unless    *)
(* their create is sent again; and with none loose and one row, the one    *)
(* call there can be carries all that was ever shown as saved (SavedInv).  *)
(***************************************************************************)
EXTENDS ReviewSave, FiniteSetTheorems, SequenceTheorems, TLAPS

CallStates == [pc : {"idle", "find", "write", "answer"}, draft : Drafts, row : Nat]

Busy == {s \in Servers : call[s] # NoCall}

\* The open card has a save on its way.
Flying == \E c \in DOMAIN card : Open(c) /\ card[c].flight # Nobody

CardInv ==
    /\ \A c, d \in DOMAIN card : Open(c) /\ Open(d) => c = d
    /\ \A c \in DOMAIN card : card[c].timer => Open(c)
    /\ arriving # Nothing => NoneOpen /\ Len(card) < MaxCards
    /\ loose + (IF NoneOpen THEN 0 ELSE 1) <= Len(card) + faults

BusyBound == Cardinality(Busy) <= loose + (IF Flying THEN 1 ELSE 0)

Base == TypeOK /\ CardInv /\ BusyBound

(* The sets the variables range over.                                        *)
LEMMA Constants ==
  /\ {} \in Drafts /\ Nothing \notin Drafts
  /\ NoCall \in CallStates /\ \A draft \in Drafts : Finding(draft) \in CallStates /\ Finding(draft) # NoCall
  /\ IsFiniteSet(Servers) /\ Cardinality(Servers) = MaxCards + MaxFaults /\ Nobody \notin Servers
<1>1. {} \in Drafts /\ Nothing \notin Drafts
  BY DEF Drafts, Nothing
<1>2. NoCall \in CallStates /\ \A draft \in Drafts : Finding(draft) \in CallStates /\ Finding(draft) # NoCall
  BY <1>1 DEF NoCall, CallStates, Finding
<1>3. MaxCards + MaxFaults \in Nat
  BY BoundsAssumption
<1>4. IsFiniteSet(Servers) /\ Cardinality(Servers) = MaxCards + MaxFaults
  <2>1. \A k \in Nat : IsFiniteSet(1 .. k) /\ Cardinality(1 .. k) = k
    BY FS_Interval
  <2>2. QED
    BY <1>3, <2>1 DEF Servers
<1>5. Nobody \notin Servers
  BY <1>3 DEF Nobody, Servers
<1>6. QED
  BY <1>1, <1>2, <1>4, <1>5

(* The servers at work are finitely many.                                    *)
LEMMA BusyFinite ==
  IsFiniteSet(Busy) /\ Cardinality(Busy) \in Nat
<1>1. Busy \in SUBSET Servers
  BY DEF Busy
<1>2. IsFiniteSet(Busy)
  BY <1>1, Constants, FS_Subset
<1>3. QED
  BY <1>2, FS_CardinalityType

(* An open card without a save on its way finds a server for one.            *)
LEMMA FreeServer ==
  ASSUME Base, NEW c \in DOMAIN card, Open(c), card[c].flight = Nobody
  PROVE  \E s \in Servers : call[s] = NoCall
<1>1. ~ Flying
  BY DEF Base, CardInv, Flying
<1>2. ~ NoneOpen
  BY DEF NoneOpen
<1>3. loose \in Nat /\ Cardinality(Busy) <= loose + 0 /\ loose + 1 <= Len(card) + faults
  BY <1>1, <1>2 DEF Base, TypeOK, BusyBound, CardInv
<1>4. Len(card) <= MaxCards /\ faults <= MaxFaults /\ Len(card) \in Nat /\ faults \in Nat /\ loose \in Nat
  BY BoundsAssumption, LenProperties DEF Base, TypeOK
<1>5. Cardinality(Busy) # Cardinality(Servers)
  BY <1>3, <1>4, BusyFinite, BoundsAssumption, Constants
<1>6. QED
  BY <1>5 DEF Busy

(* One card changes: the others stay as they are.                            *)
LEMMA CardSet ==
  ASSUME NEW cards \in Seq(Cards), NEW c \in DOMAIN cards, NEW q \in Cards
  PROVE  LET after == [cards EXCEPT ![c] = q]
         IN  /\ after \in Seq(Cards) /\ Len(after) = Len(cards) /\ DOMAIN after = DOMAIN cards
             /\ after[c] = q /\ \A d \in DOMAIN cards : d # c => after[d] = cards[d]
<1>1. DOMAIN cards = 1 .. Len(cards)
  BY LenProperties
<1>2. QED
  BY <1>1, ExceptSeq

(* run() of a queue: nothing to do, or a server takes the draft.             *)
LEMMA RunStep ==
  ASSUME Base, NEW c \in DOMAIN card, Open(c), NEW q \in Cards, q.flight = card[c].flight, Run(c, q)
  PROVE  \E q1 \in Cards :
           /\ card' = [card EXCEPT ![c] = q1]
           /\ q1.at = q.at /\ q1.draft = q.draft /\ q1.stored = q.stored /\ q1.timer = FALSE
           /\ \/ call' = call /\ q1.flight = q.flight /\ q1.status = q.status
              \/ /\ q.flight = Nobody /\ q1.status = "saving" /\ q1.flight \in Servers
                 /\ call[q1.flight] = NoCall
                 /\ call' = [call EXCEPT ![q1.flight] = Finding(q.draft)]
<1>1. CASE Joins(q) \/ q.draft = q.stored
  <2> DEFINE q1 == [q EXCEPT !.timer = FALSE]
  <2>1. card' = [card EXCEPT ![c] = q1] /\ call' = call
    BY <1>1 DEF Run
  <2>2. q1 \in Cards /\ q1.at = q.at /\ q1.draft = q.draft /\ q1.stored = q.stored /\ q1.timer = FALSE
        /\ q1.flight = q.flight /\ q1.status = q.status
    BY DEF Cards
  <2> HIDE DEF q1
  <2>3. QED
    BY <2>1, <2>2
<1>2. CASE ~ (Joins(q) \/ q.draft = q.stored)
  <2> DEFINE s == CHOOSE s \in Servers : call[s] = NoCall
             q1 == [q EXCEPT !.timer = FALSE, !.flight = s, !.status = "saving"]
  <2>1. q.flight = Nobody
    BY <1>2 DEF Joins
  <2>2. s \in Servers /\ call[s] = NoCall
    BY <2>1, FreeServer
  <2>3. card' = [card EXCEPT ![c] = q1] /\ call' = [call EXCEPT ![s] = Finding(q.draft)]
    BY <1>2 DEF Run
  <2> HIDE DEF s
  <2>4. q1 \in Cards /\ q1.at = q.at /\ q1.draft = q.draft /\ q1.stored = q.stored /\ q1.timer = FALSE
        /\ q1.flight = s /\ q1.status = "saving"
    BY <2>2 DEF Cards
  <2> HIDE DEF q1
  <2>5. QED
    BY <2>1, <2>2, <2>3, <2>4
<1>3. QED
  BY <1>1, <1>2

(* The cards stay in order when none is opened or closed.                    *)
LEMMA CardsStay ==
  ASSUME Base, DOMAIN card' = DOMAIN card, Len(card') = Len(card),
         \A d \in DOMAIN card : card'[d].at = card[d].at /\ (card'[d].timer => Open(d)),
         arriving' = arriving,
         \/ loose' = loose /\ faults' \in {faults, faults + 1}
         \/ loose' = loose + 1 /\ faults' = faults + 1
  PROVE  CardInv'
<1>1. \A d \in DOMAIN card : Open(d)' <=> Open(d)
  BY DEF Open
<1>2. NoneOpen' <=> NoneOpen
  BY <1>1 DEF NoneOpen
<1>3. loose \in Nat /\ faults \in Nat /\ Len(card) \in Nat
  BY LenProperties DEF Base, TypeOK
<1>4. loose' + (IF NoneOpen THEN 0 ELSE 1) <= Len(card) + faults'
  BY <1>3 DEF Base, CardInv
<1>5. QED
  BY <1>1, <1>2, <1>4 DEF Base, CardInv

(* No server more at work, and one less or one more loose if the open card   *)
(* lost its save.                                                            *)
LEMMA BusyLess ==
  ASSUME Base, Busy' \subseteq Busy, loose' \in {loose, loose + 1},
         Flying /\ ~ Flying' => loose' = loose + 1 \/ \E s \in Busy : s \notin Busy'
  PROVE  BusyBound'
<1> DEFINE B == Busy
           C == Busy'
<1>1. loose \in Nat
  BY DEF Base, TypeOK
<1>2. IsFiniteSet(B) /\ Cardinality(B) \in Nat /\ C \in SUBSET B
  BY BusyFinite
<1>3. IsFiniteSet(C) /\ Cardinality(C) <= Cardinality(B) /\ (Cardinality(B) = Cardinality(C) => B = C)
  BY <1>2, FS_Subset
<1>4. Cardinality(C) \in Nat
  BY <1>3, FS_CardinalityType
<1>5. Cardinality(B) <= loose + (IF Flying THEN 1 ELSE 0)
  BY DEF Base, BusyBound
<1>6. (\E s \in B : s \notin C) => Cardinality(C) + 1 <= Cardinality(B)
  BY <1>2, <1>3, <1>4
<1> HIDE DEF B, C
<1>7. Cardinality(C) <= loose' + (IF Flying' THEN 1 ELSE 0)
  <2>1. CASE Flying /\ ~ Flying'
    BY <1>1, <1>2, <1>3, <1>4, <1>5, <1>6, <2>1 DEF B, C
  <2>2. CASE ~ (Flying /\ ~ Flying')
    BY <1>1, <1>2, <1>3, <1>4, <1>5, <2>2
  <2>3. QED
    BY <2>1, <2>2
<1>8. QED
  BY <1>7 DEF BusyBound, C

(* One server more, for the open card or for one that is left with it.       *)
LEMMA BusyMore ==
  ASSUME Base, NEW s, Busy' \subseteq Busy \cup {s}, ~ Flying,
         \/ loose' = loose /\ Flying'
         \/ loose' = loose + 1
  PROVE  BusyBound'
<1> DEFINE B == Busy
           C == Busy'
<1>1. loose \in Nat
  BY DEF Base, TypeOK
<1>2. IsFiniteSet(B) /\ Cardinality(B) \in Nat /\ C \in SUBSET (B \cup {s})
  BY BusyFinite
<1>3. IsFiniteSet(B \cup {s}) /\ Cardinality(B \cup {s}) \in {Cardinality(B), Cardinality(B) + 1}
  BY <1>2, FS_AddElement
<1>4. IsFiniteSet(C) /\ Cardinality(C) <= Cardinality(B \cup {s})
  BY <1>2, <1>3, FS_Subset
<1>5. Cardinality(C) \in Nat
  BY <1>4, FS_CardinalityType
<1>6. Cardinality(B) <= loose + 0
  BY DEF Base, BusyBound
<1> HIDE DEF B, C
<1>7. Cardinality(C) <= loose' + (IF Flying' THEN 1 ELSE 0)
  BY <1>1, <1>2, <1>3, <1>4, <1>5, <1>6
<1>8. QED
  BY <1>7 DEF BusyBound, C

-----------------------------------------------------------------------------
(* Every step keeps Base.                                                    *)

(* The draft of a page is a draft.                                           *)
LEMMA DraftOfType ==
  ASSUME NEW list \in Seq(Drafts)
  PROVE  DraftOf(list) \in Drafts
<1>1. CASE list = <<>>
  BY <1>1, Constants DEF DraftOf
<1>2. CASE list # <<>>
  <2>1. list[Len(list)] \in Drafts
    <3>1. Len(list) \in Nat /\ Len(list) # 0 /\ DOMAIN list = 1 .. Len(list) /\ list \in [1 .. Len(list) -> Drafts]
      BY <1>2, LenProperties, EmptySeq
    <3>2. QED
      BY <3>1
  <2>2. QED
    BY <1>2, <2>1 DEF DraftOf, Last
<1>3. QED
  BY <1>1, <1>2

(* The page's steps.                                                         *)
LEMMA PageBase ==
  ASSUME Base, Page \/ Render \/ Mount
  PROVE  Base'
<1>a. TypeOK /\ CardInv /\ rows \in Seq(Drafts) /\ card \in Seq(Cards) /\ loose \in Nat
  BY DEF Base, TypeOK
<1>b. Len(card) \in Nat /\ DOMAIN card = 1 .. Len(card) /\ faults \in Nat
  BY LenProperties, <1>a DEF TypeOK
<1>1. CASE Page \/ Render
  <2>1. UNCHANGED <<rows, card, call, edits, faults, loose, resent, shown>>
    BY <1>1 DEF Page, Render
  <2>2. view' = Expired \/ view' \in Seq(Drafts)
    BY <1>a, <1>1 DEF Page, Fill, Lapse, Render, TypeOK
  <2>3. arriving' \in Drafts \cup {Nothing}
    <3>1. CASE Page
      BY <1>a, <3>1 DEF Page, TypeOK
    <3>2. CASE Render
      <4>1. view' \in Seq(Drafts)
        BY <1>a, <3>2 DEF Render, TypeOK
      <4>2. QED
        BY <3>2, <4>1, DraftOfType DEF Render
    <3>3. QED
      BY <1>1, <3>1, <3>2
  <2>4. TypeOK'
    BY <1>a, <2>1, <2>2, <2>3 DEF TypeOK
  <2>5. CardInv'
    BY <1>a, <1>1, <2>1 DEF Page, Render, CardInv, NoneOpen, Open
  <2>6. BusyBound'
    BY <2>1 DEF Base, BusyBound, Busy, Flying, Open
  <2>7. QED
    BY <2>4, <2>5, <2>6 DEF Base
<1>2. CASE Mount
  <2> DEFINE q == [at |-> "open", draft |-> arriving, stored |-> arriving,
                   flight |-> Nobody, timer |-> FALSE, status |-> "idle"]
  <2>1. arriving # Nothing /\ card' = Append(card, q) /\ arriving' = Nothing
        /\ UNCHANGED <<rows, view, call, edits, faults, loose, resent, shown>>
    BY <1>2 DEF Mount
  <2>2. q \in Cards
    BY <1>a, <2>1 DEF TypeOK, Cards
  <2>3. q.at = "open" /\ q.flight = Nobody /\ q.timer = FALSE
    OBVIOUS
  <2> HIDE DEF q
  <2>4. /\ card' \in Seq(Cards) /\ Len(card') = Len(card) + 1 /\ card'[Len(card) + 1] = q
        /\ \A c \in DOMAIN card : card'[c] = card[c]
    BY <1>a, <1>b, <2>1, <2>2, AppendProperties
  <2>5. DOMAIN card' = DOMAIN card \cup {Len(card) + 1}
    BY <1>b, <2>4, LenProperties
  <2>6. NoneOpen /\ Len(card) < MaxCards
    BY <1>a, <2>1 DEF CardInv
  <2>7. TypeOK'
    BY <1>a, <1>b, <2>1, <2>4, <2>6, BoundsAssumption DEF TypeOK
  <2>8. \A c \in DOMAIN card' : IF c = Len(card) + 1 THEN card'[c] = q ELSE c \in DOMAIN card /\ card'[c] = card[c]
    BY <2>4, <2>5
  <2>9. \A c \in DOMAIN card' : card'[c].at = "open" => c = Len(card) + 1
    BY <2>6, <2>8 DEF NoneOpen, Open
  <2>10. CardInv'
    <3>1. \A c \in DOMAIN card' : card'[c].timer => card'[c].at = "open"
      BY <1>a, <2>3, <2>8 DEF CardInv, Open
    <3>2. ~ NoneOpen'
      BY <2>3, <2>4, <2>5 DEF NoneOpen, Open
    <3>3. loose + 0 <= Len(card) + faults
      BY <1>a, <2>6 DEF CardInv
    <3>4. loose + 1 <= Len(card') + faults
      BY <1>a, <1>b, <2>4, <3>3
    <3>5. loose' + (IF NoneOpen' THEN 0 ELSE 1) <= Len(card') + faults'
      BY <2>1, <3>2, <3>4
    <3>6. QED
      BY <2>1, <2>9, <3>1, <3>5 DEF CardInv, Open
  <2>11. BusyBound'
    <3>1. ~ Flying
      BY <2>6 DEF Flying, NoneOpen
    <3>2. Busy' = Busy /\ loose' = loose
      BY <2>1 DEF Busy
    <3>3. QED
      BY <3>1, <3>2, BusyLess
  <2>12. QED
    BY <2>7, <2>10, <2>11 DEF Base
<1>3. QED
  BY <1>1, <1>2

(* Typing, and leaving without saving.                                       *)
LEMMA EditBase ==
  ASSUME Base, NEW c \in DOMAIN card, Edit(c) \/ Drop(c)
  PROVE  Base'
<1>a. /\ TypeOK /\ CardInv /\ card \in Seq(Cards) /\ loose \in Nat /\ faults \in Nat
      /\ Len(card) \in Nat /\ DOMAIN card = 1 .. Len(card) /\ card[c] \in Cards /\ Open(c)
  BY LenProperties, ElementOfSeq DEF Base, TypeOK, Edit, Drop
<1>1. CASE Edit(c)
  <2> DEFINE q == [card[c] EXCEPT !.draft = @ \cup {edits'}, !.timer = TRUE, !.status = "pending"]
  <2>1. card' = [card EXCEPT ![c] = q] /\ edits' = edits + 1 /\ edits < MaxEdits
        /\ UNCHANGED <<rows, view, arriving, call, faults, loose, resent, shown>>
    BY <1>a, <1>1 DEF Edit
  <2>2. edits' \in 1 .. MaxEdits
    BY <1>a, <2>1, BoundsAssumption DEF TypeOK
  <2>3. q \in Cards /\ q.at = card[c].at /\ q.flight = card[c].flight
    BY <1>a, <2>2 DEF Cards, Drafts
  <2> HIDE DEF q
  <2>4. /\ card' \in Seq(Cards) /\ Len(card') = Len(card) /\ DOMAIN card' = DOMAIN card
        /\ card'[c] = q /\ \A d \in DOMAIN card : d # c => card'[d] = card[d]
    BY <1>a, <2>1, <2>3, CardSet
  <2>5. TypeOK'
    BY <1>a, <2>1, <2>2, <2>4 DEF TypeOK
  <2>6. CardInv'
    BY <1>a, <2>1, <2>3, <2>4, CardsStay DEF CardInv
  <2>7. Flying' <=> Flying
    BY <2>3, <2>4 DEF Flying, Open
  <2>8. BusyBound'
    BY <2>1, <2>7, BusyLess DEF Busy
  <2>9. QED
    BY <2>5, <2>6, <2>8 DEF Base
<1>2. CASE Drop(c)
  <2> DEFINE q == [card[c] EXCEPT !.at = "dropped", !.timer = FALSE]
  <2>1. card' = [card EXCEPT ![c] = q] /\ loose' = (IF card[c].flight = Nobody THEN loose ELSE loose + 1)
        /\ UNCHANGED <<rows, view, arriving, call, edits, faults, resent, shown>>
    BY <1>a, <1>2 DEF Drop, Loosened
  <2>2. q \in Cards /\ q.at = "dropped" /\ q.timer = FALSE
    BY <1>a DEF Cards
  <2> HIDE DEF q
  <2>3. /\ card' \in Seq(Cards) /\ Len(card') = Len(card) /\ DOMAIN card' = DOMAIN card
        /\ card'[c] = q /\ \A d \in DOMAIN card : d # c => card'[d] = card[d]
    BY <1>a, <2>1, <2>2, CardSet
  <2>4. TypeOK'
    BY <1>a, <2>1, <2>3 DEF TypeOK
  <2>5. NoneOpen' /\ ~ NoneOpen
    BY <1>a, <2>2, <2>3 DEF CardInv, NoneOpen, Open
  <2>6. loose' + 0 <= Len(card') + faults'
    BY <1>a, <2>1, <2>3, <2>5 DEF CardInv
  <2>7. CardInv'
    BY <1>a, <2>1, <2>2, <2>3, <2>5, <2>6 DEF CardInv, NoneOpen, Open
  <2>8. Flying => card[c].flight # Nobody
    BY <1>a DEF CardInv, Flying
  <2>9. BusyBound'
    BY <1>a, <2>1, <2>8, BusyLess DEF Busy
  <2>10. QED
    BY <2>4, <2>7, <2>9 DEF Base
<1>3. QED
  BY <1>1, <1>2

(* A step that runs the queue of the open card.                              *)
LEMMA QueueStep ==
  ASSUME Base, NEW c \in DOMAIN card, TimerFires(c) \/ Save(c) \/ SaveAndNext(c)
  PROVE  /\ Open(c) /\ UNCHANGED <<rows, view, arriving, edits, faults, resent, shown>>
         /\ \E q \in Cards :
              /\ card' = [card EXCEPT ![c] = q]
              /\ q.at = (IF SaveAndNext(c) THEN "next" ELSE "open")
              /\ q.draft = card[c].draft /\ q.stored = card[c].stored /\ q.timer = FALSE
              /\ loose' = IF SaveAndNext(c) /\ q.flight # Nobody THEN loose + 1 ELSE loose
              /\ \/ call' = call /\ q.flight = card[c].flight /\ q.status = card[c].status
                 \/ /\ card[c].flight = Nobody /\ q.status = "saving" /\ q.flight \in Servers
                    /\ call[q.flight] = NoCall
                    /\ call' = [call EXCEPT ![q.flight] = Finding(q.draft)]
<1>a. TypeOK /\ CardInv /\ card \in Seq(Cards) /\ card[c] \in Cards
  BY ElementOfSeq DEF Base, TypeOK
<1>b. Open(c)
  BY <1>a DEF TimerFires, Save, SaveAndNext, CardInv
<1> DEFINE p == IF SaveAndNext(c) THEN [card[c] EXCEPT !.at = "next"] ELSE card[c]
<1>1. Run(c, p) /\ UNCHANGED <<rows, view, arriving, edits, faults, resent, shown>>
      /\ loose' = IF SaveAndNext(c) /\ card'[c].flight # Nobody THEN loose + 1 ELSE loose
  <2>1. CASE SaveAndNext(c)
    BY <2>1 DEF SaveAndNext, Loosened
  <2>2. CASE ~ SaveAndNext(c)
    BY <2>2 DEF TimerFires, Save
  <2>3. QED
    BY <2>1, <2>2
<1>2. p \in Cards /\ p.flight = card[c].flight /\ p.draft = card[c].draft /\ p.stored = card[c].stored
      /\ p.status = card[c].status /\ p.at = IF SaveAndNext(c) THEN "next" ELSE "open"
  BY <1>a, <1>b DEF Cards, Open
<1> HIDE DEF p
<1>3. PICK q \in Cards :
           /\ card' = [card EXCEPT ![c] = q]
           /\ q.at = p.at /\ q.draft = p.draft /\ q.stored = p.stored /\ q.timer = FALSE
           /\ \/ call' = call /\ q.flight = p.flight /\ q.status = p.status
              \/ /\ p.flight = Nobody /\ q.status = "saving" /\ q.flight \in Servers
                 /\ call[q.flight] = NoCall
                 /\ call' = [call EXCEPT ![q.flight] = Finding(p.draft)]
  BY <1>b, <1>1, <1>2, RunStep
<1>4. card'[c] = q
  BY <1>a, <1>3, CardSet
<1>5. QED
  BY <1>b, <1>1, <1>2, <1>3, <1>4

(* The steps that run the queue keep Base.                                   *)
LEMMA RunBase ==
  ASSUME Base, NEW c \in DOMAIN card, TimerFires(c) \/ Save(c) \/ SaveAndNext(c)
  PROVE  Base'
<1>a. /\ TypeOK /\ CardInv /\ card \in Seq(Cards) /\ loose \in Nat /\ faults \in Nat
      /\ Len(card) \in Nat /\ DOMAIN card = 1 .. Len(card) /\ card[c] \in Cards
      /\ call \in [Servers -> CallStates]
  BY LenProperties, ElementOfSeq DEF Base, TypeOK, CallStates
<1>b. Open(c) /\ UNCHANGED <<rows, view, arriving, edits, faults, resent, shown>>
  BY QueueStep
<1>c. \A d \in DOMAIN card : Open(d) => d = c
  BY <1>a, <1>b DEF CardInv
<1>1. PICK q \in Cards :
           /\ card' = [card EXCEPT ![c] = q]
           /\ q.at = (IF SaveAndNext(c) THEN "next" ELSE "open")
           /\ q.draft = card[c].draft /\ q.stored = card[c].stored /\ q.timer = FALSE
           /\ loose' = IF SaveAndNext(c) /\ q.flight # Nobody THEN loose + 1 ELSE loose
           /\ \/ call' = call /\ q.flight = card[c].flight /\ q.status = card[c].status
              \/ /\ card[c].flight = Nobody /\ q.status = "saving" /\ q.flight \in Servers
                 /\ call[q.flight] = NoCall
                 /\ call' = [call EXCEPT ![q.flight] = Finding(q.draft)]
  BY QueueStep
<1>2. /\ card' \in Seq(Cards) /\ Len(card') = Len(card) /\ DOMAIN card' = DOMAIN card
      /\ card'[c] = q /\ \A d \in DOMAIN card : d # c => card'[d] = card[d]
  BY <1>a, <1>1, CardSet
<1>3. q.draft \in Drafts
  BY DEF Cards
<1>4. call' \in [Servers -> CallStates]
  BY <1>a, <1>1, <1>3, Constants
<1>5. TypeOK'
  BY <1>a, <1>b, <1>1, <1>2, <1>4 DEF TypeOK, CallStates
<1>6. CardInv'
  <2>1. CASE SaveAndNext(c)
    <3>1. NoneOpen' /\ ~ NoneOpen
      BY <1>b, <1>c, <1>1, <1>2, <2>1 DEF NoneOpen, Open
    <3>2. loose' + 0 <= Len(card') + faults'
      BY <1>a, <1>b, <1>1, <1>2, <3>1 DEF CardInv
    <3>3. QED
      BY <1>a, <1>b, <1>1, <1>2, <3>1, <3>2 DEF CardInv, NoneOpen, Open
  <2>2. CASE ~ SaveAndNext(c)
    BY <1>a, <1>b, <1>1, <1>2, <2>2, CardsStay DEF CardInv, Open
  <2>3. QED
    BY <2>1, <2>2
<1>7. BusyBound'
  <2>1. Flying <=> card[c].flight # Nobody
    BY <1>b, <1>c DEF Flying
  <2>2. ~ SaveAndNext(c) => (Flying' <=> q.flight # Nobody)
    <3>1. \A d \in DOMAIN card : Open(d)' => d = c \/ SaveAndNext(c)
      BY <1>c, <1>2 DEF Open
    <3>2. ~ SaveAndNext(c) => Open(c)'
      BY <1>1, <1>2 DEF Open
    <3>3. QED
      BY <1>2, <3>1, <3>2 DEF Flying
  <2>3. CASE call' = call /\ q.flight = card[c].flight
    <3>1. Busy' = Busy
      BY <2>3 DEF Busy
    <3>2. Flying /\ ~ Flying' => loose' = loose + 1
      BY <1>1, <2>1, <2>2, <2>3
    <3>3. QED
      BY <1>1, <3>1, <3>2, BusyLess
  <2>4. CASE card[c].flight = Nobody /\ q.flight \in Servers
             /\ call' = [call EXCEPT ![q.flight] = Finding(q.draft)]
    <3>1. Busy' \subseteq Busy \cup {q.flight}
      BY <1>a, <2>4 DEF Busy
    <3>2. ~ Flying /\ q.flight # Nobody
      BY <2>1, <2>4, Constants
    <3>3. (loose' = loose /\ Flying') \/ loose' = loose + 1
      BY <1>1, <2>2, <3>2
    <3>4. QED
      BY <3>1, <3>2, <3>3, BusyMore
  <2>5. QED
    BY <1>1, <2>3, <2>4
<1>8. QED
  BY <1>5, <1>6, <1>7 DEF Base

(* What a write leaves in the base.                                          *)
LEMMA WrittenRows ==
  ASSUME TypeOK, NEW s \in Servers
  PROVE  /\ Written(s) \in Seq(Drafts)
         /\ Len(Written(s)) = IF call[s].row = 0 THEN Len(rows) + 1 ELSE Len(rows)
<1>1. call[s].draft \in Drafts /\ rows \in Seq(Drafts)
  BY DEF TypeOK
<1>2. CASE call[s].row = 0
  BY <1>1, <1>2, AppendProperties DEF Written
<1>3. CASE call[s].row # 0
  <2>1. DOMAIN rows = 1 .. Len(rows)
    BY <1>1, LenProperties
  <2>2. CASE call[s].row \in DOMAIN rows
    BY <1>1, <1>3, <2>1, <2>2, ExceptSeq DEF Written
  <2>3. CASE call[s].row \notin DOMAIN rows
    <3>1. [rows EXCEPT ![call[s].row] = call[s].draft] = rows
      BY <1>1, <2>3
    <3>2. QED
      BY <1>1, <1>3, <3>1 DEF Written
  <2>4. QED
    BY <2>2, <2>3
<1>4. QED
  BY <1>2, <1>3

(* Looking for the row, and writing it.                                      *)
LEMMA ServeBase ==
  ASSUME Base, NEW s \in Servers, Find(s) \/ Write(s)
  PROVE  Base'
<1>a. TypeOK /\ CardInv /\ call \in [Servers -> CallStates]
  BY DEF Base, TypeOK, CallStates
<1>1. UNCHANGED <<view, arriving, card, edits, faults, loose, resent, shown>>
      /\ rows' \in Seq(Drafts) /\ call[s].pc # "idle"
  BY <1>a, WrittenRows DEF Find, Write, TypeOK
<1>2. PICK next \in CallStates : call' = [call EXCEPT ![s] = next]
  <2>1. CASE Find(s)
    <3> DEFINE row == IF rows = <<>> THEN 0 ELSE 1
               next == [call[s] EXCEPT !.pc = "write", !.row = row]
    <3>1. call' = [call EXCEPT ![s] = next]
      BY <1>a, <2>1 DEF Find
    <3>2. row \in Nat
      OBVIOUS
    <3> HIDE DEF row
    <3>3. next \in CallStates
      BY <1>a, <3>2 DEF CallStates
    <3>4. QED
      BY <3>1, <3>3
  <2>2. CASE Write(s)
    <3> DEFINE next == [call[s] EXCEPT !.pc = "answer"]
    <3>1. call' = [call EXCEPT ![s] = next]
      BY <1>a, <2>2 DEF Write
    <3>2. next \in CallStates
      BY <1>a DEF CallStates
    <3>3. QED
      BY <3>1, <3>2
  <2>3. QED
    BY <2>1, <2>2
<1>3. TypeOK'
  BY <1>a, <1>1, <1>2 DEF TypeOK, CallStates
<1>4. CardInv'
  BY <1>a, <1>1 DEF CardInv, NoneOpen, Open
<1>5. BusyBound'
  <2>1. s \in Busy
    BY <1>1 DEF Busy, NoCall
  <2>2. Busy' \subseteq Busy
    BY <1>a, <1>2, <2>1 DEF Busy
  <2>3. Flying' <=> Flying
    BY <1>1 DEF Flying, Open
  <2>4. QED
    BY <1>1, <2>2, <2>3, BusyLess
<1>6. QED
  BY <1>3, <1>4, <1>5 DEF Base

(* The cards after the one that waits was told.                              *)
LEMMA ToldCards ==
  ASSUME TypeOK, NEW s \in Servers, Told(s)
  PROVE  /\ card' \in Seq(Cards) /\ Len(card') = Len(card) /\ DOMAIN card' = DOMAIN card
         /\ \A c \in DOMAIN card :
              /\ card'[c] \in Cards /\ card'[c].at = card[c].at /\ card'[c].timer = card[c].timer
              /\ card'[c].draft = card[c].draft /\ card'[c].stored = card[c].stored
              /\ IF card[c].flight = s THEN card'[c].flight = Nobody /\ card'[c].status = "error"
                 ELSE card'[c] = card[c]
<1>1. card \in Seq(Cards) /\ Len(card) \in Nat /\ DOMAIN card = 1 .. Len(card)
  BY LenProperties DEF TypeOK
<1>2. ASSUME NEW c \in DOMAIN card
      PROVE  /\ card'[c] \in Cards /\ card'[c].at = card[c].at /\ card'[c].timer = card[c].timer
             /\ card'[c].draft = card[c].draft /\ card'[c].stored = card[c].stored
             /\ IF card[c].flight = s THEN card'[c].flight = Nobody /\ card'[c].status = "error"
                ELSE card'[c] = card[c]
  <2> DEFINE q == [card[c] EXCEPT !.flight = Nobody, !.status = "error"]
  <2>1. card'[c] = IF card[c].flight = s THEN q ELSE card[c]
    BY DEF Told
  <2>2. card[c] \in Cards
    BY <1>1, ElementOfSeq
  <2>3. /\ q \in Cards /\ q.at = card[c].at /\ q.timer = card[c].timer /\ q.draft = card[c].draft
        /\ q.stored = card[c].stored /\ q.flight = Nobody /\ q.status = "error"
    BY <2>2 DEF Cards
  <2> HIDE DEF q
  <2>4. QED
    BY <2>1, <2>2, <2>3
<1>3. card' = [c \in 1 .. Len(card) |-> card'[c]]
  BY <1>1 DEF Told
<1>4. card' \in [1 .. Len(card) -> Cards]
  BY <1>1, <1>2, <1>3
<1>5. card' \in Seq(Cards) /\ Len(card') = Len(card)
  BY <1>1, <1>4, IsASeq, LenProperties
<1>6. QED
  BY <1>1, <1>2, <1>4, <1>5

(* The answer of a save: nobody hears it, or the card that waits for it and  *)
(* chases it, or that card and there is nothing newer.                       *)
LEMMA AnswerStep ==
  ASSUME Base, NEW s \in Servers, Answer(s)
  PROVE  /\ call[s].pc = "answer" /\ view' = Expired
         /\ UNCHANGED <<rows, arriving, edits, faults, loose, resent>>
         /\ \/ /\ ~ Awaited(s) /\ call' = [call EXCEPT ![s] = NoCall] /\ UNCHANGED <<card, shown>>
            \/ \E c \in DOMAIN card, q \in Cards :
                 /\ card[c].flight = s /\ card' = [card EXCEPT ![c] = q]
                 /\ q.at = card[c].at /\ q.draft = card[c].draft /\ q.stored = call[s].draft
                 /\ \/ /\ q.flight = s /\ q.status = "saving" /\ q.timer = FALSE
                       /\ call' = [call EXCEPT ![s] = Finding(q.draft)] /\ shown' = shown
                    \/ /\ q.flight = Nobody /\ q.status = "saved" /\ q.timer = card[c].timer
                       /\ q.stored = q.draft /\ call' = [call EXCEPT ![s] = NoCall]
                       /\ shown' = IF Open(c) THEN shown \cup q.draft ELSE shown
<1>1. call[s].pc = "answer" /\ view' = Expired /\ UNCHANGED <<rows, arriving, edits, faults, loose, resent>>
  BY DEF Answer, Invalidated
<1>2. CASE ~ Awaited(s)
  BY <1>1, <1>2 DEF Answer
<1>3. CASE Awaited(s)
  <2> DEFINE c == Waiting(s)
             p == [card[c] EXCEPT !.stored = call[s].draft, !.flight = Nobody, !.status = "saved"]
             q == [p EXCEPT !.timer = FALSE, !.flight = s, !.status = "saving"]
  <2>1. c \in DOMAIN card /\ card[c].flight = s
    BY <1>3 DEF Awaited, Waiting
  <2>2. /\ Chases(p) => /\ card' = [card EXCEPT ![c] = q]
                        /\ call' = [call EXCEPT ![s] = Finding(p.draft)] /\ shown' = shown
        /\ ~ Chases(p) => /\ card' = [card EXCEPT ![c] = p]
                          /\ call' = [call EXCEPT ![s] = NoCall]
                          /\ shown' = IF Open(c) THEN shown \cup p.draft ELSE shown
    BY <1>3 DEF Answer
  <2>3. card[c] \in Cards /\ call[s].draft \in Drafts
    BY <2>1, ElementOfSeq DEF Base, TypeOK
  <2> HIDE DEF c
  <2>4. /\ p \in Cards /\ p.at = card[c].at /\ p.draft = card[c].draft /\ p.stored = call[s].draft
        /\ p.flight = Nobody /\ p.status = "saved" /\ p.timer = card[c].timer
    BY <2>3 DEF Cards
  <2> HIDE DEF p
  <2>5. /\ q \in Cards /\ q.at = p.at /\ q.draft = p.draft /\ q.stored = p.stored
        /\ q.flight = s /\ q.status = "saving" /\ q.timer = FALSE
    BY <2>4 DEF Cards
  <2> HIDE DEF q
  <2>6. CASE Chases(p)
    BY <1>1, <2>1, <2>2, <2>4, <2>5, <2>6
  <2>7. CASE ~ Chases(p)
    <3>1. p.stored = p.draft
      BY <2>7 DEF Chases
    <3>2. QED
      BY <1>1, <2>1, <2>2, <2>4, <2>7, <3>1
  <2>8. QED
    BY <2>6, <2>7
<1>4. QED
  BY <1>2, <1>3

(* The answer keeps Base.                                                    *)
LEMMA AnswerBase ==
  ASSUME Base, NEW s \in Servers, Answer(s)
  PROVE  Base'
<1>a. /\ TypeOK /\ CardInv /\ card \in Seq(Cards) /\ call \in [Servers -> CallStates]
      /\ DOMAIN card = 1 .. Len(card)
  BY LenProperties DEF Base, TypeOK, CallStates
<1>1. call[s].pc = "answer" /\ view' = Expired /\ UNCHANGED <<rows, arriving, edits, faults, loose, resent>>
  BY AnswerStep
<1>b. s \in Busy
  BY <1>1 DEF Busy, NoCall
<1>2. CASE ~ Awaited(s) /\ call' = [call EXCEPT ![s] = NoCall] /\ UNCHANGED <<card, shown>>
  <2>1. TypeOK'
    BY <1>a, <1>1, <1>2, Constants DEF TypeOK, CallStates
  <2>2. CardInv'
    BY <1>a, <1>1, <1>2 DEF CardInv, NoneOpen, Open
  <2>3. Busy' \subseteq Busy /\ (Flying' <=> Flying)
    BY <1>a, <1>2 DEF Busy, Flying, Open
  <2>4. BusyBound'
    BY <1>1, <2>3, BusyLess
  <2>5. QED
    BY <2>1, <2>2, <2>4 DEF Base
<1>3. ASSUME NEW c \in DOMAIN card, NEW q \in Cards,
             card[c].flight = s, card' = [card EXCEPT ![c] = q],
             q.at = card[c].at, q.draft = card[c].draft,
             \/ /\ q.flight = s /\ q.timer = FALSE
                /\ call' = [call EXCEPT ![s] = Finding(q.draft)] /\ shown' = shown
             \/ /\ q.flight = Nobody /\ q.timer = card[c].timer
                /\ call' = [call EXCEPT ![s] = NoCall]
                /\ shown' = IF Open(c) THEN shown \cup q.draft ELSE shown
      PROVE  Base'
  <2>1. /\ card' \in Seq(Cards) /\ Len(card') = Len(card) /\ DOMAIN card' = DOMAIN card
        /\ card'[c] = q /\ \A d \in DOMAIN card : d # c => card'[d] = card[d]
    BY <1>a, <1>3, CardSet
  <2>2. q.draft \in Drafts
    BY DEF Cards
  <2>3. call' \in [Servers -> CallStates]
    BY <1>a, <1>3, <2>2, Constants
  <2>4. shown' \in Drafts
    BY <1>a, <1>3, <2>2 DEF TypeOK, Drafts
  <2>5. TypeOK'
    BY <1>a, <1>1, <2>1, <2>3, <2>4 DEF TypeOK, CallStates
  <2>6. CardInv'
    BY <1>a, <1>1, <1>3, <2>1, CardsStay DEF CardInv
  <2>7. CASE q.flight = s
    <3>1. Busy' \subseteq Busy
      BY <1>a, <1>b, <1>3 DEF Busy
    <3>2. Flying' <=> Flying
      BY <1>3, <2>1, <2>7 DEF Flying, Open
    <3>3. BusyBound'
      BY <1>1, <3>1, <3>2, BusyLess
    <3>4. QED
      BY <2>5, <2>6, <3>3 DEF Base
  <2>8. CASE q.flight # s
    <3>1. Busy' \subseteq Busy /\ s \notin Busy'
      BY <1>a, <1>3, <2>8 DEF Busy
    <3>2. BusyBound'
      BY <1>b, <1>1, <3>1, BusyLess
    <3>3. QED
      BY <2>5, <2>6, <3>2 DEF Base
  <2>9. QED
    BY <2>7, <2>8
<1>4. ASSUME ~ (~ Awaited(s) /\ call' = [call EXCEPT ![s] = NoCall] /\ UNCHANGED <<card, shown>>)
      PROVE  Base'
  <2>1. \E c \in DOMAIN card, q \in Cards :
          /\ card[c].flight = s /\ card' = [card EXCEPT ![c] = q]
          /\ q.at = card[c].at /\ q.draft = card[c].draft /\ q.stored = call[s].draft
          /\ \/ /\ q.flight = s /\ q.status = "saving" /\ q.timer = FALSE
                /\ call' = [call EXCEPT ![s] = Finding(q.draft)] /\ shown' = shown
             \/ /\ q.flight = Nobody /\ q.status = "saved" /\ q.timer = card[c].timer
                /\ q.stored = q.draft /\ call' = [call EXCEPT ![s] = NoCall]
                /\ shown' = IF Open(c) THEN shown \cup q.draft ELSE shown
    BY <1>4, AnswerStep
  <2>2. QED
    BY <1>3, <2>1
<1>5. QED
  BY <1>2, <1>4

(* A failure, and a lost connection.                                         *)
LEMMA FaultBase ==
  ASSUME Base, NEW s \in Servers, Fails(s) \/ Cut(s)
  PROVE  Base'
<1>a. /\ TypeOK /\ CardInv /\ call \in [Servers -> CallStates] /\ faults \in 0 .. MaxFaults /\ loose \in Nat
  BY DEF Base, TypeOK, CallStates
<1>1. Told(s) /\ faults' = faults + 1 /\ faults' \in 0 .. MaxFaults /\ UNCHANGED <<view, arriving, edits, resent, shown>>
  <2>1. Told(s) /\ faults' = faults + 1 /\ faults < MaxFaults /\ UNCHANGED <<view, arriving, edits, resent, shown>>
    BY DEF Fails, Cut, Fault
  <2>2. QED
    BY <1>a, <2>1, BoundsAssumption
<1>2. /\ card' \in Seq(Cards) /\ Len(card') = Len(card) /\ DOMAIN card' = DOMAIN card
      /\ \A c \in DOMAIN card : card'[c].at = card[c].at /\ card'[c].timer = card[c].timer
  BY <1>a, <1>1, ToldCards
<1>3. rows' \in Seq(Drafts)
  BY <1>a, WrittenRows DEF Fails, Cut, TypeOK
<1>4. CASE Fails(s)
  <2>1. call' = [call EXCEPT ![s] = NoCall] /\ loose' = loose /\ call[s].pc # "idle"
    BY <1>4 DEF Fails
  <2>2. TypeOK'
    BY <1>a, <1>1, <1>2, <1>3, <2>1, Constants DEF TypeOK, CallStates
  <2>3. CardInv'
    BY <1>a, <1>1, <1>2, <2>1, CardsStay DEF CardInv
  <2>4. s \in Busy /\ s \notin Busy' /\ Busy' \subseteq Busy
    BY <1>a, <2>1 DEF Busy, NoCall
  <2>5. BusyBound'
    BY <2>1, <2>4, BusyLess
  <2>6. QED
    BY <2>2, <2>3, <2>5 DEF Base
<1>5. CASE Cut(s)
  <2>1. call' = call /\ loose' = loose + 1 /\ rows' = rows
    BY <1>5 DEF Cut
  <2>2. TypeOK'
    BY <1>a, <1>1, <1>2, <2>1 DEF TypeOK, CallStates
  <2>3. CardInv'
    BY <1>a, <1>1, <1>2, <2>1, CardsStay DEF CardInv
  <2>4. BusyBound'
    BY <2>1, BusyLess DEF Busy
  <2>5. QED
    BY <2>2, <2>3, <2>4 DEF Base
<1>6. QED
  BY <1>4, <1>5

(* A write that is sent again.                                               *)
LEMMA AgainBase ==
  ASSUME Base, NEW s \in Servers, SentAgain(s)
  PROVE  Base'
<1>1. /\ TypeOK /\ CardInv /\ faults' = faults + 1 /\ faults < MaxFaults
      /\ resent' \in {resent, resent + 1}
      /\ UNCHANGED <<view, arriving, card, call, edits, loose, shown>>
  BY DEF Base, SentAgain, Fault
<1>2. rows' \in Seq(Drafts)
  BY <1>1, WrittenRows DEF SentAgain
<1>3. TypeOK'
  BY <1>1, <1>2, BoundsAssumption DEF TypeOK
<1>4. CardInv'
  <2>1. Len(card) \in Nat /\ loose \in Nat /\ faults \in Nat
    BY <1>1, LenProperties DEF TypeOK
  <2>2. QED
    BY <1>1, <2>1 DEF CardInv, NoneOpen, Open
<1>5. BusyBound'
  BY <1>1 DEF Base, BusyBound, Busy, Flying, Open
<1>6. QED
  BY <1>3, <1>4, <1>5 DEF Base

(* Base holds throughout.                                                    *)
LEMMA BaseHolds == Spec => []Base
<1>1. Init => Base
  <2> SUFFICES ASSUME Init PROVE Base
    OBVIOUS
  <2>1. rows \in Seq(Drafts)
    <3>1. <<>> \in Seq(Drafts) /\ <<{}>> \in Seq(Drafts)
      BY Constants, EmptySeq
    <3>2. QED
      BY <3>1 DEF Init
  <2>2. card = <<>> /\ card \in Seq(Cards) /\ Len(card) = 0 /\ DOMAIN card = {}
    BY EmptySeq DEF Init
  <2>3. TypeOK
    BY <2>1, <2>2, Constants, BoundsAssumption DEF Init, TypeOK, CallStates
  <2>4. NoneOpen /\ ~ Flying
    BY <2>2 DEF NoneOpen, Flying
  <2>5. CardInv
    BY <2>2, <2>4 DEF Init, CardInv
  <2>6. Busy = {}
    BY DEF Init, Busy
  <2>7. BusyBound
    BY <2>4, <2>6, FS_EmptySet DEF Init, BusyBound
  <2>8. QED
    BY <2>3, <2>5, <2>7 DEF Base
<1>2. Base /\ [Next]_vars => Base'
  <2> SUFFICES ASSUME Base, [Next]_vars PROVE Base'
    OBVIOUS
  <2>1. CASE UNCHANGED vars
    BY <2>1 DEF vars, Base, TypeOK, CardInv, BusyBound, Busy, Flying, NoneOpen, Open
  <2>2. QED
    BY <2>1, PageBase, EditBase, RunBase, ServeBase, AnswerBase, AgainBase, FaultBase DEF Next, Serve
<1>3. QED
  BY <1>1, <1>2, PTL DEF Spec

(***************************************************************************)
(* Type correctness, and with it that a queue that starts a save always    *)
(* finds a server of the model idle.                                       *)
(***************************************************************************)
THEOREM TypeCorrect == Spec => []TypeOK
<1>1. Base => TypeOK
  BY DEF Base
<1>2. QED
  BY <1>1, BaseHolds, PTL
-----------------------------------------------------------------------------
(* Second rows.                                                              *)

\* The saves that found no row and are about to create one.
Creators == {s \in Servers : call[s].pc = "write" /\ call[s].row = 0}

\* The rows there are and may still be.
RowsBound == Len(rows) + Cardinality(Creators) <= 1 + loose + resent

(* A step writes nothing, and then only a read of the empty base makes a     *)
(* creator, or one save writes and is no creator any more, or it writes and  *)
(* is sent again.                                                            *)
LEMMA RowStep ==
  ASSUME Base, [Next]_vars
  PROVE  /\ loose' \in {loose, loose + 1}
         /\ \/ /\ rows' = rows /\ (rows # <<>> => Creators' \subseteq Creators)
               /\ resent' = resent
            \/ \E s \in Servers :
                 /\ call[s].pc = "write" /\ rows' = Written(s)
                 /\ Creators' \subseteq Creators \ {s} /\ resent' = resent
            \/ \E s \in Servers :
                 /\ call[s].pc = "write" /\ rows' = Written(s)
                 /\ Creators' = Creators
                 /\ resent' = IF call[s].row = 0 THEN resent + 1 ELSE resent
<1>a. call \in [Servers -> CallStates] /\ \A draft : Finding(draft).pc # "write"
  BY DEF Base, TypeOK, CallStates, Finding
<1>1. CASE UNCHANGED vars \/ Page \/ Render \/ Mount
  <2>1. rows' = rows /\ call' = call /\ loose' = loose /\ resent' = resent
    BY <1>1 DEF vars, Page, Render, Mount
  <2>2. QED
    BY <2>1 DEF Creators
<1>2. ASSUME NEW c \in DOMAIN card, Edit(c) \/ Drop(c)
      PROVE  rows' = rows /\ call' = call /\ loose' \in {loose, loose + 1} /\ resent' = resent
  BY <1>2 DEF Edit, Drop, Loosened
<1>3. ASSUME NEW c \in DOMAIN card, TimerFires(c) \/ Save(c) \/ SaveAndNext(c)
      PROVE  rows' = rows /\ Creators' \subseteq Creators /\ loose' \in {loose, loose + 1} /\ resent' = resent
  <2>1. PICK q \in Cards :
          /\ loose' = IF SaveAndNext(c) /\ q.flight # Nobody THEN loose + 1 ELSE loose
          /\ \/ call' = call
             \/ q.flight \in Servers /\ call' = [call EXCEPT ![q.flight] = Finding(q.draft)]
    <3>1. \E q \in Cards :
              /\ card' = [card EXCEPT ![c] = q]
              /\ q.at = (IF SaveAndNext(c) THEN "next" ELSE "open")
              /\ q.draft = card[c].draft /\ q.stored = card[c].stored /\ q.timer = FALSE
              /\ loose' = IF SaveAndNext(c) /\ q.flight # Nobody THEN loose + 1 ELSE loose
              /\ \/ call' = call /\ q.flight = card[c].flight /\ q.status = card[c].status
                 \/ /\ card[c].flight = Nobody /\ q.status = "saving" /\ q.flight \in Servers
                    /\ call[q.flight] = NoCall
                    /\ call' = [call EXCEPT ![q.flight] = Finding(q.draft)]
      BY <1>3, QueueStep
    <3>2. QED
      BY <3>1
  <2>2. rows' = rows /\ resent' = resent
    BY <1>3, QueueStep
  <2>3. Creators' \subseteq Creators
    BY <1>a, <2>1 DEF Creators
  <2>4. QED
    BY <2>1, <2>2, <2>3
<1>4. ASSUME NEW s \in Servers, Find(s)
      PROVE  rows' = rows /\ loose' = loose /\ resent' = resent /\ (rows # <<>> => Creators' \subseteq Creators)
  <2>1. rows' = rows /\ loose' = loose /\ resent' = resent
        /\ call' = [call EXCEPT ![s].pc = "write", ![s].row = IF rows = <<>> THEN 0 ELSE 1]
    BY <1>4 DEF Find
  <2>2. QED
    BY <1>a, <2>1 DEF Creators, CallStates
<1>5. ASSUME NEW s \in Servers, Write(s)
      PROVE  /\ loose' = loose /\ resent' = resent /\ call[s].pc = "write" /\ rows' = Written(s)
             /\ Creators' \subseteq Creators \ {s}
  <2>1. loose' = loose /\ resent' = resent /\ call[s].pc = "write" /\ rows' = Written(s)
        /\ call' = [call EXCEPT ![s].pc = "answer"]
    BY <1>5 DEF Write
  <2>2. QED
    BY <1>a, <2>1 DEF Creators, CallStates
<1>6. ASSUME NEW s \in Servers, Answer(s)
      PROVE  rows' = rows /\ loose' = loose /\ resent' = resent /\ Creators' \subseteq Creators
  <2>1. rows' = rows /\ loose' = loose /\ resent' = resent
        /\ (call' = [call EXCEPT ![s] = NoCall] \/ \E draft : call' = [call EXCEPT ![s] = Finding(draft)])
    BY <1>6, AnswerStep
  <2>2. QED
    BY <1>a, <2>1 DEF Creators, NoCall
<1>7. ASSUME NEW s \in Servers, Fails(s)
      PROVE  /\ loose' = loose /\ resent' = resent /\ Creators' \subseteq Creators \ {s}
             /\ rows' = rows \/ (call[s].pc = "write" /\ rows' = Written(s))
  <2>1. loose' = loose /\ resent' = resent /\ (rows' = rows \/ (call[s].pc = "write" /\ rows' = Written(s)))
        /\ call' = [call EXCEPT ![s] = NoCall]
    BY <1>7 DEF Fails
  <2>2. QED
    BY <1>a, <2>1 DEF Creators, NoCall
<1>8. ASSUME NEW s \in Servers, Cut(s)
      PROVE  rows' = rows /\ loose' = loose + 1 /\ resent' = resent /\ Creators' = Creators
  BY <1>8 DEF Cut, Creators
<1>0. ASSUME NEW s \in Servers, SentAgain(s)
      PROVE  /\ loose' = loose /\ call[s].pc = "write" /\ rows' = Written(s) /\ Creators' = Creators
             /\ resent' = IF call[s].row = 0 THEN resent + 1 ELSE resent
  BY <1>0 DEF SentAgain, Creators
<1>9. CASE \E c \in DOMAIN card : Edit(c) \/ TimerFires(c) \/ Save(c) \/ Drop(c) \/ SaveAndNext(c)
  <2>1. rows' = rows /\ Creators' \subseteq Creators /\ loose' \in {loose, loose + 1} /\ resent' = resent
    BY <1>2, <1>3, <1>9 DEF Creators
  <2>2. QED
    BY <2>1
<1>10. CASE \E s \in Servers : Serve(s) \/ SentAgain(s) \/ Fails(s) \/ Cut(s)
  <2>1. PICK s \in Servers : Serve(s) \/ SentAgain(s) \/ Fails(s) \/ Cut(s)
    BY <1>10
  <2>2. CASE Find(s)
    BY <1>4, <2>2
  <2>3. CASE Write(s)
    BY <1>5, <2>3
  <2>4. CASE Answer(s)
    BY <1>6, <2>4
  <2>5. CASE Fails(s)
    BY <1>7, <2>5
  <2>6. CASE Cut(s)
    BY <1>8, <2>6
  <2>7. CASE SentAgain(s)
    BY <1>0, <2>7
  <2>8. QED
    BY <2>1, <2>2, <2>3, <2>4, <2>5, <2>6, <2>7 DEF Serve
<1>11. QED
  BY <1>1, <1>9, <1>10 DEF Next

(* The creators are among those at work, and finitely many, whatever the    *)
(* calls are.                                                                *)
LEMMA CreatorsFinite ==
  ASSUME NEW f
  PROVE  LET busy == {s \in Servers : f[s] # NoCall}
             creators == {s \in Servers : f[s].pc = "write" /\ f[s].row = 0}
         IN  /\ IsFiniteSet(busy) /\ IsFiniteSet(creators)
             /\ Cardinality(busy) \in Nat /\ Cardinality(creators) \in Nat
             /\ Cardinality(creators) <= Cardinality(busy)
<1> DEFINE busy == {s \in Servers : f[s] # NoCall}
           creators == {s \in Servers : f[s].pc = "write" /\ f[s].row = 0}
<1>1. busy \in SUBSET Servers /\ creators \in SUBSET busy
  BY DEF NoCall
<1> HIDE DEF busy, creators
<1>2. IsFiniteSet(busy)
  BY <1>1, Constants, FS_Subset
<1>3. IsFiniteSet(creators) /\ Cardinality(creators) <= Cardinality(busy)
  BY <1>1, <1>2, FS_Subset
<1>4. Cardinality(busy) \in Nat /\ Cardinality(creators) \in Nat
  BY <1>2, <1>3, FS_CardinalityType
<1>5. QED
  BY <1>2, <1>3, <1>4 DEF busy, creators

(* Every step keeps the bound.                                               *)
LEMMA RowsBoundStep ==
  ASSUME Base, Base', RowsBound, [Next]_vars
  PROVE  RowsBound'
<1> DEFINE B == Creators
           C == Creators'
           N == Cardinality(Creators)
           M == Cardinality(Creators')
<1>a. /\ loose \in Nat /\ loose' \in Nat /\ loose <= loose'
      /\ resent \in Nat /\ resent' \in Nat /\ resent <= resent' /\ Len(rows) \in Nat /\ Len(rows') \in Nat
      /\ rows \in Seq(Drafts) /\ rows' \in Seq(Drafts) /\ TypeOK
  <2>1. loose \in Nat /\ loose' \in Nat /\ resent \in Nat /\ resent' \in Nat /\ rows \in Seq(Drafts) /\ rows' \in Seq(Drafts) /\ TypeOK
    BY DEF Base, TypeOK
  <2>2. QED
    BY <2>1, RowStep, LenProperties
<1>b. /\ IsFiniteSet(B) /\ IsFiniteSet(C) /\ N \in Nat /\ M \in Nat /\ N = Cardinality(B) /\ M = Cardinality(C)
  <2>1. IsFiniteSet(B) /\ N \in Nat
    BY CreatorsFinite DEF Creators
  <2>2. IsFiniteSet(C) /\ M \in Nat
    BY CreatorsFinite DEF Creators
  <2>3. QED
    BY <2>1, <2>2
<1>c. Len(rows) + N <= 1 + loose + resent
  BY DEF RowsBound
<1>1. CASE rows' = <<>>
  <2>1. Cardinality(Busy') \in Nat /\ M <= Cardinality(Busy')
    BY CreatorsFinite DEF Creators, Busy
  <2>2. Cardinality(Busy') <= loose' + (IF Flying' THEN 1 ELSE 0)
    BY DEF Base, BusyBound
  <2>3. Len(rows') = 0
    BY <1>1, EmptySeq
  <2> HIDE DEF M
  <2>4. Len(rows') + M <= 1 + loose' + resent'
    BY <1>a, <1>b, <2>1, <2>2, <2>3
  <2>5. QED
    BY <2>4 DEF RowsBound, M
<1>2. CASE rows' # <<>> /\ rows' = rows /\ C \subseteq B
  <2>1. M <= N
    BY <1>b, <1>2, FS_Subset
  <2> HIDE DEF M, N
  <2>2. Len(rows') + M <= 1 + loose' + resent'
    BY <1>a, <1>b, <1>c, <1>2, <2>1
  <2>3. QED
    BY <2>2 DEF RowsBound, M
<1>3. ASSUME NEW s \in Servers, call[s].pc = "write", rows' = Written(s), C \subseteq B \ {s}
      PROVE  RowsBound'
  <2>1. Len(rows') = IF call[s].row = 0 THEN Len(rows) + 1 ELSE Len(rows)
    BY <1>a, <1>3, WrittenRows
  <2>2. C \in SUBSET B /\ M <= N /\ (N = M => B = C)
    BY <1>b, <1>3, FS_Subset
  <2>3. call[s].row = 0 => M # N
    <3>1. call[s].row = 0 => s \in B /\ s \notin C
      BY <1>3 DEF Creators
    <3>2. QED
      BY <2>2, <3>1
  <2> HIDE DEF M, N
  <2>4. Len(rows') + M <= 1 + loose' + resent'
    BY <1>a, <1>b, <1>c, <2>1, <2>2, <2>3
  <2>5. QED
    BY <2>4 DEF RowsBound, M
<1>4. ASSUME NEW s \in Servers, call[s].pc = "write", rows' = Written(s), C = B,
             resent' = IF call[s].row = 0 THEN resent + 1 ELSE resent
      PROVE  RowsBound'
  <2>1. Len(rows') = IF call[s].row = 0 THEN Len(rows) + 1 ELSE Len(rows)
    BY <1>a, <1>4, WrittenRows
  <2>2. M = N
    BY <1>b, <1>4
  <2> HIDE DEF M, N
  <2>3. Len(rows') + M <= 1 + loose' + resent'
    BY <1>a, <1>b, <1>c, <1>4, <2>1, <2>2
  <2>4. QED
    BY <2>3 DEF RowsBound, M
<1>5. QED
  BY <1>1, <1>2, <1>3, <1>4, RowStep

(***************************************************************************)
(* SecondRowIsLoose: for every second review of the tuple a call was left  *)
(* or cut off, or a create sent again.  The count has to take in the rows  *)
(* that are still to come from saves that have found none.                 *)
(***************************************************************************)
THEOREM SecondRowsAreLoose == Spec => []SecondRowIsLoose
<1>1. Init => RowsBound
  <2> SUFFICES ASSUME Init PROVE RowsBound
    OBVIOUS
  <2>1. Creators = {}
    BY DEF Init, Creators, NoCall
  <2>2. loose = 0 /\ resent = 0
    BY DEF Init
  <2>3. Cardinality(Creators) = 0
    BY <2>1, FS_EmptySet
  <2>4. \A n \in Nat : n <= 1 => n + 0 <= 1 + 0
    OBVIOUS
  <2>5. Len(rows) \in Nat /\ Len(rows) <= 1
    <3>1. CASE rows = <<>>
      BY <3>1, EmptySeq
    <3>2. CASE rows = <<{}>>
      BY <3>2
    <3>3. QED
      BY <3>1, <3>2 DEF Init
  <2>6. Len(rows) + 0 <= 1 + 0
    BY <2>4, <2>5
  <2>7. QED
    BY <2>2, <2>3, <2>6 DEF RowsBound
<1>2. Base /\ Base' /\ RowsBound /\ [Next]_vars => RowsBound'
  BY RowsBoundStep
<1>3. Base /\ RowsBound => SecondRowIsLoose
  <2>1. SUFFICES ASSUME Base, RowsBound PROVE SecondRowIsLoose
    OBVIOUS
  <2>2. rows \in Seq(Drafts) /\ loose \in Nat /\ resent \in Nat
    BY <2>1 DEF Base, TypeOK
  <2>3. Len(rows) \in Nat /\ Cardinality(Creators) \in Nat
    BY <2>2, LenProperties, CreatorsFinite DEF Creators
  <2>4. QED
    BY <2>1, <2>2, <2>3 DEF RowsBound, SecondRowIsLoose
<1>4. QED
  BY <1>1, <1>2, <1>3, BaseHolds, PTL DEF Spec
-----------------------------------------------------------------------------
(* What is shown as saved, while no call is loose and there is one row.      *)

\* The calls at work are the flights of the open card.
FlightInv ==
    /\ \A s \in Busy : \E c \in DOMAIN card : Open(c) /\ card[c].flight = s
    /\ \A c \in DOMAIN card : card[c].flight # Nobody => Open(c) /\ card[c].flight \in Busy

\* A call writes over the row there is, or repeats a create of its own that has
\* landed, and carries what was shown as saved.
CallInv ==
    \A s \in Busy :
        /\ call[s].pc = "write" =>
             IF rows = <<>> THEN call[s].row = 0
             ELSE call[s].row = 1 \/ (call[s].row = 0 /\ rows = <<call[s].draft>>)
        /\ call[s].pc = "answer" => rows = <<call[s].draft>>
        /\ shown \subseteq call[s].draft

\* So does everything a later call may be made from.
ShownInv ==
    /\ Len(rows) <= 1
    /\ shown \subseteq DraftOf(rows)
    /\ view # Expired => shown \subseteq DraftOf(view)
    /\ arriving # Nothing => shown \subseteq arriving
    /\ \A c \in DOMAIN card :
         Open(c) => /\ shown \subseteq card[c].draft
                    /\ card[c].status = "saved" =>
                         card[c].flight = Nobody /\ rows = <<card[c].draft>>

Lone == FlightInv /\ CallInv /\ ShownInv

\* The inductive invariant of SavedIsTrue.
SavedInv == loose = 0 /\ Len(rows) <= 1 => Lone

(* A single row is the draft the page shows.                                 *)
LEMMA DraftOfOne ==
  ASSUME NEW draft
  PROVE  DraftOf(<<draft>>) = draft /\ <<draft>> # <<>> /\ Last(<<draft>>) = draft /\ Len(<<draft>>) = 1
BY DEF DraftOf, Last

(* A call at work is the flight of the one open card, and alone.             *)
LEMMA OneBusy ==
  ASSUME Base, Lone, NEW s \in Busy
  PROVE  \E c \in DOMAIN card :
           /\ Open(c) /\ card[c].flight = s
           /\ \A d \in DOMAIN card : Open(d) \/ card[d].flight # Nobody => d = c
           /\ \A t \in Busy : t = s
<1>1. PICK c \in DOMAIN card : Open(c) /\ card[c].flight = s
  BY DEF Lone, FlightInv
<1>2. \A d \in DOMAIN card : Open(d) => d = c
  BY <1>1 DEF Base, CardInv
<1>3. \A d \in DOMAIN card : card[d].flight # Nobody => d = c
  BY <1>2 DEF Lone, FlightInv
<1>4. \A t \in Busy : t = s
  BY <1>1, <1>2 DEF Lone, FlightInv
<1>5. QED
  BY <1>1, <1>2, <1>3, <1>4

(* A server that serves a call is at work.                                   *)
LEMMA ServerBusy ==
  ASSUME Base, NEW s \in Servers, call[s].pc # "idle"
  PROVE  s \in Busy
BY DEF Busy, NoCall

(* The open card without a flight: nobody is at work.                        *)
LEMMA NoneBusy ==
  ASSUME Base, Lone, \A c \in DOMAIN card : Open(c) => card[c].flight = Nobody
  PROVE  Busy = {} /\ \A c \in DOMAIN card : card[c].flight = Nobody
<1>1. \A s \in Busy : s # Nobody
  BY Constants DEF Busy
<1>2. QED
  BY <1>1 DEF Lone, FlightInv

(* The page's steps.                                                         *)
LEMMA PageSaved ==
  ASSUME Base, Lone, Page \/ Render \/ Mount
  PROVE  Lone'
<1>1. CASE Page \/ Render
  <2>1. UNCHANGED <<rows, card, call, edits, faults, loose, resent, shown>>
    BY <1>1 DEF Page, Render
  <2>2. FlightInv' /\ CallInv'
    BY <2>1 DEF Lone, FlightInv, CallInv, Busy, Open
  <2>3. view' # Expired => shown \subseteq DraftOf(view')
    BY <1>1 DEF Page, Fill, Lapse, Render, Lone, ShownInv
  <2>4. arriving' # Nothing => shown \subseteq arriving'
    <3>1. CASE Page
      BY <3>1 DEF Page, Lone, ShownInv
    <3>2. CASE Render
      BY <3>2 DEF Render, Lone, ShownInv
    <3>3. QED
      BY <1>1, <3>1, <3>2
  <2>5. ShownInv'
    BY <2>1, <2>3, <2>4 DEF Lone, ShownInv, Open, DraftOf
  <2>6. QED
    BY <2>2, <2>5 DEF Lone
<1>2. CASE Mount
  <2> DEFINE q == [at |-> "open", draft |-> arriving, stored |-> arriving,
                   flight |-> Nobody, timer |-> FALSE, status |-> "idle"]
  <2>1. arriving # Nothing /\ card' = Append(card, q) /\ arriving' = Nothing
        /\ UNCHANGED <<rows, view, call, edits, faults, loose, resent, shown>>
    BY <1>2 DEF Mount
  <2>2. q.draft = arriving /\ q.flight = Nobody /\ q.status = "idle"
    OBVIOUS
  <2>3. q \in Cards /\ card \in Seq(Cards)
    BY <2>1 DEF Base, TypeOK, Cards
  <2> HIDE DEF q
  <2>4. \A c \in DOMAIN card' : card'[c] = q \/ (c \in DOMAIN card /\ card'[c] = card[c])
    BY <2>1, <2>3, AppendProperties, LenProperties
  <2>5. Busy = {} /\ \A c \in DOMAIN card : card[c].flight = Nobody /\ ~ Open(c)
    BY <2>1, NoneBusy DEF Base, CardInv, NoneOpen
  <2>6. FlightInv' /\ CallInv'
    <3>1. Busy' = {}
      BY <2>1, <2>5 DEF Busy
    <3>2. \A c \in DOMAIN card' : card'[c].flight = Nobody
      BY <2>2, <2>4, <2>5
    <3>3. QED
      BY <3>1, <3>2 DEF FlightInv, CallInv
  <2>7. \A c \in DOMAIN card' : Open(c)' => card'[c].draft = arriving /\ card'[c].status = "idle"
    BY <2>2, <2>4, <2>5 DEF Open
  <2>8. ShownInv'
    BY <2>1, <2>7 DEF Lone, ShownInv, DraftOf
  <2>9. QED
    BY <2>6, <2>8 DEF Lone
<1>3. QED
  BY <1>1, <1>2

(* Typing, and leaving without saving.                                       *)
LEMMA EditSaved ==
  ASSUME Base, Lone, loose = 0, loose' = 0, NEW c \in DOMAIN card, Edit(c) \/ Drop(c)
  PROVE  Lone'
<1>a. card \in Seq(Cards) /\ card[c] \in Cards /\ Open(c) /\ \A d \in DOMAIN card : Open(d) => d = c
  BY ElementOfSeq DEF Base, TypeOK, CardInv, Edit, Drop
<1>1. CASE Edit(c)
  <2> DEFINE q == [card[c] EXCEPT !.draft = @ \cup {edits'}, !.timer = TRUE, !.status = "pending"]
  <2>1. card' = [card EXCEPT ![c] = q] /\ UNCHANGED <<rows, view, arriving, call, shown>>
    BY <1>1 DEF Edit
  <2>2. /\ q.at = card[c].at /\ q.flight = card[c].flight /\ q.status = "pending"
        /\ card[c].draft \subseteq q.draft
    BY <1>a DEF Cards
  <2> HIDE DEF q
  <2>3. DOMAIN card' = DOMAIN card /\ card'[c] = q /\ \A d \in DOMAIN card : d # c => card'[d] = card[d]
    BY <2>1
  <2>4. Busy' = Busy /\ \A d \in DOMAIN card : (Open(d)' <=> Open(d)) /\ card'[d].flight = card[d].flight
    BY <2>1, <2>2, <2>3 DEF Busy, Open
  <2>5. FlightInv'
    BY <2>3, <2>4 DEF Lone, FlightInv
  <2>6. CallInv'
    BY <2>1, <2>4 DEF Lone, CallInv
  <2>7. ShownInv'
    BY <1>a, <2>1, <2>2, <2>3, <2>4 DEF Lone, ShownInv, DraftOf
  <2>8. QED
    BY <2>5, <2>6, <2>7 DEF Lone
<1>2. CASE Drop(c)
  <2> DEFINE q == [card[c] EXCEPT !.at = "dropped", !.timer = FALSE]
  <2>1. card' = [card EXCEPT ![c] = q] /\ UNCHANGED <<rows, view, arriving, call, shown>>
        /\ card[c].flight = Nobody
    <3>1. card' = [card EXCEPT ![c] = q] /\ UNCHANGED <<rows, view, arriving, call, shown>>
      BY <1>2 DEF Drop
    <3>2. loose' = IF card[c].flight = Nobody THEN loose ELSE loose + 1
      BY <1>2 DEF Drop, Loosened
    <3>3. QED
      BY <3>1, <3>2
  <2>2. q.at = "dropped" /\ q.flight = Nobody
    BY <1>a, <2>1 DEF Cards
  <2> HIDE DEF q
  <2>3. DOMAIN card' = DOMAIN card /\ card'[c] = q /\ \A d \in DOMAIN card : d # c => card'[d] = card[d]
    BY <2>1
  <2>4. Busy = {} /\ \A d \in DOMAIN card : card[d].flight = Nobody
    BY <1>a, <2>1, NoneBusy
  <2>5. \A d \in DOMAIN card' : ~ Open(d)' /\ card'[d].flight = Nobody
    BY <1>a, <2>2, <2>3, <2>4 DEF Open
  <2>6. FlightInv' /\ CallInv'
    BY <2>1, <2>4, <2>5 DEF FlightInv, CallInv, Busy
  <2>7. ShownInv'
    BY <2>1, <2>5 DEF Lone, ShownInv, DraftOf
  <2>8. QED
    BY <2>6, <2>7 DEF Lone
<1>3. QED
  BY <1>1, <1>2

(* The steps that run the queue of the open card.                            *)
LEMMA RunSaved ==
  ASSUME Base, Lone, loose = 0, loose' = 0,
         NEW c \in DOMAIN card, TimerFires(c) \/ Save(c) \/ SaveAndNext(c)
  PROVE  Lone'
<1>a. /\ Open(c) /\ \A d \in DOMAIN card : Open(d) => d = c
      /\ UNCHANGED <<rows, view, arriving, shown>> /\ card \in Seq(Cards)
      /\ call \in [Servers -> CallStates]
  BY QueueStep DEF Base, CardInv, TypeOK, CallStates
<1>1. PICK q \in Cards :
           /\ card' = [card EXCEPT ![c] = q]
           /\ q.at = (IF SaveAndNext(c) THEN "next" ELSE "open")
           /\ q.draft = card[c].draft /\ q.stored = card[c].stored /\ q.timer = FALSE
           /\ loose' = IF SaveAndNext(c) /\ q.flight # Nobody THEN loose + 1 ELSE loose
           /\ \/ call' = call /\ q.flight = card[c].flight /\ q.status = card[c].status
              \/ /\ card[c].flight = Nobody /\ q.status = "saving" /\ q.flight \in Servers
                 /\ call[q.flight] = NoCall
                 /\ call' = [call EXCEPT ![q.flight] = Finding(q.draft)]
  BY QueueStep
<1>2. DOMAIN card' = DOMAIN card /\ card'[c] = q /\ \A d \in DOMAIN card : d # c => card'[d] = card[d]
  BY <1>a, <1>1, CardSet
<1>3. q.flight # Nobody => q.at = "open"
  BY <1>1
<1>4. \A d \in DOMAIN card : Open(d)' => d = c
  BY <1>a, <1>2 DEF Open
<1>5. \A d \in DOMAIN card : d # c => card'[d].flight = Nobody
  BY <1>a, <1>2 DEF Lone, FlightInv
<1>6. shown \subseteq q.draft
  BY <1>a, <1>1 DEF Lone, ShownInv
<1>7. CASE call' = call /\ q.flight = card[c].flight /\ q.status = card[c].status
  <2>1. Busy' = Busy
    BY <1>7 DEF Busy
  <2>2. \A s \in Busy : q.flight = s
    BY <1>a, <1>7 DEF Lone, FlightInv
  <2>3. q.flight # Nobody => q.flight \in Busy
    BY <1>7 DEF Lone, FlightInv
  <2>4. \A s \in Busy : s # Nobody
    BY Constants DEF Busy
  <2>5. FlightInv'
    BY <1>2, <1>3, <1>5, <2>1, <2>2, <2>3, <2>4 DEF FlightInv, Open
  <2>6. CallInv'
    BY <1>a, <1>7, <2>1 DEF Lone, CallInv
  <2>7. ShownInv'
    BY <1>a, <1>1, <1>2, <1>4, <1>6, <1>7 DEF Lone, ShownInv, DraftOf
  <2>8. QED
    BY <2>5, <2>6, <2>7 DEF Lone
<1>8. CASE /\ card[c].flight = Nobody /\ q.status = "saving" /\ q.flight \in Servers
           /\ call' = [call EXCEPT ![q.flight] = Finding(q.draft)]
  <2>1. Busy = {}
    BY <1>a, <1>8, NoneBusy
  <2>2. q.draft \in Drafts
    BY DEF Cards
  <2>3. Busy' = {q.flight}
    BY <1>a, <1>8, <2>1, <2>2, Constants DEF Busy
  <2>4. q.flight # Nobody
    BY <1>8, Constants
  <2>5. FlightInv'
    BY <1>2, <1>3, <1>5, <2>3, <2>4 DEF FlightInv, Open
  <2>6. call'[q.flight] = Finding(q.draft)
    BY <1>a, <1>8
  <2>7. CallInv'
    BY <1>a, <1>6, <2>3, <2>6 DEF CallInv, Finding
  <2>8. ShownInv'
    BY <1>a, <1>2, <1>4, <1>6, <1>8 DEF Lone, ShownInv, DraftOf
  <2>9. QED
    BY <2>5, <2>7, <2>8 DEF Lone
<1>9. QED
  BY <1>1, <1>7, <1>8

(* What a write leaves while no call is loose, unless it is a second row.    *)
LEMMA WrittenAlone ==
  ASSUME Base, Lone, NEW s \in Servers, call[s].pc = "write", Len(Written(s)) <= 1
  PROVE  Written(s) = <<call[s].draft>>
<1>1. s \in Busy /\ rows \in Seq(Drafts) /\ Len(rows) \in Nat /\ DOMAIN rows = 1 .. Len(rows)
  BY ServerBusy, LenProperties DEF Base, TypeOK
<1>2. CASE rows = <<>>
  BY <1>1, <1>2 DEF Written, Lone, CallInv
<1>3. CASE rows # <<>>
  <2>1. Len(rows) = 1
    BY <1>1, <1>3, EmptySeq DEF Lone, ShownInv
  <2>2. call[s].draft \in Drafts
    BY DEF Base, TypeOK
  <2>3. call[s].row = 1
    <3>1. call[s].row \in {0, 1}
      BY <1>1, <1>3 DEF Lone, CallInv
    <3>2. call[s].row = 0 => Len(Written(s)) = 2
      BY <2>1, WrittenRows DEF Base
    <3>3. QED
      BY <3>1, <3>2
  <2> DEFINE after == [rows EXCEPT ![1] = call[s].draft]
  <2>4. after \in Seq(Drafts) /\ Len(after) = 1 /\ after[1] = call[s].draft
    <3>1. 1 \in DOMAIN rows
      BY <1>1, <2>1
    <3>2. \A n \in DOMAIN rows : LET one == [rows EXCEPT ![n] = call[s].draft]
                               IN  one \in Seq(Drafts) /\ Len(one) = Len(rows) /\ one[n] = call[s].draft
      BY <1>1, <2>2, ExceptSeq
    <3>3. QED
      BY <2>1, <3>1, <3>2
  <2>5. after = <<call[s].draft>>
    <3> HIDE DEF after
    <3>1. QED
      BY <2>2, <2>4
  <2>6. QED
    BY <2>3, <2>5 DEF Written
<1>4. QED
  BY <1>2, <1>3

(* Looking for the row, and writing it.                                      *)
LEMMA ServeSaved ==
  ASSUME Base, Lone, NEW s \in Servers, Find(s) \/ Write(s), Len(rows') <= 1
  PROVE  Lone'
<1>a. /\ s \in Busy /\ UNCHANGED <<view, arriving, card, shown>> /\ call \in [Servers -> CallStates]
  BY ServerBusy DEF Base, TypeOK, CallStates, Find, Write
<1>1. PICK c \in DOMAIN card :
           /\ Open(c) /\ card[c].flight = s
           /\ \A d \in DOMAIN card : Open(d) \/ card[d].flight # Nobody => d = c
           /\ \A t \in Busy : t = s
  BY <1>a, OneBusy
<1>2. s # Nobody
  BY Constants
<1>3. call'[s].pc # "idle" /\ call'[s].draft = call[s].draft /\ \A t \in Servers : t # s => call'[t] = call[t]
  BY <1>a DEF Find, Write, CallStates
<1>4. Busy' = Busy
  BY <1>a, <1>3 DEF Busy, NoCall
<1>5. FlightInv'
  BY <1>a, <1>4 DEF Lone, FlightInv, Open
<1>6. CASE Find(s)
  <2>1. rows' = rows /\ call'[s].pc = "write" /\ call'[s].row = IF rows = <<>> THEN 0 ELSE 1
    BY <1>a, <1>6 DEF Find, CallStates
  <2>2. CallInv'
    BY <1>a, <1>1, <1>3, <1>4, <2>1 DEF Lone, CallInv
  <2>3. ShownInv'
    BY <1>a, <2>1 DEF Lone, ShownInv, DraftOf, Open
  <2>4. QED
    BY <1>5, <2>2, <2>3 DEF Lone
<1>7. CASE Write(s)
  <2>1. rows' = <<call[s].draft>> /\ call'[s].pc = "answer"
    BY <1>a, <1>7, WrittenAlone DEF Write, CallStates
  <2>2. CallInv'
    BY <1>a, <1>1, <1>3, <1>4, <2>1 DEF Lone, CallInv
  <2>3. Len(rows') <= 1 /\ shown \subseteq DraftOf(rows')
    BY <1>a, <2>1, DraftOfOne DEF Lone, CallInv
  <2>4. \A d \in DOMAIN card : Open(d) => d = c /\ card[d].status # "saved"
    BY <1>1, <1>2 DEF Lone, ShownInv
  <2>5. ShownInv'
    BY <1>a, <2>3, <2>4 DEF Lone, ShownInv, DraftOf, Open
  <2>6. QED
    BY <1>5, <2>2, <2>5 DEF Lone
<1>8. QED
  BY <1>6, <1>7

(* A write that is sent again.                                               *)
LEMMA AgainSaved ==
  ASSUME Base, Lone, NEW s \in Servers, SentAgain(s), Len(rows') <= 1
  PROVE  Lone'
<1>1. /\ call[s].pc = "write" /\ rows' = Written(s)
      /\ UNCHANGED <<view, arriving, card, call, shown>>
  BY DEF SentAgain
<1>2. s \in Busy /\ rows' = <<call[s].draft>>
  BY <1>1, ServerBusy, WrittenAlone
<1>3. PICK c \in DOMAIN card :
           /\ Open(c) /\ card[c].flight = s
           /\ \A d \in DOMAIN card : Open(d) \/ card[d].flight # Nobody => d = c
           /\ \A t \in Busy : t = s
  BY <1>2, OneBusy
<1>4. FlightInv' /\ Busy' = Busy
  BY <1>1 DEF Lone, FlightInv, Busy, Open
<1>5. CallInv'
  <2>1. call[s].row \in {0, 1} /\ shown \subseteq call[s].draft
    BY <1>1, <1>2 DEF Lone, CallInv
  <2>2. QED
    BY <1>1, <1>2, <1>3, <1>4, <2>1 DEF CallInv
<1>6. Len(rows') <= 1 /\ shown \subseteq DraftOf(rows')
  BY <1>2, DraftOfOne DEF Lone, CallInv
<1>7. \A d \in DOMAIN card : Open(d) => d = c /\ card[d].status # "saved"
  <2>1. s # Nobody
    BY Constants
  <2>2. QED
    BY <1>3, <2>1 DEF Lone, ShownInv
<1>8. ShownInv'
  BY <1>1, <1>6, <1>7 DEF Lone, ShownInv, DraftOf, Open
<1>9. QED
  BY <1>4, <1>5, <1>8 DEF Lone

(* The answer.                                                               *)
LEMMA AnswerSaved ==
  ASSUME Base, Lone, NEW s \in Servers, Answer(s)
  PROVE  Lone'
<1>a. /\ call[s].pc = "answer" /\ view' = Expired /\ UNCHANGED <<rows, arriving>>
      /\ card \in Seq(Cards) /\ call \in [Servers -> CallStates]
  BY AnswerStep DEF Base, TypeOK, CallStates
<1>b. s \in Busy
  BY <1>a, ServerBusy
<1>1. PICK c \in DOMAIN card :
           /\ Open(c) /\ card[c].flight = s
           /\ \A d \in DOMAIN card : Open(d) \/ card[d].flight # Nobody => d = c
           /\ \A t \in Busy : t = s
  BY <1>b, OneBusy
<1>2. rows = <<call[s].draft>> /\ shown \subseteq call[s].draft /\ shown \subseteq card[c].draft /\ s # Nobody
  BY <1>a, <1>b, <1>1, Constants DEF Lone, CallInv, ShownInv
<1>3. \E b \in DOMAIN card, q \in Cards :
        /\ card[b].flight = s /\ card' = [card EXCEPT ![b] = q]
        /\ q.at = card[b].at /\ q.draft = card[b].draft /\ q.stored = call[s].draft
        /\ \/ /\ q.flight = s /\ q.status = "saving" /\ q.timer = FALSE
              /\ call' = [call EXCEPT ![s] = Finding(q.draft)] /\ shown' = shown
           \/ /\ q.flight = Nobody /\ q.status = "saved" /\ q.timer = card[b].timer
              /\ q.stored = q.draft /\ call' = [call EXCEPT ![s] = NoCall]
              /\ shown' = IF Open(b) THEN shown \cup q.draft ELSE shown
  <2>1. Awaited(s)
    BY <1>1 DEF Awaited
  <2>2. QED
    BY <2>1, AnswerStep
<1>4. PICK q \in Cards :
        /\ card' = [card EXCEPT ![c] = q]
        /\ q.at = "open" /\ q.draft = card[c].draft /\ q.stored = call[s].draft
        /\ \/ /\ q.flight = s /\ q.status = "saving"
              /\ call' = [call EXCEPT ![s] = Finding(q.draft)] /\ shown' = shown
           \/ /\ q.flight = Nobody /\ q.status = "saved"
              /\ q.stored = q.draft /\ call' = [call EXCEPT ![s] = NoCall]
              /\ shown' = shown \cup q.draft
  BY <1>1, <1>2, <1>3 DEF Open
<1>5. DOMAIN card' = DOMAIN card /\ card'[c] = q /\ \A d \in DOMAIN card : d # c => card'[d] = card[d]
  BY <1>a, <1>4, CardSet
<1>6. \A d \in DOMAIN card : (Open(d)' => d = c) /\ (d # c => card'[d].flight = Nobody)
  BY <1>1, <1>5 DEF Open
<1>7. CASE q.flight = s /\ q.status = "saving" /\ call' = [call EXCEPT ![s] = Finding(q.draft)] /\ shown' = shown
  <2>1. q.draft \in Drafts
    BY DEF Cards
  <2>2. Busy' = {s}
    BY <1>a, <1>1, <1>7, <2>1, Constants DEF Busy
  <2>3. FlightInv'
    BY <1>4, <1>5, <1>6, <1>7, <2>2 DEF FlightInv, Open
  <2>4. call'[s] = Finding(q.draft)
    BY <1>a, <1>7
  <2>5. CallInv'
    BY <1>2, <1>4, <1>7, <2>2, <2>4 DEF CallInv, Finding
  <2>6. ShownInv'
    BY <1>a, <1>2, <1>4, <1>5, <1>6, <1>7 DEF Lone, ShownInv, DraftOf
  <2>7. QED
    BY <2>3, <2>5, <2>6 DEF Lone
<1>8. CASE /\ q.flight = Nobody /\ q.status = "saved" /\ q.stored = q.draft
           /\ call' = [call EXCEPT ![s] = NoCall] /\ shown' = shown \cup q.draft
  <2>1. Busy' = {}
    BY <1>a, <1>1, <1>8 DEF Busy
  <2>2. FlightInv' /\ CallInv'
    BY <1>5, <1>6, <1>8, <2>1 DEF FlightInv, CallInv
  <2>3. shown' = q.draft /\ rows' = <<q.draft>>
    BY <1>a, <1>2, <1>4, <1>8
  <2>4. Len(rows') <= 1 /\ shown' \subseteq DraftOf(rows')
    BY <2>3, DraftOfOne
  <2>5. arriving' = Nothing
    BY <1>a, <1>1 DEF Base, CardInv, NoneOpen
  <2>6. ShownInv'
    BY <1>a, <1>5, <1>6, <1>8, <2>3, <2>4, <2>5 DEF ShownInv
  <2>7. QED
    BY <2>2, <2>6 DEF Lone
<1>9. QED
  BY <1>4, <1>7, <1>8

(* A failure, whether the write landed or not.                               *)
LEMMA FailsSaved ==
  ASSUME Base, Lone, NEW s \in Servers, Fails(s), Len(rows') <= 1
  PROVE  Lone'
<1>a. /\ call[s].pc # "idle" /\ Told(s) /\ call' = [call EXCEPT ![s] = NoCall]
      /\ UNCHANGED <<view, arriving, shown>> /\ call \in [Servers -> CallStates] /\ TypeOK
      /\ rows' = rows \/ (call[s].pc = "write" /\ rows' = Written(s))
  BY DEF Fails, Base, TypeOK, CallStates
<1>b. s \in Busy
  BY <1>a, ServerBusy
<1>1. PICK c \in DOMAIN card :
           /\ Open(c) /\ card[c].flight = s
           /\ \A d \in DOMAIN card : Open(d) \/ card[d].flight # Nobody => d = c
           /\ \A t \in Busy : t = s
  BY <1>b, OneBusy
<1>2. /\ DOMAIN card' = DOMAIN card
      /\ \A d \in DOMAIN card :
           /\ card'[d].at = card[d].at /\ card'[d].draft = card[d].draft
           /\ IF card[d].flight = s THEN card'[d].flight = Nobody /\ card'[d].status = "error"
              ELSE card'[d] = card[d]
  BY <1>a, ToldCards
<1>3. Busy' = {}
  BY <1>a, <1>1 DEF Busy
<1>4. \A d \in DOMAIN card :
        card'[d].flight = Nobody /\ (Open(d)' => d = c /\ card'[d].status = "error" /\ card'[d].draft = card[c].draft)
  BY <1>1, <1>2 DEF Open
<1>5. FlightInv' /\ CallInv'
  BY <1>2, <1>3, <1>4 DEF FlightInv, CallInv
<1>6. Len(rows') <= 1 /\ shown \subseteq DraftOf(rows')
  <2>1. CASE rows' = rows
    BY <2>1 DEF Lone, ShownInv
  <2>2. CASE call[s].pc = "write" /\ rows' = Written(s)
    <3>1. rows' = <<call[s].draft>> /\ shown \subseteq call[s].draft
      BY <1>b, <2>2, WrittenAlone DEF Lone, CallInv
    <3>2. QED
      BY <3>1, DraftOfOne
  <2>3. QED
    BY <1>a, <2>1, <2>2
<1>7. ShownInv'
  BY <1>a, <1>1, <1>2, <1>4, <1>6 DEF Lone, ShownInv, DraftOf
<1>8. QED
  BY <1>5, <1>7 DEF Lone

(***************************************************************************)
(* SavedIsTrue: what the card shows as saved is what the base holds, and   *)
(* stays there as long as nobody leaves a save or is cut off from it, and  *)
(* there is no second row.  The invariant follows what was shown into      *)
(* every place a later save can be made from: the cached list, a page      *)
(* under way, the open card, its call.                                     *)
(***************************************************************************)
THEOREM SavedStays == Spec => []SavedIsTrue
<1>1. Init => SavedInv
  <2> SUFFICES ASSUME Init PROVE Lone
    BY DEF SavedInv
  <2>1. Busy = {} /\ card = <<>> /\ DOMAIN card = {}
    BY DEF Init, Busy
  <2>2. FlightInv /\ CallInv
    BY <2>1 DEF FlightInv, CallInv
  <2>3. Len(rows) <= 1
    <3>1. CASE rows = <<>>
      BY <3>1, EmptySeq
    <3>2. CASE rows = <<{}>>
      BY <3>2
    <3>3. QED
      BY <3>1, <3>2 DEF Init
  <2>4. ShownInv
    BY <2>1, <2>3 DEF Init, ShownInv
  <2>5. QED
    BY <2>2, <2>4 DEF Lone
<1>2. Base /\ Base' /\ SavedInv /\ [Next]_vars => SavedInv'
  <2> SUFFICES ASSUME Base, Base', SavedInv, [Next]_vars, loose' = 0, Len(rows') <= 1
               PROVE  Lone'
    BY DEF SavedInv
  <2>1. loose = 0 /\ Lone
    <3>1. loose \in Nat /\ loose' \in {loose, loose + 1}
      BY RowStep DEF Base, TypeOK
    <3>2. Len(rows) <= 1
      <4>1. rows' = rows \/ \E s \in Servers : rows' = Written(s)
        BY RowStep
      <4>2. Len(rows) \in Nat /\ TypeOK
        BY LenProperties DEF Base, TypeOK
      <4>3. QED
        BY <4>1, <4>2, WrittenRows
    <3>3. QED
      BY <3>1, <3>2 DEF SavedInv
  <2>2. CASE UNCHANGED vars
    BY <2>1, <2>2 DEF vars, Lone, FlightInv, CallInv, ShownInv, Busy, Open, DraftOf
  <2>3. CASE Page \/ Render \/ Mount
    BY <2>1, <2>3, PageSaved
  <2>4. CASE \E c \in DOMAIN card : Edit(c) \/ TimerFires(c) \/ Save(c) \/ Drop(c) \/ SaveAndNext(c)
    BY <2>1, <2>4, EditSaved, RunSaved
  <2>5. CASE \E s \in Servers : Serve(s) \/ SentAgain(s) \/ Fails(s)
    BY <2>1, <2>5, ServeSaved, AgainSaved, AnswerSaved, FailsSaved DEF Serve
  <2>6. ASSUME NEW s \in Servers, Cut(s) PROVE FALSE
    BY <2>1, <2>6 DEF Cut
  <2>7. QED
    BY <2>2, <2>3, <2>4, <2>5, <2>6 DEF Next
<1>3. SavedInv => SavedIsTrue
  <2>1. SUFFICES ASSUME SavedInv, loose = 0, Len(rows) <= 1
                 PROVE  /\ \A c \in DOMAIN card : Open(c) /\ card[c].status = "saved" =>
                             rows # <<>> /\ Last(rows) = card[c].draft
                        /\ shown \subseteq DraftOf(rows)
    BY DEF SavedIsTrue
  <2>2. \A c \in DOMAIN card : Open(c) /\ card[c].status = "saved" => rows = <<card[c].draft>>
    BY <2>1 DEF SavedInv, Lone, ShownInv
  <2>3. QED
    BY <2>1, <2>2, DraftOfOne DEF SavedInv, Lone, ShownInv
<1>4. QED
  BY <1>1, <1>2, <1>3, BaseHolds, PTL DEF Spec
=============================================================================
