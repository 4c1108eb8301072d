---------------------------- MODULE MCPrescreen -----------------------------
(* Prescreen for TLC. *)
EXTENDS Prescreen, TLC

CONSTANTS a, b, d1, d2, p1, p2

OneSubmission == {a}
TwoSubmissions == {a, b}
MCHolders == {d1, d2, p1, p2}
OneDrain == {d1}
TwoDrains == {d1, d2}
OnePress == {p1}
TwoPresses == {p1, p2}

\* Drains are alike, and so are presses (for the runs with no liveness).
Alike == Permutations(TwoDrains) \cup Permutations(TwoPresses)

\* All but the histories calls and settled, which no action reads.
NoCount == <<job, review, assigned, sample, claim, round, drain, press, resent>>
=============================================================================
