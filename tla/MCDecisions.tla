----------------------------- MODULE MCDecisions -----------------------------
\* Small instances of Decisions: two requests at once, a cast of two.
EXTENDS Decisions, TLC

CONSTANTS a, b, filer, guest, outsider

\* The requests are alike.
Alike == Permutations({a, b})
=============================================================================
