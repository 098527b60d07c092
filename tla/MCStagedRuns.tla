---------------------------- MODULE MCStagedRuns ----------------------------
(* StagedRuns for TLC.  Three values: a write can then replace a value that *)
(* nobody was shown; with two it could only restore the proposed one.       *)
EXTENDS StagedRuns, TLC

CONSTANTS v1, v2, v3

\* v1 is the value an agent that does not ask writes; the others are alike.
OtherValues == Permutations({v2, v3})

\* Work that is staged ends: every shadow gives its worker back (ShadowsEnd), every card that is executing
\* settles (ExecutingCardsSettle).
StagedWorkEnds == ShadowsEnd /\ ExecutingCardsSettle
=============================================================================
