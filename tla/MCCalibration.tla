----------------------------- MODULE MCCalibration -----------------------------
(***************************************************************************)
(* The instance of Calibration for TLC.  The rows of tier_changes explain  *)
(* the tier only as long as updates do not overlap; a history variable     *)
(* remembers whether that is so, and one run checks what holds then beside *)
(* what holds always.                                                      *)
(***************************************************************************)
EXTENDS Calibration

CONSTANT MaxOverlappingSignals  \* bound: as MaxSignals, once updates have overlapped

VARIABLE alone  \* no two updates have overlapped

MCInit == Init /\ alone = TRUE

\* A step of the calibration, and what it makes of the history variable.
AloneNext == Next /\ alone' = (alone /\ Cardinality(updates') <= 1)

AloneSpec == MCInit /\ [][AloneNext]_<<vars, alone>>

\* The bound.
MCNext == AloneNext /\ (alone' \/ Len(signals') <= MaxOverlappingSignals)

\* Among the steps that the bound refuses, only those that begin an update beside another
\* are fair, and they become possible once that one has ended.
MCSpec == /\ MCInit
          /\ [][MCNext]_<<vars, alone>>
          /\ Fairness

-----------------------------------------------------------------------------
\* There is one tier_changes row per promotion or demotion: as long as updates do not
\* overlap, the rows lead step by step from one tier to the next, and end in the tier that
\* the expert has (update).  Overlapping updates lead to no tier that does not exist.
AloneHistoryExplains == TypeOK /\ (alone => HistoryExplains)

\* Hysteresis: as long as updates do not overlap, it takes more than one new signal to
\* take a move back, so one rejection does not demote the expert whom the approval before
\* it has promoted (update).
AloneNoFlapping == alone => NoFlapping
==============================================================================
