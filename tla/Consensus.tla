------------------------------ MODULE Consensus ------------------------------
(***************************************************************************)
(* The arithmetic of a consensus round (panelist/services/consensus.py).   *)
(*                                                                         *)
(* Grades of one task are two functions over the experts: g[e] is the      *)
(* weighted score of e's grade and p[e] its position in submission order   *)
(* (submitted_at).  Weighted scores are naturals here: a rubric's floating *)
(* point scores lie on a finite grid, and only their order, their spread   *)
(* and their distance from the mean are ever looked at.                    *)
(***************************************************************************)
EXTENDS Integers, FiniteSets, Functions

\* max(scores) - min(scores) <= tolerance, for the grades of the experts in S.
WithinTolerance(g, S, tolerance) == \A e, f \in S : g[e] - g[f] <= tolerance

TotalScore(g, S) == SumFunctionOnSet(g, S)

\* Cardinality(S) times the distance of e's score from the mean of S.
OffMean(g, S, e) ==
  LET d == Cardinality(S) * g[e] - TotalScore(g, S) IN IF d < 0 THEN -d ELSE d

\* e sorts no later than f under the key (distance from the mean, submitted_at).
SortsFirst(g, p, S, e, f) ==
  \/ OffMean(g, S, e) < OffMean(g, S, f)
  \/ OffMean(g, S, e) = OffMean(g, S, f) /\ p[e] <= p[f]

ClosestToMean(g, p, S) == CHOOSE e \in S : \A f \in S : SortsFirst(g, p, S, e, f)

(***************************************************************************)
(* redeliver: approved grades are preferred, then the unreviewed ones; no  *)
(* candidate means that nothing is delivered.                              *)
(***************************************************************************)
Candidates(approved, pool) == IF approved # {} THEN approved ELSE pool

Repick(g, p, approved, pool, none) ==
  IF Candidates(approved, pool) = {} THEN none
  ELSE ClosestToMean(g, p, Candidates(approved, pool))
==============================================================================
