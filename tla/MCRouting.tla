----------------------------- MODULE MCRouting -----------------------------
(***************************************************************************)
(* Instances of Routing for TLC.                                           *)
(***************************************************************************)
EXTENDS Routing, TLC

MCPlace == [t \in Tasks |-> IF t = "urgent" THEN 1 ELSE 2]

\* Only equality tells experts or sessions apart.
MCSymmetry == Permutations(Experts) \cup Permutations(Sessions)
==============================================================================
