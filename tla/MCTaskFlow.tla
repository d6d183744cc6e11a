----------------------------- MODULE MCTaskFlow -----------------------------
(***************************************************************************)
(* Instances of TaskFlow and its reports for TLC.  A task's name says what  *)
(* kind of task it is, so a configuration chooses its instance by Tasks.   *)
(***************************************************************************)
EXTENDS Reports, TLC

MCGolden   == {}
MCRequired == [t \in Tasks |-> IF t = "trio" THEN 3 ELSE 2]
MCMatches  == [t \in Tasks |-> Experts]
MCMinTier  == [t \in Tasks |-> IF t = "pair" THEN 1 ELSE 0]

\* The experts differ in nothing but their grades.
ExpertSymmetry == Permutations(Experts)
==============================================================================
