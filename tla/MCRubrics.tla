------------------------------ MODULE MCRubrics ------------------------------
(***************************************************************************)
(* Instances of Rubrics for TLC: task "solo" takes one grade, "trio" three.*)
(***************************************************************************)
EXTENDS Rubrics

MCRequired == [t \in Tasks |-> IF t = "trio" THEN 3 ELSE 1]
==============================================================================
