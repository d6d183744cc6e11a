----------------------------- MODULE MCAgreement -----------------------------
(***************************************************************************)
(* An instance of Agreement for TLC: a single-grader task, "solo", and a   *)
(* golden one that two of the experts can grade.  The criteria of all      *)
(* versions have one key.                                                  *)
(***************************************************************************)
EXTENDS Agreement

MCGolden   == {"gold"}
MCRequired == [t \in Tasks |-> 1]
MCMatches  ==
  [t \in Tasks |-> IF t = "gold" THEN CHOOSE S \in SUBSET Experts : Cardinality(S) = 2
                   ELSE Experts]
MCMinTier  == [t \in Tasks |-> 0]
MCKey      == [v \in 1 .. MaxVersions |-> "rigor"]

\* Bound: the golden task rests once the other one has a grade, and its grades are not
\* reviewed then.  What a handler does to one task does not depend on the other.
Checked ==
  Graders("solo") # {} =>
    /\ status["gold"] = "queued"
    /\ \A r \in reviewing : r.task = "solo"
    /\ \A e \in Experts : verdict["gold"][e] = "none"
==============================================================================
