----------------------------- MODULE MCLockOrder -----------------------------
(***************************************************************************)
(* An instance of LockOrder for TLC: a task for two graders, "duo", and    *)
(* beside it one of three others at a time: a golden one, a single-grader  *)
(* one, or a second one for two graders.                                   *)
(***************************************************************************)
EXTENDS LockOrder, TLC

MCGolden   == {"gold"}
MCRequired == [t \in Tasks |-> IF t \in {"duo", "duet"} THEN 2 ELSE 1]
MCMatches  == [t \in Tasks |-> IF t = "gold" THEN {"ann"} ELSE Experts]
MCNames    == <<"ann", "ben">>
MCScan     == SetToSeq(Tasks)

Used(t) ==
  \/ status[t] # "queued" \/ graded[t] # <<>>
  \/ \E s \in Sessions : tx[s].task = t \/ TaskRow(t) \in tx[s].held \cup ToSet(tx[s].todo)

\* Bound: each of the other tasks is used beside "duo" where the two can meet.  Sweeps,
\* claims and checks meet at the golden one; a publication at the single-grader one, which
\* is requeued; resolutions at the second one with a round.
Checked ==
  /\ Cardinality({t \in Tasks \ {"duo"} : Used(t)}) <= 1
  /\ Used("solo") => status["duo"] = "queued" /\ graded["duo"] = <<>>
  /\ Used("duet") => status["duo"] = "adjudication"
  /\ Used("solo") \/ Used("duet") => \A t \in Tasks : status[t] # "due"

MCSymmetry == Permutations(Sessions)
==============================================================================
