------------------------------- MODULE Dataset -------------------------------
(***************************************************************************)
(* What the delivery promises to the consumer of the dataset: it holds at  *)
(* most one row per task, and a row that was once exported is in every     *)
(* later export.  This is the abstract specification that the task life    *)
(* cycle implements; nothing is said here of queues, graders, reviewers or *)
(* rounds.                                                                 *)
(***************************************************************************)
CONSTANTS Tasks, Experts

VARIABLE rows  \* the <<task, expert>> pairs an export made now would contain

Init == rows = {}

\* A task without a row gets one: the grade of expert e.
Ship(t, e) ==
  /\ \A f \in Experts : <<t, f>> \notin rows
  /\ rows' = rows \cup {<<t, e>>}

Next == \E t \in Tasks, e \in Experts : Ship(t, e)

Spec == Init /\ [][Next]_rows
==============================================================================
