------------------------------- MODULE Leases -------------------------------
(***************************************************************************)
(* What the routing promises to the experts: a task is leased to one of    *)
(* them at a time; another one gets it only after it has been given back   *)
(* or its lease has expired; and a task is graded once by an expert, and   *)
(* only while it is leased to them.                                        *)
(***************************************************************************)
CONSTANTS Tasks, Experts

VARIABLES
  lease,   \* per task, nobody's or an expert's, live or expired
  graded   \* per task, the experts who have graded it

vars == <<lease, graded>>

Free    == [by |-> {}, live |-> FALSE]
Overdue == {t \in Tasks : lease[t].by # {} /\ ~lease[t].live}

Init ==
  /\ lease = [t \in Tasks |-> Free]
  /\ graded = [t \in Tasks |-> {}]

Expire(t) ==
  /\ lease[t].live
  /\ lease' = [lease EXCEPT ![t].live = FALSE]
  /\ UNCHANGED graded

\* Some leases that are overdue end.
Reclaim(S) ==
  /\ lease' = [t \in Tasks |-> IF t \in S THEN Free ELSE lease[t]]
  /\ UNCHANGED graded

\* They end, and task t goes to expert e: one that was nobody's, or one of them.
Serve(S, e, t) ==
  /\ lease[t] = Free \/ t \in S
  /\ lease' = [u \in Tasks |-> IF u = t THEN [by |-> {e}, live |-> TRUE]
                               ELSE IF u \in S THEN Free ELSE lease[u]]
  /\ UNCHANGED graded

GiveBack(e, t) ==
  /\ lease[t].by = {e}
  /\ lease' = [lease EXCEPT ![t] = Free]
  /\ UNCHANGED graded

Grade(e, t) ==
  /\ lease[t].by = {e}
  /\ e \notin graded[t]
  /\ lease' = [lease EXCEPT ![t] = Free]
  /\ graded' = [graded EXCEPT ![t] = @ \cup {e}]

Next ==
  \/ \E t \in Tasks : Expire(t)
  \/ \E S \in SUBSET Overdue :
       Reclaim(S) \/ \E e \in Experts, t \in Tasks : Serve(S, e, t)
  \/ \E e \in Experts, t \in Tasks : GiveBack(e, t) \/ Grade(e, t)

Spec == Init /\ [][Next]_vars
==============================================================================
