-------------------------------- MODULE Reports --------------------------------
(***************************************************************************)
(* What operators and reviewers read of the task flow: the lists of work,  *)
(* and the counts behind the overview and the tick's reminders.            *)
(* (services/ops.py, analytics.py, consensus.py, routing.py; the list in   *)
(* routers/grades.py.)                                                     *)
(*                                                                         *)
(* Each is one query, so each is a value of one state.  A response that is *)
(* made of several queries may mix several states, for every statement     *)
(* reads a snapshot of its own: what is said here of two reports together  *)
(* is said of the moment in which both are read.                           *)
(***************************************************************************)
EXTENDS TaskFlow

\* The tables have finitely many rows.
ReportsAssumption == IsFiniteSet(Tasks)

ASSUME ReportsAssumption

Count(S) == Cardinality(S)

-----------------------------------------------------------------------------
(* Lists of work, as pairs of a task and the expert of a grade.            *)

AllGrades == {row \in Tasks \X Experts : row[2] \in Graders(row[1])}

\* Faulty variant of ListUnreviewed: only tasks that nothing has been decided on.
ListUnreviewedSubmitted ==
  {row \in AllGrades : /\ verdict[row[1]][row[2]] = "none"
                       /\ status[row[1]] = "submitted"
                       /\ received[row[1]] >= Required[row[1]]}

\* GET /grades: the grades that wait for a reviewer.
ListUnreviewed ==
  {row \in AllGrades : /\ verdict[row[1]][row[2]] = "none"
                       /\ status[row[1]] # "adjudication"
                       /\ received[row[1]] >= Required[row[1]]}

\* GET /adjudications: the tasks that wait for a senior reviewer.
Pending == {t \in Tasks : round[t] = "adjudicating"}

Backlog == Count(Pending)

-----------------------------------------------------------------------------
(* The overview and the reminders.                                         *)

QueueSummary == [s \in Statuses |-> Count({t \in Tasks : status[t] = s})]

ExpiredLeases == Count(Expired)

\* Faulty variant of UndeliveredApproved: tasks that are not approved yet count, too.
UndeliveredAny ==
  Count({t \in Regular :
    /\ round[t] # "none"
    /\ ~(delivered[t] # NoExpert /\ verdict[t][delivered[t]] = "approve")})

\* Approved tasks with a round whose pick is not approved: the export skips them.
UndeliveredApproved ==
  Count({t \in Regular :
    /\ status[t] = "approved" /\ round[t] # "none"
    /\ ~(delivered[t] # NoExpert /\ verdict[t][delivered[t]] = "approve")})

\* rejections: how many grades of the task a reviewer has rejected.
Rejections(t) == Count({e \in Graders(t) : verdict[t][e] = "reject"})

\* Single-grader tasks that reviewers have sent back to the queue at least twice.
RejectedTwice == Count({t \in Single : Rejections(t) >= 2})

-----------------------------------------------------------------------------
(* Reviews per expert.                                                     *)

\* expert_reliability, as far as reviews go.
Reliability(e) ==
  [total    |-> Count({t \in Tasks : e \in Graders(t)}),
   approved |-> Count({t \in Tasks : verdict[t][e] = "approve"}),
   rejected |-> Count({t \in Tasks : verdict[t][e] = "reject"})]

-----------------------------------------------------------------------------
(* Properties.                                                             *)

\* No grade falls out of sight between the lists: the grades that the experts are told to
\* be undecided are listed for the reviewers, or their task for the senior reviewers, or
\* the task still waits for graders; what is listed is not refused by a review for a
\* pending round; and the overview counts the senior reviewers' tasks as they are listed
\* (list_unreviewed, pending, expert_reliability, _reject_if_consensus_pending, overview).
NothingOutOfSight ==
  /\ \A row \in ListUnreviewed : ~ConsensusPending(row[1])
  /\ SumFunction([e \in Experts |-> Reliability(e).total - Reliability(e).approved
                                       - Reliability(e).rejected])
       = Count({row \in AllGrades :
                  \/ row \in ListUnreviewed
                  \/ row[1] \in Pending
                  \/ verdict[row[1]][row[2]] = "none" /\ Waiting(row[1])})
  /\ QueueSummary["adjudication"] = Backlog

\* The reminder counts what it says: the undelivered tasks are exactly the approved ones
\* without a row in the dataset, although the query asks for the review of the pick and
\* not for a row (_undelivered_approved).
RemindersTrue ==
  UndeliveredApproved =
    Count({t \in Regular : /\ status[t] = "approved"
                           /\ \A e \in Experts : <<t, e>> \notin Exported})
==============================================================================
