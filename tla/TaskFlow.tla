------------------------------ MODULE TaskFlow ------------------------------
(***************************************************************************)
(* The life of a task: it is queued, claimed under a lease, graded by one  *)
(* or more experts, compared in a consensus round, reviewed, perhaps       *)
(* adjudicated, and delivered.  (services/routing.py, grading.py,          *)
(* consensus.py; the rows that delivery.py selects.)                       *)
(*                                                                         *)
(* The state is the tasks, grades, reviews and consensus tables.  A        *)
(* request is one database transaction.  It is one step here when its      *)
(* first read of every row it changes takes the row's lock, and two steps  *)
(* when it acts on a row it read before it locked it: a review reads the   *)
(* task while it holds only the grade's lock, and the later SELECT ... FOR *)
(* UPDATE does not refresh an object the session has already loaded.       *)
(*                                                                         *)
(* What a handler writes to the experts, payouts and attention tables is   *)
(* not state of this module.  An expert row is a parameter of the claims.  *)
(***************************************************************************)
EXTENDS Consensus

CONSTANTS
  Tasks,       \* every task, regular or golden
  Experts,
  NoExpert,    \* NULL in assigned_expert_id and delivered_grade_id
  Golden,      \* the attention checks (is_attention_check)
  Required,    \* required_grades, per task
  Matches,     \* per task, the experts whose tags overlap required_tags
  MinTier,     \* min_tier, per task, as its TIER_RANK
  Scores,      \* the weighted scores a grade can have
  Tolerance,   \* CONSENSUS_TOLERANCE
  MaxReviews   \* bound: review transactions in flight at the same time

TaskFlowAssumption ==
  /\ IsFiniteSet(Experts)
  /\ NoExpert \notin Experts
  /\ Golden \subseteq Tasks
  /\ Required \in [Tasks -> Nat \ {0}]
  /\ Matches \in [Tasks -> SUBSET Experts]
  /\ MinTier \in [Tasks -> 0 .. 2]
  /\ Scores \subseteq Nat \ {0}
  /\ Tolerance \in Nat
  /\ MaxReviews \in Nat

ASSUME TaskFlowAssumption

VARIABLES
  status,      \* tasks.status
  holder,      \* tasks.assigned_expert_id
  lease,       \* tasks.lease_expires_at: absent, in the future or in the past
  received,    \* tasks.grades_received
  score,       \* grades: the weighted score per task and expert, 0 for no grade
  position,    \* grades: the rank by submitted_at, 0 for no grade
  verdict,     \* reviews: the decision per task and expert
  round,       \* consensus.status per task
  delivered,   \* consensus.delivered_grade_id, as the expert who wrote the grade
  reviewing    \* the review transactions in flight

taskVars  == <<holder, lease, received>>
gradeVars == <<score, position>>
roundVars == <<round, delivered>>
vars == <<status, holder, lease, received, score, position, verdict, round,
          delivered, reviewing>>

Statuses  == {"queued", "assigned", "submitted", "adjudication", "approved", "rejected"}
Leases    == {"none", "live", "expired"}
Decisions == {"approve", "reject"}
Rounds    == {"none", "agreed", "adjudicating", "adjudicated"}

\* What a claim reads from the expert's row: the status and the rank of the tier.
ExpertRows == [active : BOOLEAN, rank : 0 .. 2]

(***************************************************************************)
(* A review in flight holds the lock of one grade.  It remembers the task  *)
(* as it was when the grade was loaded: its status and grades_received.    *)
(***************************************************************************)
ReviewTx == [task : Tasks, expert : Experts, decision : Decisions,
             status : Statuses, received : Nat]

TypeOK ==
  /\ status \in [Tasks -> Statuses]
  /\ holder \in [Tasks -> Experts \cup {NoExpert}]
  /\ lease \in [Tasks -> Leases]
  /\ received \in [Tasks -> Nat]
  /\ score \in [Tasks -> [Experts -> Scores \cup {0}]]
  /\ position \in [Tasks -> [Experts -> Nat]]
  /\ verdict \in [Tasks -> [Experts -> Decisions \cup {"none"}]]
  /\ round \in [Tasks -> Rounds]
  /\ delivered \in [Tasks -> Experts \cup {NoExpert}]
  /\ reviewing \subseteq ReviewTx

Init ==
  /\ status = [t \in Tasks |-> "queued"]
  /\ holder = [t \in Tasks |-> NoExpert]
  /\ lease = [t \in Tasks |-> "none"]
  /\ received = [t \in Tasks |-> 0]
  /\ score = [t \in Tasks |-> [e \in Experts |-> 0]]
  /\ position = [t \in Tasks |-> [e \in Experts |-> 0]]
  /\ verdict = [t \in Tasks |-> [e \in Experts |-> "none"]]
  /\ round = [t \in Tasks |-> "none"]
  /\ delivered = [t \in Tasks |-> NoExpert]
  /\ reviewing = {}

Regular    == Tasks \ Golden
Graders(t) == {e \in Experts : score[t][e] # 0}

\* The grades a reviewer has not rejected.
Unrejected(t) == {e \in Graders(t) : verdict[t][e] # "reject"}

-----------------------------------------------------------------------------
(* Routing: leases and claims.                                             *)

\* The clock passes lease_expires_at.
Expire(t) ==
  /\ lease[t] = "live"
  /\ lease' = [lease EXCEPT ![t] = "expired"]
  /\ UNCHANGED <<status, holder, received, gradeVars, verdict, roundVars, reviewing>>

\* Faulty variant of Expired: the comparison with the clock is the wrong way round.
ExpiredFlipped == {t \in Tasks : status[t] = "assigned" /\ lease[t] = "live"}

\* What reclaim_expired makes of a column: v for the tasks whose lease has expired.
Expired == {t \in Tasks : status[t] = "assigned" /\ lease[t] = "expired"}
Reclaimed(column, v) == [t \in Tasks |-> IF t \in Expired THEN v ELSE column[t]]

\* POST /tasks/reclaim, the scheduler's tick, and a claim that finds no task.
ReclaimExpired ==
  /\ status' = Reclaimed(status, "queued")
  /\ holder' = Reclaimed(holder, NoExpert)
  /\ lease' = Reclaimed(lease, "none")
  /\ UNCHANGED <<received, gradeVars, verdict, roundVars, reviewing>>

\* A claim reclaims what has expired and then leases task t to expert e.
Assign(e, t) ==
  /\ status' = [Reclaimed(status, "queued") EXCEPT ![t] = "assigned"]
  /\ holder' = [Reclaimed(holder, NoExpert) EXCEPT ![t] = e]
  /\ lease' = [Reclaimed(lease, "none") EXCEPT ![t] = "live"]
  /\ UNCHANGED <<received, gradeVars, verdict, roundVars, reviewing>>

\* The guards the two claims share; row is the expert's row.
Claimable(e, row, t) ==
  /\ row.active
  /\ Reclaimed(status, "queued")[t] = "queued"
  /\ e \in Matches[t]
  /\ MinTier[t] <= row.rank

(***************************************************************************)
(* claim_next.  The query orders by priority, but a claimant skips the     *)
(* rows that others have locked, and whether it wants a golden task is a   *)
(* hash of its serve number: any eligible task may be the one it gets.     *)
(***************************************************************************)
ClaimNext(e, row, t) ==
  /\ Claimable(e, row, t)
  /\ e \notin Graders(t)
  /\ Assign(e, t)

\* claim_by_id has no predicate on the grades the expert has already given.
ClaimById(e, row, t) ==
  /\ Claimable(e, row, t)
  /\ Assign(e, t)

Holds(e, t) == status[t] = "assigned" /\ holder[t] = e

Release(e, t) ==
  /\ Holds(e, t)
  /\ status' = [status EXCEPT ![t] = "queued"]
  /\ holder' = [holder EXCEPT ![t] = NoExpert]
  /\ lease' = [lease EXCEPT ![t] = "none"]
  /\ UNCHANGED <<received, gradeVars, verdict, roundVars, reviewing>>

-----------------------------------------------------------------------------
(* Grading: a submitted grade, and the round that the last one opens.      *)

\* Faulty variants of Completes: the new grade is not counted; golden tasks complete too.
CompletesLate(t)   == t \in Regular /\ received[t] >= Required[t]
CompletesGolden(t) == received[t] + 1 >= Required[t]

\* The grade being submitted is the last one that the task needs.
Completes(t) == t \in Regular /\ received[t] + 1 >= Required[t]

\* consensus.evaluate over the grades in pool: scores g, submission order p.
Evaluate(t, g, p, pool) ==
  \/ /\ Cardinality(pool) < 2
     /\ status' = [status EXCEPT ![t] = "submitted"]
     /\ UNCHANGED roundVars
  \/ /\ Cardinality(pool) >= 2
     /\ WithinTolerance(g, pool, Tolerance)
     /\ status' = [status EXCEPT ![t] = "submitted"]
     /\ round' = [round EXCEPT ![t] = "agreed"]
     /\ delivered' = [delivered EXCEPT ![t] = ClosestToMean(g, p, pool)]
  \/ /\ Cardinality(pool) >= 2
     /\ ~WithinTolerance(g, pool, Tolerance)
     /\ status' = [status EXCEPT ![t] = "adjudication"]
     /\ round' = [round EXCEPT ![t] = "adjudicating"]
     /\ UNCHANGED delivered

(***************************************************************************)
(* submit asks only whether the expert holds the task, not whether the     *)
(* lease has expired.  One grade per task and expert is the unique         *)
(* constraint uq_grade_task_expert.                                        *)
(***************************************************************************)
Submit(e, t, s) ==
  LET g == [score[t] EXCEPT ![e] = s]
      p == [position[t] EXCEPT ![e] = Cardinality(Graders(t)) + 1]
  IN
  /\ Holds(e, t)
  /\ e \notin Graders(t)
  /\ score' = [score EXCEPT ![t] = g]
  /\ position' = [position EXCEPT ![t] = p]
  /\ received' = [received EXCEPT ![t] = @ + 1]
  /\ holder' = [holder EXCEPT ![t] = NoExpert]
  /\ lease' = [lease EXCEPT ![t] = "none"]
  /\ \/ /\ ~Completes(t)
        /\ status' = [status EXCEPT ![t] = "queued"]
        /\ UNCHANGED roundVars
     \/ /\ Completes(t)
        /\ Evaluate(t, g, p, Unrejected(t) \cup {e})
  /\ UNCHANGED <<verdict, reviewing>>

-----------------------------------------------------------------------------
(* Reviews.                                                                *)

\* Faulty variant of ConsensusPending: an open adjudication does not count.
AdjudicationIgnored(t) ==
  t \in Regular /\ Required[t] >= 2 /\ received[t] < Required[t]

\* _reject_if_consensus_pending: the review is refused.
ConsensusPending(t) ==
  /\ t \in Regular
  /\ Required[t] >= 2
  /\ received[t] < Required[t] \/ status[t] = "adjudication"

\* Faulty variant of StartReview: the grade is read without its lock.
StartReviewUnlocked(t, e, d) ==
  /\ Cardinality(reviewing) < MaxReviews
  /\ e \in Graders(t)
  /\ verdict[t][e] = "none"
  /\ ~ConsensusPending(t)
  /\ reviewing' = reviewing \cup {[task |-> t, expert |-> e, decision |-> d,
                                   status |-> status[t], received |-> received[t]]}
  /\ UNCHANGED <<status, taskVars, gradeVars, verdict, roundVars>>

\* The grade is locked and the task read; the review row is not committed yet.
StartReview(t, e, d) ==
  /\ Cardinality(reviewing) < MaxReviews
  /\ e \in Graders(t)
  /\ verdict[t][e] = "none"
  /\ \A r \in reviewing : ~(r.task = t /\ r.expert = e)
  /\ ~ConsensusPending(t)
  /\ reviewing' = reviewing \cup {[task |-> t, expert |-> e, decision |-> d,
                                   status |-> status[t], received |-> received[t]]}
  /\ UNCHANGED <<status, taskVars, gradeVars, verdict, roundVars>>

\* The session writes an attribute only when it differs from what was loaded.
Written(r, new) ==
  IF new = r.status THEN status ELSE [status EXCEPT ![r.task] = new]

\* Faulty variant of PutBack: the count is left alone.
PutBackNever(r) == received

\* _requeue: grades_received is put back, counted from what was loaded.
PutBack(r) ==
  IF r.received = 0 THEN received
  ELSE [received EXCEPT ![r.task] = r.received - 1]

\* Faulty variant of Judge: a rejection does not spare an approved task.
JudgeHarshly(r) ==
  /\ status' = IF r.decision = "approve" THEN Written(r, "approved")
               ELSE IF Required[r.task] = 1 THEN Written(r, "queued") ELSE Written(r, "rejected")
  /\ received' = IF r.decision = "reject" /\ Required[r.task] = 1 THEN PutBack(r) ELSE received

\* What the decision does to the task's row.
Judge(r) ==
  \/ /\ r.task \in Golden
     /\ UNCHANGED <<status, received>>
  \/ /\ r.task \in Regular
     /\ r.decision = "approve"
     /\ status' = Written(r, "approved")
     /\ UNCHANGED received
  \/ /\ r.task \in Regular
     /\ r.decision = "reject"
     /\ Required[r.task] = 1
     /\ status' = Written(r, "queued")
     /\ received' = PutBack(r)
  \/ /\ r.task \in Regular
     /\ r.decision = "reject"
     /\ Required[r.task] # 1
     /\ status' = IF r.status = "approved" THEN status ELSE Written(r, "rejected")
     /\ UNCHANGED received

\* consensus.redeliver after the reviews of task t have become v: the row and the
\* reviews are read under the lock of the task, so they are current.
Redelivery(t, v) ==
  LET pool     == {e \in Graders(t) : v[e] # "reject"}
      approved == {e \in pool : v[e] = "approve"}
  IN Repick(score[t], position[t], approved, pool, NoExpert)

\* Faulty variants of Redeliver: the pick stays; any rejection picks again.
RedeliverNever(r, v)  == UNCHANGED delivered
RedeliverAlways(r, v) ==
  IF r.decision = "reject" /\ round[r.task] = "agreed"
  THEN delivered' = [delivered EXCEPT ![r.task] = Redelivery(r.task, v)]
  ELSE UNCHANGED delivered

Redeliver(r, v) ==
  IF /\ r.decision = "reject"
     /\ round[r.task] = "agreed"
     /\ delivered[r.task] = r.expert
  THEN delivered' = [delivered EXCEPT ![r.task] = Redelivery(r.task, v)]
  ELSE UNCHANGED delivered

\* The task's lock is taken and the transaction runs to its commit.
FinishReview(r) ==
  LET v == [verdict[r.task] EXCEPT ![r.expert] = r.decision]
  IN
  /\ r \in reviewing
  /\ reviewing' = reviewing \ {r}
  /\ verdict' = [verdict EXCEPT ![r.task] = v]
  /\ Judge(r)
  /\ Redeliver(r, v)
  /\ UNCHANGED <<holder, lease, gradeVars, round>>

\* No rate card for the payout (422), a lost connection, a crash: rolled back.
AbortReview(r) ==
  /\ r \in reviewing
  /\ reviewing' = reviewing \ {r}
  /\ UNCHANGED <<status, taskVars, gradeVars, verdict, roundVars>>

(***************************************************************************)
(* resolve: a senior reviewer picks grade e.  Every other grade is         *)
(* rejected as outvoted.  A grade has one review at most (reviews.grade_id *)
(* is unique), so a reviewed grade would make the transaction fail.        *)
(***************************************************************************)
Resolve(t, e) ==
  /\ round[t] = "adjudicating"
  /\ e \in Graders(t)
  /\ \A f \in Graders(t) : verdict[t][f] = "none"
  /\ verdict' = [verdict EXCEPT ![t] =
       [f \in Experts |-> IF f \notin Graders(t) THEN verdict[t][f]
                          ELSE IF f = e THEN "approve" ELSE "reject"]]
  /\ status' = [status EXCEPT ![t] = "approved"]
  /\ round' = [round EXCEPT ![t] = "adjudicated"]
  /\ delivered' = [delivered EXCEPT ![t] = e]
  /\ UNCHANGED <<taskVars, gradeVars, reviewing>>

-----------------------------------------------------------------------------
Next ==
  \/ ReclaimExpired
  \/ \E t \in Tasks : Expire(t)
  \/ \E e \in Experts, t \in Tasks, row \in ExpertRows :
       ClaimNext(e, row, t) \/ ClaimById(e, row, t)
  \/ \E e \in Experts, t \in Tasks : Release(e, t) \/ Resolve(t, e)
  \/ \E e \in Experts, t \in Tasks, s \in Scores : Submit(e, t, s)
  \/ \E e \in Experts, t \in Tasks, d \in Decisions : StartReview(t, e, d)
  \/ \E r \in reviewing : FinishReview(r) \/ AbortReview(r)

Spec == Init /\ [][Next]_vars

\* Time passes, and the scheduler runs `panelist tick` again and again.
Fairness == WF_vars(ReclaimExpired) /\ \A t \in Tasks : WF_vars(Expire(t))

-----------------------------------------------------------------------------
(* What the delivery export selects: approved grades of regular tasks,     *)
(* and of a task with a round only the delivered one.                      *)
Exported ==
  {row \in Tasks \X Experts :
     /\ verdict[row[1]][row[2]] = "approve"
     /\ row[1] \notin Golden
     /\ round[row[1]] = "none" \/ delivered[row[1]] = row[2]}

D == INSTANCE Dataset WITH rows <- Exported

-----------------------------------------------------------------------------
(* Safety.                                                                 *)

\* A task that one grade completes, and a task that takes several.
Single  == {t \in Regular : Required[t] = 1}
Several == Regular \ Single

\* The task waits for a grader, in the queue or under a lease.
Waiting(t) == status[t] \in {"queued", "assigned"}

\* grades_received counts the grades that are still in play: every grade of a golden
\* task or of a task with several graders, and the unrejected one of a single-grader
\* task, whose rejection puts the count back (submit, _requeue).
GradeCount ==
  \A t \in Tasks :
    received[t] = Cardinality(IF t \in Single THEN Unrejected(t) ELSE Graders(t))

\* A regular task waits for a grader exactly as long as grades are missing: no race of
\* submissions and reviews puts a completed task back or takes an incomplete one out.
QueuedWhileIncomplete ==
  \A t \in Regular : Waiting(t) <=> received[t] < Required[t]

\* A consensus round exists exactly for the complete tasks with several graders, and the
\* task is in adjudication exactly as long as the round is (evaluate, resolve).
RoundWhenComplete ==
  \A t \in Tasks :
    /\ round[t] # "none" <=> t \in Several /\ received[t] >= Required[t]
    /\ round[t] = "adjudicating" <=> status[t] = "adjudication"

\* An agreed round never delivers a rejected grade, whatever order the reviews of its
\* grades commit in; it delivers nothing only when no grade is left (redeliver).
DeliveredStands ==
  \A t \in Tasks : round[t] = "agreed" =>
    IF Unrejected(t) = {} THEN delivered[t] = NoExpert ELSE delivered[t] \in Unrejected(t)

\* A grade is never reviewed, nor about to be, on a task that a senior reviewer is to
\* decide, and the decision settles every grade: one approval, the one delivered.
AdjudicationUntouched ==
  \A t \in Tasks :
    /\ round[t] = "adjudicating" =>
         /\ \A e \in Experts : verdict[t][e] = "none"
         /\ \A r \in reviewing : r.task # t
    /\ round[t] = "adjudicated" =>
         /\ Unrejected(t) = {delivered[t]}
         /\ verdict[t][delivered[t]] = "approve"

\* Golden tasks are reusable: whatever is graded and reviewed, they wait for the next
\* expert, never have a round, and none of their approved grades is exported.
GoldenReusable ==
  \A t \in Golden : /\ Waiting(t) /\ round[t] = "none"
                    /\ \A e \in Experts : <<t, e>> \notin Exported

\* An approved task is in the dataset, or its round's pick is still unreviewed: the only
\* explanation that the tick's reminder gives for an approved task without a row.
ApprovedAccounted ==
  \A t \in Regular : status[t] = "approved" =>
    \/ \E e \in Experts : <<t, e>> \in Exported
    \/ round[t] = "agreed" /\ delivered[t] \in Unrejected(t) /\ verdict[t][delivered[t]] = "none"

\* Every row of the dataset belongs to a task whose status is approved: the later of two
\* reviews of one task does not overrule the approval it did not see.
RowsOfApprovedTasks ==
  \A t \in Tasks, e \in Experts : <<t, e>> \in Exported => status[t] = "approved"

-----------------------------------------------------------------------------
(* The inductive invariant behind the promise of the dataset.              *)

\* Only grades are reviewed; a review in flight has its grade to itself.
ReviewsOfGrades ==
  /\ \A t \in Tasks, e \in Experts : verdict[t][e] # "none" => e \in Graders(t)
  /\ \A r \in reviewing :
       r.expert \in Graders(r.task) /\ verdict[r.task][r.expert] = "none"
  /\ \A r, q \in reviewing : r.task = q.task /\ r.expert = q.expert => r = q

\* While a single-grader task waits, every grade it has had is rejected.
SingleWaits ==
  \A t \in Single :
    /\ Waiting(t) => Unrejected(t) = {}
    /\ \A e, f \in Unrejected(t) : e = f

\* A task with several graders is not reviewed before its round is open.
SeveralWait ==
  \A t \in Several :
    /\ received[t] >= 1 => Graders(t) # {}
    /\ ~Waiting(t) => round[t] # "none"
    /\ Waiting(t) => /\ received[t] < Required[t]
                     /\ \A e \in Experts : verdict[t][e] = "none"
                     /\ \A r \in reviewing : r.task # t

\* While a senior reviewer is to decide, no one else reviews.
AdjudicationWaits ==
  \A t \in Tasks : round[t] = "adjudicating" =>
    /\ t \in Several /\ status[t] = "adjudication"
    /\ \A e \in Experts : verdict[t][e] = "none"
    /\ \A r \in reviewing : r.task # t

IInv == TypeOK /\ ReviewsOfGrades /\ SingleWaits /\ SeveralWait /\ AdjudicationWaits

\* A review in flight has loaded a complete task: it did not wait, and the one grade of a
\* single-grader task was counted, so a rejection puts the right number back.
LoadedComplete ==
  \A r \in reviewing : r.task \in Regular =>
    /\ r.status \notin {"queued", "assigned"}
    /\ r.task \in Single => r.received = 1

\* A task is approved only after a reviewer has approved one of its grades.
ApprovedByReview ==
  \A t \in Regular : status[t] = "approved" => \E e \in Experts : verdict[t][e] = "approve"

FlowInv == IInv /\ LoadedComplete /\ ApprovedByReview

-----------------------------------------------------------------------------
(* What a step may never do.                                               *)

\* A live lease ends by a release or with a grade of its holder; no other expert takes
\* the task over in one step, as a claim does after it has reclaimed an expired lease.
LiveLeaseKept ==
  [][\A t \in Tasks : lease[t] = "live" /\ holder'[t] # holder[t] =>
       /\ holder'[t] = NoExpert
       /\ status'[t] = "queued" \/ score'[t][holder[t]] # 0]_vars

\* A decision on a grade is final, also when two reviewers take up the same grade.
VerdictFinal ==
  [][\A t \in Tasks, e \in Experts :
       verdict[t][e] # "none" => verdict'[t][e] = verdict[t][e]]_vars

\* An approved task stays approved, but for a rejection that was under way before the
\* approval: a review that begins after it never takes it back (review).
ApprovedSticks ==
  [][\A t \in Tasks : status[t] = "approved" /\ status'[t] # "approved" =>
       \E r \in reviewing \ reviewing' : r.task = t /\ r.status # "approved"]_vars

\* The task life cycle implements the dataset's promise: at most one row per task, and
\* no later review, redelivery or adjudication takes an exported row back.
DatasetSpec == D!Spec

-----------------------------------------------------------------------------
(* Liveness.                                                               *)

\* A lease that nobody gives up ends all the same, live or expired, whatever else the
\* experts do: no task stays with an expert who has walked away (reclaim_expired).
AbandonedReturns ==
  \A t \in Tasks : /\ lease[t] = "live" ~> lease[t] # "live"
                   /\ lease[t] = "expired" ~> lease[t] # "expired"
==============================================================================
