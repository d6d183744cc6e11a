----------------------------- MODULE LockOrder -----------------------------
(***************************************************************************)
(* The rows that a transaction locks, one after the other, and who waits   *)
(* for whom.  (services/routing.py, grading.py, consensus.py, attention.py,*)
(* calibration.py, rubrics.py, payouts.py, ops.py.)                        *)
(*                                                                         *)
(* A row is locked by SELECT ... FOR UPDATE, by an UPDATE, or for the      *)
(* foreign key of a row that refers to it: the insertion of a review and   *)
(* every write of delivered_grade_id lock the grade they name against FOR  *)
(* UPDATE.  An object that has been changed is written by the autoflush of *)
(* the next query, or at the commit.  Locks are held until the transaction *)
(* ends.  Rows that only their own transaction can see are no rows here.   *)
(*                                                                         *)
(* A score is written when it changes, which any signal may make it do.    *)
(***************************************************************************)
EXTENDS Naturals, SequencesExt

CONSTANTS
  Tasks,
  Golden,     \* the attention checks
  Required,   \* required_grades
  Matches,    \* the experts whose tags and tier a task admits
  Names,      \* the experts in the order of their names
  Scan,       \* the tasks in the order in which the UPDATE of reclaim_expired meets them
  NoTask,
  NoExpert,
  Sessions    \* bound: the database sessions, each with one open transaction at most

Experts == ToSet(Names)

LockOrderAssumption ==
  /\ Golden \subseteq Tasks
  /\ Required \in [Tasks -> Nat \ {0}]
  /\ Matches \in [Tasks -> SUBSET Experts]
  /\ Names \in Seq(Experts) /\ IsInjective(Names)
  /\ Scan \in Seq(Tasks) /\ IsInjective(Scan) /\ ToSet(Scan) = Tasks
  /\ IsFiniteSet(Sessions)
  /\ NoTask \notin Tasks
  /\ NoExpert \notin Experts

ASSUME LockOrderAssumption

VARIABLES
  status,     \* tasks.status; "due" is assigned with an expired lease, "done" what follows
              \* the last grade, except for adjudication
  holder,     \* tasks.assigned_expert_id
  graded,     \* the authors of a task's grades, in the order of submission
  judged,     \* the authors whose grade has a review, and of them
  rejected,   \* those whose grade was rejected
  round,      \* consensus.status
  delivered,  \* consensus.delivered_grade_id, as its author
  tx          \* the open transaction of each session

rows == <<status, holder, graded, judged, rejected, round, delivered>>
vars == <<rows, tx>>

TaskRow(t)     == <<"task", t>>
GradeRow(t, e) == <<"grade", t, e>>
RoundRow(t)    == <<"round", t>>
ExpertRow(e)   == <<"expert", e>>
PayoutRows(e)  == <<"payouts", e>>
RubricRow      == <<"rubric">>

(***************************************************************************)
(* A transaction has reached one of its statements (at).  It holds some    *)
(* rows and has yet to lock others (todo); pick is the grade that it makes *)
(* the delivered one.                                                      *)
(***************************************************************************)
Closed == [kind |-> "none", task |-> NoTask, expert |-> NoExpert, at |-> 0,
           todo |-> <<>>, held |-> {}, pick |-> NoExpert]

Init ==
  /\ status = [t \in Tasks |-> "queued"]
  /\ holder = [t \in Tasks |-> NoExpert]
  /\ graded = [t \in Tasks |-> <<>>]
  /\ judged = [t \in Tasks |-> {}]
  /\ rejected = [t \in Tasks |-> {}]
  /\ round = [t \in Tasks |-> "none"]
  /\ delivered = [t \in Tasks |-> NoExpert]
  /\ tx = [s \in Sessions |-> Closed]

Graders(t)  == ToSet(graded[t])
Holds(e, t) == status[t] \in {"assigned", "due"} /\ holder[t] = e

\* grades_received is 0: so it is again when the grade of a task with one grader is rejected.
Untouched(t) == IF t \notin Golden /\ Required[t] = 1 THEN Graders(t) \subseteq rejected[t]
                ELSE graded[t] = <<>>

\* All of a sequence, or nothing of it.
Perhaps(seq) == {<<>>, seq}

\* Where x stands in seq.
Place(seq, x) == CHOOSE i \in DOMAIN seq : seq[i] = x

\* The members of S in the order of seq: a set with one sequence.
Turns(seq, S) ==
  {t \in [1..Cardinality(S) -> S] :
     \A i, j \in DOMAIN t : i < j => Place(seq, t[i]) < Place(seq, t[j])}

\* The rows of the members of S, in the order of seq.
InTurn(seq, S, Row(_)) == {[i \in DOMAIN t |-> Row(t[i])] : t \in Turns(seq, S)}

-----------------------------------------------------------------------------
(* Transactions and locks.                                                 *)

\* The clock passes a lease, but not while an UPDATE waits for the task's row.
Expire(t) ==
  /\ status[t] = "assigned"
  /\ \A s \in Sessions : TaskRow(t) \notin ToSet(tx[s].todo)
  /\ status' = [status EXCEPT ![t] = "due"]
  /\ UNCHANGED <<holder, graded, judged, rejected, round, delivered, tx>>

Begin(s, kind, t, e, todo) ==
  /\ tx[s] = Closed
  /\ tx' = [tx EXCEPT ![s] = [kind |-> kind, task |-> t, expert |-> e, at |-> 1,
                              todo |-> todo, held |-> {}, pick |-> NoExpert]]
  /\ UNCHANGED rows

\* The UPDATE of reclaim_expired: the rows its snapshot shows, as the scan meets them.
DueRows == InTurn(Scan, {t \in Tasks : status[t] = "due"}, TaskRow)

\* A request that is bound to be refused is left out: it holds one row, and waits for none.
BeginSweep(s) ==
  \E kind \in {"sweep", "tick"}, due \in DueRows : Begin(s, kind, NoTask, NoExpert, due)
BeginClaim(s, e) ==
  \E due \in DueRows : Begin(s, "claim", NoTask, e, due)
BeginGivingUp(s, e, t) ==
  /\ Holds(e, t)
  /\ \E kind \in {"submit", "release"} : Begin(s, kind, t, e, <<TaskRow(t)>>)
BeginReview(s, e, t) ==
  /\ e \in Graders(t) \ judged[t]
  /\ \E kind \in {"approve", "reject"} : Begin(s, kind, t, e, <<GradeRow(t, e)>>)
BeginResolve(s, t) ==
  /\ round[t] = "adjudicating"
  /\ Begin(s, "resolve", t, NoExpert, <<RoundRow(t)>>)
BeginPublish(s) ==
  Begin(s, "publish", NoTask, NoExpert, <<RubricRow>>)

\* set_status: the expert, and the withheld payouts of one who is reinstated.
BeginStatus(s, e) ==
  \E payouts \in Perhaps(<<PayoutRows(e)>>) :
    Begin(s, "set_status", NoTask, e, <<ExpertRow(e)>> \o payouts)

\* close_period: pending payouts of any experts, as the scan meets them.
BeginClose(s) ==
  \E pending \in SUBSET Experts :
    \E payouts \in InTurn(Names, pending, PayoutRows) : Begin(s, "close", NoTask, NoExpert, payouts)

Waits(s, o) == s # o /\ tx[s].todo # <<>> /\ Head(tx[s].todo) \in tx[o].held

\* Once an UPDATE has its row, the row is matched again.
StillMatches(s, row) ==
  row[1] = "task" =>
    /\ tx[s].kind \in {"claim", "sweep", "tick"} => status[row[2]] = "due"
    /\ tx[s].kind = "publish" => status[row[2]] = "queued" /\ Untouched(row[2])

Lock(s) ==
  /\ tx[s].todo # <<>>
  /\ \A o \in Sessions : ~Waits(s, o)
  /\ tx' = [tx EXCEPT ![s].todo = Tail(@),
                      ![s].held = IF StillMatches(s, Head(tx[s].todo))
                                  THEN @ \cup {Head(tx[s].todo)} ELSE @]
  /\ UNCHANGED rows

\* The transaction has all that its statement locks.
Ready(s, kinds, at) == tx[s].kind \in kinds /\ tx[s].at = at /\ tx[s].todo = <<>>

Proceed(s, todo, pick) ==
  /\ tx' = [tx EXCEPT ![s].at = @ + 1, ![s].todo = todo, ![s].pick = pick]
  /\ UNCHANGED rows

-----------------------------------------------------------------------------
(* What a handler does when it has read the rows it has locked.            *)

\* SKIP LOCKED: a queued task is locked without waiting, then the claim counts the serve.
PickTask(s, t) ==
  /\ Ready(s, {"claim"}, 1)
  /\ tx[s].expert \in Matches[t]
  /\ status[t] = "queued" \/ TaskRow(t) \in tx[s].held
  /\ \A o \in Sessions \ {s} : TaskRow(t) \notin tx[o].held
  /\ tx' = [tx EXCEPT ![s].at = 2, ![s].task = t, ![s].held = @ \cup {TaskRow(t)},
                      ![s].todo = <<ExpertRow(tx[s].expert)>>]
  /\ UNCHANGED rows

\* The tick walks the experts by name and writes the scores that have changed.
ScoredExperts == UNION {InTurn(Names, E, ExpertRow) : E \in SUBSET Experts}

ScoreExperts(s) ==
  /\ Ready(s, {"tick"}, 1)
  /\ \E todo \in ScoredExperts : Proceed(s, todo, NoExpert)

Completes(t) == t \notin Golden /\ Len(graded[t]) + 1 >= Required[t]

\* The grade is inserted.  An agreed round refers to the grade it picks; a check of
\* attention may pause the expert, or move the score.
Grade(s) ==
  LET t == tx[s].task
      e == tx[s].expert
  IN
  /\ Ready(s, {"submit"}, 1)
  /\ Holds(e, t) /\ e \notin Graders(t)
  /\ \/ /\ t \in Golden
        /\ \E todo \in {<<>>, <<ExpertRow(e)>>, <<ExpertRow(e), PayoutRows(e)>>} :
             Proceed(s, todo, NoExpert)
     \/ /\ t \notin Golden
        /\ \/ Proceed(s, <<>>, NoExpert)
           \/ /\ Completes(t) /\ Required[t] >= 2
              /\ \E pick \in Graders(t) \cup {e} :
                   Proceed(s, IF pick = e THEN <<>> ELSE <<GradeRow(t, pick)>>, pick)

\* Faulty variant of ConsensusPending: an open adjudication does not count.
AdjudicationIgnored(t) ==
  t \notin Golden /\ Required[t] >= 2 /\ Len(graded[t]) < Required[t]

\* _reject_if_consensus_pending: the task is read, and not locked.
ConsensusPending(t) ==
  /\ t \notin Golden
  /\ Required[t] >= 2
  /\ Len(graded[t]) < Required[t] \/ status[t] = "adjudication"

\* The review is inserted; the task is locked, and for a rejection the round, if any.
ReviewTask(s) ==
  LET t == tx[s].task IN
  /\ Ready(s, {"approve", "reject"}, 1)
  /\ tx[s].expert \notin judged[t]
  /\ ~ConsensusPending(t)
  /\ Proceed(s, <<TaskRow(t)>> \o IF tx[s].kind = "reject" /\ round[t] # "none"
                                  THEN <<RoundRow(t)>> ELSE <<>>, NoExpert)

\* redeliver: the unrejected grades, or of them the approved ones.
Candidates(t, e) ==
  LET pool     == Graders(t) \ (rejected[t] \cup {e})
      approved == pool \cap judged[t]
  IN IF approved = {} THEN pool ELSE approved

\* The delivery is picked again and refers to another grade; then the score is written.
ReviewExpert(s) ==
  LET t == tx[s].task
      e == tx[s].expert
      redelivers == tx[s].kind = "reject" /\ round[t] = "agreed" /\ delivered[t] = e
  IN
  /\ Ready(s, {"approve", "reject"}, 2)
  /\ \E score \in Perhaps(<<ExpertRow(e)>>) :
       \/ /\ redelivers
          /\ \E pick \in Candidates(t, e) : Proceed(s, <<GradeRow(t, pick)>> \o score, pick)
       \/ /\ ~redelivers \/ Candidates(t, e) = {}
          /\ Proceed(s, score, NoExpert)

\* The adjudicator has found the round open, and locks the task.
ResolveTask(s) ==
  LET t == tx[s].task IN
  /\ Ready(s, {"resolve"}, 1)
  /\ round[t] = "adjudicating"
  /\ \E pick \in Graders(t) : Proceed(s, <<TaskRow(t)>>, pick)

\* The review of the next grade is inserted, and its author's score written before another.
ResolveGrade(s) ==
  LET t == tx[s].task
      k == tx[s].at - 1
  IN
  /\ Ready(s, {"resolve"}, k + 1)
  /\ k \in DOMAIN graded[t]
  /\ \E score \in Perhaps(<<ExpertRow(graded[t][k])>>) :
       Proceed(s, <<GradeRow(t, graded[t][k])>> \o score, tx[s].pick)

\* The UPDATE that moves the queue to the new version, in an order of its own: tasks
\* without a grade that counts, requeued ones among them, but for those of other versions.
MoveQueue(s) ==
  /\ Ready(s, {"publish"}, 1)
  /\ \E moved \in SUBSET {t \in Tasks : status[t] = "queued" /\ Untouched(t)} :
       \E todo \in SetToSeqs({TaskRow(t) : t \in moved}) : Proceed(s, todo, NoExpert)

-----------------------------------------------------------------------------
(* Commits.                                                                *)

Free(s) == tx' = [tx EXCEPT ![s] = Closed]

\* The tasks that a transaction has reclaimed are back in the queue.
Reclaimed(s) == {t \in Tasks : TaskRow(t) \in tx[s].held /\ status[t] = "due"}

\* A sweep, a tick, or a claim, with or without a task.
CommitReclaim(s) ==
  /\ \/ Ready(s, {"sweep"}, 1) \/ Ready(s, {"claim", "tick"}, 2)
     \/ /\ Ready(s, {"claim"}, 1)
        /\ \A t \in Tasks : status[t] = "queued" \/ TaskRow(t) \in tx[s].held =>
             \/ tx[s].expert \notin Matches[t] \ Graders(t)
             \/ \E o \in Sessions \ {s} : TaskRow(t) \in tx[o].held
  /\ status' = [t \in Tasks |-> IF t = tx[s].task THEN "assigned"
                                ELSE IF t \in Reclaimed(s) THEN "queued" ELSE status[t]]
  /\ holder' = [t \in Tasks |-> IF t = tx[s].task THEN tx[s].expert
                                ELSE IF t \in Reclaimed(s) THEN NoExpert ELSE holder[t]]
  /\ Free(s)
  /\ UNCHANGED <<graded, judged, rejected, round, delivered>>

CommitRelease(s) ==
  LET t == tx[s].task IN
  /\ Ready(s, {"release"}, 1)
  /\ Holds(tx[s].expert, t)
  /\ status' = [status EXCEPT ![t] = "queued"]
  /\ holder' = [holder EXCEPT ![t] = NoExpert]
  /\ Free(s)
  /\ UNCHANGED <<graded, judged, rejected, round, delivered>>

CommitSubmit(s) ==
  LET t    == tx[s].task
      pick == tx[s].pick
  IN
  /\ Ready(s, {"submit"}, 2)
  /\ \/ /\ ~Completes(t)
        /\ status' = [status EXCEPT ![t] = "queued"]
        /\ UNCHANGED <<round, delivered>>
     \/ /\ Completes(t) /\ (Required[t] < 2 \/ pick # NoExpert)
        /\ status' = [status EXCEPT ![t] = "done"]
        /\ round' = [round EXCEPT ![t] = IF pick = NoExpert THEN @ ELSE "agreed"]
        /\ delivered' = [delivered EXCEPT ![t] = pick]
     \/ /\ Completes(t) /\ Required[t] >= 2 /\ pick = NoExpert
        /\ status' = [status EXCEPT ![t] = "adjudication"]
        /\ round' = [round EXCEPT ![t] = "adjudicating"]
        /\ UNCHANGED delivered
  /\ graded' = [graded EXCEPT ![t] = Append(@, tx[s].expert)]
  /\ holder' = [holder EXCEPT ![t] = NoExpert]
  /\ Free(s)
  /\ UNCHANGED <<judged, rejected>>

\* The rejected grade of a task with one grader is replaced: the task is queued again.
CommitReview(s) ==
  LET t == tx[s].task
      e == tx[s].expert
      rejects == tx[s].kind = "reject"
  IN
  /\ Ready(s, {"approve", "reject"}, 3)
  /\ judged' = [judged EXCEPT ![t] = @ \cup {e}]
  /\ rejected' = IF rejects THEN [rejected EXCEPT ![t] = @ \cup {e}] ELSE rejected
  /\ status' = IF rejects /\ t \notin Golden /\ Required[t] = 1
               THEN [status EXCEPT ![t] = "queued"] ELSE status
  /\ delivered' = IF rejects /\ round[t] = "agreed" /\ delivered[t] = e
                  THEN [delivered EXCEPT ![t] = tx[s].pick] ELSE delivered
  /\ Free(s)
  /\ UNCHANGED <<holder, graded, round>>

CommitResolve(s) ==
  LET t == tx[s].task IN
  /\ Ready(s, {"resolve"}, Len(graded[t]) + 2)
  /\ status' = [status EXCEPT ![t] = "done"]
  /\ round' = [round EXCEPT ![t] = "adjudicated"]
  /\ delivered' = [delivered EXCEPT ![t] = tx[s].pick]
  /\ judged' = [judged EXCEPT ![t] = Graders(t)]
  /\ rejected' = [rejected EXCEPT ![t] = Graders(t) \ {tx[s].pick}]
  /\ Free(s)
  /\ UNCHANGED <<holder, graded>>

\* The end of a transaction that changes none of these rows, of one that is refused, of
\* the victim of a deadlock, or by a crash.
End(s) ==
  /\ tx[s] # Closed
  /\ Free(s)
  /\ UNCHANGED rows

-----------------------------------------------------------------------------
Next ==
  \/ \E t \in Tasks : Expire(t)
  \/ \E s \in Sessions :
       \/ BeginSweep(s) \/ BeginPublish(s) \/ BeginClose(s)
       \/ \E e \in Experts : BeginClaim(s, e) \/ BeginStatus(s, e)
       \/ \E e \in Experts, t \in Tasks : BeginGivingUp(s, e, t) \/ BeginReview(s, e, t)
       \/ \E t \in Tasks : BeginResolve(s, t) \/ PickTask(s, t)
       \/ Lock(s) \/ ScoreExperts(s) \/ Grade(s) \/ ReviewTask(s) \/ ReviewExpert(s)
       \/ ResolveTask(s) \/ ResolveGrade(s) \/ MoveQueue(s)
       \/ CommitReclaim(s) \/ CommitRelease(s) \/ CommitSubmit(s) \/ CommitReview(s)
       \/ CommitResolve(s) \/ End(s)

Spec == Init /\ [][Next]_vars

-----------------------------------------------------------------------------
(* Properties.                                                             *)

\* Sessions that wait for each other in a circle, and nobody else.
Circle(C) ==
  /\ C # {}
  /\ \A s \in C : /\ \E o \in C : Waits(s, o)
                  /\ \E o \in C : Waits(o, s)

Deadlock(C) == Circle(C) /\ \A D \in SUBSET C : Circle(D) => D = C

\* The deadlocks that the database has to break are of two kinds.  Transactions that
\* write the scores of several experts meet them in different orders, and one of them
\* is a resolution, which goes by the grades and not by the names (resolve, tick).  Or
\* two reviews of one task are under way, and the rejection of the delivered grade picks
\* the other one's grade (redeliver).  Claims, submissions, releases, publications and
\* payouts are never part of one, nor is a review together with a resolution.
DeadlocksKnown ==
  \A C \in SUBSET Sessions : Deadlock(C) =>
    \/ /\ \A s \in C : tx[s].kind \in {"resolve", "tick"} /\ Head(tx[s].todo)[1] = "expert"
       /\ \E s \in C : tx[s].kind = "resolve"
    \/ /\ \A s \in C : tx[s].kind \in {"approve", "reject"}
       /\ \A s, o \in C : tx[s].task = tx[o].task
       /\ \E s \in C : tx[s].kind = "reject" /\ tx[s].pick # NoExpert
==============================================================================
