------------------------------ MODULE Agreement ------------------------------
(***************************************************************************)
(* The agreement of the graders, read from grades of several rubric        *)
(* versions.  (services/analytics.py; publish in services/rubrics.py, the  *)
(* pin of a lease in routing.py, the grade's rubric in grading.py.)        *)
(*                                                                         *)
(* The task flow is composed with the versions of the rubric that its      *)
(* tasks are graded against.  A version has a single criterion here, and   *)
(* a grade's score on it is its weighted score: two versions have two      *)
(* criteria, whether or not these have the same key.  What a publication   *)
(* does to versions and leases is the subject of Rubrics; here it is one   *)
(* step, from any version, for the version was loaded before without a     *)
(* lock and may have been superseded since.                                *)
(***************************************************************************)
EXTENDS Reports

CONSTANTS
  MaxVersions,  \* bound: versions of the rubric
  Key           \* the key of each version's criterion

AgreementAssumption == MaxVersions \in Nat \ {0} /\ DOMAIN Key = 1 .. MaxVersions

ASSUME AgreementAssumption

VARIABLES
  latest,    \* the highest version: the versions are 1 .. latest
  rubric,    \* tasks.rubric_id, as a version
  pinned,    \* tasks.pinned_rubric_id, as a version; 0 for NULL
  gradedOn   \* grades: the version whose criterion was scored, 0 for no grade

versionVars == <<latest, rubric, pinned, gradedOn>>

VersionedInit ==
  /\ Init
  /\ latest = 1
  /\ rubric = [t \in Tasks |-> 1]
  /\ pinned = [t \in Tasks |-> 0]
  /\ gradedOn = [t \in Tasks |-> [e \in Experts |-> 0]]

Leased(t) == status[t] = "assigned" /\ lease[t] = "live"

\* A claim pins the version that the task has now; a grade scores the pinned one.
Flow ==
  /\ Next
  /\ pinned' = [t \in Tasks |-> IF Leased(t)' /\ ~Leased(t) THEN rubric[t] ELSE pinned[t]]
  /\ gradedOn' = [t \in Tasks |-> [e \in Experts |->
                    IF e \in Graders(t)' \ Graders(t) THEN pinned[t] ELSE gradedOn[t][e]]]
  /\ UNCHANGED <<latest, rubric>>

\* Faulty variant of Movable: partly graded tasks move too.
MovablePartly(v) == {t \in Tasks : rubric[t] = v /\ status[t] = "queued"}

\* The tasks that a publication moves from version v to its own.
Movable(v) == {t \in Tasks : rubric[t] = v /\ status[t] = "queued" /\ received[t] = 0}

Publish(v) ==
  /\ latest < MaxVersions
  /\ latest' = latest + 1
  /\ rubric' = [t \in Tasks |-> IF t \in Movable(v) THEN latest + 1 ELSE rubric[t]]
  /\ UNCHANGED <<vars, pinned, gradedOn>>

VersionedNext == Flow \/ \E v \in 1 .. latest : Publish(v)

VersionedSpec == VersionedInit /\ [][VersionedNext]_<<vars, versionVars>>

VersionedFairSpec == VersionedSpec /\ Fairness

-----------------------------------------------------------------------------
(* The reports.  Means are left as their sum and their number.             *)

Diff(t, a, b) == IF score[t][a] < score[t][b] THEN score[t][b] - score[t][a]
                 ELSE score[t][a] - score[t][b]

\* What is reported of a set of comparisons <<task, expert, expert>>.
Stats(compared) ==
  [tasks  |-> Count({c[1] : c \in compared}),
   n      |-> Count(compared),
   total  |-> SumFunction([c \in compared |-> Diff(c[1], c[2], c[3])]),
   exact  |-> Count({c \in compared : Diff(c[1], c[2], c[3]) = 0}),
   within |-> Count({c \in compared : Diff(c[1], c[2], c[3]) <= 1})]

\* Every pair of the task's grades once; the order within a pair is that in which the
\* database returns them.
Pairs(t) == {c \in {t} \X Graders(t) \X Graders(t) : position[t][c[3]] < position[t][c[2]]}

\* The two grades scored one criterion, or criteria of one key.
SameCriterion(c) == gradedOn[c[1]][c[2]] = gradedOn[c[1]][c[3]]
SameKey(c)       == Key[gradedOn[c[1]][c[2]]] = Key[gradedOn[c[1]][c[3]]]

\* Faulty variant of PairAgreement: grouped by the key of the criterion.
PairAgreementByKey(a, b) ==
  Stats({c \in Tasks \X {a} \X {b} : {a, b} \subseteq Graders(c[1]) /\ SameKey(c)})

\* pair_agreement: the tasks, golden ones included, that a and b have both graded, joined
\* on the criterion.
PairAgreement(a, b) ==
  Stats({c \in Tasks \X {a} \X {b} : {a, b} \subseteq Graders(c[1]) /\ SameCriterion(c)})

\* task_agreement: the pairs of the task's grades, grouped by the key of the criterion.
TaskAgreement(t) == Stats({c \in Pairs(t) : SameKey(c)})

\* Faulty variant of GlobalAgreement: golden tasks are compared, too.
GlobalAgreementGolden == Stats({c \in UNION {Pairs(t) : t \in Tasks} : SameCriterion(c)})

\* global_agreement: the pairs of grades of one regular task, joined on the criterion.
GlobalAgreement == Stats({c \in UNION {Pairs(t) : t \in Regular} : SameCriterion(c)})

-----------------------------------------------------------------------------
\* The tasks with grades of several versions: only the report per task may compare these.
Regraded ==
  {t \in Tasks : \E e, f \in Graders(t) : gradedOn[t][e] # gradedOn[t][f]}

\* The agreement reports compare the same pairs of grades, over all pairs of experts as
\* over all tasks, golden tasks apart in the global one.  Only a single-grader task that
\* was graded, rejected, moved by a publication and graded again has a pair that the report
\* per task alone may count, for it groups by key what the others join on the criterion:
\* without such tasks the exact agreements add up to the global ones.  And a task that is
\* counted as rejected twice is back in the queue until it is graded again
\* (pair_agreement, task_agreement, global_agreement, publish, _rejected_twice).
ReportsAgree ==
  LET experts == {c \in Experts \X Experts : c[1] # c[2]} IN
  /\ SumFunction([c \in experts |-> PairAgreement(c[1], c[2]).total])
       = 2 * (GlobalAgreement.total + SumFunction([t \in Golden |-> TaskAgreement(t).total]))
  /\ SumFunction([c \in experts |-> PairAgreement(c[1], c[2]).n])
       = 2 * (GlobalAgreement.n + SumFunction([t \in Golden |-> TaskAgreement(t).n]))
  /\ Regraded \subseteq {t \in Single : Rejections(t) >= 1}
  /\ SumFunction([t \in Regular \ Regraded |-> TaskAgreement(t).exact]) <= GlobalAgreement.exact
  /\ GlobalAgreement.exact <= SumFunction([t \in Regular |-> TaskAgreement(t).exact])
  /\ RejectedTwice =
       Count({t \in Single : Rejections(t) >= 2 /\ (Waiting(t) <=> Unrejected(t) = {})})
==============================================================================
